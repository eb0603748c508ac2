------------------------------ MODULE Chunking ------------------------------
(***************************************************************************)
(* Chunking of app/rag/chunking.py: _split_units reads a section line by   *)
(* line and tracks the path of headings, SentenceChunker._pack packs the   *)
(* units into chunks unit by unit, and FixedWindowChunker cuts windows.    *)
(*                                                                         *)
(* A word is its number in the text, so that what is lost, repeated or out *)
(* of order shows.                                                         *)
(***************************************************************************)
EXTENDS Integers, Sequences

CONSTANTS
  Lines,         \* what a line can be: [kind, words, ends, level]
  MAX_LINES,     \* length of the texts
  MAX_WORDS, OVERLAP_WORDS

ASSUME ChunkingAssumption ==
  /\ \A l \in Lines :
       /\ l \in [kind : {"blank", "heading", "item", "text"}, words : Nat, ends : BOOLEAN, level : Nat]
       /\ l.words = 0 <=> l.kind = "blank"
  /\ MAX_LINES \in Nat
  /\ MAX_WORDS \in Nat \ {0} /\ OVERLAP_WORDS \in 0..(MAX_WORDS - 1)

VARIABLES
  strategy,  \* "fixed", "sentence" or "structured"
  left,      \* the lines not read yet
  read,      \* words read so far
  split,     \* _split_units: its units, heading stack, pending_section and paragraph
  packed,    \* units packed so far
  current, fresh, out,  \* _pack: the chunk being built, how much of it is new, the chunks
  chunker    \* "split", "pack" or "done"

chunkVars == <<strategy, left, read, split, packed, current, fresh, out, chunker>>

\* Sequences of words put one after the other; those of a sequence of units.
Joined(ss) == LET f[i \in 0..Len(ss)] == IF i = 0 THEN <<>> ELSE f[i - 1] \o ss[i] IN f[Len(ss)]
Text(us)   == Joined([i \in DOMAIN us |-> us[i].text])
Smaller(a, b) == IF a < b THEN a ELSE b
Last(s, n) == SubSeq(s, Len(s) - n + 1, Len(s))

ChunkInit ==
  /\ strategy \in {"fixed", "sentence", "structured"}
  /\ left \in UNION {[1..n -> Lines] : n \in 0..MAX_LINES}
  /\ read = 0
  /\ split = [units |-> <<>>, stack |-> <<>>, pending |-> FALSE, para |-> <<>>]
  /\ packed = 0 /\ current = <<>> /\ fresh = 0 /\ out = <<>>
  /\ chunker = "split"

\* add: the pieces become units under the current heading path; the first one after a heading
\* starts the section.
Add(s, pieces, isHeading) ==
  [s EXCEPT !.units = @ \o [i \in DOMAIN pieces |->
                              [text |-> pieces[i], path |-> s.stack, heading |-> isHeading,
                               starts |-> s.pending /\ i = 1]],
            !.pending = @ /\ pieces = <<>>]

\* _sentences: the paragraph's lines joined and cut where a sentence ends.
Sentences(para) ==
  LET f[i \in 0..Len(para)] ==
        IF i = 0 THEN <<>>
        ELSE IF i > 1 /\ ~para[i - 1].ends
          THEN [f[i - 1] EXCEPT ![Len(f[i - 1])] = @ \o para[i].text]
          ELSE Append(f[i - 1], para[i].text)
  IN f[Len(para)]

EndParagraph(s) == [Add(s, Sentences(s.para), FALSE) EXCEPT !.para = <<>>]

\* The headings a new one is under, and itself: those at its level or deeper are closed.
Pushed(stack, h) ==
  LET open == {n \in 0..Len(stack) : \A i \in 1..n : stack[i].level < h.level}
      n    == CHOOSE n \in open : \A k \in open : k <= n
  IN Append(SubSeq(stack, 1, n), h)

Numbered(n) == [i \in 1..n |-> read + i]
ReadLine ==
  /\ chunker = "split" /\ left # <<>>
  /\ LET line == Head(left)
         text == Numbered(line.words)
         done == EndParagraph(split)
     IN split' = CASE line.kind = "text" ->
                        [split EXCEPT !.para = Append(@, [text |-> text, ends |-> line.ends])]
                   [] line.kind = "blank" -> done
                   [] line.kind = "item"  -> Add(done, <<text>>, FALSE)
                   [] line.kind = "heading" ->
                        Add([done EXCEPT !.stack = Pushed(@, [level |-> line.level, at |-> read + 1]),
                                         !.pending = TRUE], <<text>>, TRUE)
  /\ read' = read + Head(left).words
  /\ left' = Tail(left)
  /\ UNCHANGED <<strategy, packed, current, fresh, out, chunker>>

EndOfText ==
  /\ chunker = "split" /\ left = <<>>
  /\ split' = EndParagraph(split)
  /\ chunker' = "pack"
  /\ UNCHANGED <<strategy, left, read, packed, current, fresh, out>>

\* Windows of MAX_WORDS, each MAX_WORDS - overlap after the last, until one reaches the end.
Cuts(words, path, overlap) ==
  LET step  == MAX_WORDS - overlap
      count == CHOOSE n \in 0..Len(words) :
                 /\ n = 0 <=> words = <<>>
                 /\ n > 0 => (n - 1) * step + MAX_WORDS >= Len(words)
                 /\ n > 1 => (n - 2) * step + MAX_WORDS < Len(words)
  IN [i \in 1..count |->
        LET start == (i - 1) * step
            text  == SubSeq(words, start + 1, Smaller(start + MAX_WORDS, Len(words)))
        IN [path |-> path, text |-> text,
            new |-> IF i = 1 THEN text ELSE SubSeq(text, overlap + 1, Len(text))]]

\* section.text.split() and the windows over it, headings and all.
Window ==
  /\ chunker = "pack" /\ strategy = "fixed"
  /\ out' = Cuts(Text(split.units), <<>>, OVERLAP_WORDS)
  /\ chunker' = "done"
  /\ UNCHANGED <<strategy, left, read, split, packed, current, fresh>>

\* emit: the chunk being built, under the heading of its first new unit.
Emitted ==
  IF fresh = 0 THEN out
  ELSE Append(out, [path |-> current[Len(current) - fresh + 1].path, text |-> Text(current),
                    new |-> Text(Last(current, fresh))])

\* A single over-long unit, cut hard.
Pieces(u) == Cuts(u.text, u.path, 0)

\* A bug _overlap could have: what comes next is not counted.
OverlapUnbounded(size) ==
  LET fit == {n \in 0..Len(current) : Len(Text(Last(current, n))) <= OVERLAP_WORDS}
  IN Last(current, CHOOSE n \in fit : \A m \in fit : m <= n)

\* _overlap: the trailing units that fit the overlap budget and leave room for the next one.
Overlap(size) ==
  LET budget == Smaller(OVERLAP_WORDS, MAX_WORDS - size)
      fit    == {n \in 0..Len(current) : Len(Text(Last(current, n))) <= budget}
  IN Last(current, CHOOSE n \in fit : \A m \in fit : m <= n)

PackUnit ==
  /\ chunker = "pack" /\ strategy # "fixed" /\ packed < Len(split.units)
  /\ LET u       == split.units[packed + 1]
         size    == Len(u.text)
         closes  == strategy = "structured" /\ u.starts /\ current # <<>>
         before  == IF closes THEN <<>> ELSE current
         full    == before # <<>> /\ Len(Text(before)) + size > MAX_WORDS
     IN IF strategy = "structured" /\ u.heading
          THEN /\ out' = IF closes THEN Emitted ELSE out
               /\ current' = before
               /\ fresh' = IF closes THEN 0 ELSE fresh
        ELSE IF size > MAX_WORDS
          THEN out' = Emitted \o Pieces(u) /\ current' = <<>> /\ fresh' = 0
          ELSE /\ out' = IF closes \/ full THEN Emitted ELSE out
               /\ current' = Append(IF full THEN Overlap(size) ELSE before, u)
               /\ fresh' = IF closes \/ full THEN 1 ELSE fresh + 1
  /\ packed' = packed + 1
  /\ UNCHANGED <<strategy, left, read, split, chunker>>

EndOfUnits ==
  /\ chunker = "pack" /\ strategy # "fixed" /\ packed = Len(split.units)
  /\ out' = Emitted
  /\ chunker' = "done"
  /\ UNCHANGED <<strategy, left, read, split, packed, current, fresh>>

ChunkNext == ReadLine \/ EndOfText \/ Window \/ PackUnit \/ EndOfUnits
ChunkSpec == ChunkInit /\ [][ChunkNext]_chunkVars
-----------------------------------------------------------------------------
ChunkTypeOK ==
  /\ chunker \in {"split", "pack", "done"}
  /\ read \in Nat /\ packed \in 0..Len(split.units)
  /\ fresh \in 0..Len(current)
  /\ \A i \in DOMAIN out : Len(out[i].text) > 0

\* The headings in force at a word: those before it that no later one before it closes.
Level(u) == u.path[Len(u.path)].level
PathAt(w) ==
  LET us == split.units
      Before(k) == us[k].heading /\ us[k].text[1] <= w
  IN {us[k].text[1] : k \in {k \in DOMAIN us :
        Before(k) /\ \A j \in (k + 1)..Len(us) : Before(j) => Level(us[j]) > Level(us[k])}}

\* What there is to chunk: a structured chunk has its headings in its path.
Kept(u) == IF strategy = "structured" /\ u.heading THEN <<>> ELSE u.text
Body    == Joined([i \in DOMAIN split.units |-> Kept(split.units[i])])

\* Every word of the text is in a unit, and every one to chunk is new in exactly one chunk, in the
\* order of the text; no chunk exceeds MAX_WORDS; what a chunk repeats is at most OVERLAP_WORDS
\* words that directly precede its new ones (SentenceChunker._pack and _overlap,
\* chunking.py:132-176; FixedWindowChunker.chunk, :54).
ChunksCover ==
  chunker = "done" =>
    /\ Text(split.units) = [w \in 1..read |-> w]
    /\ Joined([i \in DOMAIN out |-> out[i].new]) = Body
    /\ \A i \in DOMAIN out :
         LET c == out[i]
             repeated == SubSeq(c.text, 1, Len(c.text) - Len(c.new))
         IN /\ Len(c.text) <= MAX_WORDS
            /\ Len(repeated) <= OVERLAP_WORDS
            /\ c.text = repeated \o c.new
            /\ \E k \in 0..(Len(Body) - Len(c.text)) : c.text = SubSeq(Body, k + 1, k + Len(c.text))

\* A structured chunk is under one heading path, that of every word in it, repeated ones included
\* (_split_units, chunking.py:100-106; _pack, :144-148).
OneSectionPerChunk ==
  chunker = "done" /\ strategy = "structured" =>
    \A i \in DOMAIN out : \A w \in DOMAIN out[i].text :
      {out[i].path[k].at : k \in DOMAIN out[i].path} = PathAt(out[i].text[w])
=============================================================================
