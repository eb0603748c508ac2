--------------------------- MODULE ProviderStream ---------------------------
(***************************************************************************)
(* One streamed answer, from the adapter that produces it                  *)
(* (app/gateway/providers.py) to its price (_relay, _absorb, _estimate and *)
(* _settle of app/gateway/router.py).  Text is a sequence of letters "a",  *)
(* spaces "s" and line breaks "n", cut into parts anywhere; a token is a   *)
(* word.  The client may leave at every await and every yield.             *)
(***************************************************************************)
EXTENDS Integers, Sequences, FiniteSets

CONSTANTS
  Pieces,     \* the contents a hosted provider's part may have
  Reports,    \* the completion tokens it may report
  MAX_PARTS,  \* bound: parts of one stream
  ANSWER      \* words of the mock provider's answer

ASSUME StreamAssumption ==
  /\ Pieces \subseteq Seq({"a", "s", "n"}) /\ Reports \subseteq Nat
  /\ MAX_PARTS \in Nat /\ ANSWER \in 1..MAX_PARTS

VARIABLES
  adapter,  \* LiteLLMProvider, MockProvider, or one that only has complete
  place,    \* where the stream is suspended
  parts,    \* the deltas the adapter has yielded
  opened,   \* OpenStream: usage, reported_usage, usage_estimated, settled
  firstDelta,    \* opened.first, until the relay takes it
  words,    \* the relay's running count
  text,     \* what has gone out
  counted,  \* how often its tokens were added to the metrics
  bill      \* what the client's departure is billed from

streamVars == <<adapter, place, parts, opened, firstDelta, words, text, counted, bill>>

Silent == -1                    \* no usage in a delta
Delta(content, reported) == [content |-> content, usage |-> reported]
NotOpen == [usage |-> 0, reported |-> FALSE, estimated |-> FALSE, settled |-> FALSE]

StreamInit ==
  /\ adapter \in {"litellm", "mock", "plain"}
  /\ place = "opening" /\ parts = <<>>
  /\ opened = NotOpen /\ firstDelta = <<>> /\ words = 0 /\ text = <<>>
  /\ counted = 0 /\ bill = Silent

\* str.count(" "), and len(str.split()).
Spaces(t) == Cardinality({i \in DOMAIN t : t[i] = "s"})
Words(t)  == Cardinality({i \in DOMAIN t : t[i] = "a" /\ (i = 1 \/ t[i - 1] # "a")})

-----------------------------------------------------------------------------
\* A part of a hosted provider's stream: no choices, no content and no usage are all possible.
LiteLLMParts == {Delta(c, u) : c \in Pieces, u \in Reports \cup {Silent}}
\* A word at a time, and then the usage.
MockParts(n) == IF n < ANSWER THEN {Delta(IF n = 0 THEN <<"a">> ELSE <<"s", "a">>, Silent)}
                ELSE {Delta(<<>>, ANSWER)}
\* _chunk_completion: the complete answer, one piece at least, and then its usage.
ChunkParts(n) == {Delta(c, Silent) : c \in IF n = 0 THEN Pieces ELSE Pieces \ {<<>>}}
                   \cup (IF n = 0 THEN {} ELSE {Delta(<<>>, u) : u \in Reports})

\* The delta that carries the usage is the last one of the adapters that make it themselves.
ReportSent == parts # <<>> /\ parts[Len(parts)].usage # Silent
Offered ==
  CASE adapter = "litellm" -> IF Len(parts) < MAX_PARTS THEN LiteLLMParts ELSE {}
    [] adapter = "mock"    -> IF ReportSent THEN {} ELSE MockParts(Len(parts))
    [] adapter = "plain"   -> IF ReportSent THEN {}
                              ELSE {d \in ChunkParts(Len(parts)) :
                                      Len(parts) < MAX_PARTS \/ d.usage # Silent}
MayEnd == adapter = "litellm" \/ ReportSent
\* An exception or a timeout; a chunked answer is there already.
MayFail == adapter = "litellm" \/ (adapter = "mock" /\ ~ReportSent) \/ parts = <<>>

-----------------------------------------------------------------------------
\* _absorb
Absorb(o, d) == IF d.usage = Silent THEN o ELSE [o EXCEPT !.usage = d.usage, !.reported = TRUE]

\* A bug _estimate could have: it prices over the provider's own report.
EstimateAnyway(o, n) == [o EXCEPT !.usage = n, !.estimated = TRUE]
\* _estimate
Estimate(o, n) == IF o.reported THEN o ELSE [o EXCEPT !.usage = n, !.estimated = TRUE]

\* _settle
Settle(o, t) ==
  IF o.settled THEN o
  ELSE IF o.reported THEN [o EXCEPT !.settled = TRUE, !.estimated = FALSE]
  ELSE [o EXCEPT !.settled = TRUE, !.estimated = TRUE, !.usage = Words(t)]
Settles == /\ opened' = Settle(opened, text)
           /\ counted' = IF opened.settled THEN counted ELSE counted + 1

\* _open_with_retries: the first delta, whatever it holds, opens the stream.
Open ==
  /\ place = "opening"
  /\ \E d \in Offered : firstDelta' = d /\ parts' = <<d>>
  /\ place' = "first"
  /\ UNCHANGED <<adapter, opened, words, text, counted, bill>>

\* An error, a timeout, or a stream that ends at once: the next attempt is another stream.
NotOpened ==
  /\ place = "opening" /\ (MayFail \/ MayEnd)
  /\ place' = "failed"
  /\ UNCHANGED <<adapter, parts, opened, firstDelta, words, text, counted, bill>>

\* The client has the first delta and asks for more: the relay begins.
Begin ==
  /\ place = "first"
  /\ text' = firstDelta.content
  /\ words' = Spaces(text') + (IF text' = <<>> THEN 0 ELSE 1)
  /\ opened' = Estimate(Absorb(opened, firstDelta), words')
  /\ place' = "waiting"
  /\ UNCHANGED <<adapter, parts, firstDelta, counted, bill>>

\* The next delta; what has no content is not yielded.
ReadDelta ==
  /\ place = "waiting"
  /\ \E d \in Offered :
       /\ parts' = Append(parts, d)
       /\ text' = text \o d.content
       /\ words' = words + Spaces(d.content)
       /\ opened' = IF d.content = <<>> THEN Absorb(opened, d)
                    ELSE Estimate(Absorb(opened, d), words')
       /\ place' = IF d.content = <<>> THEN "waiting" ELSE "yielded"
  /\ UNCHANGED <<adapter, firstDelta, counted, bill>>

ReadOn ==
  /\ place = "yielded"
  /\ place' = "waiting"
  /\ UNCHANGED <<adapter, parts, opened, firstDelta, words, text, counted, bill>>

EndOfStream ==
  /\ place = "waiting" /\ MayEnd
  /\ Settles
  /\ place' = "complete"
  /\ UNCHANGED <<adapter, parts, firstDelta, words, text, bill>>

BreakOff ==
  /\ place = "waiting" /\ MayFail
  /\ Settles
  /\ place' = "broken"
  /\ UNCHANGED <<adapter, parts, firstDelta, words, text, bill>>

\* The client leaves: between two chunks the bill is the running one, and the relay settles when
\* its generator is closed; while a chunk is awaited the relay settles first.
Leave ==
  /\ place \in {"yielded", "waiting"}
  /\ Settles
  /\ bill' = IF place = "yielded" THEN opened.usage ELSE opened'.usage
  /\ place' = "left"
  /\ UNCHANGED <<adapter, parts, firstDelta, words, text>>

StreamNext == Open \/ NotOpened \/ Begin \/ ReadDelta \/ ReadOn \/ EndOfStream \/ BreakOff \/ Leave
StreamSpec == StreamInit /\ [][StreamNext]_streamVars
-----------------------------------------------------------------------------
Told == {i \in DOMAIN parts : parts[i].usage # Silent}
Breaks(t) == Cardinality({i \in DOMAIN t : t[i] = "n"})
Started == place \notin {"opening", "first", "failed"}

\* However it is cut into parts and however it ends, a stream is priced once, on what the provider
\* last reported if it reported anything, else on the words that went out; and the running count
\* never lags behind those by more than a first word that came late and one word per line break
\* (_relay, _estimate and _settle, router.py:358-361, :413-441).
StreamPriced ==
  /\ counted = (IF opened.settled THEN 1 ELSE 0)
  /\ opened.settled <=> place \in {"complete", "broken", "left"}
  /\ Started /\ Told # {} =>
       /\ opened.usage = parts[CHOOSE i \in Told : \A j \in Told : j <= i].usage
       /\ opened.settled => ~opened.estimated
  /\ Started /\ Told = {} =>
       /\ opened.estimated
       /\ Words(text) <= opened.usage + 1 + Breaks(text)
       /\ opened.settled => opened.usage = Words(text)
  /\ bill # Silent /\ Told = {} => Words(text) <= bill + 1 + Breaks(text)
  /\ adapter = "mock" /\ place = "complete" => opened.usage = Words(text)
=============================================================================
