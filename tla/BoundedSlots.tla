---------------------------- MODULE BoundedSlots ----------------------------
(***************************************************************************)
(* What InferenceGate promises of its slots (app/core/concurrency.py): at  *)
(* most Limit clients hold one, whoever has to wait waits in line, a slot  *)
(* is given to the first in line, and nobody who comes later overtakes.    *)
(***************************************************************************)
EXTENDS Naturals, FiniteSets

CONSTANTS Clients, Limit

VARIABLES
  held,    \* the clients that hold a slot
  line,    \* the clients that wait
  before   \* <<a, b>>: a was in line when b came to it
slotVars == <<held, line, before>>

SlotsInit == held = {} /\ line = {} /\ before = {}

\* A newcomer takes a free slot, if nobody waits, or the end of the line.
Come(c) ==
  /\ c \notin held \cup line
  /\ \/ /\ line = {} /\ Cardinality(held) < Limit
        /\ held' = held \cup {c} /\ UNCHANGED <<line, before>>
     \/ /\ line' = line \cup {c} /\ before' = before \cup (line \X {c})
        /\ UNCHANGED held

\* Clients leave, with their slot or from the line, and the first in line get what is free.
Serve(gone) ==
  \E served \in SUBSET (line \ gone) :
    /\ \A a \in served, b \in line \ gone : <<b, a>> \in before => b \in served
    /\ held' = (held \ gone) \cup served
    /\ line' = (line \ gone) \ served
    /\ before' = before \cap (line' \X line')
    /\ Cardinality(held') <= Limit

SlotsNext == (\E gone \in SUBSET Clients : Serve(gone)) \/ (\E c \in Clients : Come(c))
SlotsSpec == SlotsInit /\ [][SlotsNext]_slotVars
=============================================================================
