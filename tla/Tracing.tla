------------------------------ MODULE Tracing -------------------------------
(***************************************************************************)
(* One request under LangfuseTracer.chat (app/observability/tracing.py):   *)
(* two contexts of the SDK around the request's own code, each call into   *)
(* the SDK of which may raise.                                             *)
(***************************************************************************)
EXTENDS Integers

VARIABLES
  traced,   \* where the request is
  entered,  \* contexts the ExitStack holds
  body,     \* how the request's own code ended
  noted,    \* trace.error
  updates,  \* calls of generation.update that took effect
  outcome,  \* what the caller sees
  escaped   \* an exit of the SDK raised

traceVars == <<traced, entered, body, noted, updates, outcome, escaped>>

TraceInit ==
  /\ traced = "propagate" /\ entered = 0 /\ body = "none" /\ noted = FALSE
  /\ updates = 0 /\ outcome = "none" /\ escaped = FALSE

\* propagate_attributes, then start_as_current_observation: a raise of either, and the request is
\* served untraced, within the contexts entered so far.
EnterContext ==
  /\ traced \in {"propagate", "start"}
  /\ \/ /\ entered' = entered + 1
        /\ traced' = IF traced = "propagate" THEN "start" ELSE "traced"
     \/ traced' = "untraced" /\ UNCHANGED entered
  /\ UNCHANGED <<body, noted, updates, outcome, escaped>>

\* The request's own code, at the yield; a stream whose client left is thrown GeneratorExit, which
\* is no Exception.
Serve(how) ==
  /\ traced \in {"traced", "untraced"}
  /\ body' = how
  /\ noted' = (traced = "traced" /\ how = "raised")
  /\ traced' = IF traced = "traced" THEN "record" ELSE "exit"
  /\ UNCHANGED <<entered, updates, outcome, escaped>>

\* _record, whose exceptions are logged.
RecordTrace ==
  /\ traced = "record"
  /\ updates' \in {updates, updates + 1}
  /\ traced' = "exit"
  /\ UNCHANGED <<entered, body, noted, outcome, escaped>>

\* The ExitStack unwinds: nothing guards the exits of the SDK's contexts.
Unwind ==
  /\ traced = "exit" /\ entered > 0
  /\ entered' = entered - 1
  /\ escaped' \in {escaped, TRUE}
  /\ UNCHANGED <<traced, body, noted, updates, outcome>>

Return ==
  /\ traced = "exit" /\ entered = 0
  /\ traced' = "done"
  /\ outcome' = IF escaped THEN "raised" ELSE body
  /\ UNCHANGED <<entered, body, noted, updates, escaped>>

TraceNext ==
  EnterContext \/ (\E how \in {"answered", "raised", "left"} : Serve(how)) \/ RecordTrace \/ Unwind \/ Return
TraceSpec == TraceInit /\ [][TraceNext]_traceVars
-----------------------------------------------------------------------------
\* "Never fatal", but for one place: whatever entering the SDK's contexts and recording raise, the
\* caller sees what the request's own code did; an exit of those contexts that raises is what the
\* caller sees instead, whatever the code did (chat, tracing.py:104-133).  In every case each
\* context entered is left, and a trace is recorded at most once, with the error there was.
NeverFatal ==
  traced = "done" =>
    /\ outcome = IF escaped THEN "raised" ELSE body
    /\ entered = 0
    /\ updates <= 1 /\ (updates = 1 /\ body = "raised" => noted)
=============================================================================
