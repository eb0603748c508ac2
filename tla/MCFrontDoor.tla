---------------------------- MODULE MCFrontDoor ----------------------------
(* What a request meets around the gateway's own work, and what runs       *)
(* beside it.  The ten components share no state with one another: the     *)
(* first state says which of them moves.                                   *)
EXTENDS ApiKeys, TokenBucket, InferenceGate, FaultInjector, Metering, ProviderStream, Replica,
        Alerts, Tracing, JobLedger, TLC

CONSTANTS
  k1, b1, b2, o1, o2, q1, q2, c1, c2, c3, c4, c5, u1, u2, pod1, pod2, call1, call2, doc1, doc2,
  hook1, hook2, job1, job2, rd1, rd2

AllOnOnePod == call1 :> pod1 @@ call2 :> pod1

\* Nothing, a letter, a word that may end or begin in the middle of one, and a line break.
PiecesOfText == {<<>>, <<"a">>, <<"s", "a">>, <<"a", "s">>, <<"n", "a">>}

AllSame == Permutations({job1, job2})

VARIABLE part

FrontDoorInit ==
  /\ part \in {"keys", "bucket", "gate", "faults", "meter", "stream", "replica", "alerts",
              "tracing", "ledger"}
  /\ KeysInit /\ BucketInit /\ FaultInit /\ MeterInit /\ AlertsInit /\ TraceInit
  /\ LedgerInit
  /\ GateInit /\ (part # "gate" => budgeted)
  /\ StreamInit /\ (part # "stream" => adapter = "mock")
  /\ ReplicaInit /\ (part # "replica" => settings = CHOOSE s \in Settings : TRUE)

FrontDoorNext ==
  /\ part' = part
  /\ \/ part = "keys" /\ KeysNext
        /\ UNCHANGED <<bucketVars, gateVars, faultVars, meterVars, streamVars, replicaVars,
                       alertVars, traceVars, ledgerVars>>
     \/ part = "bucket" /\ BucketNext
        /\ UNCHANGED <<keyVars, gateVars, faultVars, meterVars, streamVars, replicaVars,
                       alertVars, traceVars, ledgerVars>>
     \/ part = "gate" /\ GateNext
        /\ UNCHANGED <<keyVars, bucketVars, faultVars, meterVars, streamVars, replicaVars,
                       alertVars, traceVars, ledgerVars>>
     \/ part = "faults" /\ FaultNext
        /\ UNCHANGED <<keyVars, bucketVars, gateVars, meterVars, streamVars, replicaVars,
                       alertVars, traceVars, ledgerVars>>
     \/ part = "meter" /\ MeterNext
        /\ UNCHANGED <<keyVars, bucketVars, gateVars, faultVars, streamVars, replicaVars,
                       alertVars, traceVars, ledgerVars>>
     \/ part = "stream" /\ StreamNext
        /\ UNCHANGED <<keyVars, bucketVars, gateVars, faultVars, meterVars, replicaVars,
                       alertVars, traceVars, ledgerVars>>
     \/ part = "replica" /\ ReplicaNext
        /\ UNCHANGED <<keyVars, bucketVars, gateVars, faultVars, meterVars, streamVars,
                       alertVars, traceVars, ledgerVars>>
     \/ part = "alerts" /\ AlertsNext
        /\ UNCHANGED <<keyVars, bucketVars, gateVars, faultVars, meterVars, streamVars,
                       replicaVars, traceVars, ledgerVars>>
     \/ part = "tracing" /\ TraceNext
        /\ UNCHANGED <<keyVars, bucketVars, gateVars, faultVars, meterVars, streamVars,
                       replicaVars, alertVars, ledgerVars>>
     \/ part = "ledger" /\ LedgerNext
        /\ UNCHANGED <<keyVars, bucketVars, gateVars, faultVars, meterVars, streamVars,
                       replicaVars, alertVars, traceVars>>

\* Types, and the accounts of the keys' structures, the bucket, the gate's slots, the fault table,
\* the usage reports, the recent alerts and the traces, each as its module says.
FrontDoorTypes ==
  /\ KeysTypeOK /\ BucketTypeOK /\ GateTypeOK /\ FaultTypeOK /\ MeterTypeOK
  /\ NewestKept /\ NeverFatal
=============================================================================
