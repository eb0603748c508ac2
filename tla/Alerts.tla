------------------------------- MODULE Alerts -------------------------------
(***************************************************************************)
(* The Alertmanager webhook (app/api/alerts.py): deliveries on any replica *)
(* push their alerts onto one list in Redis and trim it, in a transaction, *)
(* and GET /v1/admin/alerts reads the head of it.                          *)
(***************************************************************************)
EXTENDS Integers, Sequences, SequencesExt

CONSTANTS
  Hooks,       \* concurrent deliveries
  RECENT_MAX,
  MAX_ALERTS   \* bound: alerts sent in all

ASSUME AlertsAssumption == RECENT_MAX \in Nat \ {0} /\ MAX_ALERTS \in Nat

VARIABLES
  sent,     \* alerts sent so far, numbered
  hook,     \* each delivery: the alerts it carries, or what it answered
  recent,   \* alerts:recent, newest first
  stored,   \* every alert ever pushed, oldest first
  listing   \* what the last GET returned

alertVars == <<sent, hook, recent, stored, listing>>

NoHook == [status |-> "away", alerts |-> <<>>]

AlertsInit ==
  /\ sent = 0 /\ recent = <<>> /\ stored = <<>> /\ listing = <<>>
  /\ hook = [h \in Hooks |-> NoHook]

\* receive_alerts, behind the admin token as the password of basic authentication.
Receive(h) ==
  /\ hook[h].status = "away"
  /\ \E n \in 0..2 :
       /\ sent + n <= MAX_ALERTS /\ sent' = sent + n
       /\ hook' = [hook EXCEPT ![h] =
            [status |-> "storing", alerts |-> [i \in 1..n |-> sent + i]]]
  /\ UNCHANGED <<recent, stored, listing>>

Unauthorised(h) ==
  /\ hook[h].status = "away"
  /\ hook' = [hook EXCEPT ![h].status = "401"]
  /\ UNCHANGED <<sent, recent, stored, listing>>

FirstOf(list, n) == SubSeq(list, 1, IF Len(list) < n THEN Len(list) ELSE n)

\* LPUSH one by one, and LTRIM.
Pushed(alerts) ==
  FirstOf(Reverse(alerts) \o recent, RECENT_MAX)

\* _remember; the transaction takes effect whole or not at all, and its failure is only logged.
Remember(h) ==
  /\ hook[h].status = "storing"
  /\ \/ recent' = Pushed(hook[h].alerts) /\ stored' = stored \o hook[h].alerts
     \/ UNCHANGED <<recent, stored>>
  /\ hook' = [hook EXCEPT ![h].status = "200"]
  /\ UNCHANGED <<sent, listing>>

Answer(h) ==
  /\ hook[h].status \in {"200", "401"}
  /\ hook' = [hook EXCEPT ![h] = NoHook]
  /\ UNCHANGED <<sent, recent, stored, listing>>

\* recent_alerts
ListRecent ==
  /\ \E limit \in 1..RECENT_MAX :
       listing' = FirstOf(recent, limit)
  /\ listing' # listing
  /\ UNCHANGED <<sent, hook, recent, stored>>

AlertsNext ==
  (\E h \in Hooks : Receive(h) \/ Unauthorised(h) \/ Remember(h) \/ Answer(h)) \/ ListRecent
AlertsSpec == AlertsInit /\ [][AlertsNext]_alertVars
-----------------------------------------------------------------------------
\* The list is the newest RECENT_MAX of the alerts that were stored, newest first and without a
\* gap, whichever deliveries overlap and fail; so is what an operator reads
\* (_remember, alerts.py:97-102, "newest first", :107).
NewestKept ==
  /\ Len(recent) <= RECENT_MAX
  /\ Len(recent) < RECENT_MAX => Len(recent) = Len(stored)
  /\ \A i \in 1..Len(recent) : recent[i] = stored[Len(stored) + 1 - i]
  /\ Cardinality(ToSet(listing)) = Len(listing)
=============================================================================
