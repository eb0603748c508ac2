---------------------------- MODULE RolloutProofs ----------------------------
(***************************************************************************)
(* The pairs that replicas route by are Redis's own of less than a refresh *)
(* window ago, for any number of replicas, requests, operators, versions   *)
(* and Redis errors.  The invariant says so of the replies on their way    *)
(* too: a pair is never later than the age it will be given in the cache.  *)
(***************************************************************************)
EXTENDS Rollout, TLAPS

LagBounded == \A h \in Holders : late[h] <= age[h]

\* A function keeps its type when one argument gets another value of it.
LEMMA Updated ==
  ASSUME NEW S, NEW T, NEW f \in [S -> T], NEW x, NEW v \in T
  PROVE  [f EXCEPT ![x] = v] \in [S -> T]
OBVIOUS

LEMMA Apart ==
  ASSUME NEW t \in Tasks
  PROVE  Home[t] \in Replicas /\ Home[t] \in Holders /\ t \in Holders /\ Home[t] # t
BY HomeAssumption, ApartAssumption DEF Holders

LocalTypes == /\ pc \in [Tasks -> Locations]
              /\ op \in [Tasks -> Purposes]
              /\ served \in [Tasks -> Variants \cup {None}]
              /\ draft \in [Tasks -> Canaries \cup {None}]
              /\ \A t \in Tasks : Equipped(t)

\* A step of one task that keeps the others' locals is right if it is right about its own.
LEMMA Moved ==
  ASSUME LocalTypes, NEW t \in Tasks,
         NEW l \in Locations, NEW o \in Purposes,
         NEW x \in Variants \cup {None}, NEW c \in Canaries \cup {None},
         pc' = [pc EXCEPT ![t] = l], op' = [op EXCEPT ![t] = o],
         served' = [served EXCEPT ![t] = x], draft' = [draft EXCEPT ![t] = c],
         l \in {"set", "set_stable", "clear"} \/ o = "publish" => c # None,
         l \in {"call", "judge", "stats", "condemn"} \/ o \in {"judge", "condemn"} => x # None
  PROVE  LocalTypes'
<1>1. /\ pc' \in [Tasks -> Locations] /\ op' \in [Tasks -> Purposes]
      /\ served' \in [Tasks -> Variants \cup {None}] /\ draft' \in [Tasks -> Canaries \cup {None}]
  BY Updated DEF LocalTypes
<1>2. ASSUME NEW u \in Tasks PROVE Equipped(u)'
  <2>1. CASE u = t
    BY <2>1, <1>1 DEF Equipped, LocalTypes
  <2>2. CASE u # t
    <3>1. pc'[u] = pc[u] /\ op'[u] = op[u] /\ served'[u] = served[u] /\ draft'[u] = draft[u]
      BY <2>2 DEF LocalTypes
    <3> QED BY <3>1 DEF Equipped, LocalTypes
  <2> QED BY <2>1, <2>2
<1> QED BY <1>1, <1>2 DEF LocalTypes

LEMMA Same ==
  ASSUME LocalTypes, NEW t \in Tasks
  PROVE  /\ op = [op EXCEPT ![t] = op[t]] /\ op[t] \in Purposes
         /\ served = [served EXCEPT ![t] = served[t]] /\ served[t] \in Variants \cup {None}
         /\ draft = [draft EXCEPT ![t] = draft[t]] /\ draft[t] \in Canaries \cup {None}
BY DEF LocalTypes

LEMMA Finished ==
  ASSUME LocalTypes, NEW t \in Tasks, Finish(t)
  PROVE  LocalTypes'
BY Moved DEF Finish, Goto, Locations, Purposes

LEMMA CanaryEdits ==
  ASSUME NEW c \in Canaries, NEW w \in WEIGHTS
  PROVE  Reweighed(c, w) \in Canaries /\ RolledBack(c) \in Canaries
BY WeightAssumption DEF Canaries, Reweighed, RolledBack

LEMMA PicksAreVariants ==
  ASSUME NEW p \in Pairs, NEW x \in Picks(p)
  PROVE  x \in Variants
<1>1. CASE Active(p.canary)
  BY <1>1 DEF Picks, Pairs, Canaries, Variants, Active
<1>2. CASE ~Active(p.canary)
  BY <1>2 DEF Picks, Pairs, Variants
<1> QED BY <1>1, <1>2

\* The rest of a coroutine after _load, up to its next await.
LEMMA Proceeded ==
  ASSUME LocalTypes, NEW t \in Tasks, NEW o \in Purposes, NEW p \in Pairs,
         NEW v \in [Holders -> Pairs], Proceed(t, o, p, v),
         o \in {"judge", "condemn"} => served[t] # None
  PROVE  LocalTypes' /\ view' \in [Holders -> Pairs]
<1> USE DEF Goto, Locations, Purposes
<1>1. CASE /\ o = "select"
           /\ \E x \in Picks(p) : served' = [served EXCEPT ![t] = x]
           /\ Goto(t, "call") /\ op' = [op EXCEPT ![t] = o]
           /\ view' = v /\ UNCHANGED draft
  <2>1. PICK x \in Picks(p) : served' = [served EXCEPT ![t] = x]
    BY <1>1
  <2>2. x \in Variants /\ x # None
    BY PicksAreVariants, VersionAssumption
  <2>3. /\ pc' = [pc EXCEPT ![t] = "call"] /\ op' = [op EXCEPT ![t] = "select"]
        /\ served' = [served EXCEPT ![t] = x]
        /\ draft' = [draft EXCEPT ![t] = draft[t]] /\ draft[t] \in Canaries \cup {None}
    BY <1>1, <2>1, Same
  <2>4. LocalTypes'
    BY <2>2, <2>3, Moved
  <2> QED BY <1>1, <2>4
<1>2. CASE /\ o = "judge" /\ Active(p.canary) /\ p.canary.version = served[t].version
           /\ Goto(t, "stats") /\ op' = [op EXCEPT ![t] = o]
           /\ view' = v /\ UNCHANGED <<served, draft>>
  <2>1. /\ pc' = [pc EXCEPT ![t] = "stats"] /\ op' = [op EXCEPT ![t] = "judge"]
        /\ served' = [served EXCEPT ![t] = served[t]] /\ served[t] \in Variants \cup {None}
        /\ draft' = [draft EXCEPT ![t] = draft[t]] /\ draft[t] \in Canaries \cup {None}
    BY <1>2, Same
  <2>2. served[t] # None
    BY <1>2
  <2>3. LocalTypes'
    BY <2>1, <2>2, Moved
  <2> QED BY <1>2, <2>3
<1>3. CASE Finish(t) /\ view' = v
  BY <1>3, Finished
<1>4. ASSUME NEW c \in Canaries, o \in {"condemn", "weigh"},
             Goto(t, "set"), draft' = [draft EXCEPT ![t] = c],
             view' = [v EXCEPT ![Home[t]].canary = c],
             op' = [op EXCEPT ![t] = o], UNCHANGED served
      PROVE  LocalTypes' /\ view' \in [Holders -> Pairs]
  <2>1. c # None
    BY VersionAssumption
  <2>2. LocalTypes'
    BY <1>4, <2>1, Moved, Same
  <2>3. [v[Home[t]] EXCEPT !.canary = c] \in Pairs
    BY Apart DEF Pairs
  <2>4. view' = [v EXCEPT ![Home[t]] = [v[Home[t]] EXCEPT !.canary = c]]
    BY <1>4
  <2> QED BY <2>2, <2>3, <2>4, Updated
<1>5. CASE o = "condemn" /\ HasCanary(o, p)
  <2>1. p.canary \in Canaries
    BY <1>5 DEF HasCanary, Pairs
  <2>2. RolledBack(p.canary) \in Canaries
    BY <2>1, CanaryEdits, WeightAssumption
  <2> QED BY <1>5, <2>2, <1>4 DEF Proceed
<1>6. CASE o = "weigh" /\ HasCanary(o, p)
  <2>1. p.canary \in Canaries
    BY <1>6 DEF HasCanary, Pairs
  <2>2. \A w \in WEIGHTS : Reweighed(p.canary, w) \in Canaries
    BY <2>1, CanaryEdits
  <2> QED BY <1>6, <2>2, <1>4 DEF Proceed
<1>7. CASE /\ o = "promote" /\ HasCanary(o, p)
           /\ Goto(t, "set_stable") /\ op' = [op EXCEPT ![t] = o]
           /\ draft' = [draft EXCEPT ![t] = p.canary] /\ view' = v /\ UNCHANGED served
  <2>1. p.canary \in Canaries /\ p.canary # None
    BY <1>7 DEF HasCanary, Pairs
  <2> QED BY <1>7, <2>1, Moved, Same
<1> QED BY <1>1, <1>2, <1>3, <1>5, <1>6, <1>7 DEF Proceed

RedisTypes == /\ stable \in Versions \cup {None}
              /\ canary \in Canaries \cup {None}
              /\ stats \in [Versions -> [requests : 0..MAX_COUNT, errors : 0..MAX_COUNT]]
              /\ \A v \in Versions : stats[v].errors <= stats[v].requests

HolderTypes == /\ view \in [Holders -> Pairs]
               /\ age \in [Holders -> 0..REFRESH]
               /\ late \in [Holders -> 0..REFRESH]

IInv == RedisTypes /\ LocalTypes /\ HolderTypes /\ events \in 0..MAX_EVENTS /\ LagBounded

\* What is watched stays bounded if the account l is, wherever late is not reset.
LEMMA Watched ==
  ASSUME NEW l \in [Holders -> 0..REFRESH], Watch(l), age' \in [Holders -> 0..REFRESH],
         \A h \in Holders : l[h] <= age'[h] \/ (h \in Tasks /\ pc'[h] # "loaded")
  PROVE  late' \in [Holders -> 0..REFRESH] /\ LagBounded'
<1>1. ASSUME NEW h \in Holders PROVE late'[h] \in 0..REFRESH /\ late'[h] <= age'[h]
  BY <1>1, RefreshAssumption DEF Watch
<1>2. late' = [h \in Holders |-> late'[h]]
  BY DEF Watch
<1> QED BY <1>1, <1>2 DEF LagBounded

LEMMA WatchedStill ==
  ASSUME HolderTypes, LagBounded, Watch(late), UNCHANGED age
  PROVE  late' \in [Holders -> 0..REFRESH] /\ LagBounded'
<1>1. \A h \in Holders : late[h] <= age'[h]
  BY DEF LagBounded
<1> QED BY <1>1, Watched DEF HolderTypes

LEMMA SharedIsPair ==
  RedisTypes => Shared \in Pairs /\ Empty \in Pairs
BY DEF RedisTypes, Shared, Empty, Pairs

LEMMA Loading ==
  ASSUME IInv, NEW t \in Tasks, NEW o \in Purposes, o # "publish", Load(t, o),
         o \in {"judge", "condemn"} => served[t] # None
  PROVE  RedisTypes' /\ LocalTypes' /\ HolderTypes' /\ LagBounded'
<1> USE DEF IInv
<1>1. RedisTypes'
  BY DEF Load, RedisTypes
<1>2. CASE Proceed(t, o, view[Home[t]], view) /\ UNCHANGED age
  <2>1. view[Home[t]] \in Pairs /\ view \in [Holders -> Pairs]
    BY Apart DEF HolderTypes
  <2>2. LocalTypes' /\ view' \in [Holders -> Pairs]
    BY <1>2, <2>1, Proceeded
  <2>3. late' \in [Holders -> 0..REFRESH] /\ LagBounded'
    BY <1>2, WatchedStill DEF Load
  <2> QED BY <1>1, <1>2, <2>2, <2>3 DEF HolderTypes
<1>3. CASE /\ Goto(t, "load") /\ op' = [op EXCEPT ![t] = o]
           /\ age' = [age EXCEPT ![t] = 0] /\ UNCHANGED <<view, served, draft>>
  <2>1. /\ pc' = [pc EXCEPT ![t] = "load"] /\ op' = [op EXCEPT ![t] = o]
        /\ served' = [served EXCEPT ![t] = served[t]] /\ served[t] \in Variants \cup {None}
        /\ draft' = [draft EXCEPT ![t] = draft[t]] /\ draft[t] \in Canaries \cup {None}
    BY <1>3, Same DEF Goto
  <2>2. LocalTypes'
    BY <2>1, Moved DEF Locations
  <2>3. age' \in [Holders -> 0..REFRESH]
    BY <1>3, Updated, RefreshAssumption DEF HolderTypes
  <2>4. pc'[t] = "load"
    BY <2>1 DEF LocalTypes
  <2>5. ASSUME NEW h \in Holders
        PROVE  late[h] <= age'[h] \/ (h \in Tasks /\ pc'[h] # "loaded")
    <3>1. CASE h = t BY <2>4, <3>1
    <3>2. CASE h # t BY <1>3, <3>2 DEF LagBounded, HolderTypes
    <3> QED BY <3>1, <3>2
  <2>6. late' \in [Holders -> 0..REFRESH] /\ LagBounded'
    BY <2>3, <2>5, Watched DEF Load, HolderTypes
  <2> QED BY <1>1, <1>3, <2>2, <2>3, <2>6 DEF HolderTypes
<1> QED BY <1>2, <1>3 DEF Load

\* A step that only writes Redis's keys and moves one task.
LEMMA KeyStep ==
  ASSUME IInv, UNCHANGED <<view, age>>, Watch(late), RedisTypes', LocalTypes',
         events' \in 0..MAX_EVENTS
  PROVE  IInv'
<1>1. late' \in [Holders -> 0..REFRESH] /\ LagBounded'
  BY WatchedStill DEF IInv
<1> QED BY <1>1 DEF IInv, HolderTypes

LEMMA Written ==
  ASSUME IInv, NEW t \in Tasks, NEW l \in Locations, Wrote(t, l),
         l \in {"set", "set_stable", "clear"} => draft[t] # None,
         l \in {"call", "judge", "stats", "condemn"} => served[t] # None
  PROVE  LocalTypes' /\ events' \in 0..MAX_EVENTS
<1> USE DEF IInv
<1>1. CASE Goto(t, l) /\ UNCHANGED <<op, served, draft, events>>
  <2>1. /\ op' = [op EXCEPT ![t] = op[t]] /\ op[t] \in Purposes
        /\ served' = [served EXCEPT ![t] = served[t]] /\ served[t] \in Variants \cup {None}
        /\ draft' = [draft EXCEPT ![t] = draft[t]] /\ draft[t] \in Canaries \cup {None}
    BY <1>1, Same
  <2>2. Equipped(t)
    BY DEF LocalTypes
  <2>3. /\ l \in {"set", "set_stable", "clear"} \/ op[t] = "publish" => draft[t] # None
        /\ l \in {"call", "judge", "stats", "condemn"} \/ op[t] \in {"judge", "condemn"}
             => served[t] # None
    BY <2>2 DEF Equipped
  <2>4. pc' = [pc EXCEPT ![t] = l]
    BY <1>1 DEF Goto
  <2>5. LocalTypes'
    BY <2>1, <2>3, <2>4, Moved
  <2> QED BY <1>1, <2>5
<1>2. CASE Finish(t) /\ Event
  BY <1>2, Finished, BudgetAssumption DEF Event
<1> QED BY <1>1, <1>2 DEF Wrote

\* The request is counted at most once as an error for each time it is counted.
LEMMA Counted ==
  ASSUME IInv, NEW t \in Tasks, NEW ok \in BOOLEAN, Record(t, ok)
  PROVE  RedisTypes'
<1> DEFINE v == served[t].version
<1>1. CASE UNCHANGED stats
  BY <1>1 DEF IInv, RedisTypes, Record
<1>2. CASE /\ v \in Versions /\ stats[v].requests # MAX_COUNT
           /\ stats' = [stats EXCEPT ![v].requests = @ + 1,
                                    ![v].errors = IF ok THEN @ ELSE @ + 1]
  <2> DEFINE n == [requests |-> stats[v].requests + 1,
                   errors |-> IF ok THEN stats[v].errors ELSE stats[v].errors + 1]
  <2>1. /\ stats[v] \in [requests : 0..MAX_COUNT, errors : 0..MAX_COUNT]
        /\ stats[v].errors <= stats[v].requests
    BY <1>2 DEF IInv, RedisTypes
  <2>2. n \in [requests : 0..MAX_COUNT, errors : 0..MAX_COUNT] /\ n.errors <= n.requests
    <3>1. /\ stats[v].requests \in 0..MAX_COUNT /\ stats[v].errors \in 0..MAX_COUNT
          /\ stats[v].errors <= stats[v].requests
      BY <2>1
    <3> HIDE DEF v
    <3>2. stats[v].requests + 1 \in 0..MAX_COUNT /\ stats[v].errors + 1 \in 0..MAX_COUNT
      BY <1>2, <3>1, BudgetAssumption
    <3>3. CASE ok
      BY <3>1, <3>2, <3>3
    <3>4. CASE ~ok
      BY <3>1, <3>2, <3>4
    <3> QED BY <3>3, <3>4
  <2>3. stats' = [stats EXCEPT ![v] = n]
    <3>1. CASE ok
      <4>1. stats' = [stats EXCEPT ![v].requests = @ + 1, ![v].errors = @]
        BY <1>2, <3>1
      <4>2. n = [requests |-> stats[v].requests + 1, errors |-> stats[v].errors]
        BY <3>1
      <4>3. stats[v] = [requests |-> stats[v].requests, errors |-> stats[v].errors]
        BY <2>1
      <4> HIDE DEF n, v
      <4>4. stats' = [stats EXCEPT ![v] = [requests |-> stats[v].requests + 1,
                                           errors |-> stats[v].errors]]
        BY <4>1, <4>3, <1>2 DEF IInv, RedisTypes
      <4> QED BY <4>2, <4>4
    <3>2. CASE ~ok
      BY <1>2, <2>1, <3>2 DEF IInv, RedisTypes
    <3> QED BY <3>1, <3>2
  <2> HIDE DEF n
  <2>4. /\ stats' \in [Versions -> [requests : 0..MAX_COUNT, errors : 0..MAX_COUNT]]
        /\ \A u \in Versions : stats'[u].errors <= stats'[u].requests
    BY <1>2, <2>2, <2>3 DEF IInv, RedisTypes
  <2> QED BY <2>4 DEF Record, IInv, RedisTypes
<1> QED BY <1>1, <1>2 DEF Record

LEMMA Initial == Init => IInv
<1> SUFFICES ASSUME Init PROVE IInv
  OBVIOUS
<1> USE DEF Init
<1>1. RedisTypes
  BY BudgetAssumption DEF RedisTypes
<1>2. LocalTypes
  BY DEF LocalTypes, Locations, Purposes, Equipped
<1>3. HolderTypes /\ LagBounded
  BY RefreshAssumption DEF HolderTypes, LagBounded, Empty, Pairs
<1> QED BY <1>1, <1>2, <1>3, BudgetAssumption DEF IInv

LEMMA Resumed ==
  ASSUME IInv, NEW t \in Tasks, Resume(t)
  PROVE  IInv'
<1> USE DEF IInv
<1> DEFINE r == Home[t]
           v == [view EXCEPT ![r] = view[t], ![t] = Empty]
           l == [late EXCEPT ![r] = late[t], ![t] = 0]
<1>1. r \in Holders /\ t \in Holders /\ r # t
  BY Apart
<1>2. /\ view[t] \in Pairs /\ Empty \in Pairs /\ op[t] \in Purposes
      /\ op[t] \in {"judge", "condemn"} => served[t] # None
  BY <1>1, SharedIsPair DEF HolderTypes, LocalTypes, Equipped
<1>3. v \in [Holders -> Pairs]
  BY <1>2, Updated DEF HolderTypes
<1>4. LocalTypes' /\ view' \in [Holders -> Pairs]
  <2> HIDE DEF v
  <2>1. Proceed(t, op[t], view[t], v)
    BY DEF Resume, v
  <2> QED BY <1>2, <1>3, <2>1, Proceeded
<1>5. age' \in [Holders -> 0..REFRESH] /\ age'[r] = age[t] /\ age'[t] = REFRESH
  BY <1>1, RefreshAssumption DEF Resume, FetchedAge, HolderTypes
<1>6. l \in [Holders -> 0..REFRESH]
  BY <1>1, RefreshAssumption DEF HolderTypes
<1>7. ASSUME NEW h \in Holders PROVE l[h] <= age'[h]
  <2>1. CASE h = r BY <2>1, <1>1, <1>5 DEF LagBounded, HolderTypes
  <2>2. CASE h = t BY <2>2, <1>1, <1>5, RefreshAssumption DEF HolderTypes
  <2>3. CASE h # r /\ h # t
    BY <2>3 DEF LagBounded, HolderTypes, Resume
  <2> QED BY <2>1, <2>2, <2>3
<1>8. late' \in [Holders -> 0..REFRESH] /\ LagBounded'
  <2> HIDE DEF l
  <2>1. Watch(l)
    BY DEF Resume, l
  <2> QED BY <1>5, <1>6, <1>7, <2>1, Watched
<1>9. RedisTypes' /\ events' \in 0..MAX_EVENTS
  BY DEF Resume, RedisTypes
<1> QED BY <1>4, <1>5, <1>8, <1>9 DEF HolderTypes

LEMMA ReadIn ==
  ASSUME IInv, NEW t \in Tasks, Read(t)
  PROVE  IInv'
<1> USE DEF IInv
<1>1. LocalTypes'
  <2>1. /\ op' = [op EXCEPT ![t] = op[t]] /\ op[t] \in Purposes
        /\ served' = [served EXCEPT ![t] = served[t]] /\ served[t] \in Variants \cup {None}
        /\ draft' = [draft EXCEPT ![t] = draft[t]] /\ draft[t] \in Canaries \cup {None}
    BY Same DEF Read
  <2>2. /\ op[t] = "publish" => draft[t] # None
        /\ op[t] \in {"judge", "condemn"} => served[t] # None
    BY DEF LocalTypes, Equipped
  <2>3. pc' = [pc EXCEPT ![t] = "loaded"]
    BY DEF Read, Goto
  <2> QED BY <2>1, <2>2, <2>3, Moved DEF Locations
<1>2. view' \in [Holders -> Pairs]
  BY Updated, SharedIsPair DEF Read, HolderTypes
<1>3. /\ [late EXCEPT ![t] = 0] \in [Holders -> 0..REFRESH]
      /\ \A h \in Holders : [late EXCEPT ![t] = 0][h] <= age'[h]
  <2>1. [late EXCEPT ![t] = 0] \in [Holders -> 0..REFRESH]
    BY RefreshAssumption, Updated DEF HolderTypes
  <2>2. ASSUME NEW h \in Holders PROVE [late EXCEPT ![t] = 0][h] <= age[h]
    <3>1. late[h] <= age[h] /\ age[h] \in 0..REFRESH
      BY DEF LagBounded, HolderTypes
    <3> QED BY <3>1, RefreshAssumption DEF HolderTypes
  <2> QED BY <2>1, <2>2 DEF Read
<1>4. late' \in [Holders -> 0..REFRESH] /\ LagBounded'
  BY <1>3, Watched DEF Read, HolderTypes
<1>5. RedisTypes' /\ events' \in 0..MAX_EVENTS
  BY BudgetAssumption DEF Read, RedisTypes, Event
<1> QED BY <1>1, <1>2, <1>4, <1>5 DEF HolderTypes, Read

LEMMA Ticked ==
  ASSUME IInv, Tick
  PROVE  IInv'
<1> USE DEF IInv
<1> DEFINE l == [h \in Holders |-> IF late[h] < REFRESH THEN late[h] + 1 ELSE REFRESH]
<1>1. age' \in [Holders -> 0..REFRESH]
  BY RefreshAssumption DEF Tick, HolderTypes
<1>2. l \in [Holders -> 0..REFRESH]
  BY RefreshAssumption DEF HolderTypes
<1>3. \A h \in Holders : l[h] <= age'[h]
  BY RefreshAssumption DEF Tick, HolderTypes, LagBounded
<1>4. late' \in [Holders -> 0..REFRESH] /\ LagBounded'
  <2> HIDE DEF l
  <2>1. Watch(l)
    BY DEF Tick, l
  <2> QED BY <1>1, <1>2, <1>3, <2>1, Watched
<1> QED BY <1>1, <1>4 DEF Tick, HolderTypes, RedisTypes, LocalTypes, Equipped

LEMMA Inductive == IInv /\ [Next]_vars => IInv'
<1> SUFFICES ASSUME IInv, [Next]_vars PROVE IInv'
  OBVIOUS
<1> USE DEF IInv
<1>1. CASE Tick
  BY <1>1, Ticked
<1>2. ASSUME NEW t \in Tasks, Read(t) \/ Resume(t) PROVE IInv'
  BY <1>2, ReadIn, Resumed
<1>3. ASSUME NEW t \in Tasks, SetCanary(t) PROVE IInv'
  <2>1. LocalTypes' /\ events' \in 0..MAX_EVENTS
    BY <1>3, Written DEF SetCanary, Locations
  <2>2. RedisTypes'
    BY <1>3 DEF SetCanary, RedisTypes, LocalTypes
  <2> QED BY <1>3, <2>1, <2>2, KeyStep DEF SetCanary
<1>4. ASSUME NEW t \in Tasks, SetStable(t) PROVE IInv'
  <2>1. LocalTypes' /\ events' \in 0..MAX_EVENTS
    BY <1>4, Written DEF SetStable, Locations
  <2>2. draft[t] \in Canaries
    BY <1>4 DEF SetStable, LocalTypes, Equipped
  <2>3. draft[t].version \in Versions
    BY <2>2 DEF Canaries
  <2>4. RedisTypes'
    BY <1>4, <2>3 DEF SetStable, RedisTypes
  <2> QED BY <1>4, <2>1, <2>4, KeyStep DEF SetStable
<1>5. ASSUME NEW t \in Tasks, DeleteCanary(t) PROVE IInv'
  <2>1. LocalTypes' /\ events' \in 0..MAX_EVENTS
    BY <1>5, Written DEF DeleteCanary, Locations
  <2>2. RedisTypes'
    BY <1>5 DEF DeleteCanary, RedisTypes
  <2> QED BY <1>5, <2>1, <2>2, KeyStep DEF DeleteCanary
<1>6. ASSUME NEW t \in Tasks, Invalidate(t) PROVE IInv'
  <2>1. LocalTypes'
    <3>1. CASE op[t] = "publish"
      <4>1. /\ op' = [op EXCEPT ![t] = op[t]] /\ op[t] \in Purposes
            /\ served' = [served EXCEPT ![t] = served[t]] /\ served[t] \in Variants \cup {None}
            /\ draft' = [draft EXCEPT ![t] = draft[t]] /\ draft[t] \in Canaries \cup {None}
        BY <1>6, <3>1, Same DEF Invalidate
      <4>2. draft[t] # None
        BY <3>1 DEF LocalTypes, Equipped
      <4>3. pc' = [pc EXCEPT ![t] = "clear"]
        BY <1>6, <3>1 DEF Invalidate, Goto
      <4> QED BY <3>1, <4>1, <4>2, <4>3, Moved DEF Locations
    <3>2. CASE op[t] # "publish"
      BY <1>6, <3>2, Finished DEF Invalidate
    <3> QED BY <3>1, <3>2
  <2>2. /\ age' \in [Holders -> 0..REFRESH]
        /\ \A h \in Holders : late[h] <= age'[h]
    <3>1. age' = [age EXCEPT ![Home[t]] = REFRESH]
      BY <1>6 DEF Invalidate
    <3>2. age' \in [Holders -> 0..REFRESH]
      BY <3>1, Updated, RefreshAssumption DEF HolderTypes
    <3>3. ASSUME NEW h \in Holders PROVE late[h] <= age'[h]
      <4>1. late[h] <= age[h] /\ late[h] \in 0..REFRESH
        BY DEF LagBounded, HolderTypes
      <4> QED BY <3>1, <4>1, RefreshAssumption DEF HolderTypes
    <3> QED BY <3>2, <3>3
  <2>3. late' \in [Holders -> 0..REFRESH] /\ LagBounded'
    BY <1>6, <2>2, Watched DEF Invalidate, HolderTypes
  <2>4. RedisTypes' /\ events' \in 0..MAX_EVENTS
    BY <1>6 DEF Invalidate, RedisTypes
  <2> QED BY <1>6, <2>1, <2>2, <2>3, <2>4 DEF Invalidate, HolderTypes
<1>7. ASSUME NEW t \in Tasks, ClearStats(t) PROVE IInv'
  <2>1. LocalTypes'
    BY <1>7, Finished DEF ClearStats
  <2>2. draft[t].version \in Versions
    BY <1>7 DEF ClearStats, LocalTypes, Equipped, Canaries
  <2>3. RedisTypes'
    BY <1>7, <2>2, BudgetAssumption DEF ClearStats, RedisTypes
  <2> QED BY <1>7, <2>1, <2>3, KeyStep DEF ClearStats
<1>8. ASSUME NEW t \in Tasks, Raise(t) PROVE IInv'
  <2>1. LocalTypes' /\ RedisTypes' /\ events' \in 0..MAX_EVENTS
    BY <1>8, Finished, BudgetAssumption DEF Raise, RedisTypes, Event
  <2> QED BY <1>8, <2>1, KeyStep DEF Raise
<1>9. ASSUME NEW t \in Tasks, Select(t) \/ Judge(t) \/ Condemn(t) PROVE IInv'
  <2>1. pc[t] \in {"judge", "condemn"} => served[t] # None
    BY DEF LocalTypes, Equipped
  <2>2. RedisTypes' /\ LocalTypes' /\ HolderTypes' /\ LagBounded'
    BY <1>9, <2>1, Loading DEF Select, Judge, Condemn, Purposes
  <2> QED BY <1>9, <2>2 DEF Select, Judge, Condemn
<1>10. ASSUME NEW t \in Tasks, NEW ok \in BOOLEAN, Record(t, ok) PROVE IInv'
  <2>1. RedisTypes'
    BY <1>10, Counted
  <2>2. LocalTypes' /\ events' \in 0..MAX_EVENTS
    <3>1. CASE Wrote(t, "judge")
      BY <1>10, <3>1, Written DEF Record, Locations, LocalTypes, Equipped
    <3>2. CASE Finish(t) /\ UNCHANGED events
      BY <3>2, Finished
    <3> QED BY <1>10, <3>1, <3>2 DEF Record
  <2> QED BY <1>10, <2>1, <2>2, KeyStep DEF Record
<1>11. ASSUME NEW t \in Tasks, Unrecorded(t) PROVE IInv'
  <2>1. LocalTypes' /\ RedisTypes' /\ events' \in 0..MAX_EVENTS
    BY <1>11, Finished DEF Unrecorded, RedisTypes
  <2> QED BY <1>11, <2>1, KeyStep DEF Unrecorded
<1>12. ASSUME NEW t \in Tasks, ReadStats(t) PROVE IInv'
  <2>1. LocalTypes'
    <3>1. CASE Finish(t)
      BY <3>1, Finished
    <3>2. CASE Goto(t, "condemn") /\ UNCHANGED <<op, served, draft>>
      <4>1. Wrote(t, "condemn")
        BY <1>12, <3>2 DEF Wrote, ReadStats
      <4>2. served[t] # None
        BY <1>12 DEF ReadStats, LocalTypes, Equipped
      <4> QED BY <4>1, <4>2, Written DEF Locations
    <3> QED BY <1>12, <3>1, <3>2 DEF ReadStats
  <2>2. RedisTypes' /\ events' \in 0..MAX_EVENTS
    BY <1>12 DEF ReadStats, RedisTypes
  <2> QED BY <1>12, <2>1, <2>2, KeyStep DEF ReadStats
<1>13. ASSUME NEW t \in Tasks, Publish(t) PROVE IInv'
  <2>1. PICK v \in Versions, w \in WEIGHTS :
          draft' = [draft EXCEPT ![t] = [version |-> v, weight |-> w, mark |-> "live"]]
    BY <1>13 DEF Publish
  <2> DEFINE c == [version |-> v, weight |-> w, mark |-> "live"]
  <2>2. c \in Canaries /\ c # None
    BY VersionAssumption DEF Canaries
  <2> HIDE DEF c
  <2>3. /\ pc' = [pc EXCEPT ![t] = "set"] /\ op' = [op EXCEPT ![t] = "publish"]
        /\ served' = [served EXCEPT ![t] = served[t]] /\ served[t] \in Variants \cup {None}
        /\ draft' = [draft EXCEPT ![t] = c]
    BY <1>13, <2>1, Same DEF Publish, Goto, c
  <2>4. LocalTypes'
    BY <2>2, <2>3, Moved DEF Locations, Purposes
  <2>5. RedisTypes' /\ events' \in 0..MAX_EVENTS
    BY <1>13, BudgetAssumption DEF Publish, RedisTypes, Begin, Event
  <2> QED BY <1>13, <2>4, <2>5, KeyStep DEF Publish
<1>14. ASSUME NEW t \in Tasks, Adjust(t) PROVE IInv'
  <2>1. PICK o \in {"weigh", "promote"} : Begin(t, o) /\ Load(t, o)
    BY <1>14 DEF Adjust
  <2>2. RedisTypes' /\ LocalTypes' /\ HolderTypes' /\ LagBounded'
    BY <2>1, Loading DEF Purposes
  <2> QED BY <2>1, <2>2, BudgetAssumption DEF Begin, Event
<1>15. ASSUME NEW t \in Tasks, Discard(t) PROVE IInv'
  <2>1. /\ pc' = [pc EXCEPT ![t] = "delete"] /\ op' = [op EXCEPT ![t] = "discard"]
        /\ served' = [served EXCEPT ![t] = served[t]] /\ served[t] \in Variants \cup {None}
        /\ draft' = [draft EXCEPT ![t] = draft[t]] /\ draft[t] \in Canaries \cup {None}
    BY <1>15, Same DEF Discard, Goto
  <2>2. LocalTypes'
    BY <2>1, Moved DEF Locations, Purposes
  <2>3. RedisTypes' /\ events' \in 0..MAX_EVENTS
    BY <1>15, BudgetAssumption DEF Discard, RedisTypes, Begin, Event
  <2> QED BY <1>15, <2>2, <2>3, KeyStep DEF Discard
<1>16. CASE UNCHANGED vars
  BY <1>16 DEF vars, RedisTypes, LocalTypes, HolderTypes, LagBounded, Equipped
<1> QED BY <1>1, <1>2, <1>3, <1>4, <1>5, <1>6, <1>7, <1>8, <1>9, <1>10, <1>11, <1>12,
           <1>13, <1>14, <1>15, <1>16 DEF Next, Continue

THEOREM TypeCorrect == Spec => []TypeOK
<1>1. IInv => TypeOK
  BY DEF IInv, RedisTypes, LocalTypes, HolderTypes, TypeOK
<1> QED BY <1>1, Initial, Inductive, PTL DEF Spec

THEOREM NeverStale == Spec => []StaleAtMostRefresh
<1>1. IInv => StaleAtMostRefresh
  BY DEF IInv, LagBounded, StaleAtMostRefresh, Holders
<1> QED BY <1>1, Initial, Inductive, PTL DEF Spec
=============================================================================
