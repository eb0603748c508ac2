------------------------------ MODULE ApiKeys -------------------------------
(***************************************************************************)
(* API keys, the JWTs exchanged for them and the requests that present     *)
(* either: ApiKeyStore and TokenService of app/core/security.py, the       *)
(* dependencies of app/api/deps.py, the token exchange of                  *)
(* app/api/account.py and the key endpoints of app/api/admin.py.           *)
(*                                                                         *)
(* A key is its id; its secret is known to whoever presents it.  Each      *)
(* action is one round trip to Redis.                                      *)
(***************************************************************************)
EXTENDS Integers

CONSTANTS
  Keys, Bearers, Operators,
  JWT_TTL,      \* settings.jwt_ttl_seconds
  MAX_NOW       \* bound

ASSUME KeysAssumption == JWT_TTL \in Nat \ {0} /\ MAX_NOW \in Nat

VARIABLES
  today,     \* the clock the claims are made and checked with
  minted,    \* keys create has been called for
  hashes,    \* apikey_hash: -- the keys whose hash leads to them
  records,   \* apikey: -- the keys that have a record
  members,   \* tenant_keys:
  tokens,    \* JWTs given out, and what became of them afterwards
  call,      \* what each request is doing
  admin,     \* what each operator is doing
  gone       \* keys whose revocation has returned

keyVars == <<today, minted, hashes, records, members, tokens, call, admin, gone>>
store == <<minted, hashes, records, members>>

Free == [at |-> "free"]
Ends == {"principal", "401", "500", "token"}

KeysInit ==
  /\ today = 0
  /\ minted = {} /\ hashes = {} /\ records = {} /\ members = {} /\ tokens = {} /\ gone = {}
  /\ call = [c \in Bearers |-> Free]
  /\ admin = [o \in Operators |-> Free]

NextDay ==
  /\ today < MAX_NOW
  /\ today' = today + 1
  /\ UNCHANGED <<store, tokens, call, admin, gone>>

(***************************************************************************)
(* The admin endpoints                                                     *)
(***************************************************************************)

\* create: record, hash, back-reference and tenant in one transaction.
Create(k) ==
  /\ k \notin minted
  /\ minted' = minted \cup {k} /\ hashes' = hashes \cup {k}
  /\ records' = records \cup {k} /\ members' = members \cup {k}
  /\ UNCHANGED <<today, tokens, call, admin, gone>>

\* revoke: the record is read, 404 without one, then the hash it was stored under ...
FindKey(o, k) ==
  /\ admin[o] = Free /\ k \in records
  /\ admin' = [admin EXCEPT ![o] = [at |-> "revoke", key |-> k]]
  /\ UNCHANGED <<today, store, tokens, call, gone>>

FindHash(o) ==
  /\ admin[o].at = "revoke"
  /\ admin' = [admin EXCEPT ![o] = [at |-> "drop", key |-> admin[o].key,
                                    hash |-> admin[o].key \in hashes]]
  /\ UNCHANGED <<today, store, tokens, call, gone>>

\* ... and all of it goes in one transaction.
Drop(o) ==
  /\ admin[o].at = "drop"
  /\ LET k == admin[o].key IN
     /\ records' = records \ {k} /\ members' = members \ {k}
     /\ hashes' = IF admin[o].hash THEN hashes \ {k} ELSE hashes
     /\ gone' = gone \cup {k}
  /\ admin' = [admin EXCEPT ![o] = Free]
  /\ UNCHANGED <<today, minted, tokens, call>>

\* The operator's request dies between its calls.
AdminFails(o) ==
  /\ admin[o] # Free
  /\ admin' = [admin EXCEPT ![o] = Free]
  /\ UNCHANGED <<today, store, tokens, call, gone>>

(***************************************************************************)
(* A request                                                               *)
(***************************************************************************)

\* late: the key's revocation had returned before the request came.
Comes(c, at, k) ==
  /\ call[c] = Free
  /\ call' = [call EXCEPT ![c] = [at |-> at, key |-> k, late |-> k \in gone]]
  /\ UNCHANGED <<today, store, tokens, admin, gone>>
Goes(c, at) == call' = [call EXCEPT ![c].at = at]

\* With an API key, to an endpoint; anything else is no key or malformed.
PresentKey(c, k) == k \in minted /\ Comes(c, "hash", k)

\* ... or to the token exchange, which takes no JWT.
PresentKeyForToken(c, k) == k \in minted /\ Comes(c, "hash for token", k)

\* A bug authenticate could have: a token that is not expired is enough.
PresentTokenTrusting(c, t) ==
  t \in tokens /\ Comes(c, IF today < t.exp THEN "principal" ELSE "401", t.key)

\* With a JWT: decoded here, without Redis.
PresentToken(c, t) ==
  t \in tokens /\ Comes(c, IF today < t.exp THEN "record" ELSE "401", t.key)

\* verify: the hash index ...
ReadHash(c) ==
  /\ call[c].at \in {"hash", "hash for token"}
  /\ Goes(c, IF call[c].key \notin hashes THEN "401"
             ELSE IF call[c].at = "hash" THEN "record" ELSE "record for token")
  /\ UNCHANGED <<today, store, tokens, admin, gone>>

\* ... and the record; a JWT's bearer needs only that.
ReadRecord(c) ==
  /\ call[c].at \in {"record", "record for token"}
  /\ Goes(c, IF call[c].key \notin records THEN "401"
             ELSE IF call[c].at = "record" THEN "principal" ELSE "issue")
  /\ UNCHANGED <<today, store, tokens, admin, gone>>

\* issue: a JWT's claims.
TokenFor(k) == [key |-> k, exp |-> today + JWT_TTL]

\* issue_token reads the record again, which may be gone by now, and nobody looks.
IssueToken(c) ==
  /\ call[c].at = "issue"
  /\ LET k == call[c].key IN
     IF k \in records
       THEN Goes(c, "token") /\ tokens' = tokens \cup {TokenFor(k)}
       ELSE Goes(c, "500") /\ UNCHANGED tokens
  /\ UNCHANGED <<today, store, admin, gone>>

Answered(c) ==
  /\ call[c].at \in Ends
  /\ call' = [call EXCEPT ![c] = Free]
  /\ UNCHANGED <<today, store, tokens, admin, gone>>

KeysNext ==
  \/ NextDay
  \/ \E k \in Keys : Create(k) \/ \E o \in Operators : FindKey(o, k)
  \/ \E o \in Operators : FindHash(o) \/ Drop(o) \/ AdminFails(o)
  \/ \E c \in Bearers :
       \/ \E k \in Keys : PresentKey(c, k) \/ PresentKeyForToken(c, k)
       \/ \E t \in tokens : PresentToken(c, t)
       \/ ReadHash(c) \/ ReadRecord(c) \/ IssueToken(c) \/ Answered(c)
KeysSpec == KeysInit /\ [][KeysNext]_keyVars
-----------------------------------------------------------------------------
\* Types; the four structures of a key are there together or not at all.
KeysTypeOK ==
  /\ records \subseteq minted /\ records = hashes /\ records = members
  /\ gone \subseteq minted \ records
  /\ \A c \in Bearers : call[c].at \in
       Ends \cup {"free", "hash", "hash for token", "record", "record for token", "issue"}

\* Once the revocation of a key has returned, no request that comes is let in by the key or by a
\* token exchanged for it, and none gets a new token, whatever was under way before
\* (security.py:113-125, deps.py:52-63; "revoking a key revokes its outstanding tokens
\* immediately", security.py:8-9).
RevokedStaysOut ==
  \A c \in Bearers : call[c].at \in {"principal", "token"} => ~call[c].late
=============================================================================
