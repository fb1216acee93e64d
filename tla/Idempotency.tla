----------------------------- MODULE Idempotency -----------------------------
(***************************************************************************)
(* The idempotency middleware inside the auth middleware's transaction.    *)
(* A mutating request carries a key.  The middleware looks the key up in a *)
(* transaction of its own, runs the handler in the request's transaction,  *)
(* stores a successful response in a third transaction, and only then does *)
(* the auth middleware commit the handler's work.                          *)
(***************************************************************************)
EXTENDS Naturals, FiniteSets, Absent

CONSTANTS
    Request,    \* request slots: how many requests may overlap
    Key,        \* values of the Idempotency-Key header
    Call,       \* mutating calls: an actor, a path and a body
    Digest,     \* Digest[c]: the actor and the SHA-256 of the body, no path
    SoloExpiredRetry \* nobody overlaps two requests on an expired key

ASSUME IdempotencyAssumption ==
    /\ None \notin Key \cup Call \cup [call : Call, fresh : BOOLEAN]
    /\ SoloExpiredRetry \in BOOLEAN

VARIABLES
    cache,      \* cache[k]: the stored response of key k, or None
    req,        \* req[r]: the request slot r is serving
    effects     \* effects[k]: successes committed under k since k was unused
                \* or expired (a history variable)

idempotencyVars == <<cache, req, effects>>

Record == [call : Call, fresh : BOOLEAN]
Step == {"idle", "lookup", "drop", "handle", "store", "commit"}
NoRequest == [step |-> "idle", key |-> None, call |-> None, success |-> FALSE]
Req == [step : Step, key : Key \cup {None}, call : Call \cup {None},
        success : BOOLEAN]

On(r, k) == req[r].step # "idle" /\ req[r].key = k
Overlap(k) == \E r \in Request : On(r, k)
Stored(k) == cache[k] # None
Fresh(k) == Stored(k) /\ cache[k].fresh
Expired(k) == Stored(k) /\ ~cache[k].fresh
Dropping(k) == \E r \in Request : On(r, k) /\ req[r].step = "drop"

Committing(r, k) == On(r, k) /\ req[r].step = "commit" /\ req[r].success

GoTo(r, step) == req' = [req EXCEPT ![r].step = step]
Answer(r) == req' = [req EXCEPT ![r] = NoRequest]

-----------------------------------------------------------------------------
(* A request, new or a retry, passed authentication. *)
send(r, k, c) ==
    /\ req[r].step = "idle"
    /\ SoloExpiredRetry => ~(Overlap(k) /\ (Expired(k) \/ Dropping(k)))
    /\ req' = [req EXCEPT ![r] =
                 [step |-> "lookup", key |-> k, call |-> c, success |-> FALSE]]
    /\ UNCHANGED <<cache, effects>>

(* session.get finds no record: the handler runs. *)
lookup_miss(r) ==
    /\ req[r].step = "lookup"
    /\ ~Stored(req[r].key)
    /\ GoTo(r, "handle")
    /\ UNCHANGED <<cache, effects>>

(* It finds an expired record, which the next statement deletes. *)
lookup_expired(r) ==
    /\ req[r].step = "lookup"
    /\ Expired(req[r].key)
    /\ GoTo(r, "drop")
    /\ UNCHANGED <<cache, effects>>

(* DELETE ... WHERE key = k: whatever record has the key by now. *)
drop_expired(r) ==
    /\ req[r].step = "drop"
    /\ cache' = [cache EXCEPT ![req[r].key] = None]
    /\ GoTo(r, "handle")
    /\ UNCHANGED effects

(* It finds a record of another actor or body: 409. *)
lookup_conflict(r) ==
    LET k == req[r].key IN
    /\ req[r].step = "lookup"
    /\ Fresh(k)
    /\ Digest[cache[k].call] # Digest[req[r].call]
    /\ Answer(r)
    /\ UNCHANGED <<cache, effects>>

(* It finds the stored response, which is replayed. *)
lookup_hit(r) ==
    LET k == req[r].key IN
    /\ req[r].step = "lookup"
    /\ Fresh(k)
    /\ Digest[cache[k].call] = Digest[req[r].call]
    /\ Answer(r)
    /\ UNCHANGED <<cache, effects>>

(* The handler answers; a status of 400 or more is not stored. *)
call_next(r, success) ==
    /\ req[r].step = "handle"
    /\ req' = [req EXCEPT ![r].success = success,
                          ![r].step = IF success THEN "store" ELSE "commit"]
    /\ UNCHANGED <<cache, effects>>

(* A store that overwrites whatever record has the key. *)
store_over(r) ==
    LET k == req[r].key IN
    /\ req[r].step = "store"
    /\ cache' = [cache EXCEPT ![k] = [call |-> req[r].call, fresh |-> TRUE]]
    /\ GoTo(r, "commit")
    /\ UNCHANGED effects

(* The response is stored and committed before the handler's work.         *)
store_idempotency_response(r) ==
    LET k == req[r].key IN
    /\ req[r].step = "store"
    /\ ~Stored(k)
    /\ cache' = [cache EXCEPT ![k] = [call |-> req[r].call, fresh |-> TRUE]]
    /\ GoTo(r, "commit")
    /\ UNCHANGED effects

(* The key is taken: the IntegrityError rolls the handler's work back. *)
store_conflict(r) ==
    /\ req[r].step = "store"
    /\ Stored(req[r].key)
    /\ Answer(r)
    /\ UNCHANGED <<cache, effects>>

(* The auth middleware commits what the handler did.                       *)
commit(r) ==
    LET k == req[r].key IN
    /\ req[r].step = "commit"
    /\ effects' = IF req[r].success THEN [effects EXCEPT ![k] = @ + 1] ELSE effects
    /\ Answer(r)
    /\ UNCHANGED cache

(* An exception, a crash, a lost connection: the request's transaction is   *)
(* rolled back, the middleware's own transactions are not.                 *)
abort(r) ==
    /\ req[r].step # "idle"
    /\ Answer(r)
    /\ UNCHANGED <<cache, effects>>

(* 24 hours pass.  No request takes that long. *)
expire(k) ==
    /\ Fresh(k)
    /\ ~Overlap(k)
    /\ cache' = [cache EXCEPT ![k].fresh = FALSE]
    /\ effects' = [effects EXCEPT ![k] = 0]
    /\ UNCHANGED req

(* The CLI deletes all expired records in one statement. *)
cleanup_expired_idempotency_keys ==
    /\ \E k \in Key : Expired(k)
    /\ cache' = [k \in Key |-> IF Expired(k) THEN None ELSE cache[k]]
    /\ UNCHANGED <<req, effects>>

-----------------------------------------------------------------------------
IdempotencyInit ==
    /\ cache = [k \in Key |-> None]
    /\ req = [r \in Request |-> NoRequest]
    /\ effects = [k \in Key |-> 0]

(* The steps of a request after its arrival. *)
serve(r) ==
    \/ lookup_miss(r)
    \/ lookup_expired(r)
    \/ drop_expired(r)
    \/ lookup_conflict(r)
    \/ lookup_hit(r)
    \/ \E success \in BOOLEAN : call_next(r, success)
    \/ store_idempotency_response(r)
    \/ store_conflict(r)
    \/ commit(r)
    \/ abort(r)

age_out ==
    \/ \E k \in Key : expire(k)
    \/ cleanup_expired_idempotency_keys

dispatch(r) == (\E k \in Key, c \in Call : send(r, k, c)) \/ serve(r)

IdempotencyNext == (\E r \in Request : dispatch(r)) \/ age_out

IdempotencySpec == IdempotencyInit /\ [][IdempotencyNext]_idempotencyVars

-----------------------------------------------------------------------------
(* The record types of the stored responses, requests and counts. *)
IdempotencyTypeOK ==
    /\ cache \in [Key -> Record \cup {None}]
    /\ req \in [Request -> Req]
    /\ effects \in [Key -> Nat]

(* At most one success per key: duplicates and retries of a call, in flight *)
(* together or after a crash, commit at most once while the key is kept     *)
(* (lookup and store run in different transactions, only the unique key     *)
(* joins them).                                                             *)
AtMostOnce == \A k \in Key : effects[k] <= 1

(* docs/security/threat-model.md:103, keys are "cached for 24 hours to      *)
(* prevent replay drift": what a retry is answered with has been done, once *)
(* the request that stored the response is over.                            *)
StoredIsCommitted ==
    \A k \in Key :
        Fresh(k) /\ ~(\E r \in Request : Committing(r, k)) => effects[k] > 0
=============================================================================
