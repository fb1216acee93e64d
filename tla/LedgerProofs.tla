---------------------------- MODULE LedgerProofs ----------------------------
(***************************************************************************)
(* Proofs about what outlives a request, its stored response and its audit *)
(* rows, for any number of requests, keys, calls, transactions and rows.   *)
(***************************************************************************)
EXTENDS ToolCalls, AuditQuery, Counting, FiniteSetTheorems, SequenceTheorems, TLAPS

-----------------------------------------------------------------------------
(* Idempotency.  At most one success per key, for any number of overlapping *)
(* requests, keys and calls, as long as requests on an expired key do not   *)
(* overlap.  The record of a key is what serialises its requests: it is     *)
(* there from the store until the key expires, and while it is there no     *)
(* other store can succeed.                                                 *)
(* A key whose record is stale, or about to be deleted, has one request.    *)
Alone(k) == \A r, q \in Request : On(r, k) /\ On(q, k) => r = q

KeyOK(k) ==
    /\ effects[k] \in {0, 1}
    /\ effects[k] = 1 => Fresh(k) /\ \A r \in Request : ~Committing(r, k)
    /\ \A r \in Request : Committing(r, k) => Fresh(k)
    /\ \A r, q \in Request : Committing(r, k) /\ Committing(q, k) => r = q
    /\ Expired(k) \/ Dropping(k) => Alone(k)
    /\ Dropping(k) => ~Fresh(k)

(* Every open request has a key and a call. *)
Opened(r) == req[r].step # "idle" => req[r].key \in Key /\ req[r].call \in Call

OnceInv == IdempotencyTypeOK /\ (\A r \in Request : Opened(r)) /\ \A k \in Key : KeyOK(k)

(* Only request r moves, and it stays on its key. *)
Moves(r) ==
    /\ req' \in [Request -> Req]
    /\ \A q \in Request \ {r} : req'[q] = req[q]
    /\ req'[r].step # "idle" => req'[r].key = req[r].key /\ req'[r].call = req[r].call

(* A request that moves to another step of its dispatch. *)
LEMMA GoesTo ==
    ASSUME IdempotencyTypeOK, NEW r \in Request, NEW step \in Step, GoTo(r, step)
    PROVE  Moves(r) /\ req'[r].step = step /\ req'[r].success = req[r].success
           /\ req'[r].key = req[r].key /\ req'[r].call = req[r].call
BY DEF IdempotencyTypeOK, GoTo, Moves, Req

(* A request that is answered is over. *)
LEMMA Answers ==
    ASSUME IdempotencyTypeOK, NEW r \in Request, Answer(r)
    PROVE  Moves(r) /\ req'[r].step = "idle"
BY DEF IdempotencyTypeOK, Answer, Moves, Req, NoRequest, Step

(* A step of r that leaves the cache and the counts alone, and neither      *)
(* starts a commit of a success nor a drop.                                 *)
LEMMA QuietMove ==
    ASSUME OnceInv, NEW r \in Request, req[r].step # "idle", Moves(r),
           UNCHANGED <<cache, effects>>,
           req'[r].step = "commit" => ~req'[r].success,
           req'[r].step # "drop"
    PROVE  OnceInv'
<1>1. IdempotencyTypeOK'
  BY DEF OnceInv, IdempotencyTypeOK, Moves
<1>2. \A q \in Request : Opened(q)'
  BY DEF OnceInv, Opened, Moves
<1>3. ASSUME NEW k \in Key PROVE KeyOK(k)'
  <2>1. \A q \in Request : On(q, k)' => On(q, k)
    BY DEF Moves, On
  <2>2. \A q \in Request : Committing(q, k)' => Committing(q, k)
    BY <2>1 DEF Moves, On, Committing
  <2>3. Dropping(k)' => Dropping(k)
    BY <2>1 DEF Moves, On, Dropping
  <2>4. (Fresh(k)' <=> Fresh(k)) /\ (Expired(k)' => Expired(k)) /\ effects'[k] = effects[k]
    BY DEF Fresh, Expired, Stored
  <2>5. KeyOK(k)
    BY DEF OnceInv
  <2> QED
    BY <2>1, <2>2, <2>3, <2>4, <2>5 DEF KeyOK, Alone
<1> QED
  BY <1>1, <1>2, <1>3 DEF OnceInv

(* An empty cache with no request open. *)
LEMMA InitOnce == IdempotencyInit => OnceInv
BY DEF IdempotencyInit, OnceInv, IdempotencyTypeOK, NoRequest, Req, Step, Opened, KeyOK, Fresh, Expired, Stored,
       Committing, Dropping, On, Alone

(* A request begins: on an expired key, only with no other one there. *)
LEMMA SendStep ==
    ASSUME OnceInv, SoloExpiredRetry, NEW r \in Request, NEW k \in Key, NEW c \in Call,
           send(r, k, c)
    PROVE  OnceInv'
<1> DEFINE new == [step |-> "lookup", key |-> k, call |-> c, success |-> FALSE]
<1>1. /\ req[r].step = "idle" /\ req' = [req EXCEPT ![r] = new]
      /\ UNCHANGED <<cache, effects>>
      /\ ~(Overlap(k) /\ (Expired(k) \/ Dropping(k)))
  BY DEF send
<1>2. new \in Req /\ new.step = "lookup" /\ new.key = k /\ new.call = c
  BY DEF Req, Step
<1> HIDE DEF new
<1>3. /\ req' \in [Request -> Req] /\ req'[r] = new
      /\ \A q \in Request \ {r} : req'[q] = req[q]
  BY <1>1, <1>2 DEF OnceInv, IdempotencyTypeOK
<1>4. IdempotencyTypeOK' /\ \A q \in Request : Opened(q)'
  BY <1>1, <1>2, <1>3 DEF OnceInv, IdempotencyTypeOK, Opened
<1>5. ASSUME NEW j \in Key PROVE KeyOK(j)'
  <2>1. /\ \A q \in Request : Committing(q, j)' => Committing(q, j)
        /\ \A q \in Request : On(q, j)' => On(q, j) \/ (q = r /\ j = k)
    BY <1>1, <1>2, <1>3 DEF Committing, On
  <2>2. Dropping(j)' => Dropping(j)
    BY <1>1, <1>2, <1>3 DEF Dropping, On
  <2>3. (Fresh(j)' <=> Fresh(j)) /\ (Expired(j)' => Expired(j)) /\ effects'[j] = effects[j]
    BY <1>1 DEF Fresh, Expired, Stored
  <2>4. KeyOK(j)
    BY DEF OnceInv
  <2>5. ASSUME Expired(j) \/ Dropping(j) PROVE Alone(j)'
    <3>1. Alone(j)
      BY <2>4, <2>5 DEF KeyOK
    <3>2. j = k => \A q \in Request : ~On(q, j)
      BY <1>1, <2>5 DEF Overlap
    <3> QED
      BY <2>1, <3>1, <3>2 DEF Alone
  <2> QED
    BY <2>1, <2>2, <2>3, <2>4, <2>5 DEF KeyOK
<1> QED
  BY <1>4, <1>5 DEF OnceInv

(* The lookup sees an expired record. *)
LEMMA LookupExpiredStep ==
    ASSUME OnceInv, NEW r \in Request, lookup_expired(r)
    PROVE  OnceInv'
<1>1. Moves(r) /\ req'[r].step = "drop" /\ req[r].step = "lookup" /\ Expired(req[r].key)
      /\ UNCHANGED <<cache, effects>>
  BY GoesTo DEF lookup_expired, OnceInv, Step
<1>2. IdempotencyTypeOK' /\ \A q \in Request : Opened(q)'
  BY <1>1 DEF OnceInv, IdempotencyTypeOK, Moves, Opened
<1>3. ASSUME NEW k \in Key PROVE KeyOK(k)'
  <2>1. \A q \in Request : On(q, k)' => On(q, k)
    BY <1>1 DEF Moves, On
  <2>2. \A q \in Request : Committing(q, k)' => Committing(q, k)
    BY <1>1, <2>1 DEF Moves, On, Committing
  <2>3. Dropping(k)' => Dropping(k) \/ (On(r, k) /\ req[r].key = k)
    BY <1>1, <2>1 DEF Moves, On, Dropping
  <2>4. (Fresh(k)' <=> Fresh(k)) /\ (Expired(k)' => Expired(k)) /\ effects'[k] = effects[k]
    BY <1>1 DEF Fresh, Expired, Stored
  <2>5. KeyOK(k)
    BY DEF OnceInv
  <2>6. Dropping(k)' => Alone(k)' /\ ~Fresh(k)'
    BY <1>1, <2>1, <2>3, <2>4, <2>5 DEF KeyOK, Alone, Fresh, Expired
  <2> QED
    BY <2>1, <2>2, <2>4, <2>5, <2>6 DEF KeyOK, Alone
<1> QED
  BY <1>2, <1>3 DEF OnceInv

(* The expired record is deleted: nothing else is open on the key. *)
LEMMA DropStep ==
    ASSUME OnceInv, NEW r \in Request, drop_expired(r)
    PROVE  OnceInv'
<1>1. Moves(r) /\ req'[r].step = "handle" /\ req[r].step = "drop" /\ UNCHANGED effects
      /\ cache' = [cache EXCEPT ![req[r].key] = None]
  BY GoesTo DEF drop_expired, OnceInv, Step
<1>2. req[r].key \in Key /\ On(r, req[r].key) /\ Dropping(req[r].key)
  BY <1>1 DEF OnceInv, Opened, On, Dropping
<1>3. IdempotencyTypeOK' /\ \A q \in Request : Opened(q)'
  BY <1>1, <1>2 DEF OnceInv, IdempotencyTypeOK, Moves, Opened
<1>4. ASSUME NEW k \in Key PROVE KeyOK(k)'
  <2>1. \A q \in Request : On(q, k)' => On(q, k)
    BY <1>1 DEF Moves, On
  <2>2. \A q \in Request : Committing(q, k)' => Committing(q, k)
    BY <1>1, <2>1 DEF Moves, On, Committing
  <2>3. Dropping(k)' => Dropping(k)
    BY <1>1, <2>1 DEF Moves, On, Dropping
  <2>4. KeyOK(k)
    BY DEF OnceInv
  <2>5. CASE k = req[r].key
    <3>1. effects[k] = 0 /\ \A q \in Request : ~Committing(q, k)
      BY <1>2, <2>4, <2>5 DEF KeyOK
    <3>2. ~Fresh(k)' /\ ~Expired(k)'
      BY <1>1, <1>2, <2>5 DEF Fresh, Expired, Stored, OnceInv, IdempotencyTypeOK
    <3>3. Alone(k)'
      BY <1>2, <2>1, <2>4, <2>5 DEF KeyOK, Alone
    <3> QED
      BY <1>1, <2>2, <3>1, <3>2, <3>3 DEF KeyOK
  <2>6. CASE k # req[r].key
    <3>1. cache'[k] = cache[k]
      BY <1>1, <2>6 DEF OnceInv, IdempotencyTypeOK
    <3>2. (Fresh(k)' <=> Fresh(k)) /\ (Expired(k)' => Expired(k)) /\ effects'[k] = effects[k]
      BY <1>1, <3>1 DEF Fresh, Expired, Stored
    <3> QED
      BY <2>1, <2>2, <2>3, <2>4, <3>2 DEF KeyOK, Alone
  <2> QED
    BY <2>5, <2>6
<1> QED
  BY <1>3, <1>4 DEF OnceInv

(* The response is stored: the key had no record, so no success either. *)
LEMMA StoreStep ==
    ASSUME OnceInv, NEW r \in Request, store_idempotency_response(r)
    PROVE  OnceInv'
<1>1. /\ Moves(r) /\ req'[r].step = "commit" /\ req[r].step = "store" /\ UNCHANGED effects
      /\ ~Stored(req[r].key)
      /\ cache' = [cache EXCEPT ![req[r].key] = [call |-> req[r].call, fresh |-> TRUE]]
  BY GoesTo DEF store_idempotency_response, OnceInv, Step
<1>2. req[r].key \in Key /\ req[r].call \in Call /\ On(r, req[r].key)
  BY <1>1 DEF OnceInv, Opened, On
<1>3. IdempotencyTypeOK' /\ \A q \in Request : Opened(q)'
  BY <1>1, <1>2 DEF OnceInv, IdempotencyTypeOK, Moves, Opened, Record
<1>4. ASSUME NEW k \in Key PROVE KeyOK(k)'
  <2>1. \A q \in Request : On(q, k)' => On(q, k)
    BY <1>1 DEF Moves, On
  <2>2. \A q \in Request \ {r} : Committing(q, k)' => Committing(q, k)
    BY <1>1, <2>1 DEF Moves, On, Committing
  <2>3. Dropping(k)' => Dropping(k) /\ \E q \in Request \ {r} : On(q, k)
    BY <1>1, <2>1 DEF Moves, On, Dropping
  <2>4. KeyOK(k)
    BY DEF OnceInv
  <2>5. CASE k = req[r].key
    <3>1. effects[k] = 0 /\ \A q \in Request : ~Committing(q, k)
      BY <1>1, <2>4, <2>5 DEF KeyOK, Fresh
    <3> DEFINE stored == [call |-> req[r].call, fresh |-> TRUE]
    <3>2. stored \in Record /\ stored.fresh = TRUE /\ cache'[k] = stored
      BY <1>1, <1>2, <2>5 DEF OnceInv, IdempotencyTypeOK, Record
    <3>3. Fresh(k)' /\ ~Expired(k)'
      <4> HIDE DEF stored
      <4> QED
        BY <3>2, IdempotencyAssumption DEF Fresh, Expired, Stored, Record
    <3>4. ~Dropping(k)'
      BY <1>2, <2>3, <2>4, <2>5 DEF KeyOK, Alone
    <3> QED
      BY <1>1, <2>2, <3>1, <3>3, <3>4 DEF KeyOK
  <2>6. CASE k # req[r].key
    <3>1. cache'[k] = cache[k]
      BY <1>1, <2>6 DEF OnceInv, IdempotencyTypeOK
    <3>2. (Fresh(k)' <=> Fresh(k)) /\ (Expired(k)' => Expired(k)) /\ effects'[k] = effects[k]
      BY <1>1, <3>1 DEF Fresh, Expired, Stored
    <3>3. ~Committing(r, k)'
      BY <1>1, <2>6 DEF Committing, On, Moves
    <3> QED
      BY <2>1, <2>2, <2>3, <2>4, <3>2, <3>3 DEF KeyOK, Alone
  <2> QED
    BY <2>5, <2>6
<1> QED
  BY <1>3, <1>4 DEF OnceInv

(* The auth middleware commits: no other request is committing a success.   *)
LEMMA CommitsStep ==
    ASSUME OnceInv, NEW r \in Request, commit(r)
    PROVE  OnceInv'
<1>1. Moves(r) /\ req'[r].step = "idle" /\ req[r].step = "commit" /\ UNCHANGED cache
  BY Answers DEF commit, OnceInv
<1>2. req[r].key \in Key /\ On(r, req[r].key)
  BY <1>1 DEF OnceInv, Opened, On
<1>3. CASE ~req[r].success
  BY <1>1, <1>3, QuietMove DEF commit
<1>4. CASE req[r].success
  <2>1. effects' = [effects EXCEPT ![req[r].key] = effects[req[r].key] + 1]
    BY <1>4 DEF commit
  <2>2. IdempotencyTypeOK' /\ \A q \in Request : Opened(q)'
    BY <1>1, <1>2, <2>1 DEF OnceInv, IdempotencyTypeOK, Moves, Opened
  <2>3. ASSUME NEW k \in Key PROVE KeyOK(k)'
    <3>1. \A q \in Request : On(q, k)' => On(q, k)
      BY <1>1 DEF Moves, On
    <3>2. \A q \in Request : Committing(q, k)' => Committing(q, k) /\ q # r
      BY <1>1, <3>1 DEF Moves, On, Committing
    <3>3. Dropping(k)' => Dropping(k)
      BY <1>1, <3>1 DEF Moves, On, Dropping
    <3>4. KeyOK(k)
      BY DEF OnceInv
    <3>5. (Fresh(k)' <=> Fresh(k)) /\ (Expired(k)' => Expired(k))
      BY <1>1 DEF Fresh, Expired, Stored
    <3>6. CASE k = req[r].key
      <4>1. Committing(r, k)
        BY <1>1, <1>2, <1>4, <3>6 DEF Committing
      <4>2. effects[k] = 0 /\ Fresh(k) /\ \A q \in Request : ~Committing(q, k)'
        BY <3>2, <3>4, <4>1 DEF KeyOK
      <4>3. effects'[k] = 1
        BY <2>1, <3>6, <4>2 DEF OnceInv, IdempotencyTypeOK
      <4> QED
        BY <3>1, <3>3, <3>4, <3>5, <4>2, <4>3 DEF KeyOK, Alone
    <3>7. CASE k # req[r].key
      <4>1. effects'[k] = effects[k]
        BY <2>1, <3>7 DEF OnceInv, IdempotencyTypeOK
      <4> QED
        BY <3>1, <3>2, <3>3, <3>4, <3>5, <4>1 DEF KeyOK, Alone
    <3> QED
      BY <3>6, <3>7
  <2> QED
    BY <2>2, <2>3 DEF OnceInv
<1> QED
  BY <1>3, <1>4

(* A key expires with no request open on it. *)
LEMMA ExpireStep ==
    ASSUME OnceInv, NEW k \in Key, expire(k)
    PROVE  OnceInv'
<1>1. /\ Fresh(k) /\ ~Overlap(k) /\ UNCHANGED req
      /\ cache' = [cache EXCEPT ![k].fresh = FALSE]
      /\ effects' = [effects EXCEPT ![k] = 0]
  BY DEF expire
<1>2. cache[k] \in Record
  BY <1>1 DEF Fresh, Stored, OnceInv, IdempotencyTypeOK
<1>3. IdempotencyTypeOK'
  BY <1>1, <1>2 DEF OnceInv, IdempotencyTypeOK, Record
<1>4. \A q \in Request : Opened(q)'
  BY <1>1 DEF OnceInv, Opened
<1>5. ASSUME NEW j \in Key PROVE KeyOK(j)'
  <2>1. /\ \A q \in Request : Committing(q, j)' => Committing(q, j)
        /\ \A q \in Request : On(q, j)' => On(q, j)
    BY <1>1 DEF On, Committing
  <2>2. Dropping(j)' => Dropping(j)
    BY <1>1 DEF Dropping, On
  <2>3. KeyOK(j)
    BY DEF OnceInv
  <2>4. CASE j = k
    <3>1. effects'[k] = 0
      BY <1>1 DEF OnceInv, IdempotencyTypeOK
    <3>2. \A q \in Request : ~On(q, k)
      BY <1>1 DEF Overlap
    <3>3. ~Dropping(k) /\ \A q \in Request : ~Committing(q, k)
      BY <3>2 DEF Committing, Dropping
    <3> QED
      BY <2>1, <2>2, <2>4, <3>1, <3>2, <3>3 DEF KeyOK, Alone
  <2>5. CASE j # k
    <3>1. cache'[j] = cache[j] /\ effects'[j] = effects[j]
      BY <1>1, <2>5 DEF OnceInv, IdempotencyTypeOK
    <3>2. (Fresh(j)' <=> Fresh(j)) /\ (Expired(j)' => Expired(j))
      BY <3>1 DEF Fresh, Expired, Stored
    <3> QED
      BY <2>1, <2>2, <2>3, <3>1, <3>2 DEF KeyOK, Alone
  <2> QED
    BY <2>4, <2>5
<1> QED
  BY <1>3, <1>4, <1>5 DEF OnceInv

(* Removing expired records: none of them counts a success. *)
LEMMA CleanupStep ==
    ASSUME OnceInv, cleanup_expired_idempotency_keys
    PROVE  OnceInv'
<1>1. /\ cache' = [k \in Key |-> IF Expired(k) THEN None ELSE cache[k]]
      /\ UNCHANGED <<req, effects>>
  BY DEF cleanup_expired_idempotency_keys
<1>2. IdempotencyTypeOK' /\ \A q \in Request : Opened(q)'
  BY <1>1 DEF OnceInv, IdempotencyTypeOK, Opened
<1>3. ASSUME NEW k \in Key PROVE KeyOK(k)'
  <2>1. /\ \A q \in Request : Committing(q, k)' => Committing(q, k)
        /\ \A q \in Request : On(q, k)' => On(q, k)
    BY <1>1 DEF On, Committing
  <2>2. Dropping(k)' => Dropping(k)
    BY <1>1 DEF Dropping, On
  <2>3. (Fresh(k)' <=> Fresh(k)) /\ (Expired(k)' => Expired(k)) /\ effects'[k] = effects[k]
    BY <1>1 DEF Fresh, Expired, Stored
  <2>4. KeyOK(k)
    BY DEF OnceInv
  <2> QED
    BY <2>1, <2>2, <2>3, <2>4 DEF KeyOK, Alone
<1> QED
  BY <1>2, <1>3 DEF OnceInv

(* Every step of a request. *)
LEMMA DispatchStep ==
    ASSUME OnceInv, SoloExpiredRetry, NEW r \in Request, dispatch(r)
    PROVE  OnceInv'
<1>1. CASE lookup_miss(r)
  BY <1>1, GoesTo, QuietMove DEF lookup_miss, OnceInv, Step
<1>2. CASE lookup_conflict(r) \/ lookup_hit(r) \/ store_conflict(r) \/ abort(r)
  BY <1>2, Answers, QuietMove DEF lookup_conflict, lookup_hit, store_conflict, abort, OnceInv
<1>3. ASSUME NEW success \in BOOLEAN, call_next(r, success) PROVE OnceInv'
  <2> DEFINE new == [req[r] EXCEPT !.success = success,
                                  !.step = IF success THEN "store" ELSE "commit"]
  <2>1. req[r] \in Req /\ req[r].step = "handle"
    BY <1>3 DEF OnceInv, IdempotencyTypeOK, call_next
  <2>2. /\ new \in Req /\ new.success = success /\ new.key = req[r].key
        /\ new.call = req[r].call
        /\ new.step = IF success THEN "store" ELSE "commit"
    BY <2>1 DEF Req, Step
  <2>3. req' = [req EXCEPT ![r] = new] /\ UNCHANGED <<cache, effects>>
    BY <1>3 DEF call_next
  <2> HIDE DEF new
  <2>4. Moves(r) /\ req'[r] = new
    BY <2>2, <2>3 DEF Moves, OnceInv, IdempotencyTypeOK
  <2> QED
    BY <2>1, <2>2, <2>3, <2>4, QuietMove
<1> QED
  BY <1>1, <1>2, <1>3, SendStep, LookupExpiredStep, DropStep, StoreStep, CommitsStep
     DEF dispatch, serve

(* Nothing happens. *)
LEMMA StutterStep == OnceInv /\ UNCHANGED idempotencyVars => OnceInv'
BY DEF OnceInv, idempotencyVars, IdempotencyTypeOK, Opened, KeyOK, Fresh, Expired, Stored, Committing, Dropping,
       On, Alone

(* At most once: under one key, overlapping, retried and crashed requests   *)
(* commit at most one success between the first use of the key and its      *)
(* expiry (IdempotencyKeyMiddleware.dispatch), provided that no two         *)
(* requests overlap on an expired key.                                      *)
THEOREM SuccessAtMostOnce ==
    ASSUME SoloExpiredRetry
    PROVE  IdempotencySpec => []AtMostOnce
<1>1. OnceInv /\ [IdempotencyNext]_idempotencyVars => OnceInv'
  BY DispatchStep, ExpireStep, CleanupStep, StutterStep DEF IdempotencyNext, age_out
<1>2. OnceInv => AtMostOnce
  BY DEF OnceInv, KeyOK, AtMostOnce
<1> QED
  BY <1>1, <1>2, InitOnce, PTL DEF IdempotencySpec

-----------------------------------------------------------------------------
(* The tools.  What is stored under a key, and every request on its way, is  *)
(* a tool call that the key was derived from; calls with one key and one    *)
(* body are the same call, because the key names what the body leaves out.  *)
KeyedCalls == {c \in ToolCall : c.tool \in Keyed}
Derived(k, c) == c \in KeyedCalls /\ idempotency_key(c) = k

ToolsTypeOK ==
    /\ cache \in [Key -> Record \cup {None}]
    /\ req \in [Request -> Req]
    /\ via \in [Agent -> Request \cup {None}]

ToolsInv ==
    /\ ToolsTypeOK
    /\ \A k \in Key : Stored(k) => Derived(k, cache[k].call)
    /\ \A r \in Request : req[r].step # "idle" => Derived(req[r].key, req[r].call)

(* One key and one body make one call. *)
LEMMA KeyAndBody ==
    ASSUME NEW c \in KeyedCalls, NEW d \in KeyedCalls,
           idempotency_key(c) = idempotency_key(d), Digest[c] = Digest[d]
    PROVE  c = d
<1>1. /\ c = [tool |-> c.tool, on |-> c.on, said |-> c.said]
      /\ d = [tool |-> d.tool, on |-> d.on, said |-> d.said]
      /\ json_body(c) = json_body(d)
  BY ToolCallsAssumption DEF KeyedCalls
<1>2. c.tool \in Keyed /\ d.tool \in Keyed
  BY DEF KeyedCalls
<1>3. c.on = d.on /\ c.said = d.said /\ (c.tool = "submit_payload" <=> d.tool = "submit_payload")
  BY DEF idempotency_key, submit_key, task_type_key, uuid5
<1>4. c.tool = "register_task_type" <=> d.tool = "register_task_type"
  <2>1. \A x, y, z : <<x, y>> # <<z>>
    <3> SUFFICES ASSUME NEW x, NEW y, NEW z, <<x, y>> = <<z>> PROVE FALSE
      OBVIOUS
    <3>1. Len(<<x, y>>) = 2 /\ Len(<<z>>) = 1
      OBVIOUS
    <3> QED
      BY <3>1
  <2> QED
    BY <1>1, <2>1 DEF json_body
<1>5. c.tool = d.tool
  BY <1>2, <1>3, <1>4 DEF Keyed
<1> QED
  BY <1>1, <1>3, <1>5

(* A step of requests that keep their key and call, and of records that stay *)
(* or go.                                                                   *)
LEMMA CallsStay ==
    ASSUME ToolsInv, ToolsTypeOK',
           \A r \in Request : req'[r].step # "idle" =>
               \/ Derived(req'[r].key, req'[r].call)
               \/ req[r].step # "idle" /\ req'[r].key = req[r].key /\ req'[r].call = req[r].call,
           \A k \in Key : cache'[k] # None =>
               \/ Derived(k, cache'[k].call)
               \/ cache[k] # None /\ cache'[k].call = cache[k].call
    PROVE  ToolsInv'
BY DEF ToolsInv, Stored, Derived

LEMMA ServeKeeps ==
    ASSUME ToolsInv, NEW r \in Request, serve(r), UNCHANGED toolVars
    PROVE  ToolsInv'
<1>0. /\ req \in [Request -> Req] /\ cache \in [Key -> Record \cup {None}]
      /\ via' = via /\ via \in [Agent -> Request \cup {None}]
      /\ req[r] \in Req
  BY DEF ToolsInv, ToolsTypeOK, toolVars
<1>1. ASSUME req[r].step # "idle", NEW step \in Step, NEW success \in BOOLEAN,
             req' = [req EXCEPT ![r].success = success, ![r].step = step],
             cache' \in [Key -> Record \cup {None}],
             \A k \in Key : cache'[k] # None =>
                 \/ Derived(k, cache'[k].call)
                 \/ cache[k] # None /\ cache'[k].call = cache[k].call
      PROVE  ToolsInv'
  <2>1. req' \in [Request -> Req]
    BY <1>0, <1>1 DEF Req
  <2>2. \A q \in Request : req'[q].key = req[q].key /\ req'[q].call = req[q].call
                           /\ (req'[q].step # "idle" => req[q].step # "idle")
    BY <1>0, <1>1 DEF Req
  <2>3. ToolsTypeOK'
    BY <1>0, <1>1, <2>1 DEF ToolsTypeOK
  <2> QED
    BY <1>1, <2>2, <2>3, CallsStay
<1>2. ASSUME Answer(r), UNCHANGED cache PROVE ToolsInv'
  <2>1. NoRequest \in Req /\ NoRequest.step = "idle"
    BY DEF NoRequest, Req, Step
  <2>2. ToolsTypeOK'
    BY <1>0, <1>2, <2>1 DEF ToolsTypeOK, Answer
  <2>3. \A q \in Request : req'[q].step # "idle" => req'[q] = req[q]
    BY <1>0, <1>2, <2>1 DEF Answer
  <2> QED
    BY <1>2, <2>2, <2>3, CallsStay
<1>3. ASSUME NEW step \in Step, GoTo(r, step)
      PROVE  req' = [req EXCEPT ![r].success = req[r].success, ![r].step = step]
             /\ req[r].success \in BOOLEAN
  <2>1. req' = [req EXCEPT ![r].step = step]
    BY <1>3 DEF GoTo
  <2>2. [req[r] EXCEPT !.step = step] = [req[r] EXCEPT !.success = req[r].success, !.step = step]
    BY <1>0 DEF Req
  <2> QED
    BY <1>0, <2>1, <2>2 DEF Req
<1>4. CASE lookup_miss(r) \/ lookup_expired(r)
  <2>1. req[r].step # "idle" /\ UNCHANGED cache /\ (GoTo(r, "handle") \/ GoTo(r, "drop"))
    BY <1>4 DEF lookup_miss, lookup_expired
  <2>2. "handle" \in Step /\ "drop" \in Step
    BY DEF Step
  <2> QED
    BY <1>0, <1>1, <1>3, <2>1, <2>2
<1>5. CASE drop_expired(r)
  <2>1. req[r].step # "idle" /\ GoTo(r, "handle") /\ cache' = [cache EXCEPT ![req[r].key] = None]
    BY <1>5 DEF drop_expired
  <2>2. "handle" \in Step
    BY DEF Step
  <2>3. /\ cache' \in [Key -> Record \cup {None}]
        /\ \A k \in Key : cache'[k] # None => cache'[k] = cache[k]
    BY <1>0, <2>1
  <2> QED
    BY <1>1, <1>3, <2>1, <2>2, <2>3
<1>6. CASE lookup_conflict(r) \/ lookup_hit(r) \/ store_conflict(r) \/ commit(r) \/ abort(r)
  BY <1>2, <1>6 DEF lookup_conflict, lookup_hit, store_conflict, commit, abort
<1>7. ASSUME NEW success \in BOOLEAN, call_next(r, success) PROVE ToolsInv'
  <2>1. PICK step : step = IF success THEN "store" ELSE "commit"
    OBVIOUS
  <2>2. step \in Step
    BY <2>1 DEF Step
  <2>3. /\ req[r].step # "idle" /\ UNCHANGED cache
        /\ req' = [req EXCEPT ![r].success = success, ![r].step = step]
    BY <1>7, <2>1 DEF call_next
  <2> QED
    BY <1>0, <1>1, <2>2, <2>3
<1>8. CASE store_idempotency_response(r)
  <2>1. PICK k : k = req[r].key
    OBVIOUS
  <2>2. /\ req[r].step = "store" /\ GoTo(r, "commit")
        /\ cache' = [cache EXCEPT ![k] = [call |-> req[r].call, fresh |-> TRUE]]
    BY <1>8, <2>1 DEF store_idempotency_response
  <2>3. Derived(k, req[r].call)
    BY <2>1, <2>2 DEF ToolsInv
  <2>4. k \in Key /\ req[r].call \in Call
    BY <2>3, ToolCallsAssumption DEF Derived, KeyedCalls
  <2>5. [call |-> req[r].call, fresh |-> TRUE] \in Record
    BY <2>4 DEF Record
  <2>6. /\ cache' \in [Key -> Record \cup {None}]
        /\ \A j \in Key : j # k => cache'[j] = cache[j]
        /\ cache'[k].call = req[r].call
    BY <1>0, <2>2, <2>4, <2>5
  <2>7. "commit" \in Step
    BY DEF Step
  <2>8. ASSUME NEW j \in Key, cache'[j] # None
        PROVE  \/ Derived(j, cache'[j].call)
               \/ cache[j] # None /\ cache'[j].call = cache[j].call
    <3>1. CASE j = k
      <4>1. cache'[j].call = req[r].call
        BY <2>6, <3>1
      <4> QED
        BY <2>3, <3>1, <4>1
    <3>2. CASE j # k
      <4>1. cache'[j] = cache[j]
        BY <2>6, <3>2
      <4> QED
        BY <2>8, <4>1
    <3> QED
      BY <3>1, <3>2
  <2> QED
    BY <1>1, <1>3, <2>2, <2>6, <2>7, <2>8
<1> QED
  BY <1>4, <1>5, <1>6, <1>7, <1>8 DEF serve

LEMMA ToolsKeep == ToolsInv /\ [ToolsNext]_<<idempotencyVars, toolVars>> => ToolsInv'
<1> SUFFICES ASSUME ToolsInv, [ToolsNext]_<<idempotencyVars, toolVars>> PROVE ToolsInv'
  OBVIOUS
<1>0. /\ req \in [Request -> Req] /\ cache \in [Key -> Record \cup {None}]
      /\ via \in [Agent -> Request \cup {None}]
  BY DEF ToolsInv, ToolsTypeOK
<1>1. ASSUME NEW a \in Agent, NEW c \in ToolCall, NEW r \in Request, call_internal_api(a, c, r)
      PROVE  ToolsInv'
  <2>1. PICK new : new = [step |-> "lookup", key |-> idempotency_key(c), call |-> c, success |-> FALSE]
    OBVIOUS
  <2>2. /\ req' = [req EXCEPT ![r] = new] /\ cache' = cache
        /\ via' = [via EXCEPT ![a] = r] /\ c \in KeyedCalls
    BY <1>1, <2>1 DEF call_internal_api, send, KeyedCalls
  <2>3. new \in Req /\ Derived(new.key, new.call)
    BY <2>1, <2>2, ToolCallsAssumption DEF Req, Step, Derived, KeyedCalls
  <2>4. ToolsTypeOK'
    BY <1>0, <2>2, <2>3 DEF ToolsTypeOK
  <2>5. \A q \in Request : (q = r /\ req'[q] = new) \/ req'[q] = req[q]
    BY <1>0, <2>2
  <2> QED
    BY <2>2, <2>3, <2>4, <2>5, CallsStay
<1>2. ASSUME UNCHANGED idempotencyVars, via' \in [Agent -> Request \cup {None}] PROVE ToolsInv'
  BY <1>2 DEF ToolsInv, ToolsTypeOK, idempotencyVars, Stored, Derived
<1>3. ASSUME NEW a \in Agent, NEW c \in ToolCall,
             read(a, c) \/ run_session_tool(a, c) \/ call_without_key(a, c)
      PROVE  ToolsInv'
  BY <1>0, <1>2, <1>3 DEF read, run_session_tool, call_without_key
<1>4. ASSUME NEW a \in Agent, tool_returns(a) PROVE ToolsInv'
  BY <1>0, <1>2, <1>4 DEF tool_returns
<1>5. CASE age_out /\ UNCHANGED toolVars
  <2>1. ASSUME NEW k \in Key, expire(k)
        PROVE  /\ req' = req /\ cache' \in [Key -> Record \cup {None}]
               /\ \A j \in Key : cache'[j] # None => cache[j] # None /\ cache'[j].call = cache[j].call
    <3>1. cache[k] \in Record /\ cache[k] # None
      BY <1>0, <2>1 DEF expire, Fresh, Stored
    <3>2. [cache[k] EXCEPT !.fresh = FALSE] \in Record
          /\ [cache[k] EXCEPT !.fresh = FALSE].call = cache[k].call
      BY <3>1 DEF Record
    <3>3. cache' = [cache EXCEPT ![k] = [cache[k] EXCEPT !.fresh = FALSE]] /\ req' = req
      BY <2>1 DEF expire
    <3> QED
      BY <1>0, <3>1, <3>2, <3>3
  <2>2. CASE cleanup_expired_idempotency_keys
    <3>1. /\ req' = req /\ cache' \in [Key -> Record \cup {None}]
          /\ \A j \in Key : cache'[j] # None => cache'[j] = cache[j]
      BY <1>0, <2>2 DEF cleanup_expired_idempotency_keys
    <3> QED
      BY <1>0, <1>5, <3>1, CallsStay DEF ToolsTypeOK, toolVars
  <2>3. ASSUME NEW k \in Key, expire(k) PROVE ToolsInv'
    BY <1>0, <1>5, <2>1, <2>3, CallsStay DEF ToolsTypeOK, toolVars
  <2> QED
    BY <1>5, <2>2, <2>3 DEF age_out
<1>6. CASE UNCHANGED <<idempotencyVars, toolVars>>
  BY <1>0, <1>2, <1>6 DEF toolVars
<1> QED
  BY <1>1, <1>3, <1>4, <1>5, <1>6, ServeKeeps DEF ToolsNext

(* For any number of agents, jobs, types and overlapping calls, a tool that  *)
(* finds its key stored with its body is answered what the same call was:   *)
(* call_internal_api, the keys of submit_tools.py and the middleware.       *)
THEOREM ToolHitsAreOwn == ToolsSpec => []ToolHitsMatch
<1>1. ToolsInit => ToolsInv
  BY DEF ToolsInit, IdempotencyInit, ToolsInv, ToolsTypeOK, NoRequest, Req, Step, Stored
<1>2. ToolsInv => ToolHitsMatch
  <2> SUFFICES ASSUME ToolsInv, NEW a \in Agent, NEW r, r = via[a], r # None,
                      req[r].step = "lookup", Fresh(req[r].key),
                      Digest[cache[req[r].key].call] = Digest[req[r].call]
               PROVE  cache[req[r].key].call = req[r].call
    BY DEF ToolHitsMatch
  <2>1. r \in Request
    BY DEF ToolsInv, ToolsTypeOK
  <2>2. Derived(req[r].key, req[r].call)
    BY <2>1 DEF ToolsInv
  <2>3. req[r].key \in Key
    BY <2>2, ToolCallsAssumption DEF Derived, KeyedCalls
  <2>4. Derived(req[r].key, cache[req[r].key].call)
    BY <2>3 DEF ToolsInv, Fresh
  <2> QED
    BY <2>2, <2>4, KeyAndBody DEF Derived
<1> QED
  BY <1>1, <1>2, ToolsKeep, PTL DEF ToolsSpec

-----------------------------------------------------------------------------
(* The audit chain.  The ledger verifies for every reader, for any number   *)
(* of transactions: rows are made under the lock, which their transaction   *)
(* keeps, so that only the holder has rows of its own and they all come     *)
(* after the committed ones.  A row put after every row of a set leaves the *)
(* set's chain as it was and links to its end; a savepoint undone cuts the  *)
(* chain at a position, which leaves what precedes it.                      *)
IsSlot(s) ==
    /\ s = [own |-> s.own, inserting |-> s.inserting, snapshot |-> s.snapshot,
            mark |-> s.mark, held |-> s.held]
    /\ s.inserting \in BOOLEAN /\ s.held \in BOOLEAN
    /\ s.mark \in Nat \cup {None}

Shape ==
    /\ sequence \in Nat
    /\ lock \in Tx \cup {None}
    /\ tx = [a \in Tx |-> tx[a]]
    /\ \A a \in Tx : IsSlot(tx[a])

Numbered ==
    /\ \A r \in audit_log : r.position \in 1..sequence
    /\ \A a \in Tx : \A r \in tx[a].own : r.position \in 1..sequence
    /\ \A a \in Tx : tx[a].mark # None => tx[a].mark <= sequence

(* Only the holder of the lock has rows, newer than all committed ones. *)
OwnedUnderLock ==
    \A a \in Tx : tx[a].own # {} =>
        /\ lock = a
        /\ \A r \in tx[a].own, q \in audit_log : q.position < r.position

(* A lock taken inside the savepoint means no row from before it. *)
HeldBeforeMark ==
    \A a \in Tx : (tx[a].mark # None /\ ~tx[a].held) =>
        \A r \in tx[a].own : tx[a].mark < r.position

IInv ==
    /\ Shape
    /\ Numbered
    /\ OwnedUnderLock
    /\ HeldBeforeMark
    /\ ChainVerifies

-----------------------------------------------------------------------------
(* A row put after all others, linked to their end, breaks nothing. *)
LEMMA AppendVerifies ==
    ASSUME NEW S, NEW r,
           Breaks(S) = {},
           \A q \in S : q.position \in Nat,
           r.position \in Nat,
           \A q \in S : q.position < r.position,
           r.prev_hash = Hash(S),
           r.row_hash = audit_log_chain_digest(Hash(S), r.position)
    PROVE  Breaks(S \cup {r}) = {}
<1>1. Before(S \cup {r}, r) = S
  BY DEF Before
<1>2. ASSUME NEW q \in S PROVE Before(S \cup {r}, q) = Before(S, q)
  BY DEF Before
<1>3. ASSUME NEW q \in S, Before(S \cup {r}, q) = Before(S, q)
      PROVE  q \notin Breaks(S \cup {r})
  BY <1>3, Zenon DEF Breaks
<1>4. r \notin Breaks(S \cup {r})
  BY <1>1, Zenon DEF Breaks
<1>5. \A q \in Breaks(S \cup {r}) : q \in S \cup {r}
  BY Zenon DEF Breaks
<1> QED
  BY <1>2, <1>3, <1>4, <1>5, Zenon

(* The rows of a verified chain up to a position are a verified chain. *)
LEMMA PrefixVerifies ==
    ASSUME NEW S, NEW T, NEW n \in Nat,
           Breaks(S) = {},
           \A q \in S : q.position \in Nat,
           T = {q \in S : q.position <= n}
    PROVE  Breaks(T) = {}
<1>1. ASSUME NEW q \in T PROVE Before(T, q) = Before(S, q)
  BY <1>1 DEF Before
<1>2. ASSUME NEW q \in T, Before(T, q) = Before(S, q)
      PROVE  q \notin Breaks(T)
  BY <1>2, Zenon DEF Breaks
<1>3. \A q \in Breaks(T) : q \in T
  BY Zenon DEF Breaks
<1> QED
  BY <1>1, <1>2, <1>3, Zenon

LEMMA EmptyVerifies == Breaks({}) = {}
  BY Zenon DEF Breaks

(* A step that gives one transaction a new slot. *)
LEMMA SlotUpdated ==
    ASSUME Shape, NEW a \in Tx, NEW slot, IsSlot(slot),
           tx' = [tx EXCEPT ![a] = slot],
           sequence' \in Nat, lock' \in Tx \cup {None}
    PROVE  /\ Shape'
           /\ tx'[a] = slot
           /\ \A b \in Tx \ {a} : tx'[b] = tx[b]
<1>1. /\ tx'[a] = slot /\ \A b \in Tx \ {a} : tx'[b] = tx[b]
      /\ tx' = [b \in Tx |-> tx'[b]]
  BY DEF Shape
<1>2. \A b \in Tx : IsSlot(tx'[b])
  BY <1>1, Zenon DEF Shape
<1>3. \A b \in Tx : IsSlot(tx[b])' 
  BY <1>2, Zenon DEF IsSlot
<1> QED
  BY <1>1, <1>3, Zenon DEF Shape

Inserting(s, seen) == [s EXCEPT !.inserting = TRUE, !.snapshot = seen]
Marked(s, mark, held) == [s EXCEPT !.mark = mark, !.held = held]
Inserted(s, own) == [s EXCEPT !.own = own, !.inserting = FALSE, !.snapshot = {}]

LEMMA SlotInserting ==
    ASSUME NEW s, IsSlot(s), NEW seen
    PROVE  LET t == Inserting(s, seen)
           IN  IsSlot(t) /\ t.own = s.own /\ t.mark = s.mark /\ t.held = s.held
<1> SUFFICES ASSUME NEW t, t = [s EXCEPT !.inserting = TRUE, !.snapshot = seen]
             PROVE  IsSlot(t) /\ t.own = s.own /\ t.mark = s.mark /\ t.held = s.held
  BY Zenon DEF Inserting
<1> QED
  BY DEF IsSlot

LEMMA SlotMarked ==
    ASSUME NEW s, IsSlot(s), NEW mark \in Nat \cup {None}, NEW held \in BOOLEAN
    PROVE  LET t == Marked(s, mark, held)
           IN  IsSlot(t) /\ t.own = s.own /\ t.mark = mark /\ t.held = held
<1> SUFFICES ASSUME NEW t, t = [s EXCEPT !.mark = mark, !.held = held]
             PROVE  IsSlot(t) /\ t.own = s.own /\ t.mark = mark /\ t.held = held
  BY Zenon DEF Marked
<1> QED
  BY DEF IsSlot

LEMMA SlotInserted ==
    ASSUME NEW s, IsSlot(s), NEW own
    PROVE  LET t == Inserted(s, own)
           IN  IsSlot(t) /\ t.own = own /\ t.mark = s.mark /\ t.held = s.held
<1> SUFFICES ASSUME NEW t,
                    t = [s EXCEPT !.own = own, !.inserting = FALSE, !.snapshot = {}]
             PROVE  IsSlot(t) /\ t.own = own /\ t.mark = s.mark /\ t.held = s.held
  BY Zenon DEF Inserted
<1> QED
  BY DEF IsSlot

LEMMA SlotHolding ==
    ASSUME NEW own
    PROVE  LET t == Holding(own)
           IN  IsSlot(t) /\ t.own = own /\ t.mark = None
<1> SUFFICES ASSUME NEW t,
                    t = [own |-> own, inserting |-> FALSE, snapshot |-> {}, mark |-> None,
                         held |-> FALSE]
             PROVE  IsSlot(t) /\ t.own = own /\ t.mark = None
  BY Zenon DEF Holding
<1> QED
  BY DEF IsSlot

(* What a step must show of the sets its readers see. *)
LEMMA ViewsVerify ==
    ASSUME Breaks(audit_log') = {}, \A b \in Tx : Breaks(View(b)') = {}
    PROVE  ChainVerifies'
<1>1. Breaks(audit_log)' = Breaks(audit_log')
  BY Zenon DEF Breaks, Before, Hash, ZeroHash, audit_log_chain_digest
<1>2. ASSUME NEW b \in Tx PROVE Breaks(View(b))' = Breaks(View(b)')
  BY Zenon DEF Breaks, Before, Hash, ZeroHash, audit_log_chain_digest
<1> QED
  BY <1>1, <1>2, Zenon DEF ChainVerifies

-----------------------------------------------------------------------------
LEMMA InitEstablishes == ChainInit => IInv
<1> SUFFICES ASSUME ChainInit PROVE IInv
  OBVIOUS
<1>1. Shape /\ Numbered /\ OwnedUnderLock /\ HeldBeforeMark
  <2>1. \A a \in Tx : IsSlot(tx[a]) /\ tx[a].own = {} /\ tx[a].mark = None
    BY SlotHolding, Zenon DEF ChainInit, NoTx
  <2>2. Shape
    BY <2>1 DEF ChainInit, Shape
  <2> QED
    BY <2>1, <2>2 DEF ChainInit, Numbered, OwnedUnderLock, HeldBeforeMark
<1>2. audit_log = {} /\ \A a \in Tx : View(a) = {}
  BY <1>1 DEF ChainInit, View, NoTx, Holding
<1>3. ChainVerifies
  BY <1>2, EmptyVerifies, Zenon DEF ChainVerifies
<1> QED
  BY <1>1, <1>3 DEF IInv

(* A step that changes no more of the state than one mark. *)
LEMMA RowsUntouched ==
    ASSUME IInv, UNCHANGED <<audit_log, sequence, lock>>, Shape',
           \A b \in Tx : tx'[b].own = tx[b].own,
           \A b \in Tx : tx'[b].mark # None => tx'[b].mark <= sequence,
           HeldBeforeMark'
    PROVE  IInv'
<1>1. Numbered' /\ OwnedUnderLock'
  BY DEF IInv, Numbered, OwnedUnderLock
<1>2. ChainVerifies'
  <2>1. \A b \in Tx : View(b)' = View(b)
    BY DEF View
  <2> QED
    BY <2>1, ViewsVerify, Zenon DEF ChainVerifies, IInv
<1> QED
  BY <1>1, <1>2 DEF IInv

LEMMA InsertBegins ==
    ASSUME IInv, NEW a \in Tx, _write_audit_row(a)
    PROVE  IInv'
<1> DEFINE slot == Inserting(tx[a], audit_log)
<1>1. IsSlot(slot) /\ slot.own = tx[a].own /\ slot.mark = tx[a].mark
      /\ slot.held = tx[a].held
  <2>1. IsSlot(tx[a])
    BY DEF IInv, Shape
  <2> QED
    BY <2>1, SlotInserting, Zenon
<1>2. tx' = [tx EXCEPT ![a] = slot] /\ UNCHANGED <<audit_log, sequence, lock>>
  BY Zenon DEF _write_audit_row, Inserting
<1> HIDE DEF slot
<1>3. Shape' /\ tx'[a] = slot /\ \A b \in Tx \ {a} : tx'[b] = tx[b]
  BY <1>1, <1>2, SlotUpdated DEF IInv, Shape
<1>4. \A b \in Tx : /\ tx'[b].own = tx[b].own /\ tx'[b].mark = tx[b].mark
                     /\ tx'[b].held = tx[b].held
  BY <1>1, <1>3, Zenon
<1>5. HeldBeforeMark'
  BY <1>4, Zenon DEF IInv, HeldBeforeMark
<1>6. \A b \in Tx : tx'[b].mark # None => tx'[b].mark <= sequence
  BY <1>4, Zenon DEF IInv, Numbered
<1> QED
  BY <1>2, <1>3, <1>4, <1>5, <1>6, RowsUntouched, Zenon

LEMMA SavepointSet ==
    ASSUME IInv, NEW a \in Tx, begin_nested(a)
    PROVE  IInv'
<1> DEFINE slot == Marked(tx[a], sequence, lock = a)
<1>1. IsSlot(slot) /\ slot.own = tx[a].own /\ slot.mark = sequence
      /\ slot.held = (lock = a)
  <2>1. IsSlot(tx[a]) /\ sequence \in Nat \cup {None} /\ (lock = a) \in BOOLEAN
    BY DEF IInv, Shape
  <2> QED
    BY <2>1, SlotMarked, Zenon
<1>2. tx' = [tx EXCEPT ![a] = slot] /\ UNCHANGED <<audit_log, sequence, lock>>
  BY Zenon DEF begin_nested, Marked
<1> HIDE DEF slot
<1>3. Shape' /\ tx'[a] = slot /\ \A b \in Tx \ {a} : tx'[b] = tx[b]
  BY <1>1, <1>2, SlotUpdated DEF IInv, Shape
<1>4. \A b \in Tx : tx'[b].own = tx[b].own
  BY <1>1, <1>3, Zenon
<1>5. HeldBeforeMark'
  <2> SUFFICES ASSUME NEW b \in Tx, tx'[b].mark # None, ~tx'[b].held
               PROVE  \A r \in tx'[b].own : tx'[b].mark < r.position
    BY Zenon DEF HeldBeforeMark
  <2>1. CASE b = a
    <3>1. tx[a].own = {}
      BY <1>1, <1>3, <2>1, Zenon DEF IInv, OwnedUnderLock
    <3> QED
      BY <1>4, <2>1, <3>1, Zenon
  <2>2. CASE b # a
    BY <1>3, <2>2, Zenon DEF IInv, HeldBeforeMark
  <2> QED
    BY <2>1, <2>2
<1>6. \A b \in Tx : tx'[b].mark # None => tx'[b].mark <= sequence
  <2>1. sequence <= sequence
    BY DEF IInv, Shape
  <2> QED
    BY <1>1, <1>3, <2>1, Zenon DEF IInv, Numbered
<1> QED
  BY <1>2, <1>3, <1>4, <1>5, <1>6, RowsUntouched, Zenon

LEMMA SavepointReleased ==
    ASSUME IInv, NEW a \in Tx, release_savepoint(a)
    PROVE  IInv'
<1> DEFINE slot == Marked(tx[a], None, FALSE)
<1>1. IsSlot(slot) /\ slot.own = tx[a].own /\ slot.mark = None
  <2>1. IsSlot(tx[a]) /\ None \in Nat \cup {None} /\ FALSE \in BOOLEAN
    BY DEF IInv, Shape
  <2> QED
    BY <2>1, SlotMarked, Zenon
<1>2. tx' = [tx EXCEPT ![a] = slot] /\ UNCHANGED <<audit_log, sequence, lock>>
  BY Zenon DEF release_savepoint, Marked
<1> HIDE DEF slot
<1>3. Shape' /\ tx'[a] = slot /\ \A b \in Tx \ {a} : tx'[b] = tx[b]
  BY <1>1, <1>2, SlotUpdated DEF IInv, Shape
<1>4. \A b \in Tx : tx'[b].own = tx[b].own
  BY <1>1, <1>3, Zenon
<1>5. HeldBeforeMark'
  BY <1>1, <1>3, <1>4 DEF IInv, HeldBeforeMark
<1>6. \A b \in Tx : tx'[b].mark # None => tx'[b].mark <= sequence
  BY <1>1, <1>3 DEF IInv, Numbered
<1> QED
  BY <1>2, <1>3, <1>4, <1>5, <1>6, RowsUntouched, Zenon

(* The trigger puts one row after all that its transaction sees. *)
LEMMA TriggerAppends ==
    ASSUME IInv, NEW a \in Tx, audit_log_set_chain_hashes(a)
    PROVE  IInv'
<1> DEFINE prev == Hash(View(a))
           row == [position |-> sequence + 1, prev_hash |-> prev,
                   row_hash |-> audit_log_chain_digest(prev, sequence + 1)]
           slot == Inserted(tx[a], tx[a].own \cup {row})
<1>1. /\ lock \in {None, a} /\ lock' = a
      /\ tx' = [tx EXCEPT ![a] = slot]
      /\ sequence' = sequence + 1 /\ audit_log' = audit_log
  BY Zenon DEF audit_log_set_chain_hashes, Chained, TriggerView, Inserted
<1>2. /\ row.position = sequence + 1 /\ row.prev_hash = prev
      /\ row.row_hash = audit_log_chain_digest(prev, row.position)
  OBVIOUS
<1> HIDE DEF prev, row
<1>3. /\ IsSlot(slot)
      /\ slot.own = tx[a].own \cup {row}
      /\ slot.mark = tx[a].mark /\ slot.held = tx[a].held
  <2>1. IsSlot(tx[a])
    BY DEF IInv, Shape
  <2> QED
    BY <2>1, SlotInserted, Zenon
<1> HIDE DEF slot
<1>4. /\ Shape'
      /\ tx'[a].own = tx[a].own \cup {row}
      /\ \A b \in Tx \ {a} : tx'[b].own = tx[b].own
      /\ \A b \in Tx : tx'[b].mark = tx[b].mark /\ tx'[b].held = tx[b].held
  <2>1. Shape' /\ tx'[a] = slot /\ \A b \in Tx \ {a} : tx'[b] = tx[b]
    BY <1>1, <1>3, SlotUpdated DEF IInv, Shape
  <2> QED
    BY <1>3, <2>1, Zenon
<1>5. \A b \in Tx \ {a} : tx[b].own = {}
  BY <1>1, AuditAssumption DEF IInv, OwnedUnderLock
<1>6. sequence \in Nat /\ \A q \in View(a) : q.position \in 1..sequence
  BY DEF IInv, Shape, Numbered, View
<1>7. Numbered'
  <2>1. \A r \in audit_log : r.position \in 1..(sequence + 1)
    BY <1>6 DEF View
  <2>2. \A b \in Tx : \A r \in tx'[b].own : r.position \in 1..(sequence + 1)
    BY <1>2, <1>4, <1>5, <1>6 DEF View
  <2>3. \A b \in Tx : tx'[b].mark # None => tx'[b].mark <= sequence + 1
    BY <1>4, <1>6 DEF IInv, Shape, IsSlot, Numbered
  <2> QED
    BY <1>1, <2>1, <2>2, <2>3 DEF Numbered
<1>8. OwnedUnderLock'
  <2> SUFFICES ASSUME NEW b \in Tx, tx'[b].own # {}
               PROVE  /\ lock' = b
                      /\ \A r \in tx'[b].own, q \in audit_log : q.position < r.position
    BY <1>1 DEF OwnedUnderLock
  <2>1. b = a
    BY <1>4, <1>5
  <2>2. \A q \in audit_log : q.position < row.position
    BY <1>2, <1>6 DEF View
  <2> QED
    BY <1>1, <1>4, <2>1, <2>2 DEF IInv, OwnedUnderLock
<1>9. HeldBeforeMark'
  <2> SUFFICES ASSUME NEW b \in Tx, tx[b].mark # None, ~tx[b].held,
                      NEW r \in tx'[b].own
               PROVE  tx[b].mark < r.position
    BY <1>4 DEF HeldBeforeMark
  <2>1. CASE r \in tx[b].own
    BY <2>1 DEF IInv, HeldBeforeMark
  <2>2. CASE r = row
    BY <1>2, <1>6, <2>2 DEF IInv, Shape, IsSlot, Numbered
  <2> QED
    BY <1>4, <2>1, <2>2
<1>10. ChainVerifies'
  <2>1. View(a)' = View(a) \cup {row} /\ \A b \in Tx \ {a} : View(b)' = View(b)
    BY <1>1, <1>4 DEF View
  <2>2. Breaks(View(a) \cup {row}) = {}
    <3>1. Breaks(View(a)) = {}
      BY Zenon DEF IInv, ChainVerifies
    <3>2. /\ row.position \in Nat
          /\ \A q \in View(a) : q.position \in Nat /\ q.position < row.position
      BY <1>2, <1>6
    <3>3. row.prev_hash = Hash(View(a))
      BY <1>2 DEF prev
    <3>4. row.row_hash = audit_log_chain_digest(Hash(View(a)), row.position)
      BY <1>2 DEF prev
    <3> HIDE DEF row
    <3> QED
      BY <3>1, <3>2, <3>3, <3>4, AppendVerifies
  <2>3. Breaks(audit_log) = {} /\ \A b \in Tx : Breaks(View(b)) = {}
    BY Zenon DEF IInv, ChainVerifies
  <2>4. \A b \in Tx : View(b)' = View(a) \cup {row} \/ View(b)' = View(b)
    BY <2>1
  <2> QED
    BY <1>1, <2>2, <2>3, <2>4, ViewsVerify, Zenon
<1> QED
  BY <1>4, <1>7, <1>8, <1>9, <1>10 DEF IInv

(* An end that stores the rows of a transaction, or drops what follows its *)
(* savepoint, or all of them.                                              *)
LEMMA SavepointUndone ==
    ASSUME IInv, NEW a \in Tx, rollback_to_savepoint(a)
    PROVE  IInv'
<1> DEFINE n == tx[a].mark
           kept == {r \in tx[a].own : r.position <= n}
<1>1. /\ n \in Nat /\ sequence' = sequence /\ audit_log' = audit_log
      /\ tx' = [tx EXCEPT ![a] = Holding(kept)]
      /\ lock' = IF lock = a /\ ~tx[a].held THEN None ELSE lock
  BY Zenon DEF rollback_to_savepoint, IInv, Shape, IsSlot
<1>2. IsSlot(Holding(kept)) /\ Holding(kept).own = kept /\ Holding(kept).mark = None
  BY SlotHolding, Zenon
<1>3. kept \subseteq tx[a].own /\ \A r \in kept : r.position <= n
  OBVIOUS
<1>4. ASSUME NEW r \in kept PROVE tx[a].held
  <2>1. SUFFICES ASSUME ~tx[a].held PROVE FALSE
    OBVIOUS
  <2>2. n < r.position
    BY <1>1, <1>4, <2>1 DEF IInv, HeldBeforeMark, rollback_to_savepoint
  <2>3. r.position \in Nat /\ r.position <= n
    BY <1>3, <1>4 DEF IInv, Numbered, Shape
  <2> QED
    BY <1>1, <2>2, <2>3
<1>5. ASSUME NEW r \in kept, NEW q \in audit_log PROVE q.position <= n
  <2>1. q.position < r.position /\ r.position <= n
    BY <1>3, <1>5 DEF IInv, OwnedUnderLock
  <2>2. q.position \in Nat /\ r.position \in Nat
    BY <1>3, <1>5 DEF IInv, Numbered, Shape
  <2> QED
    BY <1>1, <2>1, <2>2
<1>6. \A q \in View(a) : q.position \in Nat
  BY DEF IInv, Numbered, Shape, View
<1>7. kept # {} => audit_log \cup kept = {q \in View(a) : q.position <= n}
  BY <1>5 DEF View
<1>8. lock' \in Tx \cup {None} /\ (lock # a => lock' = lock)
  BY <1>1 DEF IInv, Shape
<1> HIDE DEF kept, n
<1>9. Shape' /\ tx'[a].own = kept /\ tx'[a].mark = None
      /\ \A b \in Tx \ {a} : tx'[b] = tx[b]
  <2>1. Shape /\ sequence' \in Nat
    BY <1>1 DEF IInv, Shape
  <2>2. Shape' /\ tx'[a] = Holding(kept) /\ \A b \in Tx \ {a} : tx'[b] = tx[b]
    BY <1>1, <1>2, <1>8, <2>1, SlotUpdated
  <2> QED
    BY <1>2, <2>2, Zenon
<1>10. Numbered'
  <2>1. \A b \in Tx : tx'[b].own \subseteq tx[b].own
    BY <1>3, <1>9
  <2>2. \A b \in Tx : tx'[b].mark # None => tx'[b].mark = tx[b].mark
    BY <1>9
  <2> QED
    BY <1>1, <2>1, <2>2 DEF IInv, Numbered
<1>11. OwnedUnderLock'
  <2> SUFFICES ASSUME NEW b \in Tx, tx'[b].own # {}
               PROVE  /\ lock' = b
                      /\ \A r \in tx'[b].own, q \in audit_log : q.position < r.position
    BY <1>1 DEF OwnedUnderLock
  <2>1. tx'[b].own \subseteq tx[b].own
    BY <1>3, <1>9
  <2>2. lock = b /\ \A r \in tx'[b].own, q \in audit_log : q.position < r.position
    BY <2>1 DEF IInv, OwnedUnderLock
  <2>3. lock' = lock
    <3>1. CASE b = a
      BY <1>1, <1>4, <1>9, <3>1
    <3>2. CASE b # a
      BY <1>8, <2>2, <3>2
    <3> QED
      BY <3>1, <3>2
  <2> QED
    BY <2>2, <2>3
<1>12. HeldBeforeMark'
  BY <1>9, Zenon DEF IInv, HeldBeforeMark
<1>13. ChainVerifies'
  <2>1. Breaks(audit_log) = {} /\ \A b \in Tx : Breaks(View(b)) = {}
    BY Zenon DEF IInv, ChainVerifies
  <2>2. Breaks(audit_log \cup kept) = {}
    <3>1. CASE kept = {}
      <4>1. audit_log \cup kept = audit_log
        BY <3>1
      <4> QED
        BY <2>1, <4>1, Zenon
    <3>2. CASE kept # {}
      BY <1>1, <1>6, <1>7, <2>1, <3>2, PrefixVerifies
    <3> QED
      BY <3>1, <3>2
  <2>3. View(a)' = audit_log \cup kept /\ \A b \in Tx \ {a} : View(b)' = View(b)
    BY <1>1, <1>9 DEF View
  <2>4. \A b \in Tx : View(b)' = audit_log \cup kept \/ View(b)' = View(b)
    BY <2>3
  <2> QED
    BY <1>1, <2>1, <2>2, <2>4, ViewsVerify, Zenon
<1> QED
  BY <1>9, <1>10, <1>11, <1>12, <1>13 DEF IInv

(* The slot of a transaction that ended, and the lock. *)
LEMMA SlotEnded ==
    ASSUME IInv, NEW a \in Tx, End(a), sequence' = sequence
    PROVE  /\ Shape'
           /\ tx'[a].own = {} /\ tx'[a].mark = None
           /\ \A b \in Tx \ {a} : tx'[b] = tx[b]
           /\ lock' = IF lock = a THEN None ELSE lock
<1>1. tx' = [tx EXCEPT ![a] = NoTx] /\ lock' = IF lock = a THEN None ELSE lock
  BY DEF End
<1>2. IsSlot(NoTx) /\ NoTx.own = {} /\ NoTx.mark = None
  BY SlotHolding, Zenon DEF NoTx
<1>3. Shape /\ sequence' \in Nat /\ lock' \in Tx \cup {None}
  BY <1>1 DEF IInv, Shape
<1>4. Shape' /\ tx'[a] = NoTx /\ \A b \in Tx \ {a} : tx'[b] = tx[b]
  BY <1>1, <1>2, <1>3, SlotUpdated
<1> QED
  BY <1>1, <1>2, <1>4, Zenon

LEMMA CommitKeeps ==
    ASSUME IInv, NEW a \in Tx, commit_tx(a)
    PROVE  IInv'
<1>1. /\ tx[a].own # {} /\ audit_log' = View(a)
      /\ sequence' = sequence /\ End(a)
  BY DEF commit_tx, View
<1>2. /\ Shape'
      /\ tx'[a].own = {} /\ tx'[a].mark = None
      /\ \A b \in Tx \ {a} : tx'[b] = tx[b]
  BY <1>1, SlotEnded
<1>3. \A b \in Tx : tx'[b].own = {}
  <2>1. lock = a
    BY <1>1 DEF IInv, OwnedUnderLock
  <2>2. \A b \in Tx \ {a} : tx[b].own = {}
    BY <2>1 DEF IInv, OwnedUnderLock
  <2> QED
    BY <1>2, <2>2
<1>4. Numbered'
  <2>1. \A r \in View(a) : r.position \in 1..sequence
    BY DEF IInv, Numbered, View
  <2> QED
    BY <1>1, <1>2, <1>3, <2>1 DEF IInv, Numbered
<1>5. OwnedUnderLock' /\ HeldBeforeMark'
  BY <1>3 DEF OwnedUnderLock, HeldBeforeMark
<1>6. ChainVerifies'
  <2>1. Breaks(View(a)) = {}
    BY Zenon DEF IInv, ChainVerifies
  <2>2. \A b \in Tx : View(b)' = View(a)
    BY <1>1, <1>3 DEF View
  <2> QED
    BY <1>1, <2>1, <2>2, ViewsVerify, Zenon
<1> QED
  BY <1>2, <1>4, <1>5, <1>6 DEF IInv

LEMMA RollbackKeeps ==
    ASSUME IInv, NEW a \in Tx, rollback_tx(a)
    PROVE  IInv'
<1>1. audit_log' = audit_log /\ sequence' = sequence /\ End(a)
  BY DEF rollback_tx
<1>2. /\ Shape'
      /\ tx'[a].own = {} /\ tx'[a].mark = None
      /\ \A b \in Tx \ {a} : tx'[b] = tx[b]
      /\ lock' = IF lock = a THEN None ELSE lock
  BY <1>1, SlotEnded
<1>3. Numbered'
  BY <1>1, <1>2 DEF IInv, Numbered
<1>4. OwnedUnderLock'
  BY <1>1, <1>2 DEF IInv, OwnedUnderLock
<1>5. HeldBeforeMark'
  BY <1>2, Zenon DEF IInv, HeldBeforeMark
<1>6. ChainVerifies'
  <2>1. Breaks(audit_log) = {} /\ \A b \in Tx : Breaks(View(b)) = {}
    BY Zenon DEF IInv, ChainVerifies
  <2>2. \A b \in Tx : View(b)' = audit_log \/ View(b)' = View(b)
    BY <1>1, <1>2 DEF View
  <2> QED
    BY <1>1, <2>1, <2>2, ViewsVerify, Zenon
<1> QED
  BY <1>2, <1>3, <1>4, <1>5, <1>6 DEF IInv

LEMMA StepKeeps == IInv /\ [ChainNext]_chainVars => IInv'
<1> SUFFICES ASSUME IInv, [ChainNext]_chainVars PROVE IInv'
  OBVIOUS
<1>1. CASE UNCHANGED chainVars
  <2>1. UNCHANGED <<audit_log, sequence, lock, tx>>
    BY <1>1 DEF chainVars
  <2>2. Shape' /\ HeldBeforeMark'
    <3>1. \A a \in Tx : IsSlot(tx[a])'
      BY <2>1, Zenon DEF IInv, Shape, IsSlot
    <3> QED
      BY <2>1, <3>1, Zenon DEF IInv, Shape, HeldBeforeMark
  <2>3. \A b \in Tx : tx'[b].mark # None => tx'[b].mark <= sequence
    BY <2>1 DEF IInv, Numbered
  <2> QED
    BY <2>1, <2>2, <2>3, RowsUntouched, Zenon
<1>2. CASE ChainNext
  <2>1. PICK a \in Tx :
          \/ _write_audit_row(a) \/ audit_log_set_chain_hashes(a) \/ begin_nested(a)
          \/ release_savepoint(a) \/ rollback_to_savepoint(a) \/ commit_tx(a) \/ rollback_tx(a)
    BY <1>2, Zenon DEF ChainNext, transact
  <2> QED
    BY <2>1, InsertBegins, TriggerAppends, SavepointSet, SavepointReleased,
       SavepointUndone, CommitKeeps, RollbackKeeps, Zenon
<1> QED
  BY <1>1, <1>2

(* For any number of transactions and rows, whatever commits, rolls back,  *)
(* is undone to a savepoint or dies while it waits, the ledger verifies in *)
(* the eyes of everyone who reads it.                                      *)
THEOREM LedgerVerifies == ChainSpec => []ChainVerifies
<1>1. IInv => ChainVerifies
  BY DEF IInv
<1> QED
  BY <1>1, InitEstablishes, StepKeeps, PTL DEF ChainSpec

LEMMA StepGrows ==
    ASSUME IInv, ChainNext
    PROVE  /\ audit_log \subseteq audit_log'
           /\ \A r \in audit_log' \ audit_log :
                 \A q \in audit_log : q.position < r.position
<1>1. PICK a \in Tx :
        \/ _write_audit_row(a) \/ audit_log_set_chain_hashes(a) \/ begin_nested(a)
        \/ release_savepoint(a) \/ rollback_to_savepoint(a) \/ commit_tx(a) \/ rollback_tx(a)
  BY Zenon DEF ChainNext, transact
<1>2. CASE commit_tx(a)
  BY <1>2 DEF commit_tx, IInv, OwnedUnderLock
<1>3. CASE ~commit_tx(a)
  <2>1. audit_log' = audit_log
    BY <1>1, <1>3, Zenon DEF _write_audit_row, audit_log_set_chain_hashes, Chained,
       begin_nested, release_savepoint, rollback_to_savepoint, rollback_tx
  <2> QED
    BY <2>1
<1> QED
  BY <1>2, <1>3

(* A commit puts its rows after all that readers have seen, and no step    *)
(* changes or removes what they have seen.                                 *)
THEOREM LedgerGrowsAtItsEnd == ChainSpec => GrowsAtItsEnd
<1>1. IInv /\ [ChainNext]_chainVars =>
        [/\ audit_log \subseteq audit_log'
         /\ \A r \in audit_log' \ audit_log :
               \A q \in audit_log : q.position < r.position]_chainVars
  BY StepGrows
<1> QED
  BY <1>1, InitEstablishes, StepKeeps, PTL DEF ChainSpec, GrowsAtItsEnd

-----------------------------------------------------------------------------
(* The pages of the audit endpoint.  Positions grow with time, so that the   *)
(* rows committed after a walk began are no older than those it began with; *)
(* and a row is older than the cursor exactly if it was not shown.          *)
RowShape == [created_at : Nat, id : RowId, columns : Columns]

Dated ==
    /\ entry \in Seq(RowShape) /\ Len(entry) = sequence /\ clock \in Nat
    /\ \A p \in 1..sequence : entry[p].created_at <= clock
    /\ \A p, q \in 1..sequence : p < q => entry[p].created_at <= entry[q].created_at
    /\ \A p, q \in 1..sequence : entry[p].id = entry[q].id => p = q

Asked == {p \in Committed : Matches(walk.payload, p)}

WalkOK ==
    /\ walk.payload \in Payload
    /\ walk.began \subseteq Asked
    /\ walk.shown \in Seq(Asked)
    /\ \A i, j \in DOMAIN walk.shown : i < j => Newer(walk.shown[i], walk.shown[j])
    /\ \A p \in walk.began \ Shown : walk.cursor # None /\ Newer(walk.cursor, p)
    /\ walk.cursor # None =>
          walk.cursor \in Shown /\ \A p \in Shown : p = walk.cursor \/ Newer(p, walk.cursor)
    /\ \A p \in Asked \ walk.began : \A q \in walk.began : q < p

QueryInv == IInv /\ Dated /\ (walk = NoWalk \/ WalkOK)

(* Newer is a strict order of the rows. *)
LEMMA NewerOrders ==
    ASSUME Dated, sequence \in Nat
    PROVE  /\ \A p \in 1..sequence : ~Newer(p, p)
           /\ \A p, q, r \in 1..sequence : Newer(p, q) /\ Newer(q, r) => Newer(p, r)
           /\ \A p, q \in 1..sequence : p = q \/ Newer(p, q) \/ Newer(q, p)
<1>1. ASSUME NEW p \in 1..sequence PROVE entry[p].created_at \in Nat /\ entry[p].id \in Nat
  <2>1. entry[p] \in RowShape
    BY DEF Dated
  <2> QED
    BY <2>1, QueryAssumption DEF RowShape
<1>2. \A p, q \in 1..sequence : entry[p].id = entry[q].id => p = q
  BY DEF Dated
<1> QED
  BY <1>1, <1>2 DEF Newer

LEMMA CommittedFinite ==
    ASSUME IInv
    PROVE  Committed \subseteq 1..sequence /\ sequence \in Nat /\ IsFiniteSet(Committed)
<1>1. Committed \subseteq 1..sequence /\ sequence \in Nat
  BY DEF IInv, Shape, Numbered, Committed
<1>2. IsFiniteSet(1..sequence)
  BY <1>1, FS_Interval
<1> QED
  BY <1>1, <1>2, FS_Subset

(* The rows of a set, each at its place. *)
LEMMA NthRow ==
    ASSUME IInv, Dated, NEW rows \in SUBSET Committed
    PROVE  /\ Cardinality(rows) \in Nat
           /\ \A k \in 1..Cardinality(rows) : Nth(rows, k) \in rows
           /\ \A k, l \in 1..Cardinality(rows) : k < l => Newer(Nth(rows, k), Nth(rows, l))
           /\ \A p \in rows : \E k \in 1..Cardinality(rows) : Nth(rows, k) = p
<1> DEFINE newer == [p \in rows |-> {q \in rows : Newer(q, p)}]
           n == Cardinality(rows)
<1>3. IsFiniteSet(rows) /\ rows \subseteq 1..sequence
  BY CommittedFinite, FS_Subset
<1>4. /\ newer \in [rows -> SUBSET rows]
      /\ \A p \in rows : p \notin newer[p]
      /\ \A p, q, r \in rows : p \in newer[q] /\ q \in newer[r] => p \in newer[r]
      /\ \A p, q \in rows : p = q \/ p \in newer[q] \/ q \in newer[p]
  BY <1>3, CommittedFinite, NewerOrders
<1>5. \A p, q \in rows : p \in newer[q] <=> Newer(p, q)
  OBVIOUS
<1>6. \A p \in rows : newer[p] = {q \in rows : Newer(q, p)}
  OBVIOUS
<1> HIDE DEF newer
<1>7. /\ n \in Nat
      /\ \A p \in rows : Cardinality(newer[p]) + 1 \in 1..n
      /\ \A p \in rows : Cardinality(newer[p]) \in Nat
      /\ \A p, q \in rows : p \in newer[q] => Cardinality(newer[p]) < Cardinality(newer[q])
      /\ \A k \in 1..n : \E p \in rows : Cardinality(newer[p]) = k - 1
  BY <1>3, <1>4, Line
<1> HIDE DEF n
<1>8. ASSUME NEW k \in 1..n PROVE Nth(rows, k) \in rows /\ Cardinality(newer[Nth(rows, k)]) = k - 1
  <2>1. \E p \in rows : Cardinality({q \in rows : Newer(q, p)}) = k - 1
    BY <1>6, <1>7
  <2>2. Nth(rows, k) \in rows /\ Cardinality({q \in rows : Newer(q, Nth(rows, k))}) = k - 1
    BY <2>1 DEF Nth
  <2> QED
    BY <1>6, <2>2
<1>9. ASSUME NEW k \in 1..n, NEW l \in 1..n, k < l PROVE Newer(Nth(rows, k), Nth(rows, l))
  <2>1. PICK p \in rows, q \in rows : /\ p = Nth(rows, k) /\ Cardinality(newer[p]) = k - 1
                                      /\ q = Nth(rows, l) /\ Cardinality(newer[q]) = l - 1
    BY <1>8
  <2>2. p # q /\ ~(q \in newer[p])
    <3>1. k - 1 < l - 1 /\ k \in Int /\ l \in Int
      BY <1>7, <1>9
    <3> QED
      BY <1>7, <2>1, <3>1
  <2> QED
    BY <1>4, <1>5, <2>1, <2>2
<1>10. ASSUME NEW p \in rows PROVE \E k \in 1..n : Nth(rows, k) = p
  <2>1. PICK k \in 1..n : k = Cardinality(newer[p]) + 1
    BY <1>7
  <2>2. PICK q \in rows : q = Nth(rows, k) /\ Cardinality(newer[q]) = k - 1
    BY <1>8
  <2>3. Cardinality(newer[q]) = Cardinality(newer[p])
    BY <1>7, <2>1, <2>2
  <2>4. ~(q \in newer[p]) /\ ~(p \in newer[q])
    BY <1>7, <2>3
  <2> QED
    BY <1>4, <2>2, <2>4
<1> QED
  BY <1>7, <1>8, <1>9, <1>10 DEF n

(* What a page is of the rows that match and lie behind the cursor: some of  *)
(* them, in order, and all of those before its cursor, which is its last row. *)
IsPage(rows, page) ==
    /\ page.items \in Seq(rows)
    /\ \A i, j \in DOMAIN page.items : i < j => Newer(page.items[i], page.items[j])
    /\ \A p \in rows : (\E i \in DOMAIN page.items : page.items[i] = p)
                        \/ (page.cursor # None /\ Newer(page.cursor, p))
    /\ page.cursor # None =>
          \E i \in DOMAIN page.items :
             /\ page.items[i] = page.cursor
             /\ \A j \in DOMAIN page.items : j = i \/ Newer(page.items[j], page.cursor)

(* A page is the newest rows after the cursor, in their order. *)
LEMMA Page ==
    ASSUME IInv, Dated, NEW payload \in Payload, NEW cursor, NEW rows \in SUBSET Committed,
           NEW page,
           page = invoke_query_audit_log(payload, cursor),
           \A p \in Committed :
               p \in rows <=> Matches(payload, p) /\ _apply_desc_cursor_clause(p, cursor)
    PROVE  IsPage(rows, page)
<1>1. PICK n, limit, size : /\ n = Cardinality(rows) /\ limit = payload.limit
                            /\ size = IF n > limit THEN limit ELSE n
  OBVIOUS
<1>2. rows = {p \in Committed : Matches(payload, p) /\ _apply_desc_cursor_clause(p, cursor)}
  OBVIOUS
<1>3. PICK items, last : /\ items = page.items /\ last = page.cursor
                         /\ items = [k \in 1..size |-> Nth(rows, k)]
                         /\ last = IF n > limit THEN Nth(rows, limit) ELSE None
  BY <1>1, <1>2 DEF invoke_query_audit_log
<1>4. /\ n \in Nat
      /\ \A k \in 1..n : Nth(rows, k) \in rows
      /\ \A k, l \in 1..n : k < l => Newer(Nth(rows, k), Nth(rows, l))
      /\ \A p \in rows : \E k \in 1..n : Nth(rows, k) = p
  BY <1>1, NthRow
<1>5. limit \in Nat \ {0}
  BY <1>1, QueryAssumption
<1>6. /\ size \in Nat /\ size <= n
      /\ n > limit => size = limit /\ limit \in 1..n
      /\ ~(n > limit) => size = n
  BY <1>1, <1>4, <1>5
<1>7. /\ DOMAIN items = 1..size
      /\ \A k \in 1..size : items[k] = Nth(rows, k) /\ k \in 1..n
  BY <1>3, <1>4, <1>6
<1>8. items \in Seq(rows)
  BY <1>3, <1>4, <1>6
<1>9. \A i, j \in DOMAIN items : i < j => Newer(items[i], items[j])
  BY <1>4, <1>7
<1>10. \A p \in rows : p # None
  BY CommittedFinite, AuditAssumption
<1>11. ASSUME NEW p \in rows, ~(\E i \in DOMAIN items : items[i] = p)
       PROVE  last # None /\ Newer(last, p)
  <2>1. PICK k \in 1..n : Nth(rows, k) = p
    BY <1>4
  <2>2. k \notin 1..size
    BY <1>7, <1>11, <2>1
  <2>3. n > limit /\ limit \in 1..n /\ limit < k
    BY <1>6, <2>2
  <2>4. last = Nth(rows, limit)
    BY <1>3, <2>3
  <2> QED
    BY <1>4, <1>10, <2>1, <2>3, <2>4
<1>12. ASSUME last # None
       PROVE  \E i \in DOMAIN items :
                 /\ items[i] = last
                 /\ \A j \in DOMAIN items : j = i \/ Newer(items[j], last)
  <2>1. n > limit
    BY <1>3, <1>12
  <2>2. size = limit /\ limit \in 1..size /\ last = Nth(rows, limit)
    BY <1>3, <1>5, <1>6, <2>1
  <2>3. items[limit] = last
    BY <1>7, <2>2
  <2>4. ASSUME NEW j \in 1..size PROVE j = limit \/ Newer(items[j], items[limit])
    BY <1>7, <1>9, <2>2
  <2> QED
    BY <1>7, <2>2, <2>3, <2>4
<1> QED
  BY <1>3, <1>8, <1>9, <1>11, <1>12 DEF IsPage

-----------------------------------------------------------------------------
(* A page continues a walk, or begins one. *)
LEMMA TurnKeeps ==
    ASSUME IInv, Dated, NEW payload \in Payload, NEW began, NEW shown, NEW cursor, NEW asked,
           Turn(payload, began, shown, cursor),
           asked = {p \in Committed : Matches(payload, p)},
           began \subseteq asked, shown \in Seq(asked),
           \A i, j \in DOMAIN shown : i < j => Newer(shown[i], shown[j]),
           \A p \in began : (\E i \in DOMAIN shown : shown[i] = p)
                            \/ _apply_desc_cursor_clause(p, cursor),
           \A i \in DOMAIN shown :
               cursor # None /\ (shown[i] = cursor \/ Newer(shown[i], cursor)),
           cursor # None => cursor \in asked,
           \A p \in asked \ began : \A q \in began : q < p
    PROVE  WalkOK'
<1>1. PICK rows \in SUBSET Committed :
         rows = {p \in Committed : Matches(payload, p) /\ _apply_desc_cursor_clause(p, cursor)}
  OBVIOUS
<1>2. PICK items, last : items = invoke_query_audit_log(payload, cursor).items
                         /\ last = invoke_query_audit_log(payload, cursor).cursor
  OBVIOUS
<1>3. /\ items \in Seq(rows)
      /\ \A i, j \in DOMAIN items : i < j => Newer(items[i], items[j])
      /\ \A p \in rows : (\E i \in DOMAIN items : items[i] = p) \/ (last # None /\ Newer(last, p))
      /\ last # None => \E i \in DOMAIN items :
                           /\ items[i] = last
                           /\ \A j \in DOMAIN items : j = i \/ Newer(items[j], last)
  <2>1. PICK page : page = invoke_query_audit_log(payload, cursor)
    OBVIOUS
  <2>2. /\ rows \in SUBSET Committed
        /\ \A p \in Committed :
              p \in rows <=> Matches(payload, p) /\ _apply_desc_cursor_clause(p, cursor)
    BY <1>1
  <2>3. IsPage(rows, page)
    BY <2>1, <2>2, Page
  <2>4. items = page.items /\ last = page.cursor
    BY <1>2, <2>1
  <2> QED
    BY <2>3, <2>4, Zenon DEF IsPage
<1>4. /\ rows \subseteq asked
      /\ \A p \in rows : _apply_desc_cursor_clause(p, cursor)
      /\ \A p \in asked : _apply_desc_cursor_clause(p, cursor) => p \in rows
  BY <1>1
<1>5. PICK all : all = shown \o items
  OBVIOUS
<1>6. /\ Len(shown) \in Nat /\ DOMAIN shown = 1..Len(shown)
      /\ Len(items) \in Nat /\ DOMAIN items = 1..Len(items)
      /\ all \in Seq(asked) /\ DOMAIN all = 1..(Len(shown) + Len(items))
      /\ \A i \in 1..Len(shown) : all[i] = shown[i]
      /\ \A i \in 1..Len(items) : all[Len(shown) + i] = items[i]
  <2>1. items \in Seq(asked) /\ shown \in Seq(asked)
    BY <1>3, <1>4
  <2> QED
    BY <1>5, <2>1, ConcatProperties
<1>7. /\ walk'.payload = payload /\ walk'.began = began
      /\ walk'.shown = all /\ walk'.cursor = last
      /\ UNCHANGED <<clock, entry, audit_log>>
  BY <1>2, <1>5 DEF Turn, chainVars
<1>8. /\ asked = Asked'
      /\ \A p, q : Newer(p, q)' <=> Newer(p, q)
  BY <1>7 DEF Asked, Committed, Matches, Newer
<1>9. /\ \A p \in 1..sequence : ~Newer(p, p)
      /\ \A p, q, r \in 1..sequence : Newer(p, q) /\ Newer(q, r) => Newer(p, r)
      /\ asked \subseteq 1..sequence
      /\ None \notin asked
  BY CommittedFinite, NewerOrders, AuditAssumption
<1>10. ASSUME NEW i \in DOMAIN shown, NEW p \in rows PROVE Newer(shown[i], p)
  <2>1. shown[i] \in asked /\ cursor # None /\ (shown[i] = cursor \/ Newer(shown[i], cursor))
    BY <1>6
  <2>2. Newer(cursor, p) /\ cursor \in asked /\ p \in asked
    BY <1>4, <2>1 DEF _apply_desc_cursor_clause
  <2> QED
    BY <1>9, <2>1, <2>2
<1>11. \A k \in DOMAIN all : \/ k \in DOMAIN shown /\ all[k] = shown[k]
                             \/ k - Len(shown) \in DOMAIN items /\ all[k] = items[k - Len(shown)]
  <2> SUFFICES ASSUME NEW k \in DOMAIN all, k > Len(shown)
               PROVE  k - Len(shown) \in DOMAIN items /\ all[k] = items[k - Len(shown)]
    BY <1>6
  <2>1. PICK i \in 1..Len(items) : k = Len(shown) + i
    <3>1. k - Len(shown) \in 1..Len(items) /\ k = Len(shown) + (k - Len(shown))
      BY <1>6
    <3> QED
      BY <3>1
  <2> QED
    BY <1>6, <2>1
<1>12. ASSUME NEW k \in DOMAIN all, NEW l \in DOMAIN all, k < l PROVE Newer(all[k], all[l])
  <2>1. CASE l \in DOMAIN shown
    <3>1. k \in DOMAIN shown
      BY <1>6, <1>12, <2>1
    <3> QED
      BY <1>6, <1>12, <2>1, <3>1
  <2>2. CASE l \notin DOMAIN shown
    <3>1. l - Len(shown) \in DOMAIN items /\ all[l] = items[l - Len(shown)]
      BY <1>11, <2>2
    <3>2. CASE k \in DOMAIN shown
      <4>1. all[l] \in rows /\ all[k] = shown[k]
        BY <1>3, <1>6, <3>1, <3>2
      <4> QED
        BY <1>10, <3>2, <4>1
    <3>3. CASE k \notin DOMAIN shown
      <4>1. k - Len(shown) \in DOMAIN items /\ all[k] = items[k - Len(shown)]
        BY <1>11, <3>3
      <4>2. k - Len(shown) < l - Len(shown)
        BY <1>6, <1>12
      <4> QED
        BY <1>3, <3>1, <4>1, <4>2
    <3> QED
      BY <3>2, <3>3
  <2> QED
    BY <2>1, <2>2
<1>13. /\ \A i \in DOMAIN shown : \E k \in DOMAIN all : all[k] = shown[i]
       /\ \A i \in DOMAIN items : \E k \in DOMAIN all : all[k] = items[i]
  <2>1. ASSUME NEW i \in 1..Len(items) PROVE \E k \in DOMAIN all : all[k] = items[i]
    <3>1. Len(shown) + i \in DOMAIN all
      BY <1>6
    <3> QED
      BY <1>6, <3>1
  <2>2. ASSUME NEW i \in 1..Len(shown) PROVE \E k \in DOMAIN all : all[k] = shown[i]
    <3>1. i \in DOMAIN all
      BY <1>6
    <3> QED
      BY <1>6, <3>1
  <2> QED
    BY <1>6, <2>1, <2>2
<1>14. ASSUME NEW p \in began, \A k \in DOMAIN all : all[k] # p
       PROVE  last # None /\ Newer(last, p)
  <2>1. _apply_desc_cursor_clause(p, cursor) /\ p \in asked
    BY <1>13, <1>14
  <2>2. p \in rows /\ \A i \in DOMAIN items : items[i] # p
    BY <1>4, <1>13, <1>14, <2>1
  <2> QED
    BY <1>3, <2>2
<1>15. ASSUME last # None
       PROVE  /\ \E k \in DOMAIN all : all[k] = last
              /\ \A k \in DOMAIN all : all[k] = last \/ Newer(all[k], last)
  <2>1. PICK i \in DOMAIN items : /\ items[i] = last
                                 /\ \A j \in DOMAIN items : j = i \/ Newer(items[j], last)
    BY <1>3, <1>15
  <2>2. last \in rows
    BY <1>3, <1>6, <2>1
  <2>3. ASSUME NEW k \in DOMAIN all PROVE all[k] = last \/ Newer(all[k], last)
    <3>1. CASE k \in DOMAIN shown /\ all[k] = shown[k]
      BY <1>10, <2>2, <3>1
    <3>2. CASE k - Len(shown) \in DOMAIN items /\ all[k] = items[k - Len(shown)]
      BY <2>1, <3>2
    <3> QED
      BY <1>11, <3>1, <3>2
  <2> QED
    BY <1>13, <2>1, <2>3
<1>16. Shown' = {all[k] : k \in DOMAIN all}
  BY <1>7 DEF Shown
<1>17. /\ walk'.payload \in Payload
       /\ walk'.began \subseteq Asked'
       /\ walk'.shown \in Seq(Asked')
       /\ \A p \in Asked' \ walk'.began : \A q \in walk'.began : q < p
  BY <1>6, <1>7, <1>8
<1>18. (\A i, j \in DOMAIN walk.shown : i < j => Newer(walk.shown[i], walk.shown[j]))'
  BY <1>7, <1>12 DEF Newer
<1>19. (\A p \in walk.began \ Shown : walk.cursor # None /\ Newer(walk.cursor, p))'
  BY <1>7, <1>14, <1>16 DEF Newer
<1>20. (walk.cursor # None =>
          walk.cursor \in Shown /\ \A p \in Shown : p = walk.cursor \/ Newer(p, walk.cursor))'
  BY <1>7, <1>15, <1>16 DEF Newer
<1> QED
  BY <1>17, <1>18, <1>19, <1>20 DEF WalkOK

LEMMA FirstPage ==
    ASSUME QueryInv, NEW token, NEW payload \in Payload, first_page(token, payload)
    PROVE  WalkOK'
<1>1. PICK asked : asked = {p \in Committed : Matches(payload, p)}
  OBVIOUS
<1>2. Turn(payload, asked, <<>>, None)
  BY <1>1 DEF first_page
<1>3. \A p \in asked : _apply_desc_cursor_clause(p, None)
  BY DEF _apply_desc_cursor_clause
<1>4. <<>> \in Seq(asked) /\ DOMAIN <<>> = {}
  OBVIOUS
<1>5. asked \subseteq asked /\ asked \ asked = {}
  OBVIOUS
<1> QED
  BY <1>1, <1>2, <1>3, <1>4, <1>5, TurnKeeps DEF QueryInv

LEMMA NextPage ==
    ASSUME QueryInv, next_page
    PROVE  WalkOK'
<1>1. walk # NoWalk /\ walk.cursor # None
  BY DEF next_page, NoWalk
<1>2. WalkOK
  BY <1>1 DEF QueryInv
<1>3. PICK payload, began, shown, cursor :
         payload = walk.payload /\ began = walk.began /\ shown = walk.shown /\ cursor = walk.cursor
  OBVIOUS
<1>4. PICK asked : asked = {p \in Committed : Matches(payload, p)}
  OBVIOUS
<1>5. asked = Asked /\ payload \in Payload /\ Turn(payload, began, shown, cursor) /\ cursor # None
  BY <1>1, <1>2, <1>3, <1>4 DEF Asked, WalkOK, next_page
<1>6. Shown = {shown[j] : j \in DOMAIN shown}
  BY <1>3 DEF Shown
<1>7. /\ began \subseteq asked /\ shown \in Seq(asked)
      /\ \A i, j \in DOMAIN shown : i < j => Newer(shown[i], shown[j])
      /\ \A p \in began \ Shown : Newer(cursor, p)
      /\ cursor \in Shown /\ \A p \in Shown : p = cursor \/ Newer(p, cursor)
      /\ \A p \in asked \ began : \A q \in began : q < p
  BY <1>2, <1>3, <1>5 DEF WalkOK
<1>8. \A p \in began : (\E i \in DOMAIN shown : shown[i] = p) \/ _apply_desc_cursor_clause(p, cursor)
  BY <1>6, <1>7 DEF _apply_desc_cursor_clause
<1>9. \A j \in DOMAIN shown : cursor # None /\ (shown[j] = cursor \/ Newer(shown[j], cursor))
  BY <1>5, <1>6, <1>7
<1>10. cursor \in asked
  BY <1>6, <1>7
<1> QED
  BY <1>4, <1>5, <1>7, <1>8, <1>9, <1>10, TurnKeeps DEF QueryInv

(* A step that leaves the walk and the rows of the ledger as they are, and   *)
(* commits rows after the committed ones only.                              *)
LEMMA WalkGoesOn ==
    ASSUME QueryInv, UNCHANGED walk, Committed \subseteq Committed',
           \A p \in Committed' \ Committed : p \in 1..sequence /\ \A q \in Committed : q < p,
           \A p \in 1..sequence : entry'[p] = entry[p],
           walk # NoWalk
    PROVE  WalkOK'
<1>1. WalkOK /\ Committed \subseteq 1..sequence
  BY CommittedFinite DEF QueryInv
<1>2. \A p \in 1..sequence : Matches(walk.payload, p)' <=> Matches(walk.payload, p)
  BY DEF Matches
<1>3. Asked \subseteq Asked' /\ \A p \in Asked' \ Asked : p \notin Committed /\ p \in Committed'
  BY <1>1, <1>2 DEF Asked
<1>4. \A p, q \in 1..sequence : Newer(p, q)' <=> Newer(p, q)
  BY DEF Newer
<1>5. Shown' = Shown /\ Shown \subseteq Asked /\ Asked \subseteq 1..sequence
      /\ walk.began \subseteq Asked
  <2>1. walk.shown \in Seq(Asked) /\ walk.began \subseteq Asked
    BY <1>1 DEF WalkOK
  <2>2. Shown \subseteq Asked
    BY <2>1 DEF Shown
  <2> QED
    BY <1>1, <2>1, <2>2 DEF Shown, Asked
<1>6. walk.shown \in Seq(Asked')
  <2>1. walk.shown \in Seq(Asked)
    BY <1>1 DEF WalkOK
  <2> QED
    BY <1>3, <2>1
<1>7. (\A i, j \in DOMAIN walk.shown : i < j => Newer(walk.shown[i], walk.shown[j]))'
  <2>1. \A j \in DOMAIN walk.shown : walk.shown[j] \in 1..sequence
    BY <1>5 DEF Shown
  <2>2. \A i, j \in DOMAIN walk.shown : i < j => Newer(walk.shown[i], walk.shown[j])
    BY <1>1 DEF WalkOK
  <2>3. \A i, j \in DOMAIN walk.shown : Newer(walk.shown[i], walk.shown[j]) =>
            (/\ \/ entry'[walk.shown[i]].created_at > entry'[walk.shown[j]].created_at
                \/ /\ entry'[walk.shown[i]].created_at = entry'[walk.shown[j]].created_at
                   /\ entry'[walk.shown[i]].id > entry'[walk.shown[j]].id)
    BY <2>1 DEF Newer
  <2> QED
    BY <2>2, <2>3 DEF Newer
<1>8. (\A p \in walk.began \ Shown : walk.cursor # None /\ Newer(walk.cursor, p))'
  <2>1. \A p \in walk.began \ Shown : walk.cursor # None /\ Newer(walk.cursor, p)
    BY <1>1 DEF WalkOK
  <2>2. walk.cursor # None => walk.cursor \in 1..sequence
    BY <1>1, <1>5 DEF WalkOK
  <2>3. \A p \in walk.began \ Shown : p \in 1..sequence
    BY <1>5
  <2> QED
    BY <1>5, <2>1, <2>2, <2>3 DEF Newer
<1>9. (walk.cursor # None =>
         walk.cursor \in Shown /\ \A p \in Shown : p = walk.cursor \/ Newer(p, walk.cursor))'
  <2>1. walk.cursor # None =>
          walk.cursor \in Shown /\ \A p \in Shown : p = walk.cursor \/ Newer(p, walk.cursor)
    BY <1>1 DEF WalkOK
  <2>2. Shown \subseteq 1..sequence
    BY <1>5
  <2> QED
    BY <1>5, <2>1, <2>2 DEF Newer
<1>10. \A p \in Asked' \ walk.began : \A q \in walk.began : q < p
  <2>1. \A p \in Asked \ walk.began : \A q \in walk.began : q < p
    BY <1>1 DEF WalkOK
  <2>2. walk.began \subseteq Committed
    BY <1>5 DEF Asked
  <2>3. \A p \in Asked' \ Asked : \A q \in walk.began : q < p
    BY <1>3, <2>2
  <2> QED
    BY <2>1, <2>3
<1>11. walk.payload \in Payload /\ walk.began \subseteq Asked'
  BY <1>1, <1>3, <1>5 DEF WalkOK
<1> QED
  BY <1>6, <1>7, <1>8, <1>9, <1>10, <1>11 DEF WalkOK

LEMMA TransactKeeps ==
    ASSUME QueryInv, NEW a \in Tx, transact(a), UNCHANGED queryVars
    PROVE  QueryInv'
<1>1. ChainNext
  BY DEF ChainNext
<1>2. IInv'
  BY <1>1, StepKeeps DEF QueryInv
<1>3. UNCHANGED <<clock, entry, walk>>
  BY DEF queryVars
<1>4. sequence' = sequence
  BY DEF transact, _write_audit_row, begin_nested, release_savepoint, rollback_to_savepoint,
     commit_tx, rollback_tx
<1>5. Dated'
  BY <1>3, <1>4 DEF QueryInv, Dated
<1>6. /\ Committed \subseteq Committed'
      /\ \A p \in Committed' \ Committed : p \in 1..sequence /\ \A q \in Committed : q < p
  <2>1. /\ audit_log \subseteq audit_log'
        /\ \A r \in audit_log' \ audit_log : \A q \in audit_log : q.position < r.position
    BY <1>1, StepGrows DEF QueryInv
  <2>2. \A r \in audit_log' : r.position \in 1..sequence
    BY <1>2, <1>4 DEF IInv, Numbered
  <2> QED
    BY <2>1, <2>2 DEF Committed
<1>7. walk = NoWalk \/ WalkOK'
  BY <1>3, <1>6, WalkGoesOn
<1> QED
  BY <1>2, <1>3, <1>5, <1>7 DEF QueryInv

LEMMA StampKeeps ==
    ASSUME QueryInv, NEW a \in Tx, NEW id \in RowId, NEW columns \in Columns,
           stamp_row(a, id, columns)
    PROVE  QueryInv'
<1>1. ChainNext
  BY DEF ChainNext, stamp_row
<1>2. IInv'
  BY <1>1, StepKeeps DEF QueryInv
<1>3. /\ sequence' = sequence + 1 /\ UNCHANGED <<audit_log, clock, walk>>
      /\ entry' = Append(entry, [created_at |-> clock, id |-> id, columns |-> columns])
      /\ \A p \in DOMAIN entry : entry[p].id # id
  BY DEF stamp_row, audit_log_set_chain_hashes, Chained
<1>4. PICK row : row = [created_at |-> clock, id |-> id, columns |-> columns]
  OBVIOUS
<1>5. row \in RowShape /\ row.created_at = clock /\ row.id = id
  BY <1>4 DEF QueryInv, Dated, RowShape
<1>6. /\ sequence \in Nat /\ entry \in Seq(RowShape) /\ Len(entry) = sequence
      /\ DOMAIN entry = 1..sequence
  BY DEF QueryInv, IInv, Shape, Dated
<1>7. /\ entry' \in Seq(RowShape) /\ Len(entry') = sequence'
      /\ entry'[sequence + 1] = row /\ \A p \in 1..sequence : entry'[p] = entry[p]
  BY <1>3, <1>4, <1>5, <1>6, AppendProperties
<1>8. \A p \in 1..sequence' : p \in 1..sequence \/ p = sequence + 1
  BY <1>3, <1>6
<1>9. /\ clock \in Nat
      /\ \A p \in 1..sequence : entry[p].created_at <= clock
      /\ \A p, q \in 1..sequence : p < q => entry[p].created_at <= entry[q].created_at
      /\ \A p, q \in 1..sequence : entry[p].id = entry[q].id => p = q
  BY DEF QueryInv, Dated
<1>10. \A p \in 1..sequence' : entry'[p].created_at <= clock
  BY <1>5, <1>7, <1>8, <1>9
<1>11. ASSUME NEW p \in 1..sequence', NEW q \in 1..sequence'
       PROVE  /\ p < q => entry'[p].created_at <= entry'[q].created_at
              /\ entry'[p].id = entry'[q].id => p = q
  <2>1. CASE q = sequence + 1 /\ p \in 1..sequence
    BY <1>3, <1>5, <1>6, <1>7, <1>9, <2>1
  <2>2. CASE q = sequence + 1 /\ p = sequence + 1
    BY <1>6, <2>2
  <2>3. CASE q \in 1..sequence /\ p = sequence + 1
    BY <1>3, <1>5, <1>6, <1>7, <2>3
  <2>4. CASE q \in 1..sequence /\ p \in 1..sequence
    BY <1>7, <1>9, <2>4
  <2> QED
    BY <1>8, <2>1, <2>2, <2>3, <2>4
<1>12. Dated'
  BY <1>3, <1>7, <1>9, <1>10, <1>11 DEF Dated
<1>13. Committed' = Committed
  BY <1>3 DEF Committed
<1>14. walk = NoWalk \/ WalkOK'
  BY <1>3, <1>7, <1>13, WalkGoesOn
<1> QED
  BY <1>2, <1>3, <1>12, <1>14 DEF QueryInv

LEMMA QueryKeeps == QueryInv /\ [QueryNext]_<<chainVars, queryVars>> => QueryInv'
<1> SUFFICES ASSUME QueryInv, [QueryNext]_<<chainVars, queryVars>> PROVE QueryInv'
  OBVIOUS
<1>1. ASSUME UNCHANGED chainVars, UNCHANGED entry, clock' = clock \/ clock' = clock + 1
      PROVE  IInv' /\ Dated'
  <2>1. IInv'
    BY <1>1, StepKeeps DEF QueryInv
  <2>2. UNCHANGED sequence /\ sequence \in Nat
    BY <1>1 DEF chainVars, QueryInv, IInv, Shape
  <2>3. \A p \in 1..sequence : entry[p].created_at \in Nat
    <3>1. \A p \in 1..sequence : entry[p] \in RowShape
      BY <2>2 DEF QueryInv, Dated
    <3> QED
      BY <3>1 DEF RowShape
  <2>4. Dated'
    BY <1>1, <2>2, <2>3 DEF QueryInv, Dated
  <2> QED
    BY <2>1, <2>4
<1>2. ASSUME NEW token, NEW payload \in Payload, first_page(token, payload) PROVE QueryInv'
  <2>1. WalkOK'
    BY <1>2, FirstPage
  <2> QED
    BY <1>1, <1>2, <2>1 DEF first_page, Turn, QueryInv
<1>3. CASE next_page
  <2>1. WalkOK'
    BY <1>3, NextPage
  <2> QED
    BY <1>1, <1>3, <2>1 DEF next_page, Turn, QueryInv
<1>4. CASE passes \/ UNCHANGED <<chainVars, queryVars>>
  <2>1. UNCHANGED <<chainVars, entry, walk>> /\ (clock' = clock \/ clock' = clock + 1)
    BY <1>4 DEF passes, queryVars
  <2>2. Committed' = Committed
    BY <2>1 DEF Committed, chainVars
  <2>3. walk = NoWalk \/ WalkOK'
    BY <2>1, <2>2, WalkGoesOn
  <2> QED
    BY <1>1, <2>1, <2>3 DEF QueryInv
<1> QED
  BY <1>2, <1>3, <1>4, TransactKeeps, StampKeeps DEF QueryNext

(* For any number of transactions, rows and pages, a walk shows what was     *)
(* committed when it began, each row once, newest first, and nothing later  *)
(* that is older: routers/audit.py and the trigger.                         *)
THEOREM WalksAreExact == QuerySpec => []WalksShowTheLedger
<1>1. QueryInit => QueryInv
  <2> SUFFICES ASSUME QueryInit PROVE QueryInv
    OBVIOUS
  <2>1. IInv
    BY InitEstablishes DEF QueryInit
  <2>2. clock = 0 /\ entry = <<>> /\ sequence = 0 /\ walk = NoWalk
    BY DEF QueryInit, ChainInit
  <2>3. Dated
    BY <2>2 DEF Dated
  <2> QED
    BY <2>1, <2>2, <2>3 DEF QueryInv
<1>2. QueryInv => WalksShowTheLedger
  <2> SUFFICES ASSUME QueryInv PROVE WalksShowTheLedger
    OBVIOUS
  <2>1. CASE walk = NoWalk
    <3>1. walk.began = {} /\ walk.shown = <<>> /\ Shown = {}
      BY <2>1 DEF NoWalk, Shown
    <3> QED
      BY <3>1 DEF WalksShowTheLedger
  <2>2. CASE WalkOK
    <3>1. Shown \subseteq Asked /\ walk.began \subseteq Asked
      BY <2>2 DEF WalkOK, Shown
    <3>2. Asked \subseteq 1..sequence
      BY CommittedFinite DEF QueryInv, Asked
    <3>3. ASSUME NEW p \in Shown \ walk.began, NEW q \in walk.began
          PROVE  entry[p].created_at >= entry[q].created_at
      <4>1. q < p /\ p \in 1..sequence /\ q \in 1..sequence
        BY <2>2, <3>1, <3>2 DEF WalkOK
      <4>2. entry[q].created_at <= entry[p].created_at
        BY <4>1 DEF QueryInv, Dated
      <4>3. entry[p] \in RowShape /\ entry[q] \in RowShape
        BY <4>1 DEF QueryInv, Dated
      <4> QED
        BY <4>2, <4>3 DEF RowShape
    <3> QED
      BY <2>2, <3>3 DEF WalkOK, WalksShowTheLedger
  <2> QED
    BY <2>1, <2>2 DEF QueryInv
<1> QED
  BY <1>1, <1>2, QueryKeeps, PTL DEF QuerySpec

=============================================================================
