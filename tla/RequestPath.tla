----------------------------- MODULE RequestPath -----------------------------
(***************************************************************************)
(* The way of a request through the middlewares create_app installs, from  *)
(* the outside in: body size and depth, authentication, rate limit, secret *)
(* scan, then the idempotency middleware and the handler.  Bodies arrive   *)
(* in chunks, and requests of the same actor share one token bucket.       *)
(* Tokens are counted in units, Cost of them for one request; a tick is a  *)
(* fraction of a second, and Rate units come back with each.               *)
(***************************************************************************)
EXTENDS Redaction, SequencesExt

CONSTANTS
    Call,          \* request slots
    Caller,        \* actors with a token
    Sender,        \* who sends requests, with a token or without
    Sends,         \* what they send: a body with its chunks and strings
    Limit,         \* content size limit
    MaxDepth,      \* MAX_PAYLOAD_DEPTH
    HardBlock,     \* body.hard_block_secrets of the policy pack
    Burst, Cost, Rate, TicksPerSecond,
    LastTick       \* bound: how long time runs

ASSUME RateAssumption ==
    /\ Rate \in Nat \ {0} /\ Cost \in Nat \ {0} /\ TicksPerSecond \in Nat \ {0}
    /\ Burst \in Nat /\ Burst >= Cost

(* A body that is read has a chunk, if an empty one; a match is a stretch   *)
(* of the string, and no rule finds two at one place.                       *)
ASSUME SendsAssumption ==
    /\ Limit \in Nat /\ MaxDepth \in Nat
    /\ \A body \in Sends :
         /\ body.chunks \in Seq(Nat) /\ (body.mutating /\ body.v1 => body.chunks # <<>>)
         /\ body.depth \subseteq Nat
         /\ \A k \in DOMAIN body.strings :
              /\ body.strings[k].length \in Nat /\ IsFiniteSet(body.strings[k].matches)
              /\ \A m \in body.strings[k].matches :
                   m.start \in Nat /\ m.end \in Nat /\ m.start <= m.end /\ m.rule \in Nat
              /\ \A m, n \in body.strings[k].matches :
                   m.start = n.start /\ m.rule = n.rule => m = n

VARIABLES
    call,       \* call[r]: where request r is, what it sends, what it has sent
    bucket,     \* bucket[a]: {} before the first request, or {[tokens, updated_at]}
    clock,      \* time.monotonic()
    admitted,   \* (history) admitted[a]: times at which requests of a passed
    told        \* (history) told[a]: when a was told to try again

pathVars == <<call, bucket, clock, admitted, told>>

NoCall == [step |-> "none"]

PathInit ==
    /\ call = [r \in Call |-> NoCall]
    /\ bucket = [a \in Caller |-> {}]
    /\ clock = 0
    /\ admitted = [a \in Caller |-> <<>>]
    /\ told = [a \in Caller |-> {}]

To(r, step) == call' = [call EXCEPT ![r].step = step]

(* Which requests the layers look at: POST and PATCH to /v1 or /task-types  *)
(* are limited and scanned, every request to /v1 is counted.                *)
Limited(body) == body.mutating /\ body.v1

-----------------------------------------------------------------------------
(* A request whose Content-Length is over the limit is refused unread. *)
begin(r, a, body) ==
    /\ call[r] = NoCall
    /\ call' = [call EXCEPT ![r] =
                  [step |-> IF ~Limited(body) THEN "authenticate"
                            ELSE IF \E n \in body.declared : n > Limit THEN "413" ELSE "receive",
                   actor |-> a, body |-> body, chunk |-> 0, size |-> 0, passed |-> <<>>]]
    /\ UNCHANGED <<bucket, clock, admitted, told>>

(* Only the chunk just received is measured. *)
receive_unsummed(r) ==
    /\ call[r].step = "receive"
    /\ LET body == call[r].body
           k == call[r].chunk + 1 IN
       call' = [call EXCEPT ![r].chunk = k, ![r].size = @ + body.chunks[k],
                            ![r].step = IF body.chunks[k] > Limit THEN "413"
                                        ELSE IF k < Len(body.chunks) THEN "receive"
                                        ELSE IF \E d \in body.depth : d > MaxDepth THEN "422"
                                        ELSE "authenticate"]
    /\ UNCHANGED <<bucket, clock, admitted, told>>

(* The next chunk: over the limit, or last and too deep, or one of more. *)
receive(r) ==
    /\ call[r].step = "receive"
    /\ LET body == call[r].body
           k == call[r].chunk + 1
           size == call[r].size + body.chunks[k] IN
       call' = [call EXCEPT ![r].chunk = k, ![r].size = size,
                            ![r].step = IF size > Limit THEN "413"
                                        ELSE IF k < Len(body.chunks) THEN "receive"
                                        ELSE IF \E d \in body.depth : d > MaxDepth THEN "422"
                                        ELSE "authenticate"]
    /\ UNCHANGED <<bucket, clock, admitted, told>>

(* http.disconnect while the body is read: no one is answered. *)
disconnect(r) ==
    /\ call[r].step = "receive"
    /\ To(r, "gone")
    /\ UNCHANGED <<bucket, clock, admitted, told>>

authenticate(r) ==
    /\ call[r].step = "authenticate"
    /\ To(r, IF call[r].actor \in Caller THEN "allow" ELSE "401")
    /\ UNCHANGED <<bucket, clock, admitted, told>>

(* A bucket that fills beyond the burst while nobody calls. *)
refilled_without_cap(a) ==
    LET level == {b.tokens + (clock - b.updated_at) * Rate : b \in bucket[a]} IN
    IF level = {} THEN Burst ELSE CHOOSE n \in level : TRUE

(* The bucket after the time since its last use, full at the first one. *)
refilled(a) ==
    LET level == {b.tokens + (clock - b.updated_at) * Rate : b \in bucket[a]}
        full == {n \in level : n < Burst} IN
    IF full = {} THEN Burst ELSE CHOOSE n \in full : TRUE

(* Retry-After in whole seconds, at least one. *)
CeilDiv(n, d) == (n + d - 1) \div d
(* Retry-After as truncated instead of rounded up. *)
retry_after_truncated(tokens) == (Cost - tokens) \div (Rate * TicksPerSecond)

retry_after(tokens) ==
    LET seconds == CeilDiv(Cost - tokens, Rate * TicksPerSecond) IN
    IF seconds > 1 THEN seconds ELSE 1

(* One request takes a token, or is refused and leaves the tokens; either   *)
(* way the bucket is brought up to date.  Only the event loop gets here,    *)
(* and nothing is awaited between reading the clock and the bucket.         *)
allow(r) ==
    LET a == call[r].actor
        tokens == refilled(a) IN
    /\ call[r].step = "allow"
    /\ IF ~call[r].body.v1 THEN To(r, "scan") /\ UNCHANGED <<bucket, admitted, told>>
       ELSE IF tokens >= Cost
         THEN /\ bucket' = [bucket EXCEPT ![a] = {[tokens |-> tokens - Cost, updated_at |-> clock]}]
              /\ admitted' = [admitted EXCEPT ![a] = Append(@, clock)]
              /\ told' = [told EXCEPT ![a] = {}]
              /\ To(r, "scan")
         ELSE /\ bucket' = [bucket EXCEPT ![a] = {[tokens |-> tokens, updated_at |-> clock]}]
              /\ told' = [told EXCEPT ![a] = @ \cup {clock + retry_after(tokens) * TicksPerSecond}]
              /\ To(r, "429")
              /\ UNCHANGED admitted
    /\ UNCHANGED clock

Verbatim(strings) == [k \in DOMAIN strings |-> Kept(0, strings[k].length)]

(* A body that is not JSON is passed on unscanned.  Matches are refused, or *)
(* replaced where the policy does not block.                                *)
scan(r) ==
    LET body == call[r].body
        found == body.json /\ Limited(body) /\ Secrets(body.strings) # {} IN
    /\ call[r].step = "scan"
    /\ call' = [call EXCEPT
         ![r].step = IF found /\ HardBlock THEN "400" ELSE "handled",
         ![r].passed = IF found THEN sanitized(body.strings) ELSE Verbatim(body.strings)]
    /\ UNCHANGED <<bucket, clock, admitted, told>>

(* The client gets its answer, or is gone. *)
respond(r) ==
    /\ call[r].step \in {"413", "422", "401", "429", "400", "handled", "gone"}
    /\ call' = [call EXCEPT ![r] = NoCall]
    /\ UNCHANGED <<bucket, clock, admitted, told>>

tick ==
    /\ clock < LastTick
    /\ clock' = clock + 1
    /\ UNCHANGED <<call, bucket, admitted, told>>

PathNext ==
    \/ \E r \in Call, a \in Sender, b \in Sends : begin(r, a, b)
    \/ \E r \in Call : receive(r) \/ disconnect(r) \/ authenticate(r) \/ allow(r) \/ scan(r) \/ respond(r)
    \/ tick

PathSpec == PathInit /\ [][PathNext]_pathVars

-----------------------------------------------------------------------------
(* In no stretch of time does an actor get more requests through than its   *)
(* burst and what the rate refills in that time, whichever requests were    *)
(* refused in between: ActorTokenBucket.allow.                              *)
AdmittedWithinRate ==
    \A a \in Caller : \A i, j \in DOMAIN admitted[a] : i <= j =>
        (j - i + 1) * Cost <= Burst + (admitted[a][j] - admitted[a][i]) * Rate

(* Who waits as long as a refusal told it to gets through, if no other      *)
(* request of the actor took the token; refusals in between postpone        *)
(* nothing: Retry-After in rate_limit.py:118.                               *)
RetryAfterSuffices ==
    \A a \in Caller : \A t \in told[a] : clock >= t => refilled(a) >= Cost

(* Sums(chunks)[k]: how much the first k chunks are together. *)
Sums(chunks) ==
    LET sum[k \in 0..Len(chunks)] == IF k = 0 THEN 0 ELSE sum[k - 1] + chunks[k] IN sum
Length(body) == Sums(body.chunks)[Len(body.chunks)]
Secret(value) == value.matches # {} \/ looks_random(value)
Outside(value) ==
    IF value.matches = {} /\ looks_random(value) THEN {}
    ELSE {k \in 0..(value.length - 1) : \A m \in value.matches : k < m.start \/ k >= m.end}
Text(pieces) == {n \in DOMAIN pieces : ~pieces[n].redacted}

(* A mutating request reaches its handler only if its whole body, however   *)
(* it was cut into chunks, is within the limits, and with the text outside  *)
(* the matches unchanged and in order; where secrets block, only without    *)
(* a match: payload_limits.py, secret_redaction.py and their order.         *)
HandlersSeeCheckedBodies ==
    \A r \in Call : call[r].step = "handled" =>
      LET body == call[r].body IN
      /\ call[r].actor \in Caller
      /\ Limited(body) =>
           /\ Length(body) <= Limit /\ \A d \in body.depth : d <= MaxDepth
           /\ HardBlock /\ body.json =>
                \A s \in ToSet(body.strings) : might_contain_secret(s) => ~Secret(s)
           /\ \A k \in DOMAIN body.strings :
                LET passed == call[r].passed[k] IN
                /\ Outside(body.strings[k]) \subseteq {passed[n].at : n \in Text(passed)}
                /\ \A i, j \in Text(passed) : i < j => passed[i].at < passed[j].at
=============================================================================
