------------------------------- MODULE AccessKeys -------------------------------
(***************************************************************************)
(* API keys: who a request is, when its key was last used, and how a key is  *)
(* replaced by its own holder.                                               *)
(*                                                                          *)
(* A request is authenticated in the transaction it then works in.  Noting   *)
(* the use locks the key's row until the transaction ends, so it skips a     *)
(* row that is locked; a rotation waits for it.                              *)
(***************************************************************************)
EXTENDS Naturals, FiniteSets, Absent

CONSTANTS
    Key,                \* row ids
    Client,             \* requests in flight
    Interval,           \* LAST_USED_UPDATE_INTERVAL
    Lifetime,           \* expires_at of the key there is at first
    Horizon             \* bound: ticks of the clock

ASSUME KeysAssumption ==
    /\ Key \subseteq Nat /\ Key # {}
    /\ Interval \in Nat /\ Lifetime \in Nat /\ Horizon \in Nat
    /\ None \notin Nat /\ None \notin Client
    /\ None \notin [from : Key \cup {None}, revoked : BOOLEAN, expires : Nat,
                    last_used : Nat \cup {None}, deleted : BOOLEAN, overlapped : BOOLEAN]

VARIABLES
    key,            \* key[k]: [from, revoked, expires, last_used, deleted, overlapped], or None
    client,         \* client[r]: what request r has read, and its pending writes
    clock

keyVars == <<key, client, clock>>
Away == [step |-> "away", key |-> None, now |-> 0, uses |-> FALSE, rotates |-> FALSE,
         overlapped |-> FALSE]

Exists(k) == key[k] # None /\ ~key[k].deleted
Live(k, now) == Exists(k) /\ ~key[k].revoked /\ key[k].expires > now
NewKey(from, expires, overlapped) ==
    [from |-> from, revoked |-> FALSE, expires |-> expires, last_used |-> None,
     deleted |-> FALSE, overlapped |-> overlapped]
FirstFree == CHOOSE k \in Key : key[k] = None /\ \A j \in Key : key[j] = None => k <= j

LockedByOther(r, k) ==
    \E v \in Client \ {r} : client[v].key = k /\ (client[v].uses \/ client[v].rotates)

-----------------------------------------------------------------------------
stale_always(k, now) == TRUE
stale_enough(k, now) == key[k].last_used = None \/ key[k].last_used + Interval < now
mark_token_last_used(r, k, now) == stale_enough(k, now) /\ ~LockedByOther(r, k)

(* The time is taken before the row is marked; others may commit between. *)
inspect_api_token(r, k) ==
    /\ client[r].step = "away" /\ Live(k, clock)
    /\ client' = [client EXCEPT ![r] = [Away EXCEPT !.step = "found", !.key = k, !.now = clock]]
    /\ UNCHANGED <<key, clock>>

(* 401 for a key that is revoked, expired or gone: nothing is written. *)
refuse_api_token(k) == key[k] # None /\ ~Live(k, clock) /\ UNCHANGED keyVars

authenticate(r) ==
    /\ client[r].step = "found"
    /\ client' = [client EXCEPT ![r].step = "authenticated",
                    ![r].uses = /\ Exists(client[r].key)
                                /\ mark_token_last_used(r, client[r].key, client[r].now)]
    /\ UNCHANGED <<key, clock>>

(* POST /v1/actors/me/rotate-key: what the request was authenticated with,  *)
(* revoked by then or not.  A key that is gone gets a successor all the     *)
(* same; one deleted between its being read and locked fails the flush.     *)
rotate_own_key(r) ==
    LET k == client[r].key IN
    /\ client[r].step = "authenticated"
    /\ Exists(k) => ~LockedByOther(r, k)
    /\ client' = [client EXCEPT ![r].rotates = TRUE, ![r].step = "answered"]
    /\ UNCHANGED <<key, clock>>

revoked_when_rotated(r) == client[r].rotates
kept_when_rotated(r) == FALSE
revokes(r) == revoked_when_rotated(r)

(* The commit: the use, and the rotation with its new key. *)
commit_request(r) ==
    LET k == client[r].key
        used == [key EXCEPT ![k].last_used = IF client[r].uses THEN client[r].now ELSE @,
                            ![k].revoked = @ \/ (revokes(r) /\ Exists(k))]
    IN /\ client[r].step \in {"authenticated", "answered"}
       /\ client[r].rotates => \E j \in Key : key[j] = None
       /\ key' = IF client[r].rotates
                 THEN [used EXCEPT ![FirstFree] = NewKey(k, Horizon + 1, client[r].overlapped)]
                 ELSE used
       /\ client' = [v \in Client |->
                       IF v = r THEN Away
                       ELSE [client[v] EXCEPT !.overlapped =
                               @ \/ (client[r].rotates /\ client[v].key = k)]]
       /\ UNCHANGED clock

roll_back(r) ==
    /\ client[r].step # "away"
    /\ client' = [client EXCEPT ![r] = Away]
    /\ UNCHANGED <<key, clock>>

(* POST .../revoke and DELETE of a key, which wait for the row lock. *)
revoke_api_token(k) ==
    /\ Exists(k) /\ ~LockedByOther(None, k)
    /\ key' = [key EXCEPT ![k].revoked = TRUE]
    /\ UNCHANGED <<client, clock>>

delete_api_token(k) ==
    /\ Exists(k) /\ ~LockedByOther(None, k)
    /\ key' = [key EXCEPT ![k].deleted = TRUE]
    /\ UNCHANGED <<client, clock>>

issue_api_token(expires) ==
    /\ \E k \in Key : key[k] = None
    /\ key' = [key EXCEPT ![FirstFree] = NewKey(None, expires, FALSE)]
    /\ UNCHANGED <<client, clock>>

clock_ticks ==
    /\ clock < Horizon
    /\ clock' = clock + 1
    /\ UNCHANGED <<key, client>>

-----------------------------------------------------------------------------
KeysInit ==
    /\ key = [k \in Key |-> IF \A j \in Key : k <= j THEN NewKey(None, Lifetime, FALSE) ELSE None]
    /\ client = [r \in Client |-> Away]
    /\ clock = 0

KeysNext ==
    \/ \E r \in Client :
         \/ \E k \in Key : inspect_api_token(r, k)
         \/ authenticate(r) \/ rotate_own_key(r) \/ commit_request(r) \/ roll_back(r)
    \/ \E k \in Key : refuse_api_token(k) \/ revoke_api_token(k) \/ delete_api_token(k)
    \/ issue_api_token(Lifetime)
    \/ clock_ticks

KeysSpec == KeysInit /\ [][KeysNext]_keyVars

-----------------------------------------------------------------------------
(* A key that was rotated is dead, revoked by the rotation or deleted       *)
(* before it, and has one key in its place, but for rotations that were     *)
(* authenticated while another of the same key ran.                         *)
RotationsReplace ==
    \A k \in Key :
        LET children == {j \in Key : key[j] # None /\ key[j].from = k} IN
        /\ children # {} /\ key[k] # None => key[k].revoked \/ key[k].deleted
        /\ Cardinality({j \in children : ~key[j].overlapped}) <= 1

(* When a key was last used never moves back, though requests note it out   *)
(* of order.                                                                *)
LastUsedNeverMovesBack ==
    [][\A k \in Key :
         (key[k] # None /\ key'[k] # None /\ key[k].last_used # None) =>
            key'[k].last_used # None /\ key'[k].last_used >= key[k].last_used]_keyVars
=============================================================================
