---------------------------- MODULE EntityRecords ----------------------------
(***************************************************************************)
(* The generic create, list, update and delete routes, on task rows and on  *)
(* the policies attached to them.                                           *)
(*                                                                          *)
(* An update loads a row, lays the patch over it, validates the result as a *)
(* whole, and writes the columns that differ from the ones loaded: what is  *)
(* stored is validated only if nobody wrote the row in between.  A listing  *)
(* is a walk over pages, one request per page.                              *)
(***************************************************************************)
EXTENDS Naturals, FiniteSets, Absent

CONSTANTS
    Id,                 \* 1..n, in the order the keys compare
    Created,            \* Created[i]: the created_at a client gives row i
    Type, Contract,
    Fits,               \* <<type, contract>> the registry accepts
    Policy, Body,
    Writer,
    Patch,              \* what a PATCH of a task may say
    Wanted,             \* the type a listing filters by
    Limit,              \* rows of a page
    MaxTime             \* bound: ticks of the clock

LifecycleOwned == {"state", "claimed_by_actor_id", "claimed_at"}
SystemManaged == {"attempt_count", "last_failure", "max_attempts", "remaining_attempts"}
Immutable == {"id", "created_at", "updated_at"}

TaskRow == [type : Type, contract : Contract, policy_id : Policy \cup {None},
            updated_at : 0..MaxTime]

ASSUME RecordsAssumption ==
    /\ Id \subseteq Nat \ {0} /\ IsFiniteSet(Id)
    /\ Created \in [Id -> Nat]
    /\ Limit \in Nat \ {0} /\ MaxTime \in Nat
    /\ Wanted \in Type /\ Fits \subseteq Type \X Contract
    /\ None \notin Policy \cup Body \cup {"task", "policy"}
    /\ None \notin TaskRow

VARIABLES
    task,       \* task[i]: [type, contract, policy_id, updated_at], or None
    policy,     \* policy[p]: its body, or None
    patching,   \* patching[w]: the update request w has validated
    overtaken,  \* requests that another write of the same row overtook
    unchecked,  \* task rows that such a request has written
    listing,    \* the walk over the pages
    now

recordVars == <<task, policy, patching, overtaken, unchecked, listing, now>>
NoPatch == [of |-> None, id |-> None, began |-> 0, sets |-> [none |-> None]]
NoListing == [on |-> FALSE, cursor |-> <<0, 0, 0>>, seen |-> {}, owed |-> {}]

Present == {i \in Id : task[i] # None}
Attached(p) == \E i \in Present : task[i].policy_id = p
Matching == {i \in Present : task[i].type = Wanted}

-----------------------------------------------------------------------------
(* Requests that loaded row i, or that looked whether policy p is attached: *)
(* a write of row i with that policy overtakes them.                        *)
Passed(i, p) ==
    {w \in Writer : \/ patching[w].of = "task" /\ patching[w].id = i
                    \/ patching[w].of = "policy" /\ patching[w].id = p}

(* POST /v1/tasks: the registry accepts the contract. *)
create_entity(i, type, contract, p) ==
    /\ task[i] = None
    /\ <<type, contract>> \in Fits
    /\ p # None => policy[p] # None
    /\ task' = [task EXCEPT ![i] = [type |-> type, contract |-> contract,
                                    policy_id |-> p, updated_at |-> now]]
    /\ overtaken' = overtaken \cup Passed(i, p)
    /\ UNCHANGED <<policy, patching, unchecked, listing, now>>

(* Fields owned by the lifecycle and immutable fields are refused; what the *)
(* system manages is dropped from the patch without a word.                 *)
Said(patch) == DOMAIN patch \ SystemManaged
Acceptable(patch) ==
    /\ DOMAIN patch \cap LifecycleOwned = {}
    /\ Said(patch) \cap Immutable = {}
ContractAcceptedAny(row) == TRUE
ContractAccepted(row) == <<row.type, row.contract>> \in Fits

validate_patch(row, patch) ==
    [c \in DOMAIN row |-> IF c \in Said(patch) THEN patch[c] ELSE row[c]]

(* The transaction began at some time before the row is loaded. *)
update_task(w, i, patch, began) ==
    LET merged == validate_patch(task[i], patch) IN
    /\ patching[w].of = None /\ task[i] # None
    /\ Acceptable(patch)
    /\ merged \in TaskRow /\ ContractAccepted(merged)
    /\ patching' = [patching EXCEPT ![w] =
                      [of |-> "task", id |-> i, began |-> began,
                       sets |-> [c \in {k \in DOMAIN merged : merged[k] # task[i][k]} |->
                                   merged[c]]]]
    /\ UNCHANGED <<task, policy, overtaken, unchecked, listing, now>>

(* A policy is immutable once attached, as far as the request can see. *)
PolicyOpenAlways(p) == TRUE
PolicyOpen(p) == ~Attached(p)
update_policy(w, p, body) ==
    /\ patching[w].of = None /\ policy[p] # None
    /\ PolicyOpen(p)
    /\ patching' = [patching EXCEPT ![w] =
                      [of |-> "policy", id |-> p, began |-> 0, sets |-> [body |-> body]]]
    /\ UNCHANGED <<task, policy, overtaken, unchecked, listing, now>>

Idle(w) ==
    /\ patching' = [patching EXCEPT ![w] = NoPatch]
    /\ overtaken' = overtaken \ {w}

(* updated_at is the time the transaction began. *)
flush_task(w) ==
    LET i == patching[w].id
        sets == patching[w].sets
        written == [c \in DOMAIN task[i] |->
                      IF c \in DOMAIN sets THEN sets[c]
                      ELSE IF c = "updated_at" /\ DOMAIN sets # {} THEN patching[w].began
                      ELSE task[i][c]]
    IN /\ patching[w].of = "task" /\ task[i] # None
       /\ written.policy_id # None => policy[written.policy_id] # None
       /\ task' = [task EXCEPT ![i] = written]
       /\ unchecked' = IF w \in overtaken THEN unchecked \cup {i} ELSE unchecked \ {i}
       /\ listing' = [listing EXCEPT !.owed =
                        IF written.type # Wanted \/ written.updated_at < task[i].updated_at THEN @ \ {i} ELSE @]
       /\ patching' = [patching EXCEPT ![w] = NoPatch]
       /\ overtaken' = (overtaken \cup Passed(i, written.policy_id)) \ {w}
       /\ UNCHANGED <<policy, now>>

flush_policy(w) ==
    /\ patching[w].of = "policy" /\ policy[patching[w].id] # None
    /\ policy' = [policy EXCEPT ![patching[w].id] = patching[w].sets.body]
    /\ Idle(w)
    /\ UNCHANGED <<task, unchecked, listing, now>>

(* A row deleted meanwhile, a policy that is gone, any rollback. *)
abandon_update(w) ==
    /\ patching[w].of # None
    /\ Idle(w)
    /\ UNCHANGED <<task, policy, unchecked, listing, now>>

delete_task(i) ==
    /\ task[i] # None
    /\ task' = [task EXCEPT ![i] = None]
    /\ listing' = [listing EXCEPT !.owed = @ \ {i}]
    /\ unchecked' = unchecked \ {i}
    /\ UNCHANGED <<policy, patching, overtaken, now>>

(* ON DELETE SET NULL: the rows it was attached to have no policy then. *)
delete_policy(p) ==
    /\ policy[p] # None
    /\ policy' = [policy EXCEPT ![p] = None]
    /\ task' = [i \in Id |-> IF task[i] # None /\ task[i].policy_id = p
                             THEN [task[i] EXCEPT !.policy_id = None] ELSE task[i]]
    /\ UNCHANGED <<patching, overtaken, unchecked, listing, now>>

-----------------------------------------------------------------------------
order_columns(i) == <<Created[i], task[i].updated_at, i>>

(* Column by column: equal so far, and greater here. *)
after_in_every_column(key, cursor) == key # cursor /\ \A n \in 1..3 : key[n] >= cursor[n]
apply_cursor_clause(key, cursor) ==
    \E n \in 1..3 : key[n] > cursor[n] /\ \A m \in 1..(n - 1) : key[m] = cursor[m]

(* ORDER BY the same columns. *)
ordered_before(key, other) ==
    LET unequal == {n \in 1..3 : key[n] # other[n]} IN
    \E n \in unequal : key[n] < other[n] /\ \A m \in unequal : n <= m

(* One row more than asked for tells whether there is a next page. *)
list_entities ==
    LET after == {i \in Matching : apply_cursor_clause(order_columns(i), listing.cursor)}
        Before(i) == {j \in after : ordered_before(order_columns(j), order_columns(i))}
        page == {i \in after : Cardinality(Before(i)) < Limit}
        more == Cardinality(after) > Limit
        last == CHOOSE i \in page : page \ {i} = Before(i) \cap page
        owed == IF listing.on THEN listing.owed ELSE Matching
    IN /\ listing' = IF more
                     THEN [on |-> TRUE, cursor |-> order_columns(last), owed |-> owed,
                           seen |-> listing.seen \cup page]
                     ELSE [NoListing EXCEPT !.seen = listing.seen \cup page, !.owed = owed]
       /\ listing.on \/ listing = NoListing
       /\ UNCHANGED <<task, policy, patching, overtaken, unchecked, now>>

tick ==
    /\ now < MaxTime
    /\ now' = now + 1
    /\ UNCHANGED <<task, policy, patching, overtaken, unchecked, listing>>

-----------------------------------------------------------------------------
RecordsInit ==
    /\ task = [i \in Id |-> None]
    /\ policy \in [Policy -> Body]
    /\ patching = [w \in Writer |-> NoPatch]
    /\ overtaken = {} /\ unchecked = {}
    /\ listing = NoListing
    /\ now = 0

RecordsNext ==
    \/ \E i \in Id :
         \/ \E fit \in Fits, p \in Policy \cup {None} : create_entity(i, fit[1], fit[2], p)
         \/ delete_task(i)
    \/ \E w \in Writer :
         \/ \E i \in Id, patch \in Patch, began \in 0..now : update_task(w, i, patch, began)
         \/ \E p \in Policy, body \in Body : update_policy(w, p, body)
         \/ flush_task(w) \/ flush_policy(w) \/ abandon_update(w)
    \/ \E p \in Policy : delete_policy(p)
    \/ list_entities
    \/ tick

RecordsSpec == RecordsInit /\ [][RecordsNext]_recordVars

-----------------------------------------------------------------------------
(* Rows have their columns, and the policy a row names is there. *)
RecordsTypeOK ==
    /\ task \in [Id -> TaskRow \cup {None}]
    /\ policy \in [Policy -> Body \cup {None}]
    /\ \A i \in Present : task[i].policy_id # None => policy[task[i].policy_id] # None
    /\ overtaken \subseteq Writer /\ unchecked \subseteq Id
    /\ listing.seen \subseteq Id /\ listing.owed \subseteq Id

(* What the registry accepted is what is stored, but for rows that two      *)
(* updates wrote at once: each was validated against the other's old column.*)
ContractsFit == \A i \in Present \ unchecked : <<task[i].type, task[i].contract>> \in Fits

(* A policy's body changes only while nothing is attached to it, unless the *)
(* attachment overtook the change.                                          *)
AttachedPolicyFixed ==
    [][\A p \in Policy :
         (policy'[p] # policy[p] /\ policy'[p] # None) =>
            ~Attached(p) \/ \E w \in overtaken : patching[w].of = "policy" /\ patching[w].id = p
      ]_recordVars

(* When a walk is over, every row that matched from its first page to its   *)
(* last was on one of them, unless an update moved the row backwards: what  *)
(* is written as updated_at is when the writer's transaction began.         *)
PagesMissNothing ==
    (~listing.on /\ listing # NoListing) => listing.owed \subseteq listing.seen
=============================================================================
