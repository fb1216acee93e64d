--------------------------------- MODULE Roles ---------------------------------
(***************************************************************************)
(* Roles, the capability grants they turn into, and the check that reads    *)
(* the grants.                                                              *)
(*                                                                          *)
(* Only the actor's type and its grants are looked at when a request is     *)
(* authorized: an assignment counts for what its grants say.  Assigning a   *)
(* role looks for an active assignment without locking it, and writes later. *)
(***************************************************************************)
EXTENDS Naturals, FiniteSets, Functions, Absent

CONSTANTS
    Assignment, Grant,      \* row ids, in the order rows are made
    Assigner,               \* requests that assign the role
    IsAdmin,                \* the actor is of type admin
    Capability, Admin,      \* Admin: the capability that stands for all
    RoleCapabilities,
    Project,                \* what a grant may be limited to
    Expiry, Never           \* times; Never: expires_at is null

ASSUME RolesAssumption ==
    /\ Assignment \subseteq Nat /\ Grant \subseteq Nat
    /\ Expiry \subseteq Nat /\ Never \in Expiry
    /\ \A t \in Expiry : t <= Never
    /\ RoleCapabilities \subseteq Capability /\ Admin \in Capability
    /\ IsAdmin \in BOOLEAN
    /\ None \notin Assignment \cup Project
    /\ None \notin [expires : Nat, revoked : BOOLEAN]
    /\ None \notin [of : Assignment \cup {None}, capability : Capability,
                    scope : Project \cup {None}, expires : Nat, revoked : BOOLEAN]

VARIABLES
    assignment,     \* assignment[a]: [expires, revoked], or None
    grant,          \* grant[g]: [of, capability, scope, expires, revoked], or None
    assigning,      \* assigning[w]: what request w has read
    time,
    overtaken,      \* requests that a write of what they had read overtook
    stray,          \* grants, and
    doubled,        \* assignments, that such requests have written
    picked          \* assignments with a grant revoked on its own

roleVars == <<assignment, grant, assigning, time, overtaken, stray, doubled, picked>>
NotAssigning == [step |-> "idle", found |-> None, loaded |-> 0, expires |-> 0,
                 now |-> 0, missing |-> {}]
Looked == {w \in Assigner : assigning[w].step # "idle"}

Active(row, now) == row # None /\ ~row.revoked /\ row.expires > now
ActiveGrants(now) == {g \in Grant : Active(grant[g], now)}
ActiveAssignments(now) == {a \in Assignment : Active(assignment[a], now)}
First(ids) == CHOOSE i \in ids : \A k \in ids : i <= k
Unused(rows) == {i \in DOMAIN rows : rows[i] = None}

-----------------------------------------------------------------------------
grant_covers_scope(scope, required) ==
    scope = None \/ required = None \/ scope = required

ensure_actor_has_capability(capability, required) ==
    \/ IsAdmin
    \/ \E g \in ActiveGrants(time) :
         /\ grant[g].capability \in {capability, Admin}
         /\ grant_covers_scope(grant[g].scope, required)

NewGrant(of, capability, scope, expires) ==
    [of |-> of, capability |-> capability, scope |-> scope, expires |-> expires,
     revoked |-> FALSE]

(* One row per capability, in unused ids. *)
WithGrants(rows, of, capabilities, expires) ==
    LET place == CHOOSE f \in Injection(capabilities, Unused(rows)) : TRUE
        for(i) == {c \in capabilities : place[c] = i}
    IN [i \in Grant |-> IF for(i) = {} THEN rows[i]
                        ELSE NewGrant(of, CHOOSE c \in for(i) : TRUE, None, expires)]
Room(capabilities) == ExistsInjection(capabilities, Unused(grant))

(* POST /v1/capabilities/grant and /v1/capabilities/revoke. *)
grant_capability(capability, scope, expires) ==
    /\ Unused(grant) # {}
    /\ grant' = [grant EXCEPT ![First(Unused(grant))] =
                   NewGrant(None, capability, scope, expires)]
    /\ UNCHANGED <<assignment, assigning, time, overtaken, stray, doubled, picked>>

revoke_capability_grant(g) ==
    /\ grant[g] # None
    /\ grant' = [grant EXCEPT ![g].revoked = TRUE]
    /\ picked' = picked \cup ({grant[g].of} \ {None})
    /\ overtaken' = overtaken \cup
         {w \in Looked : assigning[w].found # None /\ assigning[w].found = grant[g].of}
    /\ UNCHANGED <<assignment, assigning, time, stray, doubled>>

-----------------------------------------------------------------------------
get_active_assignment(now) ==
    IF ActiveAssignments(now) = {} THEN None ELSE First(ActiveAssignments(now))

look_for_assignment(w, expires) ==
    LET found == get_active_assignment(time) IN
    /\ assigning[w].step = "idle"
    /\ assigning' = [assigning EXCEPT ![w] =
                       [step |-> "looked", found |-> found, expires |-> expires,
                        loaded |-> IF found = None THEN 0 ELSE assignment[found].expires,
                        now |-> time, missing |-> {}]]
    /\ UNCHANGED <<assignment, grant, time, overtaken, stray, doubled, picked>>

Finish(w) == assigning' = [assigning EXCEPT ![w] = NotAssigning]

(* None was found: a new row, with a grant for each capability. *)
insert_assignment(w) ==
    LET a == First(Unused(assignment)) IN
    /\ assigning[w].step = "looked" /\ assigning[w].found = None
    /\ Unused(assignment) # {} /\ Room(RoleCapabilities)
    /\ assignment' = [assignment EXCEPT ![a] = [expires |-> assigning[w].expires,
                                                revoked |-> FALSE]]
    /\ grant' = WithGrants(grant, a, RoleCapabilities, assigning[w].expires)
    /\ doubled' = IF w \in overtaken THEN doubled \cup {a} ELSE doubled
    /\ overtaken' = (overtaken \cup Looked) \ {w}
    /\ Finish(w)
    /\ UNCHANGED <<time, stray, picked>>

(* What the grants of a say now, other than those revoked or expired. *)
missing_capabilities(rows, a, now) ==
    RoleCapabilities \ {rows[g].capability : g \in {k \in Grant : Active(rows[k], now) /\ rows[k].of = a}}

retimed(a, expires) ==
    [g \in Grant |-> IF grant[g] # None /\ grant[g].of = a /\ ~grant[g].revoked
                     THEN [grant[g] EXCEPT !.expires = expires] ELSE grant[g]]
retimed_nothing(a, expires) == grant
retime_grants(a, expires) == retimed(a, expires)

Written(w, a, after) ==
    /\ stray' = IF w \in overtaken THEN stray \cup {g \in Grant : grant[g] = None /\ after[g] # None}
                ELSE stray
    /\ doubled' = IF w \in overtaken THEN doubled \cup {a} ELSE doubled
    /\ picked' = picked \ {a}
    /\ Finish(w)

(* Another expiry: the assignment's and its grants', then the missing ones. *)
change_expiry(w) ==
    LET a == assigning[w].found
        expires == assigning[w].expires
        timed == retime_grants(a, expires)
        missing == missing_capabilities(timed, a, assigning[w].now)
        after == WithGrants(timed, a, missing, expires)
    IN /\ assigning[w].step = "looked" /\ a # None
       /\ assigning[w].loaded # expires
       /\ Room(missing)
       /\ assignment' = [assignment EXCEPT ![a].expires = expires]
       /\ grant' = after
       /\ Written(w, a, after)
       /\ overtaken' = (overtaken \cup {v \in Looked : assigning[v].found \in {a, None}}) \ {w}
       /\ UNCHANGED time

(* The same expiry: the missing grants are read, and inserted after that. *)
compare_grants(w) ==
    /\ assigning[w].step = "looked" /\ assigning[w].found # None
    /\ assigning[w].loaded = assigning[w].expires
    /\ assigning' = [assigning EXCEPT ![w].step = "compared",
                       ![w].missing = missing_capabilities(grant, assigning[w].found,
                                                           assigning[w].now)]
    /\ UNCHANGED <<assignment, grant, time, overtaken, stray, doubled, picked>>

insert_missing(w) ==
    LET a == assigning[w].found
        after == WithGrants(grant, a, assigning[w].missing, assigning[w].loaded)
    IN /\ assigning[w].step = "compared" /\ assigning[w].missing # {}
       /\ Room(assigning[w].missing)
       /\ grant' = after
       /\ Written(w, a, after)
       /\ overtaken' = overtaken \ {w}
       /\ UNCHANGED <<assignment, time>>

(* Nothing was missing, an error, a rollback. *)
end_assigning(w) ==
    /\ assigning[w].step # "idle"
    /\ Finish(w)
    /\ overtaken' = overtaken \ {w}
    /\ UNCHANGED <<assignment, grant, time, stray, doubled, picked>>

revoked_with(a) ==
    [g \in Grant |-> IF grant[g] # None /\ grant[g].of = a
                     THEN [grant[g] EXCEPT !.revoked = TRUE] ELSE grant[g]]
revoked_alone(a) == grant
revoke_grants(a) == revoked_with(a)

revoke_role_assignment(a) ==
    /\ assignment[a] # None
    /\ assignment' = [assignment EXCEPT ![a].revoked = TRUE]
    /\ grant' = revoke_grants(a)
    /\ overtaken' = overtaken \cup {w \in Looked : assigning[w].found = a}
    /\ UNCHANGED <<assigning, time, stray, doubled, picked>>

pass_time ==
    /\ time + 1 < Never
    /\ time' = time + 1
    /\ UNCHANGED <<assignment, grant, assigning, overtaken, stray, doubled, picked>>

-----------------------------------------------------------------------------
RolesInit ==
    /\ assignment = [a \in Assignment |-> None]
    /\ grant = [g \in Grant |-> None]
    /\ assigning = [w \in Assigner |-> NotAssigning]
    /\ time = 0
    /\ overtaken = {} /\ stray = {} /\ doubled = {} /\ picked = {}

RolesNext ==
    \/ \E c \in Capability, s \in Project \cup {None}, t \in Expiry : grant_capability(c, s, t)
    \/ \E g \in Grant : revoke_capability_grant(g)
    \/ \E w \in Assigner :
         \/ \E t \in Expiry : look_for_assignment(w, t)
         \/ insert_assignment(w) \/ change_expiry(w)
         \/ compare_grants(w) \/ insert_missing(w) \/ end_assigning(w)
    \/ \E a \in Assignment : revoke_role_assignment(a)
    \/ pass_time

RolesSpec == RolesInit /\ [][RolesNext]_roleVars

-----------------------------------------------------------------------------
(* An actor that is no admin is let through because of a grant given on its *)
(* own, or because the role is assigned now; a grant of a role that has     *)
(* ended lets nobody through, unless the request that inserted it was       *)
(* overtaken by the end.                                                    *)
CapabilitiesHaveACause ==
    \A c \in Capability, p \in Project :
        ensure_actor_has_capability(c, p) =>
            \/ IsAdmin
            \/ \E a \in ActiveAssignments(time) : {c, Admin} \cap RoleCapabilities # {}
            \/ \E g \in ActiveGrants(time) : grant[g].of = None
            \/ \E g \in ActiveGrants(time) : g \in stray

(* While the role is assigned, it gives all its capabilities, everywhere,   *)
(* unless a grant of it was revoked on its own or two requests overlapped.  *)
RolesGiveTheirCapabilities ==
    \A a \in ActiveAssignments(time) \ (picked \cup doubled) :
        \A c \in RoleCapabilities, p \in Project : ensure_actor_has_capability(c, p)

=============================================================================
