------------------------------- MODULE MCAccess -------------------------------
(* Who may act, in three instances of one run:                                *)
(*   roles  two requests assign one role while it, and its grants, are revoked;*)
(*   keys   two requests use and rotate keys that others revoke and delete;    *)
(*   boot   two clients post the first owner of an install that may have had   *)
(*          one before.                                                        *)
EXTENDS Roles, AccessKeys, Bootstrap, TLC

CONSTANTS read, write, admin, p1, w1, w2, r1, r2, o1, o2, old

VARIABLE which
vars == <<roleVars, keyVars, bootVars, which>>
InRoles == which = "roles" /\ UNCHANGED <<keyVars, bootVars, which>>
InKeys == which = "keys" /\ UNCHANGED <<roleVars, bootVars, which>>
InBoot == which = "boot" /\ UNCHANGED <<roleVars, keyVars, which>>

Symmetry == Permutations({w1, w2}) \cup Permutations({r1, r2}) \cup Permutations({o1, o2})
Unassigned == assignment = [a \in Assignment |-> None] /\ grant = [g \in Grant |-> None]
Pickable(g) == grant[g] # None /\ grant[g].capability # write
KeyLost == ~\E k \in Key : Live(k, clock)

Init ==
    /\ RolesInit /\ KeysInit /\ BootInit
    /\ which \in {"roles", "keys", "boot"}
    /\ which # "boot" => actors[old] = None

Next ==
    \/ InRoles /\ Unassigned /\ grant_capability(admin, p1, Never)
    \/ \E g \in Grant : InRoles /\ Pickable(g) /\ revoke_capability_grant(g)
    \/ \E w \in Assigner, t \in Expiry : InRoles /\ look_for_assignment(w, t)
    \/ \E w \in Assigner : InRoles /\ insert_assignment(w)
    \/ \E w \in Assigner : InRoles /\ change_expiry(w)
    \/ \E w \in Assigner : InRoles /\ compare_grants(w)
    \/ \E w \in Assigner : InRoles /\ insert_missing(w)
    \/ \E w \in Assigner : InRoles /\ end_assigning(w)
    \/ \E a \in Assignment : InRoles /\ revoke_role_assignment(a)
    \/ InRoles /\ pass_time
    \/ \E r \in Client, k \in Key : InKeys /\ inspect_api_token(r, k)
    \/ \E k \in Key : InKeys /\ refuse_api_token(k)
    \/ \E r \in Client : InKeys /\ authenticate(r)
    \/ \E r \in Client : InKeys /\ rotate_own_key(r)
    \/ \E r \in Client : InKeys /\ commit_request(r)
    \/ \E r \in Client : InKeys /\ roll_back(r)
    \/ \E k \in Key : InKeys /\ revoke_api_token(k)
    \/ \E k \in Key : InKeys /\ delete_api_token(k)
    \/ InKeys /\ KeyLost /\ issue_api_token(Lifetime)
    \/ InKeys /\ clock_ticks
    \/ \E r \in Owner : InBoot /\ take_bootstrap_lock(r)
    \/ \E r \in Owner : InBoot /\ count_users(r)
    \/ \E r \in Owner : InBoot /\ archive_stale_admin_actor(r)
    \/ \E r \in Owner : InBoot /\ create_owner_user(r)
    \/ \E r \in Owner : InBoot /\ commit_bootstrap(r)
    \/ \E r \in Owner : InBoot /\ abort_bootstrap(r)
    \/ \E r \in Owner : InBoot /\ post_again(r)
    \/ \E r \in Owner, lost \in BOOLEAN : InBoot /\ create_local_session(r, lost)
    \/ \E cookie \in cookies : InBoot /\ authenticate_browser_session(cookie)
    \/ InBoot /\ hour_passes

Spec == Init /\ [][Next]_vars
===============================================================================
