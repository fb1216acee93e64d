------------------------------- MODULE Bootstrap -------------------------------
(***************************************************************************)
(* First run: the one request that creates the local owner, and signing in.  *)
(*                                                                          *)
(* The request holds an advisory lock until its transaction ends, counts     *)
(* the users, retires an actor that an earlier install left under the admin  *)
(* handle, and makes the owner's actor, user, key and browser session.  Two  *)
(* unique indexes stand behind the lock.  Afterwards the owner signs in with *)
(* a password, and by the cookie of a session.                               *)
(***************************************************************************)
EXTENDS Naturals, FiniteSets, Absent

CONSTANTS
    Owner,      \* bootstrap requests, and the users they would create
    Stale,      \* an actor left under the admin handle
    MaxAge,     \* SESSION_MAX_AGE_SECONDS
    LastHour,   \* bound on the clock of sessions
    MaxCookies  \* bound: cookies handed out

ASSUME BootstrapAssumption ==
    /\ Stale \notin Owner /\ None \notin Owner \cup {Stale}
    /\ None \notin [handle : {"admin", "archived"}, is_active : BOOLEAN]

VARIABLES
    users,      \* committed users: all of them admins
    actors,     \* committed actors: actors[x] = [handle, is_active], or None
    keys,       \* owners with a committed first key
    sessions,   \* committed rows of auth_sessions: [id, user, expires_at]
    cookies,    \* the sessions whose cookie was handed out
    hour,       \* the time sessions are judged by
    served,     \* the user the last cookie signed in, {} for none
    boot        \* boot[r]: how far request r is, the actor it retires, its session

sessionVars == <<sessions, cookies, hour, served>>
bootVars == <<users, actors, keys, boot, sessionVars>>
NotStarted == [step |-> "new", retires |-> None, session |-> None]
HasLock == {r \in Owner : boot[r].step \in {"locked", "counted", "archived", "answered"}}
AdminActor == {x \in DOMAIN actors : actors[x] # None /\ actors[x].handle = "admin"}

-----------------------------------------------------------------------------
take_bootstrap_lock(r) ==
    /\ boot[r].step = "new" /\ HasLock = {}
    /\ boot' = [boot EXCEPT ![r].step = "locked"]
    /\ UNCHANGED <<users, actors, keys, sessionVars>>

user_count == Cardinality(users)

(* 409 when there is a user: the request ends with nothing written. *)
count_users(r) ==
    /\ boot[r].step = "locked"
    /\ boot' = [boot EXCEPT ![r].step = IF user_count > 0 THEN "refused" ELSE "counted"]
    /\ UNCHANGED <<users, actors, keys, sessionVars>>

archive_stale_admin_actor(r) ==
    /\ boot[r].step = "counted"
    /\ boot' = [boot EXCEPT ![r].step = "archived",
                            ![r].retires = IF AdminActor = {} THEN None ELSE CHOOSE x \in AdminActor : TRUE]
    /\ UNCHANGED <<users, actors, keys, sessionVars>>

NewSession(user) == [id |-> Cardinality(cookies), user |-> user, expires_at |-> hour + MaxAge]

(* The handle is unique, and so is an admin user (one_admin_only). *)
create_owner_user(r) ==
    /\ boot[r].step = "archived"
    /\ IF AdminActor \subseteq {boot[r].retires} /\ users = {}
         THEN /\ Cardinality(cookies) < MaxCookies
              /\ boot' = [boot EXCEPT ![r].step = "answered", ![r].session = NewSession(r)]
              /\ cookies' = cookies \cup {NewSession(r)}
         ELSE boot' = [boot EXCEPT ![r].step = "refused"] /\ UNCHANGED cookies
    /\ UNCHANGED <<users, actors, keys, sessions, hour, served>>

retired == [handle |-> "archived", is_active |-> FALSE]
renamed_only == [handle |-> "archived", is_active |-> TRUE]
archived_actor == retired

(* The answer, with key and cookies, is sent; then the commit. *)
commit_bootstrap(r) ==
    /\ boot[r].step = "answered"
    /\ users' = users \cup {r} /\ keys' = keys \cup {r}
    /\ sessions' = sessions \cup {boot[r].session}
    /\ UNCHANGED <<cookies, hour, served>>
    /\ actors' = [x \in DOMAIN actors |->
                    CASE x = r -> [handle |-> "admin", is_active |-> TRUE]
                      [] x = boot[r].retires -> archived_actor
                      [] OTHER -> actors[x]]
    /\ boot' = [boot EXCEPT ![r].step = "done"]

(* An error or a crash before the commit: the lock goes, nothing stays. *)
abort_bootstrap(r) ==
    /\ r \in HasLock
    /\ boot' = [boot EXCEPT ![r] = [NotStarted EXCEPT !.step = "refused"]]
    /\ UNCHANGED <<users, actors, keys, sessionVars>>

(* A client that was refused, or lost its answer, posts again. *)
post_again(r) ==
    /\ boot[r].step = "refused"
    /\ boot' = [boot EXCEPT ![r] = NotStarted]
    /\ UNCHANGED <<users, actors, keys, sessionVars>>

-----------------------------------------------------------------------------
(* authenticate_email_password and create_browser_session: the row is       *)
(* committed, or lost after the cookie was sent.                            *)
create_local_session(user, lost) ==
    /\ user \in users /\ Cardinality(cookies) < MaxCookies
    /\ cookies' = cookies \cup {NewSession(user)}
    /\ sessions' = IF lost THEN sessions ELSE sessions \cup {NewSession(user)}
    /\ UNCHANGED <<users, actors, keys, boot, hour, served>>

session_of(cookie) ==
    {s.user : s \in {k \in sessions : k = cookie /\ k.expires_at > hour /\ k.user \in users}}

(* The user of a live session, whose actor must be there to act. *)
authenticate_browser_session(cookie) ==
    /\ cookie \in cookies
    /\ served' = session_of(cookie)
    /\ UNCHANGED <<users, actors, keys, boot, sessions, cookies, hour>>

hour_passes ==
    /\ hour < LastHour /\ hour' = hour + 1 /\ served' = {}
    /\ UNCHANGED <<users, actors, keys, boot, sessions, cookies>>

-----------------------------------------------------------------------------
BootInit ==
    /\ users = {} /\ keys = {}
    /\ sessions = {} /\ cookies = {} /\ hour = 0 /\ served = {}
    /\ actors \in {[x \in Owner \cup {Stale} |-> None],
                   [x \in Owner \cup {Stale} |->
                      IF x = Stale THEN [handle |-> "admin", is_active |-> TRUE] ELSE None]}
    /\ boot = [r \in Owner |-> NotStarted]

BootNext ==
    \/ hour_passes
    \/ \E c \in cookies : authenticate_browser_session(c)
    \/ \E r \in Owner :
        \/ \E lost \in BOOLEAN : create_local_session(r, lost)
        \/ take_bootstrap_lock(r) \/ count_users(r) \/ archive_stale_admin_actor(r)
        \/ create_owner_user(r) \/ commit_bootstrap(r) \/ abort_bootstrap(r) \/ post_again(r)

BootSpec == BootInit /\ [][BootNext]_bootVars

-----------------------------------------------------------------------------
(* Once there is an owner, it is the only user, it has its key, its actor    *)
(* alone bears the admin handle, and no actor of an earlier install is left  *)
(* active: whoever posts again, crashes or races, in whatever order.  A      *)
(* cookie signs in the owner or no one, also one sent by a first run or a    *)
(* sign-in that was rolled back.                                             *)
OwnerStandsAlone ==
    /\ served \subseteq users
    /\ users # {} =>
        \E r \in Owner :
            /\ users = {r} /\ keys = {r}
            /\ AdminActor = {r}
            /\ \A x \in DOMAIN actors \ {r} : actors[x] # None => ~actors[x].is_active
=============================================================================
