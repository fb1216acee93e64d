----------------------------- MODULE AccessProofs -----------------------------
(***************************************************************************)
(* Proofs about who may act: a role's grants have a cause, a rotated key   *)
(* is replaced, and a first run leaves one owner, for any number of rows,   *)
(* requests and clients.                                                    *)
(***************************************************************************)
EXTENDS Roles, AccessKeys, Bootstrap, Counting, FiniteSetTheorems, TLAPS

-----------------------------------------------------------------------------
(* First run. *)
ActorRow == [handle : {"admin", "archived"}, is_active : BOOLEAN]
BootStep == {"new", "locked", "counted", "archived", "answered", "done", "refused"}

BootTypeOK ==
    /\ users \subseteq Owner
    /\ actors \in [Owner \cup {Stale} -> ActorRow \cup {None}]
    /\ boot = [r \in Owner |-> [step |-> boot[r].step, retires |-> boot[r].retires,
                                session |-> boot[r].session]]
    /\ \A r \in Owner : boot[r].step \in BootStep

(* Before the owner there is at most the actor an earlier install left. *)
Unowned ==
    users = {} =>
        /\ keys = {}
        /\ \A x \in Owner : actors[x] = None

Owned ==
    users # {} =>
        \E r \in Owner :
            /\ users = {r} /\ keys = {r}
            /\ AdminActor = {r}
            /\ \A x \in DOMAIN actors \ {r} : actors[x] # None => ~actors[x].is_active

(* An actor that is active bears the admin handle. *)
ActiveAreAdmins ==
    \A x \in DOMAIN actors : actors[x] # None /\ actors[x].is_active => actors[x].handle = "admin"

(* The advisory lock is held by one request. *)
LockedOnce == \A r, q \in HasLock : r = q

(* What the holder of the lock has found out still holds. *)
CountedNone ==
    \A r \in Owner : boot[r].step \in {"counted", "archived", "answered"} => users = {}
FoundAdmin ==
    \A r \in Owner : boot[r].step \in {"archived", "answered"} =>
        AdminActor \subseteq {boot[r].retires} /\ boot[r].retires \in {None, Stale}

BootInv ==
    /\ BootTypeOK /\ Unowned /\ Owned /\ ActiveAreAdmins
    /\ LockedOnce /\ CountedNone /\ FoundAdmin
    /\ served \subseteq users

(* An install begins without users. *)
LEMMA BootInitInv == BootInit => BootInv
<1> SUFFICES ASSUME BootInit PROVE BootInv
  OBVIOUS
<1>1. BootTypeOK
  <2>1. [handle |-> "admin", is_active |-> TRUE] \in ActorRow
    BY DEF ActorRow
  <2>2. actors \in [Owner \cup {Stale} -> ActorRow \cup {None}]
    BY <2>1 DEF BootInit
  <2>3. \A r \in Owner : boot[r] = NotStarted
    BY DEF BootInit
  <2>4. \A r \in Owner : boot[r] = [step |-> boot[r].step, retires |-> boot[r].retires,
                                   session |-> boot[r].session]
    BY <2>3 DEF NotStarted
  <2>5. boot = [r \in Owner |-> [step |-> boot[r].step, retires |-> boot[r].retires,
                                session |-> boot[r].session]]
    BY <2>4 DEF BootInit
  <2> QED
    BY <2>2, <2>3, <2>5 DEF BootInit, BootTypeOK, NotStarted, BootStep
<1>2. Unowned /\ Owned
  BY BootstrapAssumption DEF BootInit, Unowned, Owned
<1>3. ActiveAreAdmins
  BY DEF BootInit, ActiveAreAdmins
<1>4. \A r \in Owner : boot[r].step = "new"
  BY DEF BootInit, NotStarted
<1>5. LockedOnce /\ CountedNone /\ FoundAdmin
  BY <1>4 DEF LockedOnce, CountedNone, FoundAdmin, HasLock
<1> QED
  BY <1>1, <1>2, <1>3, <1>5 DEF BootInit, BootInv

(* Request r gets row b, the other requests keep theirs. *)
BootPut(r, b) ==
    /\ boot' = [q \in Owner |-> boot'[q]]
    /\ boot'[r] = b
    /\ \A q \in Owner \ {r} : boot'[q] = boot[q]

(* What a step of request r does to how far the requests are. *)
LEMMA BootMoves ==
    ASSUME BootTypeOK, NEW r \in Owner, NEW b,
           b = [step |-> b.step, retires |-> b.retires, session |-> b.session],
           b.step \in BootStep,
           BootPut(r, b),
           UNCHANGED <<users, actors>>
    PROVE  BootTypeOK'
BY DEF BootTypeOK, BootPut

(* A step of r that commits nothing. *)
LEMMA BootStays ==
    ASSUME BootInv, NEW r \in Owner, NEW b,
           b = [step |-> b.step, retires |-> b.retires, session |-> b.session],
           b.step \in BootStep,
           BootPut(r, b),
           UNCHANGED <<users, actors, keys, served>>,
           b.step \in {"locked", "counted", "archived", "answered"} =>
               r \in HasLock \/ HasLock = {},
           b.step \in {"counted", "archived", "answered"} => users = {},
           b.step \in {"archived", "answered"} =>
               AdminActor \subseteq {b.retires} /\ b.retires \in {None, Stale}
    PROVE  BootInv'
<1>1. /\ BootTypeOK'
      /\ boot'[r] = b
      /\ \A q \in Owner \ {r} : boot'[q] = boot[q]
  BY BootMoves DEF BootInv, BootPut
<1>2. AdminActor' = AdminActor
  BY DEF AdminActor
<1>3. Unowned' /\ Owned' /\ ActiveAreAdmins'
  BY <1>2 DEF BootInv, Unowned, Owned, ActiveAreAdmins
<1>4. LockedOnce'
  BY <1>1 DEF BootInv, LockedOnce, HasLock
<1>5. CountedNone' /\ FoundAdmin'
  BY <1>1, <1>2 DEF BootInv, CountedNone, FoundAdmin
<1> QED
  BY <1>1, <1>3, <1>4, <1>5 DEF BootInv

(* A row of boot, and how far it is. *)
BootRow(b) == b = [step |-> b.step, retires |-> b.retires, session |-> b.session]

LEMMA BootRowUpdates ==
    ASSUME NEW b, BootRow(b), NEW t
    PROVE  [b EXCEPT !.step = t] =
                 [step |-> t, retires |-> b.retires, session |-> b.session]
BY DEF BootRow

(* The steps of a first run before its commit keep the invariant. *)
LEMMA BootRequestInv ==
    ASSUME BootInv, NEW r \in Owner,
           \/ take_bootstrap_lock(r) \/ count_users(r) \/ archive_stale_admin_actor(r)
           \/ create_owner_user(r) \/ abort_bootstrap(r) \/ post_again(r)
    PROVE  BootInv'
<1> DEFINE b == boot[r]
<1>0. BootRow(b) /\ boot = [q \in Owner |-> boot[q]]
  BY DEF BootInv, BootTypeOK, BootRow
<1>1. CASE take_bootstrap_lock(r)
  <2> DEFINE n == [b EXCEPT !.step = "locked"]
  <2>1. n = [step |-> "locked", retires |-> b.retires, session |-> b.session]
    BY <1>0, BootRowUpdates
  <2>2. /\ BootPut(r, n) /\ HasLock = {}
        /\ UNCHANGED <<users, actors, keys, served>>
    BY <1>0, <1>1 DEF take_bootstrap_lock, sessionVars, BootPut, BootInv, BootTypeOK
  <2> HIDE DEF n
  <2> QED
    BY <2>1, <2>2, BootStays DEF BootStep
<1>2. CASE count_users(r)
  <2> DEFINE t == IF user_count > 0 THEN "refused" ELSE "counted"
             n == [b EXCEPT !.step = t]
  <2>1. n = [step |-> t, retires |-> b.retires, session |-> b.session]
    BY <1>0, BootRowUpdates
  <2>2. /\ BootPut(r, n) /\ r \in HasLock
        /\ UNCHANGED <<users, actors, keys, served>>
    BY <1>0, <1>2 DEF count_users, sessionVars, HasLock, BootPut, BootInv, BootTypeOK
  <2>3. t = "counted" => users = {}
    <3>1. CASE users = {}
      BY <3>1
    <3>2. CASE users # {}
      <4>1. PICK o \in Owner : users = {o}
        BY <3>2 DEF BootInv, Owned
      <4>2. user_count = 1
        BY <4>1, FS_Singleton DEF user_count
      <4> QED
        BY <4>2
    <3> QED
      BY <3>1, <3>2
  <2>4. t \in {"refused", "counted"}
    OBVIOUS
  <2> HIDE DEF n, t
  <2> QED
    BY <2>1, <2>2, <2>3, <2>4, BootStays DEF BootStep
<1>3. CASE archive_stale_admin_actor(r)
  <2> DEFINE x == IF AdminActor = {} THEN None ELSE CHOOSE y \in AdminActor : TRUE
             n == [b EXCEPT !.step = "archived", !.retires = x]
  <2>1. n = [step |-> "archived", retires |-> x, session |-> b.session]
    <3> HIDE DEF b, x
    <3> DEFINE c == [b EXCEPT !.step = "archived"]
    <3>1. c = [step |-> "archived", retires |-> b.retires, session |-> b.session]
      BY <1>0 DEF BootRow
    <3>2. n = [c EXCEPT !.retires = x]
      OBVIOUS
    <3> HIDE DEF c
    <3> QED
      BY <3>1, <3>2
  <2>2. /\ BootPut(r, n) /\ r \in HasLock /\ b.step = "counted"
        /\ UNCHANGED <<users, actors, keys, served>>
    <3>1. /\ boot' = [boot EXCEPT ![r].step = "archived", ![r].retires = x]
          /\ r \in HasLock /\ b.step = "counted"
          /\ UNCHANGED <<users, actors, keys, served>>
      BY <1>3 DEF archive_stale_admin_actor, sessionVars, HasLock
    <3> HIDE DEF x
    <3> QED
      BY <1>0, <3>1 DEF BootPut, BootInv, BootTypeOK
  <2>3. users = {}
    BY <2>2 DEF BootInv, CountedNone
  <2>4. AdminActor \subseteq {Stale}
    BY <2>3 DEF BootInv, Unowned, AdminActor, BootTypeOK
  <2>5. AdminActor \subseteq {x} /\ x \in {None, Stale}
    BY <2>4
  <2> HIDE DEF n, x
  <2> QED
    BY <2>1, <2>2, <2>3, <2>5, BootStays DEF BootStep
<1>4. CASE create_owner_user(r)
  <2>1. /\ b.step = "archived" /\ r \in HasLock
        /\ UNCHANGED <<users, actors, keys, served>>
    BY <1>4 DEF create_owner_user, HasLock
  <2>2. CASE boot' = [boot EXCEPT ![r].step = "answered", ![r].session = NewSession(r)]
    <3> DEFINE n == [b EXCEPT !.step = "answered", !.session = NewSession(r)]
    <3>1. n = [step |-> "answered", retires |-> b.retires, session |-> NewSession(r)]
      <4> HIDE DEF b
      <4> DEFINE c == [b EXCEPT !.step = "answered"]
      <4>1. c = [step |-> "answered", retires |-> b.retires, session |-> b.session]
        BY <1>0 DEF BootRow
      <4>2. n = [c EXCEPT !.session = NewSession(r)]
        OBVIOUS
      <4> HIDE DEF c
      <4> QED
        BY <4>1, <4>2
    <3>2. BootPut(r, n)
      BY <1>0, <2>2 DEF BootPut, BootInv, BootTypeOK
    <3>3. users = {} /\ AdminActor \subseteq {b.retires} /\ b.retires \in {None, Stale}
      BY <2>1 DEF BootInv, CountedNone, FoundAdmin
    <3> HIDE DEF n
    <3> QED
      BY <2>1, <3>1, <3>2, <3>3, BootStays DEF BootStep
  <2>3. CASE boot' = [boot EXCEPT ![r].step = "refused"]
    <3> DEFINE n == [b EXCEPT !.step = "refused"]
    <3>1. n = [step |-> "refused", retires |-> b.retires, session |-> b.session]
      BY <1>0, BootRowUpdates
    <3>2. BootPut(r, n)
      BY <1>0, <2>3 DEF BootPut, BootInv, BootTypeOK
    <3> HIDE DEF n
    <3> QED
      BY <2>1, <3>1, <3>2, BootStays DEF BootStep
  <2> QED
    BY <1>4, <2>2, <2>3 DEF create_owner_user
<1>5. CASE abort_bootstrap(r) \/ post_again(r)
  <2>1. PICK t \in {"new", "refused"} :
           boot' = [boot EXCEPT ![r] = [step |-> t, retires |-> None, session |-> None]]
    BY <1>5 DEF abort_bootstrap, post_again, NotStarted
  <2>4. BootPut(r, [step |-> t, retires |-> None, session |-> None])
    BY <1>0, <2>1 DEF BootPut
  <2>2. UNCHANGED <<users, actors, keys, served>>
    BY <1>5 DEF abort_bootstrap, post_again, sessionVars
  <2> DEFINE n == [step |-> t, retires |-> None, session |-> None]
  <2>3. n = [step |-> n.step, retires |-> n.retires, session |-> n.session]
        /\ n.step = t
    OBVIOUS
  <2> HIDE DEF n
  <2> QED
    BY <2>2, <2>3, <2>4, BootStays DEF BootStep, n
<1> QED
  BY <1>1, <1>2, <1>3, <1>4, <1>5

(* The commit of a first run makes its request the only owner. *)
LEMMA BootCommitInv ==
    ASSUME BootInv, NEW r \in Owner, commit_bootstrap(r)
    PROVE  BootInv'
<1> DEFINE b == boot[r]
           admin == [handle |-> "admin", is_active |-> TRUE]
<1>1. /\ users = {} /\ keys = {} /\ b.step = "answered" /\ r \in HasLock
      /\ AdminActor \subseteq {b.retires} /\ b.retires \in {None, Stale}
      /\ \A x \in Owner : actors[x] = None
  BY DEF commit_bootstrap, BootInv, CountedNone, FoundAdmin, Unowned, HasLock
<1>2. /\ users' = {r} /\ keys' = {r} /\ served' = served
  BY <1>1 DEF commit_bootstrap
<1>3. admin \in ActorRow /\ archived_actor \in ActorRow
      /\ archived_actor.handle = "archived" /\ ~archived_actor.is_active
  BY DEF ActorRow, archived_actor, retired
<1>4. actors' = [x \in Owner \cup {Stale} |->
                   CASE x = r -> admin
                     [] x = b.retires -> archived_actor
                     [] OTHER -> actors[x]]
  BY DEF commit_bootstrap, BootInv, BootTypeOK
<1> HIDE DEF admin
<1>5. /\ boot'[r].step = "done"
      /\ \A q \in Owner \ {r} : boot'[q] = boot[q]
      /\ boot' = [q \in Owner |-> [step |-> boot'[q].step, retires |-> boot'[q].retires,
                                   session |-> boot'[q].session]]
  BY SMTT(30) DEF commit_bootstrap, BootInv, BootTypeOK
<1>6. /\ actors'[r] = admin
      /\ \A x \in (Owner \cup {Stale}) \ {r} :
            actors'[x] = IF x = b.retires THEN archived_actor ELSE actors[x]
      /\ DOMAIN actors' = Owner \cup {Stale}
  <2>1. \A x \in Owner \cup {Stale} :
           actors'[x] = CASE x = r -> admin
                          [] x = b.retires -> archived_actor
                          [] OTHER -> actors[x]
    BY <1>4
  <2>2. r # b.retires
    BY <1>1, BootstrapAssumption
  <2> HIDE DEF b
  <2> QED
    BY <1>4, <2>1, <2>2
<1>7. BootTypeOK'
  BY <1>2, <1>3, <1>4, <1>5 DEF BootInv, BootTypeOK, BootStep
<1>8. admin # None /\ admin.handle = "admin" /\ admin.is_active
  BY <1>3, BootstrapAssumption DEF admin, ActorRow
<1>9. \A x \in (Owner \cup {Stale}) \ {r} :
         actors'[x] # None => actors'[x].handle # "admin" /\ ~actors'[x].is_active
  <2>1. SUFFICES ASSUME NEW x \in (Owner \cup {Stale}) \ {r}, actors'[x] # None
                 PROVE  actors'[x].handle # "admin" /\ ~actors'[x].is_active
    OBVIOUS
  <2>2. CASE x = b.retires
    BY <1>3, <1>6, <2>2
  <2>3. CASE x # b.retires
    <3>1. x = Stale /\ actors'[x] = actors[x] /\ actors[x] # None
      BY <1>1, <1>6, <2>1, <2>3
    <3>2. actors[x].handle # "admin"
      BY <1>1, <2>3, <3>1 DEF AdminActor, BootInv, BootTypeOK
    <3>3. ~actors[x].is_active
      BY <3>1, <3>2 DEF BootInv, ActiveAreAdmins, BootTypeOK
    <3> QED
      BY <3>1, <3>2, <3>3
  <2> QED
    BY <2>2, <2>3
<1>10. AdminActor' = {r}
  BY <1>6, <1>8, <1>9 DEF AdminActor
<1>11. Owned' /\ Unowned'
  BY <1>2, <1>6, <1>9, <1>10 DEF Owned, Unowned
<1>12. ActiveAreAdmins'
  BY <1>6, <1>8, <1>9 DEF ActiveAreAdmins
<1>13. \A q \in Owner : q \notin HasLock'
  BY <1>1, <1>5 DEF BootInv, LockedOnce, HasLock
<1>14. LockedOnce' /\ CountedNone' /\ FoundAdmin'
  BY <1>13 DEF LockedOnce, CountedNone, FoundAdmin, HasLock
<1> QED
  BY <1>1, <1>2, <1>7, <1>11, <1>12, <1>14 DEF BootInv

(* Signing in, by password or by cookie, writes no user and no actor. *)
LEMMA SessionInv ==
    ASSUME BootInv,
           \/ hour_passes
           \/ \E c \in cookies : authenticate_browser_session(c)
           \/ \E r \in Owner, lost \in BOOLEAN : create_local_session(r, lost)
           \/ UNCHANGED bootVars
    PROVE  BootInv'
<1>1. UNCHANGED <<users, actors, keys, boot>> /\ served' \subseteq users
  BY DEF hour_passes, authenticate_browser_session, create_local_session, session_of,
     bootVars, sessionVars, BootInv
<1>2. AdminActor' = AdminActor /\ HasLock' = HasLock
  BY <1>1 DEF AdminActor, HasLock
<1> QED
  BY <1>1, <1>2 DEF BootInv, BootTypeOK, Unowned, Owned, ActiveAreAdmins, LockedOnce,
     CountedNone, FoundAdmin

LEMMA BootNextInv == BootInv /\ [BootNext]_bootVars => BootInv'
BY BootRequestInv, BootCommitInv, SessionInv DEF BootNext

(* The inductive invariant of a first run. *)
THEOREM BootInvariant == BootSpec => []BootInv
BY BootInitInv, BootNextInv, PTL DEF BootSpec

(* However many clients post the first run, again or at once, and wherever   *)
(* they crash, there is one owner at most, alone, with its key and the admin *)
(* handle: routers/bootstrap.py.                                             *)
THEOREM OneOwner == BootSpec => []OwnerStandsAlone
<1>1. BootInv => OwnerStandsAlone
  BY DEF BootInv, Owned, OwnerStandsAlone
<1> QED
  BY <1>1, BootInvariant, PTL

-----------------------------------------------------------------------------
(* API keys. *)
KeyRow == [from : Key \cup {None}, revoked : BOOLEAN, expires : Nat,
           last_used : Nat \cup {None}, deleted : BOOLEAN, overlapped : BOOLEAN]
ClientRow == [step : {"away", "found", "authenticated", "answered"}, key : Key \cup {None},
              now : Nat, uses : BOOLEAN, rotates : BOOLEAN, overlapped : BOOLEAN]

KeysTypeOK ==
    /\ key \in [Key -> KeyRow \cup {None}]
    /\ client \in [Client -> ClientRow]
    /\ clock \in Nat

Child(j, k) == key[j] # None /\ key[j].from = k
Holds(r, k) == client[r].key = k /\ (client[r].uses \/ client[r].rotates)

(* A request works with the row of a key; a key that has a child is dead.    *)
Authenticated ==
    \A r \in Client :
        /\ client[r].step # "away" => client[r].key \in Key /\ key[client[r].key] # None
        /\ client[r].step \in {"away", "found"} => ~client[r].uses /\ ~client[r].rotates
        /\ client[r].uses => Exists(client[r].key)
Dead(k) == key[k].revoked \/ key[k].deleted
ParentsAreDead == \A j, k \in Key : Child(j, k) => key[k] # None /\ Dead(k)

(* One request at a time holds the lock of a row; a row that is gone has    *)
(* none.                                                                    *)
OneHolder ==
    \A k \in Key : Exists(k) => \A r, v \in Client : Holds(r, k) /\ Holds(v, k) => r = v

(* The key of a request that no rotation has overlapped has no child yet. *)
Childless ==
    \A r \in Client : client[r].step # "away" /\ ~client[r].overlapped =>
        \A j \in Key : ~Child(j, client[r].key)
OneChild ==
    \A k \in Key : \A i, j \in Key :
        Child(i, k) /\ Child(j, k) /\ ~key[i].overlapped /\ ~key[j].overlapped => i = j

(* What a request is about to note is later than what is noted. *)
NotesForward ==
    \A r \in Client : client[r].uses =>
        LET last == key[client[r].key].last_used IN last = None \/ last <= client[r].now

KeysInv ==
    /\ KeysTypeOK /\ Authenticated /\ ParentsAreDead
    /\ OneHolder /\ Childless /\ OneChild /\ NotesForward

LEMMA FirstFreeIsFree ==
    ASSUME \E j \in Key : key[j] = None
    PROVE  FirstFree \in Key /\ key[FirstFree] = None
<1>1. \E k \in {j \in Key : key[j] = None} : \A j \in {i \in Key : key[i] = None} : k <= j
  BY LeastNat, KeysAssumption
<1> QED
  BY <1>1 DEF FirstFree

LEMMA KeysInitInv == KeysInit => KeysInv
<1> SUFFICES ASSUME KeysInit PROVE KeysInv
  OBVIOUS
<1>1. NewKey(None, Lifetime, FALSE) \in KeyRow /\ NewKey(None, Lifetime, FALSE).from = None
  BY KeysAssumption DEF NewKey, KeyRow
<1>2. Away \in ClientRow /\ Away.step = "away" /\ ~Away.uses /\ ~Away.rotates
  BY DEF Away, ClientRow
<1>3. KeysTypeOK
  BY <1>1, <1>2 DEF KeysInit, KeysTypeOK
<1>4. \A j, k \in Key : ~Child(j, k)
  BY <1>1, KeysAssumption DEF KeysInit, Child
<1>5. \A r \in Client : client[r] = Away
  BY DEF KeysInit
<1> QED
  BY <1>2, <1>3, <1>4, <1>5 DEF KeysInv, Authenticated, ParentsAreDead, OneHolder, Holds,
     Childless, OneChild, NotesForward

(* A step that changes what one request has read, or is about to write. *)
ClientPut(r, c) ==
    /\ c \in ClientRow
    /\ client' \in [Client -> ClientRow]
    /\ client'[r] = c
    /\ \A v \in Client \ {r} : client'[v] = client[v]

LEMMA ClientStep ==
    ASSUME KeysInv, NEW r \in Client, NEW c, ClientPut(r, c), UNCHANGED <<key, clock>>,
           c.step # "away" => c.key \in Key /\ key[c.key] # None,
           c.step \in {"away", "found"} => ~c.uses /\ ~c.rotates,
           Exists(c.key) /\ (c.uses \/ c.rotates) => \A v \in Client \ {r} : ~Holds(v, c.key),
           c.uses => Exists(c.key),
           c.step # "away" /\ ~c.overlapped => \A j \in Key : ~Child(j, c.key),
           c.uses => LET last == key[c.key].last_used IN last = None \/ last <= c.now
    PROVE  KeysInv'
<1>1. KeysTypeOK'
  BY DEF KeysInv, KeysTypeOK, ClientPut
<1>0. \A k : Exists(k)' <=> Exists(k)
  BY DEF Exists
<1>2. Authenticated'
  BY <1>0 DEF KeysInv, Authenticated, ClientPut
<1>3. \A j, k : Child(j, k)' <=> Child(j, k)
  BY DEF Child
<1>4. ParentsAreDead' /\ OneChild'
  BY <1>3 DEF KeysInv, ParentsAreDead, Dead, OneChild
<1>5. OneHolder'
  BY <1>0 DEF KeysInv, OneHolder, Holds, ClientPut
<1>6. Childless'
  BY <1>3 DEF KeysInv, Childless, ClientPut
<1>7. NotesForward'
  BY DEF KeysInv, NotesForward, ClientPut
<1> QED
  BY <1>1, <1>2, <1>4, <1>5, <1>6, <1>7 DEF KeysInv

(* What a request reads and prepares keeps the invariant. *)
LEMMA RequestInv ==
    ASSUME KeysInv, NEW r \in Client,
           \/ \E k \in Key : inspect_api_token(r, k)
           \/ authenticate(r) \/ rotate_own_key(r) \/ roll_back(r)
    PROVE  KeysInv'
<1>0. client \in [Client -> ClientRow] /\ client[r] \in ClientRow
  BY DEF KeysInv, KeysTypeOK
<1>1. CASE \E k \in Key : inspect_api_token(r, k)
  <2>1. PICK k \in Key : inspect_api_token(r, k)
    BY <1>1
  <2> DEFINE c == [Away EXCEPT !.step = "found", !.key = k, !.now = clock]
  <2>2. c.step = "found" /\ c.key = k /\ ~c.uses /\ ~c.rotates
    BY DEF Away
  <2>3. c \in ClientRow
    <3>1. Away \in ClientRow /\ clock \in Nat
      BY DEF Away, ClientRow, KeysInv, KeysTypeOK
    <3> QED
      BY <3>1 DEF ClientRow
  <2>4. /\ client' = [client EXCEPT ![r] = c] /\ UNCHANGED <<key, clock>>
        /\ key[k] # None /\ ~Dead(k)
    BY <2>1 DEF inspect_api_token, Live, Exists, Dead
  <2>5. \A j \in Key : ~Child(j, k)
    BY <2>4 DEF KeysInv, ParentsAreDead
  <2>6. ClientPut(r, c)
    BY <1>0, <2>3, <2>4 DEF ClientPut
  <2> HIDE DEF c
  <2> QED
    BY <2>2, <2>4, <2>5, <2>6, ClientStep
<1>2. CASE authenticate(r)
  <2> DEFINE k == client[r].key
             u == Exists(k) /\ mark_token_last_used(r, k, client[r].now)
             c == [step |-> "authenticated", key |-> k, now |-> client[r].now, uses |-> u,
                   rotates |-> client[r].rotates, overlapped |-> client[r].overlapped]
  <2>1. u \in BOOLEAN /\ client[r].step = "found" /\ UNCHANGED <<key, clock>>
    BY <1>2 DEF authenticate
  <2>2. c \in ClientRow
    BY <1>0, <2>1 DEF ClientRow
  <2>3. k \in Key /\ key[k] # None /\ ~client[r].uses /\ ~client[r].rotates
    BY <2>1 DEF KeysInv, Authenticated
  <2>4. u => \A v \in Client \ {r} : ~Holds(v, k)
    BY DEF mark_token_last_used, LockedByOther, Holds
  <2>5. u => key[k].last_used = None \/ key[k].last_used <= client[r].now
    <3>1. key[k].last_used \in Nat \cup {None} /\ client[r].now \in Nat /\ Interval \in Nat
      BY <1>0, <2>3, KeysAssumption DEF KeysInv, KeysTypeOK, KeyRow, ClientRow
    <3> QED
      BY <3>1 DEF mark_token_last_used, stale_enough
  <2>6. ClientPut(r, c)
    <3>1. client' = [client EXCEPT ![r].step = "authenticated", ![r].uses = u]
      BY <1>2 DEF authenticate
    <3> HIDE DEF u
    <3> QED
      BY <1>0, <2>1, <2>2, <3>1 DEF ClientPut, ClientRow
  <2>7. /\ c.step = "authenticated" /\ c.key = k /\ c.uses = u /\ ~c.rotates
        /\ c.now = client[r].now /\ c.overlapped = client[r].overlapped
    BY <2>3
  <2>8. ~c.overlapped => \A j \in Key : ~Child(j, c.key)
    BY <2>1, <2>7 DEF KeysInv, Childless
  <2>9. c.uses => Exists(c.key)
    BY <2>7
  <2> HIDE DEF c, u
  <2> QED
    BY <2>1, <2>3, <2>4, <2>5, <2>6, <2>7, <2>8, <2>9, ClientStep
<1>3. CASE rotate_own_key(r)
  <2> DEFINE k == client[r].key
             c == [step |-> "answered", key |-> k, now |-> client[r].now,
                   uses |-> client[r].uses, rotates |-> TRUE,
                   overlapped |-> client[r].overlapped]
  <2>1. /\ client[r].step = "authenticated" /\ UNCHANGED <<key, clock>>
        /\ Exists(k) => ~LockedByOther(r, k)
        /\ client' = [client EXCEPT ![r].rotates = TRUE, ![r].step = "answered"]
    BY <1>3 DEF rotate_own_key
  <2>2. c \in ClientRow
    BY <1>0 DEF ClientRow
  <2>3. ClientPut(r, c)
    BY <1>0, <2>1, <2>2 DEF ClientPut, ClientRow
  <2>4. Exists(k) => \A v \in Client \ {r} : ~Holds(v, k)
    BY <2>1 DEF LockedByOther, Holds
  <2>5. /\ c.step = "answered" /\ c.key = k /\ c.uses = client[r].uses
        /\ c.now = client[r].now /\ c.overlapped = client[r].overlapped
    OBVIOUS
  <2>6. /\ k \in Key /\ key[k] # None
        /\ ~c.overlapped => \A j \in Key : ~Child(j, k)
        /\ c.uses => key[k].last_used = None \/ key[k].last_used <= c.now
        /\ c.uses => Exists(k)
    BY <2>1, <2>5 DEF KeysInv, Authenticated, Childless, NotesForward
  <2> HIDE DEF c
  <2> QED
    BY <2>1, <2>3, <2>4, <2>5, <2>6, ClientStep
<1>4. CASE roll_back(r)
  <2>1. /\ Away \in ClientRow /\ Away.step = "away" /\ ~Away.uses /\ ~Away.rotates
    BY DEF Away, ClientRow
  <2>2. /\ client' = [client EXCEPT ![r] = Away] /\ UNCHANGED <<key, clock>>
    BY <1>4 DEF roll_back
  <2>3. ClientPut(r, Away)
    BY <1>0, <2>1, <2>2 DEF ClientPut
  <2> QED
    BY <2>1, <2>2, <2>3, ClientStep
<1> QED
  BY <1>1, <1>2, <1>3, <1>4

(* What the row of a key keeps, whatever is done to the key. *)
KeptRow(j) ==
    key[j] # None => /\ key'[j] # None
                     /\ key'[j].from = key[j].from
                     /\ key'[j].overlapped = key[j].overlapped
                     /\ key[j].revoked => key'[j].revoked
                     /\ key[j].deleted => key'[j].deleted

(* A step of the holder of no lock: keys are made, revoked and deleted. *)
LEMMA KeyStep ==
    ASSUME KeysInv, UNCHANGED <<client, clock>>,
           key' \in [Key -> KeyRow \cup {None}],
           \A j \in Key : KeptRow(j) /\ (key[j] # None => key'[j].last_used = key[j].last_used),
           \A j \in Key : key[j] = None /\ key'[j] # None => key'[j].from = None,
           \A r \in Client : client[r].uses => Exists(client[r].key)'
    PROVE  KeysInv'
<1>0. \A j \in Key : key[j] # None /\ Exists(j)' => Exists(j)
  BY DEF Exists, KeptRow
<1>1. KeysTypeOK' /\ Authenticated'
  BY DEF KeysInv, KeysTypeOK, Authenticated, KeptRow
<1>7. OneHolder'
  <2> SUFFICES ASSUME NEW k \in Key, Exists(k)', NEW r \in Client, NEW v \in Client,
                      Holds(r, k), Holds(v, k)
               PROVE  r = v
    BY DEF OneHolder, Holds
  <2>1. client[r].step # "away" /\ key[k] # None
    BY DEF KeysInv, Authenticated, Holds
  <2> QED
    BY <1>0, <2>1 DEF KeysInv, OneHolder
<1>2. \A j, k \in Key : Child(j, k)' => Child(j, k)
  BY KeysAssumption DEF Child, KeptRow
<1>3. ParentsAreDead'
  BY <1>2 DEF KeysInv, ParentsAreDead, Dead, KeptRow
<1>4. Childless'
  BY <1>2 DEF KeysInv, Childless, Authenticated
<1>5. OneChild'
  <2>1. \A j, k \in Key : Child(j, k)' => key'[j].overlapped = key[j].overlapped
    BY <1>2 DEF Child, KeptRow
  <2> QED
    BY <1>2, <2>1 DEF KeysInv, OneChild
<1>6. NotesForward'
  BY DEF KeysInv, NotesForward, Authenticated
<1> QED
  BY <1>1, <1>3, <1>4, <1>5, <1>6, <1>7 DEF KeysInv

LEMMA AdminKeyInv ==
    ASSUME KeysInv,
           \/ \E k \in Key : refuse_api_token(k) \/ revoke_api_token(k) \/ delete_api_token(k)
           \/ issue_api_token(Lifetime)
           \/ clock_ticks \/ UNCHANGED keyVars
    PROVE  KeysInv'
<1>0. key \in [Key -> KeyRow \cup {None}]
  BY DEF KeysInv, KeysTypeOK
<1>1. ASSUME NEW k \in Key, revoke_api_token(k) PROVE KeysInv'
  <2>1. /\ key' = [key EXCEPT ![k].revoked = TRUE] /\ UNCHANGED <<client, clock>>
        /\ key[k] \in KeyRow
    BY <1>0, <1>1 DEF revoke_api_token, Exists
  <2>2. [key[k] EXCEPT !.revoked = TRUE] \in KeyRow
    BY <2>1 DEF KeyRow
  <2>3. key' \in [Key -> KeyRow \cup {None}]
    BY <1>0, <2>1, <2>2
  <2>4. /\ key'[k] \in KeyRow /\ key'[k].revoked /\ key'[k].deleted = key[k].deleted
        /\ key'[k].from = key[k].from /\ key'[k].overlapped = key[k].overlapped
        /\ key'[k].last_used = key[k].last_used
    BY <1>0, <2>1 DEF KeyRow
  <2>5. \A j \in Key \ {k} : key'[j] = key[j]
    BY <1>0, <2>1
  <2>6. key'[k] # None
    BY <2>4, KeysAssumption DEF KeyRow
  <2>7. \A j \in Key : /\ KeptRow(j)
                       /\ key[j] # None => key'[j].last_used = key[j].last_used
    BY <2>4, <2>5, <2>6 DEF KeptRow
  <2>8. \A j \in Key : key[j] = None => key'[j] = None
    <3>1. key[k] # None
      BY <2>1, KeysAssumption DEF KeyRow
    <3> QED
      BY <2>5, <3>1
  <2>9. \A r \in Client : client[r].uses => Exists(client[r].key)'
    BY <2>1, <2>4, <2>5, <2>6 DEF KeysInv, Authenticated, Exists
  <2> QED
    BY <2>1, <2>3, <2>7, <2>8, <2>9, KeyStep
<1>2. ASSUME NEW k \in Key, delete_api_token(k) PROVE KeysInv'
  <2>1. /\ key' = [key EXCEPT ![k].deleted = TRUE] /\ UNCHANGED <<client, clock>>
        /\ key[k] \in KeyRow
    BY <1>0, <1>2 DEF delete_api_token, Exists
  <2>2. [key[k] EXCEPT !.deleted = TRUE] \in KeyRow
    BY <2>1 DEF KeyRow
  <2>3. key' \in [Key -> KeyRow \cup {None}]
    BY <1>0, <2>1, <2>2
  <2>4. /\ key'[k] \in KeyRow /\ key'[k].revoked = key[k].revoked /\ key'[k].deleted
        /\ key'[k].from = key[k].from /\ key'[k].overlapped = key[k].overlapped
        /\ key'[k].last_used = key[k].last_used
    BY <1>0, <2>1 DEF KeyRow
  <2>5. \A j \in Key \ {k} : key'[j] = key[j]
    BY <1>0, <2>1
  <2>6. key'[k] # None
    BY <2>4, KeysAssumption DEF KeyRow
  <2>7. \A j \in Key : /\ KeptRow(j)
                       /\ key[j] # None => key'[j].last_used = key[j].last_used
    BY <2>4, <2>5, <2>6 DEF KeptRow
  <2>8. \A j \in Key : key[j] = None => key'[j] = None
    <3>1. key[k] # None
      BY <2>1, KeysAssumption DEF KeyRow
    <3> QED
      BY <2>5, <3>1
  <2>9. \A r \in Client : client[r].uses => client[r].key \in Key \ {k}
    <3>1. \A r \in Client : ~Holds(r, k)
      BY <1>2, KeysAssumption DEF delete_api_token, LockedByOther, Holds
    <3> QED
      BY <3>1 DEF KeysInv, Authenticated, Holds
  <2>10. \A r \in Client : client[r].uses => Exists(client[r].key)'
    BY <2>1, <2>5, <2>9 DEF KeysInv, Authenticated, Exists
  <2> QED
    BY <2>1, <2>3, <2>7, <2>8, <2>10, KeyStep
<1>3. CASE issue_api_token(Lifetime)
  <2> DEFINE n == NewKey(None, Lifetime, FALSE)
  <2>1. n \in KeyRow /\ n.from = None
    BY KeysAssumption DEF NewKey, KeyRow
  <2> HIDE DEF n
  <2>2. /\ key' = [key EXCEPT ![FirstFree] = n] /\ UNCHANGED <<client, clock>>
        /\ FirstFree \in Key /\ key[FirstFree] = None
    BY <1>3, FirstFreeIsFree DEF issue_api_token, n
  <2>3. /\ key'[FirstFree] = n
        /\ \A j \in Key \ {FirstFree} : key'[j] = key[j]
        /\ key' \in [Key -> KeyRow \cup {None}]
    BY <1>0, <2>1, <2>2
  <2>4. \A r \in Client : client[r].uses => Exists(client[r].key)'
    BY <2>2, <2>3 DEF KeysInv, Authenticated, Exists
  <2> QED
    BY <2>1, <2>2, <2>3, <2>4, KeyStep DEF KeptRow
<1>4. CASE clock_ticks
  <2>1. clock' \in Nat /\ UNCHANGED <<key, client>>
    BY <1>4 DEF clock_ticks, KeysInv, KeysTypeOK
  <2> QED
    BY <2>1 DEF KeysInv, KeysTypeOK, Authenticated, ParentsAreDead, Dead, Exists, OneHolder, Holds,
       Childless, OneChild, NotesForward, Child
<1>5. CASE UNCHANGED keyVars \/ \E k \in Key : refuse_api_token(k)
  <2>1. UNCHANGED <<key, client, clock>>
    BY <1>5 DEF refuse_api_token, keyVars
  <2> QED
    BY <2>1 DEF KeysInv, KeysTypeOK, Authenticated, ParentsAreDead, Dead, Exists, OneHolder, Holds,
       Childless, OneChild, NotesForward, Child
<1> QED
  BY <1>1, <1>2, <1>3, <1>4, <1>5

(* What the commit of request r leaves of each key. *)
LEMMA CommitRows ==
    ASSUME KeysInv, NEW r \in Client, commit_request(r)
    PROVE  /\ client[r].key \in Key /\ key[client[r].key] # None
           /\ key' \in [Key -> KeyRow \cup {None}]
           /\ client[r].rotates => /\ FirstFree \in Key /\ key[FirstFree] = None
                                   /\ key'[FirstFree].from = client[r].key
                                   /\ key'[FirstFree].overlapped = client[r].overlapped
                                   /\ \/ key'[client[r].key].revoked
                                      \/ key'[client[r].key].deleted
           /\ \A j \in Key : ~(client[r].rotates /\ j = FirstFree) =>
                /\ KeptRow(j)
                /\ key[j] # None => key'[j].deleted = key[j].deleted
                /\ key[j] = None => key'[j] = None
                /\ key[j] # None => key'[j].last_used =
                     IF j = client[r].key /\ client[r].uses THEN client[r].now
                                                            ELSE key[j].last_used
<1> DEFINE k == client[r].key
           u == IF client[r].uses THEN client[r].now ELSE key[k].last_used
           dies == client[r].rotates /\ Exists(k)
           used == [key EXCEPT ![k].last_used = u, ![k].revoked = @ \/ dies]
           n == NewKey(k, Horizon + 1, client[r].overlapped)
<1>0. /\ key \in [Key -> KeyRow \cup {None}] /\ client[r] \in ClientRow
      /\ k \in Key /\ key[k] # None /\ key[k] \in KeyRow
  BY DEF KeysInv, KeysTypeOK, Authenticated, commit_request
<1>1. /\ key' = IF client[r].rotates THEN [used EXCEPT ![FirstFree] = n] ELSE used
      /\ client[r].rotates => \E j \in Key : key[j] = None
  BY DEF commit_request, revokes, revoked_when_rotated
<1>2. n \in KeyRow /\ n.from = k /\ n.overlapped = client[r].overlapped
  BY <1>0, KeysAssumption DEF NewKey, KeyRow, ClientRow
<1>3. /\ u \in Nat \cup {None}
      /\ dies \in BOOLEAN
      /\ key[k].revoked \in BOOLEAN
  BY <1>0 DEF KeyRow, ClientRow
<1>9. client[r].rotates => dies \/ key[k].deleted
  BY <1>0 DEF Exists
<1> HIDE DEF n
<1>4. /\ used \in [Key -> KeyRow \cup {None}]
      /\ used[k] \in KeyRow
      /\ used[k].last_used = u
      /\ used[k].revoked = (key[k].revoked \/ dies)
      /\ used[k].deleted = key[k].deleted
      /\ used[k].from = key[k].from /\ used[k].overlapped = key[k].overlapped
      /\ \A j \in Key \ {k} : used[j] = key[j]
  <2> HIDE DEF u, dies
  <2> QED
    BY <1>0, <1>3 DEF KeyRow
<1>5. used[k] # None
  BY <1>4, KeysAssumption DEF KeyRow
<1>6. client[r].rotates => FirstFree \in Key /\ key[FirstFree] = None /\ FirstFree # k
  BY <1>0, <1>1, FirstFreeIsFree
<1> HIDE DEF used, dies
<1>7. /\ key' \in [Key -> KeyRow \cup {None}]
      /\ client[r].rotates => key'[FirstFree] = n
      /\ \A j \in Key : ~(client[r].rotates /\ j = FirstFree) => key'[j] = used[j]
  BY <1>1, <1>2, <1>4, <1>6
<1>8. client[r].rotates => key'[k].revoked \/ key'[k].deleted
  <2>1. client[r].rotates => key'[k] = used[k]
    BY <1>0, <1>6, <1>7
  <2> QED
    BY <1>4, <1>9, <2>1
<1> QED
  BY <1>0, <1>2, <1>4, <1>5, <1>6, <1>7, <1>8 DEF KeptRow

(* The commit: a rotated key is dead and gets its one child, and the         *)
(* requests that were working with it are overlapped.                       *)
LEMMA CommitInv ==
    ASSUME KeysInv, NEW r \in Client, commit_request(r)
    PROVE  KeysInv'
<1> DEFINE k == client[r].key
           new(j) == client[r].rotates /\ j = FirstFree
<1>1. /\ k \in Key /\ key[k] # None
      /\ key' \in [Key -> KeyRow \cup {None}]
      /\ client[r].rotates => /\ FirstFree \in Key /\ key[FirstFree] = None
                              /\ key'[FirstFree].from = k
                              /\ key'[FirstFree].overlapped = client[r].overlapped
                              /\ key'[k].revoked \/ key'[k].deleted
      /\ \A j \in Key : ~new(j) => /\ KeptRow(j)
                                   /\ key[j] # None => key'[j].deleted = key[j].deleted
                                   /\ key[j] = None => key'[j] = None
  BY CommitRows
<1>2. \A j \in Key : ~new(j) /\ key[j] # None /\ ~(j = k /\ client[r].uses) =>
         key'[j].last_used = key[j].last_used
  BY CommitRows
<1>3. /\ client' \in [Client -> ClientRow] /\ UNCHANGED clock
      /\ client'[r] = Away
      /\ \A v \in Client \ {r} :
           /\ client'[v].step = client[v].step /\ client'[v].key = client[v].key
           /\ client'[v].now = client[v].now /\ client'[v].uses = client[v].uses
           /\ client'[v].rotates = client[v].rotates
           /\ ~client'[v].overlapped => ~client[v].overlapped /\ ~(client[r].rotates /\ client[v].key = k)
  <2>1. client \in [Client -> ClientRow] /\ Away \in ClientRow
    BY DEF KeysInv, KeysTypeOK, Away, ClientRow
  <2>2. /\ client' = [v \in Client |->
                       IF v = r THEN Away
                       ELSE [client[v] EXCEPT !.overlapped = @ \/ (client[r].rotates /\ client[v].key = k)]]
        /\ UNCHANGED clock
    BY DEF commit_request
  <2>3. \A v \in Client :
          [client[v] EXCEPT !.overlapped = @ \/ (client[r].rotates /\ client[v].key = k)] \in ClientRow
    BY <2>1 DEF ClientRow
  <2>4. client' \in [Client -> ClientRow] /\ client'[r] = Away
    BY <2>1, <2>2, <2>3
  <2>5. ASSUME NEW v \in Client \ {r}
        PROVE  /\ client'[v].step = client[v].step /\ client'[v].key = client[v].key
               /\ client'[v].now = client[v].now /\ client'[v].uses = client[v].uses
               /\ client'[v].rotates = client[v].rotates
               /\ ~client'[v].overlapped =>
                    ~client[v].overlapped /\ ~(client[r].rotates /\ client[v].key = k)
    BY <2>1, <2>2 DEF ClientRow
  <2> QED
    BY <2>2, <2>4, <2>5
<1>4. Away.step = "away" /\ ~Away.uses /\ ~Away.rotates
  BY DEF Away
<1>5. \A j \in Key : new(j) => \A p \in Key : Child(j, p)' => p = k /\ client[r].rotates
  BY <1>1 DEF Child
<1>6. \A j, p \in Key : Child(j, p)' /\ ~new(j) =>
         Child(j, p) /\ key'[j].overlapped = key[j].overlapped
  BY <1>1 DEF Child, KeptRow
<1>7. \A p \in Key : key[p] # None => ~new(p) /\ KeptRow(p)
  BY <1>1
<1>8. KeysTypeOK'
  BY <1>1, <1>3 DEF KeysInv, KeysTypeOK
<1>15. \A p \in Key : key[p] # None => (Exists(p)' <=> Exists(p))
  BY <1>1, <1>7 DEF Exists, KeptRow
<1>9. Authenticated'
  BY <1>3, <1>4, <1>7, <1>15 DEF KeysInv, Authenticated, KeptRow
<1>10. ParentsAreDead'
  <2>1. \A j, p \in Key : Child(j, p)' => key[p] # None /\ (Dead(p)' \/ Dead(p))
    BY <1>1, <1>5, <1>6 DEF KeysInv, ParentsAreDead, Dead
  <2> QED
    BY <1>7, <2>1 DEF KeptRow, ParentsAreDead, Dead
<1>11. OneHolder'
  <2> SUFFICES ASSUME NEW p \in Key, Exists(p)', NEW v \in Client, NEW w \in Client,
                      Holds(v, p)', Holds(w, p)'
               PROVE  v = w
    BY DEF OneHolder
  <2>1. v # r /\ w # r /\ Holds(v, p) /\ Holds(w, p)
    BY <1>3, <1>4 DEF Holds
  <2>2. key[p] # None
    BY <2>1 DEF KeysInv, Authenticated, Holds
  <2> QED
    BY <1>15, <2>1, <2>2 DEF KeysInv, OneHolder
<1>12. Childless'
  BY <1>3, <1>4, <1>5, <1>6 DEF KeysInv, Childless, Authenticated
<1>13. OneChild'
  <2>1. client[r].rotates /\ ~client[r].overlapped => \A j \in Key : ~Child(j, k)
    BY DEF KeysInv, Authenticated, Childless
  <2>2. SUFFICES ASSUME NEW p \in Key, NEW i \in Key, NEW j \in Key,
                        Child(i, p)', Child(j, p)',
                        ~key'[i].overlapped, ~key'[j].overlapped
                 PROVE  i = j
    BY DEF OneChild
  <2>3. CASE new(i) /\ new(j)
    BY <2>3
  <2>4. CASE ~new(i) /\ ~new(j)
    BY <1>6, <2>2, <2>4 DEF KeysInv, OneChild
  <2>5. CASE new(i) /\ ~new(j)
    BY <1>1, <1>5, <1>6, <2>1, <2>2, <2>5
  <2>6. CASE ~new(i) /\ new(j)
    BY <1>1, <1>5, <1>6, <2>1, <2>2, <2>6
  <2> QED
    BY <2>3, <2>4, <2>5, <2>6
<1>14. NotesForward'
  <2> SUFFICES ASSUME NEW v \in Client, client'[v].uses
               PROVE  LET last == key'[client'[v].key].last_used IN
                      last = None \/ last <= client'[v].now
    BY DEF NotesForward
  <2>1. /\ v # r /\ client[v].uses /\ client'[v].key = client[v].key
        /\ client'[v].now = client[v].now
    BY <1>3, <1>4
  <2>2. client[v].key \in Key /\ key[client[v].key] # None
    BY <1>3, <2>1 DEF KeysInv, Authenticated, KeysTypeOK, ClientRow
  <2>3. ~(client[v].key = k /\ client[r].uses)
    BY <1>1, <2>1 DEF KeysInv, Authenticated, OneHolder, Holds
  <2>4. key'[client[v].key].last_used = key[client[v].key].last_used
    BY <1>2, <1>7, <2>2, <2>3
  <2> QED
    BY <2>1, <2>4 DEF KeysInv, NotesForward
<1> QED
  BY <1>8, <1>9, <1>10, <1>11, <1>12, <1>13, <1>14 DEF KeysInv

LEMMA KeysNextInv == KeysInv /\ [KeysNext]_keyVars => KeysInv'
BY RequestInv, CommitInv, AdminKeyInv DEF KeysNext

(* The inductive invariant of API keys. *)
THEOREM KeysInvariant == KeysSpec => []KeysInv
BY KeysInitInv, KeysNextInv, PTL DEF KeysSpec

(* A rotated key is dead and has one successor, whatever overlaps, but for   *)
(* the rotations that were already authenticated: actors.py, auth.py.       *)
THEOREM RotatedKeysAreReplaced == KeysSpec => []RotationsReplace
<1>1. KeysInv => RotationsReplace
  <2> SUFFICES ASSUME KeysInv, NEW k \in Key
               PROVE  LET children == {j \in Key : key[j] # None /\ key[j].from = k} IN
                      /\ children # {} /\ key[k] # None => key[k].revoked \/ key[k].deleted
                      /\ Cardinality({j \in children : ~key[j].overlapped}) <= 1
    BY DEF RotationsReplace
  <2> DEFINE children == {j \in Key : key[j] # None /\ key[j].from = k}
             own == {j \in children : ~key[j].overlapped}
  <2>1. children # {} => key[k].revoked \/ key[k].deleted
    BY DEF KeysInv, ParentsAreDead, Dead, Child
  <2>2. \A i, j \in own : i = j
    BY DEF KeysInv, OneChild, Child
  <2>3. Cardinality(own) <= 1
    <3> HIDE DEF own
    <3>1. CASE own = {}
      BY <3>1, FS_EmptySet
    <3>2. CASE own # {}
      <4>1. PICK x \in own : TRUE
        BY <3>2
      <4>2. own = {x}
        BY <2>2, <4>1
      <4> QED
        BY <4>2, FS_Singleton
    <3> QED
      BY <3>1, <3>2
  <2> QED
    BY <2>1, <2>3
<1> QED
  BY <1>1, KeysInvariant, PTL

(* Only the commit of a request notes a use, and it notes a later one. *)
LEMMA NotesStep ==
    ASSUME KeysInv, [KeysNext]_keyVars, NEW k \in Key,
           key[k] # None, key'[k] # None, key[k].last_used # None
    PROVE  key'[k].last_used # None /\ key'[k].last_used >= key[k].last_used
<1>1. key[k].last_used \in Nat /\ key \in [Key -> KeyRow \cup {None}]
  BY DEF KeysInv, KeysTypeOK, KeyRow
<1>2. SUFFICES \/ key'[k].last_used = key[k].last_used
               \/ key'[k].last_used \in Nat /\ key'[k].last_used >= key[k].last_used
  BY <1>1, KeysAssumption
<1>3. ASSUME NEW r \in Client, commit_request(r)
      PROVE  \/ key'[k].last_used = key[k].last_used
             \/ key'[k].last_used \in Nat /\ key'[k].last_used >= key[k].last_used
  <2>1. /\ client[r].rotates => key[FirstFree] = None
        /\ ~(client[r].rotates /\ k = FirstFree) =>
             key'[k].last_used = IF k = client[r].key /\ client[r].uses THEN client[r].now
                                                                      ELSE key[k].last_used
    BY <1>3, CommitRows
  <2>2. key'[k].last_used = IF k = client[r].key /\ client[r].uses THEN client[r].now
                                                                 ELSE key[k].last_used
    BY <2>1
  <2>3. client[r].uses /\ k = client[r].key => key[k].last_used <= client[r].now
    BY DEF KeysInv, NotesForward
  <2>4. client[r].now \in Nat
    BY DEF KeysInv, KeysTypeOK, ClientRow
  <2> QED
    BY <1>1, <2>2, <2>3, <2>4
<1>4. ASSUME NEW j \in Key, revoke_api_token(j) PROVE key'[k].last_used = key[k].last_used
  BY <1>1, <1>4 DEF revoke_api_token, KeyRow
<1>5. ASSUME NEW j \in Key, delete_api_token(j) PROVE key'[k].last_used = key[k].last_used
  BY <1>1, <1>5 DEF delete_api_token, KeyRow
<1>6. CASE issue_api_token(Lifetime)
  BY <1>1, <1>6, FirstFreeIsFree DEF issue_api_token
<1>7. CASE UNCHANGED key
  BY <1>7
<1>8. \/ \E r \in Client : commit_request(r)
      \/ \E j \in Key : revoke_api_token(j) \/ delete_api_token(j)
      \/ issue_api_token(Lifetime)
      \/ UNCHANGED key
  BY DEF KeysNext, inspect_api_token, authenticate, rotate_own_key, roll_back,
     refuse_api_token, clock_ticks, keyVars
<1> QED
  BY <1>3, <1>4, <1>5, <1>6, <1>7, <1>8

(* When a key was last used never moves back: mark_token_last_used.          *)
THEOREM LastUsedForward == KeysSpec => LastUsedNeverMovesBack
<1>1. KeysInv /\ [KeysNext]_keyVars =>
        [\A k \in Key :
           (key[k] # None /\ key'[k] # None /\ key[k].last_used # None) =>
              key'[k].last_used # None /\ key'[k].last_used >= key[k].last_used]_keyVars
  BY NotesStep
<1> QED
  BY <1>1, KeysInvariant, PTL DEF KeysSpec, LastUsedNeverMovesBack

-----------------------------------------------------------------------------
(* Roles. *)
AssignmentRow == [expires : Nat, revoked : BOOLEAN]
GrantRow == [of : Assignment \cup {None}, capability : Capability, scope : Project \cup {None},
             expires : Nat, revoked : BOOLEAN]
Assigning == [step : {"idle", "looked", "compared"}, found : Assignment \cup {None},
              loaded : Nat, expires : Nat, now : Nat, missing : SUBSET RoleCapabilities]

RolesTypeOK ==
    /\ assignment \in [Assignment -> AssignmentRow \cup {None}]
    /\ grant \in [Grant -> GrantRow \cup {None}]
    /\ assigning \in [Assigner -> Assigning]
    /\ time \in Nat
    /\ overtaken \subseteq Looked /\ stray \subseteq Grant

Held(a) == assignment[a] # None /\ ~assignment[a].revoked
Gives(g, a) == grant[g] # None /\ ~grant[g].revoked /\ grant[g].of = a

(* The grants of a role are of its capabilities, and limited to no project. *)
GrantsOfRoles ==
    \A g \in Grant : grant[g] # None /\ grant[g].of # None =>
        /\ grant[g].capability \in RoleCapabilities /\ grant[g].scope = None
        /\ assignment[grant[g].of] # None

(* A grant of a role that counts lives as long as the assignment. *)
GrantsLiveAlong ==
    \A g \in Grant \ stray : \A a \in Assignment : Gives(g, a) =>
        Held(a) /\ grant[g].expires = assignment[a].expires

(* Only what was written behind another request's back is stray. *)
StrayAreDoubled ==
    \A g \in stray : grant[g] # None /\ grant[g].of \in doubled

(* An assignment gives what its role has. *)
Complete(a, capabilities) ==
    \A c \in capabilities : \E g \in Grant : Gives(g, a) /\ grant[g].capability = c
HeldAreComplete ==
    \A a \in Assignment \ (picked \cup doubled) : Held(a) => Complete(a, RoleCapabilities)

(* What a request has read still holds, unless it was overtaken. *)
ReadHolds(w, a) ==
    /\ Held(a) /\ assignment[a].expires = assigning[w].loaded
    /\ assigning[w].step = "compared" =>
         Complete(a, RoleCapabilities \ assigning[w].missing)
ReadsHold ==
    \A w \in Looked \ overtaken : \A a \in Assignment :
        assigning[w].found = a => ReadHolds(w, a)

FoundIsThere ==
    \A w \in Assigner : assigning[w].found # None => assignment[assigning[w].found] # None
ComparedFound ==
    \A w \in Assigner : assigning[w].step = "compared" =>
        assigning[w].found # None /\ assigning[w].loaded = assigning[w].expires

RolesInv ==
    /\ RolesTypeOK /\ GrantsOfRoles /\ GrantsLiveAlong /\ StrayAreDoubled
    /\ HeldAreComplete /\ ReadsHold /\ FoundIsThere /\ ComparedFound

LEMMA FirstIsFirst ==
    ASSUME NEW ids, ids \subseteq Nat, ids # {}
    PROVE  First(ids) \in ids
<1>1. \E i \in ids : \A k \in ids : i <= k
  BY LeastNat
<1> QED
  BY <1>1 DEF First

LEMMA RowsAreSome ==
    /\ \A b \in AssignmentRow : b # None
    /\ \A b \in GrantRow : b # None
    /\ None \notin Assignment
BY RolesAssumption DEF AssignmentRow, GrantRow

(* after has the rows of before, and a new grant of a for each capability. *)
Adds(before, after, a, capabilities, t) ==
    /\ after \in [Grant -> GrantRow \cup {None}]
    /\ \A i \in Grant : before[i] # None => after[i] = before[i]
    /\ \A i \in Grant : before[i] = None /\ after[i] # None =>
         \E c \in capabilities : after[i] = NewGrant(a, c, None, t)
    /\ \A c \in capabilities : \E i \in Grant :
         before[i] = None /\ after[i] = NewGrant(a, c, None, t)

(* Each capability gets a row of its own. *)
LEMMA GrantsAreAdded ==
    ASSUME NEW rows \in [Grant -> GrantRow \cup {None}], NEW a \in Assignment,
           NEW capabilities, capabilities \subseteq RoleCapabilities, NEW t \in Nat,
           ExistsInjection(capabilities, Unused(rows))
    PROVE  Adds(rows, WithGrants(rows, a, capabilities, t), a, capabilities, t)
<1> DEFINE place == CHOOSE f \in Injection(capabilities, Unused(rows)) : TRUE
           for(i) == {c \in capabilities : place[c] = i}
           chosen(i) == CHOOSE c \in for(i) : TRUE
           after == WithGrants(rows, a, capabilities, t)
<1>1. /\ place \in [capabilities -> Unused(rows)]
      /\ \A c, d \in capabilities : place[c] = place[d] => c = d
  BY DEF ExistsInjection, Injection, IsInjective
<1>2. after = [i \in Grant |-> IF for(i) = {} THEN rows[i] ELSE NewGrant(a, chosen(i), None, t)]
  BY DEF WithGrants
<1>3. Unused(rows) = {i \in Grant : rows[i] = None}
  BY DEF Unused
<1> HIDE DEF place, after
<1>4. \A i : for(i) # {} => chosen(i) \in capabilities /\ i \in Grant /\ rows[i] = None
  BY <1>1, <1>3
<1>5. \A c \in capabilities : for(place[c]) = {c}
  BY <1>1
<1>6. \A c \in capabilities : chosen(place[c]) = c /\ place[c] \in Grant /\ for(place[c]) # {}
  BY <1>1, <1>3, <1>5
<1>7. \A c \in capabilities : NewGrant(a, c, None, t) \in GrantRow
  BY RolesAssumption DEF NewGrant, GrantRow
<1> HIDE DEF for, chosen
<1>8. after \in [Grant -> GrantRow \cup {None}]
  BY <1>2, <1>4, <1>7
<1>9. \A i \in Grant : rows[i] # None => after[i] = rows[i]
  BY <1>2, <1>4
<1>10. \A i \in Grant : rows[i] = None /\ after[i] # None =>
          \E c \in capabilities : after[i] = NewGrant(a, c, None, t)
  BY <1>2, <1>4
<1>11. \A c \in capabilities : \E i \in Grant :
          rows[i] = None /\ after[i] = NewGrant(a, c, None, t)
  BY <1>2, <1>4, <1>6
<1> QED
  BY <1>8, <1>9, <1>10, <1>11 DEF Adds, after

LEMMA RolesInitInv == RolesInit => RolesInv
<1> SUFFICES ASSUME RolesInit PROVE RolesInv
  OBVIOUS
<1>1. NotAssigning \in Assigning /\ NotAssigning.step = "idle" /\ NotAssigning.found = None
  BY DEF NotAssigning, Assigning
<1>2. \A w \in Assigner : assigning[w] = NotAssigning
  BY DEF RolesInit
<1>3. Looked = {}
  BY <1>1, <1>2 DEF Looked
<1>4. RolesTypeOK
  BY <1>1 DEF RolesInit, RolesTypeOK
<1> QED
  BY <1>1, <1>2, <1>3, <1>4 DEF RolesInv, RolesInit, GrantsOfRoles, GrantsLiveAlong, Gives,
     StrayAreDoubled, HeldAreComplete, Held, ReadsHold, FoundIsThere, ComparedFound

(* Giving and revoking a grant on its own. *)
LEMMA GrantInv ==
    ASSUME RolesInv,
           \/ \E c \in Capability, s \in Project \cup {None}, t \in Expiry : grant_capability(c, s, t)
           \/ \E g \in Grant : revoke_capability_grant(g)
    PROVE  RolesInv'
<1>0. grant \in [Grant -> GrantRow \cup {None}]
  BY DEF RolesInv, RolesTypeOK
<1>1. ASSUME NEW c \in Capability, NEW s \in Project \cup {None}, NEW t \in Expiry,
             grant_capability(c, s, t)
      PROVE  RolesInv'
  <2> DEFINE g0 == First(Unused(grant))
             n == NewGrant(None, c, s, t)
  <2>1. g0 \in Grant /\ grant[g0] = None
    <3>1. Unused(grant) \subseteq Nat /\ Unused(grant) # {}
      BY <1>0, <1>1, RolesAssumption DEF grant_capability, Unused
    <3> QED
      BY <1>0, <3>1, FirstIsFirst DEF Unused
  <2>2. n \in GrantRow /\ n.of = None
    BY RolesAssumption DEF NewGrant, GrantRow
  <2>3. /\ grant' = [grant EXCEPT ![g0] = n]
        /\ UNCHANGED <<assignment, assigning, time, overtaken, stray, doubled, picked>>
    BY <1>1 DEF grant_capability
  <2> HIDE DEF g0, n
  <2>4. /\ grant' \in [Grant -> GrantRow \cup {None}]
        /\ grant'[g0] = n
        /\ \A g \in Grant \ {g0} : grant'[g] = grant[g]
    BY <1>0, <2>1, <2>2, <2>3
  <2>5. Looked' = Looked /\ \A a : Held(a)' = Held(a)
    BY <2>3 DEF Looked, Held
  <2>6. \A g \in Grant : \A a \in Assignment : Gives(g, a)' = Gives(g, a)
    BY <2>1, <2>2, <2>4, RowsAreSome DEF Gives
  <2>7. RolesTypeOK' /\ FoundIsThere' /\ ComparedFound'
    BY <2>3, <2>4, <2>5 DEF RolesInv, RolesTypeOK, FoundIsThere, ComparedFound
  <2>8. GrantsOfRoles' /\ StrayAreDoubled'
    BY <2>1, <2>2, <2>3, <2>4 DEF RolesInv, RolesTypeOK, GrantsOfRoles, StrayAreDoubled
  <2>9. GrantsLiveAlong'
    BY <2>1, <2>3, <2>4, <2>5, <2>6 DEF RolesInv, GrantsLiveAlong, Gives
  <2>10. \A a \in Assignment : \A m : Complete(a, m) => Complete(a, m)'
    BY <2>1, <2>4, <2>6 DEF Complete, Gives
  <2>11. HeldAreComplete' /\ ReadsHold'
    BY <2>3, <2>5, <2>10 DEF RolesInv, HeldAreComplete, ReadsHold, ReadHolds
  <2> QED
    BY <2>7, <2>8, <2>9, <2>11 DEF RolesInv
<1>2. ASSUME NEW h \in Grant, revoke_capability_grant(h)
      PROVE  RolesInv'
  <2>1. /\ grant[h] # None /\ grant[h] \in GrantRow
        /\ grant' = [grant EXCEPT ![h].revoked = TRUE]
        /\ picked' = picked \cup ({grant[h].of} \ {None})
        /\ overtaken' = overtaken \cup
             {w \in Looked : assigning[w].found # None /\ assigning[w].found = grant[h].of}
        /\ UNCHANGED <<assignment, assigning, time, stray, doubled>>
    BY <1>0, <1>2 DEF revoke_capability_grant
  <2>2. /\ grant' \in [Grant -> GrantRow \cup {None}]
        /\ grant'[h] \in GrantRow
        /\ grant'[h].of = grant[h].of /\ grant'[h].capability = grant[h].capability
        /\ grant'[h].scope = grant[h].scope
        /\ grant'[h].revoked
        /\ \A g \in Grant \ {h} : grant'[g] = grant[g]
    BY <1>0, <2>1 DEF GrantRow
  <2>3. Looked' = Looked /\ \A a : Held(a)' = Held(a)
    BY <2>1 DEF Looked, Held
  <2>4. \A g \in Grant : grant'[g] # None <=> grant[g] # None
    BY <2>1, <2>2, RowsAreSome
  <2>5. \A g \in Grant : \A a \in Assignment : Gives(g, a)' => Gives(g, a) /\ grant'[g] = grant[g]
    BY <2>2 DEF Gives
  <2>6. RolesTypeOK' /\ FoundIsThere' /\ ComparedFound'
    BY <2>1, <2>2, <2>3 DEF RolesInv, RolesTypeOK, FoundIsThere, ComparedFound
  <2>7. GrantsOfRoles' /\ StrayAreDoubled'
    BY <2>1, <2>2, <2>4 DEF RolesInv, RolesTypeOK, GrantsOfRoles, StrayAreDoubled
  <2>8. GrantsLiveAlong'
    BY <2>1, <2>3, <2>5 DEF RolesInv, GrantsLiveAlong
  <2>9. \A a \in Assignment : \A m : a # grant[h].of /\ Complete(a, m) => Complete(a, m)'
    BY <2>2 DEF Complete, Gives
  <2>10. \A a \in Assignment : a # None
    BY RowsAreSome
  <2>11. HeldAreComplete' /\ ReadsHold'
    BY <2>1, <2>3, <2>9, <2>10 DEF RolesInv, HeldAreComplete, ReadsHold, ReadHolds
  <2> QED
    BY <2>6, <2>7, <2>8, <2>11 DEF RolesInv
<1> QED
  BY <1>1, <1>2

(* The end of an assignment takes its grants along. *)
LEMMA RevokeRoleInv ==
    ASSUME RolesInv, NEW a \in Assignment, revoke_role_assignment(a)
    PROVE  RolesInv'
<1>0. /\ grant \in [Grant -> GrantRow \cup {None}]
      /\ assignment \in [Assignment -> AssignmentRow \cup {None}]
  BY DEF RolesInv, RolesTypeOK
<1>1. /\ assignment[a] \in AssignmentRow
      /\ assignment' = [assignment EXCEPT ![a].revoked = TRUE]
      /\ grant' = [g \in Grant |-> IF grant[g] # None /\ grant[g].of = a
                                   THEN [grant[g] EXCEPT !.revoked = TRUE] ELSE grant[g]]
      /\ overtaken' = overtaken \cup {w \in Looked : assigning[w].found = a}
      /\ UNCHANGED <<assigning, time, stray, doubled, picked>>
  BY <1>0 DEF revoke_role_assignment, revoke_grants, revoked_with
<1>2. /\ assignment' \in [Assignment -> AssignmentRow \cup {None}]
      /\ assignment'[a] \in AssignmentRow /\ assignment'[a].revoked
      /\ \A b \in Assignment \ {a} : assignment'[b] = assignment[b]
  BY <1>0, <1>1 DEF AssignmentRow
<1>3. \A g \in Grant :
        /\ grant[g] = None => grant'[g] = None
        /\ grant[g] # None => /\ grant'[g] \in GrantRow
                              /\ grant'[g].of = grant[g].of
                              /\ grant'[g].capability = grant[g].capability
                              /\ grant'[g].scope = grant[g].scope
                              /\ grant[g].of = a => grant'[g].revoked
                              /\ grant[g].of # a => grant'[g] = grant[g]
  <2> SUFFICES ASSUME NEW g \in Grant, grant[g] # None, grant[g] \in GrantRow
               PROVE  /\ grant'[g] \in GrantRow
                      /\ grant'[g].of = grant[g].of
                      /\ grant'[g].capability = grant[g].capability
                      /\ grant'[g].scope = grant[g].scope
                      /\ grant[g].of = a => grant'[g].revoked
                      /\ grant[g].of # a => grant'[g] = grant[g]
    BY <1>0, <1>1
  <2> QED
    BY <1>1 DEF GrantRow
<1>4. grant' \in [Grant -> GrantRow \cup {None}]
  BY <1>0, <1>1, <1>3
<1>5. \A g \in Grant : grant'[g] # None <=> grant[g] # None
  BY <1>0, <1>3, RowsAreSome
<1>6. /\ Looked' = Looked
      /\ \A b \in Assignment : assignment'[b] # None <=> assignment[b] # None
      /\ \A b \in Assignment : Held(b)' <=> Held(b) /\ b # a
  BY <1>1, <1>2, RowsAreSome DEF Looked, Held
<1>7. \A g \in Grant : \A b \in Assignment :
         Gives(g, b)' <=> Gives(g, b) /\ b # a
  BY <1>3, <1>5 DEF Gives
<1>8. RolesTypeOK' /\ ComparedFound'
  BY <1>1, <1>2, <1>4, <1>6 DEF RolesInv, RolesTypeOK, ComparedFound
<1>9. FoundIsThere'
  BY <1>1, <1>2, <1>6, RowsAreSome DEF RolesInv, RolesTypeOK, FoundIsThere, Assigning
<1>10. GrantsOfRoles'
  <2>1. \A g \in Grant : grant[g] # None => grant[g].of \in Assignment \cup {None}
    BY <1>0 DEF GrantRow
  <2> QED
    BY <1>3, <1>5, <1>6, <2>1 DEF RolesInv, GrantsOfRoles
<1>11. StrayAreDoubled'
  BY <1>1, <1>3, <1>5 DEF RolesInv, RolesTypeOK, StrayAreDoubled
<1>12. GrantsLiveAlong'
  BY <1>1, <1>2, <1>3, <1>6, <1>7 DEF RolesInv, GrantsLiveAlong, Gives
<1>13. \A b \in Assignment \ {a} : \A m : Complete(b, m) => Complete(b, m)'
  BY <1>3, <1>7 DEF Complete, Gives
<1>14. HeldAreComplete'
  BY <1>1, <1>6, <1>13 DEF RolesInv, HeldAreComplete
<1>15. ReadsHold'
  <2> SUFFICES ASSUME NEW w \in Looked' \ overtaken', NEW b \in Assignment,
                      assigning'[w].found = b
               PROVE  ReadHolds(w, b)'
    BY DEF ReadsHold
  <2>1. w \in Looked \ overtaken /\ assigning'[w] = assigning[w] /\ b # a
    BY <1>1, <1>6
  <2>2. ReadHolds(w, b)
    BY <2>1 DEF RolesInv, ReadsHold
  <2> QED
    BY <1>1, <1>2, <1>6, <1>13, <2>1, <2>2 DEF ReadHolds
<1> QED
  BY <1>8, <1>9, <1>10, <1>11, <1>12, <1>14, <1>15 DEF RolesInv

(* Request w has read n, or has ended; the rows are what they were. *)
LEMMA AssigningInv ==
    ASSUME RolesInv, NEW w \in Assigner, NEW n \in Assigning,
           assigning' = [assigning EXCEPT ![w] = n],
           UNCHANGED <<assignment, grant, time, stray, doubled, picked>>,
           overtaken' \subseteq overtaken, overtaken \subseteq overtaken' \cup {w},
           n.step = "idle" => w \notin overtaken',
           n.found # None => assignment[n.found] # None,
           n.step = "compared" => n.found # None /\ n.loaded = n.expires,
           n.step # "idle" /\ w \notin overtaken' =>
             \A a \in Assignment : n.found = a =>
               /\ Held(a) /\ assignment[a].expires = n.loaded
               /\ n.step = "compared" => Complete(a, RoleCapabilities \ n.missing)
    PROVE  RolesInv'
<1>1. /\ assigning' \in [Assigner -> Assigning]
      /\ assigning'[w] = n
      /\ \A v \in Assigner \ {w} : assigning'[v] = assigning[v]
  BY DEF RolesInv, RolesTypeOK
<1>2. \A v \in Assigner \ {w} : v \in Looked' <=> v \in Looked
  BY <1>1 DEF Looked
<1>3. /\ \A a : Held(a)' = Held(a)
      /\ \A g, a : Gives(g, a)' = Gives(g, a)
      /\ \A a, m : Complete(a, m)' = Complete(a, m)
  BY DEF Held, Gives, Complete
<1>4. RolesTypeOK'
  <2>1. overtaken' \subseteq Looked'
    BY <1>1, <1>2 DEF RolesInv, RolesTypeOK, Looked
  <2> QED
    BY <1>1, <2>1 DEF RolesInv, RolesTypeOK
<1>5. GrantsOfRoles' /\ GrantsLiveAlong' /\ StrayAreDoubled'
  BY <1>3 DEF RolesInv, GrantsOfRoles, GrantsLiveAlong, StrayAreDoubled
<1>6. HeldAreComplete'
  BY <1>3 DEF RolesInv, HeldAreComplete
<1>7. ReadsHold'
  <2> SUFFICES ASSUME NEW v \in Looked' \ overtaken', NEW a \in Assignment,
                      assigning'[v].found = a
               PROVE  /\ Held(a) /\ assignment[a].expires = assigning'[v].loaded
                      /\ assigning'[v].step = "compared" =>
                           Complete(a, RoleCapabilities \ assigning'[v].missing)
    BY <1>3 DEF ReadsHold, ReadHolds
  <2>1. CASE v = w
    BY <1>1, <2>1 DEF Looked
  <2>2. CASE v # w
    BY <1>1, <1>2, <2>2 DEF RolesInv, ReadsHold, ReadHolds, Looked
  <2> QED
    BY <2>1, <2>2
<1>8. FoundIsThere' /\ ComparedFound'
  BY <1>1 DEF RolesInv, FoundIsThere, ComparedFound
<1> QED
  BY <1>4, <1>5, <1>6, <1>7, <1>8 DEF RolesInv

(* Looking, comparing and giving up write nothing. *)
LEMMA LookInv ==
    ASSUME RolesInv, NEW w \in Assigner,
           \/ \E t \in Expiry : look_for_assignment(w, t)
           \/ compare_grants(w) \/ end_assigning(w)
    PROVE  RolesInv'
<1>0. /\ assigning \in [Assigner -> Assigning] /\ assigning[w] \in Assigning
      /\ assignment \in [Assignment -> AssignmentRow \cup {None}]
      /\ grant \in [Grant -> GrantRow \cup {None}]
      /\ overtaken \subseteq Looked /\ time \in Nat
  BY DEF RolesInv, RolesTypeOK
<1>1. ASSUME NEW t \in Expiry, look_for_assignment(w, t) PROVE RolesInv'
  <2> DEFINE found == get_active_assignment(time)
             loaded == IF found = None THEN 0 ELSE assignment[found].expires
             n == [step |-> "looked", found |-> found, expires |-> t, loaded |-> loaded,
                   now |-> time, missing |-> {}]
  <2>1. found = None \/ (found \in Assignment /\ Held(found))
    <3>1. ActiveAssignments(time) \subseteq Nat
      BY RolesAssumption DEF ActiveAssignments
    <3>2. ActiveAssignments(time) # {} => First(ActiveAssignments(time)) \in ActiveAssignments(time)
      BY <3>1, FirstIsFirst
    <3> QED
      BY <3>2 DEF get_active_assignment, ActiveAssignments, Active, Held
  <2>2. /\ assigning' = [assigning EXCEPT ![w] = n]
        /\ UNCHANGED <<assignment, grant, time, overtaken, stray, doubled, picked>>
        /\ w \notin overtaken
    BY <1>0, <1>1 DEF look_for_assignment, Looked
  <2> HIDE DEF found
  <2>3. loaded \in Nat
    BY <1>0, <2>1 DEF AssignmentRow, Held
  <2>4. n \in Assigning
    BY <1>0, <2>1, <2>3, RolesAssumption DEF Assigning
  <2>5. n.step = "looked" /\ n.found = found /\ n.loaded = loaded
    OBVIOUS
  <2>6. found # None => assignment[found] # None /\ loaded = assignment[found].expires
    BY <2>1 DEF Held
  <2> HIDE DEF n, loaded
  <2> QED
    BY <2>1, <2>2, <2>4, <2>5, <2>6, AssigningInv, RowsAreSome
<1>2. CASE compare_grants(w)
  <2> DEFINE a == assigning[w].found
             m == missing_capabilities(grant, a, assigning[w].now)
             n == [assigning[w] EXCEPT !.step = "compared", !.missing = m]
  <2>1. /\ assigning[w].step = "looked" /\ a # None
        /\ assigning[w].loaded = assigning[w].expires
        /\ assigning' = [assigning EXCEPT ![w].step = "compared", ![w].missing = m]
        /\ UNCHANGED <<assignment, grant, time, overtaken, stray, doubled, picked>>
    BY <1>2 DEF compare_grants
  <2>2. m \subseteq RoleCapabilities
    BY DEF missing_capabilities
  <2>3. Complete(a, RoleCapabilities \ m)
    BY DEF missing_capabilities, Active, Complete, Gives
  <2> HIDE DEF m
  <2>4. n \in Assigning /\ assigning' = [assigning EXCEPT ![w] = n]
    BY <1>0, <2>1, <2>2 DEF Assigning
  <2>5. /\ n.step = "compared" /\ n.missing = m /\ n.found = a
        /\ n.loaded = assigning[w].loaded /\ n.expires = assigning[w].expires
    BY <1>0 DEF Assigning
  <2>6. a \in Assignment /\ assignment[a] # None
    BY <1>0, <2>1 DEF Assigning, RolesInv, FoundIsThere
  <2>7. w \notin overtaken => Held(a) /\ assignment[a].expires = assigning[w].loaded
    BY <2>1, <2>6 DEF RolesInv, ReadsHold, ReadHolds, Looked
  <2> HIDE DEF n
  <2>8. \A b \in Assignment : n.found = b /\ w \notin overtaken =>
           /\ Held(b) /\ assignment[b].expires = n.loaded
           /\ Complete(b, RoleCapabilities \ n.missing)
    BY <2>3, <2>5, <2>7
  <2>9. n.step # "idle" /\ n.found # None /\ assignment[n.found] # None /\ n.loaded = n.expires
    BY <2>1, <2>5, <2>6
  <2> HIDE DEF a
  <2> QED
    BY <2>1, <2>4, <2>8, <2>9, AssigningInv, ZenonT(30)
<1>3. CASE end_assigning(w)
  <2>1. NotAssigning \in Assigning /\ NotAssigning.step = "idle" /\ NotAssigning.found = None
    BY DEF NotAssigning, Assigning
  <2>2. /\ assigning' = [assigning EXCEPT ![w] = NotAssigning]
        /\ overtaken' = overtaken \ {w}
        /\ UNCHANGED <<assignment, grant, time, stray, doubled, picked>>
    BY <1>3 DEF end_assigning, Finish
  <2> QED
    BY <2>1, <2>2, AssigningInv
<1> QED
  BY <1>1, <1>2, <1>3

(* What the grants are after some were added. *)
LEMMA AddsGives ==
    ASSUME NEW before, NEW a \in Assignment, NEW m, m \subseteq RoleCapabilities, NEW t \in Nat,
           Adds(before, grant', a, m, t)
    PROVE  /\ grant' \in [Grant -> GrantRow \cup {None}]
           /\ \A i \in Grant : before[i] # None => grant'[i] = before[i]
           /\ \A i \in Grant : before[i] = None /\ grant'[i] # None =>
                /\ grant'[i].of = a /\ grant'[i].capability \in m /\ grant'[i].scope = None
                /\ grant'[i].expires = t
           /\ Complete(a, m)'
<1>1. \A c : /\ NewGrant(a, c, None, t).of = a /\ NewGrant(a, c, None, t).capability = c
             /\ NewGrant(a, c, None, t).scope = None /\ NewGrant(a, c, None, t).expires = t
             /\ ~NewGrant(a, c, None, t).revoked
  BY DEF NewGrant
<1>2. \A c \in m : NewGrant(a, c, None, t) # None
  <2>1. \A c \in m : NewGrant(a, c, None, t) \in GrantRow
    BY RolesAssumption DEF NewGrant, GrantRow
  <2> QED
    BY <2>1, RowsAreSome
<1>3. Complete(a, m)'
  BY <1>1, <1>2 DEF Adds, Complete, Gives
<1> QED
  BY <1>1, <1>3 DEF Adds

(* The first unused row becomes the assignment, with all its grants. *)
LEMMA InsertAssignmentInv ==
    ASSUME RolesInv, NEW w \in Assigner, insert_assignment(w)
    PROVE  RolesInv'
<1>a. PICK a, t : a = First(Unused(assignment)) /\ t = assigning[w].expires
  OBVIOUS
<1> DEFINE n == [expires |-> t, revoked |-> FALSE]
<1>0. /\ assigning \in [Assigner -> Assigning] /\ assigning[w] \in Assigning
      /\ assignment \in [Assignment -> AssignmentRow \cup {None}]
      /\ grant \in [Grant -> GrantRow \cup {None}]
      /\ t \in Nat
  BY <1>a DEF RolesInv, RolesTypeOK, Assigning
<1>1. a \in Assignment /\ assignment[a] = None
  <2>1. Unused(assignment) \subseteq Nat /\ Unused(assignment) # {}
    BY <1>0, RolesAssumption DEF insert_assignment, Unused
  <2> QED
    BY <1>a, <1>0, <2>1, FirstIsFirst DEF Unused
<1>2. /\ assignment' = [assignment EXCEPT ![a] = n]
      /\ grant' = WithGrants(grant, a, RoleCapabilities, t)
      /\ ExistsInjection(RoleCapabilities, Unused(grant))
      /\ doubled' = IF w \in overtaken THEN doubled \cup {a} ELSE doubled
      /\ overtaken' = (overtaken \cup Looked) \ {w}
      /\ assigning' = [assigning EXCEPT ![w] = NotAssigning]
      /\ UNCHANGED <<time, stray, picked>>
  BY <1>a DEF insert_assignment, Room, Finish
<1>3. Adds(grant, grant', a, RoleCapabilities, t)
  BY <1>0, <1>1, <1>2, GrantsAreAdded
<1>4. /\ grant' \in [Grant -> GrantRow \cup {None}]
      /\ \A i \in Grant : grant[i] # None => grant'[i] = grant[i]
      /\ \A i \in Grant : grant[i] = None /\ grant'[i] # None =>
           /\ grant'[i].of = a /\ grant'[i].capability \in RoleCapabilities
           /\ grant'[i].scope = None /\ grant'[i].expires = t
      /\ Complete(a, RoleCapabilities)'
  BY <1>0, <1>1, <1>3, AddsGives
<1>5. n \in AssignmentRow /\ n # None /\ n.expires = t /\ ~n.revoked
  BY <1>0, RowsAreSome DEF AssignmentRow
<1> HIDE DEF n
<1>6. /\ assignment' \in [Assignment -> AssignmentRow \cup {None}]
      /\ assignment'[a] = n
      /\ \A b \in Assignment \ {a} : assignment'[b] = assignment[b]
  BY <1>0, <1>1, <1>2, <1>5
<1>7. NotAssigning \in Assigning /\ NotAssigning.step = "idle" /\ NotAssigning.found = None
  BY DEF NotAssigning, Assigning
<1>8. /\ assigning' \in [Assigner -> Assigning] /\ assigning'[w] = NotAssigning
      /\ \A v \in Assigner \ {w} : assigning'[v] = assigning[v]
      /\ Looked' = Looked \ {w}
  BY <1>0, <1>2, <1>7 DEF Looked
<1>9. RolesTypeOK'
  BY <1>2, <1>4, <1>6, <1>8 DEF RolesInv, RolesTypeOK
<1>10. GrantsOfRoles'
  <2> SUFFICES ASSUME NEW g \in Grant, grant'[g] # None, grant'[g].of # None
               PROVE  /\ grant'[g].capability \in RoleCapabilities /\ grant'[g].scope = None
                      /\ assignment'[grant'[g].of] # None
    BY DEF GrantsOfRoles
  <2>1. CASE grant[g] # None
    <3>1. grant'[g] = grant[g] /\ grant[g].of \in Assignment
      BY <1>0, <1>4, <2>1 DEF GrantRow
    <3> QED
      BY <1>1, <1>6, <2>1, <3>1 DEF RolesInv, GrantsOfRoles
  <2>2. CASE grant[g] = None
    BY <1>1, <1>4, <1>5, <1>6, <2>2
  <2> QED
    BY <2>1, <2>2
<1>11. StrayAreDoubled'
  BY <1>2, <1>4 DEF RolesInv, RolesTypeOK, StrayAreDoubled
<1>12. GrantsLiveAlong'
  <2> SUFFICES ASSUME NEW g \in Grant \ stray, NEW b \in Assignment, Gives(g, b)'
               PROVE  Held(b)' /\ grant'[g].expires = assignment'[b].expires
    BY <1>2 DEF GrantsLiveAlong
  <2>1. CASE grant[g] # None
    <3>1. Gives(g, b) /\ grant'[g] = grant[g]
      BY <1>4, <2>1 DEF Gives
    <3>2. Held(b) /\ grant[g].expires = assignment[b].expires
      BY <3>1 DEF RolesInv, GrantsLiveAlong
    <3> QED
      BY <1>1, <1>6, <3>1, <3>2 DEF Held
  <2>2. CASE grant[g] = None
    BY <1>1, <1>4, <1>5, <1>6, <2>2 DEF Gives, Held
  <2> QED
    BY <2>1, <2>2
<1>13. \A b \in Assignment : \A m : Complete(b, m) => Complete(b, m)'
  BY <1>4 DEF Complete, Gives
<1>14. HeldAreComplete'
  <2> SUFFICES ASSUME NEW b \in Assignment \ (picked \cup doubled'), Held(b)'
               PROVE  Complete(b, RoleCapabilities)'
    BY <1>2 DEF HeldAreComplete
  <2>1. CASE b = a
    BY <1>4, <2>1
  <2>2. CASE b # a
    BY <1>2, <1>6, <1>13, <2>2 DEF RolesInv, HeldAreComplete, Held
  <2> QED
    BY <2>1, <2>2
<1>15. Looked' \ overtaken' = {}
  BY <1>2, <1>8
<1>16. ReadsHold' /\ ComparedFound'
  BY <1>7, <1>8, <1>15 DEF RolesInv, ReadsHold, ComparedFound
<1>17. FoundIsThere'
  <2>1. \A v \in Assigner : assigning[v].found \in Assignment \cup {None}
    BY <1>0 DEF Assigning
  <2> QED
    BY <1>1, <1>5, <1>6, <1>7, <1>8, <2>1 DEF RolesInv, FoundIsThere
<1> QED
  BY <1>9, <1>10, <1>11, <1>12, <1>14, <1>16, <1>17 DEF RolesInv

(* The grants that were missing when they were compared are inserted. *)
LEMMA InsertMissingInv ==
    ASSUME RolesInv, NEW w \in Assigner, insert_missing(w)
    PROVE  RolesInv'
<1>a. PICK a, m, t : /\ a = assigning[w].found /\ m = assigning[w].missing
                     /\ t = assigning[w].loaded
  OBVIOUS
<1>0. /\ assigning \in [Assigner -> Assigning] /\ assigning[w] \in Assigning
      /\ grant \in [Grant -> GrantRow \cup {None}]
      /\ t \in Nat /\ m \subseteq RoleCapabilities
  BY <1>a DEF RolesInv, RolesTypeOK, Assigning
<1>1. assigning[w].step = "compared" /\ a \in Assignment /\ assignment[a] # None
  BY <1>a, <1>0 DEF insert_missing, RolesInv, ComparedFound, FoundIsThere, Assigning
<1>2. /\ grant' = WithGrants(grant, a, m, t)
      /\ ExistsInjection(m, Unused(grant))
      /\ stray' = IF w \in overtaken
                  THEN stray \cup {g \in Grant : grant[g] = None /\ grant'[g] # None} ELSE stray
      /\ doubled' = IF w \in overtaken THEN doubled \cup {a} ELSE doubled
      /\ picked' = picked \ {a}
      /\ overtaken' = overtaken \ {w}
      /\ assigning' = [assigning EXCEPT ![w] = NotAssigning]
      /\ UNCHANGED <<time, assignment>>
  BY <1>a DEF insert_missing, Room, Finish, Written
<1>3. w \notin overtaken => ReadHolds(w, a)
  BY <1>a, <1>1 DEF RolesInv, ReadsHold, Looked
<1>4. w \notin overtaken =>
         Held(a) /\ assignment[a].expires = t /\ Complete(a, RoleCapabilities \ m)
  BY <1>a, <1>1, <1>3 DEF ReadHolds
<1>5. Adds(grant, grant', a, m, t)
  BY <1>0, <1>1, <1>2, GrantsAreAdded
<1>6. /\ grant' \in [Grant -> GrantRow \cup {None}]
      /\ \A i \in Grant : grant[i] # None => grant'[i] = grant[i]
      /\ \A i \in Grant : grant[i] = None /\ grant'[i] # None =>
           /\ grant'[i].of = a /\ grant'[i].capability \in m
           /\ grant'[i].scope = None /\ grant'[i].expires = t
      /\ Complete(a, m)'
  BY <1>0, <1>1, <1>5, AddsGives
<1>7. NotAssigning \in Assigning /\ NotAssigning.step = "idle" /\ NotAssigning.found = None
  BY DEF NotAssigning, Assigning
<1>8. /\ assigning' \in [Assigner -> Assigning] /\ assigning'[w] = NotAssigning
      /\ \A v \in Assigner \ {w} : assigning'[v] = assigning[v]
      /\ Looked' = Looked \ {w}
      /\ \A b : Held(b)' = Held(b)
  BY <1>0, <1>2, <1>7 DEF Looked, Held
<1>9. RolesTypeOK'
  BY <1>2, <1>6, <1>8 DEF RolesInv, RolesTypeOK
<1>10. GrantsOfRoles'
  BY <1>0, <1>1, <1>2, <1>6 DEF RolesInv, GrantsOfRoles
<1>11. StrayAreDoubled'
  BY <1>2, <1>6 DEF RolesInv, RolesTypeOK, StrayAreDoubled
<1>12. GrantsLiveAlong'
  <2> SUFFICES ASSUME NEW g \in Grant \ stray', NEW b \in Assignment, Gives(g, b)'
               PROVE  Held(b) /\ grant'[g].expires = assignment[b].expires
    BY <1>2, <1>8 DEF GrantsLiveAlong
  <2>1. CASE grant[g] # None
    <3>1. Gives(g, b) /\ grant'[g] = grant[g] /\ g \notin stray
      BY <1>2, <1>6, <2>1 DEF Gives
    <3> QED
      BY <3>1 DEF RolesInv, GrantsLiveAlong
  <2>2. CASE grant[g] = None
    BY <1>2, <1>4, <1>6, <2>2 DEF Gives
  <2> QED
    BY <2>1, <2>2
<1>13. \A b \in Assignment : \A k : Complete(b, k) => Complete(b, k)'
  BY <1>6 DEF Complete, Gives
<1>14. HeldAreComplete'
  <2> SUFFICES ASSUME NEW b \in Assignment \ (picked' \cup doubled'), Held(b)'
               PROVE  Complete(b, RoleCapabilities)'
    BY DEF HeldAreComplete
  <2>1. CASE b = a
    <3>1. Complete(a, RoleCapabilities \ m)'
      BY <1>1, <1>2, <1>4, <1>13, <2>1
    <3> QED
      BY <1>6, <2>1, <3>1 DEF Complete
  <2>2. CASE b # a
    BY <1>2, <1>8, <1>13, <2>2 DEF RolesInv, HeldAreComplete
  <2> QED
    BY <2>1, <2>2
<1>15. ReadsHold'
  BY <1>2, <1>8, <1>13 DEF RolesInv, ReadsHold, ReadHolds
<1>16. FoundIsThere' /\ ComparedFound'
  BY <1>2, <1>7, <1>8 DEF RolesInv, FoundIsThere, ComparedFound
<1> QED
  BY <1>9, <1>10, <1>11, <1>12, <1>14, <1>15, <1>16 DEF RolesInv

(* Another expiry, for the assignment and what it gives, and what it lacks. *)
LEMMA ChangeExpiryInv ==
    ASSUME RolesInv, NEW w \in Assigner, change_expiry(w)
    PROVE  RolesInv'
<1>a. PICK a, t, timed, m :
         /\ a = assigning[w].found /\ t = assigning[w].expires
         /\ timed = retime_grants(a, t)
         /\ m = missing_capabilities(timed, a, assigning[w].now)
  OBVIOUS
<1>0. /\ assigning \in [Assigner -> Assigning] /\ assigning[w] \in Assigning
      /\ assignment \in [Assignment -> AssignmentRow \cup {None}]
      /\ grant \in [Grant -> GrantRow \cup {None}]
      /\ t \in Nat /\ m \subseteq RoleCapabilities
  <2>1. m \subseteq RoleCapabilities
    BY <1>a DEF missing_capabilities
  <2>2. assigning[w] \in Assigning
    BY DEF RolesInv, RolesTypeOK
  <2>3. t \in Nat
    BY <1>a, <2>2 DEF Assigning
  <2> QED
    BY <2>1, <2>2, <2>3 DEF RolesInv, RolesTypeOK
<1>1. assigning[w].step = "looked" /\ a \in Assignment /\ assignment[a] \in AssignmentRow
  BY <1>a, <1>0 DEF change_expiry, RolesInv, FoundIsThere, Assigning
<1>2. /\ grant' = WithGrants(timed, a, m, t)
      /\ ExistsInjection(m, Unused(grant))
      /\ assignment' = [assignment EXCEPT ![a].expires = t]
      /\ stray' = IF w \in overtaken
                  THEN stray \cup {g \in Grant : grant[g] = None /\ grant'[g] # None} ELSE stray
      /\ doubled' = IF w \in overtaken THEN doubled \cup {a} ELSE doubled
      /\ picked' = picked \ {a}
      /\ overtaken' = (overtaken \cup {v \in Looked : assigning[v].found \in {a, None}}) \ {w}
      /\ assigning' = [assigning EXCEPT ![w] = NotAssigning]
      /\ UNCHANGED time
  BY <1>a DEF change_expiry, Room, Finish, Written
<1>3. timed = [g \in Grant |-> IF grant[g] # None /\ grant[g].of = a /\ ~grant[g].revoked
                               THEN [grant[g] EXCEPT !.expires = t] ELSE grant[g]]
  BY <1>a DEF retime_grants, retimed
<1>4. \A g \in Grant :
        /\ grant[g] = None => timed[g] = None
        /\ grant[g] # None => /\ timed[g] \in GrantRow /\ timed[g] # None
                              /\ timed[g].of = grant[g].of
                              /\ timed[g].capability = grant[g].capability
                              /\ timed[g].scope = grant[g].scope
                              /\ timed[g].revoked = grant[g].revoked
                              /\ Gives(g, a) => timed[g].expires = t
                              /\ ~Gives(g, a) => timed[g] = grant[g]
  <2> SUFFICES ASSUME NEW g \in Grant, grant[g] # None, grant[g] \in GrantRow
               PROVE  /\ timed[g] \in GrantRow
                      /\ timed[g].of = grant[g].of
                      /\ timed[g].capability = grant[g].capability
                      /\ timed[g].scope = grant[g].scope
                      /\ timed[g].revoked = grant[g].revoked
                      /\ Gives(g, a) => timed[g].expires = t
                      /\ ~Gives(g, a) => timed[g] = grant[g]
    BY <1>0, <1>3, RowsAreSome
  <2>1. CASE Gives(g, a)
    <3>1. timed[g] = [grant[g] EXCEPT !.expires = t]
      BY <1>3, <2>1 DEF Gives
    <3> QED
      BY <1>0, <2>1, <3>1 DEF GrantRow
  <2>2. CASE ~Gives(g, a)
    BY <1>3, <2>2 DEF Gives
  <2> QED
    BY <2>1, <2>2
<1>5. timed \in [Grant -> GrantRow \cup {None}]
  BY <1>0, <1>3, <1>4
<1>6. Unused(timed) = Unused(grant)
  BY <1>0, <1>4, <1>5 DEF Unused
<1>7. Adds(timed, grant', a, m, t)
  BY <1>0, <1>1, <1>2, <1>5, <1>6, GrantsAreAdded
<1>8. /\ grant' \in [Grant -> GrantRow \cup {None}]
      /\ \A i \in Grant : timed[i] # None => grant'[i] = timed[i]
      /\ \A i \in Grant : timed[i] = None /\ grant'[i] # None =>
           /\ grant'[i].of = a /\ grant'[i].capability \in m
           /\ grant'[i].scope = None /\ grant'[i].expires = t
      /\ Complete(a, m)'
  <2>1. a \in Assignment /\ m \subseteq RoleCapabilities /\ t \in Nat
    BY <1>0, <1>1
  <2>2. Complete(a, m)'
    BY <1>7, <2>1, AddsGives
  <2> QED
    BY <1>7, <2>1, <2>2 DEF Adds, NewGrant
<1>9. \A g \in Grant :
        /\ grant[g] # None => /\ grant'[g] # None
                              /\ grant'[g].of = grant[g].of
                              /\ grant'[g].capability = grant[g].capability
                              /\ grant'[g].scope = grant[g].scope
                              /\ grant'[g].revoked = grant[g].revoked
                              /\ Gives(g, a) => grant'[g].expires = t
                              /\ ~Gives(g, a) => grant'[g].expires = grant[g].expires
        /\ grant[g] = None /\ grant'[g] # None =>
             /\ grant'[g].of = a /\ grant'[g].capability \in m
             /\ grant'[g].scope = None /\ grant'[g].expires = t
  BY <1>4, <1>8
<1>10. /\ assignment' \in [Assignment -> AssignmentRow \cup {None}]
       /\ assignment'[a] \in AssignmentRow /\ assignment'[a].expires = t
       /\ assignment'[a].revoked = assignment[a].revoked
       /\ \A b \in Assignment \ {a} : assignment'[b] = assignment[b]
  BY <1>0, <1>1, <1>2 DEF AssignmentRow
<1>11. /\ \A b \in Assignment : Held(b)' <=> Held(b)
       /\ \A b \in Assignment : assignment[b] # None => assignment'[b] # None
  BY <1>1, <1>10, RowsAreSome DEF Held
<1>12. NotAssigning \in Assigning /\ NotAssigning.step = "idle" /\ NotAssigning.found = None
  BY DEF NotAssigning, Assigning
<1>13. /\ assigning' \in [Assigner -> Assigning] /\ assigning'[w] = NotAssigning
       /\ \A v \in Assigner \ {w} : assigning'[v] = assigning[v]
       /\ Looked' = Looked \ {w}
  BY <1>0, <1>2, <1>12 DEF Looked
<1>14. RolesTypeOK'
  BY <1>2, <1>8, <1>10, <1>13 DEF RolesInv, RolesTypeOK
<1>15. GrantsOfRoles'
  <2> SUFFICES ASSUME NEW g \in Grant, grant'[g] # None, grant'[g].of # None
               PROVE  /\ grant'[g].capability \in RoleCapabilities /\ grant'[g].scope = None
                      /\ assignment'[grant'[g].of] # None
    BY DEF GrantsOfRoles
  <2>1. CASE grant[g] # None
    <3>1. grant[g].of \in Assignment
      BY <1>0, <1>9, <2>1 DEF GrantRow
    <3> QED
      BY <1>9, <1>11, <2>1, <3>1 DEF RolesInv, GrantsOfRoles
  <2>2. CASE grant[g] = None
    BY <1>0, <1>1, <1>9, <1>10, <2>2, RowsAreSome
  <2> QED
    BY <2>1, <2>2
<1>16. StrayAreDoubled'
  BY <1>2, <1>9 DEF RolesInv, RolesTypeOK, StrayAreDoubled
<1>17. w \notin overtaken => Held(a)
  BY <1>a, <1>1 DEF RolesInv, ReadsHold, ReadHolds, Looked
<1>18. GrantsLiveAlong'
  <2> SUFFICES ASSUME NEW g \in Grant \ stray', NEW b \in Assignment, Gives(g, b)'
               PROVE  Held(b) /\ grant'[g].expires = assignment'[b].expires
    BY <1>2, <1>11 DEF GrantsLiveAlong
  <2>1. CASE grant[g] # None
    <3>1. Gives(g, b) /\ g \notin stray
      BY <1>2, <1>9, <2>1 DEF Gives
    <3>2. Held(b) /\ grant[g].expires = assignment[b].expires
      BY <3>1 DEF RolesInv, GrantsLiveAlong
    <3> QED
      BY <1>9, <1>10, <3>1, <3>2 DEF Gives
  <2>2. CASE grant[g] = None
    BY <1>2, <1>9, <1>10, <1>17, <2>2 DEF Gives
  <2> QED
    BY <2>1, <2>2
<1>19. \A b \in Assignment : \A k : Complete(b, k) => Complete(b, k)'
  BY <1>9 DEF Complete, Gives
<1>20. HeldAreComplete'
  <2> SUFFICES ASSUME NEW b \in Assignment \ (picked' \cup doubled'), Held(b)'
               PROVE  Complete(b, RoleCapabilities)'
    BY DEF HeldAreComplete
  <2>1. CASE b = a
    <3>1. Complete(a, RoleCapabilities \ m)
      <4> SUFFICES ASSUME NEW c \in RoleCapabilities \ m
                   PROVE  \E g \in Grant : Gives(g, a) /\ grant[g].capability = c
        BY DEF Complete
      <4>1. PICK g \in Grant : Active(timed[g], assigning[w].now) /\ timed[g].of = a
                               /\ timed[g].capability = c
        BY <1>a DEF missing_capabilities
      <4> QED
        BY <1>4, <4>1 DEF Active, Gives
    <3>2. Complete(a, RoleCapabilities \ m)'
      BY <1>1, <1>19, <3>1
    <3> QED
      BY <1>8, <2>1, <3>2 DEF Complete
  <2>2. CASE b # a
    BY <1>2, <1>11, <1>19, <2>2 DEF RolesInv, HeldAreComplete
  <2> QED
    BY <2>1, <2>2
<1>21. ReadsHold'
  <2> SUFFICES ASSUME NEW v \in Looked' \ overtaken', NEW b \in Assignment,
                      assigning'[v].found = b
               PROVE  ReadHolds(v, b)'
    BY DEF ReadsHold
  <2>1. /\ v \in Looked \ overtaken /\ assigning'[v] = assigning[v] /\ b # a
    BY <1>2, <1>13
  <2>2. ReadHolds(v, b)
    BY <2>1 DEF RolesInv, ReadsHold
  <2> QED
    BY <1>10, <1>11, <1>19, <2>1, <2>2 DEF ReadHolds
<1>22. FoundIsThere' /\ ComparedFound'
  <2>1. \A v \in Assigner : assigning[v].found \in Assignment \cup {None}
    BY <1>0 DEF Assigning
  <2> QED
    BY <1>11, <1>12, <1>13, <2>1 DEF RolesInv, FoundIsThere, ComparedFound
<1> QED
  BY <1>14, <1>15, <1>16, <1>18, <1>20, <1>21, <1>22 DEF RolesInv

LEMMA RolesNextInv == RolesInv /\ [RolesNext]_roleVars => RolesInv'
<1> SUFFICES ASSUME RolesInv, pass_time \/ UNCHANGED roleVars PROVE RolesInv'
  BY GrantInv, RevokeRoleInv, LookInv, InsertAssignmentInv, InsertMissingInv, ChangeExpiryInv
     DEF RolesNext
<1>1. /\ UNCHANGED <<assignment, grant, assigning, overtaken, stray, doubled, picked>>
      /\ time' \in Nat
  BY DEF pass_time, roleVars, RolesInv, RolesTypeOK
<1>2. /\ Looked' = Looked /\ \A a : Held(a)' = Held(a)
      /\ \A g, a : Gives(g, a)' = Gives(g, a)
      /\ \A a, m : Complete(a, m)' = Complete(a, m)
  BY <1>1 DEF Looked, Held, Gives, Complete
<1> QED
  BY <1>1, <1>2 DEF RolesInv, RolesTypeOK, GrantsOfRoles, GrantsLiveAlong, StrayAreDoubled,
     HeldAreComplete, ReadsHold, ReadHolds, FoundIsThere, ComparedFound

(* The inductive invariant of roles. *)
THEOREM RolesInvariant == RolesSpec => []RolesInv
BY RolesInitInv, RolesNextInv, PTL DEF RolesSpec

(* Nobody is let through by a role that has ended, however assigning and     *)
(* revoking interleave, but for what an overtaken request inserted: roles.py.*)
THEOREM GrantsHaveCauses == RolesSpec => []CapabilitiesHaveACause
<1>1. RolesInv => CapabilitiesHaveACause
  <2> SUFFICES ASSUME RolesInv, NEW c \in Capability, NEW p \in Project,
                      ensure_actor_has_capability(c, p), ~IsAdmin
               PROVE  \/ \E a \in ActiveAssignments(time) : {c, Admin} \cap RoleCapabilities # {}
                      \/ \E g \in ActiveGrants(time) : grant[g].of = None
                      \/ \E g \in ActiveGrants(time) : g \in stray
    BY DEF CapabilitiesHaveACause
  <2>1. PICK g \in ActiveGrants(time) : grant[g].capability \in {c, Admin}
    BY DEF ensure_actor_has_capability
  <2>2. /\ g \in Grant /\ grant[g] # None /\ ~grant[g].revoked /\ grant[g].expires > time
        /\ grant[g].of \in Assignment \cup {None}
    BY DEF ActiveGrants, Active, RolesInv, RolesTypeOK, GrantRow
  <2>3. CASE grant[g].of \in Assignment /\ g \notin stray
    <3>1. /\ Held(grant[g].of) /\ grant[g].expires = assignment[grant[g].of].expires
      BY <2>2, <2>3 DEF RolesInv, GrantsLiveAlong, Gives
    <3>2. grant[g].capability \in RoleCapabilities
      BY <2>2, <2>3, RowsAreSome DEF RolesInv, GrantsOfRoles
    <3>3. grant[g].of \in ActiveAssignments(time)
      BY <2>2, <2>3, <3>1 DEF ActiveAssignments, Active, Held
    <3> QED
      BY <2>1, <3>2, <3>3
  <2> QED
    BY <2>2, <2>3
<1> QED
  BY <1>1, RolesInvariant, PTL

(* A role that is assigned gives what it has, everywhere: roles.py.          *)
THEOREM RolesGive == RolesSpec => []RolesGiveTheirCapabilities
<1>1. RolesInv => RolesGiveTheirCapabilities
  <2> SUFFICES ASSUME RolesInv, NEW a \in ActiveAssignments(time) \ (picked \cup doubled),
                      NEW c \in RoleCapabilities, NEW p \in Project
               PROVE  ensure_actor_has_capability(c, p)
    BY DEF RolesGiveTheirCapabilities
  <2>1. a \in Assignment /\ Held(a) /\ assignment[a].expires > time
    BY DEF ActiveAssignments, Active, Held
  <2>2. PICK g \in Grant : Gives(g, a) /\ grant[g].capability = c
    BY <2>1 DEF RolesInv, HeldAreComplete, Complete
  <2>3. g \notin stray
    BY <2>2 DEF RolesInv, StrayAreDoubled, Gives
  <2>4. grant[g].expires = assignment[a].expires
    BY <2>1, <2>2, <2>3 DEF RolesInv, GrantsLiveAlong
  <2>5. grant[g].scope = None
    BY <2>1, <2>2, RowsAreSome DEF RolesInv, GrantsOfRoles, Gives
  <2>6. g \in ActiveGrants(time)
    BY <2>1, <2>2, <2>4 DEF ActiveGrants, Active, Gives
  <2> QED
    BY <2>2, <2>5, <2>6 DEF ensure_actor_has_capability, grant_covers_scope
<1> QED
  BY <1>1, RolesInvariant, PTL
===============================================================================
