----------------------------- MODULE PacketCache -----------------------------
(***************************************************************************)
(* The in-process cache of compiled packets.  A request that misses        *)
(* compiles the packet in its own transaction, stores its version, puts it *)
(* in the cache and commits afterwards.  A committed change of a packet's  *)
(* rows notifies a listener thread, which drops the packets of the         *)
(* project.  Nothing orders a fill against a notification.                 *)
(*                                                                         *)
(* A packet is a task and a revision: rev[t] counts the committed changes  *)
(* of the rows that t's packet is compiled from.                           *)
(***************************************************************************)
EXTENDS Naturals, Sequences, FiniteSets

CONSTANTS
    Task, Project,
    ProjectOf,      \* ProjectOf[t]: the project of task t
    Getter,         \* request threads
    Prefetcher,     \* prefetch jobs that may be queued or running
    None,
    MaxEntries,     \* capacity of the LRU
    TTL,            \* age at which an entry expires, in ticks
    Width,          \* packets prefetched after an answer
    Faults,         \* what goes wrong: "silent" changes that notify nobody,
                    \* the "listener" failing, the process being "restart"ed
    MaxRev          \* bound: changes of a task that are explored

ASSUME PacketCacheAssumption ==
    /\ ProjectOf \in [Task -> Project]
    /\ Getter \cap Prefetcher = {}
    /\ MaxEntries \in Nat \ {0} /\ TTL \in Nat \ {0}
    /\ Width \in Nat /\ MaxRev \in Nat
    /\ Faults \subseteq {"silent", "listener", "restart"}
    /\ None \notin Task \cup Prefetcher \cup [rev : Nat, at : Nat, age : Nat]

VARIABLES
    rev,        \* rev[t]: the committed revision of t's packet
    versions,   \* the packet_version rows: <<task, revision>> pairs
    pending,    \* pending[p]: notifications of p the listener has yet to read
    pendingAll, \* ... and those that are not about one project
    listening,  \* the listener thread: "starting", "on" or "dead"
    entries,    \* entries[t]: the cached packet of t, or None
    order,      \* the cached tasks, least recently used first
    futures,    \* futures[t]: the prefetch job registered for t, or None
    work,       \* work[w]: what a request thread or a prefetch job is doing
    missed      \* missed[t]: the last revision of t this process's listener
                \* was not told of as one of t's project (history)

vars == <<rev, versions, pending, pendingAll, listening, entries, order, futures,
          work, missed>>
database == <<rev, versions, missed>>
listener == <<pending, pendingAll, listening>>
cache == <<entries, order>>

Worker == Getter \cup Prefetcher
(* at is the task's revision when the entry was put (a history field). *)
Entry == [rev : Nat, at : Nat, age : Nat]
Step == {"idle", "get", "queued", "assemble", "persist", "put", "schedule",
         "commit", "finished"}
Work == {r \in [step : Step, task : Task \cup {None}, rev : Nat, wrote : BOOLEAN,
                todo : SUBSET Task] : r.step # "idle" => r.task \in Task}
At(step, t) == [step |-> step, task |-> t, rev |-> 0, wrote |-> FALSE, todo |-> {}]
Idle == At("idle", None)

Expired(t) == entries[t].age >= TTL
has_cached(t) == entries[t] # None /\ ~Expired(t)

(* What is prefetched after an answer for t: other tasks of its project.    *)
NextCandidates(t, c) ==
    /\ c \subseteq {u \in Task \ {t} : ProjectOf[u] = ProjectOf[t]}
    /\ Cardinality(c) <= Width
Version(w) == <<work[w].task, work[w].rev>>

(* A prefetch job ends at "finished", where its callback is still to run. *)
End(w) == IF w \in Prefetcher THEN At("finished", work[w].task) ELSE Idle
GoTo(w, step) == work' = [work EXCEPT ![w].step = step]

(* What is left of the order when the tasks in ts go. *)
Without(ts) ==
    LET kept == {i \in DOMAIN order : order[i] \notin ts}
        nth(k) == CHOOSE i \in kept : Cardinality(kept \cap 1..i) = k
    IN [k \in 1..Cardinality(kept) |-> order[nth(k)]]

(* The entries of the tasks in ts leave the cache. *)
Drop(ts) ==
    /\ entries' = [t \in Task |-> IF t \in ts THEN None ELSE entries[t]]
    /\ order' = Without(ts)

-----------------------------------------------------------------------------
(* A request for t's packet arrives. *)
request(w, t) ==
    /\ w \in Getter /\ work[w].step = "idle"
    /\ work' = [work EXCEPT ![w] = At("get", t)]
    /\ UNCHANGED <<database, listener, cache, futures>>

(* A hit that also makes the entry young again. *)
hit_renews(w, candidates) ==
    LET t == work[w].task IN
    /\ work[w].step = "get" /\ has_cached(t)
    /\ NextCandidates(t, candidates)
    /\ order' = Append(Without({t}), t)
    /\ entries' = [entries EXCEPT ![t].age = 0]
    /\ work' = [work EXCEPT ![w].step = "schedule", ![w].todo = candidates]
    /\ UNCHANGED <<database, listener, futures>>

(* The cached packet is the answer; it becomes the most recently used. *)
hit(w, candidates) ==
    LET t == work[w].task IN
    /\ work[w].step = "get" /\ has_cached(t)
    /\ NextCandidates(t, candidates)
    /\ order' = Append(Without({t}), t)
    /\ work' = [work EXCEPT ![w].step = "schedule", ![w].todo = candidates]
    /\ UNCHANGED <<database, listener, entries, futures>>

(* No entry, or an expired one, which is dropped. *)
miss(w) ==
    LET t == work[w].task IN
    /\ work[w].step = "get" /\ ~has_cached(t)
    /\ Drop({t})
    /\ GoTo(w, "assemble")
    /\ UNCHANGED <<database, listener, futures>>

(* A prefetch job starts by looking in the cache. *)
prefetch_one(w) ==
    LET t == work[w].task IN
    /\ work[w].step = "queued"
    /\ IF has_cached(t)
       THEN work' = [work EXCEPT ![w] = End(w)] /\ UNCHANGED cache
       ELSE GoTo(w, "assemble") /\ Drop({t})
    /\ UNCHANGED <<database, listener, futures>>

(* assemble_packet reads what is committed at that moment. *)
assemble_packet(w) ==
    /\ work[w].step = "assemble"
    /\ work' = [work EXCEPT ![w].rev = rev[work[w].task], ![w].step = "persist"]
    /\ UNCHANGED <<database, listener, cache, futures>>

(* A stored version is audited: from its insert to its commit a transaction *)
(* holds the audit lock, which every other audited write waits for.         *)
AuditFree(w) == \A x \in Worker \ {w} : ~work[x].wrote

(* The version is stored once; an insert of a version that another          *)
(* transaction has stored meanwhile yields to it.                           *)
persist_packet_version(w) ==
    LET new == Version(w) \notin versions IN
    /\ work[w].step = "persist"
    /\ new => AuditFree(w)
    /\ work' = [work EXCEPT ![w].wrote = new, ![w].step = "put"]
    /\ UNCHANGED <<database, listener, cache, futures>>

(* A loop that stops one entry too late. *)
OneTooMany == MaxEntries + 1
Capacity == MaxEntries

(* The packet enters the LRU, whose oldest entries leave it. *)
put(w, candidates) ==
    LET t == work[w].task
        queue == Append(Without({t}), t)
        surplus == IF Len(queue) > Capacity THEN Len(queue) - Capacity ELSE 0
    IN
    /\ work[w].step = "put"
    /\ IF w \in Getter THEN NextCandidates(t, candidates) ELSE candidates = {}
    /\ order' = SubSeq(queue, surplus + 1, Len(queue))
    /\ entries' = [u \in Task |->
                     IF \E i \in 1..surplus : queue[i] = u THEN None
                     ELSE IF u = t THEN [rev |-> work[w].rev, at |-> rev[t], age |-> 0]
                     ELSE entries[u]]
    /\ work' = [work EXCEPT
                  ![w].step = IF w \in Getter THEN "schedule" ELSE "commit",
                  ![w].todo = candidates]
    /\ UNCHANGED <<database, listener, futures>>

(* A job for u is registered and not done. *)
Underway(u) == futures[u] # None /\ work[futures[u]].step # "finished"

(* (Bound: a job the model has no slot for is as one that fails at once.)   *)
schedule_skip(w, u) ==
    /\ work[w].step = "schedule" /\ u \in work[w].todo
    /\ Underway(u) \/ has_cached(u) \/ \A x \in Prefetcher : work[x].step # "idle"
    /\ work' = [work EXCEPT ![w].todo = @ \ {u}]
    /\ UNCHANGED <<database, listener, cache, futures>>

schedule_prefetch(w, u, x) ==
    /\ work[w].step = "schedule" /\ u \in work[w].todo
    /\ ~Underway(u) /\ ~has_cached(u)
    /\ x \in Prefetcher /\ work[x].step = "idle"
    /\ futures' = [futures EXCEPT ![u] = x]
    /\ work' = [work EXCEPT ![w].todo = @ \ {u},
                            ![x] = At("queued", u)]
    /\ UNCHANGED <<database, listener, cache>>

(* The fetch is audited and the request's transaction commits. *)
commit(w) ==
    /\ \/ work[w].step = "schedule" /\ work[w].todo = {} /\ AuditFree(w)
       \/ work[w].step = "commit"
    /\ versions' = IF work[w].wrote THEN versions \cup {Version(w)} ELSE versions
    /\ work' = [work EXCEPT ![w] = End(w)]
    /\ UNCHANGED <<rev, missed, listener, cache, futures>>

(* A timeout, an error, a lost connection: what was put stays cached. *)
rollback(w) ==
    /\ work[w].step \notin {"idle", "finished"}
    /\ work' = [work EXCEPT ![w] = End(w)]
    /\ UNCHANGED <<database, listener, cache, futures>>

(* A callback that leaves the job of its task registered. *)
clear_nothing(w) ==
    /\ work[w].step = "finished"
    /\ work' = [work EXCEPT ![w] = Idle]
    /\ UNCHANGED <<database, listener, cache, futures>>

(* The done callback of a job forgets whatever job its task has by now. *)
clear_prefetch_future(w) ==
    /\ work[w].step = "finished"
    /\ futures' = [futures EXCEPT ![work[w].task] = None]
    /\ work' = [work EXCEPT ![w] = Idle]
    /\ UNCHANGED <<database, listener, cache>>

-----------------------------------------------------------------------------
(* Changes of the tasks in ts are committed. *)
Advance(ts) ==
    /\ \A t \in ts : rev[t] < MaxRev
    /\ rev' = [t \in Task |-> IF t \in ts THEN rev[t] + 1 ELSE rev[t]]

(* What a listener is told reaches the packets of the projects in ps; a     *)
(* change committed while nobody listens reaches none.                      *)
Tell(ps, ts) ==
    missed' = [t \in Task |->
                 IF t \in ts /\ (listening # "on" \/ ProjectOf[t] \notin ps)
                 THEN rev'[t] ELSE missed[t]]

(* A session commits a change of a task, a decision, a learning, an edge or *)
(* a capability of project p.  Such a write is audited, and the listener is *)
(* notified of p at the commit.  The packets in ts change: those of other   *)
(* projects too, which hold learnings retrieved from any project and        *)
(* decisions of the tasks they depend on.                                   *)
change(p, ts) ==
    /\ ts # {}
    /\ \A w \in Worker : ~work[w].wrote
    /\ Advance(ts)
    /\ pending' = IF listening = "on" THEN [pending EXCEPT ![p] = @ + 1] ELSE pending
    /\ Tell({p}, ts)
    /\ UNCHANGED <<versions, pendingAll, listening, cache, futures, work>>

(* A change of a policy, or of a row without a project, concerns them all. *)
change_all ==
    /\ \A w \in Worker : ~work[w].wrote
    /\ Advance(Task)
    /\ pendingAll' = IF listening = "on" THEN pendingAll + 1 ELSE pendingAll
    /\ Tell(Project, Task)
    /\ UNCHANGED <<versions, pending, listening, cache, futures, work>>

(* A change nobody is notified of: a claim, a release or an unlock (UPDATE   *)
(* statements outside the ORM's flush, not audited either), and under the    *)
(* audit lock a new artifact or another policy of a project or a workspace.  *)
change_silently(ts) ==
    /\ "silent" \in Faults
    /\ ts # {}
    /\ Advance(ts)
    /\ missed' = [t \in Task |-> IF t \in ts THEN rev'[t] ELSE missed[t]]
    /\ UNCHANGED <<versions, listener, cache, futures, work>>

(* A handler that leaves alone a task about to be prefetched afresh. *)
handle_unless_prefetched(p) ==
    /\ listening = "on" /\ pending[p] > 0
    /\ pending' = [pending EXCEPT ![p] = @ - 1]
    /\ Drop({t \in Task : ProjectOf[t] = p /\ futures[t] = None})
    /\ UNCHANGED <<database, pendingAll, listening, futures, work>>

(* The listener reads a notification and drops the project's packets. *)
handle_invalidation(p) ==
    /\ listening = "on" /\ pending[p] > 0
    /\ pending' = [pending EXCEPT ![p] = @ - 1]
    /\ Drop({t \in Task : ProjectOf[t] = p})
    /\ UNCHANGED <<database, pendingAll, listening, futures, work>>

(* A notification that is not about one project drops every packet. *)
invalidate_all ==
    /\ listening = "on" /\ pendingAll > 0
    /\ pendingAll' = pendingAll - 1
    /\ Drop(Task)
    /\ UNCHANGED <<database, pending, listening, futures, work>>

(* The listener's connection is up: LISTEN. *)
listen ==
    /\ listening = "starting"
    /\ listening' = "on"
    /\ UNCHANGED <<database, pending, pendingAll, cache, futures, work>>

(* Its connection fails: the thread ends, and nothing starts another. *)
listener_error ==
    /\ "listener" \in Faults
    /\ listening # "dead"
    /\ listening' = "dead"
    /\ pending' = [p \in Project |-> 0] /\ pendingAll' = 0
    /\ missed' = rev
    /\ UNCHANGED <<rev, versions, cache, futures, work>>

(* The process restarts with an empty cache. *)
restart ==
    /\ "restart" \in Faults
    /\ listening' = "starting"
    /\ pending' = [p \in Project |-> 0] /\ pendingAll' = 0
    /\ entries' = [t \in Task |-> None] /\ order' = <<>>
    /\ futures' = [t \in Task |-> None]
    /\ work' = [w \in Worker |-> Idle]
    /\ UNCHANGED database

(* Time passes. *)
tick ==
    /\ \E t \in Task : has_cached(t)
    /\ entries' = [t \in Task |-> IF entries[t] # None /\ ~Expired(t)
                                  THEN [entries[t] EXCEPT !.age = @ + 1]
                                  ELSE entries[t]]
    /\ UNCHANGED <<database, listener, order, futures, work>>

-----------------------------------------------------------------------------
Init ==
    /\ rev = [t \in Task |-> 0] /\ missed = [t \in Task |-> 0]
    /\ versions = {}
    /\ pending = [p \in Project |-> 0] /\ pendingAll = 0
    /\ listening = "starting"
    /\ entries = [t \in Task |-> None] /\ order = <<>>
    /\ futures = [t \in Task |-> None]
    /\ work = [w \in Worker |-> Idle]

compile_packet(w) ==
    \/ \E c \in SUBSET Task : hit(w, c)
    \/ miss(w)
    \/ prefetch_one(w)
    \/ assemble_packet(w)
    \/ persist_packet_version(w)
    \/ \E c \in SUBSET Task : put(w, c)
    \/ \E u \in Task : schedule_skip(w, u)
    \/ \E u \in Task, x \in Prefetcher : schedule_prefetch(w, u, x)
    \/ commit(w)

listen_loop ==
    \/ listen
    \/ \E p \in Project : handle_invalidation(p)
    \/ invalidate_all

Next ==
    \/ \E w \in Worker, t \in Task : request(w, t)
    \/ \E w \in Worker : compile_packet(w)
    \/ \E w \in Worker : rollback(w)
    \/ \E w \in Worker : clear_prefetch_future(w)
    \/ \E ts \in SUBSET Task :
          change_silently(ts) \/ \E p \in Project : change(p, ts)
    \/ change_all
    \/ listen_loop
    \/ listener_error
    \/ restart
    \/ tick

Spec == Init /\ [][Next]_vars

(* Time passes and threads run; Postgres grants the audit lock in the order *)
(* of the requests for it.                                                  *)
FairSpec ==
    /\ Spec
    /\ WF_vars(tick)
    /\ \A w \in Worker :
          /\ WF_vars(compile_packet(w) \/ clear_prefetch_future(w))
          /\ SF_vars(persist_packet_version(w))

-----------------------------------------------------------------------------
(* Types of the tables, of the listener, of the cache and of the jobs. *)
TypeOK ==
    /\ rev \in [Task -> Nat] /\ missed \in [Task -> Nat]
    /\ versions \subseteq Task \X Nat
    /\ pending \in [Project -> Nat] /\ pendingAll \in Nat
    /\ listening \in {"starting", "on", "dead"}
    /\ entries \in [Task -> Entry \cup {None}]
    /\ order \in Seq(Task)
    /\ futures \in [Task -> Prefetcher \cup {None}]
    /\ work \in [Worker -> Work]

(* The cache never holds more than its capacity, and its eviction order     *)
(* names exactly the cached packets, whatever fills, drops, expiries and    *)
(* invalidations overlap (put, _invalidate_project, get).                   *)
CacheIsBounded ==
    /\ Len(order) <= MaxEntries
    /\ \A t \in Task : entries[t] # None =>
          Cardinality({i \in DOMAIN order : order[i] = t}) = 1
    /\ \A i \in DOMAIN order : entries[order[i]] # None

Told(t) == pending[ProjectOf[t]] > 0 \/ pendingAll > 0

(* A packet that was current when it was put, and that only changes of rows *)
(* of its own project, or of all, notified to the listener have touched     *)
(* since, is stale only while a notification is on its way: the listener's  *)
(* delay is the only cause of such staleness, through all the drops, fills, *)
(* failures and restarts.  A change of a row of another project leaves it   *)
(* stale with nothing on its way, until it expires (StaleExpires).          *)
StaleIsAnnounced ==
    \A t \in Task :
        LET e == entries[t] IN
        e # None /\ e.rev = e.at /\ e.rev >= missed[t] /\ e.rev < rev[t] => Told(t)

(* The job registered for a task is at work on it: a job that is done,      *)
(* failed or interrupted never keeps its task from being prefetched again,   *)
(* whatever callbacks and restarts come between.                             *)
RegisteredIsRunning ==
    \A t \in Task : futures[t] # None =>
        work[futures[t]].step # "idle" /\ work[futures[t]].task = t

Serving(t, r) == has_cached(t) /\ entries[t].rev = r

(* A superseded packet is in the end served no more, whatever was lost: a   *)
(* silent change, a dead listener or a fill that raced an invalidation      *)
(* costs at most the time to live of the entries.                           *)
StaleExpires ==
    \A t \in Task, r \in 0..MaxRev : (rev[t] > r) ~> [](~Serving(t, r))
=============================================================================
