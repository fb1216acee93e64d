-------------------------- MODULE PacketCacheProofs --------------------------
(***************************************************************************)
(* Staleness in the packet cache has few causes: for any number of tasks,  *)
(* projects, threads and entries, a packet that was current when it was    *)
(* put, and that only changes of rows of its own project that were         *)
(* notified have touched, is stale only while a notification is on its way.*)
(***************************************************************************)
EXTENDS PacketCache, Counting, FiniteSetTheorems, SequenceTheorems, TLAPS

(* The part of the type invariant the argument rests on: all but the        *)
(* eviction order, the versions and the jobs registered.                    *)
TablesOK ==
    /\ rev \in [Task -> Nat] /\ missed \in [Task -> Nat]
    /\ pending \in [Project -> Nat] /\ pendingAll \in Nat
    /\ entries \in [Task -> Entry \cup {None}]
    /\ work \in [Worker -> Work]

Announced(t) ==
    entries[t] # None /\ entries[t].rev = entries[t].at /\ entries[t].rev >= missed[t]
       /\ entries[t].rev < rev[t]
    => Told(t)

AnnounceInv == TablesOK /\ \A t \in Task : Announced(t)

(* What a step may do to t's entry: drop it, age it, or put one anew. *)
Touched(t) ==
    \/ entries'[t] = None
    \/ entries[t] # None /\ entries'[t].rev = entries[t].rev /\ entries'[t].at = entries[t].at
    \/ entries'[t].at = rev[t]

-----------------------------------------------------------------------------
(* An empty cache has no stale entry. *)
LEMMA InitAnnounce == Init => AnnounceInv
BY PacketCacheAssumption
   DEF Init, AnnounceInv, TablesOK, Announced, Idle, At, Work, Step

(* A step that commits nothing and reads no notification, and treats every  *)
(* entry as Touched says.                                                   *)
LEMMA CacheStep ==
    ASSUME AnnounceInv, UNCHANGED <<rev, missed, pending, pendingAll>>,
           work' \in [Worker -> Work], entries' \in [Task -> Entry \cup {None}],
           \A t \in Task : Touched(t)
    PROVE  AnnounceInv'
<1>1. TablesOK'
  BY DEF AnnounceInv, TablesOK
<1>2. ASSUME NEW t \in Task PROVE Announced(t)'
  <2>1. Announced(t) /\ Touched(t) /\ rev[t] \in Nat
    BY DEF AnnounceInv, TablesOK
  <2>2. Told(t)' <=> Told(t)
    BY DEF Told
  <2> QED
    BY <2>1, <2>2 DEF Announced, Touched
<1> QED
  BY <1>1, <1>2 DEF AnnounceInv

(* A step that touches neither the tables nor the cache. *)
LEMMA WorkStep ==
    ASSUME AnnounceInv, UNCHANGED <<rev, missed, pending, pendingAll, entries>>,
           work' \in [Worker -> Work]
    PROVE  AnnounceInv'
BY DEF AnnounceInv, TablesOK, Announced, Told

(* Dropping entries touches them only so. *)
LEMMA DropTouches ==
    ASSUME TablesOK, NEW ts \in SUBSET Task, Drop(ts)
    PROVE  entries' \in [Task -> Entry \cup {None}] /\ \A t \in Task : Touched(t)
BY DEF TablesOK, Drop, Touched

(* The records a thread or a job moves through. *)
LEMMA WorkTypes ==
    ASSUME TablesOK
    PROVE  /\ Idle \in Work
           /\ \A w \in Worker : work[w].step # "idle" => End(w) \in Work
           /\ \A w \in Worker : \A step \in Step :
                 work[w].step # "idle" => [work EXCEPT ![w].step = step] \in [Worker -> Work]
           /\ \A w \in Worker : \A r \in Work : [work EXCEPT ![w] = r] \in [Worker -> Work]
<1>1. Idle \in Work
  BY DEF Idle, At, Work, Step
<1>2. ASSUME NEW w \in Worker, work[w].step # "idle" PROVE End(w) \in Work
  <2>1. work[w].task \in Task
    <3>1. work[w] \in Work
      BY DEF TablesOK
    <3> QED
      BY <1>2, <3>1 DEF Work
  <2> QED
    BY <1>1, <2>1 DEF End, At, Work, Step
<1>3. ASSUME NEW w \in Worker, NEW step \in Step, work[w].step # "idle"
      PROVE  [work EXCEPT ![w].step = step] \in [Worker -> Work]
  <2>1. work[w] \in Work /\ work \in [Worker -> Work]
    BY DEF TablesOK
  <2>2. [work[w] EXCEPT !.step = step] \in Work
    BY <1>3, <2>1 DEF Work
  <2> QED
    BY <2>1, <2>2
<1>4. ASSUME NEW w \in Worker, NEW r \in Work
      PROVE  [work EXCEPT ![w] = r] \in [Worker -> Work]
  BY DEF TablesOK
<1>5. \A w \in Worker : work[w].step # "idle" => End(w) \in Work
  BY <1>2
<1>6. \A w \in Worker : \A step \in Step :
         work[w].step # "idle" => [work EXCEPT ![w].step = step] \in [Worker -> Work]
  BY <1>3
<1>7. \A w \in Worker : \A r \in Work : [work EXCEPT ![w] = r] \in [Worker -> Work]
  BY <1>4
<1> QED
  BY <1>1, <1>5, <1>6, <1>7

-----------------------------------------------------------------------------
(* A step of a request or of a prefetch job. *)
LEMMA CompileAnnounce ==
    ASSUME AnnounceInv, NEW w \in Worker, compile_packet(w)
    PROVE  AnnounceInv'
<1> USE DEF database, listener, cache
<1>0. TablesOK /\ work[w] \in Work
  BY DEF AnnounceInv, TablesOK
<1>1. ASSUME NEW c \in SUBSET Task, hit(w, c) PROVE AnnounceInv'
  <2>1. work' \in [Worker -> Work]
    BY <1>0, <1>1 DEF hit, TablesOK, Work, Step
  <2> QED
    BY <1>1, <2>1, WorkStep DEF hit
<1>2. CASE miss(w)
  <2>1. work' \in [Worker -> Work]
    BY <1>0, <1>2, WorkTypes DEF miss, GoTo, Step
  <2>2. entries' \in [Task -> Entry \cup {None}] /\ \A t \in Task : Touched(t)
    BY <1>0, <1>2 DEF miss, Drop, TablesOK, Touched
  <2> QED
    BY <1>2, <2>1, <2>2, CacheStep DEF miss
<1>3. CASE prefetch_one(w)
  <2>1. work' \in [Worker -> Work]
    <3>1. End(w) \in Work /\ "assemble" \in Step
      BY <1>0, <1>3, WorkTypes DEF prefetch_one, Step
    <3>2. \/ work' = [work EXCEPT ![w] = End(w)]
          \/ work' = [work EXCEPT ![w].step = "assemble"]
      BY <1>3 DEF prefetch_one, GoTo
    <3>3. CASE work' = [work EXCEPT ![w] = End(w)]
      BY <1>0, <3>1, <3>3, WorkTypes
    <3>4. CASE work' = [work EXCEPT ![w].step = "assemble"]
      <4>1. work[w].step # "idle"
        BY <1>3 DEF prefetch_one
      <4> QED
        BY <1>0, <3>1, <3>4, <4>1, WorkTypes
    <3> QED
      BY <3>2, <3>3, <3>4
  <2>2. UNCHANGED entries
        \/ (entries' \in [Task -> Entry \cup {None}] /\ \A t \in Task : Touched(t))
    BY <1>0, <1>3 DEF prefetch_one, Drop, TablesOK, Touched
  <2>3. UNCHANGED <<rev, missed, pending, pendingAll>>
    BY <1>3 DEF prefetch_one
  <2>4. CASE UNCHANGED entries
    BY <2>1, <2>3, <2>4, WorkStep
  <2> QED
    BY <2>1, <2>2, <2>3, <2>4, CacheStep
<1>4. CASE assemble_packet(w)
  <2>1. work' \in [Worker -> Work]
    <3>1. work[w].task \in Task
      BY <1>0, <1>4 DEF Work, assemble_packet
    <3>2. rev[work[w].task] \in Nat
      BY <1>0, <3>1 DEF TablesOK
    <3> QED
      BY <1>0, <1>4, <3>2 DEF assemble_packet, TablesOK, Work, Step
  <2> QED
    BY <1>4, <2>1, WorkStep DEF assemble_packet
<1>5. CASE persist_packet_version(w)
  <2>1. work' \in [Worker -> Work]
    BY <1>0, <1>5 DEF persist_packet_version, TablesOK, Work, Step
  <2> QED
    BY <1>5, <2>1, WorkStep DEF persist_packet_version
<1>6. ASSUME NEW c \in SUBSET Task, put(w, c) PROVE AnnounceInv'
  <2>1. work' \in [Worker -> Work]
    BY <1>0, <1>6 DEF put, TablesOK, Work, Step
  <2>2. entries' \in [Task -> Entry \cup {None}] /\ \A t \in Task : Touched(t)
    BY <1>0, <1>6 DEF put, TablesOK, Work, Entry, Touched
  <2> QED
    BY <1>6, <2>1, <2>2, CacheStep DEF put
<1>7. ASSUME NEW u \in Task, schedule_skip(w, u) PROVE AnnounceInv'
  <2>1. work' \in [Worker -> Work]
    BY <1>0, <1>7 DEF schedule_skip, TablesOK, Work
  <2> QED
    BY <1>7, <2>1, WorkStep DEF schedule_skip
<1>8. ASSUME NEW u \in Task, NEW x \in Prefetcher, schedule_prefetch(w, u, x)
      PROVE  AnnounceInv'
  <2>1. work' \in [Worker -> Work]
    <3> DEFINE job == At("queued", u)
    <3>1. job \in Work
      BY DEF Idle, At, Work, Step
    <3>2. [work EXCEPT ![w].todo = @ \ {u}] \in [Worker -> Work]
      BY <1>0 DEF TablesOK, Work
    <3>3. work' = [[work EXCEPT ![w].todo = @ \ {u}] EXCEPT ![x] = job]
      BY <1>8 DEF schedule_prefetch
    <3> QED
      BY <3>1, <3>2, <3>3
  <2> QED
    BY <1>8, <2>1, WorkStep DEF schedule_prefetch
<1>9. CASE commit(w)
  <2>1. work' \in [Worker -> Work]
    BY <1>0, <1>9, WorkTypes DEF commit
  <2> QED
    BY <1>9, <2>1, WorkStep DEF commit
<1> QED
  BY <1>1, <1>2, <1>3, <1>4, <1>5, <1>6, <1>7, <1>8, <1>9 DEF compile_packet

(* A committed change: the listener is told, or the revision is missed. *)
LEMMA ChangeAnnounce ==
    ASSUME AnnounceInv, \/ \E ts \in SUBSET Task :
                              change_silently(ts) \/ \E p \in Project : change(p, ts)
                        \/ change_all
    PROVE  AnnounceInv'
<1> USE PacketCacheAssumption
<1>0. TablesOK
  BY DEF AnnounceInv
<1>1. ASSUME NEW ts \in SUBSET Task, Advance(ts), UNCHANGED <<entries, work>>,
             pending' \in [Project -> Nat], pendingAll' \in Nat,
             missed' \in [Task -> Nat],
             \A t \in Task : t \in ts => Told(t)' \/ missed'[t] = rev'[t],
             \A t \in Task : t \notin ts => missed'[t] = missed[t],
             \A t \in Task : Told(t) => Told(t)'
      PROVE  AnnounceInv'
  <2>1. TablesOK'
    BY <1>0, <1>1 DEF TablesOK, Advance
  <2>2. ASSUME NEW t \in Task PROVE Announced(t)'
    <3>1. CASE t \in ts
      BY <1>0, <1>1, <2>1, <3>1 DEF Announced, TablesOK, Entry
    <3>2. CASE t \notin ts
      <4>1. Announced(t) /\ rev'[t] = rev[t]
        BY <1>0, <1>1, <3>2 DEF AnnounceInv, TablesOK, Advance
      <4> QED
        BY <1>1, <3>2, <4>1 DEF Announced
    <3> QED
      BY <3>1, <3>2
  <2> QED
    BY <2>1, <2>2 DEF AnnounceInv
<1>2. ASSUME NEW ts \in SUBSET Task, NEW p \in Project, change(p, ts) PROVE AnnounceInv'
  <2>1. Advance(ts) /\ Tell({p}, ts) /\ UNCHANGED <<entries, work, pendingAll>>
    BY <1>2 DEF change, cache
  <2>2. rev' \in [Task -> Nat]
    BY <1>0, <2>1 DEF TablesOK, Advance
  <2>3. missed' \in [Task -> Nat] /\ \A u \in Task : u \notin ts => missed'[u] = missed[u]
    BY <1>0, <2>1, <2>2 DEF TablesOK, Tell
  <2>4. pending' \in [Project -> Nat] /\ \A u \in Task : Told(u) => Told(u)'
    BY <1>0, <1>2, <2>1 DEF TablesOK, change, Told
  <2>5. ASSUME NEW u \in Task, u \in ts PROVE Told(u)' \/ missed'[u] = rev'[u]
    <3>1. CASE listening = "on" /\ ProjectOf[u] = p
      BY <1>0, <1>2, <3>1 DEF TablesOK, change, Told
    <3>2. CASE ~(listening = "on" /\ ProjectOf[u] = p)
      BY <2>1, <2>5, <3>2 DEF Tell
    <3> QED
      BY <3>1, <3>2
  <2>6. pendingAll' \in Nat
    BY <1>0, <2>1 DEF TablesOK
  <2> QED
    BY <1>1, <2>1, <2>3, <2>4, <2>5, <2>6
<1>3. ASSUME NEW ts \in SUBSET Task, change_silently(ts) PROVE AnnounceInv'
  <2>1. Advance(ts) /\ UNCHANGED <<entries, work, pending, pendingAll>>
        /\ missed' = [u \in Task |-> IF u \in ts THEN rev'[u] ELSE missed[u]]
    BY <1>3 DEF change_silently, cache, listener
  <2>2. rev' \in [Task -> Nat]
    BY <1>0, <2>1 DEF TablesOK, Advance
  <2>3. /\ missed' \in [Task -> Nat]
        /\ \A u \in Task : u \in ts => missed'[u] = rev'[u]
        /\ \A u \in Task : u \notin ts => missed'[u] = missed[u]
    BY <1>0, <2>1, <2>2 DEF TablesOK
  <2>4. \A u \in Task : Told(u) => Told(u)'
    BY <2>1 DEF Told
  <2>5. pending' \in [Project -> Nat] /\ pendingAll' \in Nat
    BY <1>0, <2>1 DEF TablesOK
  <2> QED
    BY <1>1, <2>1, <2>3, <2>4, <2>5
<1>4. CASE change_all
  <2>1. Advance(Task) /\ Tell(Project, Task) /\ UNCHANGED <<entries, work, pending>>
    BY <1>4 DEF change_all, cache
  <2>2. rev' \in [Task -> Nat]
    BY <1>0, <2>1 DEF TablesOK, Advance
  <2>3. missed' \in [Task -> Nat]
    BY <1>0, <2>1, <2>2 DEF TablesOK, Tell
  <2>4. pendingAll' \in Nat /\ \A u \in Task : Told(u) => Told(u)'
    BY <1>0, <1>4, <2>1 DEF TablesOK, change_all, Told
  <2>5. \A u \in Task : Told(u)' \/ missed'[u] = rev'[u]
    BY <1>0, <1>4, <2>1 DEF TablesOK, change_all, Told, Tell
  <2>6. pending' \in [Project -> Nat]
    BY <1>0, <2>1 DEF TablesOK
  <2> QED
    BY <1>1, <2>1, <2>3, <2>4, <2>5, <2>6
<1> QED
  BY <1>2, <1>3, <1>4

(* The listener: what it reads it drops, and what it loses is missed. *)
LEMMA ListenAnnounce ==
    ASSUME AnnounceInv, listen_loop \/ listener_error
    PROVE  AnnounceInv'
<1> USE PacketCacheAssumption DEF database, cache
<1>0. TablesOK
  BY DEF AnnounceInv
<1>1. CASE listen
  BY <1>0, <1>1, WorkStep DEF listen, TablesOK
<1>2. ASSUME NEW p \in Project, handle_invalidation(p) PROVE AnnounceInv'
  <2>1. TablesOK'
    BY <1>0, <1>2 DEF handle_invalidation, Drop, TablesOK
  <2>2. ASSUME NEW t \in Task PROVE Announced(t)'
    <3>1. CASE ProjectOf[t] = p
      BY <1>2, <3>1 DEF handle_invalidation, Drop, Announced
    <3>2. CASE ProjectOf[t] # p
      <4>1. Announced(t) /\ (Told(t) => Told(t)') /\ entries'[t] = entries[t]
        BY <1>0, <1>2, <3>2 DEF AnnounceInv, handle_invalidation, Drop, Told, TablesOK
      <4> QED
        BY <1>2, <4>1 DEF handle_invalidation, Announced
    <3> QED
      BY <3>1, <3>2
  <2> QED
    BY <2>1, <2>2 DEF AnnounceInv
<1>3. CASE invalidate_all
  <2>1. TablesOK'
    BY <1>0, <1>3 DEF invalidate_all, Drop, TablesOK
  <2>2. \A t \in Task : Announced(t)'
    BY <1>3 DEF invalidate_all, Drop, Announced
  <2> QED
    BY <2>1, <2>2 DEF AnnounceInv
<1>4. CASE listener_error
  <2>1. TablesOK'
    BY <1>0, <1>4 DEF listener_error, TablesOK
  <2>2. \A t \in Task : Announced(t)'
    BY <1>0, <1>4 DEF listener_error, Announced, TablesOK, Entry
  <2> QED
    BY <2>1, <2>2 DEF AnnounceInv
<1> QED
  BY <1>1, <1>2, <1>3, <1>4 DEF listen_loop

(* Every step keeps the invariant. *)
LEMMA NextAnnounce == AnnounceInv /\ [Next]_vars => AnnounceInv'
<1> SUFFICES ASSUME AnnounceInv, [Next]_vars PROVE AnnounceInv'
  OBVIOUS
<1> USE DEF database, listener, cache
<1>0. TablesOK
  BY DEF AnnounceInv
<1>1. ASSUME NEW w \in Worker, NEW t \in Task, request(w, t) PROVE AnnounceInv'
  <2>1. work' \in [Worker -> Work]
    BY <1>0, <1>1 DEF request, TablesOK, At, Work, Step
  <2> QED
    BY <1>1, <2>1, WorkStep DEF request
<1>2. ASSUME NEW w \in Worker, rollback(w) \/ clear_prefetch_future(w) PROVE AnnounceInv'
  <2>1. work' \in [Worker -> Work]
    BY <1>0, <1>2, WorkTypes DEF rollback, clear_prefetch_future
  <2> QED
    BY <1>2, <2>1, WorkStep DEF rollback, clear_prefetch_future
<1>3. CASE restart
  <2>1. TablesOK'
    BY <1>0, <1>3, WorkTypes DEF restart, TablesOK
  <2> QED
    BY <1>3, <2>1 DEF restart, AnnounceInv, Announced
<1>4. CASE tick
  <2>1. entries' \in [Task -> Entry \cup {None}] /\ \A t \in Task : Touched(t)
    BY <1>0, <1>4, PacketCacheAssumption DEF tick, TablesOK, Entry, Expired, Touched
  <2> QED
    BY <1>0, <1>4, <2>1, CacheStep DEF tick, TablesOK
<1>5. CASE UNCHANGED vars
  BY <1>0, <1>5, WorkStep DEF vars, TablesOK
<1> QED
  BY <1>1, <1>2, <1>3, <1>4, <1>5, CompileAnnounce, ChangeAnnounce, ListenAnnounce
  DEF Next

-----------------------------------------------------------------------------
(* For any number of tasks, projects, requests, prefetches and entries, a   *)
(* packet put when it was current, and touched only by changes the listener *)
(* was told of as its project's or as everyone's, is stale only while a     *)
(* notification is on its way.  What other projects' rows do to it is       *)
(* missed.                                                                  *)
THEOREM StaleOnlyInTransit == Spec => []StaleIsAnnounced
<1>1. AnnounceInv => StaleIsAnnounced
  BY DEF AnnounceInv, Announced, StaleIsAnnounced
<1> QED
  BY InitAnnounce, NextAnnounce, <1>1, PTL DEF Spec

-----------------------------------------------------------------------------
RunningInv ==
    /\ TablesOK
    /\ futures \in [Task -> Prefetcher \cup {None}]
    /\ RegisteredIsRunning

(* A step that registers no job and neither ends a job nor gives it another *)
(* task.                                                                    *)
LEMMA JobsGoOn ==
    ASSUME RunningInv, TablesOK', UNCHANGED futures,
           \A x \in Prefetcher : work[x].step # "idle" =>
               work'[x].step # "idle" /\ work'[x].task = work[x].task
    PROVE  RunningInv'
BY DEF RunningInv, RegisteredIsRunning

(* The steps of one thread or job up to its callback. *)
LEMMA WorkGoesOn ==
    ASSUME RunningInv, TablesOK', NEW w \in Worker, UNCHANGED futures,
           work' \in [Worker -> Work],
           \A x \in Worker \ {w} : work'[x] = work[x],
           w \in Prefetcher /\ work[w].step # "idle" =>
               work'[w].step # "idle" /\ work'[w].task = work[w].task
    PROVE  RunningInv'
BY JobsGoOn DEF Worker

LEMMA CompileGoesOn ==
    ASSUME RunningInv, TablesOK', NEW w \in Worker,
           \/ \E c \in SUBSET Task : hit(w, c) \/ put(w, c)
           \/ miss(w) \/ prefetch_one(w) \/ assemble_packet(w)
           \/ persist_packet_version(w)
           \/ \E u \in Task : schedule_skip(w, u)
           \/ commit(w) \/ rollback(w)
           \/ \E t \in Task : request(w, t)
    PROVE  RunningInv'
<1> DEFINE t0 == work[w].task
           GoesOn == /\ \A x \in Worker \ {w} : work'[x] = work[x]
                     /\ w \in Prefetcher /\ work[w].step # "idle" =>
                           work'[w].step # "idle" /\ work'[w].task = t0
<1>0. work \in [Worker -> Work] /\ Getter \cap Prefetcher = {}
  BY PacketCacheAssumption DEF RunningInv, TablesOK
<1>1. UNCHANGED futures
  BY DEF hit, put, miss, prefetch_one, assemble_packet, persist_packet_version,
     schedule_skip, commit, rollback, request, cache
<1>2. w \in Prefetcher => End(w).step = "finished" /\ End(w).task = t0
  BY DEF End, At
<1>3. GoesOn
  <2>1. ASSUME NEW c \in SUBSET Task, hit(w, c) \/ put(w, c) PROVE GoesOn
    <3>1. CASE hit(w, c)
      BY <1>0, <3>1 DEF hit, Work
    <3>2. CASE put(w, c)
      BY <1>0, <3>2 DEF put, Work
    <3> QED
      BY <2>1, <3>1, <3>2
  <2>2. CASE miss(w) \/ assemble_packet(w) \/ persist_packet_version(w)
             \/ \E u \in Task : schedule_skip(w, u)
    BY <1>0, <2>2 DEF miss, assemble_packet, persist_packet_version, schedule_skip, GoTo, Work
  <2>3. CASE commit(w) \/ rollback(w)
    BY <1>0, <1>2, <2>3 DEF commit, rollback
  <2>4. CASE prefetch_one(w)
    <3>1. work' = [work EXCEPT ![w] = End(w)] \/ work' = [work EXCEPT ![w].step = "assemble"]
      BY <2>4 DEF prefetch_one, GoTo
    <3> QED
      BY <1>0, <1>2, <3>1 DEF Work
  <2>5. CASE \E t \in Task : request(w, t)
    BY <1>0, <2>5 DEF request
  <2> QED
    BY <2>1, <2>2, <2>3, <2>4, <2>5
<1>4. work' \in [Worker -> Work]
  BY DEF TablesOK
<1> QED
  BY <1>1, <1>3, <1>4, WorkGoesOn

(* A job is registered only if its slot is idle, so it is no other task's. *)
LEMMA ScheduleRegisters ==
    ASSUME RunningInv, TablesOK', NEW w \in Worker, NEW u \in Task, NEW x \in Prefetcher,
           schedule_prefetch(w, u, x)
    PROVE  RunningInv'
<1>0. /\ work \in [Worker -> Work] /\ futures \in [Task -> Prefetcher \cup {None}]
      /\ x \in Worker /\ None \notin Prefetcher
  BY PacketCacheAssumption DEF RunningInv, TablesOK, Worker
<1>1. /\ futures' = [futures EXCEPT ![u] = x]
      /\ work' = [work EXCEPT ![w].todo = @ \ {u}, ![x] = At("queued", u)]
      /\ work[x].step = "idle"
  BY DEF schedule_prefetch
<1>2. At("queued", u).step = "queued" /\ At("queued", u).task = u
  BY DEF At
<1>3. work'[x] = At("queued", u)
  BY <1>0, <1>1
<1>4. ASSUME NEW y \in Worker \ {x}
      PROVE  work'[y].step = work[y].step /\ work'[y].task = work[y].task
  BY <1>0, <1>1 DEF Work
<1>5. ASSUME NEW t \in Task, futures'[t] # None
      PROVE  work'[futures'[t]].step # "idle" /\ work'[futures'[t]].task = t
  <2>1. CASE t = u
    BY <1>0, <1>1, <1>2, <1>3, <2>1
  <2>2. CASE t # u
    <3>1. futures'[t] = futures[t] /\ futures[t] \in Prefetcher
      BY <1>0, <1>1, <1>5, <2>2
    <3>2. work[futures[t]].step # "idle" /\ work[futures[t]].task = t
      BY <1>5, <3>1 DEF RunningInv, RegisteredIsRunning
    <3>3. futures[t] \in Worker \ {x}
      BY <1>1, <3>1, <3>2 DEF Worker
    <3> QED
      BY <1>4, <3>1, <3>2, <3>3
  <2> QED
    BY <2>1, <2>2
<1>6. futures' \in [Task -> Prefetcher \cup {None}]
  BY <1>0, <1>1
<1> QED
  BY <1>5, <1>6 DEF RunningInv, RegisteredIsRunning

(* A job at its end is registered for its own task only, if for any. *)
LEMMA CallbackForgets ==
    ASSUME RunningInv, TablesOK', NEW w \in Worker, clear_prefetch_future(w)
    PROVE  RunningInv'
<1>0. work \in [Worker -> Work] /\ futures \in [Task -> Prefetcher \cup {None}]
  BY DEF RunningInv, TablesOK
<1>1. /\ futures' = [futures EXCEPT ![work[w].task] = None]
      /\ work' = [work EXCEPT ![w] = Idle]
  BY DEF clear_prefetch_future
<1>2. futures' \in [Task -> Prefetcher \cup {None}]
  BY <1>0, <1>1
<1>3. ASSUME NEW t \in Task, futures'[t] # None
      PROVE  work'[futures'[t]].step # "idle" /\ work'[futures'[t]].task = t
  <2>1. t # work[w].task /\ futures'[t] = futures[t]
    BY <1>0, <1>1, <1>3
  <2>2. work[futures[t]].step # "idle" /\ work[futures[t]].task = t
    BY <1>3, <2>1 DEF RunningInv, RegisteredIsRunning
  <2>3. futures[t] # w
    BY <2>1, <2>2
  <2> QED
    BY <1>0, <1>1, <2>1, <2>2, <2>3
<1> QED
  BY <1>2, <1>3 DEF RunningInv, RegisteredIsRunning

LEMMA NextRunning == AnnounceInv /\ AnnounceInv' /\ RunningInv /\ [Next]_vars => RunningInv'
<1> SUFFICES ASSUME RunningInv, TablesOK', [Next]_vars PROVE RunningInv'
  BY DEF AnnounceInv
<1>1. ASSUME NEW w \in Worker, compile_packet(w) PROVE RunningInv'
  BY <1>1, CompileGoesOn, ScheduleRegisters DEF compile_packet
<1>2. ASSUME NEW w \in Worker, rollback(w) \/ \E t \in Task : request(w, t)
      PROVE  RunningInv'
  BY <1>2, CompileGoesOn
<1>3. ASSUME NEW w \in Worker, clear_prefetch_future(w) PROVE RunningInv'
  BY <1>3, CallbackForgets
<1>4. CASE restart
  BY <1>4 DEF restart, RunningInv, RegisteredIsRunning
<1>5. CASE \/ \E ts \in SUBSET Task :
                 change_silently(ts) \/ \E p \in Project : change(p, ts)
           \/ change_all \/ listen_loop \/ listener_error \/ tick \/ UNCHANGED vars
  <2>1. UNCHANGED <<futures, work>>
    BY <1>5 DEF change, change_silently, change_all, listen_loop, listen, handle_invalidation,
       invalidate_all, listener_error, tick, vars
  <2> QED
    BY <2>1, JobsGoOn
<1> QED
  BY <1>1, <1>2, <1>3, <1>4, <1>5 DEF Next

(* For any number of prefetch jobs, tasks and requests, whatever fails and  *)
(* restarts, the job a task is registered with is at work on that task.     *)
THEOREM RegisteredRuns == Spec => []RegisteredIsRunning
<1>1. Init => RunningInv
  <2>1. Init => TablesOK
    BY InitAnnounce DEF AnnounceInv
  <2> QED
    BY <2>1 DEF Init, RunningInv, RegisteredIsRunning
<1>2. RunningInv => RegisteredIsRunning
  BY DEF RunningInv
<1> QED
  BY <1>1, <1>2, InitAnnounce, NextAnnounce, NextRunning, PTL DEF Spec
-----------------------------------------------------------------------------
(* The eviction order names the cached tasks, each once. *)
Names(queue, t) == \E i \in DOMAIN queue : queue[i] = t
Once(queue) == queue \in Seq(Task) /\ \A i, j \in DOMAIN queue : queue[i] = queue[j] => i = j

OrderOK ==
    /\ Once(order) /\ Len(order) <= MaxEntries
    /\ \A t \in Task : entries[t] # None <=> Names(order, t)

(* What stays keeps its order, and nothing else comes of it. *)
LEMMA WhatStays ==
    ASSUME Once(order), NEW ts
    PROVE  /\ Once(Without(ts)) /\ Len(Without(ts)) <= Len(order)
           /\ \A t : Names(Without(ts), t) <=> Names(order, t) /\ t \notin ts
           /\ \A t \in ts : Names(order, t) => Len(Without(ts)) < Len(order)
<1> DEFINE kept == {i \in DOMAIN order : order[i] \notin ts}
           nth(k) == CHOOSE i \in kept : Cardinality(kept \cap 1..i) = k
           upto == [i \in kept |-> kept \cap 1..i]
           n == Cardinality(kept)
<1>1. /\ Len(order) \in Nat /\ DOMAIN order = 1..Len(order)
      /\ \A i \in DOMAIN order : order[i] \in Task
      /\ \A i, j \in DOMAIN order : order[i] = order[j] => i = j
  <2>1. order \in Seq(Task) /\ \A i, j \in DOMAIN order : order[i] = order[j] => i = j
    BY DEF Once
  <2>2. Len(order) \in Nat /\ DOMAIN order = 1..Len(order)
    BY <2>1, LenProperties
  <2>3. \A i \in DOMAIN order : order[i] \in Task
    BY <2>1, <2>2, ElementOfSeq
  <2> QED
    BY <2>1, <2>2, <2>3
<1>2. IsFiniteSet(kept) /\ n <= Len(order) /\ (n = Len(order) => kept = 1..Len(order))
  <2>1. IsFiniteSet(1..Len(order)) /\ Cardinality(1..Len(order)) = Len(order)
    BY <1>1, FS_Interval
  <2>2. kept \in SUBSET (1..Len(order))
    BY <1>1
  <2> HIDE DEF kept
  <2>3. IsFiniteSet(kept) /\ n <= Len(order)
    BY <2>1, <2>2, FS_Subset
  <2>4. n = Len(order) => 1..Len(order) = kept
    BY <2>1, <2>2, FS_Subset
  <2> QED
    BY <2>3, <2>4
<1>3. /\ upto \in [kept -> SUBSET kept]
      /\ \A i \in kept : i \in upto[i]
      /\ \A i, j \in kept : upto[i] \subseteq upto[j] \/ upto[j] \subseteq upto[i]
      /\ \A i, j \in kept : upto[i] = upto[j] => i = j
  <2>1. kept \subseteq 1..Len(order)
    BY <1>1
  <2>2. \A i \in kept : i \in Nat /\ i >= 1
    BY <1>1, <2>1
  <2> HIDE DEF kept
  <2>3. \A i \in kept : i \in upto[i]
    BY <2>2
  <2>4. \A i, j \in kept : i <= j => upto[i] \subseteq upto[j]
    BY <2>2
  <2>5. \A i, j \in kept : upto[i] = upto[j] => i <= j /\ j <= i
    BY <2>2, <2>3
  <2> QED
    BY <2>2, <2>3, <2>4, <2>5
<1>4. /\ n \in Nat
      /\ \A i \in kept : Cardinality(upto[i]) \in 1..n
      /\ \A i, j \in kept : Cardinality(upto[i]) = Cardinality(upto[j]) => i = j
      /\ \A k \in 1..n : \E i \in kept : Cardinality(upto[i]) = k
  <2> HIDE DEF kept, upto
  <2> QED
    BY <1>2, <1>3, Places
<1>5. \A i \in kept : upto[i] = kept \cap 1..i
  OBVIOUS
<1>6. ASSUME NEW k \in 1..n PROVE nth(k) \in kept /\ Cardinality(upto[nth(k)]) = k
  <2> HIDE DEF kept, upto
  <2>1. \E i \in kept : Cardinality(kept \cap 1..i) = k
    BY <1>4, <1>5
  <2>2. nth(k) \in kept /\ Cardinality(kept \cap 1..nth(k)) = k
    BY <2>1
  <2> HIDE DEF nth
  <2> QED
    BY <1>5, <2>2
<1>7. ASSUME NEW i \in kept PROVE nth(Cardinality(upto[i])) = i
  <2>1. Cardinality(upto[i]) \in 1..n
    BY <1>4
  <2>2. nth(Cardinality(upto[i])) \in kept
        /\ Cardinality(upto[nth(Cardinality(upto[i]))]) = Cardinality(upto[i])
    BY <1>6, <2>1
  <2> HIDE DEF kept, upto, nth
  <2> QED
    BY <1>4, <2>2
<1>8. Without(ts) = [k \in 1..n |-> order[nth(k)]]
  BY DEF Without
<1>9. \A i \in kept : i \in DOMAIN order /\ order[i] \in Task /\ order[i] \notin ts
  BY <1>1
<1>10. \A i \in DOMAIN order : order[i] \notin ts => i \in kept
  OBVIOUS
<1> HIDE DEF kept, upto, nth, n
<1>11. Without(ts) \in Seq(Task) /\ Len(Without(ts)) = n /\ DOMAIN Without(ts) = 1..n
  BY <1>4, <1>6, <1>8, <1>9
<1>12. ASSUME NEW k \in 1..n, NEW l \in 1..n, Without(ts)[k] = Without(ts)[l] PROVE k = l
  <2>1. order[nth(k)] = order[nth(l)]
    BY <1>8, <1>12
  <2>2. nth(k) = nth(l)
    BY <1>1, <1>6, <1>9, <2>1
  <2> QED
    BY <1>6, <2>2
<1>13. ASSUME NEW t, Names(Without(ts), t) PROVE Names(order, t) /\ t \notin ts
  <2>1. PICK k \in 1..n : order[nth(k)] = t
    BY <1>8, <1>11, <1>13 DEF Names
  <2> QED
    BY <1>6, <1>9, <2>1 DEF Names
<1>14. ASSUME NEW t, Names(order, t), t \notin ts PROVE Names(Without(ts), t)
  <2>1. PICK i \in DOMAIN order : order[i] = t
    BY <1>14 DEF Names
  <2>2. i \in kept /\ Cardinality(upto[i]) \in 1..n
    BY <1>4, <1>10, <1>14, <2>1
  <2>3. Without(ts)[Cardinality(upto[i])] = t
    BY <1>7, <1>8, <2>1, <2>2
  <2> QED
    BY <1>11, <2>2, <2>3 DEF Names
<1>15. ASSUME NEW t \in ts, Names(order, t) PROVE n < Len(order)
  <2>1. kept # 1..Len(order)
    BY <1>1, <1>9, <1>15 DEF Names
  <2>2. n # Len(order) /\ n <= Len(order)
    BY <1>2, <2>1
  <2>3. n \in Nat /\ Len(order) \in Nat
    BY <1>1, <1>4
  <2> QED
    BY <2>2, <2>3
<1> QED
  BY <1>2, <1>11, <1>12, <1>13, <1>14, <1>15 DEF Once

LEMMA DropOrder ==
    ASSUME OrderOK, NEW ts, Drop(ts)
    PROVE  OrderOK'
<1>1. /\ Once(Without(ts)) /\ Len(Without(ts)) <= Len(order) /\ Len(Without(ts)) \in Nat
      /\ \A t : Names(Without(ts), t) <=> Names(order, t) /\ t \notin ts
  BY WhatStays DEF OrderOK, Once
<1>2. Len(order) <= MaxEntries /\ Len(order) \in Nat /\ MaxEntries \in Nat
  BY PacketCacheAssumption DEF OrderOK, Once
<1>3. order' = Without(ts) /\ \A t \in Task : entries'[t] = IF t \in ts THEN None ELSE entries[t]
  BY DEF Drop
<1>4. Once(order') /\ Len(order') <= MaxEntries
  BY <1>1, <1>2, <1>3
<1>5. \A t \in Task : entries'[t] # None <=> Names(order', t)
  BY <1>1, <1>3 DEF OrderOK
<1> QED
  BY <1>4, <1>5 DEF OrderOK, Once, Names

LEMMA AtTheEnd ==
    ASSUME NEW s, Once(s), NEW t \in Task, ~Names(s, t)
    PROVE  /\ Once(Append(s, t))
           /\ Len(s) \in Nat /\ Len(Append(s, t)) = Len(s) + 1
           /\ Append(s, t)[Len(s) + 1] = t
           /\ \A u : Names(Append(s, t), u) <=> Names(s, u) \/ u = t
<1>1. /\ Append(s, t) \in Seq(Task) /\ Len(Append(s, t)) = Len(s) + 1
      /\ Len(s) \in Nat /\ DOMAIN s = 1..Len(s)
      /\ DOMAIN Append(s, t) = 1..(Len(s) + 1)
      /\ Append(s, t)[Len(s) + 1] = t
      /\ \A i \in 1..Len(s) : Append(s, t)[i] = s[i]
  BY DEF Once
<1>2. PICK queue : queue = Append(s, t)
  OBVIOUS
<1>3. /\ DOMAIN queue = 1..(Len(s) + 1) /\ queue[Len(s) + 1] = t /\ queue \in Seq(Task)
      /\ \A i \in 1..Len(s) : queue[i] = s[i]
  BY <1>1, <1>2
<1>4. Len(s) \in Nat /\ DOMAIN s = 1..Len(s)
  BY <1>1
<1>5. \A i \in 1..Len(s) : s[i] # t
  BY <1>4 DEF Names
<1>6. Once(queue)
  BY <1>3, <1>4, <1>5 DEF Once
<1>7. \A u : Names(queue, u) <=> Names(s, u) \/ u = t
  BY <1>3, <1>4 DEF Names
<1> QED
  BY <1>1, <1>2, <1>6, <1>7

(* A task moved to the end, whether it was in the order or not. *)
LEMMA MoveToEnd ==
    ASSUME Once(order), NEW t \in Task
    PROVE  /\ Once(Append(Without({t}), t))
           /\ Len(Append(Without({t}), t)) \in 1..(Len(order) + 1)
           /\ Names(order, t) => Len(Append(Without({t}), t)) <= Len(order)
           /\ \A u : Names(Append(Without({t}), t), u) <=> Names(order, u) \/ u = t
<1>1. PICK rest : rest = Without({t})
  OBVIOUS
<1>2. /\ Once(rest) /\ Len(rest) <= Len(order)
      /\ \A u : Names(rest, u) <=> Names(order, u) /\ u # t
      /\ Names(order, t) => Len(rest) < Len(order)
  BY <1>1, WhatStays
<1>3. Len(order) \in Nat
  BY DEF Once
<1>4. /\ Once(Append(rest, t))
      /\ Len(rest) \in Nat /\ Len(Append(rest, t)) = Len(rest) + 1
      /\ \A u : Names(Append(rest, t), u) <=> Names(rest, u) \/ u = t
  BY <1>2, AtTheEnd
<1>5. Append(Without({t}), t) = Append(rest, t)
  BY <1>1
<1>6. /\ Len(Append(rest, t)) \in 1..(Len(order) + 1)
      /\ Names(order, t) => Len(Append(rest, t)) <= Len(order)
  BY <1>2, <1>3, <1>4
<1> QED
  BY <1>2, <1>4, <1>5, <1>6

(* The first tasks of the order leave it. *)
LEMMA FirstLeave ==
    ASSUME NEW queue, Once(queue), NEW n \in Nat, n <= Len(queue)
    PROVE  LET left == SubSeq(queue, n + 1, Len(queue))
           IN  /\ Once(left) /\ Len(left) = Len(queue) - n
               /\ \A u : Names(left, u) <=> Names(queue, u) /\ ~(\E i \in 1..n : queue[i] = u)
<1>1. PICK left : left = SubSeq(queue, n + 1, Len(queue))
  OBVIOUS
<1>2. Len(queue) \in Nat /\ DOMAIN queue = 1..Len(queue)
  BY DEF Once
<1>3. /\ left \in Seq(Task) /\ Len(left) = Len(queue) - n
      /\ DOMAIN left = 1..(Len(queue) - n)
      /\ \A i \in 1..(Len(queue) - n) : left[i] = queue[i + n]
  <2>1. n + 1 \in Int /\ Len(queue) \in Int /\ \A i \in (n + 1)..Len(queue) : queue[i] \in Task
    BY <1>2 DEF Once
  <2>2. /\ SubSeq(queue, n + 1, Len(queue)) \in Seq(Task)
        /\ Len(SubSeq(queue, n + 1, Len(queue))) =
             IF n + 1 <= Len(queue) THEN Len(queue) - (n + 1) + 1 ELSE 0
        /\ \A i \in 1..(Len(queue) - (n + 1) + 1) :
              SubSeq(queue, n + 1, Len(queue))[i] = queue[(n + 1) + i - 1]
    BY <2>1, SubSeqProperties
  <2>3. /\ left \in Seq(Task)
        /\ Len(left) = IF n + 1 <= Len(queue) THEN Len(queue) - (n + 1) + 1 ELSE 0
        /\ \A i \in 1..(Len(queue) - (n + 1) + 1) : left[i] = queue[(n + 1) + i - 1]
    <3>1. left \in Seq(Task)
      BY <1>1, <2>2, Zenon
    <3>2. Len(left) = IF n + 1 <= Len(queue) THEN Len(queue) - (n + 1) + 1 ELSE 0
      BY <1>1, <2>2, Zenon
    <3>3. ASSUME NEW i \in 1..(Len(queue) - (n + 1) + 1) PROVE left[i] = queue[(n + 1) + i - 1]
      <4>1. SubSeq(queue, n + 1, Len(queue))[i] = queue[(n + 1) + i - 1]
        BY <2>2
      <4> QED
        BY <1>1, <4>1, Zenon
    <3> QED
      BY <3>1, <3>2, <3>3
  <2>4. Len(left) = Len(queue) - n
    <3>1. Len(left) = IF n + 1 <= Len(queue) THEN Len(queue) - (n + 1) + 1 ELSE 0
      BY <2>3
    <3>2. Len(queue) \in Nat /\ n \in Nat /\ n <= Len(queue)
      BY <1>2
    <3> HIDE <1>1, <1>2
    <3> QED
      BY <3>1, <3>2
  <2>5. \A i \in 1..(Len(queue) - n) : i \in 1..(Len(queue) - (n + 1) + 1) /\ (n + 1) + i - 1 = i + n
    BY <1>2
  <2> QED
    BY <2>3, <2>4, <2>5
<1>4. Once(left)
  <2>1. ASSUME NEW i \in DOMAIN left, NEW j \in DOMAIN left, left[i] = left[j] PROVE i = j
    <3>1. i + n \in DOMAIN queue /\ j + n \in DOMAIN queue /\ queue[i + n] = queue[j + n]
      BY <1>2, <1>3, <2>1
    <3>2. i + n = j + n
      BY <3>1 DEF Once
    <3> QED
      BY <1>2, <1>3, <3>2
  <2> QED
    BY <1>3, <2>1 DEF Once
<1>5. ASSUME NEW u, Names(left, u) PROVE Names(queue, u) /\ ~(\E i \in 1..n : queue[i] = u)
  <2>1. PICK i \in 1..(Len(queue) - n) : left[i] = u
    BY <1>3, <1>5 DEF Names
  <2>2. i + n \in DOMAIN queue /\ queue[i + n] = u
    BY <1>2, <1>3, <2>1
  <2>3. ASSUME NEW k \in 1..n, queue[k] = u PROVE FALSE
    <3>1. k \in DOMAIN queue /\ k # i + n
      BY <1>2
    <3> QED
      BY <2>2, <2>3, <3>1 DEF Once
  <2> QED
    BY <2>2, <2>3 DEF Names
<1>6. ASSUME NEW u, Names(queue, u), ~(\E i \in 1..n : queue[i] = u) PROVE Names(left, u)
  <2>1. PICK k \in DOMAIN queue : queue[k] = u
    BY <1>6 DEF Names
  <2>2. k - n \in DOMAIN left /\ left[k - n] = u
    BY <1>2, <1>3, <1>6, <2>1
  <2> QED
    BY <2>2 DEF Names
<1> QED
  BY <1>1, <1>3, <1>4, <1>5, <1>6

LEMMA HitOrder ==
    ASSUME OrderOK, TablesOK, NEW w \in Worker, NEW c, hit(w, c)
    PROVE  OrderOK'
<1> PICK t : t = work[w].task
  OBVIOUS
<1>1. t \in Task /\ entries[t] # None
  <2>1. work[w] \in Work /\ work[w].step # "idle"
    BY DEF TablesOK, hit
  <2> QED
    BY <2>1 DEF Work, hit, has_cached
<1>2. order' = Append(Without({t}), t) /\ entries' = entries
  BY DEF hit
<1>3. Names(order, t) /\ Once(order) /\ Len(order) <= MaxEntries /\ Len(order) \in Nat
  BY <1>1 DEF OrderOK, Once
<1>4. /\ Once(order') /\ Len(order') <= Len(order) /\ Len(order') \in Nat
      /\ \A u : Names(order', u) <=> Names(order, u) \/ u = t
  <2>1. /\ Once(Append(Without({t}), t))
        /\ Len(Append(Without({t}), t)) \in 1..(Len(order) + 1)
        /\ Len(Append(Without({t}), t)) <= Len(order)
        /\ \A u : Names(Append(Without({t}), t), u) <=> Names(order, u) \/ u = t
    BY <1>1, <1>3, MoveToEnd
  <2>2. /\ Once(order') /\ Len(order') \in 1..(Len(order) + 1) /\ Len(order') <= Len(order)
        /\ \A u : Names(order', u) <=> Names(order, u) \/ u = t
    BY <1>2, <2>1, Zenon
  <2> QED
    BY <1>3, <2>2
<1>5. Len(order') <= MaxEntries
  BY <1>3, <1>4, PacketCacheAssumption
<1>6. \A u \in Task : entries'[u] # None <=> Names(order', u)
  BY <1>2, <1>3, <1>4 DEF OrderOK
<1> QED
  BY <1>4, <1>5, <1>6 DEF OrderOK, Once, Names

LEMMA PutOrder ==
    ASSUME OrderOK, TablesOK, NEW w \in Worker, NEW c, put(w, c)
    PROVE  OrderOK'
<1>0. PICK t, queue, surplus : /\ t = work[w].task
                               /\ queue = Append(Without({t}), t)
                               /\ surplus = IF Len(queue) > Capacity THEN Len(queue) - Capacity ELSE 0
  OBVIOUS
<1>1. t \in Task
  <2>1. work[w] \in Work /\ work[w].step # "idle"
    BY DEF TablesOK, put
  <2> QED
    BY <1>0, <2>1 DEF Work
<1>2. /\ order' = SubSeq(queue, surplus + 1, Len(queue))
      /\ entries' = [u \in Task |->
                       IF \E i \in 1..surplus : queue[i] = u THEN None
                       ELSE IF u = t THEN [rev |-> work[w].rev, at |-> rev[t], age |-> 0]
                       ELSE entries[u]]
  BY <1>0 DEF put
<1>3. /\ Once(queue) /\ Len(queue) \in Nat /\ Len(queue) <= Len(order) + 1
      /\ \A u : Names(queue, u) <=> Names(order, u) \/ u = t
  <2>1. /\ Once(Append(Without({t}), t))
        /\ Len(Append(Without({t}), t)) \in 1..(Len(order) + 1)
        /\ \A u : Names(Append(Without({t}), t), u) <=> Names(order, u) \/ u = t
    BY <1>1, MoveToEnd DEF OrderOK
  <2>2. Len(order) \in Nat
    BY DEF OrderOK, Once
  <2>3. /\ Once(queue) /\ Len(queue) \in 1..(Len(order) + 1)
        /\ \A u : Names(queue, u) <=> Names(order, u) \/ u = t
    BY <1>0, <2>1, Zenon
  <2> QED
    BY <2>2, <2>3
<1>4. surplus \in Nat /\ surplus <= Len(queue) /\ Len(queue) - surplus <= MaxEntries
  BY <1>0, <1>3, PacketCacheAssumption DEF Capacity
<1>5. /\ Once(order') /\ Len(order') = Len(queue) - surplus
      /\ \A u : Names(order', u) <=> Names(queue, u) /\ ~(\E i \in 1..surplus : queue[i] = u)
  BY <1>2, <1>3, <1>4, FirstLeave
<1>6. [rev |-> work[w].rev, at |-> rev[t], age |-> 0] # None
  <2>1. work[w].rev \in Nat /\ rev[t] \in Nat
    BY <1>1 DEF TablesOK, Work
  <2> QED
    BY <2>1, PacketCacheAssumption
<1>7. \A u \in Task : entries'[u] # None <=> Names(order', u)
  BY <1>2, <1>3, <1>5, <1>6 DEF OrderOK
<1>8. Len(order') <= MaxEntries
  BY <1>4, <1>5
<1> QED
  BY <1>5, <1>7, <1>8 DEF OrderOK, Once, Names

LEMMA NextOrder == AnnounceInv /\ AnnounceInv' /\ OrderOK /\ [Next]_vars => OrderOK'
<1> SUFFICES ASSUME TablesOK, TablesOK', OrderOK, [Next]_vars PROVE OrderOK'
  BY DEF AnnounceInv
<1>1. ASSUME UNCHANGED cache PROVE OrderOK'
  BY <1>1 DEF cache, OrderOK, Once, Names
<1>2. ASSUME NEW w \in Worker, compile_packet(w) PROVE OrderOK'
  <2>1. CASE \E c \in SUBSET Task : hit(w, c)
    BY <2>1, HitOrder
  <2>2. CASE \E c \in SUBSET Task : put(w, c)
    BY <2>2, PutOrder
  <2>3. CASE miss(w) \/ prefetch_one(w)
    BY <1>1, <2>3, DropOrder DEF miss, prefetch_one
  <2>4. CASE \/ assemble_packet(w) \/ persist_packet_version(w) \/ commit(w)
             \/ \E u \in Task : schedule_skip(w, u)
             \/ \E u \in Task, x \in Prefetcher : schedule_prefetch(w, u, x)
    BY <1>1, <2>4 DEF assemble_packet, persist_packet_version, commit, schedule_skip,
       schedule_prefetch
  <2> QED
    BY <1>2, <2>1, <2>2, <2>3, <2>4 DEF compile_packet
<1>3. CASE \E p \in Project : handle_invalidation(p)
  BY <1>3, DropOrder DEF handle_invalidation
<1>4. CASE invalidate_all
  BY <1>4, DropOrder DEF invalidate_all
<1>5. CASE restart
  <2>1. order' = <<>> /\ \A t \in Task : entries'[t] = None
    BY <1>5 DEF restart
  <2> QED
    BY <2>1, PacketCacheAssumption DEF OrderOK, Once, Names
<1>6. CASE tick
  <2>1. order' = order /\ \A t \in Task : entries'[t] = None <=> entries[t] = None
    <3>1. ASSUME NEW t \in Task, entries[t] # None PROVE entries'[t] # None
      <4>1. [entries[t] EXCEPT !.age = @ + 1] # None
        BY <3>1, PacketCacheAssumption DEF TablesOK, Entry
      <4> QED
        BY <1>6, <3>1, <4>1 DEF tick
    <3> QED
      BY <1>6, <3>1 DEF tick
  <2> QED
    BY <2>1 DEF OrderOK, Once, Names
<1>7. CASE \/ \E w \in Worker, t \in Task : request(w, t)
           \/ \E w \in Worker : rollback(w) \/ clear_prefetch_future(w)
           \/ \E ts \in SUBSET Task :
                 change_silently(ts) \/ \E p \in Project : change(p, ts)
           \/ change_all \/ listen \/ listener_error \/ UNCHANGED vars
  BY <1>1, <1>7 DEF request, rollback, clear_prefetch_future, change, change_silently,
     change_all, listen, listener_error, vars, cache
<1> QED
  BY <1>2, <1>3, <1>4, <1>5, <1>6, <1>7 DEF Next, listen_loop

(* For any capacity and any number of tasks and threads, the cache stays     *)
(* within its capacity and its eviction order names each cached packet once: *)
(* PacketCache.put, get, _invalidate_project.                                *)
THEOREM CacheWithinBounds == Spec => []CacheIsBounded
<1>1. Init => OrderOK
  BY PacketCacheAssumption DEF Init, OrderOK, Once, Names
<1>2. OrderOK => CacheIsBounded
  <2> SUFFICES ASSUME OrderOK PROVE CacheIsBounded
    OBVIOUS
  <2>1. ASSUME NEW t \in Task, entries[t] # None
        PROVE  Cardinality({i \in DOMAIN order : order[i] = t}) = 1
    <3>1. PICK k \in DOMAIN order : order[k] = t
      BY <2>1 DEF OrderOK, Names
    <3>2. {i \in DOMAIN order : order[i] = t} = {k}
      BY <3>1 DEF OrderOK, Once
    <3> QED
      BY <3>2, FS_Singleton
  <2>2. \A i \in DOMAIN order : order[i] \in Task /\ Names(order, order[i])
    BY DEF OrderOK, Once, Names
  <2> QED
    BY <2>1, <2>2 DEF OrderOK, CacheIsBounded
<1> QED
  BY <1>1, <1>2, InitAnnounce, NextAnnounce, NextOrder, PTL DEF Spec

=============================================================================
