------------------------------ MODULE Analytics ------------------------------
(***************************************************************************)
(* The metrics of GET /v1/analytics/metrics: routers/analytics.py.  One    *)
(* request reads tasks, edges, runs and packet versions and answers with   *)
(* figures that are meant to tell the same story.  Times are whole hours   *)
(* since an epoch at midnight; durations of runs are minutes; percentiles  *)
(* and ratios are in hundredths, rounded down.  The SQL percentile_cont    *)
(* and the Python _percentile interpolate alike.  The code reads the rows  *)
(* by several statements, each with what is committed by then; here they   *)
(* are read at once, as while nobody writes.                               *)
(***************************************************************************)
EXTENDS Listed

CONSTANTS
    Now,               \* when the request is served
    MaxPacketSample,   \* MAX_PACKET_SAMPLE
    Stores             \* the rows there may be

(* Tasks are numbered from 1; what no task stands for is 0. *)
unresolved == 0

ASSUME RowsAreTyped ==
    /\ Now \in Int /\ MaxPacketSample \in Nat
    /\ \A s \in Stores :
         /\ IsList(s.task) /\ IsList(s.edge) /\ IsList(s.run) /\ IsList(s.packet)
         /\ \A i \in DOMAIN s.task : s.task[i].created_at \in Int /\ s.task[i].updated_at \in Int
         /\ \A k \in DOMAIN s.edge : s.edge[k].dst # unresolved
         /\ \A n \in DOMAIN s.run : s.run[n].minutes \in Int
         /\ \A n \in DOMAIN s.packet : IsList(s.packet[n].learnings)

VARIABLES
    store,      \* the rows that are read
    metrics     \* the answer, {} before

metricVars == <<store, metrics>>

(* _parse_window: a number of days from 1 to 365. *)
parse_window(days) == days \in 1..365

start_at(days) == Now - 24 * days

(* The sum of counts: one mark for each. *)
Sum(count) == Cardinality(UNION {{x} \X (1..count[x]) : x \in DOMAIN count})

(* _percentile of the values of some rows: between the two nearest. *)
percentile(values, percent) ==
    LET rows == DOMAIN values
        before(x) == {y \in rows : values[y] < values[x] \/ (values[y] = values[x] /\ y < x)}
        ordered == Ordered([x \in rows |-> before(x)])
        position == (Cardinality(rows) - 1) * percent
        lower == values[ordered[1 + position \div 100]]
        upper == values[ordered[1 + (position + 99) \div 100]] IN
    IF rows = {} THEN 0 ELSE 100 * lower + (position % 100) * (upper - lower)

-----------------------------------------------------------------------------
(* _cycle_time_metrics: of the tasks done in the window, by type. *)
cycle_time_metrics(since) ==
    LET done == {i \in DOMAIN store.task : store.task[i].state = "done" /\ store.task[i].updated_at >= since}
        hours(type) == [i \in {i \in done : store.task[i].task_type = type} |->
                          store.task[i].updated_at - store.task[i].created_at] IN
    [type \in {store.task[i].task_type : i \in done} |->
       [count |-> Cardinality(DOMAIN hours(type)), median |-> percentile(hours(type), 50),
        p95 |-> percentile(hours(type), 95)]]

(* _blocked_heatmap: each blocked task stands under every task that an edge *)
(* which is not superseded makes it wait for, once for each such edge, or   *)
(* under "unresolved".                                                      *)
Blocked(since) ==
    {i \in DOMAIN store.task : store.task[i].state \in {"blocked", "parked"} /\ store.task[i].updated_at >= since}

Waits(i) == {k \in DOMAIN store.edge : store.edge[k].src = i /\ ~store.edge[k].superseded}

cell(task) ==
    LET blocked == [e \in DOMAIN task |-> Now - store.task[task[e]].updated_at]
        hours == [e \in DOMAIN task |-> IF blocked[e] > 0 THEN blocked[e] ELSE 0] IN
    [waiting |-> {task[e] : e \in DOMAIN task}, task_count |-> Cardinality(DOMAIN task),
     total |-> Sum(hours), p95 |-> percentile(hours, 95)]

blocked_heatmap(since) ==
    LET waits == UNION {Waits(i) : i \in Blocked(since)}
        free == {i \in Blocked(since) : Waits(i) = {}}
        under(b) == {k \in waits : store.edge[k].dst = b} IN
    [b \in {store.edge[k].dst : k \in waits} \cup {unresolved : i \in free} |->
       cell(IF b = unresolved THEN [i \in free |-> i] ELSE [k \in under(b) |-> store.edge[k].src])]

-----------------------------------------------------------------------------
(* _run_durations: the runs that ended in the window; no actor is "system". *)
Ended(since) ==
    {n \in DOMAIN store.run : store.run[n].started /\ \E t \in store.run[n].ended_at : t >= since}

HANDOFF_BUCKETS == <<[low |-> 0, high |-> {15}], [low |-> 15, high |-> {30}],
                     [low |-> 30, high |-> {60}], [low |-> 60, high |-> {120}], [low |-> 120, high |-> {}]>>

(* Buckets that leave out their lower bound. *)
handoff_latency_histogram_open(since) ==
    [k \in DOMAIN HANDOFF_BUCKETS |->
       Cardinality({n \in Ended(since) :
         store.run[n].minutes > HANDOFF_BUCKETS[k].low
           /\ \A m \in HANDOFF_BUCKETS[k].high : store.run[n].minutes < m})]

handoff_latency_histogram(since) ==
    [k \in DOMAIN HANDOFF_BUCKETS |->
       Cardinality({n \in Ended(since) :
         store.run[n].minutes >= HANDOFF_BUCKETS[k].low
           /\ \A m \in HANDOFF_BUCKETS[k].high : store.run[n].minutes < m})]

Actors(since) == {store.run[n].actor : n \in Ended(since)}
By(a, since) == {n \in Ended(since) : store.run[n].actor = a}

handoff_latency_by_actor(since) ==
    [a \in Actors(since) |->
       LET minutes == [n \in By(a, since) |-> store.run[n].minutes] IN
       [count |-> Cardinality(By(a, since)), median |-> percentile(minutes, 50), p95 |-> percentile(minutes, 95)]]

success_bucket(status) ==
    CASE status \in {"done", "completed", "complete", "succeeded", "ok"} -> "complete"
      [] status \in {"rejected", "dlq", "error", "failed", "test_failed"} -> "error"
      [] OTHER -> "parked"

agent_success_rates(since) ==
    [a \in Actors(since) |->
       LET of(bucket) == Cardinality({n \in By(a, since) : success_bucket(store.run[n].status) = bucket})
           total == of("complete") + of("parked") + of("error") IN
       [complete |-> of("complete"), parked |-> of("parked"), error |-> of("error"),
        rate |-> IF total = 0 THEN 0 ELSE (100 * of("complete")) \div total]]

(* _review_load: the last days, today included, with what waits for review *)
(* since the day it was last written.                                       *)
InReview(t) == t.state \in {"validated", "needs_ghost_triage"} \/ t.labelled
DayOf(time) == time \div 24
Days(days) == (DayOf(Now) - days + 1)..DayOf(Now)

review_load(since, days) ==
    [day \in Days(days) |->
       Cardinality({i \in DOMAIN store.task :
         /\ InReview(store.task[i]) /\ store.task[i].updated_at >= since
         /\ DayOf(store.task[i].updated_at) = day})]

-----------------------------------------------------------------------------
(* _packet_payloads: the newest packets of the window, which are numbered   *)
(* in the order of their creation; those without a surface area, or without *)
(* a list of learnings, are no samples.                                     *)
packet_payloads(since) ==
    LET recent == {n \in DOMAIN store.packet : store.packet[n].created_at >= since} IN
    {n \in recent : Cardinality({m \in recent : m > n}) < MaxPacketSample}

(* _packet_surface_area: the scope's, else the contract's. *)
packet_surface_area(p) == IF p.scope # {} THEN p.scope ELSE p.contract

(* _learning_surfaces; a task that is gone has none. *)
learning_surfaces(i) == IF i \in DOMAIN store.task THEN store.task[i].surface ELSE {}

(* _precision_for_packet: of the first k learnings, those whose task is     *)
(* known count; a learning without a task is not compared.                  *)
precision_for_packet(p, k) ==
    LET comparable == {n \in DOMAIN p.learnings : n <= k /\ p.learnings[n] # {}}
        hits == {n \in comparable :
                   \E i \in p.learnings[n] : learning_surfaces(i) \cap packet_surface_area(p) # {}} IN
    IF comparable = {} THEN 0 ELSE (100 * Cardinality(hits)) \div Cardinality(comparable)

retrieval_precision(since) ==
    LET samples == {n \in packet_payloads(since) :
                      packet_surface_area(store.packet[n]) # {} /\ store.packet[n].listed}
        mean(k) == IF samples = {} THEN 0
                   ELSE Sum([n \in samples |-> precision_for_packet(store.packet[n], k)]) \div Cardinality(samples) IN
    [sample_size |-> Cardinality(samples), at_5 |-> mean(5), at_10 |-> mean(10)]

-----------------------------------------------------------------------------
analytics_metrics(days) ==
    LET since == start_at(days) IN
    /\ metrics = {}
    /\ metrics' = {IF ~parse_window(days) THEN [days |-> 0]
                   ELSE [days         |-> days,
                         cycle_time   |-> cycle_time_metrics(since),
                         heatmap      |-> blocked_heatmap(since),
                         histogram    |-> handoff_latency_histogram(since),
                         by_actor     |-> handoff_latency_by_actor(since),
                         precision    |-> retrieval_precision(since),
                         success      |-> agent_success_rates(since),
                         review_load  |-> review_load(since, days)]}
    /\ UNCHANGED store

MetricsInit == store \in Stores /\ metrics = {}
MetricsNext == \E days \in Int : analytics_metrics(days)
MetricsSpec == MetricsInit /\ [][MetricsNext]_metricVars

-----------------------------------------------------------------------------
(* Percentiles lie among the values, in their order. *)
Among(c, values) ==
    /\ c.median <= c.p95
    /\ \E n \in DOMAIN values : 100 * values[n] <= c.median
    /\ \E n \in DOMAIN values : c.p95 <= 100 * values[n]

(* The figures of one answer agree with each other and with the rows: every *)
(* run that ended stands in the figures of its actor, under one outcome,    *)
(* and in one bucket of the histogram unless it ended before it started;    *)
(* every blocked task under each task it still waits for, or as unresolved, *)
(* and never both; every task in review that was written on one of the days *)
(* shown, once; percentiles lie among the values in their order, and ratios *)
(* between 0 and 1: routers/analytics.py.                                   *)
MetricsAgree ==
    \A m \in metrics : m.days > 0 =>
      LET since == start_at(m.days)
          runs == Cardinality(Ended(since)) IN
      /\ Sum(m.histogram) = Cardinality({n \in Ended(since) : store.run[n].minutes >= 0})
      /\ Sum([a \in DOMAIN m.by_actor |-> m.by_actor[a].count]) = runs
      /\ Sum([a \in DOMAIN m.success |->
                m.success[a].complete + m.success[a].parked + m.success[a].error]) = runs
      /\ \A a \in DOMAIN m.by_actor : Among(m.by_actor[a], [n \in By(a, since) |-> store.run[n].minutes])
      /\ \A i \in Blocked(since) :
           {b \in DOMAIN m.heatmap : i \in m.heatmap[b].waiting}
             = IF Waits(i) = {} THEN {unresolved} ELSE {store.edge[k].dst : k \in Waits(i)}
      /\ \A b \in DOMAIN m.heatmap : m.heatmap[b].task_count >= Cardinality(m.heatmap[b].waiting)
      /\ Sum(m.review_load) =
           Cardinality({i \in DOMAIN store.task :
             InReview(store.task[i]) /\ DayOf(store.task[i].updated_at) \in Days(m.days)})
      /\ m.precision.at_5 <= 100 /\ m.precision.at_10 <= 100
=============================================================================
