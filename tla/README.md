# AgenticQueue: TLA+ models, model checking and proofs

AgenticQueue is a FastAPI service (`src/apps/api`) over PostgreSQL. Agents claim
tasks from a queue over REST or MCP, work from a compiled *packet*, submit a
result, and humans approve or reject it. This directory holds TLA+ modules of
its components, TLC configurations that check small instances of them, and TLAPS
proofs for instances of any size. `PROJECT.json` names, for every definition, the
lines of source it stands for. Paths below are relative to
`src/apps/api/src/agenticqueue_api/` unless they begin with `src/`.

Contents: [1 the system](#1-the-system), [2 the modules](#2-the-modules),
[3 the runs](#3-the-runs), [4 disagreements found](#4-disagreements-found),
[5 the proofs](#5-the-proofs), [6 not modelled](#6-what-is-not-modelled-and-why),
[7 the plan](#7-the-plan).

## 1 The system

### How a request runs

`app.py` (697-712) stacks the middlewares: request id, size limit, authentication,
rate limit, secret redaction, idempotency, handler. Authentication (`auth.py`
327-369) opens **one** database session per request and commits it *after* the
handler has answered, with whatever status; an exception that leaves the stack
rolls it back. Sessions run at READ COMMITTED. Handlers load ORM rows without
locks, decide, and flush the columns they changed. Every ORM insert, update or
delete also inserts an `audit_log` row, whose trigger takes one global advisory
lock until the transaction ends. So transactions that audit are serial from
their first audited write on, but what they *read* before that may be stale.
Claims, releases and unlocks are single UPDATE statements outside the ORM and are
not serialised that way. This asymmetry is behind most of the hazards below.

### Components

| Component | State | Operations | Hard behaviour | What makes it correct |
|---|---|---|---|---|
| Task queue (`repo/queue.py`) | the task rows: state, claimant, attempts | claim next, claim one, release, force unlock, reclaim | SKIP LOCKED selections of overlapping transactions; claims name any states | a row is taken as asked for; each operation is as if indivisible; a release ends one's own claim |
| Task lifecycle (`task_actions.py`, `app.py`) | task rows, runs | submit, approve, reject, reset; unblocking of dependents | unlocked read, later write; two lock orders | a completion unblocks exactly the dependents that are ready; every request ends |
| Transition engine, validator, DoD (`transitions.py`, `task_retry.py`, `validator.py`, `dod.py`, `dod_checks/`) | none of their own | apply_transition, validate, run the checks, aggregate | a review judges an old report, or one a client stored; policies change between attempts | done means proven; a dead letter has used up its attempts |
| Idempotency (`middleware/idempotency.py`, `auth.py`) and MCP tools (`mcp/*`) | idempotency_key rows | lookup, replay, conflict, store, expire, clean up; tool calls through the REST stack | three transactions per request; keys the tools make themselves | a call succeeds at most once per key; a replayed answer is the call's own |
| Packet cache (`packet_cache.py`, `packet_invalidation.py`, `packet_versions.py`, `compiler.py`) | LRU, prefetch jobs, listener thread, packet_version rows | get, fill, prefetch, notify, invalidate, expire | a fill races a notification; lost notifications; rows of other projects | bounded; stale only for a known reason and a bounded time |
| Packet contents (`compiler.py`, `retrieval/*`, `learnings/ranker.py`) | none | gather decisions, rank learnings | many statements, each with its own view; nested limits | what is shown was there; nothing found is dropped |
| Audit ledger (`audit.py`, `routers/audit.py`, migration `20260420_11`) | audit_log, its sequence and lock | insert under the trigger, verify, page | waits, rollbacks, savepoints; reading while it grows | the hash chain verifies for every reader and grows at its end; pages skip nothing |
| Dependency graph and decisions (`repo/graph.py`, `models/edge.py`, `routers/decisions.py`) | edges | create, update, link, supersede, search paths | check, then insert, without a lock; depth limit | acyclic; one meaning of "active" |
| Entity CRUD (`crud.py`, `pagination.py`) | ten kinds of rows | create, list, patch, delete | a patch validated against columns another one replaces | what is stored was validated; pages miss nothing |
| Learnings (`learnings/*`, `routers/learnings.py`) | drafts, learnings, supersede and related edges | draft, edit, confirm, merge, reject, supersede, promote, write by hand | two reviewers of one draft; read-modify-write of evidence; generic writes past every check | one learning per draft; chains end; no evidence lost; trouble stays with the rows it began with |
| Roles and capabilities (`roles.py`, `capabilities.py`, `routers/rbac.py`) | assignments, grants | assign, revoke, grant, require | double assignment | a role gives its capabilities as long as it is assigned, and no longer |
| Tokens, sessions, bootstrap (`auth.py`, `routers/auth_tokens.py`, `local_auth.py`, `routers/bootstrap.py`) | api_token, users, auth_sessions | issue, rotate, revoke, first run, sign in | simultaneous first runs and rotations | one owner; a rotation replaces the key |
| Task types (`task_type_registry.py`) | a directory of files and its copy in memory | register, load, reload | two-file writes outside the lock, half-written files | schema and policy belong together |
| Rate limit, payload limits, redaction (`middleware/*`) | token buckets | refill and take, read a body, scan | refill arithmetic, bodies in chunks | never more than the burst plus the rate; handlers see only checked bodies |
| Memory (`memory/*`, `routers/memory.py`) | memory_item rows | ingest, full sync | pruning beside another sync | what is on disk is what is stored |
| Analytics (`routers/analytics.py`) | none | seven figures of one response | the same rows counted in several ways | the figures agree |
| CLI, web interface, migrations, seed, configuration | none of their own | call the above, or run once | none of their own | - |

They interact through rows (queue and lifecycle), through the audit lock (every
ORM write), through NOTIFY and a listener thread (every ORM write to the packet
cache), and through the request's transaction (idempotency around everything).

`PROJECT.json` lists the hazards of these components, each at the line where it
bites, with the properties that cover it or the reason why none does.

## 2 The modules

| Module | Models |
|---|---|
| `TaskRows` | task rows and READ COMMITTED request transactions: overlay of own writes, row locks, changed-column updates, the audit lock |
| `AtomicQueue` | abstract: what the queue promises, one indivisible change at a time |
| `TaskQueue` | `repo/queue.py` and its endpoints; refines `AtomicQueue` |
| `TaskActions` | extends `TaskQueue` with submit, approve, reject, reset, unblocking, retry and DLQ, deadlock and statement timeout: the queue and the lifecycle composed on the same rows |
| `Idempotency` | the idempotency middleware inside the auth middleware's transaction |
| `ToolCalls` | the MCP tools: what key and what request a call becomes, and what the stack answers |
| `AuditChain`, `AuditQuery` | the audit trigger, its lock, sequence and hash chain, savepoints and the verifier; the pages of the ledger while it grows (extends the former) |
| `PacketCache` | cache, prefetching, listener and the transactions of compile_packet |
| `DependencyGraph`, `PacketDecisions` | edges, their validation and their searches; the decisions a packet gathers while edges are written (extends the former) |
| `EntityRecords` | the generic create, list, patch and delete, on tasks and policies |
| `LearningStore` | drafts and learnings, their own routes and the generic ones for learnings and edges, and the deletion of a draft's task or run |
| `Roles`, `AccessKeys`, `Bootstrap` | assignments and grants; API keys in the transactions they authenticate; first run and signing in |
| `TaskTypes`, `MemorySync` | the type registry and its directory; sync of files into memory rows |
| `Transitions`, `DodChecks`, `Submission` | pure: the transition engine and policies; the ten checks and the report; the rules of the validator |
| `Completion` | one task from its claim to done or DLQ with all its runs, with the three modules above in full |
| `Redaction`, `RequestPath` | pure: the secret scan; a request on its way through all middlewares |
| `Retrieval`, `Drafts`, `Analytics` | which learnings are shown; which drafts a run calls for; the metrics |
| `Listed` | pure: lists as Python builds them: slices, sorting, comprehensions, deduplication |
| `Absent` | `None`, SQL's NULL, for the modules that share an instance |
| `MC*` | finite instances for TLC |
| `TaskProofs` | theorems about `TaskQueue` and `TaskActions` |
| `PacketCacheProofs`, `LearningStoreProofs` | theorems about the module they are named after |
| `LedgerProofs` | theorems about `Idempotency`, `ToolCalls`, `AuditChain` and `AuditQuery` |
| `RulesProofs` | theorems about `Completion` (with `Submission`, `DodChecks`, `Transitions`), `RequestPath` (with `Redaction`), `Retrieval`, `Drafts` and `Analytics`, and about `Listed` |
| `AccessProofs` | theorems about `Bootstrap`, `AccessKeys` and `Roles` |
| `RecordsProofs` | theorems about `TaskTypes`, `MemorySync`, `EntityRecords`, `DependencyGraph` and `PacketDecisions` |
| `Counting` | lemmas all of these need: least numbers, and the places of a finite set's members in an order |

**Task rows.** `task[t]` is the committed row; `writes[r][t]` what the open
transaction of request `r` has set. A statement reads the overlay of the two. An UPDATE
names only columns that differ from the loaded row, as SQLAlchemy does, and
applies to the newest committed version: that is why a stale handler can undo
part of a row and keep another part. A written row is a locked row; `auditor` is
the advisory lock. `Rollback` at any step stands for exceptions, lost connections
and crashes. Each handler becomes: a load with the checks that answer 4xx,
`latest_dod_report` (approve), `insert_run` (valid submissions), `flush_task`,
`audit_task`, `check_dependent`/`requeue_dependent` once per dependent in any
order, `Commit`. A request that fails its checks changes nothing and is not
represented. The client names the states a claim takes a row from and the state it
writes (`Asks`; `app.py` 782-798): it may take a row another agent holds, a blocked or a
finished one, and it may write done, which unblocks nobody. The create endpoint leaves
rows in any state and with any claimant (`Created`). `crossed` is a history variable: the
rows that claims put in, or took out of, blocked or done while a completion held the audit
lock. What the newest run says at an approval is left open, since clients store runs too
(`POST /v1/runs`). `write_timeout` ends a wait, as the statement timeout or
PostgreSQL's deadlock detection does. What validation makes of a payload is an
input (`Payloads`) here; `Completion` has the same handlers one at a time with the
validation itself. Priority and sequence are the constant `Rank`; label and
project filters are sets of rows.

**Idempotency and tools.** Requests go through lookup, handle, store and commit in the
order of the middlewares; lookup and store have transactions of their own.
`Digest` is what the code compares: actor and body, not the path. The handler is
a step that succeeds or is refused; what it does is counted in `effects` when the
outer transaction commits. `abort` is an exception or crash at any step. `expire`
lets 24 hours pass, longer than any request. A tool's call meets the same middleware:
three tools derive a key (`mcp/submit_tools.py` 314, 362, 483); the other tools that
change something send none and are answered 400, and tools with a session of their
own commit it only if they change something.

**Packet cache.** A packet is a task and a revision, the number of committed
changes of the rows it is compiled from. `missed` and the entry's `at` are history
variables. A change of a learning, a decision or a task notifies the listener of one
project, its own, but any packets may hold it (`change(p, ts)`): learnings are retrieved
from every project, and decisions come from the tasks a task depends on. A packet of
another project has then missed it. Notified changes (ORM flushes) hold the audit lock, as
storing a new version does; `change_silently` is the queue's raw UPDATE, a new artifact, or
another policy of a project or a workspace.
The listener starts late, reads one notification at a time, and dies on an error,
for good, as `_listen_loop` does. `compile_packet` puts the packet in the cache
before the transaction commits, and so does the model.

**Audit ledger.** A row is its position and two hashes; a hash is the pair of what
was hashed, so it is injective. An INSERT begins (`_write_audit_row`) and then
waits in the trigger for the lock; the trigger's SELECT sees what is committed when
it runs. The sequence is never rolled back. `persist_packet_version` writes
inside a savepoint, and `rollback_to_savepoint` gives up a lock taken inside it.
`AuditQuery` stamps each row with the trigger's `clock_timestamp()` and its random
id, and walks by the cursor clause of `routers/audit.py`; it assumes that
the clock is never set back.

**Edges and packets.** A request decides on an edge with what it has read
(`editing`) and flushes later; `late` marks edges another write overtook. There are
two searches (the Python breadth-first one of the validation, the recursive SQL
query) and two definitions of an active edge; an empty `superseded_at` is active
for Python and not for SQL. A packet asks for decisions in one statement per question
(task, ancestors, anchors, neighbors in each direction, supersessions); `Meanwhile`
keeps what was true at some time since it began. Packets look for decisions along
edges *into* the task, unblocking (`task_actions.py` 429-467) follows edges *out of*
the dependent; both directions are as in the code.

**Records.** A patch is laid over the row as loaded and validated whole; the flush
writes the columns that differ from those loaded, onto the newest row. `overtaken`
and `unchecked` mark requests and rows that another write came in between of.
A listing is a walk, one request per page, over `(created_at, updated_at, id)`;
`updated_at` is the time the writer's transaction began.

**Learnings.** Each route is a read and a later write, and any two may overlap. The
generic routes write in one step: `POST`, `PATCH` and `DELETE` of learnings and of edges, and
`DELETE` of a task or a run, which takes its drafts along. They check none of what the routes
of the ledger check. `raced` collects the rows that two requests had in hand at the same
time and those that a generic route wrote, removed or changed the edges of. On those the
code keeps little, and the model shows it: two replacements fork a chain, a merge loses
evidence, two reviewers make two learnings of one draft, a client deletes the learning of a
confirmed draft or makes a cycle of edges. The properties are statements of confinement: such
trouble stays with these rows, and all others are as they should be, through any number of
later confirmations, merges, promotions and replacements. A task keeps its project here
(`PATCH` of `project_id` is left out), and a row without an embedding has one computed
when it is written, not when it is first compared.

**Access.** `Roles` has `assign_role` in its reads and its writes, each grant with
the assignment it came from; an actor of type admin passes every check (`IsAdmin`, FALSE in
the run, where grants are what decides; the proofs hold for both). `AccessKeys` notes a
key's use with SKIP LOCKED, in the transaction of the request that used it. A rotation does
not ask whether the row of its key is still there: if it was deleted since the request was
authenticated, there is nothing to revoke and a successor all the same. `Bootstrap` has the advisory lock, the
two unique indexes, a crash at each step, and cookies that a client keeps although
the transaction that issued them was lost.

**Rules.** The pure modules are operators over small records: what a check, a
pattern or a score finds is an input; how the outcomes are combined, limited,
ordered and counted is the model. `Completion` and `RequestPath` run them as a
state machine, so that a property relates several attempts, or several requests.
`Completion` keeps the run rows of its task in the order of their `created_at`: submissions
add one, and clients store, rewrite and delete them (`crud.py` 631-765), at a time of their
choice; an approval takes the newest, whoever wrote it. What GitHub answers is by
repository, commit and check, as it is asked. The token bucket is one step: `allow`
is called on the event loop alone, with nothing awaited between the clock and the lock
(`rate_limit.py` 48-60, 106), in the one process that holds the buckets.
`Analytics` draws the seven figures from one state of the rows. The code reads tasks, edges,
runs and packets by several statements at READ COMMITTED, so agreement of figures
from *different* tables is shown for a database at rest; those drawn from one
statement's rows agree in any case.
`Retrieval`, `Drafts` and `Analytics` answer one request each, from rows, a trace or
learnings that may be any of a constant set. Their lists are functions of positions
(`Listed`): the members of a set in an order, what stands at some positions of a
list, the entries of a list of lists one after another. A sum is the number of marks, so
many for each summand.

## 3 The runs

| Run | Question | Instance |
|---|---|---|
| `task_queue` | Do overlapping queue transactions, whatever states claims name, implement the indivisible queue (`ImplementsAtomicQueue`, a refinement)? Does a release only end the releaser's claim? | 2 tasks, 2 agents, 1 admin, 3 transactions |
| `lifecycle` | Two dependencies finished at once: does the second completion unblock the dependent, and does every request end, with locks taken in two orders? | 3 tasks, 2 requests, nobody resets, fairness |
| `reset` | Unblocking, and taking rows as asked for, while an admin resets and unlocks, submissions fail, and claims take blocked rows or write done | 2 tasks, 2 requests |
| `ledger` | What requests leave behind: one success per key (3 requests, 1 key), tools answered with their own response (2 agents), a chain that verifies and grows at its end (3 transactions, 4 positions), pages that show it (2 transactions, 3 rows) | four instances |
| `packet_cache` | Bounded LRU, no prefetch registration left behind, staleness only in transit or of rows nobody was told of | 2 tasks, 1 request thread, 1 job, 1 entry, all faults |
| `packet_stale` | A superseded packet is in the end served no more | 1 task, 2 threads, TTL 2, all faults, fairness |
| `learnings` | One learning per draft, no evidence lost, chains that end, no duplicate nobody was told of, one flag per lesson, beside rows that were raced for or rewritten by clients | three instances: `review` (2 requests, 2 drafts and what comes of them, a learning written by hand), `curate` (2 requests, 3 learnings written by hand), `client` (2 drafts, 2 learnings, one request and a generic write at any point) |
| `records` | Decisions of a packet, cycles, contracts, attached policies, pages, the registry's files, syncs | six instances |
| `access` | Grants and their causes, rotations, last use, one owner | three instances |
| `rules` | Done is proven, dead letters are spent, rates, bodies, answers, drafts, metrics | five instances |
| `submit_by_claimant`, `idempotency_replay` | statements of the repository that interleavings refute, see 4 | smallest that shows it |

Components that share nothing share a run: a variable `which` picks an instance in
the initial state, and every action asks for its own. The instances do not interact;
they are one run because they ask what one part of the service leaves behind.

**Bounds.** Two overlapping requests are enough for a pair of stale reads, lock
orders and lost updates, since the rows a request touches are its own task and
that task's dependents; the queue and idempotency instances use three so that one
request can free what a second takes while a third still holds a stale view.
`AttemptBound` stops failures from being *started* on rows with that many
attempts: overlapping resets and failures can otherwise raise `attempt_count`
past every threshold. The threshold `MaxAttempts` is 2 in `lifecycle` and `reset`, so
that a first failure goes back to the queue; `Completion` counts further, to the DLQ. `MaxRev` bounds the changes of a task, `Prefetcher` the jobs at a
time (a job without a slot is skipped, as one that fails at once), `MaxPosition` the
rows of the ledger (the INSERT that would pass it waits, and can be rolled back),
`MaxTime` the clock's ticks, `MaxRow` the rows of a memory scope, `MaxCookies` the
cookies kept. In `lifecycle`, three tasks are only claimed, submitted and reviewed; one
task on its own is also released, reset and unlocked. In `learnings` one race, or one generic write that
rewrites rows, happens in a behaviour, at any time. In `ledger`, a second walk begins only when the ledger is full. In `records`: files are edited by hand one at a time; the two
registrations swap the texts of two types; a crash happens in the instance
without reloading (a reload after a crash is the same load); in `packet` one request
writes edges, one at a time, from when the packet is begun (before that there is
nothing to race); in `pages` updates change the type, one at a time. In `rules`, inputs are chosen so
that every rule decides at least once, and the instances of pure rules are
enumerated whole; a task has two runs at a time (`Runs`: one to be approved and one before or
after it), no failure starts on a row with `AttemptCap` (2) attempts, and a client's report says that
everything is checked, which is the one that matters. One store has a run that ended before it started and a task dated in the
future: the generic create route takes both timestamps from the client, so `MetricsAgree` owes
such a run no bucket of the histogram, and such a task none of the days shown. Deadlock checking is off where the instance may stop: all tasks
blocked or done and nobody to reset them, a walk over, a packet made.

**Fairness.** `TaskActions!FairSpec`: strong fairness of a request's steps, since
PostgreSQL queues the waiters of a lock in order, and weak fairness of
`write_timeout`, since a statement that waits long enough is cancelled. No client
is obliged to send anything. `PacketCache!FairSpec`: time passes, threads run, and
the audit lock is granted in order (strong fairness of `persist_packet_version`).
Nothing is assumed of the listener: it may be dead.

Each property is paired in `PROJECT.json` with a mutant, a plausible slip in one
mapped definition (kept next to it in the module) that
makes the run fail: no SKIP LOCKED re-check, no audit lock, one finished
dependency taken for all, a trigger that reads the statement's snapshot, an LRU
loop off by one, a hit that renews the age, a cursor compared by time alone, and so on.

**What the properties say, and what they do not.** Where the code keeps a promise
only if requests do not overlap, the property says so with a history variable rather than
a bound: `CyclesComeFromOverlaps` (every cycle within the search depth has an edge whose
writer was overtaken), `ContractsFit` (rows only one update wrote), `AttachedPolicyFixed`,
`RotationsReplace`, and the five of `learnings`. In the same way `UnblockComplete` and
`UnblockSound` except the rows in `crossed`: a claim takes no audit lock, so one that names
blocked or done may commit between the check of a dependent and the commit that unblocks
it. `UnblockComplete` is about the commit of a completion; it does not say that no
dependent is ever left blocked, since a claim that writes done, or a row created so, leaves
one. `TakenAsAsked` asks of a claim, a release and an unlock that the row is in a state they
asked for when they commit; two claims that ask for free rows therefore never win one row,
and one that asks for held rows takes them. `StaleIsAnnounced` is about changes of a packet's own
project or of all; what else a packet holds is `StaleExpires`'s. `NoSilentDuplicate` also excepts a
learning linked to one written by hand: the comparison shows a reviewer only the best
match, and may have shown that one. `PacketsShowTheDecisions` asks for the decisions that were there all the
while and forbids those that never were. `WalksShowTheLedger` owes the reader
what was committed before the first page; a row committed meanwhile is newer
than every page and appears in the next walk. `DoneIsProven` says of a step that finishes a
task that the run submitted with it, or at an approval the newest run, proves every item of the contract
that run was made against. It excepts what the code leaves to clients: a claim that
names done, and a newest run that a client wrote.

## 4 Disagreements found

* **A submission can complete another agent's task** (`task_actions.py` 533).
  The claimant check is made on the loaded row. If the claim is released and taken
  by another agent before the flush, the UPDATE (which names only changed columns)
  completes the task the other agent holds. Message at line 536: "Only the claiming
  actor may submit this task". Run `submit_by_claimant`.
* **A replayed success may never have happened** (`middleware/idempotency.py` 328).
  The response is stored in a transaction that commits before the work does; if
  the request is then cancelled or the process dies, every retry for 24 hours is
  answered with it. `src/docs/security/threat-model.md` 103 gives "to prevent replay
  drift" as the purpose. Run `idempotency_replay`.

Behaviours met while modelling that a reader should know of; the modules have the steps that
lead to them, and the properties except them by name (section 3) or do not speak of them:

* a rejection or submission that loaded a row before an approval committed writes its
  own state over done (`task_actions.py` 848); attempts are counted from the loaded row,
  so overlapping failures, or a failure beside a reset (`app.py` 897), lose or keep one too many;
* a task created blocked after its dependencies were done, or whose last unmet edge is
  superseded, is not unblocked by anything (`task_actions.py` 457);
* a packet assembled before a change and put after its invalidation is served until it
  expires (`compiler.py` 558); a transaction rolled back after the put leaves a packet whose
  version was never stored; the newest stored version need not be the one an agent holds
  (`packet_versions.py` 80);
* two retries that both find an *expired* key can both run (`middleware/idempotency.py` 113);
* a denied request commits what it flushed before the check (`capabilities.py` 101);
* a registration that dies between its two writes leaves a directory the service refuses to
  start with (`task_type_registry.py` 203);
* a claim may name any states (`app.py` 786): it takes rows that are held, blocked or done, and finishes
  a dependency without unblocking anyone; POST of a task takes state and claimant as they come;
* an approval trusts the newest run of the task, which `POST /v1/runs` may have stored with a report
  and a time of the client's choice (`task_actions.py` 252);
* the packets of other projects that hold a learning or a decision are not told of its change, and
  nobody is told of another policy of a project or a workspace (`packet_invalidation.py` 53);
* a key deleted while a request it authenticated is on its way to rotate it still gets a
  successor (`routers/auth_tokens.py` 197);
* the generic routes of learnings and edges check none of what the ledger's own routes
  guard (`crud.py` 631-765): confirmed drafts lose their learning, evidence is dropped, chains fork
  or close, duplicates lose their links; the ledger's own overlaps do some of the same;
* promotion reads learnings through the session's identity map (`learnings/promotion.py` 108);
* no GitHub client is installed in production, so `ci_status` and `pr_mergeable`
  items stay blocked (`dod_checks/ci_status.py`); `flag_expired_candidates`, `expire` and
  `create_drafts` have no callers outside tests; the reranker sees an access count of zero.

## 5 The proofs

All theorems are proved for any number of tasks, requests, keys, threads and rows,
under the named assumptions on constants of their module (types, that `None`
is none of the values; for `LearningStore` and `EntityRecords` that the rows are
finitely many; for `RequestPath` that a burst pays for a request, a string has finitely
many matches, and no rule matches twice at one start; for `Completion` that the policy
pack is complete; for `Retrieval` that scores, weights and limits are numbers and a task has
finitely many tokens; for `Drafts` and `Analytics` that what JSON and SQL give as a list is
one, times are numbers, and an edge leads to a task), which every run evaluates.

* **`TaskProofs`**, two sections.
  `QueueTypeCorrect`, `QueueRefinesAtomicQueue`,
  `ReleaseByHolderHolds`. The invariant says that an open queue request has
  written exactly its own row, that no two requests have written the same row, and
  that what the row looked like when the statement judged it is still what is
  committed, because the writer holds its lock. So each commit is an abstract step.
  `TypeCorrect`, `NoLostUnblock`,
  `UnblocksAreSound`, `ClaimsAreExclusive`, `ReleasesStayWithHolder`. Neither
  property of unblocking is inductive. The strengthening follows a request through
  its steps: once past its audit row it holds the advisory lock, under which only
  claims, releases and reclaims of other requests can commit. Those change whether a row is
  blocked or done only if a claim names such a state, and then the row is in `crossed`. Hence
  what the request read about dependents under the lock stays true until its commit but
  for these rows: a written dependent is still blocked and ready (`Promised`), and one it passed
  over is still not ready in the rows it sees (`Settled`). Stale reads made *before* the
  lock are why the refuted property of section 4 is not a theorem.
* **`PacketCacheProofs`**: `StaleOnlyInTransit`, `RegisteredRuns`, `CacheWithinBounds`. The
  first rests on what a step may do to an entry (drop it, age it, put it anew) and on
  pending counts; the second on the jobs whose callback is still to run; the third on the
  eviction order naming no packet twice, which taking some out (`Without`) and adding one at
  the end preserve.
* **`LedgerProofs`**, four sections.
  `SuccessAtMostOnce`: the record is the lock. While a fresh record exists no other store
  succeeds, and a request about to commit a success has its record in place. Assumes the
  constant `SoloExpiredRetry`: requests on one *expired* key do not overlap. Without it the
  property is false: two retries find the old record expired, and the second one's DELETE
  removes the record the first has just stored.
  `ToolHitsAreOwn`: a stored response and a request in flight under a key of a tool's own
  making both come from calls with that key, and keys are equal only for calls that are.
  The constants must say that much of the digest (`ToolCallsAssumption`): it tells the bodies
  of keyed calls apart, and a key of a tool's own making is one of `Key`. Key and body together
  determine the call.
  `LedgerVerifies`, `LedgerGrowsAtItsEnd`: only the lock's holder has rows of its own, and
  they all come after the committed ones (`OwnedUnderLock`). Two lemmas do the rest: a row
  appended to a verified chain leaves it verified, and a verified chain cut at a position is
  verified (a savepoint undone). `HeldBeforeMark` says a lock taken inside a savepoint leaves
  no earlier row behind when the savepoint, and the lock, are given up.
  `WalksAreExact`: times grow with positions, so rows committed later are no older than
  those a walk began with; a page is the first rows of a strict order behind its cursor
  (`IsPage`), and the cursor its last. The proof follows every step of the ledger, since a
  commit is what could put a row behind a cursor.

* **`LearningStoreProofs`**: `DraftsBecomeOne`, `NoEvidenceLost`, `ReplacementsEnd`,
  `DuplicatesAreLinked`, `OneFlag`. The invariant (`StoreInvariant`) has the rows'
  relations to one another and, for each request in flight, what is still true of the rows
  it has read: two requests with the same row in hand have raced for it (`HandsApart`), so
  a row not in `raced` is as its one reader left it. Generic writes put what they touch into
  `raced`: a deleted learning (`DeletedAreRaced`), a vector that is not the topic's
  (`VectorsKept`), a second replacement of one learning (`OneReplacement`). Chains and groups are closures of
  relations; their lemmas say how a closure grows when an edge is added, and the end of a
  chain needs that a new replacement has no successor that leads back.
* **`AccessProofs`**: `OneOwner`, `RotatedKeysAreReplaced`, `LastUsedForward`,
  `GrantsHaveCauses`, `RolesGive`. First run: the advisory lock has one holder
  (`LockedOnce`), and what it has counted stays so until its commit (`CountedNone`,
  `FoundAdmin`). Keys: one request at a time holds a key's row (`OneHolder`), one no
  rotation overlapped works with a key without children (`Childless`), and a key with a
  successor is revoked or its row is gone (`ParentsAreDead`). Roles: each grant
  that is not stray lives as long as its assignment (`GrantsLiveAlong`), because what
  `assign_role` has read still holds unless the request was overtaken (`ReadsHold`).
* **`RecordsProofs`**, five sections.
  `RegistryServes`: half a pair on the disk has a writer who is about to write the other
  half (`PairsWhole`), and what a load has read is what is there unless somebody writes,
  who will load in turn (`LoadsAreFresh`).
  `SyncsLeaveTheirFiles`: ids are given once, also by those who have yet to commit; a sync
  that was not overlapped sees what it has read as stored (`SeesItsFiles`), and a full one
  is about to delete just the rest (`PrunesTheRest`).
  `StoredContractsFit`, `PagesAreComplete`, `AttachedPoliciesStay`: the columns an update
  will store, whether it sets them or keeps them, fit together unless it was overtaken
  (`UpdatesFit`); a row that is owed to a listing has been seen or is ahead of the cursor
  (`PagesOwe`). For pages this needs that both comparisons of keys are the one
  lexicographic order, that a page's rows are those with fewer than `Limit` before them,
  and that its last row is its greatest, for any finite set of rows.
  `NoTimelyCycles`: what a request was checked against is what there is until another edge
  is written (`ChecksHold`). The breadth-first search finds an entity exactly if a path of
  at most `MaxDepth` edges leads to it (`SearchesFindPaths`). A new cycle passes through the
  new edge; rotated to begin with it and cut to the shortest such, the rest is a path
  back, which the check would have found.
  `PacketsAreComplete`: the recursive query finds the ends of direct ways (`WalksFind`), and a
  shortest way is direct (`DirectWay`), so it finds all that a way of at most the limit leads
  to. What a statement sees lies between what was there all along and what was there at some
  time (`always`, `ever`), and so does all that is gathered from it.

* **`RulesProofs`**, five sections.
  `DoneTasksAreProven`, `AttemptsAreSpent`: every run that a submission made and no client
  rewrote proves its contract if its report is proven (`RunsStand`), and a report that counts as
  proof proves that contract whatever has changed since (`ReportProves`): a met check is a fact
  about the files and answers at that time (`MetChecksHold`), an item is met only if all its
  checks are (`CheckedItem`), and a submission without issues answers each item,
  or one with its id (`NoIssueCovers`). Attempts and state move together on both ways to the DLQ
  (`StepCounts`), so it is reached exactly at the threshold of the policy then in effect.
  `RateIsKept`, `WaitingSuffices`: what requests since any time have taken, with what is left
  in the bucket, is at most the burst and the refill since (`Spent`), which a refill up to the
  cap keeps (`SpentByNow`). A refusal leaves a promise (`Promised`): its tokens and the refill
  until the named time make a request. Later refusals refill the bucket below the cap, so
  the promise stands (`PromisesStand`); being admitted ends it.
  `HandlersAreShielded`: a request carries what its steps have established (`Tracked`): the sum
  of the chunks so far, then that the whole is within the limits, then what the scan has
  passed on. Redacting keeps the text before the cursor that lies in no match, in order
  (`Sound`), match by match (`RedactKeeps`), for overlapping matches as well.
  `AnswersAreWhole`: each step of an answer lists a set, each member once (`Lists`), or
  names it in candidates (`Finds`), and a lemma per helper says which set:
  sorting and filtering lose nothing (`OrderedLists`, `OnlyLists`), taking k takes all or
  k of them (`TakeLists`), diversity asked for everything drops nothing (`DiverseLists`),
  merging unites (`MergeFinds`), each tier finds what matches and was not found before
  until the limit is reached (`NextTier`). From these follow the sets the three entry points
  answer with, for any scores.
  `DraftsCiteTheRun`: every entry of a list of lists has one place in the chained list
  (`ChainedLists`), deduplication keeps a copy of everything and the first of each
  (`DedupeKeeps`), and a cut keeps the head; so the run itself is always the first evidence, and
  what the submission declared is missing only from a full list (`EvidenceIsBacked`).
  A quiet trace leaves each of the five conditions false (`NothingRejected`, `NothingFailed`,
  `NothingNoted`, `NothingBlocked`).
  `MetricsTellOneStory`: counted by kind, each row is counted once (`KindsAddUp`, a bijection
  from the marks of the sum to the rows); the rest is that buckets, actors, outcomes and days are
  kinds, each row having exactly one, which for the days shown needs the arithmetic of the window
  (`DaysAddUp`). Interpolation between two positions of a sorted list stays between their
  values, and rises with the percentage (`PercentilesLieAmong`). A mean of ratios at most one is
  at most one (`SumIsBounded`, `MeanIsBounded`).

Common to these: no induction over data is available, so a fact about all paths,
chains or positions is proved by a least counterexample (`LeastNat` in `Counting`, from the
well-foundedness of finite sets in the library). What a recursive function does is proved from
`Iteration` (values that follow one another by steps exist) and the least number at which
the function differs from them. Pages, evictions and scans are written with
the n-th member of an order (`Nth`: the one with n - 1 before it) instead of a recursive sort or
filter; `Places` and `Line` say that each member has one place and each place a member.

**Only model-checked.** Liveness (`RequestsEnd`, `StaleExpires`) and what needs it are beyond
this prover. The invariants of the passing runs are all proved; the two statements of section 4
that interleavings refute have no theorem, since they are false.

## 6 What is not modelled, and why

* Scores, embeddings, full-text search and trigram similarity (floating point and
  external indexes): inputs of `Retrieval`, whose combination is modelled.
* The patterns and the entropy test of secret redaction, JSON Schema, YAML, regular
  expressions, git and GitHub: outcomes that the modelled code combines. No claim is
  made about the tails of overlapping secret matches.
* The wording of responses, the CLI and the web interface (clients that keep no
  state the server relies on), migrations other than the audit trigger and its
  indexes, the seed and configuration (start-up code).
* In `TaskActions`: the comments, artifacts and learning drafts a submission adds, since they
  touch no task row. In `Transitions`: policies attached through the workspace or the
  project, which resolve like the task's own. In `Analytics`: rounding, and other
  time zones than UTC. In `Roles`: the built-in definitions, and more than one role.
* PostgreSQL is modelled from what the code relies on (section 2) and marked external
  in the map.

## 7 The plan

Done: the core (queue, lifecycle, idempotency, packet cache, audit chain) with its
proofs; then learnings, graph, records, access, registry, memory, the rules, tools,
ledger pages and packet decisions, each with its instance. To come:

1. The composition of `LearningStore` with the submissions of `TaskActions`, and of
   `Idempotency` with the expiry of keys under overlapping retries.
2. Retrieval of learnings inside `compile_packet`: the packet cache with what its packets hold.
