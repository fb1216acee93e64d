----------------------------- MODULE TaskActions -----------------------------
(***************************************************************************)
(* The task lifecycle: task_actions.py and the reset endpoint, running     *)
(* side by side with the queue.  A handler loads the task row without a    *)
(* lock, decides on what it loaded, and later flushes the changed columns. *)
(* Between the two, other requests may commit.                             *)
(***************************************************************************)
EXTENDS TaskQueue

CONSTANTS
    Deps,         \* Deps[t]: targets of t's active depends_on edges
    Hitl,         \* tasks whose effective policy has hitl_required
    Reviewer,     \* actors holding the update_task capability
    Payloads,     \* what validation may make of a submitted payload
    MaxAttempts,  \* effective retry threshold (policy.max_retries)
    AttemptBound  \* bound: no failure is started on a row with this many

ASSUME ActionsAssumption ==
    /\ Deps \in [Task -> SUBSET Task]
    /\ Hitl \subseteq Task
    /\ Reviewer \subseteq Actor
    /\ Payloads \subseteq {"invalid", "proven", "unproven"}
    /\ MaxAttempts \in Nat \ {0}
    /\ AttemptBound \in Nat

VARIABLE
    crossed   \* history: the rows that claims have put in, or taken out of,
              \* blocked or done while the audit lock's holder unblocks

vars == <<task, req, writes, auditor, crossed>>

(* The operations that may finish a task. *)
Completing == {"submit", "approve"}

(* _unblock_ready_dependents: the sources of the depends_on edges into t. *)
Dependents(t) == {d \in Task : t \in Deps[d]}

-----------------------------------------------------------------------------
(* Loading: session.get, then the checks that answer 404, 409 or 403.  A    *)
(* request that fails a check changes nothing and is not represented.       *)
(* Overlapping resets and failures can raise attempt_count past every       *)
(* threshold, so failures are started only below AttemptBound.              *)

Load(r, op, a, t, outcome, step) ==
    /\ req[r].step = "idle"
    /\ req' = [req EXCEPT ![r] =
                 [Idle EXCEPT !.op = op, !.actor = a, !.task = t,
                              !.seen = task[t], !.outcome = outcome,
                              !.step = step]]
    /\ UNCHANGED <<task, writes, auditor, crossed>>

(* A payload is invalid, or valid with a passing DoD report ("proven"), or  *)
(* valid for a contract that declares no dod_checks, which yields no report *)
(* ("unproven").  Without a report an automatic approval answers 409 before *)
(* anything is written.                                                     *)
submit_task(r, a, t, outcome) ==
    /\ task[t].state = "in_progress"
    /\ a \in Admin \/ task[t].claimant = a
    /\ outcome = "unproven" => t \in Hitl
    /\ outcome = "invalid" => task[t].attempts < AttemptBound
    /\ Load(r, "submit", a, t, outcome,
            IF outcome = "invalid" THEN "write" ELSE "run")

approve_task(r, a, t) ==
    /\ a \in Reviewer
    /\ task[t].state = "validated"
    /\ Load(r, "approve", a, t, "none", "report")

reject_task(r, a, t) ==
    /\ a \in Reviewer
    /\ task[t].state = "validated"
    /\ task[t].attempts < AttemptBound
    /\ Load(r, "reject", a, t, "none", "write")

reset_task(r, a, t) ==
    /\ a \in Admin
    /\ Load(r, "reset", a, t, "none", "write")

-----------------------------------------------------------------------------
(* The steps of a loaded request. *)

(* The approval reads the newest run's DoD report in a statement of its     *)
(* own; without a passing one the request answers 409.  Clients may store   *)
(* a run of any task, report and created_at (POST /v1/runs), so what the    *)
(* newest run says is left open here.                                       *)
latest_dod_report(r) ==
    /\ req[r].step = "report"
    /\ \/ GoTo(r, "write")
       \/ req' = [req EXCEPT ![r] = Idle]
    /\ UNCHANGED <<task, writes, auditor, crossed>>

(* A valid submission first inserts its run, whose audit row takes the      *)
(* audit lock and whose foreign key takes a share lock on the task row.     *)
insert_run(r) ==
    /\ req[r].step = "run"
    /\ ~QueueLocked(r, req[r].task)
    /\ AuditFree(r)
    /\ auditor' = r
    /\ GoTo(r, "write")
    /\ UNCHANGED <<task, writes, crossed>>

(* An attempt that failed validation or was rejected goes back to the       *)
(* queue, or to the dead letter queue once the threshold is reached.        *)
Failed(row) ==
    [state    |-> IF row.attempts + 1 >= MaxAttempts THEN "dlq" ELSE "queued",
     claimant |-> None,
     attempts |-> row.attempts + 1]

Finished(row, state) == [row EXCEPT !.state = state, !.claimant = None]

(* The values the handler assigns to the loaded record. *)
Assigned(q) ==
    CASE q.op = "submit" /\ q.outcome = "invalid" -> Failed(q.seen)
      [] q.op = "submit" /\ q.outcome # "invalid" ->
            Finished(q.seen, IF q.task \in Hitl THEN "validated" ELSE "done")
      [] q.op = "approve" -> Finished(q.seen, "done")
      [] q.op = "reject"  -> Failed(q.seen)
      [] q.op = "reset"   -> FreshRow

(* Flush: UPDATE of the changed columns, none if nothing changed. *)
flush_task(r) ==
    LET q == req[r]
        cols == Changed(q.seen, Assigned(q)) IN
    /\ q.step = "write"
    /\ cols # {} => Unlocked(r, q.task)
    /\ SetColumns(r, q.task, cols, Assigned(q))
    /\ req' = [req EXCEPT ![r].step = "audit", ![r].seen = FreshRow]
    /\ UNCHANGED <<task, auditor, crossed>>

(* The audit row of the update; then, for a task that is now done, the      *)
(* dependents to look at.                                                   *)
audit_task(r) ==
    LET q == req[r]
        pending == IF Visible(r, q.task).state = "done" /\ q.op \in Completing
                     THEN Dependents(q.task) ELSE {} IN
    /\ q.step = "audit"
    /\ AuditFree(r)
    /\ auditor' = r
    /\ req' = [req EXCEPT ![r].pending = pending,
                          ![r].step = IF pending = {} THEN "commit" ELSE "unblock"]
    /\ crossed' = {}
    /\ UNCHANGED <<task, writes>>

(* A dependent that is never asked whether it is still blocked. *)
ReadyWhateverState(r, d) ==
    Deps[d] # {} /\ \A p \in Deps[d] : Visible(r, p).state = "done"

(* A dependent is ready when it is blocked, depends on something, and all   *)
(* of it is done in the rows this transaction sees.                         *)
Ready(r, d) ==
    /\ Visible(r, d).state = "blocked"
    /\ Deps[d] # {}
    /\ \A p \in Deps[d] : Visible(r, p).state = "done"

check_dependent(r, d) ==
    LET rest == req[r].pending \ {d} IN
    /\ req[r].step = "unblock"
    /\ d \in req[r].pending
    /\ req' = IF Ready(r, d)
                THEN [req EXCEPT ![r].pending = rest, ![r].dependent = d,
                                 ![r].seen = Visible(r, d), ![r].step = "requeue"]
                ELSE [req EXCEPT ![r].pending = rest,
                                 ![r].step = IF rest = {} THEN "commit" ELSE "unblock"]
    /\ UNCHANGED <<task, writes, auditor, crossed>>

requeue_dependent(r) ==
    LET q == req[r]
        row == Finished(q.seen, "queued") IN
    /\ q.step = "requeue"
    /\ Unlocked(r, q.dependent)
    /\ SetColumns(r, q.dependent, Changed(q.seen, row), row)
    /\ req' = [req EXCEPT ![r].dependent = None, ![r].seen = FreshRow,
                          ![r].step = IF q.pending = {} THEN "commit" ELSE "unblock"]
    /\ UNCHANGED <<task, auditor, crossed>>

-----------------------------------------------------------------------------
(* A commit puts row t in, or takes it out of, blocked or done. *)
Crosses(t) ==
    \E s \in {"blocked", "done"} : ~(task[t].state = s <=> task'[t].state = s)

Commit(r) ==
    /\ CommitRows(r)
    /\ req' = [req EXCEPT ![r] = Idle]
    /\ crossed' = IF auditor = r THEN {}
                  ELSE IF req[r].op = "claim" /\ auditor # None
                    THEN crossed \cup {t \in Task : Crosses(t)}
                    ELSE crossed

Rollback(r) ==
    /\ RollbackRows(r)
    /\ crossed' = IF auditor = r THEN {} ELSE crossed

(* A statement waiting for a lock.  PostgreSQL cancels it when it closes a  *)
(* cycle of waits; otherwise write_timeout's statement_timeout does.        *)
Waiting(r) ==
    LET q == req[r] IN
    \/ q.step = "run" /\ (~AuditFree(r) \/ QueueLocked(r, q.task))
    \/ q.step = "audit" /\ ~AuditFree(r)
    \/ q.step = "write" /\ Changed(q.seen, Assigned(q)) # {} /\ ~Unlocked(r, q.task)
    \/ q.step = "requeue" /\ ~Unlocked(r, q.dependent)

(* No statement_timeout and no deadlock detection. *)
no_timeout(r) == FALSE

write_timeout(r) == Waiting(r) /\ Rollback(r)

-----------------------------------------------------------------------------
LifecycleRequest(r) ==
    \E t \in Task, a \in Actor :
        \/ \E o \in Payloads : submit_task(r, a, t, o)
        \/ approve_task(r, a, t)
        \/ reject_task(r, a, t)
        \/ reset_task(r, a, t)

Progress(r) ==
    \/ latest_dod_report(r)
    \/ insert_run(r)
    \/ flush_task(r)
    \/ audit_unlock(r) /\ UNCHANGED crossed
    \/ req[r].op # "unlock" /\ audit_task(r)
    \/ \E d \in Task : check_dependent(r, d)
    \/ requeue_dependent(r)
    \/ Commit(r)

Init ==
    /\ task \in [Task -> Created]
    /\ req = [r \in Request |-> Idle]
    /\ writes = [r \in Request |-> NoWrites]
    /\ auditor = None
    /\ crossed = {}

Next == \E r \in Request :
    \/ QueueRequest(r) /\ UNCHANGED crossed
    \/ LifecycleRequest(r)
    \/ Progress(r)
    \/ Rollback(r)

Spec == Init /\ [][Next]_vars

(* The API serves every request it accepted: PostgreSQL queues the waiters  *)
(* of a lock in order, so a request whose lock is released again and again  *)
(* gets it (strong fairness), and ends a wait that lasts (write_timeout).   *)
(* Nothing makes a client send a request.                                   *)
FairSpec ==
    Spec /\ \A r \in Request : SF_vars(Progress(r)) /\ WF_vars(write_timeout(r))

-----------------------------------------------------------------------------
(* The record types of the task rows, the requests and their writes.        *)
TypeOK == RowsTypeOK /\ crossed \subseteq Task

(* No lost unblock: the commit that finishes a task leaves no dependent     *)
(* blocked whose dependencies are now all done, even if two requests that   *)
(* overlap finish the last two of them and neither sees the other's write   *)
(* (_unblock_ready_dependents has no lock of its own; the audit trigger's   *)
(* advisory lock serialises it).  Only a claim that names blocked or done   *)
(* itself can come in between: it takes no audit lock and unblocks no one.  *)
UnblockComplete ==
    [][\A r \in Request :
          Commits(r) /\ req[r].op \in Completing /\ task'[req[r].task].state = "done" =>
              \A d \in Dependents(req[r].task) \ crossed :
                  task'[d].state = "blocked"
                      => \E p \in Deps[d] : task'[p].state # "done" \/ p \in crossed]_vars

(* No unsound unblock: when the completion of one task commits a write to a *)
(* dependent, the dependent is still blocked at that instant and every one  *)
(* of its dependencies is done, though both were read earlier, without a    *)
(* lock, but for rows that such a claim took away in between.               *)
UnblockSound ==
    [][\A r \in Request : Commits(r) =>
          \A d \in Written(r) \ {req[r].task} :
              /\ task[d].state = "blocked" \/ d \in crossed
              /\ task'[d].state = "queued"
              /\ \A p \in Deps[d] \ crossed : task'[p].state = "done"]_vars

(* A claim wins a row, and a release or a forced unlock frees one, only if  *)
(* the row is in a state the request asked for when it commits, whatever    *)
(* reviews, resets and submissions were in flight since its SELECT ... SKIP *)
(* LOCKED: two claims that ask for free rows never win the same one.        *)
TakenAsAsked ==
    [][\A r \in Request :
          Commits(r) /\ req[r].asked # {}
              => /\ task[req[r].task].state \in req[r].asked
                 /\ task'[req[r].task].claimant =
                       IF req[r].op = "claim" THEN req[r].actor ELSE None]_vars

(* Every request ends: lock waits of submissions, reviews, unlocks and      *)
(* resets on each other (task row first or audit lock first) never leave a  *)
(* request waiting for ever.                                                *)
RequestsEnd == \A r \in Request : req[r].step # "idle" ~> req[r].step = "idle"

-----------------------------------------------------------------------------
(* What the code says of itself and interleavings refute. *)

(* task_actions.py:536, "Only the claiming actor may submit this task": the *)
(* submission of an agent commits while that agent holds the claim.         *)
SubmitByClaimant ==
    [][\A r \in Request :
          Commits(r) /\ req[r].op = "submit" /\ req[r].actor \notin Admin
              => task[req[r].task].claimant = req[r].actor]_vars
=============================================================================
