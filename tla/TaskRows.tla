------------------------------ MODULE TaskRows ------------------------------
(***************************************************************************)
(* The task table and the request transactions that work on it.            *)
(*                                                                         *)
(* Every HTTP request or MCP tool call runs in one database transaction at *)
(* PostgreSQL's default isolation, READ COMMITTED.  What the handlers of   *)
(* the repository rely on is exactly this:                                 *)
(*   - a statement reads the committed rows overlaid with the writes of    *)
(*     its own transaction;                                                *)
(*   - an UPDATE locks its row until the transaction ends, waits for a     *)
(*     conflicting lock, and then sets the columns it names on the newest  *)
(*     committed version of the row, not on the version it read before;    *)
(*   - SQLAlchemy names in that UPDATE only the columns whose new value    *)
(*     differs from the value it loaded;                                   *)
(*   - every row added to audit_log takes one advisory lock, held to the   *)
(*     end of the transaction, so transactions that audit run one at a     *)
(*     time from their first audited write to their commit.                *)
(* A row lock is never a variable of its own: a transaction holds the lock *)
(* of every row it has written.                                            *)
(***************************************************************************)
EXTENDS Naturals, FiniteSets

CONSTANTS
    Task,       \* task rows
    Agent,      \* actors that claim and submit
    Admin,      \* actors whose actor_type is "admin"
    Request,    \* request slots: how many transactions may overlap
    None        \* SQL NULL, and "no one"

ASSUME NoneAssumption == None \notin Task \cup Agent \cup Admin \cup Request

VARIABLES
    task,       \* task[t]: the committed row
    req,        \* req[r]: the request slot r is serving
    writes,     \* writes[r][t]: what r's open transaction has set on row t
    auditor     \* the transaction holding the audit advisory lock, or None

rowVars == <<task, req, writes, auditor>>

Actor == Agent \cup Admin

(* The column is any text: a claim and the create endpoint write what the   *)
(* client names.  These are the states the code knows; a text it does not   *)
(* know fares like "parked".                                                *)
State == {"todo", "queued", "claimed", "in_progress", "submitted", "validated",
          "done", "rejected", "dlq", "blocked", "parked", "needs_ghost_triage"}

Claimable == {"todo", "queued"}           \* DEFAULT_CLAIM_STATES
Active == {"claimed", "in_progress"}      \* DEFAULT_ACTIVE_STATES

Row == [state : State, claimant : Actor \cup {None}, attempts : Nat]
FreshRow == [state |-> "queued", claimant |-> None, attempts |-> 0]

Column == {"state", "claimant", "attempts"}
Write == [cols : SUBSET Column, row : Row]
NoWrite == [cols |-> {}, row |-> FreshRow]
NoWrites == [t \in Task |-> NoWrite]

Op == {"none", "claim", "release", "unlock", "reclaim",
       "submit", "approve", "reject", "reset"}
Step == {"idle", "report", "run", "write", "audit", "unblock", "requeue",
         "commit"}
Outcome == {"none", "invalid", "proven", "unproven"}

(* One request: the operation, who asks, for which task, the states its     *)
(* SELECT asked the row to be in, the step it is at, the row as the ORM      *)
(* session last loaded it, what validation made of its payload, and the      *)
(* dependents it has still to look at.                                       *)
Req == [op : Op, actor : Actor \cup {None}, task : Task \cup {None},
        asked : SUBSET State, step : Step, seen : Row, outcome : Outcome,
        pending : SUBSET Task, dependent : Task \cup {None}]
Idle == [op |-> "none", actor |-> None, task |-> None, asked |-> {},
         step |-> "idle", seen |-> FreshRow, outcome |-> "none",
         pending |-> {}, dependent |-> None]

(* The columns an ORM flush names: those that differ from the loaded row.  *)
Changed(old, new) == {c \in Column : old[c] # new[c]}

Overlay(old, w) ==
    [state    |-> IF "state"    \in w.cols THEN w.row.state    ELSE old.state,
     claimant |-> IF "claimant" \in w.cols THEN w.row.claimant ELSE old.claimant,
     attempts |-> IF "attempts" \in w.cols THEN w.row.attempts ELSE old.attempts]

Visible(r, t) == Overlay(task[t], writes[r][t])
Written(r) == {t \in Task : writes[r][t].cols # {}}
Unlocked(r, t) == \A q \in Request \ {r} : t \notin Written(q)
QueueLocked(r, t) ==
    \E q \in Request \ {r} :
        t \in Written(q) /\ req[q].op \in {"claim", "release", "unlock", "reclaim"}

(* Inserting a run takes FOR KEY SHARE on the task row its foreign key      *)
(* names.  That conflicts with SELECT ... FOR UPDATE, not with an UPDATE of *)
(* other columns.                                                           *)
KeyShared(r, t) ==
    \E q \in Request \ {r} :
        /\ req[q].op = "submit" /\ req[q].task = t
        /\ req[q].step = "write" /\ req[q].outcome \in {"proven", "unproven"}
(* Without the advisory lock of the audit trigger. *)
NoAuditLock(r) == TRUE
AuditFree(r) == auditor \in {None, r}

(* UPDATE row t: the caller has checked, or waits for, the row lock.       *)
SetColumns(r, t, cols, row) ==
    writes' = [writes EXCEPT ![r][t] =
                 [cols |-> cols,
                  row |-> Overlay(FreshRow, [cols |-> cols, row |-> row])]]

GoTo(r, step) == req' = [req EXCEPT ![r].step = step]

(* COMMIT makes the writes visible and drops every lock of the transaction.*)
CommitRows(r) ==
    /\ req[r].step = "commit"
    /\ task' = [t \in Task |-> Visible(r, t)]
    /\ writes' = [writes EXCEPT ![r] = NoWrites]
    /\ auditor' = IF auditor = r THEN None ELSE auditor

(* ROLLBACK: an exception, a lost connection, a crash of the API process,  *)
(* a deadlock victim, or a statement cancelled by its timeout.             *)
RollbackRows(r) ==
    /\ req[r].step # "idle"
    /\ writes' = [writes EXCEPT ![r] = NoWrites]
    /\ auditor' = IF auditor = r THEN None ELSE auditor
    /\ req' = [req EXCEPT ![r] = Idle]
    /\ UNCHANGED task

RowsTypeOK ==
    /\ task \in [Task -> Row]
    /\ req \in [Request -> Req]
    /\ writes \in [Request -> [Task -> Write]]
    /\ auditor \in Request \cup {None}
=============================================================================
