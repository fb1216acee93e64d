------------------------------ MODULE TaskQueue ------------------------------
(***************************************************************************)
(* repo/queue.py and the endpoints that call it: claim the next task,      *)
(* claim one task, release a claim, force-unlock one, reclaim a stale one. *)
(* Each is one UPDATE over a SELECT ... FOR UPDATE SKIP LOCKED LIMIT 1,    *)
(* followed by the commit of the request's transaction.                    *)
(***************************************************************************)
EXTENDS TaskRows

CONSTANTS
    Rank,       \* Rank[t]: position in ORDER BY priority DESC, sequence ASC
    Filters,    \* row sets a claim_next request's label and project match
    Asks,       \* claim_states and claimed_state of claim_next requests
    Created     \* rows the create endpoint may leave

(* The client names the states a claim takes a row from and the one it      *)
(* leaves it in, and the state and the claimant of a row it creates.        *)
ASSUME QueueAssumption ==
    /\ Rank \in [Task -> Nat]
    /\ \A t, u \in Task : Rank[t] = Rank[u] => t = u
    /\ Filters \subseteq SUBSET Task
    /\ Asks \subseteq [from : SUBSET State, to : State]
    /\ Created \subseteq [state : State, claimant : Actor \cup {None}, attempts : {0}]

DefaultAsk == [from |-> Claimable, to |-> "claimed"]

(* The statement found row t in one of the states it asks for; the request  *)
(* now only has to commit (or to audit first).  These UPDATEs name their    *)
(* columns, whatever was loaded.                                            *)
QueueStatement(r, t, op, a, states, row, step) ==
    /\ SetColumns(r, t, {"state", "claimant"}, row)
    /\ req' = [req EXCEPT ![r] =
                 [Idle EXCEPT !.op = op, !.actor = a, !.task = t,
                              !.asked = states, !.step = step]]
    /\ UNCHANGED <<task, auditor>>

(* As a plain SELECT, without FOR UPDATE, would find it. *)
TakeableUnlocked(r, t, states) == task[t].state \in states

(* FOR UPDATE SKIP LOCKED re-evaluates the filter on the newest committed  *)
(* version of a row nobody has locked.                                     *)
Takeable(r, t, states) ==
    Unlocked(r, t) /\ ~KeyShared(r, t) /\ task[t].state \in states

Held(a, s) == [state |-> s, claimant |-> a, attempts |-> 0]

claim_next(r, a, matching, ask) ==
    /\ req[r].step = "idle"
    /\ \E t \in matching :
          /\ Takeable(r, t, ask.from)
          /\ \A u \in matching : Takeable(r, u, ask.from) => Rank[t] <= Rank[u]
          /\ QueueStatement(r, t, "claim", a, ask.from, Held(a, ask.to), "commit")

claim_task(r, a, t) ==
    /\ req[r].step = "idle"
    /\ Takeable(r, t, DefaultAsk.from)
    /\ QueueStatement(r, t, "claim", a, DefaultAsk.from, Held(a, DefaultAsk.to), "commit")

Freed == [state |-> "todo", claimant |-> None, attempts |-> 0]

(* A release that judges no one. *)
release_any_claim(r, a, t) ==
    /\ req[r].step = "idle"
    /\ Takeable(r, t, Active)
    /\ QueueStatement(r, t, "release", a, Active, Freed, "commit")

(* An agent releases only its own claim, an admin anyone's. *)
release_claim(r, a, t) ==
    /\ req[r].step = "idle"
    /\ Takeable(r, t, Active)
    /\ a \in Admin \/ task[t].claimant = a
    /\ QueueStatement(r, t, "release", a, Active, Freed, "commit")

(* The forced unlock also writes an audit row, which needs the audit lock. *)
unlock_task_escrow(r, a, t) ==
    /\ req[r].step = "idle"
    /\ a \in Admin
    /\ Takeable(r, t, Active)
    /\ QueueStatement(r, t, "unlock", a, Active, Freed, "audit")

(* Whether claimed_at lies before stale_before is left open: any claim may *)
(* have become stale.                                                      *)
reclaim_claim(r, t) ==
    /\ req[r].step = "idle"
    /\ Takeable(r, t, Active)
    /\ QueueStatement(r, t, "reclaim", None, Active, Freed, "commit")

audit_unlock(r) ==
    /\ req[r].step = "audit"
    /\ req[r].op = "unlock"
    /\ AuditFree(r)
    /\ auditor' = r
    /\ GoTo(r, "commit")
    /\ UNCHANGED <<task, writes>>

QueueRequest(r) ==
    \/ \E a \in Actor, m \in Filters, ask \in Asks : claim_next(r, a, m, ask)
    \/ \E t \in Task :
          \/ \E a \in Actor :
                \/ claim_task(r, a, t)
                \/ release_claim(r, a, t)
                \/ unlock_task_escrow(r, a, t)
          \/ reclaim_claim(r, t)

QueueCommit(r) == CommitRows(r) /\ req' = [req EXCEPT ![r] = Idle]

-----------------------------------------------------------------------------
(* The queue on its own, over rows as the create endpoint leaves them.     *)
QueueInit ==
    /\ task \in [Task -> Created]
    /\ req = [r \in Request |-> Idle]
    /\ writes = [r \in Request |-> NoWrites]
    /\ auditor = None

QueueNext ==
    \E r \in Request :
        QueueRequest(r) \/ audit_unlock(r) \/ QueueCommit(r) \/ RollbackRows(r)

QueueSpec == QueueInit /\ [][QueueNext]_rowVars

-----------------------------------------------------------------------------
(* Overlapping transactions implement the indivisible queue: every commit  *)
(* is a Claim of a row that is in a state the claim asked for, or a Free of *)
(* a row that is held, at the instant of the commit, however long ago the   *)
(* SELECT ran.                                                              *)
AQ == INSTANCE AtomicQueue WITH Task <- Task, Actor <- Actor, None <- None,
                                Asks <- Asks \cup {DefaultAsk}, task <- task
ImplementsAtomicQueue == AQ!Spec

(* Ending a claim takes its holder, an admin, or a stale reclaim: an agent *)
(* whose claim was taken back cannot release the next holder's.            *)
Commits(r) == req[r].step = "commit" /\ req'[r].step = "idle" /\ task' # task
ReleaseByHolder ==
    [][\A r \in Request :
          Commits(r) /\ req[r].op = "release" /\ req[r].actor \notin Admin
             => task[req[r].task].claimant = req[r].actor]_rowVars
=============================================================================
