------------------------------ MODULE TaskProofs ------------------------------
(***************************************************************************)
(* Proofs about the task queue and the task lifecycle, for any tasks,      *)
(* dependencies, actors and number of concurrent requests.                 *)
(***************************************************************************)
EXTENDS TaskActions, TLAPS

(***************************************************************************)
(* The queue: overlapping claim, release, unlock and reclaim transactions  *)
(* implement AtomicQueue, and a claim is released by its holder.           *)
(***************************************************************************)
FreeingOp == {"release", "unlock", "reclaim"}

(* No two open transactions have written the same row. *)
RowLocks == \A r, q \in Request : r # q => Written(r) \cap Written(q) = {}

(* What a claim may ask for. *)
AllAsks == Asks \cup {DefaultAsk}

(* What an open queue transaction has written, and what the row it locked   *)
(* still looks like.                                                        *)
Claiming(r, t) ==
    /\ req[r].op = "claim"
    /\ req[r].actor \in Actor
    /\ task[t].state \in req[r].asked
    /\ \E ask \in AllAsks : req[r].asked = ask.from /\ writes[r][t].row.state = ask.to
    /\ writes[r][t].row.claimant = req[r].actor

Freeing(r, t) ==
    /\ req[r].op \in FreeingOp
    /\ req[r].asked = Active
    /\ task[t].state \in Active
    /\ req[r].op = "release" => req[r].actor \in Admin \/ task[t].claimant = req[r].actor
    /\ writes[r][t].row.state = "todo"
    /\ writes[r][t].row.claimant = None

OpenQueue(r) ==
    LET t == req[r].task IN
    /\ t \in Task
    /\ writes[r][t].cols = {"state", "claimant"}
    /\ \A u \in Task \ {t} : writes[r][u].cols = {}
    /\ Claiming(r, t) \/ Freeing(r, t)

(* A transaction that has written nothing. *)
Blank(r) == \A t \in Task : writes[r][t].cols = {}

RequestOK(r) == IF req[r].step = "idle" THEN Blank(r) ELSE OpenQueue(r)

QueueInv ==
    /\ RowsTypeOK
    /\ RowLocks
    /\ \A r \in Request : RequestOK(r)

-----------------------------------------------------------------------------
(* A row without pending columns is seen as committed. *)
LEMMA OverlayNothing ==
    ASSUME NEW old \in Row, NEW w \in Write, w.cols = {}
    PROVE  Overlay(old, w) = old
BY DEF Overlay, Row, Write

(* Overlaying typed columns on a typed row gives a typed row. *)
LEMMA OverlayType ==
    ASSUME NEW old \in Row, NEW w \in Write
    PROVE  Overlay(old, w) \in Row
BY DEF Overlay, Row, Write

(* The values rows, requests and writes start with have their types. *)
LEMMA FreshTypes ==
    /\ FreshRow \in Row
    /\ NoWrite \in Write
    /\ NoWrites \in [Task -> Write]
    /\ Idle \in Req
BY DEF FreshRow, NoWrite, NoWrites, Write, Row, State, Column, Idle, Req, Op,
       Step, Outcome

(* What the create endpoint leaves is a row. *)
LEMMA CreatedType == Created \subseteq Row
BY QueueAssumption DEF Row

(* What a claim asks for are states. *)
LEMMA AskType == AllAsks \subseteq [from : SUBSET State, to : State]
BY QueueAssumption DEF AllAsks, DefaultAsk, Claimable, State

(* The rows the create endpoint leaves, with no request open, satisfy QueueInv. *)
LEMMA InitInv == QueueInit => QueueInv
<1> SUFFICES ASSUME QueueInit PROVE QueueInv
  OBVIOUS
<1>1. RowsTypeOK
  BY FreshTypes, CreatedType DEF QueueInit, RowsTypeOK
<1>2. \A r \in Request, t \in Task : writes[r][t].cols = {}
  BY DEF QueueInit, NoWrites, NoWrite
<1>3. RowLocks
  BY <1>2 DEF RowLocks, Written
<1>5. \A r \in Request : RequestOK(r)
  BY <1>2 DEF QueueInit, RequestOK, Blank, Idle
<1> QED
  BY <1>1, <1>3, <1>5 DEF QueueInv

-----------------------------------------------------------------------------
(* One statement of the queue: what it writes on row t, and when it may.    *)
Statement(r, t, op, a, states, row, step) ==
    /\ req[r].step = "idle"
    /\ Unlocked(r, t)
    /\ task[t].state \in states
    /\ op = "release" => a \in Admin \/ task[t].claimant = a
    /\ QueueStatement(r, t, op, a, states, row, step)

Claims(r, t) ==
    \E a \in Actor, ask \in AllAsks :
        Statement(r, t, "claim", a, ask.from, Held(a, ask.to), "commit")
Frees(r, t) ==
    \E op \in FreeingOp, a \in Actor \cup {None}, step \in {"audit", "commit"} :
        /\ Statement(r, t, op, a, Active, Freed, step)
        /\ step = IF op = "unlock" THEN "audit" ELSE "commit"

(* Every request that gets past its statement is one of these two.          *)
LEMMA RequestStatement ==
    ASSUME NEW r \in Request, QueueRequest(r)
    PROVE  \E t \in Task : Claims(r, t) \/ Frees(r, t)
<1>1. ASSUME NEW a \in Actor, NEW m \in Filters, NEW ask \in Asks,
             claim_next(r, a, m, ask)
      PROVE  \E t \in Task : Claims(r, t)
  BY <1>1, QueueAssumption DEF claim_next, Claims, Statement, Takeable, AllAsks
<1>2. ASSUME NEW a \in Actor, NEW t \in Task, claim_task(r, a, t)
      PROVE  Claims(r, t)
  BY <1>2 DEF claim_task, Claims, Statement, Takeable, AllAsks
<1>3. ASSUME NEW a \in Actor, NEW t \in Task,
             release_claim(r, a, t) \/ unlock_task_escrow(r, a, t)
      PROVE  Frees(r, t)
  BY <1>3 DEF release_claim, unlock_task_escrow, Frees, Statement, Takeable, FreeingOp
<1>4. ASSUME NEW t \in Task, reclaim_claim(r, t)
      PROVE  Frees(r, t)
  BY <1>4 DEF reclaim_claim, Frees, Statement, Takeable, FreeingOp
<1> QED
  BY <1>1, <1>2, <1>3, <1>4 DEF QueueRequest

(* What a statement leaves of its request and of its writes. *)
Opened(r, t, op, a, states, row, step) ==
    /\ task' = task
    /\ req'[r].step = step /\ req'[r].op = op /\ req'[r].actor = a
    /\ req'[r].task = t /\ req'[r].asked = states
    /\ writes'[r][t].cols = {"state", "claimant"}
    /\ writes'[r][t].row.state = row.state
    /\ writes'[r][t].row.claimant = row.claimant
    /\ \A u \in Task \ {t} : writes'[r][u].cols = {}
    /\ \A q \in Request \ {r} : req'[q] = req[q] /\ writes'[q] = writes[q]

(* The write of a statement. *)
LEMMA StatementWrites ==
    ASSUME RowsTypeOK, RowLocks, NEW r \in Request, Blank(r), NEW t \in Task,
           NEW op \in Op, NEW a \in Actor \cup {None}, NEW states \in SUBSET State,
           NEW row \in Row, NEW step \in Step,
           Statement(r, t, op, a, states, row, step)
    PROVE  RowsTypeOK' /\ RowLocks' /\ Opened(r, t, op, a, states, row, step)
<1> DEFINE new == [cols |-> {"state", "claimant"},
                   row |-> Overlay(FreshRow, [cols |-> {"state", "claimant"}, row |-> row])]
           opened == [Idle EXCEPT !.op = op, !.actor = a, !.task = t,
                                  !.asked = states, !.step = step]
<1>1. /\ task' = task /\ auditor' = auditor
      /\ writes' = [writes EXCEPT ![r][t] = new]
      /\ req' = [req EXCEPT ![r] = opened]
  BY DEF Statement, QueueStatement, SetColumns
<1>2. /\ new \in Write
      /\ new.cols = {"state", "claimant"}
      /\ new.row.state = row.state /\ new.row.claimant = row.claimant
  <2>1. [cols |-> {"state", "claimant"}, row |-> row] \in Write
    BY DEF Write, Column
  <2> QED
    BY <2>1, FreshTypes, OverlayType DEF Overlay, Write, Row, Column
<1>3. /\ opened \in Req
      /\ opened.op = op /\ opened.actor = a /\ opened.task = t
      /\ opened.asked = states /\ opened.step = step
  BY FreshTypes DEF Idle, Req, Step
<1> HIDE DEF new, opened
<1>5. RowsTypeOK'
  BY <1>1, <1>2, <1>3 DEF RowsTypeOK
<1>6. \A u \in Task : writes[r][u].cols = {}
  BY DEF Blank
<1>7. /\ writes'[r][t] = new
      /\ \A u \in Task \ {t} : writes'[r][u] = writes[r][u]
      /\ \A q \in Request \ {r} : writes'[q] = writes[q] /\ req'[q] = req[q]
      /\ req'[r] = opened
  BY <1>1 DEF RowsTypeOK
<1>8. RowLocks'
  <2>1. \A q \in Request \ {r} : t \notin Written(q)
    BY DEF Statement, Unlocked
  <2> QED
    BY <1>6, <1>7, <2>1 DEF RowLocks, Written
<1> QED
  BY <1>1, <1>2, <1>3, <1>5, <1>6, <1>7, <1>8 DEF Opened

(* What a claim writes is a row. *)
LEMMA HeldType == \A a \in Actor, s \in State : Held(a, s) \in Row
BY DEF Held, Row

(* What a release writes is a row. *)
LEMMA FreedType == Freed \in Row
BY DEF Freed, Row, State

-----------------------------------------------------------------------------
(* One step per kind of action. *)

(* The other requests keep what they hold when r's row is not theirs. *)
LEMMA OthersKeep ==
    ASSUME QueueInv, NEW q \in Request, UNCHANGED task,
           req'[q] = req[q], writes'[q] = writes[q]
    PROVE  RequestOK(q)'
BY DEF QueueInv, RequestOK, Blank, OpenQueue, Claiming, Freeing

(* What an open claim or release holds after its UPDATE. *)
LEMMA StatementOpens ==
    ASSUME RowsTypeOK, RowLocks, NEW r \in Request, Blank(r), QueueRequest(r)
    PROVE  /\ RowsTypeOK' /\ RowLocks' /\ UNCHANGED <<task, auditor>>
           /\ OpenQueue(r)'
           /\ req'[r].op \in {"claim"} \cup FreeingOp
           /\ req'[r].step = IF req'[r].op = "unlock" THEN "audit" ELSE "commit"
           /\ req[r].step = "idle"
           /\ \A q \in Request \ {r} : req'[q] = req[q] /\ writes'[q] = writes[q]
<1>1. PICK t \in Task : Claims(r, t) \/ Frees(r, t)
  BY RequestStatement
<1>2. CASE Claims(r, t)
  <2>1. PICK a \in Actor, ask \in AllAsks :
            Statement(r, t, "claim", a, ask.from, Held(a, ask.to), "commit")
    BY <1>2 DEF Claims
  <2>2. ask.to \in State /\ ask.from \in SUBSET State
    BY AskType
  <2>3. PICK row \in Row, states \in SUBSET State :
            /\ row = Held(a, ask.to) /\ row.state = ask.to /\ row.claimant = a
            /\ states = ask.from
    BY <2>2, HeldType DEF Held
  <2>4. Statement(r, t, "claim", a, states, row, "commit") /\ "claim" \in Op
    BY <2>1, <2>3 DEF Op
  <2>5. /\ RowsTypeOK' /\ RowLocks'
        /\ Opened(r, t, "claim", a, states, row, "commit")
    <3>1. "commit" \in Step /\ a \in Actor \cup {None}
      BY DEF Step
    <3> QED
      BY <2>4, <3>1, StatementWrites
  <2>6. task[t].state \in states /\ req[r].step = "idle" /\ auditor' = auditor
    BY <2>4 DEF Statement, QueueStatement
  <2>7. Claiming(r, t)'
    BY <2>3, <2>5, <2>6 DEF Claiming, Opened
  <2> QED
    BY <2>5, <2>6, <2>7 DEF OpenQueue, Opened
<1>3. CASE Frees(r, t)
  <2>1. PICK op \in FreeingOp, a \in Actor \cup {None}, step \in {"audit", "commit"} :
            /\ Statement(r, t, op, a, Active, Freed, step)
            /\ step = IF op = "unlock" THEN "audit" ELSE "commit"
    BY <1>3 DEF Frees
  <2>2. /\ op \in Op /\ Freed \in Row /\ Freed.state = "todo" /\ Freed.claimant = None
        /\ Active \in SUBSET State
    BY FreedType DEF Op, FreeingOp, Freed, Active, State
  <2>3. /\ RowsTypeOK' /\ RowLocks'
        /\ Opened(r, t, op, a, Active, Freed, step)
    <3>1. step \in Step
      BY DEF Step
    <3> QED
      BY <2>1, <2>2, <3>1, StatementWrites
  <2>4. /\ task[t].state \in Active /\ req[r].step = "idle" /\ auditor' = auditor
        /\ op = "release" => a \in Admin \/ task[t].claimant = a
    BY <2>1 DEF Statement, QueueStatement
  <2>5. Freeing(r, t)'
    BY <2>1, <2>2, <2>3, <2>4 DEF Freeing, Opened
  <2> QED
    BY <2>1, <2>3, <2>4, <2>5 DEF OpenQueue, Opened, FreeingOp
<1> QED
  BY <1>1, <1>2, <1>3

(* The UPDATE of a claim or a release keeps QueueInv. *)
LEMMA StatementInv ==
    ASSUME QueueInv, NEW r \in Request, QueueRequest(r)
    PROVE  QueueInv' /\ UNCHANGED task
<1>1. RowsTypeOK /\ RowLocks /\ Blank(r)
  BY RequestStatement DEF QueueInv, RequestOK, Claims, Frees, Statement
<1>2. /\ RowsTypeOK' /\ RowLocks' /\ UNCHANGED task /\ OpenQueue(r)'
      /\ req'[r].step # "idle"
      /\ \A q \in Request \ {r} : req'[q] = req[q] /\ writes'[q] = writes[q]
  BY <1>1, StatementOpens
<1>3. \A q \in Request : RequestOK(q)'
  BY <1>2, OthersKeep DEF RequestOK
<1> QED
  BY <1>2, <1>3 DEF QueueInv

(* The audit row of a forced unlock keeps QueueInv. *)
LEMMA AuditInv ==
    ASSUME QueueInv, NEW r \in Request, audit_unlock(r)
    PROVE  QueueInv' /\ UNCHANGED task
<1>1. /\ task' = task /\ writes' = writes /\ auditor' = r
      /\ req' = [req EXCEPT ![r].step = "commit"]
  BY DEF audit_unlock, GoTo
<1>2. req \in [Request -> Req] /\ RowsTypeOK
  BY DEF QueueInv, RowsTypeOK
<1>3. /\ req' \in [Request -> Req]
      /\ \A q \in Request : /\ req'[q].op = req[q].op /\ req'[q].actor = req[q].actor
                            /\ req'[q].task = req[q].task /\ req'[q].asked = req[q].asked
      /\ \A q \in Request \ {r} : req'[q] = req[q]
      /\ req'[r].step = "commit"
  BY <1>1, <1>2 DEF Req, Step
<1>4. RowsTypeOK'
  BY <1>1, <1>2, <1>3 DEF RowsTypeOK
<1>5. RowLocks'
  BY <1>1 DEF QueueInv, RowLocks, Written
<1>6. RequestOK(r)'
  <2> DEFINE t == req[r].task
  <2>1. OpenQueue(r)
    BY DEF audit_unlock, QueueInv, RequestOK
  <2>2. Claiming(r, t) => Claiming(r, t)'
    BY <1>1, <1>3 DEF Claiming
  <2>3. Freeing(r, t) => Freeing(r, t)'
    BY <1>1, <1>3 DEF Freeing
  <2>4. OpenQueue(r)'
    BY <1>1, <1>3, <2>1, <2>2, <2>3 DEF OpenQueue
  <2> QED
    BY <1>3, <2>4 DEF RequestOK
<1>7. \A q \in Request : RequestOK(q)'
  BY <1>1, <1>3, <1>6, OthersKeep
<1> QED
  BY <1>1, <1>4, <1>5, <1>7 DEF QueueInv

(* Rolling back any request keeps QueueInv. *)
LEMMA RollbackInv ==
    ASSUME QueueInv, NEW r \in Request, RollbackRows(r)
    PROVE  QueueInv' /\ UNCHANGED task
<1>1. /\ task' = task
      /\ writes' = [writes EXCEPT ![r] = NoWrites]
      /\ req' = [req EXCEPT ![r] = Idle]
      /\ auditor' = IF auditor = r THEN None ELSE auditor
  BY DEF RollbackRows
<1>2. RowsTypeOK
  BY DEF QueueInv
<1>3. RowsTypeOK'
  BY <1>1, <1>2, FreshTypes DEF RowsTypeOK
<1>4. /\ req'[r].step = "idle"
      /\ \A u \in Task : writes'[r][u].cols = {}
      /\ \A q \in Request \ {r} : req'[q] = req[q] /\ writes'[q] = writes[q]
  BY <1>1, <1>2 DEF RowsTypeOK, Idle, NoWrites, NoWrite
<1>5. RowLocks'
  BY <1>4 DEF QueueInv, RowLocks, Written
<1>6. \A q \in Request : RequestOK(q)'
  BY <1>1, <1>4, OthersKeep DEF RequestOK, Blank
<1> QED
  BY <1>1, <1>3, <1>5, <1>6 DEF QueueInv

(* The row with a new state and claimant. *)
Moved(row, w) == [state |-> w.row.state, claimant |-> w.row.claimant,
                  attempts |-> row.attempts]

(* A commit changes exactly the locked row, in its state and its claimant. *)
LEMMA CommitWrites ==
    ASSUME QueueInv, NEW r \in Request, QueueCommit(r)
    PROVE  /\ OpenQueue(r)
           /\ task' = [task EXCEPT ![req[r].task] =
                         Moved(task[req[r].task], writes[r][req[r].task])]
<1> DEFINE t == req[r].task
           w == writes[r][t]
<1>1. OpenQueue(r) /\ t \in Task /\ w.cols = {"state", "claimant"}
  BY DEF QueueInv, RequestOK, QueueCommit, CommitRows, OpenQueue
<1>2. \A u \in Task \ {t} : Visible(r, u) = task[u]
  BY <1>1, OverlayNothing DEF OpenQueue, Visible, QueueInv, RowsTypeOK
<1>3. Visible(r, t) = Moved(task[t], w)
  BY <1>1 DEF Visible, Overlay, Moved
<1>4. task' = [u \in Task |-> Visible(r, u)]
  BY DEF QueueCommit, CommitRows
<1>5. task \in [Task -> Row]
  BY DEF QueueInv, RowsTypeOK
<1> QED
  BY <1>1, <1>2, <1>3, <1>4, <1>5

(* Committing any request keeps QueueInv. *)
LEMMA CommitInv ==
    ASSUME QueueInv, NEW r \in Request, QueueCommit(r)
    PROVE  QueueInv'
<1> DEFINE t == req[r].task
<1>1. /\ OpenQueue(r) /\ t \in Task
      /\ task' = [task EXCEPT ![t] = Moved(task[t], writes[r][t])]
  BY CommitWrites DEF OpenQueue
<1>2. /\ writes' = [writes EXCEPT ![r] = NoWrites]
      /\ req' = [req EXCEPT ![r] = Idle]
      /\ auditor' = IF auditor = r THEN None ELSE auditor
  BY DEF QueueCommit, CommitRows
<1>3. RowsTypeOK
  BY DEF QueueInv
<1>4. RowsTypeOK'
  <2>1. \A u \in Task : Visible(r, u) \in Row
    BY <1>3, OverlayType DEF RowsTypeOK, Visible
  <2>2. task' \in [Task -> Row]
    BY <2>1 DEF QueueCommit, CommitRows
  <2> QED
    BY <1>2, <1>3, <2>2, FreshTypes DEF RowsTypeOK
<1>5. /\ req'[r].step = "idle"
      /\ \A u \in Task : writes'[r][u].cols = {}
      /\ \A q \in Request \ {r} : req'[q] = req[q] /\ writes'[q] = writes[q]
  BY <1>2, <1>3 DEF RowsTypeOK, Idle, NoWrites, NoWrite
<1>6. RowLocks'
  BY <1>5 DEF QueueInv, RowLocks, Written
<1>7. /\ \A u \in Task \ {t} : task'[u] = task[u]
      /\ task'[t].state = writes[r][t].row.state
      /\ task'[t].claimant = writes[r][t].row.claimant
  BY <1>1, <1>3 DEF RowsTypeOK, Moved
<1>8. ASSUME NEW q \in Request \ {r} PROVE RequestOK(q)'
  <2>1. RequestOK(q) /\ req'[q] = req[q] /\ writes'[q] = writes[q]
    BY <1>5 DEF QueueInv
  <2>2. CASE req[q].step = "idle"
    BY <2>1, <2>2 DEF RequestOK, Blank
  <2>3. CASE req[q].step # "idle"
    <3>1. OpenQueue(q)
      BY <2>1, <2>3 DEF RequestOK, Blank
    <3>2. req[q].task \in Task /\ req[q].task # t
      <4>1. t \in Written(r)
        BY <1>1 DEF OpenQueue, Written
      <4>2. req[q].task \in Written(q)
        BY <3>1 DEF OpenQueue, Written
      <4>3. Written(r) \cap Written(q) = {}
        BY DEF QueueInv, RowLocks
      <4> QED
        BY <3>1, <4>1, <4>2, <4>3 DEF OpenQueue
    <3>3. task'[req[q].task] = task[req[q].task]
      BY <1>7, <3>2
    <3>4. Claiming(q, req[q].task) => Claiming(q, req[q].task)'
      BY <2>1, <3>3 DEF Claiming
    <3>5. Freeing(q, req[q].task) => Freeing(q, req[q].task)'
      BY <2>1, <3>3 DEF Freeing
    <3>6. OpenQueue(q)'
      BY <2>1, <3>1, <3>4, <3>5 DEF OpenQueue
    <3> QED
      BY <2>1, <2>3, <3>6 DEF RequestOK
  <2> QED
    BY <2>2, <2>3
<1>9. RequestOK(r)'
  BY <1>5 DEF RequestOK, Blank
<1> QED
  BY <1>4, <1>6, <1>8, <1>9 DEF QueueInv

-----------------------------------------------------------------------------
(* The inductive invariant holds throughout. *)
LEMMA NextInv == QueueInv /\ [QueueNext]_rowVars => QueueInv'
<1> SUFFICES ASSUME QueueInv, [QueueNext]_rowVars PROVE QueueInv'
  OBVIOUS
<1>1. CASE UNCHANGED rowVars
  BY <1>1 DEF rowVars, QueueInv, RowsTypeOK, RowLocks, Written,
              RequestOK, Blank, OpenQueue, Claiming, Freeing
<1>2. CASE QueueNext
  BY <1>2, StatementInv, AuditInv, CommitInv, RollbackInv DEF QueueNext
<1> QED
  BY <1>1, <1>2

(* The inductive invariant of the queue: every open transaction still holds
   the row it judged, and the row has not changed since. *)
THEOREM QueueInvariant == QueueSpec => []QueueInv
BY InitInv, NextInv, PTL DEF QueueSpec

(* Types: every row, request, write and lock of the queue keeps its type.   *)
THEOREM QueueTypeCorrect == QueueSpec => []RowsTypeOK
<1>1. QueueInv => RowsTypeOK
  BY DEF QueueInv
<1> QED
  BY <1>1, QueueInvariant, PTL

(* Refinement: whatever requests overlap, every commit of a claim, release, *)
(* unlock or reclaim (repo/queue.py) is one step of the indivisible queue,  *)
(* and nothing else changes a row.                                          *)
THEOREM QueueRefinesAtomicQueue == QueueSpec => ImplementsAtomicQueue
<1>1. QueueInit => AQ!Init
  BY QueueAssumption DEF QueueInit, AQ!Init
<1>2. QueueInv /\ [QueueNext]_rowVars => [AQ!Next]_task
  <2> SUFFICES ASSUME QueueInv, [QueueNext]_rowVars PROVE [AQ!Next]_task
    OBVIOUS
  <2>1. CASE UNCHANGED rowVars
    BY <2>1 DEF rowVars
  <2>2. ASSUME NEW r \in Request, QueueRequest(r) \/ audit_unlock(r) \/ RollbackRows(r)
        PROVE  UNCHANGED task
    BY <2>2, StatementInv, AuditInv, RollbackInv
  <2>3. ASSUME NEW r \in Request, QueueCommit(r) PROVE AQ!Next
    <3> DEFINE t == req[r].task
    <3>1. /\ OpenQueue(r) /\ t \in Task
          /\ task' = [task EXCEPT ![t] = Moved(task[t], writes[r][t])]
      BY <2>3, CommitWrites DEF OpenQueue
    <3>2. CASE Claiming(r, t)
      <4>1. PICK ask \in AllAsks :
                /\ req[r].asked = ask.from /\ writes[r][t].row.state = ask.to
                /\ task[t].state \in ask.from
        BY <3>2 DEF Claiming
      <4>2. AQ!Claim(t, req[r].actor, ask)
        BY <3>1, <3>2, <4>1 DEF Claiming, AQ!Claim, Moved
      <4> QED
        BY <3>1, <3>2, <4>2 DEF Claiming, AQ!Next, AllAsks
    <3>3. CASE Freeing(r, t)
      BY <3>1, <3>3 DEF Freeing, AQ!Free, AQ!Next, AQ!Active, Active, Moved
    <3> QED
      BY <3>1, <3>2, <3>3 DEF OpenQueue
  <2> QED
    BY <2>1, <2>2, <2>3 DEF QueueNext
<1> QED
  BY <1>1, <1>2, QueueInvariant, PTL DEF QueueSpec, ImplementsAtomicQueue, AQ!Spec

(* A release by an agent that commits still finds that agent's own claim,   *)
(* however many requests committed since it was checked.                    *)
THEOREM ReleaseByHolderHolds == QueueSpec => ReleaseByHolder
<1>1. ASSUME QueueInv, [QueueNext]_rowVars,
             NEW r \in Request, Commits(r), req[r].op = "release", req[r].actor \notin Admin
      PROVE  task[req[r].task].claimant = req[r].actor
  BY <1>1 DEF Commits, QueueInv, RequestOK, OpenQueue, Claiming, Freeing
<1>2. QueueInv /\ [QueueNext]_rowVars =>
        [\A r \in Request :
           Commits(r) /\ req[r].op = "release" /\ req[r].actor \notin Admin
             => task[req[r].task].claimant = req[r].actor]_rowVars
  BY <1>1
<1> QED
  BY <1>2, QueueInvariant, PTL DEF QueueSpec, ReleaseByHolder

(***************************************************************************)
(* The lifecycle.  The argument rests on two locks: the row lock of every  *)
(* written row, and the audit advisory lock, under which only claims,      *)
(* releases and reclaims of other requests can commit.  Releases and       *)
(* reclaims neither block nor finish a task; the rows a claim does that to *)
(* are in crossed.                                                         *)
(***************************************************************************)
QueueOp == {"claim"} \cup FreeingOp
LifecycleOp == {"submit", "approve", "reject", "reset"}

(* A dependent that was found ready: it is blocked and its dependencies are *)
(* all done, but for rows a claim crossed.                                  *)
Promised(r, d) ==
    /\ task[d].state = "blocked" \/ d \in crossed
    /\ \A p \in Deps[d] \ crossed : Visible(r, p).state = "done"

(* A row written in passing. *)
Requeued(r, d) ==
    /\ Promised(r, d)
    /\ "state" \in writes[r][d].cols
    /\ writes[r][d].row.state = "queued"

(* A dependent there is nothing left to do for, or that a claim crossed.    *)
Settled(r, d) ==
    ~Ready(r, d) \/ d \in crossed \/ \E p \in Deps[d] : p \in crossed

(* A request past its audit row: it holds the audit lock, and the           *)
(* dependents it has dealt with are settled.                                *)
Unblocking(r) ==
    LET t == req[r].task IN
    /\ auditor = r
    /\ \A d \in Task \ {t} : writes[r][d].cols # {} => Requeued(r, d)
    /\ req[r].op \in Completing /\ Visible(r, t).state = "done" =>
          \A d \in Dependents(t) \ (req[r].pending \cup {req[r].dependent}) : Settled(r, d)

(* The state an operation that may finish its task has found it in. *)
Judged(q) ==
    /\ q.op = "submit" => q.seen.state = "in_progress"
    /\ q.op = "approve" => q.seen.state = "validated"

LifecycleOK(r) ==
    LET q == req[r] IN
    /\ q.task \in Task
    /\ q.asked = {}
    /\ q.step \in {"report", "run", "write"} => Blank(r) /\ Judged(q)
    /\ q.step = "report" => auditor # r
    /\ q.step \in {"audit", "unblock", "requeue", "commit"} /\ q.op \in Completing
         => "state" \in writes[r][q.task].cols
    /\ q.step = "audit" => \A u \in Task \ {q.task} : writes[r][u].cols = {}
    /\ q.step \in {"unblock", "requeue", "commit"} => Unblocking(r)
    /\ q.step \in {"unblock", "requeue"} =>
          q.op \in Completing /\ Visible(r, q.task).state = "done"
    /\ IF q.step = "requeue"
         THEN q.dependent \in Task \ {q.task} /\ Promised(r, q.dependent) /\ q.seen.state = "blocked"
         ELSE q.dependent = None
    /\ q.step = "commit" => q.pending = {}

ReqOK(r) ==
    LET q == req[r] IN
    IF q.step = "idle"
      THEN Blank(r) /\ auditor # r
      ELSE \/ /\ q.op \in QueueOp
              /\ OpenQueue(r)
              /\ q.step \in {"audit", "commit"}
              /\ q.op = "unlock" /\ q.step = "commit" => auditor = r
              /\ q.op # "unlock" => q.step = "commit"
           \/ q.op \in LifecycleOp /\ LifecycleOK(r)

LifecycleInv ==
    /\ TypeOK
    /\ RowLocks
    /\ \A r \in Request : ReqOK(r)

-----------------------------------------------------------------------------
(* What r knows survives the steps of the others. *)

SameRequest(r) ==
    /\ req'[r].op = req[r].op /\ req'[r].actor = req[r].actor
    /\ req'[r].task = req[r].task /\ req'[r].step = req[r].step
    /\ req'[r].seen = req[r].seen /\ req'[r].asked = req[r].asked
    /\ req'[r].pending = req[r].pending
    /\ req'[r].dependent = req[r].dependent
    /\ writes'[r] = writes[r]
    /\ auditor' = r <=> auditor = r

SameStatus(u) ==
    /\ task'[u].state = "blocked" <=> task[u].state = "blocked"
    /\ task'[u].state = "done" <=> task[u].state = "done"

(* The state of a row as its own transaction sees it. *)
LEMMA VisibleState ==
    \A r, t : Visible(r, t).state = IF "state" \in writes[r][t].cols
                                      THEN writes[r][t].row.state ELSE task[t].state
BY DEF Visible, Overlay

(* VisibleState after a step. *)
LEMMA VisibleStateNext ==
    \A r, t : Visible(r, t)'.state = IF "state" \in writes'[r][t].cols
                                       THEN writes'[r][t].row.state ELSE task'[t].state
BY DEF Visible, Overlay

(* A request that is not touched, whose rows are not touched, keeps ReqOK if
   under its audit lock no task became or stopped being blocked or done, but
   those in crossed. *)
LEMMA Keep ==
    ASSUME NEW r \in Request, ReqOK(r), SameRequest(r),
           \A u \in Written(r) : task'[u] = task[u],
           auditor = r => \A u \in Task : SameStatus(u) \/ u \in crossed',
           auditor = r => crossed \subseteq crossed',
           ActionsAssumption
    PROVE  ReqOK(r)'
<1>1. Blank(r)' <=> Blank(r)
  BY DEF Blank, SameRequest
<1>2. CASE req[r].step = "idle"
  BY <1>1, <1>2 DEF ReqOK, SameRequest
<1>3. CASE req[r].step # "idle" /\ req[r].op \in QueueOp /\ OpenQueue(r)
  <2>1. req[r].task \in Written(r)
    BY <1>3 DEF OpenQueue, Written
  <2>2. OpenQueue(r)'
    BY <1>3, <2>1 DEF OpenQueue, Claiming, Freeing, SameRequest
  <2> QED
    BY <1>3, <2>2 DEF ReqOK, SameRequest, QueueOp, FreeingOp, LifecycleOp
<1>4. CASE req[r].step # "idle" /\ req[r].op \in LifecycleOp /\ LifecycleOK(r)
  <2>1. Judged(req[r])' <=> Judged(req[r])
    BY DEF Judged, SameRequest
  <2>2. ASSUME auditor = r, NEW u \in Task, u \notin crossed'
        PROVE  /\ Visible(r, u)'.state = "done" <=> Visible(r, u).state = "done"
               /\ Visible(r, u)'.state = "blocked" <=> Visible(r, u).state = "blocked"
               /\ task'[u].state = "blocked" <=> task[u].state = "blocked"
               /\ u \notin crossed
    BY <2>2, VisibleState, VisibleStateNext DEF SameRequest, SameStatus
  <2>3. ASSUME auditor = r, NEW d \in Task, Promised(r, d) PROVE Promised(r, d)'
    BY <2>2, <2>3 DEF Promised, ActionsAssumption
  <2>4. ASSUME auditor = r, NEW d \in Task, Requeued(r, d) PROVE Requeued(r, d)'
    BY <2>3, <2>4 DEF Requeued, SameRequest
  <2>5. ASSUME auditor = r, NEW d \in Task, Settled(r, d) PROVE Settled(r, d)'
    BY <2>2, <2>5 DEF Settled, Ready, ActionsAssumption
  <2>6. "state" \in writes[r][req[r].task].cols
           => Visible(r, req[r].task)'.state = Visible(r, req[r].task).state
    BY VisibleState, VisibleStateNext DEF SameRequest
  <2>7. req[r].step \in {"unblock", "requeue", "commit"} => Unblocking(r)'
    <3>1. ASSUME req[r].step \in {"unblock", "requeue", "commit"} PROVE Unblocking(r)'
      <4>1. Unblocking(r) /\ auditor = r
        BY <1>4, <3>1 DEF LifecycleOK, Unblocking
      <4>2. req[r].op \in Completing
              => Visible(r, req[r].task)'.state = Visible(r, req[r].task).state
        BY <1>4, <2>6, <3>1 DEF LifecycleOK
      <4>3. Dependents(req[r].task) \subseteq Task
        BY DEF Dependents
      <4> QED
        BY <2>4, <2>5, <4>1, <4>2, <4>3 DEF Unblocking, SameRequest
    <3> QED
      BY <3>1
  <2>8. req[r].step = "requeue" => Promised(r, req[r].dependent)'
    <3>1. ASSUME req[r].step = "requeue" PROVE Promised(r, req[r].dependent)'
      <4>1. /\ req[r].dependent \in Task /\ Promised(r, req[r].dependent)
            /\ req'[r].dependent = req[r].dependent
        BY <1>4, <3>1 DEF LifecycleOK, SameRequest
      <4>2. auditor = r
        BY <1>4, <3>1 DEF LifecycleOK, Unblocking
      <4>3. PICK d \in Task : d = req[r].dependent
        BY <4>1
      <4>4. Promised(r, d)'
        BY <2>3, <4>1, <4>2, <4>3
      <4> QED
        BY <4>1, <4>3, <4>4 DEF Promised
    <3> QED
      BY <3>1
  <2>9. LifecycleOK(r)'
    BY <1>1, <1>4, <2>1, <2>6, <2>7, <2>8 DEF LifecycleOK, SameRequest, Completing
  <2> QED
    BY <1>4, <2>9 DEF ReqOK, SameRequest
<1> QED
  BY <1>2, <1>3, <1>4 DEF ReqOK

(* Steps that commit nothing: only r's request, its writes and the audit    *)
(* lock change, and the lock only between r and no one.                     *)
LEMMA QuietStep ==
    ASSUME LifecycleInv, NEW r \in Request, UNCHANGED task,
           \A q \in Request \ {r} : req'[q] = req[q] /\ writes'[q] = writes[q],
           auditor' = auditor \/ (auditor \in {None, r} /\ auditor' \in {None, r}),
           crossed' = crossed \/ auditor \in {None, r},
           TypeOK', RowLocks', ReqOK(r)'
    PROVE  LifecycleInv'
<1>2. ASSUME NEW q \in Request \ {r} PROVE ReqOK(q)'
  <2>1. ReqOK(q)
    BY DEF LifecycleInv
  <2>2. /\ auditor' = q <=> auditor = q
        /\ auditor = q => crossed' = crossed
    BY NoneAssumption
  <2>3. SameRequest(q)
    BY <2>2 DEF SameRequest
  <2>4. \A u \in Task : SameStatus(u) /\ task'[u] = task[u]
    BY DEF SameStatus
  <2>5. \A u \in Written(q) : task'[u] = task[u]
    BY <2>4 DEF Written
  <2> QED
    BY <2>1, <2>2, <2>3, <2>4, <2>5, Keep, ActionsAssumption
<1> QED
  BY <1>2 DEF LifecycleInv

(* Created tasks with no request open satisfy LifecycleInv. *)
LEMMA InitLifecycle == Init => LifecycleInv
<1> SUFFICES ASSUME Init PROVE LifecycleInv
  OBVIOUS
<1>1. \A r \in Request : Blank(r) /\ req[r].step = "idle" /\ auditor # r
  BY NoneAssumption DEF Init, Blank, NoWrites, NoWrite, Idle
<1>2. RowLocks
  BY <1>1 DEF RowLocks, Written, Blank
<1>3. TypeOK
  BY FreshTypes, CreatedType DEF Init, TypeOK, RowsTypeOK
<1> QED
  BY <1>1, <1>2, <1>3 DEF LifecycleInv, ReqOK

-----------------------------------------------------------------------------
(* One lemma per kind of step. *)

(* The UPDATE of a queue operation. *)
LEMMA QueueRequestStep ==
    ASSUME LifecycleInv, NEW r \in Request, QueueRequest(r), UNCHANGED crossed
    PROVE  LifecycleInv'
<1>1. RowsTypeOK /\ RowLocks /\ Blank(r) /\ auditor # r
  BY RequestStatement DEF LifecycleInv, TypeOK, ReqOK, Claims, Frees, Statement
<1>2. /\ RowsTypeOK' /\ RowLocks' /\ UNCHANGED <<task, auditor>>
      /\ OpenQueue(r)'
      /\ req'[r].op \in QueueOp
      /\ req'[r].step = IF req'[r].op = "unlock" THEN "audit" ELSE "commit"
      /\ \A q \in Request \ {r} : req'[q] = req[q] /\ writes'[q] = writes[q]
  BY <1>1, StatementOpens DEF QueueOp
<1>3. ReqOK(r)'
  BY <1>2 DEF ReqOK
<1>4. TypeOK'
  BY <1>2 DEF LifecycleInv, TypeOK
<1> QED
  BY <1>2, <1>3, <1>4, QuietStep

(* Loading the task of a lifecycle request. *)
LEMMA LoadStep ==
    ASSUME LifecycleInv, NEW r \in Request, NEW t \in Task, NEW a \in Actor,
           NEW op \in LifecycleOp, NEW o \in Outcome,
           NEW step \in {"report", "run", "write"}, Load(r, op, a, t, o, step),
           op = "submit" => task[t].state = "in_progress",
           op = "approve" => task[t].state = "validated"
    PROVE  LifecycleInv'
<1> DEFINE opened == [Idle EXCEPT !.op = op, !.actor = a, !.task = t, !.seen = task[t],
                                  !.outcome = o, !.step = step]
<1>1. /\ UNCHANGED <<task, writes, auditor, crossed>>
      /\ req' = [req EXCEPT ![r] = opened]
      /\ req[r].step = "idle"
  BY DEF Load
<1>2. RowsTypeOK /\ TypeOK /\ RowLocks /\ Blank(r) /\ auditor # r
  BY <1>1 DEF LifecycleInv, ReqOK, TypeOK
<1>3. /\ opened \in Req /\ opened.op = op /\ opened.task = t /\ opened.step = step
      /\ opened.dependent = None /\ opened.asked = {} /\ opened.seen = task[t]
  <2>1. task[t] \in Row /\ op \in Op /\ step \in Step
    BY <1>2 DEF RowsTypeOK, LifecycleOp, Op, Step
  <2> QED
    BY <2>1, FreshTypes DEF Idle, Req
<1> HIDE DEF opened
<1>4. /\ req'[r] = opened
      /\ \A q \in Request \ {r} : req'[q] = req[q] /\ writes'[q] = writes[q]
  BY <1>1, <1>2 DEF RowsTypeOK
<1>5. TypeOK' /\ RowLocks'
  BY <1>1, <1>2, <1>3 DEF TypeOK, RowsTypeOK, RowLocks, Written
<1>6. LifecycleOK(r)'
  <2>1. /\ req'[r].task = t /\ req'[r].step = step /\ req'[r].dependent = None
        /\ req'[r].asked = {} /\ step \in {"report", "run", "write"}
        /\ auditor' # r
    BY <1>1, <1>2, <1>3, <1>4
  <2>2. Blank(r)'
    BY <1>1, <1>2 DEF Blank
  <2>3. Judged(req[r])'
    BY <1>3, <1>4 DEF Judged
  <2> QED
    BY <2>1, <2>2, <2>3 DEF LifecycleOK
<1>7. ReqOK(r)'
  BY <1>3, <1>4, <1>6 DEF ReqOK
<1> QED
  BY <1>1, <1>4, <1>5, <1>7, QuietStep

(* Starting a submission, an approval, a rejection or a reset. *)
LEMMA LifecycleRequestStep ==
    ASSUME LifecycleInv, NEW r \in Request, LifecycleRequest(r)
    PROVE  LifecycleInv'
<1>1. ASSUME NEW t \in Task, NEW a \in Actor, NEW o \in Payloads, submit_task(r, a, t, o)
      PROVE  LifecycleInv'
  BY <1>1, LoadStep, ActionsAssumption DEF submit_task, LifecycleOp, Outcome
<1>2. ASSUME NEW t \in Task, NEW a \in Actor,
             approve_task(r, a, t) \/ reject_task(r, a, t) \/ reset_task(r, a, t)
      PROVE  LifecycleInv'
  BY <1>2, LoadStep DEF approve_task, reject_task, reset_task, LifecycleOp, Outcome
<1> QED
  BY <1>1, <1>2 DEF LifecycleRequest

(* Moving to another step changes nothing else of a request.                *)
LEMMA StepTo ==
    ASSUME req \in [Request -> Req], NEW r \in Request, NEW step \in Step,
           req' = [req EXCEPT ![r].step = step]
    PROVE  /\ req' \in [Request -> Req]
           /\ \A q \in Request \ {r} : req'[q] = req[q]
           /\ req'[r].step = step
           /\ req'[r].op = req[r].op /\ req'[r].actor = req[r].actor
           /\ req'[r].task = req[r].task /\ req'[r].seen = req[r].seen
           /\ req'[r].pending = req[r].pending /\ req'[r].asked = req[r].asked
           /\ req'[r].dependent = req[r].dependent
<1> DEFINE new == [req[r] EXCEPT !.step = step]
<1>1. req[r] \in Req
  OBVIOUS
<1>2. new \in Req
  BY <1>1 DEF Req
<1>3. /\ new.step = step
      /\ new.op = req[r].op /\ new.actor = req[r].actor
      /\ new.task = req[r].task /\ new.seen = req[r].seen
      /\ new.pending = req[r].pending /\ new.dependent = req[r].dependent
      /\ new.asked = req[r].asked
  BY <1>1 DEF Req
<1>4. req' = [req EXCEPT ![r] = new]
  OBVIOUS
<1> HIDE DEF new
<1> QED
  BY <1>2, <1>3, <1>4

(* A step of a lifecycle request: what it was before, whatever its step.    *)
LEMMA OpenLifecycle ==
    ASSUME LifecycleInv, NEW r \in Request, req[r].step \notin {"idle", "commit"},
           req[r].step = "audit" => req[r].op # "unlock"
    PROVE  req[r].op \in LifecycleOp /\ LifecycleOK(r)
BY DEF LifecycleInv, ReqOK, QueueOp, FreeingOp

(* Reading the newest DoD report before an approval. *)
LEMMA ReportStep ==
    ASSUME LifecycleInv, NEW r \in Request, latest_dod_report(r)
    PROVE  LifecycleInv'
<1>1. /\ req[r].op \in LifecycleOp /\ LifecycleOK(r) /\ req[r].step = "report"
      /\ UNCHANGED <<task, writes, auditor, crossed>>
  BY OpenLifecycle DEF latest_dod_report
<1>2. TypeOK /\ RowsTypeOK /\ RowLocks /\ Blank(r) /\ auditor # r
  BY <1>1 DEF LifecycleInv, TypeOK, LifecycleOK
<1>3. CASE req' = [req EXCEPT ![r].step = "write"]
  <2>1. /\ req' \in [Request -> Req]
        /\ \A q \in Request \ {r} : req'[q] = req[q] /\ writes'[q] = writes[q]
        /\ req'[r].step = "write" /\ req'[r].op = req[r].op
        /\ req'[r].task = req[r].task /\ req'[r].dependent = req[r].dependent
        /\ req'[r].seen = req[r].seen /\ req'[r].asked = req[r].asked
    BY <1>1, <1>2, <1>3, StepTo DEF RowsTypeOK, Step
  <2>2. TypeOK' /\ RowLocks'
    BY <1>1, <1>2, <2>1 DEF TypeOK, RowsTypeOK, RowLocks, Written
  <2>3. ReqOK(r)'
    BY <1>1, <1>2, <2>1 DEF ReqOK, LifecycleOK, Judged, Blank
  <2> QED
    BY <1>1, <2>1, <2>2, <2>3, QuietStep
<1>4. CASE req' = [req EXCEPT ![r] = Idle]
  <2>1. /\ req' \in [Request -> Req]
        /\ \A q \in Request \ {r} : req'[q] = req[q] /\ writes'[q] = writes[q]
        /\ req'[r].step = "idle"
    BY <1>1, <1>2, <1>4, FreshTypes DEF RowsTypeOK, Idle
  <2>2. TypeOK' /\ RowLocks'
    BY <1>1, <1>2, <2>1 DEF TypeOK, RowsTypeOK, RowLocks, Written
  <2>3. ReqOK(r)'
    BY <1>1, <1>2, <2>1 DEF ReqOK, Blank
  <2> QED
    BY <1>1, <2>1, <2>2, <2>3, QuietStep
<1> QED
  BY <1>3, <1>4 DEF latest_dod_report, GoTo

(* Inserting the run of a valid submission. *)
LEMMA RunStep ==
    ASSUME LifecycleInv, NEW r \in Request, insert_run(r)
    PROVE  LifecycleInv'
<1>1. /\ req[r].op \in LifecycleOp /\ LifecycleOK(r) /\ req[r].step = "run"
      /\ UNCHANGED <<task, writes, crossed>>
      /\ auditor \in {None, r} /\ auditor' = r
      /\ req' = [req EXCEPT ![r].step = "write"]
  BY OpenLifecycle DEF insert_run, GoTo, AuditFree
<1>2. TypeOK /\ RowsTypeOK /\ RowLocks /\ Blank(r)
  BY <1>1 DEF LifecycleInv, TypeOK, LifecycleOK
<1>3. /\ req' \in [Request -> Req]
      /\ \A q \in Request \ {r} : req'[q] = req[q] /\ writes'[q] = writes[q]
      /\ req'[r].step = "write" /\ req'[r].op = req[r].op
      /\ req'[r].task = req[r].task /\ req'[r].dependent = req[r].dependent
      /\ req'[r].seen = req[r].seen /\ req'[r].asked = req[r].asked
  BY <1>1, <1>2, StepTo DEF RowsTypeOK, Step
<1>4. TypeOK' /\ RowLocks'
  BY <1>1, <1>2, <1>3 DEF TypeOK, RowsTypeOK, RowLocks, Written
<1>5. ReqOK(r)'
  BY <1>1, <1>2, <1>3 DEF ReqOK, LifecycleOK, Judged, Blank
<1> QED
  BY <1>1, <1>3, <1>4, <1>5, QuietStep

(* The values a handler assigns make a row, and an operation that may finish*)
(* its task changes the state it has found.                                 *)
LEMMA AssignedRow ==
    ASSUME ActionsAssumption, NEW q \in Req, q.op \in LifecycleOp
    PROVE  /\ Assigned(q) \in Row
           /\ Judged(q) /\ q.op \in Completing => "state" \in Changed(q.seen, Assigned(q))
<1> DEFINE old == q.seen
<1>1. old \in Row /\ old.attempts \in Nat
  BY DEF Req, Row
<1>2. /\ Failed(old) \in Row
      /\ Failed(old).state \in {"dlq", "queued"}
  BY <1>1 DEF Failed, Row, State
<1>3. \A s \in {"validated", "done"} : Finished(old, s) \in Row /\ Finished(old, s).state = s
  BY <1>1 DEF Finished, Row, State
<1>4. FreshRow \in Row
  BY FreshTypes
<1>5. Assigned(q) \in Row
  BY <1>2, <1>3, <1>4 DEF Assigned, LifecycleOp
<1>6. Judged(q) /\ q.op \in Completing => q.seen.state # Assigned(q).state
  BY <1>2, <1>3 DEF Assigned, Judged, Completing
<1> QED
  BY <1>5, <1>6 DEF Changed, Column

(* An UPDATE of a row nobody else has written keeps the row locks.          *)
LEMMA RowUpdate ==
    ASSUME RowsTypeOK, RowLocks, NEW r \in Request, NEW t \in Task,
           NEW cols \in SUBSET Column, NEW row \in Row,
           cols # {} => Unlocked(r, t), SetColumns(r, t, cols, row)
    PROVE  /\ writes' \in [Request -> [Task -> Write]]
           /\ RowLocks'
           /\ writes'[r][t].cols = cols
           /\ "state" \in cols => writes'[r][t].row.state = row.state
           /\ \A u \in Task \ {t} : writes'[r][u] = writes[r][u]
           /\ \A q \in Request \ {r} : writes'[q] = writes[q]
<1> DEFINE new == [cols |-> cols, row |-> Overlay(FreshRow, [cols |-> cols, row |-> row])]
<1>1. [cols |-> cols, row |-> row] \in Write
  BY DEF Write
<1>2. new \in Write /\ new.cols = cols /\ ("state" \in cols => new.row.state = row.state)
  BY <1>1, FreshTypes, OverlayType DEF Write, Overlay
<1>3. writes' = [writes EXCEPT ![r][t] = new]
  BY DEF SetColumns
<1> HIDE DEF new
<1>4. /\ writes' \in [Request -> [Task -> Write]]
      /\ writes'[r][t] = new
      /\ \A u \in Task \ {t} : writes'[r][u] = writes[r][u]
      /\ \A q \in Request \ {r} : writes'[q] = writes[q]
  BY <1>2, <1>3 DEF RowsTypeOK
<1>5. RowLocks'
  <2>1. \A q \in Request \ {r} : t \notin Written(q) \/ cols = {}
    BY DEF Unlocked
  <2> QED
    BY <1>2, <1>4, <2>1 DEF RowLocks, Written
<1> QED
  BY <1>2, <1>4, <1>5

(* Flushing the changed columns of the task row. *)
LEMMA FlushStep ==
    ASSUME LifecycleInv, NEW r \in Request, flush_task(r)
    PROVE  LifecycleInv'
<1> DEFINE q == req[r]
           cols == Changed(q.seen, Assigned(q))
<1>1. /\ q.op \in LifecycleOp /\ LifecycleOK(r) /\ q.step = "write"
      /\ UNCHANGED <<task, auditor, crossed>>
      /\ cols # {} => Unlocked(r, q.task)
      /\ SetColumns(r, q.task, cols, Assigned(q))
      /\ req' = [req EXCEPT ![r].step = "audit", ![r].seen = FreshRow]
  BY OpenLifecycle DEF flush_task
<1>2. TypeOK /\ RowsTypeOK /\ RowLocks /\ Blank(r) /\ q \in Req /\ q.task \in Task
  BY <1>1 DEF LifecycleInv, TypeOK, RowsTypeOK, LifecycleOK
<1>3. /\ Assigned(q) \in Row /\ cols \in SUBSET Column
      /\ q.op \in Completing => "state" \in cols
  BY <1>1, <1>2, AssignedRow, ActionsAssumption DEF Changed, LifecycleOK
<1>4. /\ writes' \in [Request -> [Task -> Write]]
      /\ RowLocks'
      /\ writes'[r][q.task].cols = cols
      /\ "state" \in cols => writes'[r][q.task].row.state = Assigned(q).state
      /\ \A u \in Task \ {q.task} : writes'[r][u] = writes[r][u]
      /\ \A p \in Request \ {r} : writes'[p] = writes[p]
  <2> DEFINE row == Assigned(q)
  <2> HIDE DEF row, cols
  <2>1. row \in Row /\ SetColumns(r, q.task, cols, row)
    BY <1>1, <1>3 DEF row
  <2>2. /\ writes' \in [Request -> [Task -> Write]]
        /\ RowLocks'
        /\ writes'[r][q.task].cols = cols
        /\ "state" \in cols => writes'[r][q.task].row.state = row.state
        /\ \A u \in Task \ {q.task} : writes'[r][u] = writes[r][u]
        /\ \A p \in Request \ {r} : writes'[p] = writes[p]
    BY <1>1, <1>2, <1>3, <2>1, RowUpdate
  <2> QED
    BY <2>2 DEF row
<1>5. /\ req' \in [Request -> Req]
      /\ \A p \in Request \ {r} : req'[p] = req[p]
      /\ req'[r].step = "audit" /\ req'[r].op = q.op
      /\ req'[r].task = q.task /\ req'[r].dependent = q.dependent
      /\ req'[r].asked = q.asked
  BY <1>1, <1>2, FreshTypes DEF RowsTypeOK, Req, Step
<1>6. TypeOK'
  BY <1>1, <1>2, <1>4, <1>5 DEF TypeOK, RowsTypeOK
<1>7. LifecycleOK(r)'
  <2>1. \A u \in Task \ {q.task} : writes'[r][u].cols = {}
    BY <1>2, <1>4 DEF Blank
  <2>2. q.op \in Completing => "state" \in writes'[r][q.task].cols
    BY <1>3, <1>4
  <2>3. q.asked = {} /\ q.dependent = None
    BY <1>1 DEF LifecycleOK
  <2> HIDE DEF q, cols
  <2> QED
    BY <1>2, <1>5, <2>1, <2>2, <2>3 DEF LifecycleOK
<1>8. ReqOK(r)'
  BY <1>1, <1>5, <1>7 DEF ReqOK
<1> QED
  BY <1>1, <1>4, <1>5, <1>6, <1>8, QuietStep

(* The audit row of a forced unlock. *)
LEMMA UnlockAuditStep ==
    ASSUME LifecycleInv, NEW r \in Request, audit_unlock(r), UNCHANGED crossed
    PROVE  LifecycleInv'
<1>1. /\ UNCHANGED <<task, writes, crossed>>
      /\ auditor \in {None, r} /\ auditor' = r
      /\ req' = [req EXCEPT ![r].step = "commit"]
      /\ req[r].step = "audit" /\ req[r].op = "unlock"
  BY DEF audit_unlock, GoTo, AuditFree
<1>2. TypeOK /\ RowsTypeOK /\ RowLocks /\ ReqOK(r)
  BY DEF LifecycleInv, TypeOK
<1>3. /\ req' \in [Request -> Req]
      /\ \A q \in Request \ {r} : req'[q] = req[q] /\ writes'[q] = writes[q]
      /\ req'[r].step = "commit" /\ req'[r].op = req[r].op
      /\ req'[r].task = req[r].task /\ req'[r].actor = req[r].actor
  BY <1>1, <1>2, StepTo DEF RowsTypeOK, Step
<1>4. TypeOK' /\ RowLocks'
  BY <1>1, <1>2, <1>3 DEF TypeOK, RowsTypeOK, RowLocks, Written
<1>5. OpenQueue(r) => OpenQueue(r)'
  BY <1>1, <1>3 DEF OpenQueue, Claiming, Freeing
<1>6. ReqOK(r)'
  BY <1>1, <1>2, <1>3, <1>5 DEF ReqOK, LifecycleOp
<1> QED
  BY <1>1, <1>3, <1>4, <1>6, QuietStep

(* Changing several fields of one request leaves the others' alone.         *)
Updated(q, step, pending, dependent, seen) ==
    [q EXCEPT !.step = step, !.pending = pending, !.dependent = dependent, !.seen = seen]

(* An updated request is a request. *)
LEMMA UpdatedType ==
    ASSUME NEW q \in Req, NEW step \in Step, NEW pending \in SUBSET Task,
           NEW dependent \in Task \cup {None}, NEW seen \in Row
    PROVE  LET new == Updated(q, step, pending, dependent, seen) IN
           /\ new \in Req
           /\ new.step = step /\ new.pending = pending
           /\ new.dependent = dependent /\ new.seen = seen
           /\ new.op = q.op /\ new.task = q.task /\ new.asked = q.asked
BY DEF Updated, Req

(* Replacing the record of one request leaves the others alone. *)
LEMMA ReqUpdate ==
    ASSUME req \in [Request -> Req], NEW r \in Request,
           NEW step \in Step, NEW pending \in SUBSET Task,
           NEW dependent \in Task \cup {None}, NEW seen \in Row,
           req' = [req EXCEPT ![r] = Updated(req[r], step, pending, dependent, seen)]
    PROVE  /\ req' \in [Request -> Req]
           /\ \A q \in Request \ {r} : req'[q] = req[q]
           /\ req'[r].step = step /\ req'[r].pending = pending
           /\ req'[r].dependent = dependent /\ req'[r].seen = seen
           /\ req'[r].op = req[r].op /\ req'[r].task = req[r].task
           /\ req'[r].asked = req[r].asked
<1>1. req[r] \in Req
  OBVIOUS
<1> QED
  BY <1>1, UpdatedType

(* Without a commit or a write of r, r sees what it saw.                    *)
LEMMA SameView ==
    ASSUME NEW r, UNCHANGED task, writes'[r] = writes[r]
    PROVE  /\ \A u : Visible(r, u)' = Visible(r, u)
           /\ \A d : Ready(r, d)' <=> Ready(r, d)
BY DEF Visible, Ready

(* Nor does what it knows of a dependent change. *)
LEMMA SamePassing ==
    ASSUME NEW r, NEW d, UNCHANGED <<task, crossed>>, writes'[r] = writes[r]
    PROVE  /\ Promised(r, d)' <=> Promised(r, d)
           /\ Requeued(r, d)' <=> Requeued(r, d)
           /\ Settled(r, d)' <=> Settled(r, d)
BY SameView DEF Promised, Requeued, Settled

(* The audit row of a lifecycle request, which takes the audit lock. *)
LEMMA AuditStep ==
    ASSUME LifecycleInv, NEW r \in Request, req[r].op # "unlock", audit_task(r)
    PROVE  LifecycleInv'
<1> DEFINE q == req[r]
           done == Visible(r, q.task).state = "done" /\ q.op \in Completing
           pending == IF done THEN Dependents(q.task) ELSE {}
           step == IF pending = {} THEN "commit" ELSE "unblock"
<1>1. /\ q.op \in LifecycleOp /\ LifecycleOK(r) /\ q.step = "audit"
      /\ UNCHANGED <<task, writes>> /\ crossed' = {}
      /\ auditor \in {None, r} /\ auditor' = r
      /\ req' = [req EXCEPT ![r].pending = pending, ![r].step = step]
  BY OpenLifecycle DEF audit_task, AuditFree, Completing
<1>2. TypeOK /\ RowsTypeOK /\ RowLocks /\ q \in Req /\ q.task \in Task /\ q.dependent = None
  BY <1>1 DEF LifecycleInv, TypeOK, RowsTypeOK, LifecycleOK
<1>3. pending \in SUBSET Task /\ step \in Step
  BY DEF Dependents, Step
<1>4. /\ req' \in [Request -> Req]
      /\ \A p \in Request \ {r} : req'[p] = req[p]
      /\ req'[r].step = step /\ req'[r].pending = pending
      /\ req'[r].dependent = None
      /\ req'[r].op = q.op /\ req'[r].task = q.task /\ req'[r].asked = q.asked
  <2>1. /\ [q EXCEPT !.pending = pending, !.step = step] \in Req
        /\ req' = [req EXCEPT ![r] = [q EXCEPT !.pending = pending, !.step = step]]
    BY <1>1, <1>2, <1>3 DEF Req, RowsTypeOK
  <2> DEFINE new == [q EXCEPT !.pending = pending, !.step = step]
  <2>2. /\ new.step = step /\ new.pending = pending /\ new.dependent = None
        /\ new.op = q.op /\ new.task = q.task /\ new.asked = q.asked
    BY <1>2 DEF Req
  <2> HIDE DEF new, q, pending, step
  <2>3. new \in Req /\ req' = [req EXCEPT ![r] = new]
    BY <2>1 DEF new
  <2> QED
    BY <1>2, <2>2, <2>3 DEF RowsTypeOK
<1>5. /\ \A u : Visible(r, u)' = Visible(r, u)
      /\ \A d : Ready(r, d)' <=> Ready(r, d)
  BY <1>1, SameView
<1>6. TypeOK' /\ RowLocks'
  BY <1>1, <1>2, <1>4 DEF TypeOK, RowsTypeOK, RowLocks, Written
<1>7. Unblocking(r)'
  <2>1. \A d \in Task \ {q.task} : writes'[r][d].cols = {}
    BY <1>1 DEF LifecycleOK
  <2>2. done => Dependents(q.task) \ (pending \cup {None}) = {}
    OBVIOUS
  <2>3. (req'[r].op \in Completing /\ Visible(r, q.task)'.state = "done") => done
    BY <1>4, <1>5
  <2>4. Dependents(q.task) \ (req'[r].pending \cup {req'[r].dependent})
           = Dependents(q.task) \ (pending \cup {None})
    BY <1>4
  <2>5. req'[r].task = q.task /\ auditor' = r
    BY <1>1, <1>4
  <2> HIDE DEF done, pending, step
  <2> QED
    BY <2>1, <2>2, <2>3, <2>4, <2>5 DEF Unblocking
<1>8. LifecycleOK(r)'
  <2>1. /\ q.asked = {}
        /\ q.op \in Completing => "state" \in writes'[r][q.task].cols
    BY <1>1 DEF LifecycleOK
  <2>2. /\ step \in {"commit", "unblock"}
        /\ step = "commit" => pending = {}
        /\ step = "unblock" => q.op \in Completing /\ Visible(r, q.task)'.state = "done"
    BY <1>4, <1>5
  <2> HIDE DEF done, pending, step
  <2> QED
    BY <1>2, <1>4, <1>7, <2>1, <2>2 DEF LifecycleOK
<1>9. ReqOK(r)'
  BY <1>1, <1>4, <1>8 DEF ReqOK
<1> QED
  BY <1>1, <1>4, <1>6, <1>9, QuietStep

(* A row of another task than the completed one is seen as committed, or as *)
(* requeued.                                                                *)
LEMMA SeenInPassing ==
    ASSUME NEW r \in Request, Unblocking(r), NEW d \in Task \ {req[r].task}
    PROVE  Visible(r, d).state = task[d].state \/ Visible(r, d).state = "queued"
<1>1. "state" \in writes[r][d].cols => writes[r][d].row.state = "queued"
  BY DEF Unblocking, Requeued
<1> QED
  BY <1>1, VisibleState

(* A ready dependent is not the row completed, and a promise.               *)
LEMMA ReadyIsPromised ==
    ASSUME NEW r \in Request, LifecycleOK(r), req[r].step = "unblock",
           NEW d \in Task, Ready(r, d)
    PROVE  d # req[r].task /\ Promised(r, d) /\ Visible(r, d).state = "blocked"
<1>1. Visible(r, req[r].task).state = "done" /\ Visible(r, d).state = "blocked"
  BY DEF LifecycleOK, Ready
<1>2. d # req[r].task
  BY <1>1
<1>3. task[d].state = "blocked"
  BY <1>1, <1>2, SeenInPassing DEF LifecycleOK
<1> QED
  BY <1>1, <1>2, <1>3 DEF Promised, Ready

(* A promised dependent that no claim crossed is not seen as done.          *)
LEMMA PromisedIsNotDone ==
    ASSUME NEW r \in Request, Unblocking(r), NEW d \in Task \ {req[r].task},
           Promised(r, d), d \notin crossed
    PROVE  Visible(r, d).state # "done"
BY SeenInPassing DEF Promised

(* Looking at one dependent of a completed task. *)
LEMMA CheckStep ==
    ASSUME LifecycleInv, NEW r \in Request, NEW d \in Task, check_dependent(r, d)
    PROVE  LifecycleInv'
<1> DEFINE q == req[r]
           rest == q.pending \ {d}
<1>1. /\ q.op \in LifecycleOp /\ LifecycleOK(r) /\ q.step = "unblock"
      /\ UNCHANGED <<task, writes, auditor, crossed>> /\ d \in q.pending
  BY OpenLifecycle DEF check_dependent
<1>2. TypeOK /\ RowsTypeOK /\ RowLocks /\ q \in Req /\ q.task \in Task /\ q.dependent = None
  BY <1>1 DEF LifecycleInv, TypeOK, RowsTypeOK, LifecycleOK
<1>3. /\ \A u : Visible(r, u)' = Visible(r, u)
      /\ \A e : Promised(r, e)' <=> Promised(r, e)
      /\ \A e : Requeued(r, e)' <=> Requeued(r, e)
      /\ \A e : Settled(r, e)' <=> Settled(r, e)
  BY <1>1, SameView, SamePassing
<1>4. rest \in SUBSET Task /\ q.seen \in Row
  BY <1>2 DEF Req
<1>5. Unblocking(r)
  BY <1>1 DEF LifecycleOK
<1>6. CASE Ready(r, d)
  <2> DEFINE seen == Visible(r, d)
  <2>1. seen \in Row
    BY <1>2, OverlayType DEF Visible, RowsTypeOK
  <2>2. d # q.task /\ Promised(r, d) /\ seen.state = "blocked"
    BY <1>1, <1>6, ReadyIsPromised
  <2>3. req' = [req EXCEPT ![r] = Updated(q, "requeue", rest, d, seen)]
    <3>1. req' = [req EXCEPT ![r] = [q EXCEPT !.pending = rest, !.dependent = d,
                                              !.seen = seen, !.step = "requeue"]]
      BY <1>6 DEF check_dependent
    <3>2. [q EXCEPT !.pending = rest, !.dependent = d, !.seen = seen, !.step = "requeue"]
            = Updated(q, "requeue", rest, d, seen)
      BY <1>2 DEF Updated, Req
    <3> QED
      BY <3>1, <3>2
  <2> HIDE DEF seen, rest
  <2>4. /\ req' \in [Request -> Req]
        /\ \A p \in Request \ {r} : req'[p] = req[p]
        /\ req'[r].step = "requeue" /\ req'[r].pending = rest
        /\ req'[r].dependent = d /\ req'[r].seen = seen
        /\ req'[r].op = q.op /\ req'[r].task = q.task /\ req'[r].asked = q.asked
    BY <1>2, <1>4, <2>1, <2>3, ReqUpdate DEF RowsTypeOK, Step
  <2>5. TypeOK' /\ RowLocks'
    BY <1>1, <1>2, <2>4 DEF TypeOK, RowsTypeOK, RowLocks, Written
  <2>6. q.pending \cup {q.dependent} \subseteq rest \cup {d} \cup {None}
    BY <1>2 DEF rest
  <2>7. Unblocking(r)'
    <3>1. \A e \in Dependents(q.task) \ (rest \cup {d}) : e # None
      BY NoneAssumption DEF Dependents
    <3> QED
      BY <1>1, <1>2, <1>3, <1>5, <2>4, <2>6, <3>1 DEF Unblocking, Dependents
  <2>8. LifecycleOK(r)'
    <3>1. /\ q.asked = {} /\ q.op \in Completing
          /\ "state" \in writes'[r][q.task].cols
          /\ Visible(r, q.task)'.state = "done"
      BY <1>1, <1>3, <2>4 DEF LifecycleOK
    <3>2. Promised(r, d)'
      BY <1>3, <2>2
    <3> QED
      BY <1>2, <2>2, <2>4, <2>7, <3>1, <3>2 DEF LifecycleOK
  <2>9. ReqOK(r)'
    BY <1>1, <2>4, <2>8 DEF ReqOK
  <2> QED
    BY <1>1, <2>4, <2>5, <2>9, QuietStep
<1>7. CASE ~Ready(r, d)
  <2> DEFINE step == IF rest = {} THEN "commit" ELSE "unblock"
             seen == q.seen
  <2>1. req' = [req EXCEPT ![r] = Updated(q, step, rest, None, seen)]
    <3>1. req' = [req EXCEPT ![r] = [q EXCEPT !.pending = rest, !.step = step]]
      BY <1>2, <1>7 DEF check_dependent
    <3>2. [q EXCEPT !.pending = rest, !.step = step]
            = Updated(q, step, rest, None, seen)
      BY <1>2 DEF Updated, Req
    <3> QED
      BY <3>1, <3>2
  <2>2. step \in Step /\ step \in {"commit", "unblock"} /\ (step = "commit" => rest = {})
    BY DEF Step
  <2>3. /\ seen \in Row /\ rest \in SUBSET Task /\ step \in Step
        /\ None \in Task \cup {None} /\ req \in [Request -> Req]
    BY <1>2, <1>4, <2>2 DEF RowsTypeOK
  <2> HIDE DEF seen, rest, step
  <2>4. /\ req' \in [Request -> Req]
        /\ \A p \in Request \ {r} : req'[p] = req[p]
        /\ req'[r].step = step /\ req'[r].pending = rest
        /\ req'[r].dependent = None /\ req'[r].seen = seen
        /\ req'[r].op = q.op /\ req'[r].task = q.task /\ req'[r].asked = q.asked
    BY <2>1, <2>3, ReqUpdate
  <2>5. TypeOK' /\ RowLocks'
    BY <1>1, <1>2, <2>4 DEF TypeOK, RowsTypeOK, RowLocks, Written
  <2>6. q.pending \subseteq rest \cup {d}
    BY DEF rest
  <2>7. Unblocking(r)'
    <3>1. Settled(r, d)
      BY <1>7 DEF Settled
    <3> QED
      BY <1>1, <1>2, <1>3, <1>5, <2>4, <2>6, <3>1 DEF Unblocking, Dependents
  <2>8. LifecycleOK(r)'
    <3>1. /\ q.asked = {} /\ q.op \in Completing
          /\ "state" \in writes'[r][q.task].cols
          /\ Visible(r, q.task)'.state = "done"
      BY <1>1, <1>3, <2>4 DEF LifecycleOK
    <3> QED
      BY <1>2, <2>2, <2>4, <2>7, <3>1 DEF LifecycleOK
  <2>9. ReqOK(r)'
    BY <1>1, <2>2, <2>4, <2>8 DEF ReqOK
  <2> QED
    BY <1>1, <2>4, <2>5, <2>9, QuietStep
<1> QED
  BY <1>6, <1>7

(* Requeueing a ready dependent. *)
LEMMA RequeueStep ==
    ASSUME LifecycleInv, NEW r \in Request, requeue_dependent(r)
    PROVE  LifecycleInv'
<1> DEFINE q == req[r]
<1>0. PICK d \in Task : d = q.dependent
  BY OpenLifecycle DEF requeue_dependent, LifecycleOK
<1> DEFINE row == Finished(q.seen, "queued")
           cols == Changed(q.seen, row)
           step == IF q.pending = {} THEN "commit" ELSE "unblock"
           rest == q.pending
<1>1. /\ q.op \in LifecycleOp /\ LifecycleOK(r) /\ q.step = "requeue"
      /\ UNCHANGED <<task, auditor, crossed>>
      /\ Unlocked(r, d) /\ SetColumns(r, d, cols, row)
      /\ req' = [req EXCEPT ![r].dependent = None, ![r].seen = FreshRow, ![r].step = step]
  BY <1>0, OpenLifecycle DEF requeue_dependent
<1>2. TypeOK /\ RowsTypeOK /\ RowLocks /\ q \in Req /\ q.task \in Task /\ rest \in SUBSET Task
  BY <1>1 DEF LifecycleInv, TypeOK, RowsTypeOK, LifecycleOK, Req
<1>3. /\ d \in Task \ {q.task} /\ Promised(r, d) /\ q.seen.state = "blocked"
      /\ q.op \in Completing /\ Visible(r, q.task).state = "done"
      /\ "state" \in writes[r][q.task].cols /\ q.asked = {}
      /\ Unblocking(r)
  BY <1>0, <1>1 DEF LifecycleOK
<1>4. d \notin crossed => Visible(r, d).state # "done"
  BY <1>3, PromisedIsNotDone
<1>5. /\ row \in Row /\ row.state = "queued"
      /\ cols \in SUBSET Column /\ "state" \in cols
  BY <1>2, <1>3 DEF Finished, Changed, Column, Row, State, Req
<1>6. /\ writes' \in [Request -> [Task -> Write]]
      /\ RowLocks'
      /\ "state" \in writes'[r][d].cols /\ writes'[r][d].row.state = "queued"
      /\ \A u \in Task \ {d} : writes'[r][u] = writes[r][u]
      /\ \A p \in Request \ {r} : writes'[p] = writes[p]
  <2>1. d \in Task /\ Unlocked(r, d) /\ SetColumns(r, d, cols, row)
    BY <1>1, <1>3
  <2> HIDE DEF row, cols
  <2> QED
    BY <1>2, <1>5, <2>1, RowUpdate
<1>7. /\ req' \in [Request -> Req]
      /\ \A p \in Request \ {r} : req'[p] = req[p]
      /\ req'[r].step = step /\ req'[r].pending = rest
      /\ req'[r].dependent = None /\ req'[r].seen = FreshRow
      /\ req'[r].op = q.op /\ req'[r].task = q.task /\ req'[r].asked = q.asked
  <2>1. step \in Step
    BY DEF Step
  <2>2. req' = [req EXCEPT ![r] = Updated(q, step, rest, None, FreshRow)]
    <3>1. req' = [req EXCEPT ![r] = [q EXCEPT !.dependent = None, !.seen = FreshRow,
                                              !.step = step]]
      BY <1>1
    <3>2. [q EXCEPT !.dependent = None, !.seen = FreshRow, !.step = step]
            = Updated(q, step, rest, None, FreshRow)
      BY <1>2 DEF Updated, Req
    <3> QED
      BY <3>1, <3>2
  <2> DEFINE seen == FreshRow
  <2>3. /\ seen \in Row /\ rest \in SUBSET Task /\ step \in Step
        /\ None \in Task \cup {None} /\ req \in [Request -> Req]
    BY <1>2, <2>1, FreshTypes DEF RowsTypeOK
  <2>4. req' = [req EXCEPT ![r] = Updated(q, step, rest, None, seen)]
    BY <2>2
  <2> HIDE DEF seen, rest, step
  <2>5. /\ req' \in [Request -> Req]
        /\ \A p \in Request \ {r} : req'[p] = req[p]
        /\ req'[r].step = step /\ req'[r].pending = rest
        /\ req'[r].dependent = None /\ req'[r].seen = seen
        /\ req'[r].op = q.op /\ req'[r].task = q.task /\ req'[r].asked = q.asked
    BY <2>3, <2>4, ReqUpdate
  <2> QED
    BY <2>5 DEF seen
<1>8. TypeOK'
  BY <1>1, <1>2, <1>6, <1>7 DEF TypeOK, RowsTypeOK
<1>9. /\ Visible(r, d)'.state = "queued"
      /\ \A u \in Task \ {d} : Visible(r, u)'.state = Visible(r, u).state
  <2>1. task' = task
    BY <1>1
  <2> HIDE DEF q, row, cols, step, rest
  <2> QED
    BY <1>6, <2>1, VisibleState, VisibleStateNext
<1>10. ASSUME NEW e \in Task, Promised(r, e) PROVE Promised(r, e)'
  <2>1. ASSUME NEW p \in Deps[e] \ crossed PROVE Visible(r, p)'.state = "done"
    <3>1. p \in Task /\ Visible(r, p).state = "done"
      BY <1>10, <2>1, ActionsAssumption DEF Promised
    <3>2. p # d
      BY <1>4, <2>1, <3>1
    <3> QED
      BY <1>9, <3>1, <3>2
  <2> QED
    BY <1>1, <1>10, <2>1 DEF Promised
<1>11. ASSUME NEW e \in Task, e # d, Settled(r, e) PROVE Settled(r, e)'
  <2>1. Ready(r, e)' => Ready(r, e)
    BY <1>9, <1>11, ActionsAssumption DEF Ready
  <2> QED
    BY <1>1, <1>11, <2>1 DEF Settled
<1>12. Settled(r, d)'
  BY <1>9 DEF Settled, Ready
<1>13. Unblocking(r)'
  <2>1. ASSUME NEW e \in Task \ {q.task}, writes'[r][e].cols # {}
        PROVE  Requeued(r, e)'
    <3>1. CASE e = d
      BY <1>3, <1>6, <1>10, <3>1 DEF Requeued
    <3>2. CASE e # d
      <4>1. Requeued(r, e)
        BY <1>3, <1>6, <2>1, <3>2 DEF Unblocking
      <4> QED
        BY <1>6, <1>10, <3>2, <4>1 DEF Requeued
    <3> QED
      BY <3>1, <3>2
  <2>2. ASSUME NEW e \in Dependents(q.task) \ (rest \cup {None}) PROVE Settled(r, e)'
    <3>1. CASE e = d
      BY <1>12, <3>1
    <3>2. CASE e # d
      <4>1. e \in Dependents(q.task) \ (q.pending \cup {q.dependent}) /\ e \in Task
        BY <1>0, <2>2, <3>2 DEF Dependents
      <4>2. Settled(r, e)
        BY <1>3, <4>1 DEF Unblocking
      <4> QED
        BY <1>11, <3>2, <4>1, <4>2
    <3> QED
      BY <3>1, <3>2
  <2>3. auditor' = r
    BY <1>1, <1>3 DEF Unblocking
  <2> HIDE DEF q, row, cols, step, rest
  <2> QED
    BY <1>7, <2>1, <2>2, <2>3 DEF Unblocking
<1>14. LifecycleOK(r)'
  <2>1. /\ "state" \in writes'[r][q.task].cols
        /\ Visible(r, q.task)'.state = "done"
    BY <1>2, <1>3, <1>6, <1>7, <1>9
  <2>2. step \in {"commit", "unblock"} /\ (step = "commit" => rest = {})
    OBVIOUS
  <2> HIDE DEF row, cols, step, rest
  <2> QED
    BY <1>2, <1>3, <1>7, <1>13, <2>1, <2>2 DEF LifecycleOK
<1>15. ReqOK(r)'
  <2>1. req'[r].step # "idle"
    BY <1>7
  <2> HIDE DEF row, cols, step, rest
  <2> QED
    BY <1>1, <1>7, <1>14, <2>1 DEF ReqOK
<1> QED
  BY <1>1, <1>6, <1>7, <1>8, <1>15, QuietStep

(* Rolling back, whatever the reason. *)
LEMMA RollbackStep ==
    ASSUME LifecycleInv, NEW r \in Request, Rollback(r)
    PROVE  LifecycleInv'
<1>1. /\ UNCHANGED task
      /\ writes' = [writes EXCEPT ![r] = NoWrites]
      /\ req' = [req EXCEPT ![r] = Idle]
      /\ auditor' = IF auditor = r THEN None ELSE auditor
      /\ crossed' = IF auditor = r THEN {} ELSE crossed
  BY DEF Rollback, RollbackRows
<1>2. TypeOK /\ RowsTypeOK /\ RowLocks
  BY DEF LifecycleInv, TypeOK
<1>3. /\ req'[r].step = "idle" /\ auditor' # r
      /\ \A u \in Task : writes'[r][u].cols = {}
      /\ \A q \in Request \ {r} : req'[q] = req[q] /\ writes'[q] = writes[q]
  BY <1>1, <1>2, NoneAssumption DEF RowsTypeOK, Idle, NoWrites, NoWrite
<1>4. TypeOK' /\ RowLocks'
  BY <1>1, <1>2, <1>3, FreshTypes DEF TypeOK, RowsTypeOK, RowLocks, Written
<1>5. ReqOK(r)'
  BY <1>3 DEF ReqOK, Blank
<1> QED
  BY <1>1, <1>3, <1>4, <1>5, QuietStep

-----------------------------------------------------------------------------
(* The commit of a release, unlock or reclaim neither blocks nor finishes a *)
(* task, and the rows of which a claim's commit does it are crossings.      *)
LEMMA QueueCommitStatus ==
    ASSUME LifecycleInv, NEW r \in Request, CommitRows(r),
           req[r].op \in QueueOp, OpenQueue(r)
    PROVE  \A u \in Task : SameStatus(u) \/ (req[r].op = "claim" /\ Crosses(u))
<1> DEFINE t == req[r].task
<1>1. task' = [u \in Task |-> Visible(r, u)]
  BY DEF CommitRows
<1>2. \A u \in Task : task'[u].state = Visible(r, u).state
  BY <1>1
<1>3. CASE req[r].op = "claim"
  <2>1. ASSUME NEW u \in Task, ~Crosses(u) PROVE SameStatus(u)
    <3>1. \A s \in {"blocked", "done"} : task[u].state = s <=> task'[u].state = s
      BY <2>1, Zenon DEF Crosses
    <3> QED
      BY <3>1 DEF SameStatus
  <2> QED
    BY <1>3, <2>1
<1>4. CASE req[r].op # "claim"
  <2>1. ASSUME NEW u \in Task, u # t PROVE task'[u].state = task[u].state
    <3>1. "state" \notin writes[r][u].cols
      BY <2>1 DEF OpenQueue
    <3> QED
      BY <1>2, <3>1, VisibleState
  <2>2. task'[t].state = "todo" /\ task[t].state \in Active
    <3>1. t \in Task /\ "state" \in writes[r][t].cols
      BY DEF OpenQueue
    <3>2. task'[t].state = writes[r][t].row.state
      BY <1>2, <3>1, VisibleState
    <3> QED
      BY <1>4, <3>2 DEF OpenQueue, Claiming, Freeing
  <2>3. SameStatus(t)
    BY <2>2 DEF SameStatus, Active
  <2>4. ASSUME NEW u \in Task, u # t PROVE SameStatus(u)
    BY <2>1, <2>4 DEF SameStatus
  <2> QED
    BY <2>3, <2>4 DEF SameStatus
<1> QED
  BY <1>3, <1>4

(* The commit of any request. *)
LEMMA CommitStep ==
    ASSUME LifecycleInv, NEW r \in Request, Commit(r)
    PROVE  LifecycleInv'
<1>1. /\ req[r].step = "commit"
      /\ task' = [t \in Task |-> Visible(r, t)]
      /\ writes' = [writes EXCEPT ![r] = NoWrites]
      /\ auditor' = IF auditor = r THEN None ELSE auditor
      /\ req' = [req EXCEPT ![r] = Idle]
      /\ crossed' = IF auditor = r THEN {}
                     ELSE IF req[r].op = "claim" /\ auditor # None
                       THEN crossed \cup {t \in Task : Crosses(t)}
                       ELSE crossed
      /\ CommitRows(r)
  BY DEF Commit, CommitRows
<1>2. TypeOK /\ RowsTypeOK /\ RowLocks /\ ReqOK(r)
  BY DEF LifecycleInv, TypeOK
<1>3. /\ req' \in [Request -> Req] /\ req'[r] = Idle
      /\ \A q \in Request \ {r} : req'[q] = req[q]
  BY <1>1, <1>2, FreshTypes DEF RowsTypeOK
<1>4. /\ \A u \in Task : writes'[r][u].cols = {}
      /\ \A q \in Request \ {r} : writes'[q] = writes[q]
      /\ auditor' # r
  BY <1>1, <1>2, NoneAssumption DEF RowsTypeOK, NoWrites, NoWrite
<1>5. crossed' \subseteq Task
  BY <1>1, <1>2 DEF TypeOK
<1>6. TypeOK'
  <2>1. \A u \in Task : Visible(r, u) \in Row
    BY <1>2, OverlayType DEF RowsTypeOK, Visible
  <2> QED
    BY <1>1, <1>2, <1>3, <1>5, <2>1, FreshTypes DEF TypeOK, RowsTypeOK
<1>7. RowLocks'
  BY <1>2, <1>4 DEF RowLocks, Written
<1>8. ReqOK(r)'
  BY <1>3, <1>4 DEF ReqOK, Blank, Idle
<1>9. \/ \A u \in Task : SameStatus(u) \/ (req[r].op = "claim" /\ Crosses(u))
      \/ auditor = r
  BY <1>1, <1>2, QueueCommitStatus DEF ReqOK, LifecycleOK, Unblocking
<1>10. ASSUME NEW q \in Request \ {r} PROVE ReqOK(q)'
  <2>1. ReqOK(q)
    BY DEF LifecycleInv
  <2>2. SameRequest(q)
    BY <1>1, <1>3, <1>4, NoneAssumption DEF SameRequest
  <2>3. ASSUME NEW u \in Written(q) PROVE task'[u] = task[u]
    <3>1. u \in Task /\ writes[r][u].cols = {}
      BY <1>2 DEF RowLocks, Written
    <3>2. Visible(r, u) = task[u]
      BY <1>2, <3>1, OverlayNothing DEF Visible, RowsTypeOK
    <3> QED
      BY <1>1, <3>1, <3>2
  <2>4. auditor = q => \A u \in Task : SameStatus(u) \/ u \in crossed'
    BY <1>1, <1>9, NoneAssumption
  <2>5. auditor = q => crossed \subseteq crossed'
    BY <1>1
  <2> QED
    BY <2>1, <2>2, <2>3, <2>4, <2>5, Keep, ActionsAssumption
<1> QED
  BY <1>6, <1>7, <1>8, <1>10 DEF LifecycleInv

-----------------------------------------------------------------------------
(* Every step of a loaded request. *)
LEMMA ProgressStep ==
    ASSUME LifecycleInv, NEW r \in Request, Progress(r)
    PROVE  LifecycleInv'
BY ReportStep, RunStep, FlushStep, UnlockAuditStep, AuditStep, CheckStep,
   RequeueStep, CommitStep DEF Progress

(* Every step of the system, and stuttering, keeps LifecycleInv. *)
LEMMA NextLifecycle == LifecycleInv /\ [Next]_vars => LifecycleInv'
<1> SUFFICES ASSUME LifecycleInv, [Next]_vars PROVE LifecycleInv'
  OBVIOUS
<1>1. CASE UNCHANGED vars
  <2>1. UNCHANGED <<task, req, writes, auditor, crossed>>
    BY <1>1 DEF vars
  <2>2. TypeOK' /\ RowLocks'
    BY <2>1 DEF LifecycleInv, TypeOK, RowsTypeOK, RowLocks, Written
  <2>3. ASSUME NEW r \in Request PROVE ReqOK(r)'
    <3>1. /\ ReqOK(r) /\ SameRequest(r) /\ crossed \subseteq crossed'
          /\ \A u \in Task : SameStatus(u) /\ task'[u] = task[u]
      BY <2>1 DEF LifecycleInv, SameRequest, SameStatus
    <3>2. \A u \in Written(r) : task'[u] = task[u]
      BY <3>1 DEF Written
    <3> QED
      BY <3>1, <3>2, Keep, ActionsAssumption
  <2> QED
    BY <2>2, <2>3 DEF LifecycleInv
<1>2. CASE Next
  BY <1>2, QueueRequestStep, LifecycleRequestStep, ProgressStep, RollbackStep DEF Next
<1> QED
  BY <1>1, <1>2

(* The inductive invariant: what the two locks guarantee about every        *)
(* request, at every step of its handler.                                   *)
THEOREM LifecycleInvariant == Spec => []LifecycleInv
BY InitLifecycle, NextLifecycle, PTL DEF Spec

(* Types: rows, requests, writes, the lock and the crossed rows keep their  *)
(* types in every interleaving.                                       *)
THEOREM TypeCorrect == Spec => []TypeOK
<1>1. LifecycleInv => TypeOK
  BY DEF LifecycleInv
<1> QED
  BY <1>1, LifecycleInvariant, PTL

(* A step that changes a row and ends request r is the commit of r. *)
LEMMA OnlyCommitCommits ==
    ASSUME LifecycleInv, [Next]_vars, NEW r \in Request, Commits(r)
    PROVE  CommitRows(r)
<1>1. req[r].step = "commit" /\ task' # task /\ req'[r].step = "idle"
  BY DEF Commits
<1>2. PICK q \in Request : Commit(q)
  <2>1. Next
    BY <1>1 DEF vars
  <2>2. PICK q \in Request : \/ QueueRequest(q) /\ UNCHANGED crossed
                            \/ LifecycleRequest(q)
                            \/ Progress(q)
                            \/ Rollback(q)
    BY <2>1 DEF Next
  <2>3. QueueRequest(q) => UNCHANGED task
    BY RequestStatement DEF Claims, Frees, Statement, QueueStatement
  <2>4. LifecycleRequest(q) => UNCHANGED task
    BY DEF LifecycleRequest, submit_task, approve_task, reject_task, reset_task, Load
  <2>5. Rollback(q) => UNCHANGED task
    BY DEF Rollback, RollbackRows
  <2>6. Progress(q) => UNCHANGED task \/ Commit(q)
    BY DEF Progress, latest_dod_report, insert_run, flush_task, audit_unlock,
           audit_task, check_dependent, requeue_dependent
  <2> QED
    BY <1>1, <2>2, <2>3, <2>4, <2>5, <2>6
<1>3. q = r
  <2>1. RowsTypeOK
    BY DEF LifecycleInv, TypeOK
  <2>2. req' = [req EXCEPT ![q] = Idle]
    BY <1>2 DEF Commit
  <2> QED
    BY <1>1, <2>1, <2>2 DEF RowsTypeOK
<1> QED
  BY <1>2, <1>3 DEF Commit

(* No lost unblock, for any dependency graph and any number of concurrent   *)
(* requests: the commit that finishes a task leaves none of its dependents  *)
(* blocked with every dependency done, save what claims that name blocked   *)
(* or done crossed (_unblock_ready_dependents under the advisory lock).     *)
THEOREM NoLostUnblock == Spec => UnblockComplete
<1>1. ASSUME LifecycleInv, [Next]_vars, NEW r \in Request, Commits(r),
             req[r].op \in Completing, task'[req[r].task].state = "done",
             NEW d \in Dependents(req[r].task) \ crossed, task'[d].state = "blocked"
      PROVE  \E p \in Deps[d] : task'[p].state # "done" \/ p \in crossed
  <2>1. /\ req[r].step = "commit" /\ ReqOK(r)
        /\ \A u \in Task : task'[u] = Visible(r, u)
    BY <1>1, OnlyCommitCommits DEF Commits, CommitRows, LifecycleInv
  <2>2. LifecycleOK(r)
    BY <1>1, <2>1 DEF ReqOK, QueueOp, FreeingOp, Completing
  <2>3. /\ Unblocking(r) /\ req[r].task \in Task
        /\ req[r].pending = {} /\ req[r].dependent = None
    BY <2>1, <2>2 DEF LifecycleOK
  <2>4. d \in Task /\ d # None /\ req[r].task \in Deps[d] /\ Deps[d] \subseteq Task
    BY <1>1, NoneAssumption, ActionsAssumption DEF Dependents
  <2>5. Settled(r, d)
    BY <1>1, <2>1, <2>3, <2>4 DEF Unblocking
  <2>6. CASE ~Ready(r, d)
    BY <1>1, <2>1, <2>4, <2>6 DEF Ready
  <2> QED
    BY <1>1, <2>5, <2>6 DEF Settled
<1>2. LifecycleInv /\ [Next]_vars =>
        [\A r \in Request :
           Commits(r) /\ req[r].op \in Completing /\ task'[req[r].task].state = "done" =>
              \A d \in Dependents(req[r].task) \ crossed :
                 task'[d].state = "blocked"
                    => \E p \in Deps[d] : task'[p].state # "done" \/ p \in crossed]_vars
  BY <1>1
<1> QED
  BY <1>2, LifecycleInvariant, PTL DEF Spec, UnblockComplete

(* No unsound unblock: a dependent leaves blocked in passing only with all  *)
(* of its dependencies done at that commit, whatever was read before, but   *)
(* for rows that claims crossed.                                            *)
THEOREM UnblocksAreSound == Spec => UnblockSound
<1>1. ASSUME LifecycleInv, [Next]_vars, NEW r \in Request, Commits(r),
             NEW d \in Written(r) \ {req[r].task}
      PROVE  /\ task[d].state = "blocked" \/ d \in crossed
             /\ task'[d].state = "queued"
             /\ \A p \in Deps[d] \ crossed : task'[p].state = "done"
  <2>1. req[r].step = "commit" /\ task' # task /\ req'[r].step = "idle"
    BY <1>1 DEF Commits
  <2>2. ReqOK(r) /\ d \in Task /\ writes[r][d].cols # {}
    BY <1>1 DEF LifecycleInv, Written
  <2>3. Unblocking(r) /\ Requeued(r, d)
    BY <1>1, <2>1, <2>2 DEF ReqOK, OpenQueue, LifecycleOK, Unblocking
  <2>4. CommitRows(r)
    BY <1>1, OnlyCommitCommits
  <2>5. \A u \in Task : task'[u] = Visible(r, u)
    BY <2>4 DEF CommitRows
  <2>6. Visible(r, d).state = "queued"
    BY <2>3, VisibleState DEF Requeued
  <2> QED
    BY <2>2, <2>3, <2>5, <2>6, ActionsAssumption DEF Requeued, Promised
<1>2. LifecycleInv /\ [Next]_vars =>
        [\A r \in Request : Commits(r) =>
           \A d \in Written(r) \ {req[r].task} :
              /\ task[d].state = "blocked" \/ d \in crossed
              /\ task'[d].state = "queued"
              /\ \A p \in Deps[d] \ crossed : task'[p].state = "done"]_vars
  BY <1>1
<1> QED
  BY <1>2, LifecycleInvariant, PTL DEF Spec, UnblockSound

(* A queue request at its commit is still a claim or a release on the row   *)
(* it judged, and its commit writes what it holds.                          *)
LEMMA QueueCommits ==
    ASSUME LifecycleInv, [Next]_vars, NEW r \in Request, Commits(r), req[r].op \in QueueOp
    PROVE  /\ OpenQueue(r)
           /\ task' = [u \in Task |-> Visible(r, u)]
<1>1. ReqOK(r) /\ req[r].step # "idle"
  BY DEF LifecycleInv, Commits
<1>2. OpenQueue(r)
  BY <1>1 DEF ReqOK, QueueOp, FreeingOp, LifecycleOp
<1> QED
  BY <1>2, OnlyCommitCommits DEF CommitRows

(* No double claim: the row of a claim, a release or a reclaim is in a      *)
(* state it asked for at the instant of its commit, with every review,      *)
(* reset and submission running beside it; a claim's row belongs to the     *)
(* claimer afterwards, and a freed one to no one.                           *)
THEOREM ClaimsAreExclusive == Spec => TakenAsAsked
<1>1. ASSUME LifecycleInv, [Next]_vars, NEW r \in Request, Commits(r), req[r].asked # {}
      PROVE  /\ task[req[r].task].state \in req[r].asked
             /\ task'[req[r].task].claimant =
                   IF req[r].op = "claim" THEN req[r].actor ELSE None
  <2>1. req[r].op \in QueueOp
    BY <1>1 DEF LifecycleInv, ReqOK, LifecycleOK, Commits
  <2>2. OpenQueue(r) /\ task' = [u \in Task |-> Visible(r, u)]
    BY <1>1, <2>1, QueueCommits
  <2>3. req[r].task \in Task /\ "claimant" \in writes[r][req[r].task].cols
    BY <2>2 DEF OpenQueue
  <2>4. task'[req[r].task].claimant = writes[r][req[r].task].row.claimant
    BY <2>2, <2>3 DEF Visible, Overlay
  <2> QED
    BY <2>1, <2>2, <2>4 DEF OpenQueue, Claiming, Freeing, QueueOp, FreeingOp
<1>2. LifecycleInv /\ [Next]_vars =>
        [\A r \in Request : Commits(r) /\ req[r].asked # {} =>
           /\ task[req[r].task].state \in req[r].asked
           /\ task'[req[r].task].claimant =
                 IF req[r].op = "claim" THEN req[r].actor ELSE None]_vars
  BY <1>1
<1> QED
  BY <1>2, LifecycleInvariant, PTL DEF Spec, TakenAsAsked

(* Releases stay with the holder also beside reviews and resets: an agent's *)
(* release commits on a row that agent holds at that instant.               *)
THEOREM ReleasesStayWithHolder == Spec => ReleaseByHolder
<1>1. ASSUME LifecycleInv, [Next]_vars, NEW r \in Request, Commits(r),
             req[r].op = "release", req[r].actor \notin Admin
      PROVE  task[req[r].task].claimant = req[r].actor
  BY <1>1, QueueCommits DEF QueueOp, FreeingOp, OpenQueue, Claiming, Freeing
<1>2. LifecycleInv /\ [Next]_vars =>
        [\A r \in Request : Commits(r) /\ req[r].op = "release" /\ req[r].actor \notin Admin
           => task[req[r].task].claimant = req[r].actor]_rowVars
  BY <1>1 DEF vars, rowVars
<1> QED
  BY <1>2, LifecycleInvariant, PTL DEF Spec, ReleaseByHolder
=============================================================================
