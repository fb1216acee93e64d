------------------------------ MODULE AuditChain ------------------------------
(***************************************************************************)
(* The audit ledger.  Every audited write inserts a row in the transaction *)
(* of the write; a trigger takes an advisory lock that is held to the end  *)
(* of the transaction, numbers the row and links it to the newest row it   *)
(* sees.  The chain is meant to verify for every reader, whatever commits, *)
(* rolls back or is undone to a savepoint.                                 *)
(***************************************************************************)
EXTENDS Naturals, FiniteSets, Absent

CONSTANTS
    Tx,         \* transactions that may overlap
    MaxPosition \* bound: numbers the sequence hands out

ASSUME AuditAssumption == None \notin Tx \cup Nat /\ MaxPosition \in Nat

VARIABLES
    audit_log,  \* the committed rows
    sequence,   \* the last chain position handed out; a rollback keeps it
    lock,       \* the transaction that holds the advisory lock, or None
    tx          \* tx[a]: the transaction in slot a

chainVars == <<audit_log, sequence, lock, tx>>

ZeroHash == <<>>
(* SHA-256 of the previous hash and the row, which its position stands for. *)
audit_log_chain_digest(prev, position) == <<prev, position>>

(* inserting: its INSERT has begun, with snapshot as the committed rows.    *)
(* mark: the sequence when the savepoint was set; held: its lock then.      *)
Holding(own) ==
    [own |-> own, inserting |-> FALSE, snapshot |-> {}, mark |-> None, held |-> FALSE]
NoTx == Holding({})

Hash(S) == IF S = {} THEN ZeroHash
           ELSE (CHOOSE r \in S : \A q \in S : q.position <= r.position).row_hash
Before(S, r) == {q \in S : q.position < r.position}

(* What a transaction sees: the committed rows and its own. *)
View(a) == audit_log \cup tx[a].own

(* The trigger's own SELECT sees what is committed when it runs. *)
StatementView(a) == tx[a].snapshot \cup tx[a].own
TriggerView(a) == View(a)

-----------------------------------------------------------------------------
(* A flush emits the INSERT of an audit row. *)
_write_audit_row(a) ==
    /\ ~tx[a].inserting
    /\ tx' = [tx EXCEPT ![a] = [@ EXCEPT !.inserting = TRUE, !.snapshot = audit_log]]
    /\ UNCHANGED <<audit_log, sequence, lock>>

(* Number the row and link it to the newest one the trigger sees. *)
Chained(a) ==
    /\ tx[a].inserting /\ lock \in {None, a} /\ sequence < MaxPosition
    /\ LET prev == Hash(TriggerView(a))
           row == [position |-> sequence + 1, prev_hash |-> prev,
                   row_hash |-> audit_log_chain_digest(prev, sequence + 1)]
       IN tx' = [tx EXCEPT ![a] = [@ EXCEPT !.own = tx[a].own \cup {row}, !.inserting = FALSE,
                                            !.snapshot = {}]]
    /\ sequence' = sequence + 1
    /\ UNCHANGED audit_log

(* A trigger that gives the lock back when the row is made. *)
unlocks_at_once(a) == Chained(a) /\ UNCHANGED lock

(* The trigger: it waits for the lock and keeps it to the transaction's end. *)
audit_log_set_chain_hashes(a) == Chained(a) /\ lock' = a

(* begin_nested sets a savepoint. *)
begin_nested(a) ==
    /\ ~tx[a].inserting /\ tx[a].mark = None
    /\ tx' = [tx EXCEPT ![a] = [@ EXCEPT !.mark = sequence, !.held = (lock = a)]]
    /\ UNCHANGED <<audit_log, sequence, lock>>

release_savepoint(a) ==
    /\ ~tx[a].inserting /\ tx[a].mark # None
    /\ tx' = [tx EXCEPT ![a] = [@ EXCEPT !.mark = None, !.held = FALSE]]
    /\ UNCHANGED <<audit_log, sequence, lock>>

(* An error inside the savepoint, from a waiting INSERT too: its rows go,   *)
(* and so does a lock taken inside.                                         *)
rollback_to_savepoint(a) ==
    /\ tx[a].mark # None
    /\ lock' = IF lock = a /\ ~tx[a].held THEN None ELSE lock
    /\ tx' = [tx EXCEPT ![a] =
                 Holding({r \in tx[a].own : r.position <= tx[a].mark})]
    /\ UNCHANGED <<audit_log, sequence>>

End(a) ==
    /\ lock' = IF lock = a THEN None ELSE lock
    /\ tx' = [tx EXCEPT ![a] = NoTx]

commit_tx(a) ==
    /\ ~tx[a].inserting /\ tx[a].own # {}
    /\ audit_log' = audit_log \cup tx[a].own
    /\ End(a)
    /\ UNCHANGED sequence

(* The transaction fails, is cancelled or dies, perhaps while it waits. *)
rollback_tx(a) ==
    /\ tx[a] # NoTx
    /\ End(a)
    /\ UNCHANGED <<audit_log, sequence>>

-----------------------------------------------------------------------------
ChainInit ==
    /\ audit_log = {} /\ sequence = 0 /\ lock = None
    /\ tx = [a \in Tx |-> NoTx]

(* What a transaction does besides the trigger. *)
transact(a) ==
    \/ _write_audit_row(a)
    \/ begin_nested(a)
    \/ release_savepoint(a)
    \/ rollback_to_savepoint(a)
    \/ commit_tx(a)
    \/ rollback_tx(a)

ChainNext == \E a \in Tx : transact(a) \/ audit_log_set_chain_hashes(a)

ChainSpec == ChainInit /\ [][ChainNext]_chainVars

-----------------------------------------------------------------------------
(* verify_audit_log_chain: the rows whose link or whose hash is wrong. *)
Breaks(S) ==
    {r \in S : LET expected == Hash(Before(S, r)) IN
        ~(/\ r.prev_hash = expected
          /\ r.row_hash = audit_log_chain_digest(expected, r.position))}

(* The ledger verifies for every reader, between any two steps of any       *)
(* transactions: no fork, no link to a row that was rolled back, no link    *)
(* past a row that another transaction committed while this one waited.     *)
ChainVerifies ==
    /\ Breaks(audit_log) = {}
    /\ \A a \in Tx : Breaks(View(a)) = {}

(* The ledger grows at its end only: a row a reader has seen is never       *)
(* preceded by one committed later, and never changes or goes.              *)
GrowsAtItsEnd ==
    [][/\ audit_log \subseteq audit_log'
       /\ \A r \in audit_log' \ audit_log :
             \A q \in audit_log : q.position < r.position]_chainVars
=============================================================================
