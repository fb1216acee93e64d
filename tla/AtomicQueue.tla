----------------------------- MODULE AtomicQueue -----------------------------
(***************************************************************************)
(* What repo/queue.py promises: a claim, a release or a reclaim is one     *)
(* indivisible change of one task row, judged on the row as it is at that  *)
(* instant.  No transactions, no locks, no snapshots.  A claim names the   *)
(* states it takes a row from and the state it leaves it in; an instance   *)
(* whose claims all ask for free rows is a queue where two claims never    *)
(* win the same row.                                                       *)
(***************************************************************************)
CONSTANTS Task, Actor, None,
          Asks    \* what claims may ask for: [from : set of states, to : state]
VARIABLE task

Active == {"claimed", "in_progress"}

(* A row in one of the states asked for becomes a's. *)
Claim(t, a, ask) ==
    /\ task[t].state \in ask.from
    /\ task' = [task EXCEPT ![t] =
                  [state |-> ask.to, claimant |-> a, attempts |-> task[t].attempts]]

(* A held row becomes free again. *)
Free(t) ==
    /\ task[t].state \in Active
    /\ task' = [task EXCEPT ![t] =
                  [state |-> "todo", claimant |-> None, attempts |-> task[t].attempts]]

Init == \A t \in Task : task[t].attempts = 0
Next == \E t \in Task : Free(t) \/ \E a \in Actor, ask \in Asks : Claim(t, a, ask)
Spec == Init /\ [][Next]_task
=============================================================================
