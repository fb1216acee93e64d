----------------------------- MODULE MCTaskQueue -----------------------------
(* TaskQueue with two tasks, two agents, one admin and three overlapping    *)
(* request transactions.                                                    *)
EXTENDS TaskQueue, TLC

CONSTANTS t1, t2, a1, a2, boss, r1, r2, r3

MCTask == {t1, t2}
MCAgent == {a1, a2}
MCAdmin == {boss}
MCRequest == {r1, r2, r3}
MCRank == (t1 :> 1) @@ (t2 :> 2)
(* Work at once, take over a claim, or close what is blocked. *)
MCAsks == {[from |-> Claimable, to |-> "in_progress"],
           [from |-> {"claimed"}, to |-> "in_progress"],
           [from |-> {"blocked"}, to |-> "done"]}
MCCreated == {FreshRow, [FreshRow EXCEPT !.state = "blocked"],
              [FreshRow EXCEPT !.state = "claimed", !.claimant = a1]}
MCFilters == {MCTask, {t2}}
Symmetry == Permutations(MCRequest)
=============================================================================
