---------------------------- MODULE MCTaskActions ----------------------------
(* Instances of the task lifecycle with two overlapping requests.           *)
(*   - three tasks, where feature depends on schema and on api;              *)
(*   - two tasks, where feature depends on schema, and an admin who resets   *)
(*     and unlocks while submissions and reviews are in flight.              *)
EXTENDS TaskActions, TLC

CONSTANTS schema, api, feature, a1, a2, boss, r1, r2

Three == {schema, api, feature}
Two == {schema, feature}
One == {schema}
MCRequest == {r1, r2}
MCRank == (schema :> 1) @@ (api :> 2) @@ (feature :> 3)
MCFilters == {{t} : t \in Task}
RankTwo == (schema :> 1) @@ (feature :> 2)
RankOne == (schema :> 1)
DepsOne == (schema :> {})
DepsThree == (schema :> {}) @@ (api :> {}) @@ (feature :> {schema, api})
DepsTwo == (schema :> {}) @@ (feature :> {schema})

(* claim_next as an agent that works at once uses it; and claims that take  *)
(* rows from any state, or declare them done or blocked.                     *)
Work == [from |-> Claimable, to |-> "in_progress"]
Declare == [from |-> {"in_progress"}, to |-> "done"]
Rework == [from |-> {"done"}, to |-> "in_progress"]
Grab == [from |-> {"blocked"}, to |-> "in_progress"]
WorkOnly == {Work}
DeclareToo == {Work, Declare}
ReworkToo == {Work, Rework, Grab}
Queued == {FreshRow}
QueuedOrBlocked == {FreshRow, [FreshRow EXCEPT !.state = "blocked"]}

OneAgent == {a1}
TwoAgents == {a1, a2}
OneAdmin == {boss}
NoOne == {}
Everyone == {a1, boss}
Roots == {t \in Task : Deps[t] = {}}

SymmetricRequests == Permutations(MCRequest)
=============================================================================
