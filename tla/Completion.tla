----------------------------- MODULE Completion -----------------------------
(***************************************************************************)
(* One task from its claim to done or to the dead letter queue, requests   *)
(* one at a time: what the handlers of task_actions.py decide, with the    *)
(* validator, the checks and the transition engine in full.  TaskActions   *)
(* has the same handlers overlapping, with the outcome of validation as an *)
(* input.  Between requests the contract may be patched, a policy attached *)
(* or removed, and the files and GitHub may change; a claim may name any   *)
(* states, and the generic routes store, rewrite and delete runs.          *)
(***************************************************************************)
EXTENDS Submission, Transitions

CONSTANTS
    Pack,         \* transition policy of the task type
    TaskType,     \* the task's type
    Contracts,    \* contracts the task may be given
    Worlds,       \* what files and GitHub may answer
    Attachable,   \* policies that may be attached to the task
    Submissions,  \* bodies that agents submit
    TaskState,    \* the states that a new task or a claim may name
    Reports,      \* reports that a client puts into a run itself
    Runs,         \* bound: run rows of the task at a time
    AttemptCap    \* bound: no failure starts on a row with this many

(* A threshold is a count, and so are the learnings of a submission; the    *)
(* pack of the task type has the fields the engine reads.                   *)
ASSUME CompletionAssumption ==
    /\ {"hitl", "tier", "max_retries"} \subseteq DOMAIN Pack /\ Pack.max_retries \in Nat
    /\ \A body \in Submissions : body.output.learnings \in Nat
    /\ Runs \in Nat

(* Places of run rows in the order of created_at and id. *)
Place == 1..Runs

VARIABLES
    row,        \* the task row: its state, attempt_count, and whether it has a claimant
    contract,   \* the row's contract
    world,      \* files and GitHub answers
    attached,   \* the policy of the task's policy_id, {} without one
    run         \* run[n]: the report of a run row, and (history) what it was made
                \* from, if a submission made it and no client rewrote it

completionVars == <<row, contract, world, attached, run>>

NoRun == [by |-> "nobody", report |-> NoReport]
Reported(report) == [by |-> "client", report |-> report]

(* _latest_dod_report: the newest row, whoever wrote it. *)
Newest(n) == run[n] # NoRun /\ \A m \in Place : m > n => run[m] = NoRun

(* POST of a task takes its state and claimant as they come, not its        *)
(* attempt_count.                                                           *)
CompletionInit ==
    /\ row \in [state : TaskState, attempts : {0}, held : BOOLEAN]
    /\ contract \in Contracts
    /\ world \in Worlds
    /\ attached \in {{}} \cup {{p} : p \in Attachable}
    /\ run = [n \in Place |-> NoRun]

(* resolve_task_policy and _effective_transition_policy: the pack of the    *)
(* task type is the default; it gives the threshold where none overrides.   *)
Effective ==
    effective_transition_policy(Pack, resolve_effective_policy(Pack, {}, {}, attached), TaskType)

(* _dod_report_from_payload: a report without a checklist is no report. *)
Proof(report) ==
    IF report.checklist = {} THEN "none"
    ELSE IF Unchecked(report) = {} THEN "proven" ELSE "unproven"

Step(from, target, asked) == apply_transition(Effective, from, target, contract.tier, asked)

(* A failure that gives one attempt more than the threshold. *)
record_failure_late ==
    LET attempts == row.attempts + 1 IN
    row' = [state    |-> IF attempts > Effective.max_retries THEN "dlq" ELSE "queued",
            attempts |-> attempts,
            held     |-> FALSE]

(* _record_task_failure *)
record_task_failure ==
    LET attempts == row.attempts + 1 IN
    row' = [state    |-> IF remaining_attempts(attempts, Effective.max_retries) = 0
                           THEN "dlq" ELSE "queued",
            attempts |-> attempts,
            held     |-> FALSE]

-----------------------------------------------------------------------------
(* A claim names the states it takes a task from, which may be any, and the *)
(* state it writes: claim_states and claimed_state.                         *)
claim(state) ==
    /\ row' = [row EXCEPT !.state = state, !.held = TRUE]
    /\ UNCHANGED <<contract, world, attached, run>>

(* A submission with errors counts as a failed attempt.  A valid one passes *)
(* submitted and validated and, where the policy asks for no human, done; a *)
(* transition that a guard stops answers 409 and changes nothing.  Its run  *)
(* is newer than every other one but those that a client dated later.  An   *)
(* administrator submits a task that nobody holds, too.                     *)
submit_task(body) ==
    LET checked == validate_submission(TaskType, contract, body, world)
        proof == Proof(checked.report)
        submitted == Step("in_progress", "submitted", Asked({"run_tests"}))
        validated == Step(submitted.state, "validated", [Asked({"update_task"}) EXCEPT !.report = proof])
        approved == Step(validated.state, "done", [Asked({"update_task"}) EXCEPT !.report = proof])
        last == IF Effective.hitl THEN validated ELSE approved IN
    /\ row.state = "in_progress"
    /\ IF checked.errors # {}
         THEN /\ row.attempts < AttemptCap
              /\ record_task_failure
              /\ UNCHANGED run
         ELSE /\ submitted.guard = "" /\ validated.guard = "" /\ last.guard = ""
              /\ row' = [row EXCEPT !.state = last.state, !.held = FALSE]
              /\ \E n \in Place :
                   /\ run[n] = NoRun
                   /\ \A m \in Place : m > n => run[m].by # "submission"
                   /\ run' = [run EXCEPT ![n] = [by |-> "submission", report |-> checked.report,
                                                contract |-> contract, body |-> body, world |-> world]]
    /\ UNCHANGED <<contract, world, attached>>

(* The report of the newest run stands for the task's. *)
approve_task ==
    /\ row.state = "validated"
    /\ \E n \in Place :
         LET approved == Step("validated", "done", [Asked({"update_task"}) EXCEPT
                                 !.report = Proof(run[n].report), !.approved = TRUE]) IN
         /\ Newest(n)
         /\ approved.guard = ""
         /\ row' = [row EXCEPT !.state = approved.state, !.held = FALSE]
    /\ UNCHANGED <<contract, world, attached, run>>

(* A rejection passes rejected on the way back; an escalation of the second *)
(* step sends the task to the dead letter queue instead.                    *)
reject_task ==
    LET rejected == Step("validated", "rejected", Asked({"update_task"}))
        requeued == Step(rejected.state, "queued",
                         [Asked({"update_task"}) EXCEPT !.attempts = row.attempts]) IN
    /\ row.state = "validated"
    /\ row.attempts < AttemptCap
    /\ rejected.guard = "" /\ requeued.guard = ""
    /\ row' = [state    |-> IF requeued.escalation = "max_retries_exceeded"
                              THEN "dlq" ELSE requeued.state,
               attempts |-> requeued.attempts,
               held     |-> FALSE]
    /\ UNCHANGED <<contract, world, attached, run>>

reset_task ==
    /\ row' = [state |-> "queued", attempts |-> 0, held |-> FALSE]
    /\ UNCHANGED <<contract, world, attached, run>>

(* POST, PATCH and DELETE of runs: a new row has the details and the        *)
(* created_at the client names, a patched one keeps its created_at but may  *)
(* go to another task, which counts as a deletion here, and a deleted one   *)
(* leaves an older row the newest.                                          *)
create_runs(n, report) ==
    /\ run[n] = NoRun
    /\ run' = [run EXCEPT ![n] = Reported(report)]
    /\ UNCHANGED <<row, contract, world, attached>>

patch_runs(n, report) ==
    /\ run[n] # NoRun
    /\ run' = [run EXCEPT ![n] = Reported(report)]
    /\ UNCHANGED <<row, contract, world, attached>>

delete_runs(n) ==
    /\ run[n] # NoRun
    /\ run' = [run EXCEPT ![n] = NoRun]
    /\ UNCHANGED <<row, contract, world, attached>>

(* PATCH of the task's contract, or of its policy_id. *)
revise(c) ==
    /\ contract' = c
    /\ UNCHANGED <<row, world, attached, run>>

attach(p) ==
    /\ attached' = p
    /\ UNCHANGED <<row, contract, world, run>>

(* External: a file or a GitHub answer changes. *)
change(w) ==
    /\ world' = w
    /\ UNCHANGED <<row, contract, attached, run>>

-----------------------------------------------------------------------------
CompletionNext ==
    \/ \E state \in TaskState : claim(state)
    \/ \E body \in Submissions : submit_task(body)
    \/ approve_task
    \/ reject_task
    \/ reset_task
    \/ \E n \in Place, report \in Reports : create_runs(n, report)
    \/ \E n \in Place, report \in Reports : patch_runs(n, report)
    \/ \E n \in Place : delete_runs(n)
    \/ \E c \in Contracts : revise(c)
    \/ \E p \in {{}} \cup {{a} : a \in Attachable} : attach(p)
    \/ \E w \in Worlds : change(w)

CompletionSpec == CompletionInit /\ [][CompletionNext]_completionVars

-----------------------------------------------------------------------------
(* A check states something about the declared artifacts; this is what, in  *)
(* the words of its name, on what the submission declared.  Two kinds of    *)
(* check may select by an expression.                                       *)
Holds(check, output, w) ==
    LET declared == Bundle(output)
        selected == CASE "path" \notin DOMAIN check -> {}
                      [] check.type \in {"path_exists", "path_absent"} -> Selected(check, declared)
                      [] OTHER -> declared \cap {check.path}
        there == selected \cap DOMAIN w.file IN
    CASE check.type = "path_exists" -> there # {} /\ there = selected
      [] check.type = "path_absent" -> selected = {}
      [] check.type = "grep_present" -> \E u \in there : check.pattern \in w.file[u].words
      [] check.type = "grep_absent" -> \A u \in there : check.pattern \notin w.file[u].words
      [] check.type = "artifact_size" ->
           \E u \in there : /\ "min_bytes" \in DOMAIN check => w.file[u].size >= check.min_bytes
                            /\ "max_bytes" \in DOMAIN check => w.file[u].size <= check.max_bytes
      [] check.type = "test_count" ->
           \E u \in there : \E n \in w.file[u].testcases : check.min_count <= n
      [] check.type = "schema_validates" ->
           \E u \in there : check.schema_name \in w.file[u].satisfies
      [] check.type = "ci_status" -> \E n \in DOMAIN w.conclusion :
           n = CheckRun(check) /\ w.conclusion[n] = "success"
      [] check.type = "pr_mergeable" -> \E n \in DOMAIN w.mergeable :
           n = PullRequest(check) /\ w.mergeable[n]

(* A result of the submission that speaks for a statement of the contract. *)
Speaks(result, item) ==
    normalize_legacy_shape(result).dod_id \in {item.dod_id, item.statement}

(* What was submitted proves what was then asked for: every item of the     *)
(* contract is reported on, or shares its id with one that is, has a check, *)
(* and every check held of the files the submission declared; a run with    *)
(* trouble carries a learning.                                              *)
Proves(r) ==
    /\ "dod_checks" \in DOMAIN r.contract
    /\ \A item \in ToSet(resolve_contract_dod_items(r.contract)) :
         /\ \E k \in DOMAIN r.body.dod_results, other \in ToSet(resolve_contract_dod_items(r.contract)) :
              other.dod_id = item.dod_id /\ Speaks(r.body.dod_results[k], other)
         /\ \E k \in DOMAIN r.contract.dod_checks : r.contract.dod_checks[k].item = item.statement
    /\ \A k \in DOMAIN r.contract.dod_checks : Holds(r.contract.dod_checks[k], r.body.output, r.world)
    /\ (r.body.had_failure \/ r.body.had_block \/ r.body.had_retry) => r.body.output.learnings > 0

(* A task becomes done on a run that proves the contract as it was when the *)
(* run was submitted, however contract, files and policy changed since, and *)
(* whatever claims and runs came in between: the run just submitted, or the *)
(* newest one at an approval.  Nothing proves a task that a claim makes     *)
(* done, or a report that a client itself wrote into the newest run:        *)
(* task_actions.py:510-871 with validator.py and dod.py, app.py:782-798 and *)
(* crud.py:111-116.                                                         *)
Finishes == row.state # "done" /\ row'.state = "done"
Grounds(n) ==
    \/ run[n] = NoRun /\ run'[n].by = "submission" /\ Proves(run'[n])
    \/ Newest(n) /\ (run[n].by = "submission" => Proves(run[n]))
DoneIsProven == [][Finishes => row'.held \/ \E n \in Place : Grounds(n)]_completionVars

(* A failed or rejected attempt is counted exactly once, and leads to the   *)
(* dead letter queue when the policy then in effect leaves no attempt and   *)
(* back to the queue otherwise, on both paths: _record_task_failure counts  *)
(* by itself, reject_task through the escalation of apply_transition.  A    *)
(* claim that names either state counts nothing.                            *)
DeadLettersAreSpent ==
    [][row.state # row'.state /\ row'.state \in {"queued", "dlq"} =>
          \/ row' = [state |-> "queued", attempts |-> 0, held |-> FALSE]
          \/ row'.held /\ row'.attempts = row.attempts
          \/ /\ row'.attempts = row.attempts + 1
             /\ (row'.state = "dlq") <=> (Effective.max_retries <= row'.attempts)]_completionVars
=============================================================================
