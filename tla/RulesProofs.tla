----------------------------- MODULE RulesProofs -----------------------------
(***************************************************************************)
(* Theorems about the rules that answer one request at a time: Completion, *)
(* RequestPath, Retrieval, Drafts and Analytics.  What a task's being done *)
(* says and when it is given up, for any contracts, policies and files;    *)
(* how many requests an actor gets through and what reaches a handler, for *)
(* any bodies, limits and rates; that an answer holds what was found, for  *)
(* any learnings, targets, scopes and limits; that what is learned of a    *)
(* run is what the run says, for any traces; that the figures of an answer *)
(* agree with each other and with the rows, for any rows.                  *)
(***************************************************************************)
EXTENDS Completion, RequestPath, Retrieval, Drafts, Analytics, Counting,
        SequenceTheorems, FunctionTheorems, TLAPS

-----------------------------------------------------------------------------
(* Completion: attempts *)

(* Attempts are counted, and the threshold in effect is a count. *)
Counted ==
    /\ row = [state |-> row.state, attempts |-> row.attempts, held |-> row.held]
    /\ row.attempts \in Nat

LEMMA ThresholdIsCount ==
    Effective.max_retries \in Nat /\ "max_retries" \in DOMAIN Effective
<1> DEFINE policy == resolve_effective_policy(Pack, {}, {}, attached)
           most == resolve_max_attempts(policy.overrides, TaskType, Pack.max_retries)
<1>1. most \in Nat
  BY CompletionAssumption DEF resolve_max_attempts
<1>2. /\ Effective.max_retries = most
      /\ "max_retries" \in DOMAIN Effective
  BY CompletionAssumption DEF Effective, effective_transition_policy
<1> QED BY <1>1, <1>2

(* Where a step of the engine leads that no guard stops. *)
LEMMA StepLeads ==
    \A from, goal, asked :
      Step(from, goal, asked).guard = "" => Step(from, goal, asked).state = goal
<1>1. SUFFICES ASSUME NEW from, NEW goal, NEW asked
               PROVE  Step(from, goal, asked).guard = "" => Step(from, goal, asked).state = goal
  OBVIOUS
<1>2. PICK guard : guard = Guard(Effective, from, goal, contract.tier, asked)
  OBVIOUS
<1>3. /\ Step(from, goal, asked).guard = guard
      /\ Step(from, goal, asked).state = IF guard = "" THEN goal ELSE from
  BY <1>2 DEF Step, apply_transition
<1> QED BY <1>3

(* The step back to the queue counts an attempt, and escalates at the threshold. *)
LEMMA StepCounts ==
    ASSUME NEW asked, asked.attempts \in Nat, Step("rejected", "queued", asked).guard = ""
    PROVE  /\ Step("rejected", "queued", asked).attempts = asked.attempts + 1
           /\ (Step("rejected", "queued", asked).escalation = "max_retries_exceeded")
                <=> (Effective.max_retries <= asked.attempts + 1)
<1>1. /\ Step("rejected", "queued", asked).attempts = asked.attempts + 1
      /\ Step("rejected", "queued", asked).escalation =
           Escalation(Effective, "rejected", "queued", asked.attempts + 1)
  BY DEF Step, apply_transition
<1>2. (Escalation(Effective, "rejected", "queued", asked.attempts + 1) = "max_retries_exceeded")
        <=> (Effective.max_retries <= asked.attempts + 1)
  <2> DEFINE spent == asked.attempts + 1 >= Effective.max_retries
  <2>1. asked.attempts \in Nat /\ Effective.max_retries \in Nat
    BY ThresholdIsCount
  <2>2. spent <=> (Effective.max_retries <= asked.attempts + 1)
    BY <2>1
  <2>3. CASE spent
    <3>1. Escalation(Effective, "rejected", "queued", asked.attempts + 1) = "max_retries_exceeded"
      BY <2>3, Zenon DEF Escalation, Escalates
    <3> QED BY <3>1, <2>1, <2>3, <2>2
  <2>4. CASE ~spent
    <3>1. ~(Escalation(Effective, "rejected", "queued", asked.attempts + 1) = "max_retries_exceeded")
      BY <2>4, Zenon DEF Escalation, Escalates
    <3> QED BY <3>1, <2>1, <2>4, <2>2
  <2> QED BY <2>3, <2>4
<1> QED BY <1>1, <1>2

(* A failed attempt is one more, and the last if it uses up the threshold. *)
LEMMA FailureCounts ==
    ASSUME Counted, record_task_failure
    PROVE  /\ row' = [state |-> row'.state, attempts |-> row'.attempts, held |-> FALSE]
           /\ row'.attempts = row.attempts + 1
           /\ row'.state \in {"queued", "dlq"}
           /\ (row'.state = "dlq") <=> (Effective.max_retries <= row'.attempts)
  BY ThresholdIsCount DEF Counted, record_task_failure, remaining_attempts

(* So does a rejection, through the engine. *)
LEMMA RejectionCounts ==
    ASSUME Counted, reject_task
    PROVE  /\ row' = [state |-> row'.state, attempts |-> row'.attempts, held |-> FALSE]
           /\ row'.attempts = row.attempts + 1
           /\ row'.state \in {"queued", "dlq"}
           /\ (row'.state = "dlq") <=> (Effective.max_retries <= row'.attempts)
<1> DEFINE rejected == Step("validated", "rejected", Asked({"update_task"}))
           asked == [Asked({"update_task"}) EXCEPT !.attempts = row.attempts]
           requeued == Step(rejected.state, "queued", asked)
<1>1. /\ rejected.guard = "" /\ requeued.guard = ""
      /\ row' = [state    |-> IF requeued.escalation = "max_retries_exceeded"
                                THEN "dlq" ELSE requeued.state,
                 attempts |-> requeued.attempts,
                 held     |-> FALSE]
  BY DEF reject_task
<1>2. rejected.state = "rejected"
  BY <1>1, StepLeads, Zenon
<1>3. asked.attempts = row.attempts
  BY DEF Asked
<1>4. Step("rejected", "queued", asked).guard = ""
  BY <1>1, <1>2, Zenon
<1>5. /\ Step("rejected", "queued", asked).state = "queued"
      /\ Step("rejected", "queued", asked).attempts = asked.attempts + 1
      /\ (Step("rejected", "queued", asked).escalation = "max_retries_exceeded")
           <=> (Effective.max_retries <= asked.attempts + 1)
  <2> HIDE DEF asked
  <2> QED BY <1>3, <1>4, StepLeads, StepCounts DEF Counted
<1>6. row' = [state    |-> IF Step("rejected", "queued", asked).escalation = "max_retries_exceeded"
                             THEN "dlq" ELSE "queued",
              attempts |-> row.attempts + 1,
              held     |-> FALSE]
  BY <1>1, <1>2, <1>3, <1>5, Zenon
<1> QED BY <1>3, <1>5, <1>6, ThresholdIsCount DEF Counted

-----------------------------------------------------------------------------
(* Completion: what a report proves *)

(* A check that could be parsed and is met holds of what was submitted. *)
LEMMA MetChecksHold ==
    ASSUME NEW check, NEW output, NEW w,
           coerce_check_definition(check, Bundle(output), w),
           handler(check, Bundle(output), w) = "checked"
    PROVE  Holds(check, output, w)
<1> DEFINE bundle == Bundle(output)
           named == bundle \cap {check.path}
           files == named \cap DOMAIN w.file
<1>1. check.type \in CHECK_HANDLERS /\ Has(check, Fields(check.type))
  BY Zenon DEF coerce_check_definition
<1>2. "unchecked_unmet" # "checked" /\ "unchecked_blocked" # "checked"
  OBVIOUS
<1>3. \A u : u \in DOMAIN w.file <=> Answers(w, "file", u)
  BY DEF Answers
<1>11. CASE check.type = "artifact_size"
  <2>1. handler(check, bundle, w) = artifact_size(check, bundle, w)
    BY <1>11, Zenon DEF handler
  <2>2. "path" \in DOMAIN check
    BY <1>1, <1>11, Zenon DEF Has, Fields
  <2>3. \E u \in files : /\ "min_bytes" \in DOMAIN check => w.file[u].size >= check.min_bytes
                         /\ "max_bytes" \in DOMAIN check => w.file[u].size <= check.max_bytes
    <3> DEFINE Meet(f) == /\ "min_bytes" \in DOMAIN check => f.size >= check.min_bytes
                          /\ "max_bytes" \in DOMAIN check => f.size <= check.max_bytes
    <3>1. \E f \in FilesNamed(check, bundle, w) : Meet(f)
      BY <1>2, <2>1, Zenon DEF artifact_size, Unmet
    <3>2. FilesNamed(check, bundle, w) = {w.file[u] : u \in files}
      BY DEF FilesNamed, Named, select_artifacts, Answers
    <3>3. \E u \in files : Meet(w.file[u])
      <4> HIDE DEF Meet, files
      <4> QED BY <3>1, <3>2
    <3> QED BY <3>3
  <2> QED BY <1>11, <2>2, <2>3, Zenon DEF Holds
<1>12. CASE check.type = "grep_present"
  <2>1. handler(check, bundle, w) = grep_present(check, bundle, w)
    BY <1>12, Zenon DEF handler
  <2>2. "path" \in DOMAIN check
    BY <1>1, <1>12, Zenon DEF Has, Fields
  <2>3. \E u \in files : check.pattern \in w.file[u].words
    BY <1>2, <2>1 DEF grep_present, FilesNamed, Named, select_artifacts, Unmet, Answers
  <2> QED BY <1>12, <2>2, <2>3, Zenon DEF Holds
<1>13. CASE check.type = "grep_absent"
  <2>1. handler(check, bundle, w) = grep_absent(check, bundle, w)
    BY <1>13, Zenon DEF handler
  <2>2. "path" \in DOMAIN check
    BY <1>1, <1>13, Zenon DEF Has, Fields
  <2>3. \A u \in files : check.pattern \notin w.file[u].words
    BY <1>2, <2>1 DEF grep_absent, FilesNamed, Named, select_artifacts, Unmet, Answers
  <2> QED BY <1>13, <2>2, <2>3, Zenon DEF Holds
<1>14. CASE check.type = "test_count"
  <2>1. handler(check, bundle, w) = test_count(check, bundle, w)
    BY <1>14, Zenon DEF handler
  <2>2. "path" \in DOMAIN check
    BY <1>1, <1>14, Zenon DEF Has, Fields
  <2>3. \E u \in files : \E n \in w.file[u].testcases : check.min_count <= n
    BY <1>2, <2>1 DEF test_count, FilesNamed, Named, select_artifacts, Unmet, Answers
  <2> QED BY <1>14, <2>2, <2>3, Zenon DEF Holds
<1>15. CASE check.type = "schema_validates"
  <2>1. handler(check, bundle, w) = schema_validates(check, bundle, w)
    BY <1>15, Zenon DEF handler
  <2>2. "path" \in DOMAIN check
    BY <1>1, <1>15, Zenon DEF Has, Fields
  <2>3. \E u \in files : check.schema_name \in w.file[u].satisfies
    BY <1>2, <2>1 DEF schema_validates, FilesNamed, Named, select_artifacts, Unmet, Answers
  <2> QED BY <1>15, <2>2, <2>3, Zenon DEF Holds
<1>16. CASE check.type = "path_exists"
  <2>1. handler(check, bundle, w) = path_exists(check, bundle, w)
    BY <1>16, Zenon DEF handler
  <2>2. "path" \in DOMAIN check
    BY <1>1, <1>16, Zenon DEF Has, Fields
  <2>3. Selected(check, bundle) # {} /\ Selected(check, bundle) \subseteq DOMAIN w.file
    BY <1>2, <2>1 DEF path_exists, Unmet
  <2>4. Selected(check, bundle) \cap DOMAIN w.file = Selected(check, bundle)
    BY <2>3
  <2> QED BY <1>16, <2>2, <2>3, <2>4, Zenon DEF Holds
<1>17. CASE check.type = "path_absent"
  <2>1. handler(check, bundle, w) = path_absent(check, bundle, w)
    BY <1>17, Zenon DEF handler
  <2>2. "path" \in DOMAIN check
    BY <1>1, <1>17, Zenon DEF Has, Fields
  <2>3. Selected(check, bundle) = {}
    BY <1>2, <2>1 DEF path_absent, Unmet
  <2> QED BY <1>17, <2>2, <2>3, Zenon DEF Holds
<1>18. CASE check.type = "ci_status"
  <2>1. handler(check, bundle, w) = ci_status(check, w)
    BY <1>18, Zenon DEF handler
  <2>2. CheckRun(check) \in DOMAIN w.conclusion /\ w.conclusion[CheckRun(check)] = "success"
    BY <1>2, <2>1 DEF ci_status, Unmet, Answers
  <2> QED BY <1>18, <2>2, Zenon DEF Holds
<1>19. CASE check.type = "pr_mergeable"
  <2>1. handler(check, bundle, w) = pr_mergeable(check, w)
    BY <1>19, Zenon DEF handler
  <2>2. PullRequest(check) \in DOMAIN w.mergeable /\ w.mergeable[PullRequest(check)]
    BY <1>2, <2>1 DEF pr_mergeable, Unmet, Answers
  <2> QED BY <1>19, <2>2, Zenon DEF Holds
<1> QED
  BY <1>1, <1>11, <1>12, <1>13, <1>14, <1>15, <1>16, <1>17, <1>18, <1>19 DEF CHECK_HANDLERS

(* An item whose aggregate is "checked" has a check, and all of them are met. *)
LEMMA CheckedItem ==
    ASSUME NEW results, aggregate_item(results) = "checked"
    PROVE  DOMAIN results # {} /\ \A k \in DOMAIN results : results[k] = "checked"
<1>1. DOMAIN results # {}
  BY DEF aggregate_item
<1>2. {k \in DOMAIN results : results[k] = "checked"} = DOMAIN results
  BY DEF aggregate_item
<1> QED BY <1>1, <1>2

(* A report with every item checked has a check for every item of the       *)
(* contract, and all checks hold of what was submitted.                     *)
LEMMA ReportProves ==
    ASSUME NEW c, NEW output, NEW w,
           run_dod_checks(c, output, w).made = "made",
           Unchecked(run_dod_checks(c, output, w)) = {}
    PROVE  /\ \A k \in DOMAIN c.dod_checks : Holds(c.dod_checks[k], output, w)
           /\ \A i \in ToSet(resolve_contract_dod_items(c)) :
                \E k \in DOMAIN c.dod_checks : c.dod_checks[k].item = i.statement
<1> DEFINE checks == c.dod_checks
           bundle == Bundle(output)
           own(item) == {k \in DOMAIN checks : checks[k].item = item}
           results(item) == [k \in own(item) |-> handler(checks[k], bundle, w)]
           items == Statements(c) \cup {checks[k].item : k \in DOMAIN checks}
           checklist == {[item |-> i, state |-> aggregate_item(results(i))] : i \in items}
<1>1. /\ \A k \in DOMAIN checks : coerce_check_definition(checks[k], bundle, w)
      /\ run_dod_checks(c, output, w).checklist = checklist
  BY DEF run_dod_checks
<1>2. ASSUME NEW i \in items
      PROVE  aggregate_item(results(i)) = "checked"
  <2> DEFINE entry == [item |-> i, state |-> aggregate_item(results(i))]
  <2>1. entry \in checklist
    OBVIOUS
  <2>2. entry.state = "checked"
    <3> HIDE DEF entry, checklist
    <3> QED BY <1>1, <2>1 DEF Unchecked
  <2> QED BY <2>2
<1>3. ASSUME NEW i \in items
      PROVE  own(i) # {} /\ \A k \in own(i) : handler(checks[k], bundle, w) = "checked"
  <2>1. DOMAIN results(i) # {} /\ \A k \in DOMAIN results(i) : results(i)[k] = "checked"
    <3> HIDE DEF results
    <3> QED BY <1>2, CheckedItem
  <2> QED BY <2>1
<1>4. ASSUME NEW k \in DOMAIN checks
      PROVE  Holds(checks[k], output, w)
  <2>1. checks[k].item \in items /\ k \in own(checks[k].item)
    OBVIOUS
  <2>2. handler(checks[k], bundle, w) = "checked"
    BY <1>3, <2>1
  <2> QED BY <1>1, <2>2, MetChecksHold
<1>5. ASSUME NEW i \in ToSet(resolve_contract_dod_items(c))
      PROVE  \E k \in DOMAIN checks : checks[k].item = i.statement
  <2>1. i.statement \in items
    BY DEF Statements
  <2> QED BY <1>3, <2>1
<1> QED BY <1>4, <1>5

(* Without an issue, every item, or one that shares its id, is reported on. *)
LEMMA NoIssueCovers ==
    ASSUME NEW c, NEW results, dod_issues(c, results) = {},
           NEW i \in ToSet(resolve_contract_dod_items(c))
    PROVE  \E r \in ToSet(results), other \in ToSet(resolve_contract_dod_items(c)) :
              other.dod_id = i.dod_id /\ r.dod_id \in {other.dod_id, other.statement}
<1> DEFINE items == resolve_contract_dod_items(c)
           known == {r \in ToSet(results) : Match(items, r.dod_id) # {}}
           seen == {items[k].dod_id : k \in UNION {Match(items, r.dod_id) : r \in known}}
           ids == {q.dod_id : q \in ToSet(items)}
<1>1. items # <<>>
  BY DEF ToSet
<1>2. known = ToSet(results) /\ ids = seen
  <2> HIDE DEF items, known, seen, ids
  <2>1. dod_issues(c, results) =
          (IF known # ToSet(results) THEN {"dod_result_unknown_id"} ELSE {})
            \cup (IF \E r \in known : r.status = "passed" /\ r.evidence = 0
                    THEN {"dod_result_evidence_required"} ELSE {})
            \cup (IF \E r \in known : r.status # "passed" /\ ~r.reason
                    THEN {"dod_result_reason_required"} ELSE {})
            \cup (IF known = ToSet(results) /\ ids # seen
                    THEN {"dod_result_missing"} ELSE {})
    BY <1>1, Zenon DEF dod_issues, items, known, seen, ids
  <2>2. (IF known # ToSet(results) THEN {"dod_result_unknown_id"} ELSE {}) = {}
    BY <2>1
  <2>3. (IF known = ToSet(results) /\ ids # seen THEN {"dod_result_missing"} ELSE {}) = {}
    BY <2>1
  <2> QED BY <2>2, <2>3
<1>3. i.dod_id \in seen
  <2>1. i.dod_id \in ids
    OBVIOUS
  <2> HIDE DEF ids, seen
  <2> QED BY <1>2, <2>1
<1>4. PICK r \in known : \E k \in Match(items, r.dod_id) : items[k].dod_id = i.dod_id
  <2> HIDE DEF known, items
  <2> QED BY <1>3
<1>5. PICK k \in Match(items, r.dod_id) : items[k].dod_id = i.dod_id
  BY <1>4
<1>6. k \in DOMAIN items /\ r.dod_id \in {items[k].dod_id, items[k].statement}
  <2> HIDE DEF items
  <2> QED BY <1>5 DEF Match, Latest
<1>7. items[k] \in ToSet(items)
  BY <1>6 DEF ToSet
<1> QED BY <1>5, <1>6, <1>7

(* A submission without errors whose report is fully checked proves the     *)
(* contract it was made for.                                                *)
LEMMA ValidProves ==
    ASSUME NEW c, NEW body \in Submissions, NEW w, NEW r,
           validate_submission(TaskType, c, body, w).errors = {},
           Proof(validate_submission(TaskType, c, body, w).report) = "proven",
           r.contract = c, r.body = body, r.world = w
    PROVE  Proves(r)
<1> DEFINE results == [k \in DOMAIN body.dod_results |-> normalize_legacy_shape(body.dod_results[k])]
           report == IF "dod_checks" \in DOMAIN c THEN run_dod_checks(c, body.output, w) ELSE NoReport
           learns == IF has_retry_signal(body) /\ body.output.learnings = 0
                       THEN {"learnings_required"} ELSE {}
           issues == schema_issues(TaskType, body.output) \cup learns \cup dod_issues(c, results)
           checked == IF report.made = "made" THEN report ELSE NoReport
<1>1. /\ issues \cup dod_report_issues(report) = {}
      /\ Proof(checked) = "proven"
  <2> HIDE DEF issues, report
  <2>1. CASE SubmitErrors(body) # {}
    <3>1. validate_submission(TaskType, c, body, w) = [errors |-> SubmitErrors(body), report |-> NoReport]
      BY <2>1, Zenon DEF validate_submission
    <3> QED BY <2>1, <3>1
  <2>2. CASE SubmitErrors(body) = {}
    <3>1. validate_submission(TaskType, c, body, w) =
            [errors |-> issues \cup dod_report_issues(report), report |-> checked]
      BY <2>2, Zenon DEF validate_submission, issues, report
    <3> HIDE DEF checked
    <3> QED BY <3>1
  <2> QED BY <2>1, <2>2
<1>2. learns = {} /\ dod_issues(c, results) = {}
  <2> HIDE DEF learns, results
  <2> QED BY <1>1
<1>3. Proof(NoReport) = "none"
  BY DEF Proof, NoReport
<1>4. "dod_checks" \in DOMAIN c /\ report.made = "made" /\ Unchecked(report) = {}
  <2>1. report.made = "made"
    <3> HIDE DEF report
    <3> QED BY <1>1, <1>3
  <2>2. "dod_checks" \in DOMAIN c
    BY <2>1 DEF NoReport
  <2>3. Proof(report) = "proven"
    <3> HIDE DEF report
    <3> QED BY <1>1, <2>1
  <2>4. Unchecked(report) = {}
    <3> HIDE DEF report
    <3> QED BY <2>3 DEF Proof
  <2> QED BY <2>1, <2>2, <2>4
<1>5. report = run_dod_checks(c, body.output, w)
  BY <1>4
<1>6. /\ \A k \in DOMAIN c.dod_checks : Holds(c.dod_checks[k], body.output, w)
      /\ \A i \in ToSet(resolve_contract_dod_items(c)) :
           \E k \in DOMAIN c.dod_checks : c.dod_checks[k].item = i.statement
  <2> HIDE DEF report
  <2>1. /\ run_dod_checks(c, body.output, w).made = "made"
        /\ Unchecked(run_dod_checks(c, body.output, w)) = {}
    BY <1>4, <1>5
  <2> QED BY <2>1, ReportProves
<1>7. ASSUME NEW i \in ToSet(resolve_contract_dod_items(c))
      PROVE  \E k \in DOMAIN body.dod_results, other \in ToSet(resolve_contract_dod_items(c)) :
                other.dod_id = i.dod_id /\ Speaks(body.dod_results[k], other)
  <2>1. PICK q \in ToSet(results), other \in ToSet(resolve_contract_dod_items(c)) :
                other.dod_id = i.dod_id /\ q.dod_id \in {other.dod_id, other.statement}
    <3> HIDE DEF results
    <3> QED BY <1>2, NoIssueCovers
  <2>2. PICK k \in DOMAIN body.dod_results : q = normalize_legacy_shape(body.dod_results[k])
    BY DEF ToSet
  <2> QED BY <2>1, <2>2 DEF Speaks
<1>8. has_retry_signal(body) => body.output.learnings > 0
  <2>1. body.output.learnings \in Nat
    BY CompletionAssumption
  <2>2. has_retry_signal(body) => body.output.learnings # 0
    BY <1>2
  <2> QED BY <2>1, <2>2
<1> QED BY <1>4, <1>6, <1>7, <1>8 DEF Proves, has_retry_signal

(* No guard lets a task be done on a report that is not proven. *)
LEMMA DoneNeedsProof ==
    ASSUME NEW from, NEW asked, Step(from, "done", asked).guard = ""
    PROVE  asked.report = "proven"
<1>1. Guard(Effective, from, "done", contract.tier, asked) = ""
  BY DEF Step, apply_transition
<1> QED BY <1>1 DEF Guard

(* The run that a submission makes of what it validated. *)
Made(body) ==
    [by |-> "submission", report |-> validate_submission(TaskType, contract, body, world).report,
     contract |-> contract, body |-> body, world |-> world]

(* Where a submission leads: to a failed attempt, or to a new run without   *)
(* errors, which is validated, or done if its report is proven.             *)
LEMMA SubmissionLeads ==
    ASSUME Counted, NEW body \in Submissions, submit_task(body)
    PROVE  \/ record_task_failure /\ run' = run
           \/ /\ row' = [state |-> row'.state, attempts |-> row.attempts, held |-> FALSE]
              /\ row'.state \in {"validated", "done"}
              /\ \E n \in Place : run[n] = NoRun /\ run' = [run EXCEPT ![n] = Made(body)]
              /\ validate_submission(TaskType, contract, body, world).errors = {}
              /\ row'.state = "done" => Proof(Made(body).report) = "proven"
<1> DEFINE checked == validate_submission(TaskType, contract, body, world)
           proof == Proof(checked.report)
           asked == [Asked({"update_task"}) EXCEPT !.report = proof]
           submitted == Step("in_progress", "submitted", Asked({"run_tests"}))
           validated == Step(submitted.state, "validated", asked)
           approved == Step(validated.state, "done", asked)
           last == IF Effective.hitl THEN validated ELSE approved
<1>1. CASE checked.errors # {}
  BY <1>1, Zenon DEF submit_task
<1>2. CASE checked.errors = {}
  <2>1. /\ submitted.guard = "" /\ validated.guard = "" /\ last.guard = ""
        /\ row' = [row EXCEPT !.state = last.state, !.held = FALSE]
        /\ \E n \in Place : run[n] = NoRun /\ run' = [run EXCEPT ![n] = Made(body)]
    BY <1>2, Zenon DEF submit_task, Made
  <2>2. validated.state = "validated"
    BY <2>1, StepLeads, Zenon
  <2>3. CASE Effective.hitl
    <3>1. last = validated
      BY <2>3, Zenon
    <3>2. row' = [row EXCEPT !.state = "validated", !.held = FALSE]
      BY <2>1, <2>2, <3>1, Zenon
    <3>3. /\ row'.state = "validated"
          /\ row' = [state |-> row'.state, attempts |-> row.attempts, held |-> FALSE]
      BY <3>2 DEF Counted
    <3> QED BY <1>2, <2>1, <3>3
  <2>4. CASE ~Effective.hitl
    <3>1. last = approved
      BY <2>4, Zenon
    <3>2. approved.guard = "" /\ row' = [row EXCEPT !.state = approved.state, !.held = FALSE]
      BY <2>1, <3>1, Zenon
    <3>3. approved.state = "done"
      BY <3>2, StepLeads, Zenon
    <3>4. row' = [row EXCEPT !.state = "done", !.held = FALSE]
      BY <3>2, <3>3, Zenon
    <3>5. /\ row'.state = "done"
          /\ row' = [state |-> row'.state, attempts |-> row.attempts, held |-> FALSE]
      BY <3>4 DEF Counted
    <3>6. asked.report = "proven"
      BY <3>2, DoneNeedsProof, Zenon
    <3>7. asked.report = proof
      BY DEF Asked
    <3>8. Proof(Made(body).report) = proof
      BY DEF Made
    <3> QED BY <1>2, <2>1, <3>5, <3>6, <3>7, <3>8
  <2> QED BY <2>3, <2>4
<1> QED BY <1>1, <1>2

-----------------------------------------------------------------------------
(* Completion: the invariant *)

(* A run that a submission made, and no client rewrote, proves its contract *)
(* if its report is proven.                                                 *)
Vouches(r) == r.by = "submission" /\ Proof(r.report) = "proven" => Proves(r)
RunsStand == DOMAIN run = Place /\ \A n \in Place : Vouches(run[n])

CompletionInvariant == Counted /\ RunsStand

LEMMA NoSubmissionVouches ==
    /\ Vouches(NoRun) /\ NoRun.by # "submission"
    /\ \A report : Vouches(Reported(report)) /\ Reported(report) # NoRun
  BY DEF Vouches, NoRun, Reported

LEMMA CompletionStarts == CompletionInit => CompletionInvariant
<1> SUFFICES ASSUME CompletionInit PROVE CompletionInvariant
  OBVIOUS
<1>1. Counted
  BY DEF CompletionInit, Counted
<1>2. RunsStand
  BY NoSubmissionVouches DEF CompletionInit, RunsStand
<1> QED BY <1>1, <1>2 DEF CompletionInvariant

(* A row that a request writes is still a row. *)
LEMMA CountedKept ==
    ASSUME row' = [state |-> row'.state, attempts |-> row'.attempts, held |-> row'.held],
           row'.attempts \in Nat
    PROVE  Counted'
  BY DEF Counted

LEMMA RunsKept ==
    ASSUME RunsStand, run' = run
    PROVE  RunsStand'
  BY DEF RunsStand

(* One run that stands is written. *)
LEMMA RunPut ==
    ASSUME RunsStand, NEW n \in Place, NEW r, Vouches(r), run' = [run EXCEPT ![n] = r]
    PROVE  RunsStand'
<1>1. DOMAIN run' = Place /\ \A m \in Place : run'[m] = IF m = n THEN r ELSE run[m]
  BY DEF RunsStand
<1> QED BY <1>1 DEF RunsStand

LEMMA MadeVouches ==
    ASSUME NEW body \in Submissions,
           validate_submission(TaskType, contract, body, world).errors = {}
    PROVE  /\ Vouches(Made(body)) /\ Made(body).by = "submission"
           /\ Proof(Made(body).report) = "proven" => Proves(Made(body))
<1> DEFINE made == Made(body)
<1>1. /\ made.report = validate_submission(TaskType, contract, body, world).report
      /\ made.contract = contract /\ made.body = body /\ made.world = world
      /\ made.by = "submission"
  BY DEF Made
<1>2. Proof(made.report) = "proven" => Proves(made)
  <2> HIDE DEF made
  <2> QED BY <1>1, ValidProves
<1> QED BY <1>1, <1>2 DEF Vouches

LEMMA SubmissionKeeps ==
    ASSUME CompletionInvariant, NEW body \in Submissions, submit_task(body)
    PROVE  CompletionInvariant'
<1>0. Counted /\ RunsStand
  BY DEF CompletionInvariant
<1>1. CASE record_task_failure /\ run' = run
  <2>1. row'.attempts \in Nat
    BY <1>0, <1>1, FailureCounts DEF Counted
  <2>2. row' = [state |-> row'.state, attempts |-> row'.attempts, held |-> row'.held]
    BY <1>0, <1>1, FailureCounts
  <2> QED BY <1>0, <1>1, <2>1, <2>2, CountedKept, RunsKept DEF CompletionInvariant
<1>2. CASE /\ row' = [state |-> row'.state, attempts |-> row.attempts, held |-> FALSE]
           /\ \E n \in Place : run[n] = NoRun /\ run' = [run EXCEPT ![n] = Made(body)]
           /\ validate_submission(TaskType, contract, body, world).errors = {}
  <2>1. Counted'
    BY <1>0, <1>2 DEF Counted
  <2>2. RunsStand'
    BY <1>0, <1>2, MadeVouches, RunPut
  <2> QED BY <2>1, <2>2 DEF CompletionInvariant
<1> QED BY <1>0, <1>1, <1>2, SubmissionLeads, Zenon

(* An approval makes a task done on the proven report of the newest run. *)
LEMMA ApprovalLeads ==
    ASSUME Counted, approve_task
    PROVE  /\ row' = [state |-> "done", attempts |-> row.attempts, held |-> FALSE]
           /\ run' = run
           /\ \E n \in Place : Newest(n) /\ Proof(run[n].report) = "proven"
<1>1. PICK n \in Place :
        /\ Newest(n)
        /\ Step("validated", "done", [Asked({"update_task"}) EXCEPT
                  !.report = Proof(run[n].report), !.approved = TRUE]).guard = ""
        /\ row' = [row EXCEPT !.held = FALSE, !.state =
              Step("validated", "done", [Asked({"update_task"}) EXCEPT
                  !.report = Proof(run[n].report), !.approved = TRUE]).state]
        /\ run' = run
  BY DEF approve_task
<1> DEFINE asked == [Asked({"update_task"}) EXCEPT !.report = Proof(run[n].report), !.approved = TRUE]
           approved == Step("validated", "done", asked)
<1>2. approved.state = "done"
  BY <1>1, StepLeads, Zenon
<1>3. asked.report = "proven"
  BY <1>1, DoneNeedsProof, Zenon
<1>4. asked.report = Proof(run[n].report)
  BY DEF Asked
<1>5. row' = [row EXCEPT !.held = FALSE, !.state = "done"]
  BY <1>1, <1>2, Zenon
<1>6. row' = [state |-> "done", attempts |-> row.attempts, held |-> FALSE]
  BY <1>5 DEF Counted
<1> QED BY <1>1, <1>3, <1>4, <1>6

LEMMA CompletionStep ==
    ASSUME CompletionInvariant, [CompletionNext]_completionVars
    PROVE  CompletionInvariant'
<1>0. Counted /\ RunsStand
  BY DEF CompletionInvariant
<1>1. ASSUME NEW state, claim(state)
      PROVE  CompletionInvariant'
  BY <1>0, <1>1, RunsKept DEF claim, Counted, CompletionInvariant
<1>2. ASSUME NEW body \in Submissions, submit_task(body)
      PROVE  CompletionInvariant'
  BY <1>2, SubmissionKeeps
<1>3. CASE approve_task
  BY <1>0, <1>3, ApprovalLeads, RunsKept DEF Counted, CompletionInvariant
<1>4. CASE reject_task
  <2>1. run' = run
    BY <1>4 DEF reject_task
  <2> QED BY <1>0, <1>4, <2>1, RejectionCounts, RunsKept DEF Counted, CompletionInvariant
<1>5. CASE reset_task
  BY <1>0, <1>5, RunsKept DEF reset_task, Counted, CompletionInvariant
<1>6. ASSUME NEW n \in Place, NEW report, create_runs(n, report) \/ patch_runs(n, report)
      PROVE  CompletionInvariant'
  <2>1. run' = [run EXCEPT ![n] = Reported(report)] /\ row' = row
    BY <1>6 DEF create_runs, patch_runs
  <2>2. RunsStand'
    BY <1>0, <2>1, RunPut, NoSubmissionVouches
  <2> QED BY <1>0, <2>1, <2>2 DEF Counted, CompletionInvariant
<1>7. ASSUME NEW n \in Place, delete_runs(n)
      PROVE  CompletionInvariant'
  <2>1. run' = [run EXCEPT ![n] = NoRun] /\ row' = row
    BY <1>7 DEF delete_runs
  <2>2. RunsStand'
    BY <1>0, <2>1, RunPut, NoSubmissionVouches
  <2> QED BY <1>0, <2>1, <2>2 DEF Counted, CompletionInvariant
<1>8. CASE row' = row /\ run' = run
  BY <1>0, <1>8, RunsKept DEF Counted, CompletionInvariant
<1> QED BY <1>1, <1>2, <1>3, <1>4, <1>5, <1>6, <1>7, <1>8
        DEF CompletionNext, completionVars, revise, attach, change

THEOREM CompletionHolds == CompletionSpec => []CompletionInvariant
  BY CompletionStarts, CompletionStep, PTL DEF CompletionSpec

(* What one step may do to make a task done. *)
FinishesProven == Finishes => row'.held \/ \E n \in Place : Grounds(n)

LEMMA FinishStep ==
    ASSUME CompletionInvariant, [CompletionNext]_completionVars
    PROVE  FinishesProven
<1>0. Counted /\ RunsStand
  BY DEF CompletionInvariant
<1>1. ASSUME NEW state, claim(state)
      PROVE  row'.held
  BY <1>0, <1>1 DEF claim, Counted
<1>2. ASSUME NEW body \in Submissions, submit_task(body), row'.state = "done"
      PROVE  \E n \in Place : Grounds(n)
  <2>1. ~(record_task_failure /\ run' = run)
    BY <1>0, <1>2, FailureCounts
  <2>2. /\ \E n \in Place : run[n] = NoRun /\ run' = [run EXCEPT ![n] = Made(body)]
        /\ validate_submission(TaskType, contract, body, world).errors = {}
        /\ Proof(Made(body).report) = "proven"
    BY <1>0, <1>2, <2>1, SubmissionLeads
  <2>3. PICK n \in Place : run[n] = NoRun /\ run' = [run EXCEPT ![n] = Made(body)]
    BY <2>2
  <2>4. PICK made : made = Made(body)
    OBVIOUS
  <2>5. made.by = "submission" /\ Proves(made)
    BY <2>2, <2>4, MadeVouches, Zenon
  <2>6. run'[n] = made
    BY <1>0, <2>3, <2>4 DEF RunsStand
  <2> QED BY <2>3, <2>5, <2>6 DEF Grounds
<1>3. CASE approve_task
  <2>1. PICK n \in Place : Newest(n) /\ Proof(run[n].report) = "proven"
    BY <1>0, <1>3, ApprovalLeads
  <2>2. PICK r : r = run[n]
    OBVIOUS
  <2>3. Vouches(r)
    BY <1>0, <2>2 DEF RunsStand
  <2>4. Proof(r.report) = "proven"
    BY <2>1, <2>2
  <2>5. r.by = "submission" => Proves(r)
    BY <2>3, <2>4 DEF Vouches
  <2>6. Grounds(n)
    BY <2>1, <2>2, <2>5 DEF Grounds
  <2> QED BY <2>6 DEF FinishesProven
<1>4. CASE reject_task
  BY <1>0, <1>4, RejectionCounts DEF FinishesProven, Finishes
<1>5. CASE reset_task
  BY <1>5 DEF reset_task, FinishesProven, Finishes
<1>6. CASE row' = row
  BY <1>6 DEF FinishesProven, Finishes
<1> QED BY <1>1, <1>2, <1>3, <1>4, <1>5, <1>6
        DEF CompletionNext, completionVars, create_runs, patch_runs, delete_runs, revise, attach,
            change, FinishesProven, Finishes

(* A task becomes done on a run that proves its contract as it was when the *)
(* run was submitted, whatever contracts, policies, checks, files and       *)
(* bodies there are, and whatever claims, runs and rewritings of runs came  *)
(* in between: what the validator, the report and the guard of the          *)
(* transition to done ask for together is enough, unless a claim itself     *)
(* names the state, or a client wrote the newest run (task_actions.py with  *)
(* validator.py and dod.py).                                                *)
THEOREM DoneTasksAreProven == CompletionSpec => DoneIsProven
<1>1. CompletionInvariant /\ [CompletionNext]_completionVars => [FinishesProven]_completionVars
  BY FinishStep
<1> QED BY <1>1, CompletionHolds, PTL DEF CompletionSpec, DoneIsProven, FinishesProven

(* What one step may do to state and attempts. *)
AttemptCounts ==
    row.state # row'.state /\ row'.state \in {"queued", "dlq"} =>
      \/ row' = [state |-> "queued", attempts |-> 0, held |-> FALSE]
      \/ row'.held /\ row'.attempts = row.attempts
      \/ /\ row'.attempts = row.attempts + 1
         /\ (row'.state = "dlq") <=> (Effective.max_retries <= row'.attempts)

LEMMA AttemptsStep ==
    ASSUME CompletionInvariant, [CompletionNext]_completionVars
    PROVE  [AttemptCounts]_completionVars
<1>0. Counted
  BY DEF CompletionInvariant
<1>1. ASSUME NEW state, claim(state)
      PROVE  AttemptCounts
  BY <1>0, <1>1 DEF claim, Counted, AttemptCounts
<1>2. ASSUME NEW body \in Submissions, submit_task(body)
      PROVE  AttemptCounts
  BY <1>0, <1>2, SubmissionLeads, FailureCounts DEF AttemptCounts
<1>3. CASE approve_task
  BY <1>0, <1>3, ApprovalLeads DEF AttemptCounts
<1>4. CASE reject_task
  BY <1>0, <1>4, RejectionCounts DEF AttemptCounts
<1>5. CASE reset_task
  BY <1>5 DEF reset_task, AttemptCounts
<1>6. CASE row' = row
  BY <1>6 DEF AttemptCounts
<1> QED BY <1>1, <1>2, <1>3, <1>4, <1>5, <1>6
       DEF CompletionNext, completionVars, create_runs, patch_runs, delete_runs, revise, attach, change

(* A failed or rejected attempt counts once, and the task is given up       *)
(* exactly when the policy in effect leaves it no attempt, on both paths    *)
(* and for every policy: _record_task_failure and reject_task.              *)
THEOREM AttemptsAreSpent == CompletionSpec => DeadLettersAreSpent
<1>1. CompletionInvariant /\ [CompletionNext]_completionVars => [AttemptCounts]_completionVars
  BY AttemptsStep
<1> QED BY <1>1, CompletionHolds, PTL DEF CompletionSpec, DeadLettersAreSpent, AttemptCounts

-----------------------------------------------------------------------------
(* RequestPath: the token bucket *)

(* What a call knows of its request, from its beginning to its answer. *)
IsCall(c) ==
    c = [step |-> c.step, actor |-> c.actor, body |-> c.body,
         chunk |-> c.chunk, size |-> c.size, passed |-> c.passed]

(* A bucket has been filled at some time up to now, to its burst at most. *)
Buckets == {{}} \cup {{[tokens |-> n, updated_at |-> u]} : n \in 0..Burst, u \in 0..clock}

PathTyped ==
    /\ clock \in Nat
    /\ bucket \in [Caller -> Buckets]
    /\ admitted \in [Caller -> Seq(Nat)]
    /\ told \in [Caller -> SUBSET Nat]

(* What requests since time t have taken, with what is left of a bucket, is *)
(* no more than the burst and the refill since.                             *)
Spent(times, b) ==
    \A i \in DOMAIN times :
      /\ times[i] <= b.updated_at
      /\ (Len(times) - i + 1) * Cost + b.tokens <= Burst + (b.updated_at - times[i]) * Rate

Within(times) ==
    \A i, j \in DOMAIN times : i <= j => (j - i + 1) * Cost <= Burst + (times[j] - times[i]) * Rate

(* Whoever was told to wait will find a token, even uncapped. *)
Promised(times, b) == \A t \in times : b.tokens + (t - b.updated_at) * Rate >= Cost

BucketsHold ==
    \A a \in Caller :
      /\ Within(admitted[a])
      /\ bucket[a] = {} => admitted[a] = <<>> /\ told[a] = {}
      /\ \A b \in bucket[a] : Spent(admitted[a], b) /\ Promised(told[a], b)

(* Time spans add up, and more time brings no less. *)
LEMMA Spans ==
    \A x, y, z \in Int : (x - y) * Rate + (y - z) * Rate = (x - z) * Rate
<1>1. Rate \in Nat
  BY RateAssumption
<1> QED BY <1>1

LEMMA MoreTime ==
    \A x, y \in Int : x <= y => x * Rate <= y * Rate /\ x * Rate \in Int
<1>1. Rate \in Nat
  BY RateAssumption
<1> QED BY <1>1

(* Retry-After is long enough for what is missing. *)
LEMMA WaitSuffices ==
    ASSUME NEW tokens \in Nat, tokens < Cost
    PROVE  /\ retry_after(tokens) * TicksPerSecond \in Nat
           /\ tokens + (retry_after(tokens) * TicksPerSecond) * Rate >= Cost
<1> DEFINE n == Cost - tokens
           d == Rate * TicksPerSecond
           seconds == CeilDiv(n, d)
           wait == retry_after(tokens)
<1>1. /\ n \in Nat \ {0} /\ Rate \in Nat \ {0} /\ TicksPerSecond \in Nat \ {0}
      /\ Cost \in Nat
  BY RateAssumption
<1>2. d \in Nat \ {0}
  BY <1>1
<1>3. seconds \in Nat /\ seconds * d >= n
  <2> HIDE DEF n, d
  <2> QED BY <1>1, <1>2 DEF CeilDiv
<1>4. wait \in Nat /\ wait >= seconds
  <2> HIDE DEF seconds
  <2>1. wait = IF seconds > 1 THEN seconds ELSE 1
    BY DEF retry_after, seconds
  <2> QED BY <1>3, <2>1
<1>5. wait * d >= n
  <2> HIDE DEF n, d, seconds, wait
  <2> QED BY <1>1, <1>2, <1>3, <1>4
<1>6. (wait * TicksPerSecond) * Rate = wait * d
  <2> HIDE DEF wait
  <2> QED BY <1>1, <1>4
<1>7. wait * TicksPerSecond \in Nat
  <2> HIDE DEF wait
  <2> QED BY <1>1, <1>4
<1> HIDE DEF wait, d
<1> QED BY <1>1, <1>5, <1>6, <1>7 DEF wait

(* The bucket as the next request finds it: the old one with its refill, up *)
(* to the burst.                                                            *)
RefilledNow(a) == [tokens |-> refilled(a), updated_at |-> clock]

LEMMA RefilledIs ==
    ASSUME PathTyped, NEW a \in Caller
    PROVE  /\ refilled(a) \in 0..Burst /\ clock \in Nat
           /\ bucket[a] = {} => refilled(a) = Burst
           /\ \A b \in bucket[a] :
                /\ b.tokens \in 0..Burst /\ b.updated_at \in 0..clock
                /\ b.tokens + (clock - b.updated_at) * Rate \in Nat
                /\ refilled(a) = IF b.tokens + (clock - b.updated_at) * Rate < Burst
                                   THEN b.tokens + (clock - b.updated_at) * Rate ELSE Burst
<1>1. Rate \in Nat /\ Burst \in Nat /\ clock \in Nat /\ bucket[a] \in Buckets
  BY RateAssumption DEF PathTyped
<1>2. CASE bucket[a] = {}
  BY <1>1, <1>2 DEF refilled
<1>3. CASE bucket[a] # {}
  <2>1. PICK n \in 0..Burst, u \in 0..clock : bucket[a] = {[tokens |-> n, updated_at |-> u]}
    BY <1>1, <1>3 DEF Buckets
  <2>2. PICK full : full = n + (clock - u) * Rate
    OBVIOUS
  <2>3. full \in Nat
    <3>1. clock - u \in Nat
      BY <1>1
    <3>2. (clock - u) * Rate \in Nat
      BY <1>1, <3>1
    <3> QED BY <1>1, <2>2, <3>2
  <2>4. {b.tokens + (clock - b.updated_at) * Rate : b \in bucket[a]} = {full}
    BY <2>1, <2>2
  <2>5. refilled(a) = IF full < Burst THEN full ELSE Burst
    <3>1. CASE full < Burst
      <4>1. {k \in {full} : k < Burst} = {full}
        BY <3>1
      <4> QED BY <2>4, <3>1, <4>1 DEF refilled
    <3>2. CASE ~(full < Burst)
      <4>1. {k \in {full} : k < Burst} = {}
        BY <3>2
      <4> QED BY <2>4, <3>2, <4>1 DEF refilled
    <3> QED BY <3>1, <3>2
  <2>6. \A b \in bucket[a] : b.tokens = n /\ b.updated_at = u
    BY <2>1
  <2>7. refilled(a) \in 0..Burst
    BY <1>1, <2>3, <2>5
  <2> QED BY <1>1, <1>3, <2>2, <2>3, <2>5, <2>6, <2>7
<1> QED BY <1>2, <1>3

(* What was spent is covered by the refill as well. *)
LEMMA SpentByNow ==
    ASSUME PathTyped, BucketsHold, NEW a \in Caller
    PROVE  Spent(admitted[a], RefilledNow(a))
<1>1. /\ Rate \in Nat /\ Cost \in Nat /\ Burst \in Nat /\ clock \in Nat
      /\ admitted[a] \in Seq(Nat)
  BY RateAssumption DEF PathTyped
<1>2. CASE bucket[a] = {}
  <2>1. admitted[a] = <<>>
    BY <1>2 DEF BucketsHold
  <2> QED BY <2>1 DEF Spent
<1>3. ASSUME NEW b \in bucket[a], NEW i \in DOMAIN admitted[a]
      PROVE  /\ admitted[a][i] <= clock
             /\ (Len(admitted[a]) - i + 1) * Cost + refilled(a)
                  <= Burst + (clock - admitted[a][i]) * Rate
  <2> DEFINE t == admitted[a][i]
             taken == (Len(admitted[a]) - i + 1) * Cost
             since == (b.updated_at - t) * Rate
             refill == (clock - b.updated_at) * Rate
  <2>1. t \in Nat /\ i \in Nat /\ Len(admitted[a]) \in Nat
    BY <1>1, ElementOfSeq, LenProperties
  <2>0. PICK full : full = b.tokens + refill
    OBVIOUS
  <2>2. /\ b.updated_at \in 0..clock /\ b.tokens \in Nat /\ full = b.tokens + refill
        /\ refilled(a) \in Nat /\ refilled(a) <= full /\ refill \in Int /\ full \in Nat
    <3>1. /\ b.updated_at \in 0..clock /\ b.tokens \in 0..Burst
          /\ full \in Nat /\ refilled(a) = IF full < Burst THEN full ELSE Burst
      BY <2>0, RefilledIs
    <3>2. clock - b.updated_at \in Int
      BY <1>1, <3>1
    <3>3. refill \in Int
      BY <1>1, <3>2
    <3> HIDE DEF refill
    <3> QED BY <1>1, <2>0, <3>1, <3>3
  <2>3. t <= b.updated_at /\ taken + b.tokens <= Burst + since
    BY <1>3 DEF BucketsHold, Spent
  <2>4. refill + since = (clock - t) * Rate
    <3>1. clock \in Int /\ b.updated_at \in Int /\ t \in Int
      <4> HIDE DEF t, refill
      <4> QED BY <1>1, <2>1, <2>2
    <3> HIDE DEF t
    <3> QED BY <3>1, Spans
  <2>5. since \in Int /\ taken \in Int
    <3>1. b.updated_at - t \in Int /\ Len(admitted[a]) - i + 1 \in Int
      <4> HIDE DEF t, refill
      <4> QED BY <1>1, <2>1, <2>2
    <3> HIDE DEF t
    <3> QED BY <1>1, <3>1
  <2>6. t <= clock
    <3> HIDE DEF t, taken, since, refill
    <3> QED BY <1>1, <2>1, <2>2, <2>3
  <2>7. taken + refilled(a) <= Burst + (refill + since)
    <3>1. Burst \in Int /\ b.tokens \in Int /\ refilled(a) <= b.tokens + refill
      BY <1>1, <2>2
    <3> HIDE DEF t, taken, since, refill
    <3> QED BY <2>2, <2>3, <2>5, <3>1
  <2> HIDE DEF taken, refill, since
  <2> QED BY <2>4, <2>6, <2>7 DEF taken
<1>4. CASE bucket[a] # {}
  BY <1>3, <1>4 DEF Spent, RefilledNow
<1> QED BY <1>2, <1>4

(* One more request keeps the rate. *)
LEMMA OneMoreWithin ==
    ASSUME NEW times \in Seq(Nat), NEW now \in Nat, NEW level \in 0..Burst, Cost <= level,
           Spent(times, [tokens |-> level, updated_at |-> now]), Within(times)
    PROVE  /\ Within(Append(times, now))
           /\ Spent(Append(times, now), [tokens |-> level - Cost, updated_at |-> now])
<1> DEFINE n == Len(times)
           more == Append(times, now)
<1>1. /\ Rate \in Nat /\ Cost \in Nat /\ Burst \in Nat /\ n \in Nat /\ DOMAIN times = 1..n
      /\ \A i \in 1..n : times[i] \in Nat
  BY RateAssumption, LenProperties, ElementOfSeq
<1>2. /\ Len(more) = n + 1 /\ DOMAIN more = 1..(n + 1) /\ more[n + 1] = now
      /\ \A i \in 1..n : more[i] = times[i]
  BY AppendProperties
<1>3. ASSUME NEW i \in 1..n
      PROVE  /\ times[i] <= now
             /\ (n - i + 1) * Cost + level <= Burst + (now - times[i]) * Rate
  BY <1>1 DEF Spent
<1>4. ASSUME NEW i \in 1..(n + 1)
      PROVE  /\ more[i] \in Nat /\ more[i] <= now
             /\ ((n + 1) - i + 1) * Cost + (level - Cost) <= Burst + (now - more[i]) * Rate
  <2>1. CASE i = n + 1
    <3>1. more[i] = now /\ (now - now) * Rate = 0 /\ ((n + 1) - i + 1) * Cost = Cost
      BY <1>1, <1>2, <2>1
    <3> HIDE DEF more
    <3> QED BY <1>1, <3>1
  <2>2. CASE i # n + 1
    <3>1. i \in 1..n /\ more[i] = times[i]
      BY <1>1, <1>2, <2>2
    <3>2. ((n + 1) - i + 1) * Cost = (n - i + 1) * Cost + Cost
      BY <1>1, <3>1
    <3>3. (now - times[i]) * Rate \in Int /\ (n - i + 1) * Cost \in Int
      BY <1>1, <3>1
    <3> HIDE DEF more, n
    <3> QED BY <1>1, <1>3, <3>1, <3>2, <3>3
  <2> QED BY <2>1, <2>2
<1>5. ASSUME NEW i \in 1..(n + 1), NEW j \in 1..(n + 1), i <= j
      PROVE  (j - i + 1) * Cost <= Burst + (more[j] - more[i]) * Rate
  <2>1. CASE j = n + 1
    <3>1. ((n + 1) - i + 1) * Cost \in Int /\ (now - more[i]) * Rate \in Int
      BY <1>1, <1>4
    <3>2. ((n + 1) - i + 1) * Cost <= Burst + (now - more[i]) * Rate
      <4>1. PICK x, y : x = ((n + 1) - i + 1) * Cost /\ y = (now - more[i]) * Rate
        OBVIOUS
      <4>2. x \in Int /\ y \in Int /\ x + (level - Cost) <= Burst + y
        <5> HIDE DEF more, n
        <5> QED BY <1>4, <3>1, <4>1
      <4>3. level - Cost \in Nat /\ Burst \in Nat
        BY <1>1
      <4>4. x <= Burst + y
        BY <4>2, <4>3
      <4> HIDE DEF more, n
      <4> QED BY <4>1, <4>4
    <3> HIDE DEF more, n
    <3> QED BY <1>2, <2>1, <3>2
  <2>2. CASE j # n + 1
    <3>1. i \in 1..n /\ j \in 1..n /\ more[i] = times[i] /\ more[j] = times[j]
      BY <1>1, <1>2, <1>5, <2>2
    <3> HIDE DEF more
    <3> QED BY <1>1, <1>5, <3>1 DEF Within
  <2> QED BY <2>1, <2>2
<1> HIDE DEF more, n
<1> QED BY <1>2, <1>4, <1>5 DEF Within, Spent, more, n

-----------------------------------------------------------------------------
(* RequestPath: chunks *)

(* The sums of a body's chunks are what their definition says. *)
LEMMA SumsLead ==
    ASSUME NEW chunks \in Seq(Nat)
    PROVE  /\ Sums(chunks) \in [0..Len(chunks) -> Nat] /\ Sums(chunks)[0] = 0
           /\ \A k \in 1..Len(chunks) : Sums(chunks)[k] = Sums(chunks)[k - 1] + chunks[k]
<1> DEFINE last == Len(chunks)
           step == [k \in 1..last |-> [n \in Nat |-> n + chunks[k]]]
           Equation(g) == g = [k \in 0..last |-> IF k = 0 THEN 0 ELSE g[k - 1] + chunks[k]]
<1>1. last \in Nat /\ \A k \in 1..last : chunks[k] \in Nat
  BY LenProperties, ElementOfSeq
<1>2. step \in [1..last -> [Nat -> Nat]]
  <2> HIDE DEF last
  <2> QED BY <1>1
<1>a. PICK g : Iterates(g, Nat, 0, last, step)
  <2>1. 0 \in Nat
    OBVIOUS
  <2> HIDE DEF last, step
  <2> QED BY <1>1, <1>2, <2>1, Iteration
<1>3. /\ g \in [0..last -> Nat] /\ g[0] = 0
      /\ \A k \in 1..last : g[k] = step[k][g[k - 1]]
  <2> HIDE DEF last, step
  <2> QED BY <1>a DEF Iterates
<1>4. ASSUME NEW k \in 1..last PROVE k - 1 \in 0..last /\ g[k] = g[k - 1] + chunks[k]
  <2>1. k - 1 \in 0..last
    BY <1>1
  <2>2. g[k - 1] \in Nat
    BY <1>3, <2>1
  <2> QED BY <1>3, <2>1, <2>2
<1>5. Equation(g)
  <2>1. ASSUME NEW k \in 0..last PROVE g[k] = IF k = 0 THEN 0 ELSE g[k - 1] + chunks[k]
    BY <1>1, <1>3, <1>4
  <2> HIDE DEF last
  <2> QED BY <1>3, <2>1
<1>6. Sums(chunks) = CHOOSE h : Equation(h)
  BY Zenon DEF Sums
<1>7. Equation(Sums(chunks))
  <2> HIDE DEF Equation
  <2> QED BY <1>5, <1>6
<1>8. PICK h : h = Sums(chunks) /\ h = [k \in 0..last |-> IF k = 0 THEN 0 ELSE h[k - 1] + chunks[k]]
  BY <1>7
<1>9. h[0] = 0 /\ \A k \in 1..last : h[k] = h[k - 1] + chunks[k]
  BY <1>1, <1>8
<1>10. \A k \in 0..last : h[k] = g[k]
  <2> DEFINE Off == {k \in 0..last : h[k] # g[k]}
  <2>1. SUFFICES ASSUME Off # {} PROVE FALSE
    OBVIOUS
  <2>2. Off \subseteq Nat
    OBVIOUS
  <2>3. PICK k \in Off : \A j \in Off : k <= j
    <3> HIDE DEF Off
    <3> QED BY <2>1, <2>2, LeastNat
  <2>4. k \in 1..last /\ k - 1 \in 0..last /\ ~(k <= k - 1)
    BY <1>1, <1>3, <1>9
  <2>5. h[k - 1] = g[k - 1]
    BY <2>3, <2>4
  <2> QED BY <1>4, <1>9, <2>4, <2>5
<1>11. DOMAIN h = 0..last /\ h = [k \in 0..last |-> h[k]]
  BY <1>8
<1>12. h \in [0..last -> Nat]
  <2> HIDE DEF last
  <2> QED BY <1>3, <1>10, <1>11
<1> QED BY <1>8, <1>9, <1>12
-----------------------------------------------------------------------------
(* RequestPath: the invariant *)

Depths(body) == \A d \in body.depth : d <= MaxDepth

(* What a handler gets of a body that is scanned. *)
Scanned(body, passed) ==
    /\ HardBlock /\ body.json =>
         \A s \in ToSet(body.strings) : might_contain_secret(s) => ~Secret(s)
    /\ \A k \in DOMAIN body.strings :
         /\ Outside(body.strings[k]) \subseteq {passed[k][n].at : n \in Text(passed[k])}
         /\ \A i, j \in Text(passed[k]) : i < j => passed[k][i].at < passed[k][j].at

(* What has been established of a request by the step it is at: the chunks  *)
(* received so far are summed up, and what comes after them has been        *)
(* measured; who is counted is a caller.                                    *)
Tracked(c) ==
    /\ IsCall(c) /\ c.body \in Sends
    /\ c.step \in {"allow", "scan", "handled"} => c.actor \in Caller
    /\ Limited(c.body) =>
         /\ c.step = "receive" =>
              /\ c.chunk \in 0..(Len(c.body.chunks) - 1)
              /\ c.size = Sums(c.body.chunks)[c.chunk] /\ c.size <= Limit
         /\ c.step \in {"authenticate", "allow", "scan", "handled"} =>
              Length(c.body) <= Limit /\ Depths(c.body)
         /\ c.step = "handled" => Scanned(c.body, c.passed)
    /\ ~Limited(c.body) => c.step # "receive"

CallsTracked ==
    /\ call = [r \in Call |-> call[r]]
    /\ \A r \in Call : call[r] = NoCall \/ Tracked(call[r])

PathInvariant == PathTyped /\ BucketsHold /\ CallsTracked

LEMMA CallTracked ==
    ASSUME CallsTracked, NEW r \in Call, NEW c, c = NoCall \/ Tracked(c),
           call' = [call EXCEPT ![r] = c]
    PROVE  CallsTracked'
<1>1. call' = [s \in Call |-> IF s = r THEN c ELSE call[s]]
  BY DEF CallsTracked
<1>2. \A s \in Call : call'[s] = NoCall \/ Tracked(call'[s])
  <2> HIDE DEF Tracked
  <2> QED BY <1>1 DEF CallsTracked
<1>3. \A s \in Call : call'[s] = IF s = r THEN c ELSE call[s]
  BY <1>1
<1>4. call' = [s \in Call |-> call'[s]]
  BY <1>1, <1>3
<1> QED BY <1>2, <1>4 DEF CallsTracked, Tracked, IsCall, Limited, Scanned, Depths, Length

LEMMA CallBegins ==
    ASSUME CallsTracked, NEW r \in Call, NEW a \in Sender, NEW body \in Sends, begin(r, a, body)
    PROVE  CallsTracked'
<1> DEFINE first == IF ~Limited(body) THEN "authenticate"
                    ELSE IF \E n \in body.declared : n > Limit THEN "413" ELSE "receive"
           c == [step |-> first, actor |-> a, body |-> body, chunk |-> 0, size |-> 0, passed |-> <<>>]
<1>1. call' = [call EXCEPT ![r] = c]
  BY DEF begin
<1>2. /\ c.step = first /\ c.body = body /\ c.chunk = 0 /\ c.size = 0 /\ IsCall(c)
      /\ first \in {"authenticate", "413", "receive"} /\ (first = "receive" => Limited(body))
      /\ (first = "authenticate" => ~Limited(body))
  BY DEF IsCall
<1>3. Limited(body) => /\ 0 \in 0..(Len(body.chunks) - 1)
                       /\ 0 = Sums(body.chunks)[0] /\ 0 <= Limit
  <2>1. ASSUME Limited(body)
        PROVE  body.chunks \in Seq(Nat) /\ body.chunks # <<>> /\ Limit \in Nat
    BY <2>1, SendsAssumption DEF Limited
  <2>2. ASSUME Limited(body) PROVE Len(body.chunks) \in Nat \ {0}
    BY <2>1, <2>2, LenProperties, EmptySeq
  <2>3. ASSUME Limited(body) PROVE 0 \in 0..(Len(body.chunks) - 1)
    BY <2>2, <2>3
  <2> QED BY <2>1, <2>3, SumsLead
<1>4. Tracked(c)
  <2> HIDE DEF c, first
  <2> QED BY <1>2, <1>3 DEF Tracked
<1> HIDE DEF c
<1> QED BY <1>1, <1>4, CallTracked

LEMMA CallMoves ==
    ASSUME CallsTracked, NEW r \in Call, call[r].step # "none", NEW step, To(r, step),
           \A c : /\ Tracked(call[r]) /\ IsCall(c)
                  /\ c.step = step /\ c.actor = call[r].actor /\ c.body = call[r].body
                  /\ c.chunk = call[r].chunk /\ c.size = call[r].size /\ c.passed = call[r].passed
                  => Tracked(c)
    PROVE  CallsTracked'
<1> DEFINE c == [call[r] EXCEPT !.step = step]
<1>1. Tracked(call[r]) /\ IsCall(call[r])
  BY DEF CallsTracked, NoCall, Tracked
<1>2. PICK old : old = call[r] /\ IsCall(old)
  BY <1>1
<1>3. /\ IsCall(c) /\ c.step = step /\ c.actor = call[r].actor /\ c.body = call[r].body
      /\ c.chunk = call[r].chunk /\ c.size = call[r].size /\ c.passed = call[r].passed
  BY <1>2 DEF IsCall
<1>4. Tracked(c)
  <2> HIDE DEF c
  <2> QED BY <1>1, <1>3
<1>5. call' = [call EXCEPT ![r] = c]
  BY DEF To
<1> HIDE DEF c
<1> QED BY <1>4, <1>5, CallTracked

(* A call with other fields than it had, field by field. *)
LEMMA CallUpdated ==
    ASSUME NEW o, IsCall(o), NEW chunk, NEW size, NEW step
    PROVE  [o EXCEPT !.chunk = chunk, !.size = size, !.step = step]
             = [step |-> step, actor |-> o.actor, body |-> o.body,
                chunk |-> chunk, size |-> size, passed |-> o.passed]
<1> DEFINE Of(t, a, b, k, n, p) ==
             [step |-> t, actor |-> a, body |-> b, chunk |-> k, size |-> n, passed |-> p]
<1>1. PICK t, a, b, k, n, p :
        /\ o = Of(t, a, b, k, n, p)
        /\ o.actor = a /\ o.body = b /\ o.passed = p
  <2>1. o = Of(o.step, o.actor, o.body, o.chunk, o.size, o.passed)
    BY Zenon DEF IsCall
  <2> HIDE DEF Of
  <2> QED BY <2>1
<1>2. [Of(t, a, b, k, n, p) EXCEPT !.chunk = chunk] = Of(t, a, b, chunk, n, p)
  OBVIOUS
<1>3. [Of(t, a, b, chunk, n, p) EXCEPT !.size = size] = Of(t, a, b, chunk, size, p)
  OBVIOUS
<1>4. [Of(t, a, b, chunk, size, p) EXCEPT !.step = step] = Of(step, a, b, chunk, size, p)
  OBVIOUS
<1>5. [o EXCEPT !.chunk = chunk, !.size = size, !.step = step]
        = [[[o EXCEPT !.chunk = chunk] EXCEPT !.size = size] EXCEPT !.step = step]
  OBVIOUS
<1> HIDE DEF Of
<1>6. [[[o EXCEPT !.chunk = chunk] EXCEPT !.size = size] EXCEPT !.step = step]
        = Of(step, a, b, chunk, size, p)
  BY <1>1, <1>2, <1>3, <1>4
<1> QED BY <1>1, <1>5, <1>6 DEF Of

LEMMA CallPassed ==
    ASSUME NEW o, IsCall(o), NEW step, NEW passed
    PROVE  [o EXCEPT !.step = step, !.passed = passed]
             = [step |-> step, actor |-> o.actor, body |-> o.body,
                chunk |-> o.chunk, size |-> o.size, passed |-> passed]
<1> DEFINE Of(t, a, b, k, n, p) ==
             [step |-> t, actor |-> a, body |-> b, chunk |-> k, size |-> n, passed |-> p]
<1>1. PICK t, a, b, k, n, p :
        /\ o = Of(t, a, b, k, n, p)
        /\ o.actor = a /\ o.body = b /\ o.chunk = k /\ o.size = n
  <2>1. o = Of(o.step, o.actor, o.body, o.chunk, o.size, o.passed)
    BY Zenon DEF IsCall
  <2> HIDE DEF Of
  <2> QED BY <2>1
<1>2. [Of(t, a, b, k, n, p) EXCEPT !.step = step] = Of(step, a, b, k, n, p)
  OBVIOUS
<1>3. [Of(step, a, b, k, n, p) EXCEPT !.passed = passed] = Of(step, a, b, k, n, passed)
  OBVIOUS
<1>4. [o EXCEPT !.step = step, !.passed = passed] = [[o EXCEPT !.step = step] EXCEPT !.passed = passed]
  OBVIOUS
<1> HIDE DEF Of
<1>5. [[o EXCEPT !.step = step] EXCEPT !.passed = passed] = Of(step, a, b, k, n, passed)
  BY <1>1, <1>2, <1>3
<1> QED BY <1>1, <1>4, <1>5 DEF Of

(* The next chunk is measured with all that came before it, and the last    *)
(* one completes the body.                                                  *)
LEMMA CallReceives ==
    ASSUME CallsTracked, NEW r \in Call, receive(r)
    PROVE  CallsTracked'
<1> DEFINE old == call[r]
           body == old.body
           k == old.chunk + 1
           size == old.size + body.chunks[k]
           next == IF size > Limit THEN "413"
                   ELSE IF k < Len(body.chunks) THEN "receive"
                   ELSE IF \E d \in body.depth : d > MaxDepth THEN "422"
                   ELSE "authenticate"
           c == [step |-> next, actor |-> old.actor, body |-> old.body,
                 chunk |-> k, size |-> size, passed |-> old.passed]
<1>1. Tracked(old) /\ old.step = "receive"
  <2>1. old.step = "receive"
    BY DEF receive
  <2> QED BY <2>1 DEF CallsTracked, NoCall
<1>2. /\ Limited(body) /\ old.chunk \in 0..(Len(body.chunks) - 1)
      /\ old.size = Sums(body.chunks)[old.chunk] /\ body \in Sends
  <2> HIDE DEF old
  <2> QED BY <1>1 DEF Tracked
<1>3. /\ body.chunks \in Seq(Nat) /\ Len(body.chunks) \in Nat /\ Limit \in Nat
      /\ MaxDepth \in Nat /\ body.depth \subseteq Nat
  <2>1. body.chunks \in Seq(Nat) /\ Limit \in Nat /\ MaxDepth \in Nat /\ body.depth \subseteq Nat
    <3> HIDE DEF old
    <3> QED BY <1>2, SendsAssumption
  <2> HIDE DEF old
  <2> QED BY <2>1, LenProperties
<1>4. /\ k \in 1..Len(body.chunks) /\ old.chunk = k - 1
      /\ Sums(body.chunks)[k] = Sums(body.chunks)[k - 1] + body.chunks[k]
      /\ Sums(body.chunks)[k] \in Nat /\ size = Sums(body.chunks)[k]
  <2>1. k \in 1..Len(body.chunks) /\ old.chunk = k - 1
    <3> HIDE DEF old
    <3> QED BY <1>2, <1>3
  <2>2. /\ Sums(body.chunks)[k] = Sums(body.chunks)[k - 1] + body.chunks[k]
        /\ Sums(body.chunks)[k] \in Nat
    <3>1. /\ Sums(body.chunks) \in [0..Len(body.chunks) -> Nat]
          /\ \A j \in 1..Len(body.chunks) :
               Sums(body.chunks)[j] = Sums(body.chunks)[j - 1] + body.chunks[j]
      <4> HIDE DEF body
      <4> QED BY <1>3, SumsLead
    <3>2. k \in 0..Len(body.chunks)
      <4> HIDE DEF body, k
      <4> QED BY <1>3, <2>1
    <3> HIDE DEF body, k
    <3> QED BY <2>1, <3>1, <3>2
  <2> HIDE DEF old, k
  <2> QED BY <1>2, <2>1, <2>2
<1>5. /\ IsCall(c) /\ c.step = next /\ c.actor = old.actor /\ c.body = body
      /\ c.chunk = k /\ c.size = size
  <2> HIDE DEF old, k, size, next
  <2> QED BY DEF IsCall
<1>6. /\ next \in {"413", "receive", "422", "authenticate"}
      /\ next = "receive" => size <= Limit /\ k \in 0..(Len(body.chunks) - 1)
      /\ next = "authenticate" => size <= Limit /\ Depths(body) /\ k = Len(body.chunks)
  <2> HIDE DEF old, body, k
  <2>1. size \in Nat
    BY <1>4
  <2> HIDE DEF size
  <2> QED BY <1>3, <1>4, <2>1 DEF Depths
<1>7. Tracked(c)
  <2> HIDE DEF old, body, k, size, next, c
  <2> QED BY <1>1, <1>2, <1>4, <1>5, <1>6 DEF Tracked, Length, body
<1>8. call' = [call EXCEPT ![r] = c]
  <2>1. IsCall(old)
    BY <1>1 DEF Tracked
  <2>2. [old EXCEPT !.chunk = k, !.size = size, !.step = next] = c
    <3> HIDE DEF old, k, size, next
    <3> QED BY <2>1, CallUpdated
  <2>3. call' = [call EXCEPT ![r] = [old EXCEPT !.chunk = k, !.size = size, !.step = next]]
    BY DEF receive
  <2> HIDE DEF c
  <2> QED BY <2>2, <2>3, Zenon
<1> HIDE DEF c
<1> QED BY <1>7, <1>8, CallTracked

LEMMA CallsKept ==
    ASSUME CallsTracked, NEW r \in Call, disconnect(r) \/ authenticate(r) \/ respond(r)
    PROVE  CallsTracked'
<1>1. CASE disconnect(r)
  <2>1. call[r].step # "none" /\ To(r, "gone")
    BY <1>1 DEF disconnect
  <2> QED BY <2>1, CallMoves DEF Tracked
<1>2. CASE authenticate(r)
  <2>1. call[r].step = "authenticate" /\ call[r].step # "none"
    BY <1>2 DEF authenticate
  <2>2. CASE call[r].actor \in Caller
    <3>1. To(r, "allow")
      BY <1>2, <2>2 DEF authenticate
    <3> QED BY <2>1, <2>2, <3>1, CallMoves DEF Tracked
  <2>3. CASE call[r].actor \notin Caller
    <3>1. To(r, "401")
      BY <1>2, <2>3 DEF authenticate
    <3> QED BY <2>1, <3>1, CallMoves DEF Tracked
  <2> QED BY <2>2, <2>3
<1>3. CASE respond(r)
  <2>1. call' = [call EXCEPT ![r] = NoCall]
    BY <1>3 DEF respond
  <2> QED BY <2>1, CallTracked
<1> QED BY <1>1, <1>2, <1>3

-----------------------------------------------------------------------------
(* Redaction: text and markers *)

Piece == [at : Nat, redacted : BOOLEAN]

InOrder(pieces) == \A i, j \in Text(pieces) : i < j => pieces[i].at < pieces[j].at
Positions(pieces) == {pieces[n].at : n \in Text(pieces)}

LEMMA PositionsAre ==
    ASSUME NEW pieces \in Seq(Piece)
    PROVE  Positions(pieces) \subseteq Nat
<1>1. \A n \in DOMAIN pieces : pieces[n] \in Piece
  BY LenProperties, ElementOfSeq
<1>2. \A piece \in Piece : piece.at \in Nat
  BY DEF Piece
<1> QED BY <1>1, <1>2 DEF Positions, Text

(* A stretch of text is its positions in order, a marker has none. *)
LEMMA KeptIs ==
    ASSUME NEW from \in Nat, NEW to \in Nat
    PROVE  /\ Kept(from, to) \in Seq(Piece) /\ InOrder(Kept(from, to))
           /\ Positions(Kept(from, to)) = from..(to - 1)
<1> DEFINE n == IF to > from THEN to - from ELSE 0
<1>1. n \in Nat
  OBVIOUS
<1>2. PICK kept : kept = Kept(from, to)
  OBVIOUS
<1>3. kept = [k \in 1..n |-> [at |-> from + k - 1, redacted |-> FALSE]]
  BY <1>2 DEF Kept
<1>4. DOMAIN kept = 1..n /\ \A k \in 1..n : kept[k] = [at |-> from + k - 1, redacted |-> FALSE]
  BY <1>3
<1>5. kept \in [1..n -> Piece]
  <2>1. ASSUME NEW k \in 1..n PROVE [at |-> from + k - 1, redacted |-> FALSE] \in Piece
    BY <1>1 DEF Piece
  <2> HIDE DEF n
  <2> QED BY <1>3, <2>1
<1>6. kept \in Seq(Piece)
  BY <1>1, <1>5, SeqDef
<1>7. Text(kept) = 1..n /\ \A k \in 1..n : kept[k].at = from + k - 1
  <2> HIDE DEF n
  <2> QED BY <1>4 DEF Text
<1>8. InOrder(kept)
  <2> HIDE DEF n
  <2> QED BY <1>1, <1>7 DEF InOrder
<1>9. Positions(kept) = from..(to - 1)
  <2>1. ASSUME NEW x \in from..(to - 1) PROVE \E k \in 1..n : x = from + k - 1
    <3>1. x - from + 1 \in 1..n /\ x = from + (x - from + 1) - 1
      OBVIOUS
    <3> HIDE DEF n
    <3> QED BY <3>1
  <2>2. ASSUME NEW k \in 1..n PROVE from + k - 1 \in from..(to - 1)
    OBVIOUS
  <2>3. Positions(kept) = {kept[k].at : k \in 1..n}
    <3> HIDE DEF n
    <3> QED BY <1>7 DEF Positions
  <2>4. \A x : x \in Positions(kept) <=> \E k \in 1..n : x = from + k - 1
    <3> HIDE DEF n
    <3> QED BY <1>7, <2>3
  <2>5. \A x \in Positions(kept) : x \in from..(to - 1)
    <3> HIDE DEF n
    <3> QED BY <2>2, <2>4
  <2>6. \A x \in from..(to - 1) : x \in Positions(kept)
    <3> HIDE DEF n
    <3> QED BY <2>1, <2>4
  <2> QED BY <2>5, <2>6, Zenon
<1> QED BY <1>2, <1>6, <1>8, <1>9

LEMMA MarkerIs ==
    ASSUME NEW m, m.start \in Nat
    PROVE  Marker(m) \in Seq(Piece) /\ Text(Marker(m)) = {}
<1>1. Marker(m) = <<[at |-> m.start, redacted |-> TRUE]>> /\ [at |-> m.start, redacted |-> TRUE] \in Piece
  BY DEF Marker, Piece
<1> QED BY <1>1 DEF Text

(* Text after text stays in order. *)
LEMMA Joined ==
    ASSUME NEW p \in Seq(Piece), NEW q \in Seq(Piece), InOrder(p), InOrder(q),
           \A x \in Positions(p), y \in Positions(q) : x < y
    PROVE  /\ p \o q \in Seq(Piece) /\ InOrder(p \o q)
           /\ Positions(p \o q) = Positions(p) \cup Positions(q)
<1>1. PICK pq : pq = p \o q
  OBVIOUS
<1>2. /\ Len(p) \in Nat /\ Len(q) \in Nat /\ DOMAIN p = 1..Len(p) /\ DOMAIN q = 1..Len(q)
      /\ pq \in Seq(Piece) /\ DOMAIN pq = 1..(Len(p) + Len(q))
  BY <1>1, LenProperties, ConcatProperties
<1>3. /\ \A n \in 1..Len(p) : pq[n] = p[n]
      /\ \A n \in 1..Len(q) : Len(p) + n \in 1..(Len(p) + Len(q)) /\ pq[Len(p) + n] = q[n]
  <2>1. /\ \A n \in 1..(Len(p) + Len(q)) : pq[n] = IF n <= Len(p) THEN p[n] ELSE q[n - Len(p)]
    BY <1>1, ConcatProperties
  <2>2. ASSUME NEW n \in 1..Len(q)
        PROVE  Len(p) + n \in 1..(Len(p) + Len(q)) /\ ~(Len(p) + n <= Len(p)) /\ (Len(p) + n) - Len(p) = n
    BY <1>2
  <2>3. ASSUME NEW n \in 1..Len(p) PROVE n \in 1..(Len(p) + Len(q)) /\ n <= Len(p)
    BY <1>2
  <2> QED BY <2>1, <2>2, <2>3
<1>4. /\ \A n \in Text(p) : n \in Text(pq) /\ pq[n] = p[n]
      /\ \A n \in Text(q) : Len(p) + n \in Text(pq) /\ pq[Len(p) + n] = q[n]
  BY <1>2, <1>3 DEF Text
<1>5. ASSUME NEW n \in Text(pq)
      PROVE  /\ n \in Nat
             /\ n <= Len(p) => n \in Text(p)
             /\ ~(n <= Len(p)) => n - Len(p) \in Text(q) /\ n = Len(p) + (n - Len(p))
  <2>1. n \in 1..(Len(p) + Len(q)) /\ ~pq[n].redacted
    BY <1>2 DEF Text
  <2>2. CASE n <= Len(p)
    <3>1. n \in 1..Len(p)
      BY <1>2, <2>1, <2>2
    <3> QED BY <1>2, <1>3, <2>1, <2>2, <3>1 DEF Text
  <2>3. CASE ~(n <= Len(p))
    <3>1. n - Len(p) \in 1..Len(q) /\ n = Len(p) + (n - Len(p))
      BY <1>2, <2>1, <2>3
    <3>2. pq[n] = q[n - Len(p)]
      BY <1>3, <3>1
    <3> QED BY <1>2, <2>1, <2>3, <3>1, <3>2 DEF Text
  <2> QED BY <2>2, <2>3
<1>6. ASSUME NEW i \in Text(pq), NEW j \in Text(pq), i < j PROVE pq[i].at < pq[j].at
  <2>1. CASE j <= Len(p)
    <3>1. i <= Len(p)
      BY <1>2, <1>5, <1>6, <2>1
    <3> QED BY <1>4, <1>5, <1>6, <2>1, <3>1 DEF InOrder
  <2>2. CASE ~(i <= Len(p))
    <3>1. ~(j <= Len(p)) /\ i - Len(p) < j - Len(p)
      BY <1>2, <1>5, <1>6, <2>2
    <3>2. /\ i - Len(p) \in Text(q) /\ pq[i] = q[i - Len(p)]
          /\ j - Len(p) \in Text(q) /\ pq[j] = q[j - Len(p)]
      BY <1>4, <1>5, <2>2, <3>1
    <3> QED BY <3>1, <3>2 DEF InOrder
  <2>3. CASE i <= Len(p) /\ ~(j <= Len(p))
    <3>1. /\ i \in Text(p) /\ pq[i] = p[i]
          /\ j - Len(p) \in Text(q) /\ pq[j] = q[j - Len(p)]
      BY <1>4, <1>5, <2>3
    <3> QED BY <3>1 DEF Positions
  <2> QED BY <2>1, <2>2, <2>3
<1>7. Positions(pq) = Positions(p) \cup Positions(q)
  <2>1. ASSUME NEW n \in Text(pq) PROVE pq[n].at \in Positions(p) \cup Positions(q)
    <3>1. CASE n <= Len(p)
      BY <1>4, <1>5, <3>1 DEF Positions
    <3>2. CASE ~(n <= Len(p))
      <4>1. n - Len(p) \in Text(q) /\ pq[n] = q[n - Len(p)]
        BY <1>4, <1>5, <3>2
      <4> QED BY <4>1 DEF Positions
    <3> QED BY <3>1, <3>2
  <2>2. Positions(pq) \subseteq Positions(p) \cup Positions(q)
    BY <2>1 DEF Positions
  <2>3. Positions(p) \subseteq Positions(pq)
    BY <1>4 DEF Positions
  <2>4. Positions(q) \subseteq Positions(pq)
    BY <1>4 DEF Positions
  <2> QED BY <2>2, <2>3, <2>4
<1> QED BY <1>1, <1>2, <1>6, <1>7 DEF InOrder

-----------------------------------------------------------------------------
(* Redaction: the matches one after another *)

(* Matches as the rules find them. *)
IsMatch(m) == m.start \in Nat /\ m.end \in Nat /\ m.start <= m.end /\ m.rule \in Nat
AreMatches(matches) ==
    /\ IsFiniteSet(matches) /\ \A m \in matches : IsMatch(m)
    /\ \A m, n \in matches : m.start = n.start /\ m.rule = n.rule => m = n

LEMMA NthIsMatch ==
    ASSUME NEW matches, AreMatches(matches)
    PROVE  /\ Cardinality(matches) \in Nat
           /\ \A n \in 1..Cardinality(matches) : Nth(matches, n) \in matches
<1> DEFINE before == [m \in matches |-> {p \in matches : Before(p, m)}]
<1>1. before \in [matches -> SUBSET matches] /\ IsFiniteSet(matches)
  BY DEF AreMatches
<1>2. \A m \in matches : m \notin before[m]
  BY DEF AreMatches, IsMatch, Before
<1>3. \A p, q, r \in matches : p \in before[q] /\ q \in before[r] => p \in before[r]
  BY DEF AreMatches, IsMatch, Before
<1>4. \A p, q \in matches : p = q \/ p \in before[q] \/ q \in before[p]
  BY DEF AreMatches, IsMatch, Before
<1>5. /\ Cardinality(matches) \in Nat
      /\ \A k \in 1..Cardinality(matches) : \E m \in matches : Cardinality(before[m]) = k - 1
  <2> HIDE DEF before
  <2> QED BY <1>1, <1>2, <1>3, <1>4, Line
<1>6. ASSUME NEW n \in 1..Cardinality(matches) PROVE Nth(matches, n) \in matches
  <2>1. \E m \in matches : Cardinality({p \in matches : Before(p, m)}) = n - 1
    BY <1>5
  <2> QED BY <2>1 DEF Nth
<1> QED BY <1>5, <1>6

Done == [cursor : Nat, pieces : Seq(Piece)]

(* What is done of a string: the text before the cursor, but for what lies  *)
(* in a match, and in order.                                                *)
Sound(matches, d) ==
    /\ InOrder(d.pieces) /\ \A x \in Positions(d.pieces) : x < d.cursor
    /\ \A k \in 0..(d.cursor - 1) :
         (\A m \in matches : k < m.start \/ k >= m.end) => k \in Positions(d.pieces)

LEMMA RedactLeads ==
    ASSUME NEW d \in Done, NEW m, IsMatch(m)
    PROVE  Redact(d, m) \in Done
<1>1. CASE m.start < d.cursor
  BY <1>1 DEF Redact
<1>2. CASE ~(m.start < d.cursor)
  <2>1. /\ d.cursor \in Nat /\ d.pieces \in Seq(Piece) /\ Kept(d.cursor, m.start) \in Seq(Piece)
        /\ Marker(m) \in Seq(Piece) /\ m.end \in Nat
    BY KeptIs, MarkerIs DEF Done, IsMatch
  <2>2. d.pieces \o Kept(d.cursor, m.start) \o Marker(m) \in Seq(Piece)
    BY <2>1, ConcatProperties
  <2>3. Redact(d, m) = [cursor |-> m.end, pieces |-> d.pieces \o Kept(d.cursor, m.start) \o Marker(m)]
    BY <1>2 DEF Redact
  <2> QED BY <2>1, <2>2, <2>3 DEF Done
<1> QED BY <1>1, <1>2

LEMMA RedactKeeps ==
    ASSUME NEW matches, NEW m \in matches, IsMatch(m), NEW d \in Done, Sound(matches, d)
    PROVE  Sound(matches, Redact(d, m))
<1>1. CASE m.start < d.cursor
  BY <1>1 DEF Redact
<1>2. CASE ~(m.start < d.cursor)
  <2>1. PICK kept, marker : kept = Kept(d.cursor, m.start) /\ marker = Marker(m)
    OBVIOUS
  <2>2. /\ d.cursor \in Nat /\ d.pieces \in Seq(Piece) /\ m.end \in Nat /\ m.start \in Nat
        /\ m.start <= m.end /\ d.cursor <= m.start
    BY <1>2 DEF Done, IsMatch
  <2>3. /\ kept \in Seq(Piece) /\ InOrder(kept) /\ Positions(kept) = d.cursor..(m.start - 1)
    BY <2>1, <2>2, KeptIs
  <2>4. /\ marker \in Seq(Piece) /\ InOrder(marker) /\ Positions(marker) = {}
    BY <2>1, <2>2, MarkerIs DEF InOrder, Positions
  <2>5. \A x \in Positions(d.pieces), y \in Positions(kept) : x < y
    <3>1. Positions(d.pieces) \subseteq Nat
      BY <2>2, PositionsAre
    <3> QED BY <2>2, <2>3, <3>1 DEF Sound
  <2>6. PICK p : p = d.pieces \o kept
    OBVIOUS
  <2>7. /\ p \in Seq(Piece) /\ InOrder(p)
        /\ Positions(p) = Positions(d.pieces) \cup (d.cursor..(m.start - 1))
    BY <2>2, <2>3, <2>5, <2>6, Joined DEF Sound
  <2>8. /\ InOrder(p \o marker)
        /\ Positions(p \o marker) = Positions(d.pieces) \cup (d.cursor..(m.start - 1))
    <3>1. \A x \in Positions(p), y \in Positions(marker) : x < y
      BY <2>4
    <3>2. InOrder(p \o marker) /\ Positions(p \o marker) = Positions(p) \cup Positions(marker)
      BY <2>4, <2>7, <3>1, Joined
    <3> QED BY <2>4, <2>7, <3>2
  <2>9. PICK whole : whole = p \o marker
    OBVIOUS
  <2>10. Redact(d, m) = [cursor |-> m.end, pieces |-> whole]
    BY <1>2, <2>1, <2>6, <2>9 DEF Redact
  <2>11. \A x \in Positions(whole) : x < m.end
    <3>1. Positions(d.pieces) \subseteq Nat
      BY <2>2, PositionsAre
    <3>2. \A x \in Positions(d.pieces) : x < d.cursor
      BY DEF Sound
    <3> QED BY <2>2, <2>8, <2>9, <3>1, <3>2
  <2>12. ASSUME NEW k \in 0..(m.end - 1), \A n \in matches : k < n.start \/ k >= n.end
         PROVE  k \in Positions(whole)
    <3>1. k < m.start
      BY <2>2, <2>12
    <3>2. CASE k < d.cursor
      <4>1. k \in 0..(d.cursor - 1)
        BY <2>2, <3>2
      <4> QED BY <2>8, <2>9, <2>12, <4>1 DEF Sound
    <3>3. CASE ~(k < d.cursor)
      BY <2>2, <2>8, <2>9, <3>1, <3>3
    <3> QED BY <3>2, <3>3
  <2> QED BY <2>8, <2>9, <2>10, <2>11, <2>12 DEF Sound
<1> QED BY <1>1, <1>2

(* All matches done, in the order of their starts. *)
LEMMA RedactionsAreDone ==
    ASSUME NEW value, value.length \in Nat, NEW matches, AreMatches(matches)
    PROVE  \E d \in Done :
             /\ Sound(matches, d)
             /\ apply_redactions(value, matches) = d.pieces \o Kept(d.cursor, value.length)
<1> DEFINE last == Cardinality(matches)
           none == [cursor |-> 0, pieces |-> <<>>]
           step == [n \in 1..last |-> [d \in Done |-> Redact(d, Nth(matches, n))]]
           Equation(h) == h = [n \in 0..last |-> IF n = 0 THEN none ELSE Redact(h[n - 1], Nth(matches, n))]
<1>1. /\ last \in Nat
      /\ \A n \in 1..last : Nth(matches, n) \in matches /\ IsMatch(Nth(matches, n))
  BY NthIsMatch DEF AreMatches
<1>2. none \in Done /\ Sound(matches, none)
  <2>1. none \in Done /\ none.cursor = 0 /\ none.pieces = <<>>
    BY DEF Done
  <2>2. InOrder(<<>>) /\ Positions(<<>>) = {}
    BY DEF InOrder, Positions, Text
  <2> HIDE DEF none
  <2> QED BY <2>1, <2>2 DEF Sound
<1>3. step \in [1..last -> [Done -> Done]]
  <2> HIDE DEF last
  <2> QED BY <1>1, RedactLeads
<1>4. PICK g : Iterates(g, Done, none, last, step)
  <2> HIDE DEF last, step, none
  <2> QED BY <1>1, <1>2, <1>3, Iteration
<1>5. /\ g \in [0..last -> Done] /\ g[0] = none
      /\ \A n \in 1..last : g[n] = step[n][g[n - 1]]
  <2> HIDE DEF last, step, none
  <2> QED BY <1>4 DEF Iterates
<1>6. ASSUME NEW n \in 1..last
      PROVE  n - 1 \in 0..last /\ g[n - 1] \in Done /\ g[n] = Redact(g[n - 1], Nth(matches, n))
  <2>1. n - 1 \in 0..last
    BY <1>1
  <2>2. g[n - 1] \in Done
    BY <1>5, <2>1
  <2> QED BY <1>5, <2>1, <2>2
<1>7. Equation(g)
  <2>1. ASSUME NEW n \in 0..last
        PROVE  g[n] = IF n = 0 THEN none ELSE Redact(g[n - 1], Nth(matches, n))
    BY <1>1, <1>5, <1>6
  <2> HIDE DEF last
  <2> QED BY <1>5, <2>1
<1>8. PICK h : /\ h = [n \in 0..last |-> IF n = 0 THEN none ELSE Redact(h[n - 1], Nth(matches, n))]
               /\ apply_redactions(value, matches) = h[last].pieces \o Kept(h[last].cursor, value.length)
  <2> DEFINE done == CHOOSE h : Equation(h)
  <2>1. Equation(done)
    <3> HIDE DEF Equation
    <3> QED BY <1>7
  <2>2. apply_redactions(value, matches) = done[last].pieces \o Kept(done[last].cursor, value.length)
    BY Zenon DEF apply_redactions
  <2> HIDE DEF done
  <2> QED BY <2>1, <2>2
<1>9. h[0] = none /\ \A n \in 1..last : h[n] = Redact(h[n - 1], Nth(matches, n))
  BY SMTT(30), <1>1, <1>8
<1> DEFINE Off == {n \in 0..last : ~(h[n] = g[n] /\ Sound(matches, g[n]))}
<1>10. Off = {}
  <2>1. SUFFICES ASSUME Off # {} PROVE FALSE
    OBVIOUS
  <2>2. Off \subseteq Nat
    OBVIOUS
  <2>3. PICK n \in Off : \A j \in Off : n <= j
    <3> HIDE DEF Off
    <3> QED BY <2>1, <2>2, LeastNat
  <2>4. n \in 1..last /\ n - 1 \in 0..last /\ ~(n <= n - 1)
    BY <1>1, <1>2, <1>5, <1>9
  <2>5. h[n - 1] = g[n - 1] /\ Sound(matches, g[n - 1])
    BY <2>3, <2>4
  <2>6. h[n] = g[n]
    BY <1>6, <1>9, <2>4, <2>5
  <2>7. Sound(matches, g[n])
    BY <1>1, <1>6, <2>4, <2>5, RedactKeeps
  <2> QED BY <2>6, <2>7
<1>11. last \in 0..last
  BY <1>1
<1>12. h[last] = g[last] /\ Sound(matches, g[last]) /\ g[last] \in Done
  BY <1>5, <1>10, <1>11
<1> QED BY <1>8, <1>12

(* Of a redacted string, what lies outside its matches is left, in order. *)
LEMMA RedactionsKeep ==
    ASSUME NEW value, value.length \in Nat, NEW matches, AreMatches(matches)
    PROVE  /\ InOrder(apply_redactions(value, matches))
           /\ \A k \in 0..(value.length - 1) :
                (\A m \in matches : k < m.start \/ k >= m.end)
                => k \in Positions(apply_redactions(value, matches))
<1>1. PICK d \in Done : /\ Sound(matches, d)
                        /\ apply_redactions(value, matches) = d.pieces \o Kept(d.cursor, value.length)
  BY RedactionsAreDone
<1>2. PICK rest : rest = Kept(d.cursor, value.length)
  OBVIOUS
<1>3. d.cursor \in Nat /\ d.pieces \in Seq(Piece) /\ Positions(d.pieces) \subseteq Nat
  BY PositionsAre DEF Done
<1>4. /\ rest \in Seq(Piece) /\ InOrder(rest) /\ Positions(rest) = d.cursor..(value.length - 1)
  BY <1>2, <1>3, KeptIs
<1>5. \A x \in Positions(d.pieces), y \in Positions(rest) : x < y
  BY <1>1, <1>3, <1>4 DEF Sound
<1>6. PICK whole : whole = d.pieces \o rest
  OBVIOUS
<1>7. InOrder(whole) /\ Positions(whole) = Positions(d.pieces) \cup (d.cursor..(value.length - 1))
  <2>1. InOrder(d.pieces)
    BY <1>1 DEF Sound
  <2> QED BY <1>3, <1>4, <1>5, <1>6, <2>1, Joined
<1>8. ASSUME NEW k \in 0..(value.length - 1), \A m \in matches : k < m.start \/ k >= m.end
      PROVE  k \in Positions(whole)
  <2>1. CASE k < d.cursor
    <3>1. k \in 0..(d.cursor - 1)
      BY <1>3, <2>1
    <3> QED BY <1>1, <1>7, <1>8, <3>1 DEF Sound
  <2>2. CASE ~(k < d.cursor)
    BY <1>3, <1>7, <2>2
  <2> QED BY <2>1, <2>2
<1> QED BY <1>1, <1>2, <1>6, <1>7, <1>8

(* What the scan finds in a string are matches, and between them all that   *)
(* lies outside the matches of the rules.                                   *)
LEMMA FoundAre ==
    ASSUME NEW body \in Sends, NEW k \in DOMAIN body.strings
    PROVE  /\ body.strings[k].length \in Nat
           /\ AreMatches(find_secret_matches(body.strings[k]))
           /\ \A x \in Outside(body.strings[k]) :
                /\ x \in 0..(body.strings[k].length - 1)
                /\ \A m \in find_secret_matches(body.strings[k]) : x < m.start \/ x >= m.end
<1> DEFINE all == [start |-> 0, end |-> body.strings[k].length, rule |-> 0]
<1>1. PICK value : value = body.strings[k]
  OBVIOUS
<1>2. value.length \in Nat /\ AreMatches(value.matches)
  BY <1>1, SendsAssumption DEF AreMatches, IsMatch
<1>3. CASE find_secret_matches(value) = {}
  <2>1. AreMatches({})
    BY FS_EmptySet DEF AreMatches
  <2>2. \A x \in Outside(value) : x \in 0..(value.length - 1)
    BY DEF Outside
  <2> QED BY <1>1, <1>2, <1>3, <2>1, <2>2
<1>4. CASE find_secret_matches(value) = value.matches
  <2>1. \A x \in Outside(value) :
          x \in 0..(value.length - 1) /\ \A m \in value.matches : x < m.start \/ x >= m.end
    BY DEF Outside
  <2> QED BY <1>1, <1>2, <1>4, <2>1
<1>5. CASE find_secret_matches(value) = {all} /\ value.matches = {} /\ looks_random(value)
  <2>1. AreMatches({all})
    <3>1. IsMatch(all)
      BY <1>1, <1>2 DEF IsMatch
    <3>2. IsFiniteSet({all})
      BY FS_Singleton
    <3> HIDE DEF all
    <3> QED BY <3>1, <3>2 DEF AreMatches
  <2>2. Outside(value) = {}
    BY <1>5 DEF Outside
  <2> QED BY <1>1, <1>2, <1>5, <2>1, <2>2
<1> QED BY <1>1, <1>3, <1>4, <1>5 DEF find_secret_matches

LEMMA StringsPass ==
    ASSUME NEW body \in Sends, NEW k \in DOMAIN body.strings, NEW passed,
           passed = sanitized(body.strings) \/ passed = Verbatim(body.strings)
    PROVE  Outside(body.strings[k]) \subseteq Positions(passed[k]) /\ InOrder(passed[k])
<1>1. PICK value : value = body.strings[k]
  OBVIOUS
<1>2. PICK matches : matches = find_secret_matches(value)
  OBVIOUS
<1>3. /\ value.length \in Nat /\ AreMatches(matches)
      /\ \A x \in Outside(value) :
           x \in 0..(value.length - 1) /\ \A m \in matches : x < m.start \/ x >= m.end
  BY <1>1, <1>2, FoundAre
<1>4. CASE passed = sanitized(body.strings)
  <2>1. passed[k] = apply_redactions(value, matches)
    BY <1>1, <1>2, <1>4 DEF sanitized
  <2>2. PICK whole : whole = apply_redactions(value, matches)
    OBVIOUS
  <2>3. /\ InOrder(whole)
        /\ \A x \in 0..(value.length - 1) :
             (\A m \in matches : x < m.start \/ x >= m.end) => x \in Positions(whole)
    BY <1>3, <2>2, RedactionsKeep
  <2> QED BY <1>1, <1>3, <2>1, <2>2, <2>3
<1>5. CASE passed = Verbatim(body.strings)
  <2>1. passed[k] = Kept(0, value.length)
    BY <1>1, <1>5 DEF Verbatim
  <2>2. InOrder(passed[k]) /\ Positions(passed[k]) = 0..(value.length - 1)
    BY <1>3, <2>1, KeptIs
  <2> QED BY <1>1, <1>3, <2>2
<1> QED BY <1>4, <1>5

(* Where nothing is found, no string that is tried holds a secret. *)
LEMMA NothingFound ==
    ASSUME NEW strings, Secrets(strings) = {}
    PROVE  \A s \in ToSet(strings) : might_contain_secret(s) => ~Secret(s)
<1>1. SUFFICES ASSUME NEW k \in DOMAIN strings, might_contain_secret(strings[k])
               PROVE  ~Secret(strings[k])
  BY DEF ToSet
<1>2. find_secret_matches(strings[k]) = {}
  BY DEF Secrets
<1> QED BY <1>1, <1>2 DEF find_secret_matches, Secret

LEMMA CallScans ==
    ASSUME CallsTracked, NEW r \in Call, scan(r)
    PROVE  CallsTracked'
<1> DEFINE old == call[r]
           body == old.body
           found == body.json /\ Limited(body) /\ Secrets(body.strings) # {}
           next == IF found /\ HardBlock THEN "400" ELSE "handled"
           passed == IF found THEN sanitized(body.strings) ELSE Verbatim(body.strings)
           c == [step |-> next, actor |-> old.actor, body |-> old.body,
                 chunk |-> old.chunk, size |-> old.size, passed |-> passed]
<1>1. Tracked(old) /\ old.step = "scan"
  <2>1. old.step = "scan"
    BY DEF scan
  <2> QED BY <2>1 DEF CallsTracked, NoCall
<1>2. /\ body \in Sends /\ old.actor \in Caller
      /\ Limited(body) => Length(body) <= Limit /\ Depths(body)
  <2> HIDE DEF old
  <2> QED BY <1>1 DEF Tracked
<1>3. \A k \in DOMAIN body.strings :
        Outside(body.strings[k]) \subseteq Positions(passed[k]) /\ InOrder(passed[k])
  <2>1. passed = sanitized(body.strings) \/ passed = Verbatim(body.strings)
    OBVIOUS
  <2> HIDE DEF body, passed
  <2> QED BY <1>2, <2>1, StringsPass
<1>4. ASSUME Limited(body), next = "handled" PROVE Scanned(body, passed)
  <2>1. HardBlock /\ body.json => Secrets(body.strings) = {}
    <3> HIDE DEF body, passed
    <3> QED BY <1>4
  <2>2. HardBlock /\ body.json =>
          \A s \in ToSet(body.strings) : might_contain_secret(s) => ~Secret(s)
    <3> HIDE DEF body
    <3> QED BY <2>1, NothingFound
  <2> HIDE DEF body, passed
  <2> QED BY <1>3, <2>2 DEF Scanned, InOrder, Positions
<1>5. /\ IsCall(c) /\ c.step = next /\ c.actor = old.actor /\ c.body = body /\ c.passed = passed
      /\ next \in {"400", "handled"}
  <2>1. next \in {"400", "handled"}
    OBVIOUS
  <2> HIDE DEF old, next, passed
  <2> QED BY <2>1 DEF IsCall
<1>6. Tracked(c)
  <2> HIDE DEF old, body, next, passed, c
  <2> QED BY <1>2, <1>4, <1>5 DEF Tracked
<1>7. call' = [call EXCEPT ![r] = c]
  <2>1. IsCall(old)
    BY <1>1 DEF Tracked
  <2>2. [old EXCEPT !.step = next, !.passed = passed] = c
    <3> HIDE DEF old, next, passed
    <3> QED BY <2>1, CallPassed
  <2>3. call' = [call EXCEPT ![r] = [old EXCEPT !.step = next, !.passed = passed]]
    BY DEF scan
  <2> HIDE DEF c
  <2> QED BY <2>2, <2>3, Zenon
<1> HIDE DEF c
<1> QED BY <1>6, <1>7, CallTracked

-----------------------------------------------------------------------------
(* RequestPath: the steps that count requests *)

LEMMA CallCounted ==
    ASSUME CallsTracked, NEW r \in Call, allow(r)
    PROVE  CallsTracked'
<1>1. call[r].step = "allow" /\ call[r].step # "none" /\ (To(r, "scan") \/ To(r, "429"))
  BY DEF allow
<1>2. CASE To(r, "scan")
  BY <1>1, <1>2, CallMoves DEF Tracked
<1>3. CASE To(r, "429")
  BY <1>1, <1>3, CallMoves DEF Tracked
<1> QED BY <1>1, <1>2, <1>3

(* Who was refused before waits no longer for being refused again. *)
LEMMA PromisesStand ==
    ASSUME PathTyped, BucketsHold, NEW a \in Caller, refilled(a) < Cost
    PROVE  Promised(told[a], RefilledNow(a))
<1>1. /\ Rate \in Nat /\ Cost \in Nat /\ Burst \in Nat /\ clock \in Nat /\ told[a] \subseteq Nat
      /\ Cost <= Burst /\ refilled(a) \in 0..Burst
  BY RateAssumption, RefilledIs DEF PathTyped
<1>2. CASE bucket[a] = {}
  <2>1. told[a] = {}
    BY <1>2 DEF BucketsHold
  <2> QED BY <2>1 DEF Promised
<1>3. ASSUME NEW b \in bucket[a], NEW t \in told[a]
      PROVE  refilled(a) + (t - clock) * Rate >= Cost
  <2>1. PICK full : full = b.tokens + (clock - b.updated_at) * Rate
    OBVIOUS
  <2>2. /\ b.tokens \in 0..Burst /\ b.updated_at \in 0..clock /\ full \in Nat
        /\ refilled(a) = IF full < Burst THEN full ELSE Burst
    BY <2>1, RefilledIs
  <2>3. refilled(a) = full
    BY <1>1, <2>2
  <2>4. b.tokens + (t - b.updated_at) * Rate >= Cost
    BY DEF BucketsHold, Promised
  <2>5. t \in Int /\ clock \in Int /\ b.updated_at \in Int
    BY <1>1, <2>2
  <2>6. (t - clock) * Rate + (clock - b.updated_at) * Rate = (t - b.updated_at) * Rate
    BY <2>5, Spans
  <2>7. PICK x, y, z : /\ x = (t - clock) * Rate /\ y = (clock - b.updated_at) * Rate
                       /\ z = (t - b.updated_at) * Rate
    OBVIOUS
  <2>8. x \in Int /\ y \in Int
    <3>1. t - clock \in Int /\ clock - b.updated_at \in Int
      BY <2>5
    <3> QED BY <2>7, <3>1, MoreTime
  <2>9. x + y = z /\ full = b.tokens + y /\ b.tokens + z >= Cost
    BY <2>1, <2>4, <2>6, <2>7
  <2>10. full + x >= Cost
    BY <1>1, <2>2, <2>8, <2>9
  <2> QED BY <2>3, <2>7, <2>10
<1>4. CASE bucket[a] # {}
  BY <1>3, <1>4 DEF Promised, RefilledNow
<1> QED BY <1>2, <1>4

(* Refused or admitted, the counts hold. *)
LEMMA AllowCounts ==
    ASSUME PathTyped, BucketsHold, CallsTracked, NEW r \in Call, allow(r)
    PROVE  PathTyped' /\ BucketsHold'
<1> DEFINE a == call[r].actor
           level == refilled(a)
           later == clock + retry_after(level) * TicksPerSecond
<1>1. call[r].step = "allow" /\ clock' = clock
  BY DEF allow
<1>2. a \in Caller
  <2>1. Tracked(call[r])
    BY <1>1 DEF CallsTracked, NoCall
  <2> QED BY <1>1, <2>1 DEF Tracked
<1>3. /\ clock \in Nat /\ level \in 0..Burst /\ Burst \in Nat /\ Cost \in Nat
      /\ bucket \in [Caller -> Buckets] /\ admitted \in [Caller -> Seq(Nat)]
      /\ told \in [Caller -> SUBSET Nat] /\ Buckets' = Buckets
  <2>1. level \in 0..Burst
    <3> HIDE DEF a
    <3> QED BY <1>2, RefilledIs
  <2>2. Buckets' = Buckets
    BY <1>1 DEF Buckets
  <2> HIDE DEF level
  <2> QED BY <2>1, <2>2, RateAssumption DEF PathTyped
<1>4. CASE UNCHANGED <<bucket, admitted, told>>
  BY <1>1, <1>3, <1>4 DEF PathTyped, BucketsHold
<1>5. ASSUME NEW b, b \in [tokens : 0..Burst, updated_at : {clock}],
             bucket' = [bucket EXCEPT ![a] = {b}],
             admitted' \in [Caller -> Seq(Nat)], told' \in [Caller -> SUBSET Nat],
             \A c \in Caller : c # a => admitted'[c] = admitted[c] /\ told'[c] = told[c],
             Within(admitted'[a]), Spent(admitted'[a], b), Promised(told'[a], b)
      PROVE  PathTyped' /\ BucketsHold'
  <2>1. {b} \in Buckets
    <3>1. PICK n \in 0..Burst : b = [tokens |-> n, updated_at |-> clock]
      BY <1>5
    <3>2. clock \in 0..clock
      BY <1>3
    <3> QED BY <3>1, <3>2 DEF Buckets
  <2>2. bucket' \in [Caller -> Buckets]
    <3> HIDE DEF a
    <3> QED BY <1>2, <1>3, <1>5, <2>1
  <2>3. bucket'[a] = {b} /\ \A c \in Caller : c # a => bucket'[c] = bucket[c]
    <3> HIDE DEF a
    <3> QED BY <1>2, <1>3, <1>5
  <2>4. ASSUME NEW c \in Caller
        PROVE  /\ Within(admitted'[c])
               /\ bucket'[c] = {} => admitted'[c] = <<>> /\ told'[c] = {}
               /\ \A d \in bucket'[c] : Spent(admitted'[c], d) /\ Promised(told'[c], d)
    <3> HIDE DEF a
    <3>1. CASE c = a
      BY <1>5, <2>3, <3>1
    <3>2. CASE c # a
      BY <1>5, <2>3, <3>2 DEF BucketsHold
    <3> QED BY <3>1, <3>2
  <2>5. PathTyped'
    BY <1>1, <1>3, <1>5, <2>2 DEF PathTyped
  <2> HIDE DEF a
  <2> QED BY <2>4, <2>5 DEF BucketsHold
<1>6. CASE /\ level >= Cost
           /\ bucket' = [bucket EXCEPT ![a] = {[tokens |-> level - Cost, updated_at |-> clock]}]
           /\ admitted' = [admitted EXCEPT ![a] = Append(@, clock)]
           /\ told' = [told EXCEPT ![a] = {}]
  <2>1. PICK b : b = [tokens |-> level - Cost, updated_at |-> clock]
    OBVIOUS
  <2>2. b \in [tokens : 0..Burst, updated_at : {clock}]
    <3>1. level - Cost \in 0..Burst
      <4> HIDE DEF level
      <4> QED BY <1>3, <1>6
    <3> HIDE DEF level
    <3> QED BY <2>1, <3>1
  <2>3. admitted[a] \in Seq(Nat) /\ Spent(admitted[a], [tokens |-> level, updated_at |-> clock])
        /\ Within(admitted[a])
    <3>1. Spent(admitted[a], RefilledNow(a))
      <4> HIDE DEF a
      <4> QED BY <1>2, SpentByNow
    <3>2. admitted[a] \in Seq(Nat) /\ Within(admitted[a])
      <4> HIDE DEF a
      <4> QED BY <1>2, <1>3 DEF BucketsHold
    <3> HIDE DEF a
    <3> QED BY <3>1, <3>2 DEF RefilledNow
  <2>4. /\ Within(Append(admitted[a], clock))
        /\ Spent(Append(admitted[a], clock), [tokens |-> level - Cost, updated_at |-> clock])
        /\ Append(admitted[a], clock) \in Seq(Nat)
    <3>1. Cost <= level
      <4> HIDE DEF level
      <4> QED BY <1>3, <1>6
    <3> HIDE DEF level, a
    <3> QED BY <1>3, <2>3, <3>1, OneMoreWithin, AppendProperties
  <2>5. /\ admitted' \in [Caller -> Seq(Nat)] /\ told' \in [Caller -> SUBSET Nat]
        /\ admitted'[a] = Append(admitted[a], clock) /\ told'[a] = {}
        /\ \A c \in Caller : c # a => admitted'[c] = admitted[c] /\ told'[c] = told[c]
    <3> HIDE DEF a
    <3> QED BY <1>2, <1>3, <1>6, <2>4
  <2>6. Promised(told'[a], b)
    BY <2>5 DEF Promised
  <2>7. Within(admitted'[a]) /\ Spent(admitted'[a], b)
    <3> HIDE DEF level, a
    <3> QED BY <2>1, <2>4, <2>5
  <2>8. bucket' = [bucket EXCEPT ![a] = {b}]
    BY <1>6, <2>1
  <2> HIDE DEF a, level
  <2> QED BY <1>5, <2>2, <2>5, <2>6, <2>7, <2>8
<1>7. CASE /\ ~(level >= Cost)
           /\ bucket' = [bucket EXCEPT ![a] = {[tokens |-> level, updated_at |-> clock]}]
           /\ told' = [told EXCEPT ![a] = @ \cup {later}]
           /\ admitted' = admitted
  <2>1. PICK b : b = [tokens |-> level, updated_at |-> clock] /\ b = RefilledNow(a)
    BY DEF RefilledNow
  <2>2. b \in [tokens : 0..Burst, updated_at : {clock}]
    <3> HIDE DEF level
    <3> QED BY <1>3, <2>1
  <2>3. level \in Nat /\ level < Cost
    <3> HIDE DEF level
    <3> QED BY <1>3, <1>7
  <2>4. later \in Nat /\ b.tokens + (later - b.updated_at) * Rate >= Cost
    <3> DEFINE wait == retry_after(level) * TicksPerSecond
    <3>1. wait \in Nat /\ level + wait * Rate >= Cost
      <4> HIDE DEF level
      <4> QED BY <2>3, WaitSuffices
    <3>2. later = clock + wait
      OBVIOUS
    <3> HIDE DEF wait, later, level
    <3>3. later \in Nat /\ later - clock = wait
      BY <1>3, <3>1, <3>2
    <3> QED BY <2>1, <3>1, <3>3
  <2>5. Spent(admitted[a], b) /\ Within(admitted[a]) /\ Promised(told[a], b)
    <3>1. refilled(a) < Cost
      BY <2>3
    <3> HIDE DEF a, level
    <3> QED BY <1>2, <2>1, <3>1, SpentByNow, PromisesStand DEF BucketsHold
  <2>6. /\ told' \in [Caller -> SUBSET Nat] /\ told'[a] = told[a] \cup {later}
        /\ \A c \in Caller : c # a => told'[c] = told[c]
    <3> HIDE DEF a, later
    <3> QED BY <1>2, <1>3, <1>7, <2>4
  <2>7. Promised(told'[a], b)
    <3> HIDE DEF a, later
    <3> QED BY <2>4, <2>5, <2>6 DEF Promised
  <2>8. bucket' = [bucket EXCEPT ![a] = {b}]
    BY <1>7, <2>1
  <2> HIDE DEF a, level, later
  <2> QED BY <1>3, <1>5, <1>7, <2>2, <2>5, <2>6, <2>7, <2>8
<1> HIDE DEF level, later
<1>8. \/ UNCHANGED <<bucket, admitted, told>>
      \/ /\ level >= Cost
         /\ bucket' = [bucket EXCEPT ![a] = {[tokens |-> level - Cost, updated_at |-> clock]}]
         /\ admitted' = [admitted EXCEPT ![a] = Append(@, clock)]
         /\ told' = [told EXCEPT ![a] = {}]
      \/ /\ ~(level >= Cost)
         /\ bucket' = [bucket EXCEPT ![a] = {[tokens |-> level, updated_at |-> clock]}]
         /\ told' = [told EXCEPT ![a] = @ \cup {later}]
         /\ admitted' = admitted
  BY DEF allow, level, later
<1> HIDE DEF a
<1> QED BY <1>4, <1>6, <1>7, <1>8

-----------------------------------------------------------------------------
LEMMA PathStarts == PathInit => PathInvariant
<1>1. SUFFICES ASSUME PathInit PROVE PathInvariant
  OBVIOUS
<1>2. PathTyped
  BY <1>1 DEF PathInit, PathTyped, Buckets
<1>3. BucketsHold
  BY <1>1 DEF PathInit, BucketsHold, Within
<1>4. CallsTracked
  BY <1>1 DEF PathInit, CallsTracked
<1> QED BY <1>2, <1>3, <1>4 DEF PathInvariant

(* As time goes on nothing is taken away. *)
LEMMA TimePasses ==
    ASSUME PathTyped, BucketsHold, tick
    PROVE  PathTyped' /\ BucketsHold'
<1>1. clock \in Nat /\ clock' = clock + 1 /\ UNCHANGED <<bucket, admitted, told>>
  BY DEF PathTyped, tick
<1>2. Buckets \subseteq Buckets'
  <2>1. clock' \in Nat /\ \A u \in 0..clock : u \in 0..clock'
    BY <1>1
  <2> QED BY <2>1 DEF Buckets
<1>3. PathTyped'
  BY <1>1, <1>2 DEF PathTyped
<1>4. BucketsHold'
  BY <1>1 DEF BucketsHold
<1> QED BY <1>3, <1>4

LEMMA PathStep == PathInvariant /\ [PathNext]_pathVars => PathInvariant'
<1>1. SUFFICES ASSUME PathTyped, BucketsHold, CallsTracked, [PathNext]_pathVars
               PROVE  PathTyped' /\ BucketsHold' /\ CallsTracked'
  BY DEF PathInvariant
<1>2. ASSUME UNCHANGED <<bucket, clock, admitted, told>> PROVE PathTyped' /\ BucketsHold'
  BY <1>1, <1>2 DEF PathTyped, BucketsHold, Buckets
<1>3. ASSUME call' = call PROVE CallsTracked'
  <2>1. /\ call' = [r \in Call |-> call'[r]]
        /\ \A r \in Call : call'[r] = NoCall \/ Tracked(call'[r])
    BY <1>1, <1>3 DEF CallsTracked
  <2> QED BY <2>1 DEF CallsTracked, Tracked, IsCall, Limited, Scanned, Depths, Length
<1>4. CASE UNCHANGED pathVars
  BY <1>2, <1>3, <1>4 DEF pathVars
<1>5. ASSUME NEW r \in Call, NEW a \in Sender, NEW b \in Sends, begin(r, a, b)
      PROVE  PathTyped' /\ BucketsHold' /\ CallsTracked'
  <2>1. UNCHANGED <<bucket, clock, admitted, told>>
    BY <1>5 DEF begin
  <2> QED BY <1>1, <1>2, <1>5, <2>1, CallBegins
<1>6. ASSUME NEW r \in Call, receive(r) PROVE PathTyped' /\ BucketsHold' /\ CallsTracked'
  <2>1. UNCHANGED <<bucket, clock, admitted, told>>
    BY <1>6 DEF receive
  <2> QED BY <1>1, <1>2, <1>6, <2>1, CallReceives
<1>7. ASSUME NEW r \in Call, disconnect(r) \/ authenticate(r) \/ respond(r)
      PROVE  PathTyped' /\ BucketsHold' /\ CallsTracked'
  <2>1. UNCHANGED <<bucket, clock, admitted, told>>
    BY <1>7 DEF disconnect, authenticate, respond
  <2> QED BY <1>1, <1>2, <1>7, <2>1, CallsKept
<1>8. ASSUME NEW r \in Call, allow(r) PROVE PathTyped' /\ BucketsHold' /\ CallsTracked'
  BY <1>1, <1>8, AllowCounts, CallCounted
<1>9. ASSUME NEW r \in Call, scan(r) PROVE PathTyped' /\ BucketsHold' /\ CallsTracked'
  <2>1. UNCHANGED <<bucket, clock, admitted, told>>
    BY <1>9 DEF scan
  <2> QED BY <1>1, <1>2, <1>9, <2>1, CallScans
<1>10. ASSUME tick PROVE PathTyped' /\ BucketsHold' /\ CallsTracked'
  <2>1. call' = call
    BY <1>10 DEF tick
  <2> QED BY <1>1, <1>3, <1>10, <2>1, TimePasses
<1> QED BY <1>1, <1>4, <1>5, <1>6, <1>7, <1>8, <1>9, <1>10 DEF PathNext

(* What holds of every request on its way, and of every actor's tokens. *)
THEOREM PathHolds == PathSpec => []PathInvariant
<1>1. PathInvariant /\ [PathNext]_pathVars => PathInvariant'
  BY PathStep
<1> QED BY <1>1, PathStarts, PTL DEF PathSpec

(* In no stretch of time does an actor get more through than its burst and  *)
(* the refill of that time.                                                 *)
THEOREM RateIsKept == PathSpec => []AdmittedWithinRate
<1>1. PathInvariant => AdmittedWithinRate
  BY DEF PathInvariant, BucketsHold, Within, AdmittedWithinRate
<1> QED BY <1>1, PathHolds, PTL

(* Who waits as long as it was told finds a token. *)
THEOREM WaitingSuffices == PathSpec => []RetryAfterSuffices
<1>1. ASSUME PathTyped, BucketsHold, NEW a \in Caller, NEW t \in told[a], clock >= t
      PROVE  refilled(a) >= Cost
  <2>1. /\ clock \in Nat /\ t \in Nat /\ Burst \in Nat /\ Cost \in Nat /\ Cost <= Burst
    BY <1>1, RateAssumption DEF PathTyped
  <2>2. PICK b \in bucket[a] : Promised(told[a], b)
    BY <1>1 DEF BucketsHold
  <2>3. PICK full : full = b.tokens + (clock - b.updated_at) * Rate
    OBVIOUS
  <2>4. /\ b.tokens \in 0..Burst /\ b.updated_at \in 0..clock /\ full \in Nat
        /\ refilled(a) = IF full < Burst THEN full ELSE Burst
    BY <1>1, <2>3, RefilledIs
  <2>5. b.tokens + (t - b.updated_at) * Rate >= Cost
    BY <1>1, <2>2 DEF Promised
  <2>6. PICK x, y : x = (t - b.updated_at) * Rate /\ y = (clock - b.updated_at) * Rate
    OBVIOUS
  <2>7. x \in Int /\ y \in Int /\ x <= y
    <3>1. t - b.updated_at \in Int /\ clock - b.updated_at \in Int
          /\ t - b.updated_at <= clock - b.updated_at
      BY <1>1, <2>1, <2>4
    <3> QED BY <2>6, <3>1, MoreTime
  <2>8. full >= Cost
    BY <2>1, <2>3, <2>4, <2>5, <2>6, <2>7
  <2> QED BY <2>1, <2>4, <2>8
<1>2. PathInvariant => RetryAfterSuffices
  BY <1>1 DEF PathInvariant, RetryAfterSuffices
<1> QED BY <1>2, PathHolds, PTL

(* Every request a handler is given has been measured whole, and scanned. *)
THEOREM HandlersAreShielded == PathSpec => []HandlersSeeCheckedBodies
<1>1. ASSUME CallsTracked, NEW r \in Call, call[r].step = "handled"
      PROVE  /\ call[r].actor \in Caller
             /\ Limited(call[r].body) =>
                  Length(call[r].body) <= Limit /\ Depths(call[r].body)
                  /\ Scanned(call[r].body, call[r].passed)
  <2>1. Tracked(call[r])
    BY <1>1 DEF CallsTracked, NoCall
  <2> QED BY <1>1, <2>1 DEF Tracked
<1>2. CallsTracked => HandlersSeeCheckedBodies
  BY <1>1, Zenon DEF HandlersSeeCheckedBodies, Depths, Scanned
<1>3. PathInvariant => HandlersSeeCheckedBodies
  BY <1>2 DEF PathInvariant
<1> QED BY <1>3, PathHolds, PTL

-----------------------------------------------------------------------------
(* Lists: what the helpers on sequences return. *)

(* A sequence that holds each member of a finite set once. *)
Lists(s, S) ==
    /\ IsFiniteSet(S) /\ Len(s) \in Nat /\ Cardinality(S) = Len(s)
    /\ s \in [1..Len(s) -> S]
    /\ \A i, j \in 1..Len(s) : s[i] = s[j] => i = j
    /\ \A x \in S : \E i \in 1..Len(s) : s[i] = x

(* A sequence without repetitions lists its members. *)
LEMMA Listing ==
    ASSUME NEW n \in Nat, NEW S, NEW s \in [1..n -> S],
           \A i, j \in 1..n : s[i] = s[j] => i = j,
           \A x \in S : \E i \in 1..n : s[i] = x
    PROVE  Lists(s, S) /\ Len(s) = n
<1>1. s \in Bijection(1..n, S)
  BY Zenon DEF Bijection, Injection, Surjection, IsInjective
<1>2. ExistsBijection(1..n, S)
  BY <1>1 DEF ExistsBijection
<1>3. IsFiniteSet(S) /\ Cardinality(S) = n
  BY <1>2, FS_NatBijection, FS_CountingElements
<1>4. s \in Seq(S)
  BY SeqDef
<1>5. Len(s) = n
  BY <1>4, LenProperties
<1> QED
  BY <1>3, <1>5 DEF Lists

(* In order, each comes once. *)
LEMMA OrderedLists ==
    ASSUME NEW K, IsFiniteSet(K), NEW before \in [K -> SUBSET K],
           \A p \in K : p \notin before[p],
           \A p, q, r \in K : p \in before[q] /\ q \in before[r] => p \in before[r],
           \A p, q \in K : p = q \/ p \in before[q] \/ q \in before[p]
    PROVE  /\ Lists(Ordered(before), K) /\ Len(Ordered(before)) = Cardinality(K)
           /\ \A k \in 1..Cardinality(K) : Cardinality(before[Ordered(before)[k]]) = k - 1
<1> DEFINE n == Cardinality(K)
           s == [k \in 1..n |-> CHOOSE p \in K : Cardinality(before[p]) = k - 1]
<1>1. /\ n \in Nat
      /\ \A p \in K : Cardinality(before[p]) + 1 \in 1..n
      /\ \A p \in K : Cardinality(before[p]) \in Nat
      /\ \A p, q \in K : p \in before[q] => Cardinality(before[p]) < Cardinality(before[q])
      /\ \A k \in 1..n : \E p \in K : Cardinality(before[p]) = k - 1
  BY Line
<1>2. Ordered(before) = s
  BY DEF Ordered
<1> HIDE DEF n
<1>3. \A k \in 1..n : s[k] \in K /\ Cardinality(before[s[k]]) = k - 1
  BY <1>1
<1>4. s \in [1..n -> K]
  BY <1>3
<1>5. \A i, j \in 1..n : s[i] = s[j] => i = j
  <2> SUFFICES ASSUME NEW i \in 1..n, NEW j \in 1..n, s[i] = s[j] PROVE i = j
    OBVIOUS
  <2>1. Cardinality(before[s[i]]) = i - 1 /\ Cardinality(before[s[j]]) = j - 1
    BY <1>3
  <2> HIDE DEF s
  <2> QED
    BY <2>1
<1>6. \A x \in K : \E i \in 1..n : s[i] = x
  <2> SUFFICES ASSUME NEW x \in K PROVE \E i \in 1..n : s[i] = x
    OBVIOUS
  <2>1. PICK i \in 1..n : i = Cardinality(before[x]) + 1
    BY <1>1
  <2>2. s[i] \in K /\ Cardinality(before[s[i]]) = i - 1
    BY <1>3
  <2>3. Cardinality(before[x]) \in Nat /\ Cardinality(before[s[i]]) \in Nat
    BY <1>1, <2>2
  <2> HIDE DEF s
  <2>4. s[i] = x
    BY <1>1, <2>1, <2>2, <2>3
  <2> QED
    BY <2>4
<1>7. Lists(s, K) /\ Len(s) = n
  <2> HIDE DEF s
  <2> QED
    BY <1>1, <1>4, <1>5, <1>6, Listing
<1> HIDE DEF s
<1> QED
  BY <1>2, <1>3, <1>7 DEF n

(* What stands at some places, once each. *)
LEMMA AtLists ==
    ASSUME NEW S, NEW s, Lists(s, S), NEW P \in SUBSET (1..Len(s)), NEW T \in SUBSET S,
           \A i \in P : s[i] \in T, \A x \in T : \E i \in P : s[i] = x
    PROVE  Lists(At(s, P), T) /\ Len(At(s, P)) = Cardinality(P)
<1> DEFINE before == [n \in P |-> {m \in P : m < n}]
           order == Ordered(before)
<1>1. IsFiniteSet(P) /\ P \subseteq Nat /\ Cardinality(P) \in Nat
  <2>1. Len(s) \in Nat
    BY DEF Lists
  <2>2. IsFiniteSet(1..Len(s))
    BY <2>1, FS_Interval
  <2>3. IsFiniteSet(P)
    BY <2>2, FS_Subset
  <2> QED
    BY <2>1, <2>3, FS_CardinalityType
<1>2. /\ before \in [P -> SUBSET P]
      /\ \A p \in P : p \notin before[p]
      /\ \A p, q, r \in P : p \in before[q] /\ q \in before[r] => p \in before[r]
      /\ \A p, q \in P : p = q \/ p \in before[q] \/ q \in before[p]
  BY <1>1
<1>3. Lists(order, P) /\ Len(order) = Cardinality(P)
  <2> HIDE DEF before
  <2> QED
    BY <1>1, <1>2, OrderedLists
<1> DEFINE t == [k \in 1..Cardinality(P) |-> s[order[k]]]
<1>4. At(s, P) = t
  BY DEF At
<1> HIDE DEF before, order
<1>5. \A k \in 1..Cardinality(P) : order[k] \in P
  BY <1>3 DEF Lists
<1>6. t \in [1..Cardinality(P) -> T]
  BY <1>5
<1>7. \A i, j \in 1..Cardinality(P) : t[i] = t[j] => i = j
  <2> SUFFICES ASSUME NEW i \in 1..Cardinality(P), NEW j \in 1..Cardinality(P), t[i] = t[j] PROVE i = j
    OBVIOUS
  <2>1. s[order[i]] = s[order[j]]
    OBVIOUS
  <2> HIDE DEF t
  <2>2. order[i] \in 1..Len(s) /\ order[j] \in 1..Len(s)
    BY <1>5
  <2>3. order[i] = order[j]
    BY <2>1, <2>2 DEF Lists
  <2> QED
    BY <1>3, <2>3 DEF Lists
<1>8. \A x \in T : \E i \in 1..Cardinality(P) : t[i] = x
  <2> SUFFICES ASSUME NEW x \in T PROVE \E i \in 1..Cardinality(P) : t[i] = x
    OBVIOUS
  <2>1. PICK p \in P : s[p] = x
    OBVIOUS
  <2>2. PICK i \in 1..Cardinality(P) : order[i] = p
    BY <1>3 DEF Lists
  <2>3. t[i] = x
    BY <2>1, <2>2
  <2> QED
    BY <2>3
<1> HIDE DEF t
<1>9. Lists(t, T) /\ Len(t) = Cardinality(P)
  BY <1>1, <1>6, <1>7, <1>8, Listing
<1> QED
  BY <1>4, <1>9

(* What of it is in a set. *)
LEMMA OnlyLists ==
    ASSUME NEW S, NEW s, Lists(s, S), NEW T
    PROVE  Lists(Only(s, T), S \cap T)
<1> DEFINE P == {n \in DOMAIN s : s[n] \in T}
<1>1. P \in SUBSET (1..Len(s))
  BY DEF Lists
<1>2. \A i \in P : s[i] \in S \cap T
  BY DEF Lists
<1>3. \A x \in S \cap T : \E i \in P : s[i] = x
  BY DEF Lists
<1>4. Only(s, T) = At(s, P)
  BY DEF Only
<1> HIDE DEF P
<1>5. Lists(At(s, P), S \cap T)
  BY <1>1, <1>2, <1>3, AtLists
<1> QED
  BY <1>4, <1>5

(* The first so many: all there are, or just so many of them. *)
Firsts(t, T, s, S, n) ==
    /\ T \in SUBSET S
    /\ Lists(t, T) /\ Len(t) <= n
    /\ Len(s) <= n => S \subseteq T
    /\ Len(t) = n \/ S \subseteq T

LEMMA TakeLists ==
    ASSUME NEW S, NEW s, Lists(s, S), NEW n \in Nat
    PROVE  \E T : Firsts(Take(s, n), T, s, S, n)
<1> DEFINE m == IF Len(s) < n THEN Len(s) ELSE n
           t == SubSeq(s, 1, m)
           T == {s[i] : i \in 1..m}
<1>0. Len(s) \in Nat /\ s \in [1..Len(s) -> S]
  BY DEF Lists
<1>1. m \in Nat /\ m <= Len(s) /\ m <= n /\ (m = n \/ m = Len(s)) /\ (Len(s) <= n => m = Len(s))
  <2>1. PICK l \in Nat : l = Len(s)
    BY <1>0
  <2>2. m = IF l < n THEN l ELSE n
    BY <2>1
  <2> HIDE DEF m
  <2> QED
    BY <2>1, <2>2
<1>2. Take(s, n) = t
  BY DEF Take
<1> HIDE DEF m
<1>3. \A i \in 1..m : s[i] \in S /\ i \in 1..Len(s)
  BY <1>0, <1>1
<1>4. /\ t \in Seq(S) /\ Len(t) = m
      /\ \A i \in 1..m : t[i] = s[i]
  <2>1. /\ t \in Seq(S) /\ Len(t) = IF 1 <= m THEN m - 1 + 1 ELSE 0
        /\ \A i \in 1..m - 1 + 1 : t[i] = s[1 + i - 1]
    BY <1>1, <1>3, SubSeqProperties
  <2> HIDE DEF t
  <2> QED
    BY <1>1, <2>1
<1> HIDE DEF t
<1>5. /\ T \in SUBSET S
      /\ m = Len(s) => T = S
  BY <1>3 DEF Lists
<1>6. t \in [1..m -> T]
  <2>1. t \in [1..m -> S]
    BY <1>4, LenProperties
  <2> QED
    BY <1>4, <2>1
<1>7. \A i, j \in 1..m : t[i] = t[j] => i = j
  BY <1>3, <1>4 DEF Lists
<1>8. \A x \in T : \E i \in 1..m : t[i] = x
  BY <1>4
<1> HIDE DEF T
<1>9. Lists(t, T)
  BY <1>1, <1>6, <1>7, <1>8, Listing
<1>10. Firsts(t, T, s, S, n)
  BY <1>1, <1>4, <1>5, <1>9 DEF Firsts
<1> QED
  BY <1>2, <1>10

LEMMA TakeAll ==
    ASSUME NEW S, NEW s, Lists(s, S), NEW n \in Nat, Len(s) <= n
    PROVE  Lists(Take(s, n), S)
<1>1. PICK T : Firsts(Take(s, n), T, s, S, n)
  BY TakeLists
<1>2. T = S /\ Lists(Take(s, n), T)
  BY <1>1 DEF Firsts
<1> QED
  BY Zenon, <1>2

(* One list after another that has nothing of it. *)
LEMMA ConcatLists ==
    ASSUME NEW S, NEW s, Lists(s, S), NEW T, NEW t, Lists(t, T), S \cap T = {}
    PROVE  Lists(s \o t, S \cup T) /\ Len(s \o t) = Len(s) + Len(t)
<1> DEFINE U == S \cup T
           u == s \o t
           n == Len(s) + Len(t)
<1>1. s \in [1..Len(s) -> S] /\ Len(s) \in Nat /\ t \in [1..Len(t) -> T] /\ Len(t) \in Nat
  BY DEF Lists
<1>2. s \in Seq(U) /\ t \in Seq(U)
  BY <1>1, SeqDef
<1>3. /\ u \in Seq(U) /\ Len(u) = n
      /\ \A i \in 1..n : u[i] = IF i <= Len(s) THEN s[i] ELSE t[i - Len(s)]
  BY <1>2, ConcatProperties
<1>4. u \in [1..n -> U]
  BY <1>3, LenProperties
<1> HIDE DEF u
<1>5. \A i, j \in 1..n : u[i] = u[j] => i = j
  <2> SUFFICES ASSUME NEW i \in 1..n, NEW j \in 1..n, u[i] = u[j] PROVE i = j
    OBVIOUS
  <2>1. CASE i <= Len(s) /\ j <= Len(s)
    <3>1. i \in 1..Len(s) /\ j \in 1..Len(s) /\ s[i] = s[j]
      BY <1>1, <1>3, <2>1
    <3> QED
      BY <3>1 DEF Lists
  <2>2. CASE ~(i <= Len(s)) /\ ~(j <= Len(s))
    <3>1. i - Len(s) \in 1..Len(t) /\ j - Len(s) \in 1..Len(t) /\ t[i - Len(s)] = t[j - Len(s)]
      BY <1>1, <1>3, <2>2
    <3>2. i - Len(s) = j - Len(s)
      BY <3>1 DEF Lists
    <3> QED
      BY <1>1, <3>2
  <2>3. CASE i <= Len(s) /\ ~(j <= Len(s))
    <3>1. u[i] = s[i] /\ i \in 1..Len(s) /\ u[j] = t[j - Len(s)] /\ j - Len(s) \in 1..Len(t)
      BY <1>1, <1>3, <2>3
    <3>2. u[i] \in S /\ u[j] \in T
      BY <1>1, <3>1
    <3> QED
      BY <3>2
  <2>4. CASE ~(i <= Len(s)) /\ j <= Len(s)
    <3>1. u[j] = s[j] /\ j \in 1..Len(s) /\ u[i] = t[i - Len(s)] /\ i - Len(s) \in 1..Len(t)
      BY <1>1, <1>3, <2>4
    <3>2. u[i] \in T /\ u[j] \in S
      BY <1>1, <3>1
    <3> QED
      BY <3>2
  <2> QED
    BY <2>1, <2>2, <2>3, <2>4
<1>6. \A x \in U : \E i \in 1..n : u[i] = x
  <2>1. ASSUME NEW x \in S PROVE \E i \in 1..n : u[i] = x
    <3>1. PICK i \in 1..Len(s) : s[i] = x
      BY DEF Lists
    <3>2. i \in 1..n /\ u[i] = x
      BY <1>1, <1>3, <3>1
    <3> QED
      BY <3>2
  <2>2. ASSUME NEW x \in T PROVE \E i \in 1..n : u[i] = x
    <3>1. PICK i \in 1..Len(t) : t[i] = x
      BY DEF Lists
    <3>2. Len(s) + i \in 1..n /\ u[Len(s) + i] = x
      BY <1>1, <1>3, <3>1
    <3> QED
      BY <3>2
  <2> QED
    BY <2>1, <2>2
<1>7. n \in Nat
  BY <1>1
<1> HIDE DEF n, U
<1>8. Lists(u, U) /\ Len(u) = n
  BY <1>4, <1>5, <1>6, <1>7, Listing
<1> QED
  BY <1>8 DEF u, U, n

(* A function on 1..n is a list. *)
LEMMA FunctionIsList ==
    ASSUME NEW n \in Nat, NEW s, DOMAIN s = 1..n, s = [k \in 1..n |-> s[k]]
    PROVE  IsList(s) /\ Len(s) = n
<1>1. s \in [1..n -> ToSet(s)]
  BY Zenon DEF ToSet
<1>2. s \in Seq(ToSet(s))
  BY <1>1, SeqDef
<1> QED
  BY <1>1, <1>2, LenProperties DEF IsList

LEMMA IsListed ==
    ASSUME NEW s, IsList(s)
    PROVE  /\ Len(s) \in Nat /\ DOMAIN s = 1..Len(s)
           /\ s = [k \in 1..Len(s) |-> s[k]]
           /\ \A k \in 1..Len(s) : s[k] \in ToSet(s)
           /\ \A x \in ToSet(s) : \E k \in 1..Len(s) : s[k] = x
<1>1. s \in Seq(ToSet(s))
  BY DEF IsList
<1>2. Len(s) \in Nat /\ s \in [1..Len(s) -> ToSet(s)] /\ DOMAIN s = 1..Len(s)
  BY <1>1, LenProperties
<1>3. \A x \in ToSet(s) : \E k \in DOMAIN s : s[k] = x
  BY Zenon DEF ToSet
<1> QED
  BY <1>2, <1>3

-----------------------------------------------------------------------------
(* Retrieval *)

(* Diversity moves near duplicates back; asked for all, it drops none. *)
LEMMA DiverseLists ==
    ASSUME NEW S, NEW s, Lists(s, S), NEW k \in Nat, Len(s) <= k
    PROVE  Lists(select_diverse(s, k), S)
<1>1. PICK P \in SUBSET (1..Len(s)) : P = diverse(s, k)
  <2>1. DOMAIN s = 1..Len(s)
    BY DEF Lists
  <2>2. diverse(s, k) \in SUBSET (DOMAIN s)
    BY Zenon DEF diverse
  <2> QED
    BY <2>1, <2>2
<1> DEFINE Q == (1..Len(s)) \ P
           A == {s[n] : n \in P}
           B == {s[n] : n \in Q}
           a == At(s, P)
           b == At(s, Q)
           t == Take(b, k - Cardinality(P))
<1>2. DOMAIN s = 1..Len(s) /\ Len(s) \in Nat
  BY DEF Lists
<1>3. select_diverse(s, k) = a \o t
  BY Zenon, <1>1, <1>2 DEF select_diverse
<1>4. Q \in SUBSET (1..Len(s))
  OBVIOUS
<1>5. A \in SUBSET S /\ B \in SUBSET S /\ A \cup B = S /\ A \cap B = {}
  <2>1. /\ \A i \in P \cup Q : s[i] \in S
        /\ \A x \in S : \E i \in P \cup Q : s[i] = x
        /\ \A i \in P : \A j \in Q : s[i] # s[j]
    BY <1>2 DEF Lists
  <2> HIDE DEF Q
  <2>2. A \in SUBSET S /\ B \in SUBSET S
    BY <2>1
  <2>3. \A x \in S : x \in A \/ x \in B
    BY <2>1
  <2>4. \A x : ~(x \in A /\ x \in B)
    BY <2>1
  <2> QED
    BY <2>2, <2>3, <2>4
<1> HIDE DEF Q, t
<1>6. Lists(a, A) /\ Len(a) = Cardinality(P) /\ Lists(b, B)
  <2>1. /\ \A i \in P : s[i] \in A
        /\ \A x \in A : \E i \in P : s[i] = x
        /\ \A i \in Q : s[i] \in B
        /\ \A x \in B : \E i \in Q : s[i] = x
    OBVIOUS
  <2> HIDE DEF A, B
  <2>2. Lists(a, A) /\ Len(a) = Cardinality(P)
    BY ZenonT(30), <1>5, <2>1, AtLists
  <2>3. Lists(b, B)
    BY ZenonT(30), <1>4, <1>5, <2>1, AtLists
  <2> QED
    BY <2>2, <2>3
<1> HIDE DEF A, B, a, b
<1>7. Cardinality(P) + Len(b) = Len(s) /\ Cardinality(P) \in Nat /\ Len(b) \in Nat
  <2>1. /\ Cardinality(A) = Cardinality(P) /\ Cardinality(A) \in Nat /\ IsFiniteSet(A)
        /\ Cardinality(B) = Len(b) /\ Len(b) \in Nat /\ IsFiniteSet(B)
        /\ Cardinality(S) = Len(s)
    BY <1>6 DEF Lists
  <2>2. Cardinality(A \cup B) = Cardinality(A) + Cardinality(B) - Cardinality(A \cap B)
    BY <2>1, FS_Union
  <2>3. Cardinality(A \cap B) = 0
    BY <1>5, FS_EmptySet
  <2>4. Cardinality(A \cup B) = Len(s)
    BY Zenon, <1>5, <2>1
  <2> QED
    BY <2>1, <2>2, <2>3, <2>4
<1>8. k - Cardinality(P) \in Nat /\ Len(b) <= k - Cardinality(P)
  BY <1>2, <1>7
<1>9. Lists(t, B)
  BY <1>6, <1>8, TakeAll DEF t
<1>10. Lists(a \o t, A \cup B)
  BY <1>5, <1>6, <1>9, ConcatLists
<1> QED
  BY Zenon, <1>3, <1>5, <1>10

-----------------------------------------------------------------------------
(* What is stored, and the task asked for, as the initial states leave it. *)
Stocked ==
    /\ Len(learning) \in Nat /\ Id = 1..Len(learning)
    /\ \A i \in Id : IsLearning(learning[i])
    /\ IsFiniteSet(target.scope) /\ IsFiniteSet(target.decisions)
    /\ IsFiniteSet(target.dependencies) /\ IsFiniteSet(target.tooling)

LEMMA JaccardIsNumber ==
    ASSUME NEW s, IsFiniteSet(s), NEW t, IsFiniteSet(t)
    PROVE  jaccard(s, t) \in Int
<1>1. CASE s = {} \/ t = {}
  BY <1>1 DEF jaccard
<1>2. CASE ~(s = {} \/ t = {})
  <2>1. IsFiniteSet(s \cup t) /\ IsFiniteSet(s \cap t)
    BY FS_Union, FS_Subset
  <2>2. Cardinality(s \cup t) \in Nat /\ Cardinality(s \cap t) \in Nat /\ Cardinality(s \cup t) # 0
    BY <1>2, <2>1, FS_CardinalityType, FS_EmptySet
  <2>3. PICK x \in Nat, y \in Nat \ {0} : x = Cardinality(s \cap t) /\ y = Cardinality(s \cup t)
    BY <2>2
  <2>4. (100 * x) \div y \in Int
    OBVIOUS
  <2> QED
    BY <1>2, <2>3, <2>4 DEF jaccard
<1> QED
  BY <1>1, <1>2

LEMMA ScoreIsNumber ==
    ASSUME Stocked, NEW i \in Id
    PROVE  score_candidate(i) \in Int
<1> DEFINE l == learning[i]
<1>1. IsLearning(l)
  BY DEF Stocked
<1>2. /\ jaccard(target.scope, l.scope) \in Int /\ jaccard(target.decisions, l.decisions) \in Int
      /\ jaccard(target.dependencies, l.dependencies) \in Int /\ jaccard(target.tooling, l.tooling) \in Int
  BY <1>1, JaccardIsNumber DEF Stocked, IsLearning
<1>3. l.similarity \in Int /\ l.recency \in Int /\ Bonus[l.layer] \in Int
  BY <1>1, ScoresAreNumbers DEF IsLearning
<1>4. PICK f : f = Features(i)
  OBVIOUS
<1>5. /\ f.task_type_match \in Int /\ f.project_match \in Int /\ f.repo_scope_overlap \in Int
      /\ f.linked_decision_overlap \in Int /\ f.shared_dependency_overlap \in Int
      /\ f.tooling_overlap \in Int /\ f.text_similarity \in Int /\ f.recency \in Int /\ f.scope_bonus \in Int
  BY <1>2, <1>3, <1>4 DEF Features
<1>6. /\ Weight["task_type_match"] \in Int /\ Weight["project_match"] \in Int
      /\ Weight["repo_scope_overlap"] \in Int /\ Weight["linked_decision_overlap"] \in Int
      /\ Weight["shared_dependency_overlap"] \in Int /\ Weight["tooling_overlap"] \in Int
      /\ Weight["text_similarity"] \in Int /\ Weight["recency"] \in Int /\ Weight["scope_bonus"] \in Int
  BY ScoresAreNumbers
<1>7. \A x, y \in Int : x * y \in Int
  OBVIOUS
<1>8. /\ Weight["task_type_match"] * f.task_type_match \in Int /\ Weight["project_match"] * f.project_match \in Int
      /\ Weight["repo_scope_overlap"] * f.repo_scope_overlap \in Int
      /\ Weight["linked_decision_overlap"] * f.linked_decision_overlap \in Int
      /\ Weight["shared_dependency_overlap"] * f.shared_dependency_overlap \in Int
      /\ Weight["tooling_overlap"] * f.tooling_overlap \in Int
      /\ Weight["text_similarity"] * f.text_similarity \in Int
      /\ Weight["recency"] * f.recency \in Int /\ Weight["scope_bonus"] * f.scope_bonus \in Int
  BY Zenon, <1>5, <1>6, <1>7
<1>9. \A x, y \in Int : x + y \in Int
  OBVIOUS
<1>10. Weight["task_type_match"] * f.task_type_match + Weight["project_match"] * f.project_match
        + Weight["repo_scope_overlap"] * f.repo_scope_overlap
        + Weight["linked_decision_overlap"] * f.linked_decision_overlap
        + Weight["shared_dependency_overlap"] * f.shared_dependency_overlap
        + Weight["tooling_overlap"] * f.tooling_overlap + Weight["text_similarity"] * f.text_similarity
        + Weight["recency"] * f.recency + Weight["scope_bonus"] * f.scope_bonus \in Int
  BY Zenon, <1>8, <1>9
<1> QED
  BY Zenon, <1>4, <1>10 DEF score_candidate

LEMMA ActiveIs == Stocked => Active \in SUBSET Id /\ IsFiniteSet(Active) /\ Cardinality(Active) \in Nat
<1> SUFFICES ASSUME Stocked PROVE Active \in SUBSET Id /\ IsFiniteSet(Active) /\ Cardinality(Active) \in Nat
  OBVIOUS
<1>1. IsFiniteSet(Id)
  BY FS_Interval DEF Stocked
<1>2. Active \in SUBSET Id
  BY DEF Active
<1> QED
  BY <1>1, <1>2, FS_Subset, FS_CardinalityType

(* Every active learning has its place in the ranking. *)
LEMMA ActiveRanked ==
    ASSUME Stocked
    PROVE  Lists(rank_learnings_for_task(Cardinality(Active)), Active)
<1> DEFINE before == [i \in Active |-> {j \in Active : Better(j, i)}]
<1>1. \A i \in Active : score_candidate(i) \in Int /\ i \in Nat
  BY ActiveIs, ScoreIsNumber DEF Stocked
<1>2. /\ before \in [Active -> SUBSET Active]
      /\ \A p \in Active : p \notin before[p]
      /\ \A p, q, r \in Active : p \in before[q] /\ q \in before[r] => p \in before[r]
      /\ \A p, q \in Active : p = q \/ p \in before[q] \/ q \in before[p]
  BY <1>1 DEF Better
<1>3. rank_learnings_for_task(Cardinality(Active)) = select_diverse(Ordered(before), Cardinality(Active))
  BY DEF rank_learnings_for_task
<1> HIDE DEF before
<1>4. Lists(Ordered(before), Active) /\ Len(Ordered(before)) = Cardinality(Active)
  BY <1>2, ActiveIs, OrderedLists
<1>5. Len(Ordered(before)) <= Cardinality(Active)
  BY <1>4, ActiveIs
<1> QED
  BY <1>3, <1>4, <1>5, ActiveIs, DiverseLists

-----------------------------------------------------------------------------
(* Candidates that hold each learning of a set once. *)
Candidates(S) == [id : S, similarity : Int]
Finds(c, S) ==
    /\ IsFiniteSet(S) /\ Len(c) \in Nat /\ Cardinality(S) = Len(c)
    /\ c \in [1..Len(c) -> Candidates(S)]
    /\ \A i, j \in 1..Len(c) : c[i].id = c[j].id => i = j
    /\ \A x \in S : \E i \in 1..Len(c) : c[i].id = x

LEMMA Finding ==
    ASSUME NEW n \in Nat, NEW S, NEW c \in [1..n -> Candidates(S)],
           \A i, j \in 1..n : c[i].id = c[j].id => i = j,
           \A x \in S : \E i \in 1..n : c[i].id = x
    PROVE  Finds(c, S) /\ Len(c) = n
<1> DEFINE ids == [k \in 1..n |-> c[k].id]
<1>1. \A k \in 1..n : c[k].id \in S
  BY DEF Candidates
<1>2. ids \in [1..n -> S] /\ \A k \in 1..n : ids[k] = c[k].id
  BY <1>1
<1> HIDE DEF ids
<1>3. Lists(ids, S) /\ Len(ids) = n
  <2>1. /\ \A i, j \in 1..n : ids[i] = ids[j] => i = j
        /\ \A x \in S : \E i \in 1..n : ids[i] = x
    BY <1>2
  <2> QED
    BY SMTT(30), <1>2, <2>1, Listing
<1>4. IsFiniteSet(S) /\ Cardinality(S) = n
  BY <1>3 DEF Lists
<1>5. c \in Seq(Candidates(S))
  BY SeqDef
<1>6. Len(c) = n
  BY <1>5, LenProperties
<1> QED
  BY <1>4, <1>6 DEF Finds

LEMMA IdsAre == ASSUME NEW S, NEW c, Finds(c, S) PROVE Ids(c) = S
<1>1. DOMAIN c = 1..Len(c) /\ \A k \in 1..Len(c) : c[k].id \in S
  BY DEF Finds, Candidates
<1>2. \A x \in S : \E i \in 1..Len(c) : c[i].id = x
  BY DEF Finds
<1> QED
  BY <1>1, <1>2 DEF Ids

(* The candidates of a list of learnings. *)
LEMMA PlainFinds == ASSUME NEW S, NEW s, Lists(s, S) PROVE Finds(Plain(s), S) /\ Len(Plain(s)) = Len(s)
<1> DEFINE c == [k \in 1..Len(s) |-> [id |-> s[k], similarity |-> 0]]
<1>1. Plain(s) = c
  BY DEF Plain, Lists
<1>2. Len(s) \in Nat /\ c \in [1..Len(s) -> Candidates(S)]
  BY DEF Lists, Candidates
<1>3. \A k \in 1..Len(s) : c[k].id = s[k]
  OBVIOUS
<1> HIDE DEF c
<1>4. /\ \A i, j \in 1..Len(s) : c[i].id = c[j].id => i = j
      /\ \A x \in S : \E i \in 1..Len(s) : c[i].id = x
  BY <1>3 DEF Lists
<1>5. Finds(c, S) /\ Len(c) = Len(s)
  BY <1>2, <1>4, Finding
<1> QED
  BY <1>1, <1>5

(* The same candidates in another order. *)
Picks(c) == {c[n] : n \in 1..Len(c)}

LEMMA FoundAreListed == ASSUME NEW S, NEW c, Finds(c, S) PROVE Lists(c, Picks(c))
<1> DEFINE R == Picks(c)
<1>1. Len(c) \in Nat /\ c \in [1..Len(c) -> R]
  BY DEF Finds, Picks
<1>2. /\ \A i, j \in 1..Len(c) : c[i] = c[j] => i = j
      /\ \A x \in R : \E i \in 1..Len(c) : c[i] = x
  BY DEF Finds, Picks
<1> HIDE DEF R
<1>3. Lists(c, R)
  BY <1>1, <1>2, Listing
<1> QED
  BY <1>3 DEF R

LEMMA ListedFind ==
    ASSUME NEW S, NEW R, R \subseteq Candidates(S),
           \A x, y \in R : x.id = y.id => x = y,
           \A x \in S : \E y \in R : y.id = x,
           NEW u, Lists(u, R)
    PROVE  Finds(u, S) /\ Len(u) = Cardinality(R)
<1>1. Len(u) \in Nat /\ u \in [1..Len(u) -> R]
  BY DEF Lists
<1>2. u \in [1..Len(u) -> Candidates(S)]
  BY <1>1
<1>3. \A i, j \in 1..Len(u) : u[i].id = u[j].id => i = j
  <2> SUFFICES ASSUME NEW i \in 1..Len(u), NEW j \in 1..Len(u), u[i].id = u[j].id PROVE i = j
    OBVIOUS
  <2>1. u[i] = u[j]
    BY <1>1
  <2> QED
    BY <2>1 DEF Lists
<1>4. \A x \in S : \E i \in 1..Len(u) : u[i].id = x
  <2> SUFFICES ASSUME NEW x \in S PROVE \E i \in 1..Len(u) : u[i].id = x
    OBVIOUS
  <2>1. PICK y \in R : y.id = x
    OBVIOUS
  <2>2. PICK i \in 1..Len(u) : u[i] = y
    BY DEF Lists
  <2> QED
    BY <2>1, <2>2
<1>5. Finds(u, S)
  BY <1>1, <1>2, <1>3, <1>4, Finding
<1> QED
  BY <1>5 DEF Lists

LEMMA PicksAre ==
    ASSUME NEW S, NEW c, Finds(c, S)
    PROVE  /\ Picks(c) \subseteq Candidates(S)
           /\ \A x, y \in Picks(c) : x.id = y.id => x = y
           /\ \A x \in S : \E y \in Picks(c) : y.id = x
           /\ Lists(c, Picks(c))
  BY FoundAreListed DEF Finds, Picks

LEMMA ListedAreFound ==
    ASSUME NEW S, NEW c, Finds(c, S), NEW u, Lists(u, Picks(c))
    PROVE  Finds(u, S) /\ Len(u) = Len(c)
<1> DEFINE R == Picks(c)
<1>0. /\ R \subseteq Candidates(S)
      /\ \A x, y \in R : x.id = y.id => x = y
      /\ \A x \in S : \E y \in R : y.id = x
  BY PicksAre
<1> HIDE DEF R
<1>1. Finds(u, S) /\ Len(u) = Cardinality(Picks(c))
  <2>1. Lists(u, R)
    BY DEF R
  <2>2. Finds(u, S) /\ Len(u) = Cardinality(R)
    BY <1>0, <2>1, ListedFind
  <2> QED
    BY <2>2 DEF R
<1>2. Cardinality(Picks(c)) = Len(c)
  BY PicksAre DEF Lists
<1> QED
  BY <1>1, <1>2

(* Room for all. *)
LEMMA TakeFinds ==
    ASSUME NEW S, NEW c, Finds(c, S), NEW k \in Nat, Len(c) <= k
    PROVE  Finds(Take(c, k), S) /\ Len(Take(c, k)) = Len(c)
<1>1. Lists(Take(c, k), Picks(c))
  BY FoundAreListed, TakeAll
<1> QED
  BY <1>1, ListedAreFound

(* As far as a search got: within its limit, and below it complete. *)
Reached(c, S, owed, limit) ==
    /\ Finds(c, S) /\ Len(c) <= limit
    /\ Len(c) = limit \/ owed \subseteq S

Tiered(tier, pool, exclude) == {i \in pool \ exclude : learning[i].match[tier] > 0}

(* What one tier finds: no more than its limit, and all matches below it. *)
LEMMA TierFinds ==
    ASSUME Stocked, NEW tier \in Tier, NEW pool \in SUBSET Id, NEW exclude, NEW limit \in Nat
    PROVE  \E T \in SUBSET Tiered(tier, pool, exclude) :
             Reached(tier_candidates(tier, pool, exclude, limit), T, Tiered(tier, pool, exclude), limit)
<1> DEFINE score(i) == learning[i].match[tier]
           matches == {i \in pool \ exclude : score(i) > 0}
           before == [i \in matches |->
                        {j \in matches : score(j) > score(i) \/ (score(j) = score(i) /\ j < i)}]
           best == Take(Ordered(before), limit)
           c == [k \in DOMAIN best |-> [id |-> best[k], similarity |-> score(best[k])]]
<1>1. tier_candidates(tier, pool, exclude, limit) = c
  BY DEF tier_candidates
<1>2. \A i \in Id : score(i) \in Int /\ i \in Nat
  BY DEF Stocked, IsLearning
<1>3. matches \in SUBSET Id
  OBVIOUS
<1>4. IsFiniteSet(matches)
  <2>1. IsFiniteSet(Id)
    BY FS_Interval DEF Stocked
  <2> QED
    BY <1>3, <2>1, FS_Subset
<1>5. /\ before \in [matches -> SUBSET matches]
      /\ \A p \in matches : p \notin before[p]
      /\ \A p, q, r \in matches : p \in before[q] /\ q \in before[r] => p \in before[r]
      /\ \A p, q \in matches : p = q \/ p \in before[q] \/ q \in before[p]
  <2> HIDE DEF score, matches
  <2> QED
    BY <1>2, <1>3
<1> HIDE DEF before, matches
<1>6. Lists(Ordered(before), matches)
  BY <1>4, <1>5, OrderedLists
<1>7. PICK T \in SUBSET matches : /\ Lists(best, T) /\ Len(best) <= limit
                                  /\ Len(best) = limit \/ matches \subseteq T
  <2>1. PICK T : Firsts(best, T, Ordered(before), matches, limit)
    BY <1>6, TakeLists
  <2> HIDE DEF best
  <2> QED
    BY <2>1 DEF Firsts
<1> HIDE DEF best
<1>8. DOMAIN best = 1..Len(best) /\ Len(best) \in Nat
  BY <1>7 DEF Lists
<1>9. \A k \in 1..Len(best) : best[k] \in T /\ score(best[k]) \in Int
  BY <1>2, <1>3, <1>7 DEF Lists
<1> HIDE DEF score
<1>10. c \in [1..Len(best) -> Candidates(T)] /\ \A k \in 1..Len(best) : c[k].id = best[k]
  BY <1>8, <1>9 DEF Candidates
<1> HIDE DEF c
<1>11. Finds(c, T) /\ Len(c) = Len(best)
  <2>1. /\ \A i, j \in 1..Len(best) : c[i].id = c[j].id => i = j
        /\ \A x \in T : \E i \in 1..Len(best) : c[i].id = x
    <3>1. /\ \A i, j \in 1..Len(best) : best[i] = best[j] => i = j
          /\ \A x \in T : \E i \in 1..Len(best) : best[i] = x
      BY <1>7 DEF Lists
    <3> QED
      BY <1>10, <3>1
  <2> QED
    BY <1>8, <1>10, <2>1, Finding
<1>12. Tiered(tier, pool, exclude) = matches
  BY DEF Tiered, matches, score
<1>13. Reached(c, T, matches, limit)
  BY <1>7, <1>11 DEF Reached
<1> QED
  BY Zenon, <1>1, <1>7, <1>12, <1>13

LEMMA ConcatFinds ==
    ASSUME NEW S, NEW c, Finds(c, S), NEW T, NEW d, Finds(d, T), S \cap T = {}
    PROVE  Finds(c \o d, S \cup T) /\ Len(c \o d) = Len(c) + Len(d)
<1> DEFINE P == Picks(c)
           Q == Picks(d)
<1>1. /\ P \subseteq Candidates(S)
      /\ \A x, y \in P : x.id = y.id => x = y
      /\ \A x \in S : \E y \in P : y.id = x
      /\ Lists(c, P)
  BY PicksAre
<1>2. /\ Q \subseteq Candidates(T)
      /\ \A x, y \in Q : x.id = y.id => x = y
      /\ \A x \in T : \E y \in Q : y.id = x
      /\ Lists(d, Q)
  BY PicksAre
<1> HIDE DEF P, Q
<1>3. (\A x \in P : x.id \in S) /\ (\A x \in Q : x.id \in T)
  BY <1>1, <1>2 DEF Candidates
<1>4. P \cap Q = {}
  BY <1>3
<1>5. Lists(c \o d, P \cup Q) /\ Len(c \o d) = Len(c) + Len(d)
  BY <1>1, <1>2, <1>4, ConcatLists
<1> DEFINE R == P \cup Q
           U == S \cup T
<1>6. /\ R \subseteq Candidates(U)
      /\ \A x, y \in R : x.id = y.id => x = y
      /\ \A x \in U : \E y \in R : y.id = x
  <2>1. R \subseteq Candidates(U)
    BY <1>1, <1>2 DEF Candidates
  <2>2. \A x, y \in R : x.id = y.id => x = y
    BY <1>1, <1>2, <1>3
  <2>3. \A x \in U : \E y \in R : y.id = x
    BY <1>1, <1>2
  <2> QED
    BY <2>1, <2>2, <2>3
<1>7. Lists(c \o d, R)
  BY <1>5
<1> HIDE DEF R, U
<1>8. Finds(c \o d, U)
  BY <1>6, <1>7, ListedFind
<1> QED
  BY <1>5, <1>8 DEF U

(* Nothing to merge: one after the other. *)
LEMMA MergeFinds ==
    ASSUME NEW S, NEW c, Finds(c, S), NEW T, NEW d, Finds(d, T), S \cap T = {}
    PROVE  Finds(merge_candidates(c, d), S \cup T) /\ Len(merge_candidates(c, d)) = Len(c) + Len(d)
<1> DEFINE all == c \o d
           U == S \cup T
           same(n) == {m \in DOMAIN all : all[m].id = all[n].id}
           best == [n \in DOMAIN all |->
                      [id |-> all[n].id, similarity |-> Max({all[m].similarity : m \in same(n)})]]
           P == {n \in DOMAIN all : \A m \in same(n) : n <= m}
<1>1. merge_candidates(c, d) = At(best, P)
  BY DEF merge_candidates
<1>2. Finds(all, U) /\ Len(all) = Len(c) + Len(d)
  BY ConcatFinds
<1> HIDE DEF all, U
<1>3. /\ DOMAIN all = 1..Len(all) /\ Len(all) \in Nat /\ all \in [1..Len(all) -> Candidates(U)]
      /\ \A i, j \in 1..Len(all) : all[i].id = all[j].id => i = j
  BY <1>2 DEF Finds
<1>4. \A n \in DOMAIN all : same(n) = {n}
  BY <1>3
<1>5. P = 1..Len(all)
  BY <1>3, <1>4
<1>6. \A n \in DOMAIN all : best[n] = all[n]
  <2> SUFFICES ASSUME NEW n \in DOMAIN all PROVE best[n] = all[n]
    OBVIOUS
  <2>1. PICK x \in Int : x = all[n].similarity
    BY <1>3 DEF Candidates
  <2>2. {all[m].similarity : m \in same(n)} = {x}
    BY <1>4, <2>1
  <2>3. Max({x}) = x
    BY DEF Max
  <2>4. Max({all[m].similarity : m \in same(n)}) = x
    BY Zenon, <2>2, <2>3
  <2>5. all[n] = [id |-> all[n].id, similarity |-> all[n].similarity]
    BY <1>3 DEF Candidates
  <2>6. best[n] = [id |-> all[n].id, similarity |-> Max({all[m].similarity : m \in same(n)})]
    BY Zenon
  <2> HIDE DEF best, same
  <2> QED
    BY Zenon, <2>1, <2>4, <2>5, <2>6
<1>7. best = all
  <2>1. best = [n \in DOMAIN all |-> best[n]] /\ all = [n \in DOMAIN all |-> all[n]]
    BY <1>3
  <2> HIDE DEF best
  <2> QED
    BY <1>6, <2>1
<1>8. At(best, P) = At(all, 1..Len(all))
  BY Zenon, <1>5, <1>7
<1> HIDE DEF best, P
<1>9. Lists(At(all, 1..Len(all)), Picks(all))
  <2>1. Lists(all, Picks(all))
    BY <1>2, PicksAre
  <2>2. /\ \A i \in 1..Len(all) : all[i] \in Picks(all)
        /\ \A x \in Picks(all) : \E i \in 1..Len(all) : all[i] = x
    BY DEF Picks
  <2> QED
    BY <2>1, <2>2, AtLists
<1>10. Finds(At(all, 1..Len(all)), U) /\ Len(At(all, 1..Len(all))) = Len(all)
  BY <1>2, <1>9, ListedAreFound
<1> QED
  BY Zenon, <1>1, <1>2, <1>8, <1>10 DEF U

(* With room for all, the second ranking drops none. *)
LEMMA RerankFinds ==
    ASSUME Stocked, NEW S \in SUBSET Id, NEW c, Finds(c, S), NEW limit \in Nat, Len(c) <= limit
    PROVE  Finds(rerank_candidates(c, limit), S) /\ Len(rerank_candidates(c, limit)) = Len(c)
<1> DEFINE R == Picks(c)
           score(x) == learning[x.id].lexical + learning[x.id].recency
           first(x, y) ==
             \/ score(x) > score(y)
             \/ score(x) = score(y) /\ x.similarity > y.similarity
             \/ score(x) = score(y) /\ x.similarity = y.similarity /\ x.id < y.id
           before == [y \in R |-> {x \in R : first(x, y)}]
<1>1. ToSet(c) = R
  BY DEF ToSet, Finds, Picks
<1>2. rerank_candidates(c, limit) = Take(Ordered(before), limit)
  BY <1>1 DEF rerank_candidates
<1>3. /\ R \subseteq Candidates(S) /\ Lists(c, R)
      /\ \A x, y \in R : x.id = y.id => x = y
  BY PicksAre
<1>4. IsFiniteSet(R) /\ Cardinality(R) = Len(c)
  BY <1>3 DEF Lists
<1>5. \A x \in R : score(x) \in Int /\ x.similarity \in Int /\ x.id \in Int
  <2> SUFFICES ASSUME NEW x \in R PROVE score(x) \in Int /\ x.similarity \in Int /\ x.id \in Int
    OBVIOUS
  <2>1. x.id \in S /\ x.similarity \in Int
    BY <1>3 DEF Candidates
  <2>2. x.id \in Id /\ x.id \in Int
    <3>1. x.id \in Id
      BY <2>1
    <3>2. Id \subseteq Int
      BY DEF Stocked
    <3> QED
      BY <3>1, <3>2
  <2>3. IsLearning(learning[x.id])
    BY <2>2 DEF Stocked
  <2>4. learning[x.id].lexical \in Int /\ learning[x.id].recency \in Int
    BY <2>3 DEF IsLearning
  <2> QED
    BY <2>1, <2>2, <2>4
<1> HIDE DEF R, score
<1>6. /\ before \in [R -> SUBSET R]
      /\ \A p \in R : p \notin before[p]
      /\ \A p, q, r \in R : p \in before[q] /\ q \in before[r] => p \in before[r]
      /\ \A p, q \in R : p = q \/ p \in before[q] \/ q \in before[p]
  BY <1>3, <1>5
<1> HIDE DEF before
<1>7. Lists(Ordered(before), R) /\ Len(Ordered(before)) <= limit
  BY <1>4, <1>6, OrderedLists
<1>8. Lists(Take(Ordered(before), limit), R)
  BY <1>7, TakeAll
<1> QED
  BY <1>2, <1>8, ListedAreFound DEF R

-----------------------------------------------------------------------------
(* The next tier goes on with what is left of the limit. *)
LEMMA NextTier ==
    ASSUME Stocked, NEW tier \in Tier, NEW pool \in SUBSET Id, NEW exclude, NEW limit \in Nat,
           NEW c, NEW S \in SUBSET exclude, NEW owed, Reached(c, S, owed, limit)
    PROVE  \E T \in SUBSET Tiered(tier, pool, exclude) :
             Reached(merge_candidates(c, tier_candidates(tier, pool, exclude, More(limit, c))),
                     S \cup T, owed \cup Tiered(tier, pool, exclude), limit)
<1> DEFINE d == tier_candidates(tier, pool, exclude, More(limit, c))
           more == Tiered(tier, pool, exclude)
           u == merge_candidates(c, d)
<1>1. Finds(c, S) /\ Len(c) \in Nat /\ Len(c) <= limit /\ (Len(c) = limit \/ owed \subseteq S)
  BY DEF Reached, Finds
<1>2. PICK l \in Nat : l = More(limit, c) /\ Len(c) + l = limit
  <2>1. PICK n \in Nat : n = Len(c) /\ n <= limit
    BY <1>1
  <2>2. More(limit, c) = limit - n
    BY <2>1 DEF More
  <2> QED
    BY <2>1, <2>2
<1>3. PICK T \in SUBSET more : Reached(d, T, more, More(limit, c))
  <2>1. More(limit, c) \in Nat
    BY <1>2
  <2> QED
    BY <2>1, TierFinds
<1>4. Finds(d, T) /\ Len(d) \in Nat /\ Len(d) <= l /\ (Len(d) = l \/ more \subseteq T)
  BY <1>2, <1>3 DEF Reached, Finds
<1>5. S \cap T = {}
  BY DEF Tiered
<1> HIDE DEF d, more
<1>6. Finds(u, S \cup T) /\ Len(u) = Len(c) + Len(d)
  BY <1>1, <1>4, <1>5, MergeFinds
<1> HIDE DEF u
<1>7. Len(u) <= limit /\ (Len(u) = limit \/ (owed \cup more) \subseteq (S \cup T))
  BY <1>1, <1>2, <1>4, <1>6
<1>8. Reached(u, S \cup T, owed \cup more, limit)
  BY <1>6, <1>7 DEF Reached
<1> QED
  BY <1>8 DEF u, d, more

-----------------------------------------------------------------------------
(* What three tiers together add to a set of learnings. *)
Supplied(c, C, pool, S, limit) ==
    /\ C \subseteq pool \ S /\ \A i \in C : Matched(i)
    /\ Reached(c, C, {i \in pool \ S : Matched(i)}, limit)

ColdPool(scope) == {i \in vector_pool(Active, scope.project) : Fits(i, scope)}

LEMMA PoolsAreStored ==
    ASSUME Stocked, NEW scope
    PROVE  /\ ColdPool(scope) \subseteq Active /\ ColdPool(scope) \subseteq Id
           /\ Scoped(scope) \subseteq Active /\ Scoped(scope) \subseteq Id
           /\ vector_pool(Scoped(scope), scope.project) \subseteq Scoped(scope)
<1>1. Active \subseteq Id
  BY ActiveIs
<1>2. ColdPool(scope) \subseteq Active
  BY DEF ColdPool, vector_pool
<1>3. Scoped(scope) \subseteq Active
  BY DEF Scoped, surface_candidates
<1>4. vector_pool(Scoped(scope), scope.project) \subseteq Scoped(scope)
  BY DEF vector_pool
<1> QED
  BY <1>1, <1>2, <1>3, <1>4

LEMMA ColdFinds ==
    ASSUME Stocked, NEW scope, NEW S \in SUBSET Id, NEW found, Finds(found, S), NEW k,
           cold_limit(found, k) \in Nat
    PROVE  \E C : Supplied(cold_candidates(found, scope, k), C, ColdPool(scope), S, cold_limit(found, k))
<1> DEFINE limit == cold_limit(found, k)
           pool == ColdPool(scope)
           fts == tier_candidates("fts", pool, Ids(found), limit)
           trgm == tier_candidates("trgm", pool, Ids(found) \cup Ids(fts), More(limit, fts))
           words == merge_candidates(fts, trgm)
           vector == tier_candidates("vector", pool, Ids(found) \cup Ids(words), More(limit, words))
           cold == merge_candidates(words, vector)
<1>1. cold_candidates(found, scope, k) = cold
  BY Zenon DEF cold_candidates, ColdPool
<1>2. limit \in Nat /\ pool \in SUBSET Id /\ Ids(found) = S
  BY PoolsAreStored, IdsAre
<1>3. "fts" \in Tier /\ "trgm" \in Tier /\ "vector" \in Tier
  BY DEF Tier
<1> HIDE DEF limit, pool
<1>4. PICK F \in SUBSET Tiered("fts", pool, Ids(found)) : Reached(fts, F, Tiered("fts", pool, Ids(found)), limit)
  BY <1>2, <1>3, TierFinds
<1>5. Ids(fts) = F
  BY <1>4, IdsAre DEF Reached
<1> HIDE DEF fts
<1> DEFINE E == Ids(found) \cup Ids(fts)
           A == Tiered("fts", pool, Ids(found)) \cup Tiered("trgm", pool, E)
<1>6. PICK G \in SUBSET Tiered("trgm", pool, E) : Reached(words, F \cup G, A, limit)
  <2>1. F \in SUBSET E
    BY <1>5
  <2> HIDE DEF E
  <2>2. \E T \in SUBSET Tiered("trgm", pool, E) :
          Reached(merge_candidates(fts, tier_candidates("trgm", pool, E, More(limit, fts))),
                  F \cup T, Tiered("fts", pool, Ids(found)) \cup Tiered("trgm", pool, E), limit)
    BY <1>2, <1>3, <1>4, <2>1, NextTier
  <2> QED
    BY Zenon, <2>2 DEF E
<1>7. Ids(words) = F \cup G
  BY <1>6, IdsAre DEF Reached
<1> HIDE DEF words
<1> DEFINE D == Ids(found) \cup Ids(words)
           B == Tiered("vector", pool, D)
<1>8. PICK V \in SUBSET B : Reached(cold, (F \cup G) \cup V, A \cup B, limit)
  <2>1. F \cup G \in SUBSET D
    BY <1>7
  <2> HIDE DEF A, D
  <2>2. \E T \in SUBSET Tiered("vector", pool, D) :
          Reached(merge_candidates(words, tier_candidates("vector", pool, D, More(limit, words))),
                  (F \cup G) \cup T, A \cup Tiered("vector", pool, D), limit)
    BY <1>2, <1>3, <1>6, <2>1, NextTier
  <2> QED
    BY Zenon, <2>2 DEF D
<1> HIDE DEF cold
<1> DEFINE C == (F \cup G) \cup V
<1>9. C \subseteq pool \ S /\ \A i \in C : Matched(i)
  <2>1. \A i \in F : i \in pool \ S /\ learning[i].match["fts"] > 0
    BY <1>2 DEF Tiered
  <2>2. \A i \in G : i \in pool \ S /\ learning[i].match["trgm"] > 0
    BY <1>2 DEF Tiered
  <2>3. \A i \in V : i \in pool \ S /\ learning[i].match["vector"] > 0
    BY <1>2 DEF Tiered
  <2> QED
    BY <2>1, <2>2, <2>3 DEF Matched
<1>10. {i \in pool \ S : Matched(i)} \subseteq (A \cup B) \cup C
  <2> SUFFICES ASSUME NEW i \in pool \ S, Matched(i) PROVE i \in A \cup B \/ i \in C
    OBVIOUS
  <2>1. PICK tier \in {"fts", "trgm", "vector"} : learning[i].match[tier] > 0
    BY DEF Matched
  <2>2. CASE tier = "fts"
    BY <1>2, <2>1, <2>2 DEF Tiered
  <2>3. CASE tier = "trgm"
    BY <1>2, <1>5, <2>1, <2>3 DEF Tiered
  <2>4. CASE tier = "vector"
    BY <1>2, <1>7, <2>1, <2>4 DEF Tiered
  <2> QED
    BY <2>1, <2>2, <2>3, <2>4
<1> HIDE DEF A, B
<1>11. Finds(cold, C) /\ Len(cold) <= limit /\ (Len(cold) = limit \/ A \cup B \subseteq C)
  BY <1>8 DEF Reached
<1> HIDE DEF C
<1>12. Reached(cold, C, {i \in pool \ S : Matched(i)}, limit)
  BY <1>10, <1>11 DEF Reached
<1>13. Supplied(cold, C, pool, S, limit)
  BY Zenon, <1>9, <1>12 DEF Supplied
<1> QED
  BY Zenon, <1>1, <1>13 DEF limit, pool

-----------------------------------------------------------------------------
(* What AnswersKeepWhatWasFound says of one answer. *)
Keeps(a) ==
    LET shown == Ids(a.items) IN
    /\ Len(a.items) <= a.k /\ Cardinality(shown) = Len(a.items)
    /\ Own(a) \subseteq shown \/ (shown \subseteq Own(a) /\ Len(a.items) = a.k)
    /\ shown \ Own(a) \subseteq (IF a.fuzzy THEN Others(a) ELSE {})
    /\ a.fuzzy /\ Len(a.items) < a.k =>
          \/ vector_pool(Others(a), a.scope.project) \subseteq shown
          \/ a.of = "retrieve" /\ Cardinality(shown \ Own(a)) >= VectorLimit

Area(scope) == {i \in surface_candidates(Active, scope.surface) : Fits(i, scope)}

LEMMA HotLists == ASSUME Stocked, NEW scope PROVE Lists(Hot(scope), Area(scope)) /\ Area(scope) \subseteq Id
<1> DEFINE pool == surface_candidates(Active, scope.surface)
           fits == {i \in Id : Fits(i, scope)}
<1>1. Lists(graph_rank(pool), Active \cap pool)
  BY ActiveRanked, OnlyLists DEF graph_rank
<1>2. Hot(scope) = Only(graph_rank(pool), fits)
  BY DEF Hot
<1>3. Active \subseteq Id /\ pool \subseteq Active
  BY ActiveIs DEF surface_candidates
<1>4. (Active \cap pool) \cap fits = Area(scope)
  BY <1>3 DEF Area
<1> HIDE DEF pool, fits
<1>5. Lists(Only(graph_rank(pool), fits), (Active \cap pool) \cap fits)
  BY <1>1, OnlyLists
<1>6. Area(scope) \subseteq Id
  BY <1>3 DEF Area, pool
<1> QED
  BY Zenon, <1>2, <1>4, <1>5, <1>6

(* What the found learnings, and those added to them, make of an answer. *)
LEMMA FoundKeeps ==
    ASSUME NEW a, NEW S, Finds(a.items, S), Len(a.items) <= a.k,
           Own(a) \subseteq S \/ Len(a.items) = a.k, S \subseteq Own(a),
           a.fuzzy => Len(a.items) = a.k
    PROVE  Keeps(a)
<1>1. Ids(a.items) = S /\ Cardinality(S) = Len(a.items)
  BY IdsAre DEF Finds
<1>2. Len(a.items) = a.k => ~(Len(a.items) < a.k)
  BY DEF Finds
<1>3. S \ Own(a) = {}
  OBVIOUS
<1> QED
  BY <1>1, <1>2, <1>3 DEF Keeps

LEMMA AddedKeeps ==
    ASSUME NEW a, NEW S, NEW C, Finds(a.items, S \cup C), Len(a.items) <= a.k,
           S \subseteq Own(a), Own(a) \subseteq S, C \cap S = {},
           C = {} \/ (a.fuzzy /\ C \subseteq Others(a)),
           a.fuzzy /\ Len(a.items) < a.k =>
             vector_pool(Others(a), a.scope.project) \subseteq C
               \/ (a.of = "retrieve" /\ Cardinality(C) >= VectorLimit)
    PROVE  Keeps(a)
<1>1. Ids(a.items) = S \cup C /\ Cardinality(S \cup C) = Len(a.items)
  BY IdsAre DEF Finds
<1>2. (S \cup C) \ Own(a) = C
  OBVIOUS
<1>3. Own(a) \subseteq S \cup C /\ C \subseteq (IF a.fuzzy THEN Others(a) ELSE {})
  OBVIOUS
<1>4. C \subseteq S \cup C
  OBVIOUS
<1> DEFINE U == S \cup C
<1> HIDE DEF U
<1>5. Ids(a.items) = U /\ Cardinality(U) = Len(a.items) /\ U \ Own(a) = C /\ Own(a) \subseteq U /\ C \subseteq U
  BY Zenon, <1>1, <1>2, <1>3, <1>4 DEF U
<1>6. \/ ~(a.fuzzy /\ Len(a.items) < a.k)
      \/ vector_pool(Others(a), a.scope.project) \subseteq U
      \/ a.of = "retrieve" /\ Cardinality(U \ Own(a)) >= VectorLimit
  BY <1>5
<1> QED
  BY <1>3, <1>5, <1>6 DEF Keeps

LEMMA OwnIs ==
    ASSUME NEW a
    PROVE  /\ a.of = "search" => Own(a) = {i \in Scoped(a.scope) : learning[i].match["fts"] > 0}
           /\ a.of = "learnings" => Own(a) = {i \in Active : Said(i, a.scope)}
           /\ a.of = "retrieve" => Own(a) = Area(a.scope)
<1>1. CASE a.of = "search"
  <2>1. Own(a) = {i \in Scoped(a.scope) : learning[i].match["fts"] > 0}
    BY Zenon, <1>1 DEF Own
  <2> QED
    BY <1>1, <2>1
<1>2. CASE a.of = "learnings"
  <2>1. a.of # "search"
    BY <1>2
  <2>2. Own(a) = {i \in Active : Said(i, a.scope)}
    BY Zenon, <1>2, <2>1 DEF Own
  <2> QED
    BY <1>2, <2>2
<1>3. CASE a.of = "retrieve"
  <2>1. a.of # "search" /\ a.of # "learnings"
    BY <1>3
  <2>2. Own(a) = Area(a.scope)
    BY Zenon, <2>1 DEF Own, Area
  <2> QED
    BY <1>3, <2>2
<1> QED
  BY <1>1, <1>2, <1>3

LEMMA ColdLimitIs ==
    ASSUME NEW k \in Nat, NEW found, Len(found) \in Nat, Len(found) < k
    PROVE  /\ cold_limit(found, k) \in Nat /\ cold_limit(found, k) <= k - Len(found)
           /\ cold_limit(found, k) = VectorLimit \/ cold_limit(found, k) = k - Len(found)
<1>1. PICK n \in Nat : n = Len(found) /\ n < k
  OBVIOUS
<1>2. cold_limit(found, k) = IF VectorLimit < k - n THEN VectorLimit ELSE k - n
  BY <1>1 DEF cold_limit
<1> QED
  BY <1>1, <1>2, ScoresAreNumbers

LEMMA RetrieveKeeps ==
    ASSUME Stocked, NEW k \in Nat, NEW fuzzy \in BOOLEAN, NEW scope,
           NEW items,
           LET found == Plain(Take(Hot(scope), k))
               cold == IF fuzzy /\ Len(found) < k THEN cold_candidates(found, scope, k) ELSE <<>> IN
           items = IF cold = <<>> THEN found
                   ELSE rerank_candidates(merge_candidates(found, cold), k)
    PROVE  Keeps([of |-> "retrieve", k |-> k, fuzzy |-> fuzzy, scope |-> scope, items |-> items])
<1> DEFINE a == [of |-> "retrieve", k |-> k, fuzzy |-> fuzzy, scope |-> scope, items |-> items]
           found == Plain(Take(Hot(scope), k))
           cold == IF fuzzy /\ Len(found) < k THEN cold_candidates(found, scope, k) ELSE <<>>
           own == Area(scope)
<1>1. a.of = "retrieve" /\ a.k = k /\ a.fuzzy = fuzzy /\ a.scope = scope /\ a.items = items
  OBVIOUS
<1> HIDE DEF a
<1>2. Own(a) = own
  BY Zenon, <1>1, OwnIs
<1>3. items = IF cold = <<>> THEN found ELSE rerank_candidates(merge_candidates(found, cold), k)
  OBVIOUS
<1> HIDE DEF own
<1>4. PICK S : /\ Finds(found, S) /\ S \subseteq own /\ own \subseteq Id /\ Len(found) \in Nat
               /\ Len(found) <= k /\ (Len(found) = k \/ own \subseteq S)
  <2>1. Lists(Hot(scope), own) /\ own \subseteq Id
    BY HotLists DEF own
  <2>2. PICK S : Firsts(Take(Hot(scope), k), S, Hot(scope), own, k)
    BY <2>1, TakeLists
  <2>3. /\ Lists(Take(Hot(scope), k), S) /\ S \subseteq own /\ Len(Take(Hot(scope), k)) <= k
        /\ Len(Take(Hot(scope), k)) = k \/ own \subseteq S
    BY <2>2 DEF Firsts
  <2>4. Finds(found, S) /\ Len(found) = Len(Take(Hot(scope), k)) /\ Len(found) \in Nat
    BY <2>3, PlainFinds DEF Finds
  <2> QED
    BY <2>1, <2>3, <2>4
<1> HIDE DEF found
<1>5. CASE ~(fuzzy /\ Len(found) < k)
  <2>1. items = found
    BY <1>3, <1>5
  <2>2. a.fuzzy => Len(found) = k
    BY <1>1, <1>4, <1>5
  <2>3. /\ Finds(a.items, S) /\ Len(a.items) <= a.k /\ (Own(a) \subseteq S \/ Len(a.items) = a.k)
        /\ S \subseteq Own(a) /\ (a.fuzzy => Len(a.items) = a.k)
    BY Zenon, <1>1, <1>2, <1>4, <2>1, <2>2
  <2> QED
    BY <2>3, FoundKeeps DEF a
<1>6. CASE fuzzy /\ Len(found) < k
  <2>1. S = own /\ S \in SUBSET Id
    <3>1. own \subseteq S
      BY <1>4, <1>6
    <3> QED
      BY <1>4, <3>1
  <2> DEFINE limit == cold_limit(found, k)
             pool == ColdPool(scope)
  <2>2. limit \in Nat /\ limit <= k - Len(found) /\ (limit = VectorLimit \/ limit = k - Len(found))
    BY <1>4, <1>6, ColdLimitIs
  <2>3. cold = cold_candidates(found, scope, k)
    BY <1>6
  <2> HIDE DEF cold
  <2>4. PICK C : Supplied(cold, C, pool, S, limit)
    <3>1. \E C : Supplied(cold_candidates(found, scope, k), C, pool, S, limit)
      BY <1>4, <2>1, <2>2, ColdFinds
    <3> QED
      BY Zenon, <2>3, <3>1
  <2> HIDE DEF limit, pool
  <2>5. /\ C \subseteq pool \ S /\ \A i \in C : Matched(i)
        /\ Finds(cold, C) /\ Len(cold) <= limit
        /\ Len(cold) = limit \/ {i \in pool \ S : Matched(i)} \subseteq C
    BY <2>4 DEF Supplied, Reached
  <2>6. Len(cold) \in Nat /\ Cardinality(C) = Len(cold) /\ IsFiniteSet(C)
    BY <2>5 DEF Finds
  <2>7. C \cap S = {} /\ S \cap C = {}
    BY <2>5
  <2>8. Finds(items, S \cup C) /\ Len(items) = Len(found) + Len(cold)
    <3>1. CASE cold = <<>>
      <4>1. Len(cold) = 0 /\ C = {}
        BY <2>6, <3>1, FS_EmptySet
      <4>2. items = found /\ S \cup C = S
        BY <1>3, <3>1, <4>1
      <4>3. Len(found) = Len(found) + Len(cold)
        BY <1>4, <4>1
      <4> QED
        BY Zenon, <1>4, <4>2, <4>3
    <3>2. CASE cold # <<>>
      <4> DEFINE both == merge_candidates(found, cold)
                 U == S \cup C
      <4>1. Finds(both, U) /\ Len(both) = Len(found) + Len(cold)
        BY <1>4, <2>5, <2>7, MergeFinds
      <4>2. U \in SUBSET Id
        BY <2>1, <2>5, PoolsAreStored DEF pool
      <4>3. items = rerank_candidates(both, k)
        BY <1>3, <3>2
      <4> HIDE DEF both, U
      <4>4. Len(both) <= k
        BY <1>4, <2>2, <2>5, <2>6, <4>1
      <4>5. Finds(rerank_candidates(both, k), U) /\ Len(rerank_candidates(both, k)) = Len(both)
        BY <4>1, <4>2, <4>4, RerankFinds
      <4> QED
        BY Zenon, <4>1, <4>3, <4>5 DEF U
    <3> QED
      BY <3>1, <3>2
  <2>9. Len(items) <= k
    BY <1>4, <2>2, <2>5, <2>6, <2>8
  <2>10. C \subseteq Others(a) /\ vector_pool(Others(a), scope.project) \subseteq {i \in pool \ S : Matched(i)}
    <3>1. Others(a) = {i \in {j \in Active : Fits(j, scope)} \ S : Matched(i)}
      <4>1. a.of # "search"
        BY <1>1
      <4>2. Others(a) = {i \in {j \in Active : Fits(j, a.scope)} \ Own(a) : Matched(i)}
        BY Zenon, <4>1 DEF Others
      <4> QED
        BY Zenon, <1>1, <1>2, <2>1, <4>2
    <3>2. C \subseteq Others(a)
      BY <2>5, <3>1 DEF pool, ColdPool, vector_pool
    <3>3. vector_pool(Others(a), scope.project) \subseteq {i \in pool \ S : Matched(i)}
      BY <3>1 DEF pool, ColdPool, vector_pool
    <3> QED
      BY <3>2, <3>3
  <2>11. Len(items) < k => \/ vector_pool(Others(a), scope.project) \subseteq C
                           \/ Cardinality(C) >= VectorLimit
    <3>1. CASE Len(cold) = limit
      <4>1. Len(items) < k => limit = VectorLimit /\ Cardinality(C) = VectorLimit
        BY <1>4, <2>2, <2>6, <2>8, <3>1
      <4> QED
        BY <4>1, ScoresAreNumbers
    <3>2. CASE {i \in pool \ S : Matched(i)} \subseteq C
      BY <2>10, <3>2
    <3> QED
      BY <2>5, <3>1, <3>2
  <2>12. /\ Finds(a.items, S \cup C) /\ Len(a.items) <= a.k
         /\ S \subseteq Own(a) /\ Own(a) \subseteq S
         /\ C = {} \/ (a.fuzzy /\ C \subseteq Others(a))
    <3>1. S \subseteq own /\ own \subseteq S
      BY <2>1
    <3> QED
      BY Zenon, <1>1, <1>2, <1>6, <2>8, <2>9, <2>10, <3>1
  <2>13. a.fuzzy /\ Len(a.items) < a.k =>
           vector_pool(Others(a), a.scope.project) \subseteq C
             \/ (a.of = "retrieve" /\ Cardinality(C) >= VectorLimit)
    BY Zenon, <1>1, <2>11
  <2> QED
    BY <2>7, <2>12, <2>13, AddedKeeps DEF a
<1> QED
  BY <1>5, <1>6 DEF a

LEMMA NothingFinds == Finds(<<>>, {})
<1> DEFINE c == <<>>
<1>1. c \in [1..0 -> Candidates({})]
  OBVIOUS
<1>2. /\ \A i, j \in 1..0 : c[i].id = c[j].id => i = j
      /\ \A x \in {} : \E i \in 1..0 : c[i].id = x
  OBVIOUS
<1> HIDE DEF c
<1>3. Finds(c, {})
  BY <1>1, <1>2, Finding
<1> QED
  BY <1>3 DEF c

(* Nothing to add, and room for all. *)
LEMMA MergeNothing ==
    ASSUME NEW S, NEW c, Finds(c, S)
    PROVE  Finds(merge_candidates(c, <<>>), S) /\ Len(merge_candidates(c, <<>>)) = Len(c)
<1>1. S \cap {} = {} /\ S \cup {} = S
  OBVIOUS
<1>2. Finds(merge_candidates(c, <<>>), S \cup {}) /\ Len(merge_candidates(c, <<>>)) = Len(c) + Len(<<>>)
  BY <1>1, NothingFinds, MergeFinds
<1>3. Len(c) + Len(<<>>) = Len(c)
  BY DEF Finds
<1> QED
  BY Zenon, <1>1, <1>2, <1>3

LEMMA SearchKeeps ==
    ASSUME Stocked, NEW k \in Nat, NEW fuzzy \in BOOLEAN, NEW scope,
           NEW items,
           LET pool == Scoped(scope)
               fts == tier_candidates("fts", pool, {}, k)
               trgm == IF fuzzy THEN tier_candidates("trgm", pool, Ids(fts), More(k, fts)) ELSE <<>>
               words == merge_candidates(fts, trgm)
               vector == IF fuzzy /\ More(k, fts) > 0
                           THEN tier_candidates("vector", vector_pool(pool, scope.project), Ids(words),
                                                More(k, words))
                           ELSE <<>> IN
           items = Take(merge_candidates(words, vector), k)
    PROVE  Keeps([of |-> "search", k |-> k, fuzzy |-> fuzzy, scope |-> scope, items |-> items])
<1> DEFINE a == [of |-> "search", k |-> k, fuzzy |-> fuzzy, scope |-> scope, items |-> items]
           pool == Scoped(scope)
           fts == tier_candidates("fts", pool, {}, k)
           trgm == IF fuzzy THEN tier_candidates("trgm", pool, Ids(fts), More(k, fts)) ELSE <<>>
           words == merge_candidates(fts, trgm)
           near_pool == vector_pool(pool, scope.project)
           vector == IF fuzzy /\ More(k, fts) > 0
                       THEN tier_candidates("vector", near_pool, Ids(words), More(k, words)) ELSE <<>>
           all == merge_candidates(words, vector)
           own == Tiered("fts", pool, {})
<1>1. a.of = "search" /\ a.k = k /\ a.fuzzy = fuzzy /\ a.scope = scope /\ a.items = items
  OBVIOUS
<1> HIDE DEF a
<1>2. Own(a) = own
  <2>1. Own(a) = {i \in pool : learning[i].match["fts"] > 0}
    BY Zenon, <1>1, OwnIs
  <2>2. own = {i \in pool : learning[i].match["fts"] > 0}
    BY DEF Tiered
  <2> QED
    BY Zenon, <2>1, <2>2
<1>3. items = Take(all, k)
  BY Zenon
<1>4. pool \in SUBSET Id /\ near_pool \in SUBSET Id /\ near_pool \subseteq pool
  BY PoolsAreStored
<1>5. "fts" \in Tier /\ "trgm" \in Tier /\ "vector" \in Tier
  BY DEF Tier
<1> HIDE DEF pool, near_pool
<1>6. PICK F \in SUBSET own : Reached(fts, F, own, k)
  BY <1>4, <1>5, TierFinds
<1>7. /\ Ids(fts) = F /\ Finds(fts, F) /\ Len(fts) \in Nat /\ Len(fts) <= k /\ (Len(fts) = k \/ own \subseteq F)
      /\ IsFiniteSet(F) /\ Cardinality(F) = Len(fts)
  BY <1>6, IdsAre DEF Reached, Finds
<1> HIDE DEF own, fts
(* With as many as were asked for by their words, or without the fuzzy search. *)
<1>8. CASE ~fuzzy
  <2>1. trgm = <<>> /\ vector = <<>>
    BY <1>8
  <2>2. words = merge_candidates(fts, <<>>)
    BY Zenon, <2>1
  <2>3. Finds(words, F) /\ Len(words) = Len(fts)
    BY Zenon, <1>7, <2>2, MergeNothing
  <2> HIDE DEF words, vector
  <2>4. all = merge_candidates(words, <<>>)
    BY Zenon, <2>1
  <2>5. Finds(all, F) /\ Len(all) = Len(fts)
    BY Zenon, <2>3, <2>4, MergeNothing
  <2> HIDE DEF all
  <2>6. Finds(items, F) /\ Len(items) = Len(fts)
    BY <1>3, <1>7, <2>5, TakeFinds
  <2>7. /\ Finds(a.items, F) /\ Len(a.items) <= a.k /\ (Own(a) \subseteq F \/ Len(a.items) = a.k)
        /\ F \subseteq Own(a) /\ (a.fuzzy => Len(a.items) = a.k)
    <3>1. F \subseteq own
      BY <1>6
    <3> QED
      BY Zenon, <1>1, <1>2, <1>7, <1>8, <2>6, <3>1
  <2> QED
    BY <2>7, FoundKeeps DEF a
<1>9. CASE fuzzy
  <2> DEFINE more == Tiered("trgm", pool, F)
  <2>1. trgm = tier_candidates("trgm", pool, F, More(k, fts))
    BY <1>7, <1>9
  <2>2. PICK G \in SUBSET more : Reached(words, F \cup G, own \cup more, k)
    <3>1. \E T \in SUBSET Tiered("trgm", pool, F) :
            Reached(merge_candidates(fts, tier_candidates("trgm", pool, F, More(k, fts))),
                    F \cup T, own \cup Tiered("trgm", pool, F), k)
      BY <1>4, <1>5, <1>6, NextTier
    <3> QED
      BY Zenon, <2>1, <3>1
  <2> HIDE DEF trgm, words
  <2> DEFINE W == F \cup G
             D == Tiered("vector", near_pool, W)
  <2>3. Finds(words, W) /\ Ids(words) = W /\ Len(words) <= k /\ Len(words) \in Nat
        /\ IsFiniteSet(W) /\ Cardinality(W) = Len(words)
    BY <2>2, IdsAre DEF Reached, Finds
  <2>4. CASE Len(fts) = k
    <3>1. More(k, fts) = 0
      BY <1>7, <2>4 DEF More
    <3>2. vector = <<>>
      BY <3>1
    <3>3. F \in SUBSET W
      OBVIOUS
    <3> HIDE DEF vector, W
    <3>4. W = F
      <4>1. Cardinality(F) <= Cardinality(W) /\ (Cardinality(W) = Cardinality(F) => W = F)
        BY <2>3, <3>3, FS_Subset
      <4> QED
        BY <1>7, <2>3, <2>4, <4>1
    <3>5. Finds(all, W) /\ Len(all) = Len(words)
      BY Zenon, <2>3, <3>2, MergeNothing
    <3> HIDE DEF all
    <3>6. Finds(items, F) /\ Len(items) = k
      <4>1. Finds(items, W) /\ Len(items) = Len(words)
        BY <1>3, <2>3, <3>5, TakeFinds
      <4>2. Len(words) = k
        BY Zenon, <1>7, <2>3, <2>4, <3>4
      <4> QED
        BY Zenon, <3>4, <4>1, <4>2
    <3>7. /\ Finds(a.items, F) /\ Len(a.items) = a.k /\ F \subseteq Own(a)
      <4>1. F \subseteq own
        BY <1>6
      <4> QED
        BY Zenon, <1>1, <1>2, <3>6, <4>1
    <3>8. Len(a.items) <= a.k
      BY <1>1, <3>7
    <3> QED
      BY <3>7, <3>8, FoundKeeps DEF a
  <2>5. CASE Len(fts) # k
    <3>1. More(k, fts) > 0
      BY <1>7, <2>5 DEF More
    <3>2. vector = tier_candidates("vector", near_pool, W, More(k, words))
      BY Zenon, <1>9, <2>3, <3>1
    <3>3. F \subseteq own /\ own \subseteq F
      BY <1>6, <1>7, <2>5
    <3>4. PICK V \in SUBSET D : Reached(all, W \cup V, (own \cup more) \cup D, k)
      <4>1. W \in SUBSET W
        OBVIOUS
      <4>2. Reached(words, W, own \cup more, k)
        BY <2>2
      <4> HIDE DEF W, more
      <4>3. \E T \in SUBSET Tiered("vector", near_pool, W) :
              Reached(merge_candidates(words, tier_candidates("vector", near_pool, W, More(k, words))),
                      W \cup T, (own \cup more) \cup Tiered("vector", near_pool, W), k)
        BY <1>4, <1>5, <4>1, <4>2, NextTier
      <4> QED
        BY Zenon, <3>2, <4>3
    <3> HIDE DEF all
    <3> DEFINE C == (W \cup V) \ F
               U == W \cup V
    <3>5. F \cup C = U /\ C \cap F = {} /\ F \subseteq U
      OBVIOUS
    <3>6. Finds(all, U) /\ Len(all) <= k /\ (Len(all) = k \/ (own \cup more) \cup D \subseteq U)
      BY <3>4 DEF Reached
    <3>7. \A i \in C : i \in pool \ F /\ Matched(i)
      <4>1. \A i \in G : i \in pool \ F /\ learning[i].match["trgm"] > 0
        BY DEF Tiered
      <4>2. \A i \in V : i \in pool /\ learning[i].match["vector"] > 0
        BY <1>4 DEF Tiered
      <4> QED
        BY <4>1, <4>2 DEF Matched
    <3>8. \A i \in near_pool \ F : Matched(i) => i \in own \/ i \in more \/ i \in D \/ i \in C
      <4> SUFFICES ASSUME NEW i \in near_pool \ F, Matched(i) PROVE i \in own \/ i \in more \/ i \in D \/ i \in C
        OBVIOUS
      <4>1. PICK tier \in {"fts", "trgm", "vector"} : learning[i].match[tier] > 0
        BY DEF Matched
      <4>2. CASE tier = "fts"
        BY <1>4, <4>1, <4>2 DEF own, Tiered
      <4>3. CASE tier = "trgm"
        BY <1>4, <4>1, <4>3 DEF Tiered
      <4>4. CASE tier = "vector"
        BY <4>1, <4>4 DEF Tiered
      <4> QED
        BY <4>1, <4>2, <4>3, <4>4
    <3> HIDE DEF U, C, D, more
    <3>9. Finds(items, U) /\ Len(items) = Len(all) /\ Len(items) <= k
      <4>1. Finds(items, U) /\ Len(items) = Len(all)
        BY <1>3, <3>6, TakeFinds
      <4> QED
        BY <3>6, <4>1
    <3>10. Others(a) = {i \in pool \ F : Matched(i)}
      <4>1. Others(a) = {i \in Scoped(a.scope) \ Own(a) : Matched(i)}
        BY Zenon, <1>1 DEF Others
      <4>2. own = F
        BY <3>3
      <4> QED
        BY Zenon, <1>1, <1>2, <4>1, <4>2 DEF pool
    <3>11. C \subseteq Others(a)
      BY <3>7, <3>10
    <3>12. Len(items) < k => vector_pool(Others(a), scope.project) \subseteq C
      <4> SUFFICES ASSUME Len(items) < k PROVE vector_pool(Others(a), scope.project) \subseteq C
        OBVIOUS
      <4>1. (own \cup more) \cup D \subseteq U
        BY <3>6, <3>9
      <4>2. vector_pool(Others(a), scope.project) \subseteq near_pool \ F
        BY <3>10 DEF vector_pool, near_pool
      <4>3. \A i \in vector_pool(Others(a), scope.project) : Matched(i)
        BY <3>10 DEF vector_pool
      <4>4. \A i \in U : i \in F \/ i \in C
        BY <3>5
      <4> QED
        BY <3>8, <4>1, <4>2, <4>3, <4>4
    <3>13. /\ Finds(a.items, F \cup C) /\ Len(a.items) <= a.k
           /\ F \subseteq Own(a) /\ Own(a) \subseteq F
           /\ C = {} \/ (a.fuzzy /\ C \subseteq Others(a))
      BY Zenon, <1>1, <1>2, <1>9, <3>3, <3>5, <3>9, <3>11
    <3>14. a.fuzzy /\ Len(a.items) < a.k =>
             vector_pool(Others(a), a.scope.project) \subseteq C
               \/ (a.of = "retrieve" /\ Cardinality(C) >= VectorLimit)
      BY Zenon, <1>1, <3>12
    <3> QED
      BY <3>5, <3>13, <3>14, AddedKeeps DEF a
  <2> QED
    BY <2>4, <2>5
<1> QED
  BY <1>8, <1>9 DEF a

LEMMA TextKeeps ==
    ASSUME Stocked, NEW k \in Nat, NEW scope,
           NEW items,
           LET rows == Ordered([i \in Active |-> {j \in Active : j > i}]) IN
           items = Plain(Take(Only(rows, {i \in Id : Said(i, scope)}), k))
    PROVE  Keeps([of |-> "learnings", k |-> k, fuzzy |-> FALSE, scope |-> scope, items |-> items])
<1> DEFINE a == [of |-> "learnings", k |-> k, fuzzy |-> FALSE, scope |-> scope, items |-> items]
           before == [i \in Active |-> {j \in Active : j > i}]
           rows == Ordered(before)
           says == {i \in Id : Said(i, scope)}
           own == {i \in Active : Said(i, scope)}
           given == Take(Only(rows, says), k)
<1>1. a.of = "learnings" /\ a.k = k /\ a.fuzzy = FALSE /\ a.scope = scope /\ a.items = items
  OBVIOUS
<1> HIDE DEF a
<1>2. Own(a) = own
  BY Zenon, <1>1, OwnIs
<1>3. items = Plain(given)
  BY Zenon
<1>4. IsFiniteSet(Active) /\ Active \subseteq Id /\ \A i \in Active : i \in Int
  BY ActiveIs DEF Stocked
<1>5. /\ before \in [Active -> SUBSET Active]
      /\ \A p \in Active : p \notin before[p]
      /\ \A p, q, r \in Active : p \in before[q] /\ q \in before[r] => p \in before[r]
      /\ \A p, q \in Active : p = q \/ p \in before[q] \/ q \in before[p]
  BY <1>4
<1> HIDE DEF before
<1>6. Lists(rows, Active)
  BY <1>4, <1>5, OrderedLists
<1>7. own = Active \cap says
  BY <1>4
<1> HIDE DEF rows, says
<1>8. Lists(Only(rows, says), Active \cap says)
  BY <1>6, OnlyLists
<1>9. Lists(Only(rows, says), own)
  BY Zenon, <1>7, <1>8
<1> HIDE DEF own
<1>10. PICK S : Firsts(given, S, Only(rows, says), own, k)
  BY <1>9, TakeLists
<1> HIDE DEF given
<1>11. Lists(given, S) /\ S \subseteq own /\ Len(given) <= k /\ (Len(given) = k \/ own \subseteq S)
  BY <1>10 DEF Firsts
<1>12. Finds(items, S) /\ Len(items) = Len(given)
  BY Zenon, <1>3, <1>11, PlainFinds
<1>13. /\ Finds(a.items, S) /\ Len(a.items) <= a.k /\ (Own(a) \subseteq S \/ Len(a.items) = a.k)
       /\ S \subseteq Own(a) /\ (a.fuzzy => Len(a.items) = a.k)
  BY Zenon, <1>1, <1>2, <1>11, <1>12
<1> QED
  BY <1>13, FoundKeeps DEF a

-----------------------------------------------------------------------------
(* Answers are kept as long as what is stored is. *)
LEMMA KeepsStill ==
    ASSUME UNCHANGED <<learning, target, near>>, NEW a, Keeps(a)
    PROVE  Keeps(a)'
<1>1. learning' = learning
  OBVIOUS
<1>2. Id' = Id /\ Active' = Active
  BY <1>1 DEF Active, Id
<1>3. \A i : Fits(i, a.scope)' <=> Fits(i, a.scope)
  BY <1>1 DEF Fits
<1>4. \A i : (Said(i, a.scope)' <=> Said(i, a.scope)) /\ (Matched(i)' <=> Matched(i))
  BY <1>1 DEF Said, Matched
<1>5. Scoped(a.scope)' = Scoped(a.scope)
  BY <1>1, <1>2, <1>3 DEF Scoped, surface_candidates
<1>6. surface_candidates(Active, a.scope.surface)' = surface_candidates(Active, a.scope.surface)
  BY <1>1, <1>2 DEF surface_candidates
<1>7. /\ {i \in Scoped(a.scope) : learning[i].match["fts"] > 0}'
           = {i \in Scoped(a.scope) : learning[i].match["fts"] > 0}
      /\ {i \in Active : Said(i, a.scope)}' = {i \in Active : Said(i, a.scope)}
      /\ {i \in surface_candidates(Active, a.scope.surface) : Fits(i, a.scope)}'
           = {i \in surface_candidates(Active, a.scope.surface) : Fits(i, a.scope)}
  BY <1>1, <1>2, <1>3, <1>4, <1>5, <1>6
<1>8. Own(a)' = Own(a)
  BY Zenon, <1>7 DEF Own
<1>9. {i \in Active : Fits(i, a.scope)}' = {i \in Active : Fits(i, a.scope)}
  BY <1>2, <1>3
<1>10. Others(a)' = Others(a)
  BY <1>4, <1>5, <1>8, <1>9 DEF Others
<1>11. vector_pool(Others(a), a.scope.project)' = vector_pool(Others(a), a.scope.project)
  BY <1>1, <1>10 DEF vector_pool
<1> QED
  BY <1>8, <1>10, <1>11 DEF Keeps, Ids

LEMMA StockedStays == Stocked /\ UNCHANGED <<learning, target, near>> => Stocked'
<1> SUFFICES ASSUME Stocked, UNCHANGED <<learning, target, near>> PROVE Stocked'
  OBVIOUS
<1>1. Id' = Id
  BY DEF Id
<1> QED
  BY <1>1 DEF Stocked, IsLearning

RetrievalInvariant == Stocked /\ \A a \in answer : Keeps(a)

LEMMA AnswerStep == RetrievalInvariant /\ [RetrievalNext]_retrievalVars => RetrievalInvariant'
<1> SUFFICES ASSUME RetrievalInvariant, [RetrievalNext]_retrievalVars PROVE RetrievalInvariant'
  OBVIOUS
<1>1. UNCHANGED <<learning, target, near>>
  BY DEF RetrievalNext, retrieve, search, invoke_search_learnings, retrievalVars
<1>2. Stocked /\ Stocked'
  BY <1>1, StockedStays DEF RetrievalInvariant
<1>3. ASSUME NEW k \in Limits, NEW fuzzy \in BOOLEAN, NEW s \in ScopesAsked, retrieve(k, fuzzy, s)
      PROVE  \A a \in answer' : Keeps(a)
  <2> DEFINE scope == with_defaults(s)
             found == Plain(Take(Hot(scope), k))
             cold == IF fuzzy /\ Len(found) < k THEN cold_candidates(found, scope, k) ELSE <<>>
             items == IF cold = <<>> THEN found ELSE rerank_candidates(merge_candidates(found, cold), k)
             a == [of |-> "retrieve", k |-> k, fuzzy |-> fuzzy, scope |-> scope, items |-> items]
  <2>1. answer' = {a}
    BY Zenon, <1>3 DEF retrieve
  <2>2. k \in Nat
    BY QuestionsAreTyped
  <2>3. Keeps(a)
    BY <1>2, <2>2, RetrieveKeeps
  <2> QED
    BY <2>1, <2>3
<1>4. ASSUME NEW k \in Limits, NEW fuzzy \in BOOLEAN, NEW s \in ScopesAsked, search(k, fuzzy, s)
      PROVE  \A a \in answer' : Keeps(a)
  <2> DEFINE pool == Scoped(s)
             fts == tier_candidates("fts", pool, {}, k)
             trgm == IF fuzzy THEN tier_candidates("trgm", pool, Ids(fts), More(k, fts)) ELSE <<>>
             words == merge_candidates(fts, trgm)
             vector == IF fuzzy /\ More(k, fts) > 0
                         THEN tier_candidates("vector", vector_pool(pool, s.project), Ids(words), More(k, words))
                         ELSE <<>>
             items == Take(merge_candidates(words, vector), k)
             a == [of |-> "search", k |-> k, fuzzy |-> fuzzy, scope |-> s, items |-> items]
  <2>1. answer' = {a}
    BY Zenon, <1>4 DEF search
  <2>2. k \in Nat
    BY QuestionsAreTyped
  <2>3. Keeps(a)
    BY <1>2, <2>2, SearchKeeps
  <2> QED
    BY <2>1, <2>3
<1>5. ASSUME NEW k \in Limits, NEW s \in TextsAsked, invoke_search_learnings(k, s)
      PROVE  \A a \in answer' : Keeps(a)
  <2> DEFINE rows == Ordered([i \in Active |-> {j \in Active : j > i}])
             items == Plain(Take(Only(rows, {i \in Id : Said(i, s)}), k))
             a == [of |-> "learnings", k |-> k, fuzzy |-> FALSE, scope |-> s, items |-> items]
  <2>1. answer' = {a}
    BY Zenon, <1>5 DEF invoke_search_learnings
  <2>2. k \in Nat
    BY QuestionsAreTyped
  <2>3. Keeps(a)
    BY <1>2, <2>2, TextKeeps
  <2> QED
    BY <2>1, <2>3
<1>6. ASSUME UNCHANGED retrievalVars PROVE \A a \in answer' : Keeps(a)
  BY <1>6 DEF retrievalVars, RetrievalInvariant
<1>7. \A a \in answer' : Keeps(a)
  BY <1>3, <1>4, <1>5, <1>6 DEF RetrievalNext
<1>8. \A a \in answer' : Keeps(a)'
  BY <1>1, <1>7, KeepsStill
<1> QED
  BY <1>2, <1>8 DEF RetrievalInvariant

LEMMA AnswersStart == RetrievalInit => RetrievalInvariant
  BY QuestionsAreTyped DEF RetrievalInit, RetrievalInvariant, Stocked, Id

(* An answer shows at most k learnings, each once; the fuzzy search takes   *)
(* the place of none it owes, adds only active matches within the filters,  *)
(* and below the limits leaves out none: retrieval/service.py.              *)
THEOREM AnswersAreWhole == RetrievalSpec => []AnswersKeepWhatWasFound
<1>1. RetrievalInvariant => AnswersKeepWhatWasFound
  BY Zenon DEF RetrievalInvariant, AnswersKeepWhatWasFound, Keeps
<1> QED
  BY <1>1, AnswersStart, AnswerStep, PTL DEF RetrievalSpec

-----------------------------------------------------------------------------
(* Drafts *)

(* A list of what stands at some places, whatever it is. *)
Stands(t, s, P) ==
    /\ IsList(t) /\ Len(t) = Cardinality(P)
    /\ \A k \in 1..Len(t) : \E p \in P : t[k] = s[p]
    /\ \A p \in P : \E k \in 1..Len(t) : t[k] = s[p]
    /\ \A k, l \in 1..Len(t) : k # l => \E p, q \in P : p # q /\ t[k] = s[p] /\ t[l] = s[q]
    /\ 1 \in P => Len(t) > 0 /\ t[1] = s[1]
    /\ P = {} => t = <<>>

LEMMA AtStand ==
    ASSUME NEW n \in Nat, NEW P \in SUBSET (1..n), NEW s
    PROVE  Stands(At(s, P), s, P)
<1> DEFINE before == [i \in P |-> {j \in P : j < i}]
           order == Ordered(before)
           c == Cardinality(P)
           t == [k \in 1..c |-> s[order[k]]]
<1>1. IsFiniteSet(P) /\ P \subseteq Nat /\ c \in Nat
  <2>1. IsFiniteSet(1..n)
    BY FS_Interval
  <2>2. IsFiniteSet(P)
    BY <2>1, FS_Subset
  <2> QED
    BY <2>2, FS_CardinalityType
<1>2. /\ before \in [P -> SUBSET P]
      /\ \A p \in P : p \notin before[p]
      /\ \A p, q, r \in P : p \in before[q] /\ q \in before[r] => p \in before[r]
      /\ \A p, q \in P : p = q \/ p \in before[q] \/ q \in before[p]
  BY <1>1
<1>3. Lists(order, P) /\ Len(order) = c /\ \A k \in 1..c : Cardinality(before[order[k]]) = k - 1
  <2> HIDE DEF before
  <2> QED
    BY <1>1, <1>2, OrderedLists
<1>4. At(s, P) = t
  BY DEF At
<1> HIDE DEF order
<1>5. 1 \in P => 1 \in 1..c /\ order[1] = 1
  <2> SUFFICES ASSUME 1 \in P PROVE 1 \in 1..c /\ order[1] = 1
    OBVIOUS
  <2>1. c # 0
    BY <1>1, FS_EmptySet
  <2>2. 1 \in 1..c
    BY <1>1, <2>1
  <2>3. order[1] \in P /\ Cardinality(before[order[1]]) = 0
    <3> HIDE DEF before, c
    <3>1. order \in [1..c -> P] /\ Cardinality(before[order[1]]) = 1 - 1
      BY Zenon, <1>3, <2>2 DEF Lists
    <3> QED
      BY <2>2, <3>1
  <2>4. IsFiniteSet(before[order[1]])
    BY <1>1, <1>2, <2>3, FS_Subset
  <2>5. before[order[1]] = {}
    BY <2>3, <2>4, FS_EmptySet
  <2>6. before[order[1]] = {j \in P : j < order[1]}
    BY <2>3
  <2>7. ~(1 < order[1])
    BY <2>5, <2>6
  <2>8. PICK o \in 1..n : o = order[1]
    BY <2>3
  <2>9. o = 1
    BY <2>7, <2>8
  <2> QED
    BY Zenon, <2>2, <2>8, <2>9
<1>6. /\ \A k \in 1..c : order[k] \in P
      /\ \A k, l \in 1..c : order[k] = order[l] => k = l
      /\ \A p \in P : \E k \in 1..c : order[k] = p
  BY <1>3 DEF Lists
<1>7. P = {} => c = 0
  BY FS_EmptySet
<1> HIDE DEF before, c
<1>8. /\ \A k \in 1..c : t[k] = s[order[k]]
      /\ DOMAIN t = 1..c /\ t = [k \in 1..c |-> t[k]]
  OBVIOUS
<1> HIDE DEF t
<1>9. IsList(t) /\ Len(t) = c
  BY <1>1, <1>8, FunctionIsList
<1>10. P = {} => t = <<>>
  <2>1. t \in Seq(ToSet(t))
    BY <1>9 DEF IsList
  <2> QED
    BY <1>7, <1>9, <2>1, EmptySeq
<1>11. /\ \A k \in 1..c : \E p \in P : t[k] = s[p]
       /\ \A p \in P : \E k \in 1..c : t[k] = s[p]
  BY <1>6, <1>8
<1>12. \A k, l \in 1..c : k # l => \E p, q \in P : p # q /\ t[k] = s[p] /\ t[l] = s[q]
  BY <1>6, <1>8
<1>13. 1 \in P => c > 0 /\ t[1] = s[1]
  BY <1>1, <1>5, <1>8
<1>14. c = Cardinality(P)
  BY DEF c
<1>15. Stands(t, s, P)
  <2>1. Len(t) = c
    BY <1>9
  <2>2. Len(t) = Cardinality(P)
    BY Zenon, <1>14, <2>1
  <2>3. /\ \A k \in 1..Len(t) : \E p \in P : t[k] = s[p]
        /\ \A p \in P : \E k \in 1..Len(t) : t[k] = s[p]
    BY Zenon, <1>11, <2>1
  <2>4. \A k, l \in 1..Len(t) : k # l => \E p, q \in P : p # q /\ t[k] = s[p] /\ t[l] = s[q]
    BY Zenon, <1>12, <2>1
  <2>5. 1 \in P => Len(t) > 0 /\ t[1] = s[1]
    BY Zenon, <1>13, <2>1
  <2> QED
    BY Zenon, <1>9, <1>10, <2>2, <2>3, <2>4, <2>5 DEF Stands
<1> QED
  BY Zenon, <1>4, <1>15

(* Without repetitions, a list begins as it did and holds what it held. *)
LEMMA DedupeKeeps ==
    ASSUME NEW s, IsList(s)
    PROVE  /\ IsList(dedupe(s))
           /\ \A k \in 1..Len(s) : \E l \in 1..Len(dedupe(s)) : dedupe(s)[l] = s[k]
           /\ s # <<>> => Len(dedupe(s)) > 0 /\ dedupe(s)[1] = s[1]
           /\ s = <<>> => dedupe(s) = <<>>
<1> DEFINE P == {n \in DOMAIN s : \A m \in 1..(n - 1) : s[m] # s[n]}
<1>1. PICK n \in Nat : n = Len(s)
  BY IsListed
<1>2. DOMAIN s = 1..n
  BY <1>1, IsListed
<1>3. P \in SUBSET (1..n)
  BY <1>2
<1>4. dedupe(s) = At(s, P)
  BY DEF dedupe
<1>5. \A k \in 1..n : \E p \in P : s[p] = s[k]
  <2> SUFFICES ASSUME NEW k \in 1..n PROVE \E p \in P : s[p] = s[k]
    OBVIOUS
  <2> DEFINE T == {m \in 1..n : s[m] = s[k]}
  <2>1. T \subseteq Nat /\ T # {}
    OBVIOUS
  <2>2. PICK m \in T : \A l \in T : m <= l
    BY <2>1, LeastNat
  <2>3. m \in P
    <3>1. m \in 1..n /\ s[m] = s[k]
      BY <2>2
    <3>2. ASSUME NEW l \in 1..(m - 1) PROVE s[l] # s[m]
      <4>1. l \in 1..n /\ ~(m <= l)
        BY <3>1
      <4> QED
        BY <2>2, <3>1, <4>1
    <3> QED
      BY <1>2, <3>1, <3>2
  <2> QED
    BY <2>2, <2>3
<1>6. n > 0 => 1 \in P
  BY <1>2
<1>7. s # <<>> => n > 0
  BY <1>1, EmptySeq DEF IsList
<1>8. s = <<>> => P = {}
  <2>1. s = <<>> => n = 0
    BY <1>1, EmptySeq
  <2> QED
    BY <1>2, <2>1
<1> HIDE DEF P
<1>9. /\ IsList(At(s, P))
      /\ \A p \in P : \E k \in 1..Len(At(s, P)) : At(s, P)[k] = s[p]
      /\ 1 \in P => Len(At(s, P)) > 0 /\ At(s, P)[1] = s[1]
      /\ P = {} => At(s, P) = <<>>
  <2>1. Stands(At(s, P), s, P)
    BY <1>3, AtStand
  <2> QED
    BY Zenon, <2>1 DEF Stands
<1>10. \A k \in 1..n : \E l \in 1..Len(At(s, P)) : At(s, P)[l] = s[k]
  <2> SUFFICES ASSUME NEW k \in 1..n PROVE \E l \in 1..Len(At(s, P)) : At(s, P)[l] = s[k]
    OBVIOUS
  <2>1. PICK p \in P : s[p] = s[k]
    BY <1>5
  <2> QED
    BY <1>9, <2>1
<1> QED
  BY <1>1, <1>4, <1>6, <1>7, <1>8, <1>9, <1>10

(* The texts of a list are a list, empty if none is there. *)
LEMMA TextsAreListed ==
    ASSUME NEW s, IsList(s)
    PROVE  IsList(Texts(s)) /\ ((\A k \in 1..Len(s) : s[k] = {}) => Texts(s) = <<>>)
<1> DEFINE f == [k \in DOMAIN s |-> CHOOSE t \in s[k] : TRUE]
           P == {k \in DOMAIN s : s[k] # {}}
<1>1. PICK n \in Nat : n = Len(s)
  BY IsListed
<1>2. DOMAIN s = 1..n
  BY <1>1, IsListed
<1>3. P \in SUBSET (1..n)
  BY <1>2
<1>4. Texts(s) = At(f, P)
  BY DEF Texts
<1>5. (\A k \in 1..n : s[k] = {}) => P = {}
  BY <1>2
<1> HIDE DEF P, f
<1>6. IsList(At(f, P)) /\ (P = {} => At(f, P) = <<>>)
  BY <1>3, AtStand DEF Stands
<1> QED
  BY <1>1, <1>4, <1>5, <1>6

LEMMA CountsAreFinite == \A n \in Nat : IsFiniteSet(1..n)
  BY FS_Interval

(* Lists one after another are a list, of what is in them. *)
LEMMA ChainedLists ==
    ASSUME NEW parts, IsList(parts), \A k \in 1..Len(parts) : IsList(parts[k])
    PROVE  /\ IsList(Chained(parts))
           /\ \A n \in 1..Len(Chained(parts)) :
                \E k \in 1..Len(parts) : \E l \in 1..Len(parts[k]) : Chained(parts)[n] = parts[k][l]
<1>1. PICK m \in Nat : m = Len(parts)
  BY IsListed
<1>2. DOMAIN parts = 1..m
  BY <1>1, IsListed
<1>3. \A k \in 1..m : Len(parts[k]) \in Nat /\ DOMAIN parts[k] = 1..Len(parts[k])
  BY <1>1, IsListed
<1> DEFINE part(k) == {k} \X DOMAIN parts[k]
           places == UNION {part(k) : k \in DOMAIN parts}
           before == [p \in places |-> {q \in places : q[1] < p[1] \/ (q[1] = p[1] /\ q[2] < p[2])}]
           order == Ordered(before)
           c == Cardinality(places)
           t == [n \in 1..c |-> parts[order[n][1]][order[n][2]]]
<1>4. Chained(parts) = t
  BY DEF Chained
<1>5. \A p \in places : /\ p[1] \in 1..m /\ p[2] \in 1..Len(parts[p[1]]) /\ p[2] \in Nat
                        /\ p = <<p[1], p[2]>>
  <2> SUFFICES ASSUME NEW k \in 1..m, NEW p \in part(k)
               PROVE  p[1] \in 1..m /\ p[2] \in 1..Len(parts[p[1]]) /\ p[2] \in Nat /\ p = <<p[1], p[2]>>
    BY <1>2
  <2>1. p[1] = k /\ p[2] \in DOMAIN parts[k] /\ p = <<p[1], p[2]>>
    OBVIOUS
  <2>2. p[2] \in 1..Len(parts[k])
    BY <1>3, <2>1
  <2>3. Len(parts[k]) \in Nat
    BY <1>3
  <2>4. p[2] \in Nat
    BY <2>2, <2>3
  <2> QED
    BY <2>1, <2>2, <2>4
<1>6. IsFiniteSet(places)
  <2>1. \A k \in 1..m : IsFiniteSet(part(k))
    <3> SUFFICES ASSUME NEW k \in 1..m PROVE IsFiniteSet(part(k))
      OBVIOUS
    <3>1. IsFiniteSet(DOMAIN parts[k])
      BY <1>3, FS_Interval
    <3>2. IsFiniteSet({k})
      BY FS_Singleton
    <3> QED
      BY <3>1, <3>2, FS_Product
  <2> DEFINE all == {part(k) : k \in 1..m}
  <2>2. IsFiniteSet(all)
    <3>1. IsFiniteSet(1..m)
      BY CountsAreFinite
    <3> DEFINE f == [k \in 1..m |-> part(k)]
    <3>2. f \in Surjection(1..m, all)
      <4>1. f \in [1..m -> all]
        OBVIOUS
      <4>2. \A y \in all : \E k \in 1..m : f[k] = y
        OBVIOUS
      <4> HIDE DEF f, all
      <4> QED BY <4>1, <4>2, Zenon DEF Surjection
    <3> HIDE DEF f, all
    <3> QED
      BY <3>1, <3>2, FS_Surjection
  <2>3. \A x \in all : IsFiniteSet(x)
    BY <2>1
  <2>4. places = UNION all
    BY <1>2
  <2> HIDE DEF places, all
  <2>5. IsFiniteSet(UNION all)
    BY <2>2, <2>3, FS_UNION
  <2> QED
    BY <2>4, <2>5
<1>7. c \in Nat
  BY <1>6, FS_CardinalityType
<1> HIDE DEF places, part
<1>8. /\ before \in [places -> SUBSET places]
      /\ \A p \in places : p \notin before[p]
      /\ \A p, q, r \in places : p \in before[q] /\ q \in before[r] => p \in before[r]
      /\ \A p, q \in places : p = q \/ p \in before[q] \/ q \in before[p]
  <2>1. \A p \in places : p[1] \in Nat /\ p[2] \in Nat
    BY <1>5
  <2>2. \A p, q \in places : p[1] = q[1] /\ p[2] = q[2] => p = q
    BY Zenon, <1>5
  <2>3. \A p, q \in places : p \in before[q] <=> p[1] < q[1] \/ (p[1] = q[1] /\ p[2] < q[2])
    OBVIOUS
  <2>4. before \in [places -> SUBSET places]
    OBVIOUS
  <2> HIDE DEF before
  <2>5. \A p \in places : p \notin before[p]
    BY <2>1, <2>3
  <2>6. \A p, q, r \in places : p \in before[q] /\ q \in before[r] => p \in before[r]
    BY <2>1, <2>3
  <2>7. \A p, q \in places : p = q \/ p \in before[q] \/ q \in before[p]
    BY <2>1, <2>2, <2>3
  <2> QED
    BY <2>4, <2>5, <2>6, <2>7
<1> HIDE DEF before, c
<1>9. Lists(order, places) /\ Len(order) = c
  BY <1>6, <1>8, OrderedLists DEF c
<1> HIDE DEF order
<1>10. \A n \in 1..c : order[n] \in places
  BY <1>9 DEF Lists
<1>11. /\ DOMAIN t = 1..c /\ t = [n \in 1..c |-> t[n]]
       /\ \A n \in 1..c : t[n] = parts[order[n][1]][order[n][2]]
  OBVIOUS
<1> HIDE DEF t
<1>12. IsList(t) /\ Len(t) = c
  BY <1>7, <1>11, FunctionIsList
<1>13. \A n \in 1..Len(t) : \E k \in 1..m : \E l \in 1..Len(parts[k]) : t[n] = parts[k][l]
  <2> SUFFICES ASSUME NEW n \in 1..c
               PROVE  \E k \in 1..m : \E l \in 1..Len(parts[k]) : t[n] = parts[k][l]
    BY <1>12
  <2>1. PICK p \in places : p = order[n]
    BY <1>10
  <2>2. t[n] = parts[p[1]][p[2]] /\ p[1] \in 1..m /\ p[2] \in 1..Len(parts[p[1]])
    BY <1>5, <1>11, <2>1
  <2> QED
    BY Zenon, <2>2
<1> QED
  BY <1>1, <1>4, <1>12, <1>13

LEMMA ConcatIsList ==
    ASSUME NEW s, NEW t, IsList(s), IsList(t)
    PROVE  /\ IsList(s \o t) /\ Len(s \o t) = Len(s) + Len(t)
           /\ \A k \in 1..(Len(s) + Len(t)) : (s \o t)[k] = IF k <= Len(s) THEN s[k] ELSE t[k - Len(s)]
<1> DEFINE S == ToSet(s) \cup ToSet(t)
           u == s \o t
<1>1. /\ Len(s) \in Nat /\ s \in [1..Len(s) -> ToSet(s)]
      /\ Len(t) \in Nat /\ t \in [1..Len(t) -> ToSet(t)]
  BY IsListed
<1>2. s \in Seq(S) /\ t \in Seq(S)
  BY <1>1, SeqDef
<1>3. /\ u \in Seq(S) /\ Len(u) = Len(s) + Len(t)
      /\ \A k \in 1..(Len(s) + Len(t)) : u[k] = IF k <= Len(s) THEN s[k] ELSE t[k - Len(s)]
  BY <1>2, ConcatProperties
<1>4. DOMAIN u = 1..(Len(s) + Len(t)) /\ u = [k \in 1..(Len(s) + Len(t)) |-> u[k]]
  BY <1>3, LenProperties
<1>5. Len(s) + Len(t) \in Nat
  BY <1>1
<1> HIDE DEF u
<1>6. IsList(u)
  BY <1>4, <1>5, FunctionIsList
<1> QED
  BY <1>3, <1>6 DEF u

(* The first so many of a list. *)
Cut(t, s, n) ==
    \E m \in Nat : /\ m = IF Len(s) < n THEN Len(s) ELSE n
                   /\ IsList(t) /\ Len(t) = m
                   /\ \A k \in 1..m : t[k] = s[k]

LEMMA TakeIsList ==
    ASSUME NEW s, IsList(s), NEW n \in Nat
    PROVE  Cut(Take(s, n), s, n)
<1>1. PICK l \in Nat : l = Len(s)
  BY IsListed
<1>2. PICK m \in Nat : m = IF l < n THEN l ELSE n
  OBVIOUS
<1> DEFINE t == SubSeq(s, 1, m)
<1>3. Take(s, n) = t
  BY <1>1, <1>2 DEF Take
<1>4. \A k \in 1..m : s[k] \in ToSet(s)
  BY <1>1, <1>2, IsListed
<1>5. /\ t \in Seq(ToSet(s)) /\ Len(t) = IF 1 <= m THEN m - 1 + 1 ELSE 0
      /\ \A i \in 1..m - 1 + 1 : t[i] = s[1 + i - 1]
  BY <1>4, SubSeqProperties
<1> HIDE DEF t
<1>6. Len(t) = m /\ \A k \in 1..m : t[k] = s[k]
  BY <1>5
<1>7. DOMAIN t = 1..m /\ t = [k \in 1..m |-> t[k]]
  BY <1>5, <1>6, LenProperties
<1>8. IsList(t)
  BY <1>7, FunctionIsList
<1>9. Cut(t, s, n)
  BY <1>1, <1>2, <1>6, <1>8 DEF Cut
<1> QED
  BY <1>3, <1>9

-----------------------------------------------------------------------------
Traced ==
    /\ IsList(trace.attempts) /\ IsList(trace.events) /\ IsList(trace.notes) /\ IsList(trace.submitted)
    /\ trace.retry_count \subseteq Nat
    /\ \A k \in 1..Len(trace.attempts) :
         IsList(trace.attempts[k].errors) /\ IsList(trace.attempts[k].failed_tests)

(* A run that has nothing to tell. *)
Quiet(tr) ==
    /\ Len(tr.attempts) < 2 /\ ~tr.had_retry /\ tr.retry_count \subseteq {0}
    /\ tr.events = <<>> /\ tr.notes = <<>>
    /\ \A k \in DOMAIN tr.attempts :
         /\ tr.attempts[k].errors = <<>> /\ tr.attempts[k].failed_tests = <<>>
         /\ tr.attempts[k].says = {}

LEMMA NothingRejected ==
    ASSUME Traced
    PROVE  /\ IsList(validator_failure_modes)
           /\ Quiet(trace) => validator_rejection_attempts = <<>>
<1> DEFINE P == {k \in DOMAIN trace.attempts : Rejected(trace.attempts[k])}
           r == validator_rejection_attempts
           e == [k \in DOMAIN r |-> r[k].errors]
<1>1. PICK n \in Nat : n = Len(trace.attempts) /\ DOMAIN trace.attempts = 1..n
  BY IsListed DEF Traced
<1>2. P \in SUBSET (1..n)
  BY <1>1
<1>3. Quiet(trace) => P = {}
  BY DEF Quiet, Rejected
<1>4. r = At(trace.attempts, P)
  BY DEF validator_rejection_attempts
<1> HIDE DEF P
<1>5. Stands(r, trace.attempts, P)
  <2>1. Stands(At(trace.attempts, P), trace.attempts, P)
    BY <1>2, AtStand
  <2> QED
    BY Zenon, <1>4, <2>1
<1> HIDE DEF r
<1>6. PICK c \in Nat : c = Len(r) /\ DOMAIN r = 1..c
  BY <1>5, IsListed DEF Stands
<1>7. \A k \in 1..c : IsList(r[k].errors)
  <2> SUFFICES ASSUME NEW k \in 1..c PROVE IsList(r[k].errors)
    OBVIOUS
  <2>1. PICK p \in P : r[k] = trace.attempts[p]
    BY <1>5, <1>6 DEF Stands
  <2>2. IsList(trace.attempts[p].errors)
    BY <1>1, <1>2 DEF Traced
  <2> QED
    BY Zenon, <2>1, <2>2
<1>8. DOMAIN e = 1..c /\ e = [k \in 1..c |-> e[k]] /\ \A k \in 1..c : e[k] = r[k].errors
  BY <1>6
<1>9. validator_failure_modes = dedupe(Texts(Chained(e)))
  BY DEF validator_failure_modes, r
<1> HIDE DEF e
<1>10. IsList(e) /\ Len(e) = c
  BY <1>8, FunctionIsList
<1>11. \A k \in 1..Len(e) : IsList(e[k])
  BY <1>7, <1>8, <1>10
<1>12. IsList(Chained(e))
  BY <1>10, <1>11, ChainedLists
<1>13. IsList(Texts(Chained(e)))
  BY <1>12, TextsAreListed
<1>14. IsList(validator_failure_modes)
  BY <1>9, <1>13, DedupeKeeps
<1> QED
  BY <1>3, <1>5, <1>14 DEF Stands, r

LEMMA NothingFailed ==
    ASSUME Traced
    PROVE  /\ IsList(failed_test_names)
           /\ Quiet(trace) => failed_test_names = <<>>
<1> DEFINE label(a) == IF a.says \cap {"test_failed", "pytest_failed", "failing test"} # {}
                         THEN a.label ELSE {}
           one(k) == <<label(trace.attempts[k])>>
           e == [k \in DOMAIN trace.attempts |-> trace.attempts[k].failed_tests \o one(k)]
<1>1. PICK n \in Nat : n = Len(trace.attempts) /\ DOMAIN trace.attempts = 1..n
  BY IsListed DEF Traced
<1>2. failed_test_names = dedupe(Texts(Chained(e)))
  BY DEF failed_test_names
<1>3. \A k : IsList(one(k)) /\ Len(one(k)) = 1 /\ one(k)[1] = label(trace.attempts[k])
  <2> SUFFICES ASSUME NEW k PROVE IsList(one(k)) /\ Len(one(k)) = 1 /\ one(k)[1] = label(trace.attempts[k])
    OBVIOUS
  <2> HIDE DEF label
  <2>1. DOMAIN one(k) = 1..1 /\ one(k) = [i \in 1..1 |-> one(k)[i]] /\ one(k)[1] = label(trace.attempts[k])
    OBVIOUS
  <2> HIDE DEF one
  <2> QED
    BY <2>1, FunctionIsList
<1>4. \A k \in 1..n : Quiet(trace) => label(trace.attempts[k]) = {}
  BY <1>1 DEF Quiet
<1> HIDE DEF label, one
<1>5. DOMAIN e = 1..n /\ e = [k \in 1..n |-> e[k]]
      /\ \A k \in 1..n : e[k] = trace.attempts[k].failed_tests \o one(k)
  BY <1>1
<1> HIDE DEF e
<1>6. IsList(e) /\ Len(e) = n
  BY <1>5, FunctionIsList
<1>7. \A k \in 1..n : IsList(e[k]) /\ (Quiet(trace) => \A i \in 1..Len(e[k]) : e[k][i] = {})
  <2> SUFFICES ASSUME NEW k \in 1..n
               PROVE  IsList(e[k]) /\ (Quiet(trace) => \A i \in 1..Len(e[k]) : e[k][i] = {})
    OBVIOUS
  <2> DEFINE f == trace.attempts[k].failed_tests
             g == one(k)
  <2>1. IsList(f) /\ IsList(g) /\ Len(g) = 1 /\ e[k] = f \o g
    BY <1>1, <1>3, <1>5 DEF Traced
  <2>2. Quiet(trace) => f = <<>> /\ g[1] = {}
    BY <1>1, <1>3, <1>4 DEF Quiet
  <2> HIDE DEF f, g
  <2>3. /\ IsList(f \o g) /\ Len(f \o g) = Len(f) + Len(g)
        /\ \A i \in 1..(Len(f) + Len(g)) : (f \o g)[i] = IF i <= Len(f) THEN f[i] ELSE g[i - Len(f)]
    BY <2>1, ConcatIsList
  <2>4. Quiet(trace) => Len(f) = 0
    BY <2>2, EmptySeq
  <2>5. Quiet(trace) => \A i \in 1..Len(f \o g) : (f \o g)[i] = {}
    BY <2>1, <2>2, <2>3, <2>4
  <2> QED
    BY <2>1, <2>3, <2>5
<1> DEFINE all == Chained(e)
<1>8. IsList(all) /\ \A i \in 1..Len(all) : \E k \in 1..Len(e) : \E l \in 1..Len(e[k]) : all[i] = e[k][l]
  BY <1>6, <1>7, ChainedLists
<1>9. Quiet(trace) => \A i \in 1..Len(all) : all[i] = {}
  BY <1>6, <1>7, <1>8
<1> HIDE DEF all
<1>10. IsList(Texts(all)) /\ (Quiet(trace) => Texts(all) = <<>>)
  BY <1>8, <1>9, TextsAreListed
<1>11. IsList(dedupe(Texts(all))) /\ (Quiet(trace) => dedupe(Texts(all)) = <<>>)
  BY <1>10, DedupeKeeps
<1> QED
  BY <1>2, <1>11 DEF all

LEMMA NothingNoted ==
    ASSUME Traced
    PROVE  /\ IsList(reviewer_correction_notes)
           /\ Quiet(trace) => reviewer_correction_notes = <<>>
<1> DEFINE e == [k \in DOMAIN trace.events |->
                   IF "reviewer" \in trace.events[k].kind THEN trace.events[k].note ELSE {}]
           all == trace.notes \o e
<1>1. PICK n \in Nat : n = Len(trace.events) /\ DOMAIN trace.events = 1..n
  BY IsListed DEF Traced
<1>2. reviewer_correction_notes = dedupe(Texts(all))
  BY DEF reviewer_correction_notes
<1>3. DOMAIN e = 1..n /\ e = [k \in 1..n |-> e[k]]
  BY <1>1
<1> HIDE DEF e
<1>4. IsList(e) /\ Len(e) = n
  BY <1>3, FunctionIsList
<1>5. IsList(all) /\ Len(all) = Len(trace.notes) + n
  BY <1>4, ConcatIsList DEF Traced
<1>6. Quiet(trace) => Len(all) = 0
  <2> SUFFICES ASSUME Quiet(trace) PROVE Len(all) = 0
    OBVIOUS
  <2>1. trace.notes = <<>> /\ trace.events = <<>>
    BY DEF Quiet
  <2>2. Len(trace.notes) = 0 /\ n = 0
    BY <1>1, <2>1, EmptySeq
  <2> HIDE DEF all
  <2> QED
    BY <1>5, <2>2
<1> HIDE DEF all
<1>7. Quiet(trace) => \A k \in 1..Len(all) : all[k] = {}
  BY <1>6
<1>8. IsList(Texts(all)) /\ (Quiet(trace) => Texts(all) = <<>>)
  BY <1>5, <1>7, TextsAreListed
<1>9. IsList(dedupe(Texts(all))) /\ (Quiet(trace) => dedupe(Texts(all)) = <<>>)
  BY <1>8, DedupeKeeps
<1> QED
  BY <1>2, <1>9

(* What the evidence of a draft shows, and what only room can cut from it. *)
Backed(shown, tr) ==
    /\ shown[1] = <<"run">>
    /\ \/ \A n \in DOMAIN tr.submitted : <<"submitted", tr.submitted[n]>> \in ToSet(shown)
       \/ Len(shown) = _MAX_EVIDENCE_ITEMS

LEMMA TaggedIsList ==
    ASSUME NEW scheme, NEW s, IsList(s)
    PROVE  /\ IsList(Tagged(scheme, s)) /\ Len(Tagged(scheme, s)) = Len(s)
           /\ \A k \in 1..Len(s) : Tagged(scheme, s)[k] = <<scheme, s[k]>>
<1> DEFINE t == [k \in DOMAIN s |-> <<scheme, s[k]>>]
<1>1. PICK n \in Nat : n = Len(s) /\ DOMAIN s = 1..n
  BY IsListed
<1>2. Tagged(scheme, s) = t
  BY DEF Tagged
<1>3. DOMAIN t = 1..n /\ t = [k \in 1..n |-> t[k]] /\ \A k \in 1..n : t[k] = <<scheme, s[k]>>
  BY <1>1
<1> HIDE DEF t
<1>4. IsList(t) /\ Len(t) = n
  BY <1>3, FunctionIsList
<1> QED
  BY <1>1, <1>2, <1>3, <1>4

LEMMA EvidenceIsBacked ==
    ASSUME Traced, NEW extra, IsList(extra)
    PROVE  Backed(evidence(extra), trace)
<1> DEFINE ran == <<<<"run">>>>
           sub == Tagged("submitted", trace.submitted)
           all == ran \o extra
           u == all \o sub
           d == dedupe(u)
           t == Take(d, 16)
<1>1. evidence(extra) = t
  BY DEF evidence, _MAX_EVIDENCE_ITEMS
<1>2. PICK n \in Nat : n = Len(trace.submitted) /\ DOMAIN trace.submitted = 1..n
  BY IsListed DEF Traced
<1>3. IsList(sub) /\ Len(sub) = n /\ \A k \in 1..n : sub[k] = <<"submitted", trace.submitted[k]>>
  BY <1>2, TaggedIsList DEF Traced
<1>4. IsList(ran) /\ Len(ran) = 1 /\ ran[1] = <<"run">>
  <2>1. DOMAIN ran = 1..1 /\ ran = [k \in 1..1 |-> ran[k]] /\ ran[1] = <<"run">>
    OBVIOUS
  <2> HIDE DEF ran
  <2> QED
    BY <2>1, FunctionIsList
<1> HIDE DEF ran, sub
<1>5. PICK m \in Nat : m = Len(extra)
  BY IsListed
<1>6. IsList(all) /\ Len(all) = 1 + m /\ all[1] = <<"run">>
  <2>1. /\ IsList(all) /\ Len(all) = Len(ran) + Len(extra)
        /\ \A k \in 1..(Len(ran) + Len(extra)) : all[k] = IF k <= Len(ran) THEN ran[k] ELSE extra[k - Len(ran)]
    BY <1>4, ConcatIsList
  <2> HIDE DEF all
  <2> QED
    BY <1>4, <1>5, <2>1
<1> HIDE DEF all
<1>7. IsList(u) /\ Len(u) = 1 + m + n /\ u[1] = <<"run">> /\ \A k \in 1..n : u[1 + m + k] = sub[k]
  <2>1. /\ IsList(u) /\ Len(u) = Len(all) + Len(sub)
        /\ \A k \in 1..(Len(all) + Len(sub)) : u[k] = IF k <= Len(all) THEN all[k] ELSE sub[k - Len(all)]
    BY <1>3, <1>6, ConcatIsList
  <2> HIDE DEF u
  <2>2. \A k \in 1..(1 + m + n) : u[k] = IF k <= 1 + m THEN all[k] ELSE sub[k - (1 + m)]
    BY <1>3, <1>6, <2>1
  <2>3. u[1] = <<"run">>
    BY <1>6, <2>2
  <2>4. ASSUME NEW k \in 1..n PROVE u[1 + m + k] = sub[k]
    <3>1. 1 + m + k \in 1..(1 + m + n) /\ ~(1 + m + k <= 1 + m) /\ 1 + m + k - (1 + m) = k
      OBVIOUS
    <3> QED
      BY <2>2, <3>1
  <2> QED
    BY <1>3, <1>6, <2>1, <2>3, <2>4
<1> HIDE DEF u
<1>8. u # <<>>
  <2>1. u = <<>> => Len(u) = 0
    BY EmptySeq
  <2> QED
    BY <1>7, <2>1
<1>9. /\ IsList(d) /\ Len(d) > 0 /\ d[1] = <<"run">>
      /\ \A k \in 1..Len(u) : \E l \in 1..Len(d) : d[l] = u[k]
  BY <1>7, <1>8, DedupeKeeps
<1> HIDE DEF d
<1>10. PICK l \in Nat : l = Len(d)
  BY <1>9, IsListed
<1>11. PICK c \in Nat : /\ c = IF Len(d) < 16 THEN Len(d) ELSE 16
                        /\ IsList(t) /\ Len(t) = c /\ \A k \in 1..c : t[k] = d[k]
  <2>1. Cut(t, d, 16)
    BY <1>9, TakeIsList
  <2> HIDE DEF t
  <2> QED
    BY Zenon, <2>1 DEF Cut
<1> HIDE DEF t
<1>12. t[1] = <<"run">>
  BY <1>9, <1>10, <1>11
<1>13. Len(t) = 16 \/ \A k \in 1..n : <<"submitted", trace.submitted[k]>> \in ToSet(t)
  <2> SUFFICES ASSUME Len(t) # 16, NEW k \in 1..n PROVE <<"submitted", trace.submitted[k]>> \in ToSet(t)
    OBVIOUS
  <2>1. c = l
    BY <1>10, <1>11
  <2>2. 1 + m + k \in 1..Len(u)
    BY <1>7
  <2>3. PICK i \in 1..l : d[i] = u[1 + m + k]
    BY <1>9, <1>10, <2>2
  <2>4. t[i] = d[i] /\ i \in 1..Len(t)
    BY <1>11, <2>1
  <2>5. t[i] \in ToSet(t)
    BY <1>11, <2>4, IsListed
  <2> QED
    BY <1>3, <1>7, <2>3, <2>4, <2>5
<1> QED
  BY <1>1, <1>2, <1>12, <1>13 DEF Backed, _MAX_EVIDENCE_ITEMS

Kinds == <<"pitfall", "tooling", "process-rule", "decision-followup", "user-preference">>

LEMMA EachIsBacked ==
    ASSUME Traced
    PROVE  \A n \in 1..5 : Drafted[n].type = Kinds[n] /\ Backed(Drafted[n].evidence, trace)
<1> DEFINE e1 == Tagged("validator", validator_failure_modes)
           e2 == Tagged("test", failed_test_names)
           e3 == <<<<"retry-count", retry_count>>>>
           e4 == <<<<"blocked">>, <<"resolved">>>>
           e5 == Tagged("reviewer", reviewer_correction_notes)
<1>1. IsList(e1) /\ IsList(e2) /\ IsList(e5)
  BY NothingRejected, NothingFailed, NothingNoted, TaggedIsList
<1>2. IsList(e3)
  <2>1. DOMAIN e3 = 1..1 /\ e3 = [k \in 1..1 |-> e3[k]]
    OBVIOUS
  <2> HIDE DEF e3
  <2> QED
    BY <2>1, FunctionIsList
<1>3. IsList(e4)
  <2>1. DOMAIN e4 = 1..2 /\ e4 = [k \in 1..2 |-> e4[k]]
    OBVIOUS
  <2> HIDE DEF e4
  <2> QED
    BY <2>1, FunctionIsList
<1>4. /\ Drafted[1].type = "pitfall" /\ Drafted[1].evidence = evidence(e1)
      /\ Drafted[2].type = "tooling" /\ Drafted[2].evidence = evidence(e2)
      /\ Drafted[3].type = "process-rule" /\ Drafted[3].evidence = evidence(e3)
      /\ Drafted[4].type = "decision-followup" /\ Drafted[4].evidence = evidence(e4)
      /\ Drafted[5].type = "user-preference" /\ Drafted[5].evidence = evidence(e5)
  BY DEF Drafted, build_draft
<1> HIDE DEF e1, e2, e3, e4, e5
<1>5. /\ Backed(evidence(e1), trace) /\ Backed(evidence(e2), trace) /\ Backed(evidence(e3), trace)
      /\ Backed(evidence(e4), trace) /\ Backed(evidence(e5), trace)
  BY <1>1, <1>2, <1>3, EvidenceIsBacked
<1> QED
  BY <1>4, <1>5 DEF Kinds

(* Retries are counted, and counted as some where there were some. *)
LEMMA RetriesAreCounted ==
    ASSUME Traced
    PROVE  /\ trace.had_retry \/ Len(trace.attempts) > 1 => 0 \in trace.retry_count \/ retry_count > 0
           /\ Quiet(trace) => ~(retry_count > 0)
<1>1. Len(trace.attempts) \in Nat
  BY IsListed DEF Traced
<1>2. CASE trace.retry_count # {}
  <2>1. PICK n \in trace.retry_count : n = CHOOSE m \in trace.retry_count : TRUE
    BY <1>2
  <2>2. retry_count = n /\ n \in Nat
    BY <1>2, <2>1 DEF retry_count, Traced
  <2>3. Quiet(trace) => n = 0
    BY <2>1 DEF Quiet
  <2>4. n = 0 \/ n > 0
    BY <2>2
  <2>5. n = 0 => 0 \in trace.retry_count
    OBVIOUS
  <2>6. /\ n > 0 => retry_count > 0
        /\ n = 0 => ~(retry_count > 0)
    BY <2>2
  <2> QED
    BY Zenon, <2>3, <2>4, <2>5, <2>6
<1>3. CASE trace.retry_count = {}
  <2>1. retry_count = IF Len(trace.attempts) > 1 THEN Len(trace.attempts) - 1
                      ELSE IF trace.had_retry THEN 1 ELSE 0
    BY <1>3 DEF retry_count
  <2>2. Len(trace.attempts) > 1 => retry_count > 0
    BY <1>1, <2>1
  <2>3. trace.had_retry => retry_count > 0
    BY <1>1, <2>1
  <2>4. Quiet(trace) => retry_count = 0
    BY <1>1, <2>1 DEF Quiet
  <2> QED
    BY <2>2, <2>3, <2>4
<1> QED
  BY <1>2, <1>3

LEMMA NothingBlocked == Quiet(trace) => ~was_blocked_then_resolved
<1> SUFFICES ASSUME Quiet(trace) PROVE ~was_blocked_then_resolved
  OBVIOUS
<1>1. DOMAIN trace.events = {}
  BY DEF Quiet
<1> QED
  BY Zenon, <1>1 DEF was_blocked_then_resolved

-----------------------------------------------------------------------------
(* What the property says of drafts made from a trace. *)
Grounded(drafts, tr) ==
    /\ \A k, l \in DOMAIN drafts : k # l => drafts[k].type # drafts[l].type
    /\ \A k \in DOMAIN drafts : Backed(drafts[k].evidence, tr)
    /\ tr.had_retry \/ Len(tr.attempts) > 1 =>
         0 \in tr.retry_count \/ \E k \in DOMAIN drafts : drafts[k].type = "process-rule"
    /\ Quiet(tr) => drafts = <<>>

LEMMA CalledIsGrounded == ASSUME Traced PROVE Grounded(Called, trace)
<1> DEFINE P == {n \in 1..5 : \/ n = 1 /\ validator_rejection_attempts # <<>>
                              \/ n = 2 /\ failed_test_names # <<>>
                              \/ n = 3 /\ retry_count > 0
                              \/ n = 4 /\ was_blocked_then_resolved
                              \/ n = 5 /\ reviewer_correction_notes # <<>>}
<1>1. Called = At(Drafted, P)
  BY DEF Called
<1>2. P \in SUBSET (1..5)
  OBVIOUS
<1>3. Quiet(trace) => P = {}
  BY NothingRejected, NothingFailed, RetriesAreCounted, NothingBlocked, NothingNoted
<1>4. trace.had_retry \/ Len(trace.attempts) > 1 => 0 \in trace.retry_count \/ 3 \in P
  BY RetriesAreCounted
<1> HIDE DEF P
<1>5. Stands(Called, Drafted, P)
  <2>1. Stands(At(Drafted, P), Drafted, P)
    BY <1>2, AtStand
  <2> QED
    BY Zenon, <1>1, <2>1
<1>6. PICK n \in Nat : n = Len(Called) /\ DOMAIN Called = 1..n
  BY <1>5, IsListed DEF Stands
<1>7. \A p \in 1..5 : Drafted[p].type = Kinds[p] /\ Backed(Drafted[p].evidence, trace)
  BY EachIsBacked
<1>8. \A k \in 1..n : Backed(Called[k].evidence, trace)
  <2> SUFFICES ASSUME NEW k \in 1..n PROVE Backed(Called[k].evidence, trace)
    OBVIOUS
  <2>1. PICK p \in P : Called[k] = Drafted[p]
    BY <1>5, <1>6 DEF Stands
  <2>2. Backed(Drafted[p].evidence, trace)
    BY <1>2, <1>7
  <2> QED
    BY Zenon, <2>1, <2>2
<1>9. \A k, l \in 1..n : k # l => Called[k].type # Called[l].type
  <2> SUFFICES ASSUME NEW k \in 1..n, NEW l \in 1..n, k # l PROVE Called[k].type # Called[l].type
    OBVIOUS
  <2>1. PICK p \in P, q \in P : p # q /\ Called[k] = Drafted[p] /\ Called[l] = Drafted[q]
    BY <1>5, <1>6 DEF Stands
  <2>2. Drafted[p].type = Kinds[p] /\ Drafted[q].type = Kinds[q] /\ p \in 1..5 /\ q \in 1..5
    BY <1>2, <1>7
  <2>3. Kinds[p] # Kinds[q]
    BY <2>1, <2>2 DEF Kinds
  <2> QED
    BY Zenon, <2>1, <2>2, <2>3
<1>10. 3 \in P => \E k \in 1..n : Called[k].type = "process-rule"
  <2> SUFFICES ASSUME 3 \in P PROVE \E k \in 1..n : Called[k].type = "process-rule"
    OBVIOUS
  <2>1. PICK k \in 1..n : Called[k] = Drafted[3]
    BY <1>5, <1>6 DEF Stands
  <2>2. Drafted[3].type = "process-rule"
    BY <1>7 DEF Kinds
  <2> QED
    BY <2>1, <2>2
<1>11. Quiet(trace) => Called = <<>>
  BY <1>3, <1>5 DEF Stands
<1> QED
  BY Zenon, <1>4, <1>6, <1>8, <1>9, <1>10, <1>11 DEF Grounded

LEMMA MadeAreGrounded ==
    ASSUME \A d \in drafted : d.made => Grounded(d.drafts, trace)
    PROVE  DraftsAreGrounded
<1> SUFFICES ASSUME NEW d \in drafted, d.made, Grounded(d.drafts, trace)
             PROVE  /\ \A k, l \in DOMAIN d.drafts : k # l => d.drafts[k].type # d.drafts[l].type
                    /\ \A k \in DOMAIN d.drafts :
                         /\ d.drafts[k].evidence[1] = <<"run">>
                         /\ \/ \A n \in DOMAIN trace.submitted : Cites(d.drafts[k], <<"submitted", trace.submitted[n]>>)
                            \/ Len(d.drafts[k].evidence) = _MAX_EVIDENCE_ITEMS
                    /\ trace.had_retry \/ Len(trace.attempts) > 1 =>
                         0 \in trace.retry_count \/ OfType(d, "process-rule") # {}
                    /\ Quiet(trace) => d.drafts = <<>>
  BY Zenon DEF DraftsAreGrounded, Quiet
<1>1. \A k \in DOMAIN d.drafts :
         /\ d.drafts[k].evidence[1] = <<"run">>
         /\ \/ \A n \in DOMAIN trace.submitted : Cites(d.drafts[k], <<"submitted", trace.submitted[n]>>)
            \/ Len(d.drafts[k].evidence) = _MAX_EVIDENCE_ITEMS
  BY Zenon DEF Grounded, Backed, Cites
<1>2. (\E k \in DOMAIN d.drafts : d.drafts[k].type = "process-rule") => OfType(d, "process-rule") # {}
  BY Zenon DEF OfType
<1> QED
  BY Zenon, <1>1, <1>2 DEF Grounded

(* The drafts stay what was drawn from the trace. *)
DraftInvariant == Traced /\ \A d \in drafted : d.made => Grounded(d.drafts, trace)

(* Every draft is grounded in its run, whatever the trace and the limits: *)
(* draft_learnings, learnings/draft.py.                                   *)
THEOREM DraftsCiteTheRun == DraftsSpec => []DraftsAreGrounded
<1>1. DraftsInit => DraftInvariant
  <2> SUFFICES ASSUME DraftsInit PROVE DraftInvariant
    OBVIOUS
  <2>1. /\ IsList(trace.attempts) /\ IsList(trace.events) /\ IsList(trace.notes) /\ IsList(trace.submitted)
        /\ trace.retry_count \subseteq Nat
        /\ \A k \in DOMAIN trace.attempts :
             IsList(trace.attempts[k].errors) /\ IsList(trace.attempts[k].failed_tests)
    BY TracesAreLists DEF DraftsInit
  <2>2. DOMAIN trace.attempts = 1..Len(trace.attempts)
    BY <2>1, IsListed
  <2> QED
    BY <2>1, <2>2 DEF DraftInvariant, Traced, DraftsInit
<1>2. DraftInvariant /\ [draft_learnings]_draftVars => DraftInvariant'
  <2> SUFFICES ASSUME DraftInvariant, [draft_learnings]_draftVars PROVE DraftInvariant'
    OBVIOUS
  <2>1. trace' = trace
    BY DEF draft_learnings, draftVars
  <2>2. Traced'
    BY <2>1 DEF DraftInvariant, Traced
  <2>3. Grounded(Called, trace)
    BY CalledIsGrounded DEF DraftInvariant
  <2>4. ASSUME NEW d \in drafted', d.made PROVE Grounded(d.drafts, trace)
    <3>1. CASE draft_learnings
      <4>1. d = IF \A k \in DOMAIN Called : Fitting(Called[k])
                  THEN [made |-> TRUE, drafts |-> Called] ELSE [made |-> FALSE, drafts |-> <<>>]
        BY Zenon, <2>4, <3>1 DEF draft_learnings
      <4>2. d = [made |-> TRUE, drafts |-> Called]
        BY <2>4, <4>1
      <4>3. d.drafts = Called
        BY <4>2
      <4> QED
        BY Zenon, <2>3, <4>3
    <3>2. CASE UNCHANGED draftVars
      BY <2>4, <3>2 DEF DraftInvariant, draftVars
    <3> QED
      BY <3>1, <3>2
  <2> QED
    BY Zenon, <2>1, <2>2, <2>4 DEF DraftInvariant
<1>3. DraftInvariant => DraftsAreGrounded
  BY MadeAreGrounded DEF DraftInvariant
<1> QED
  BY <1>1, <1>2, <1>3, PTL DEF DraftsSpec

-----------------------------------------------------------------------------
(* Analytics *)

Marks(count) == UNION {{x} \X (1..count[x]) : x \in DOMAIN count}

LEMMA MarksAre ==
    ASSUME NEW D, NEW count, DOMAIN count = D
    PROVE  \A p : p \in Marks(count) <=> \E d \in D : \E n \in 1..count[d] : p = <<d, n>>
<1> DEFINE part(x) == {x} \X (1..count[x])
<1>1. \A p : p \in Marks(count) <=> \E d \in D : p \in part(d)
  BY DEF Marks
<1>2. \A d, p : p \in part(d) <=> \E n \in 1..count[d] : p = <<d, n>>
  OBVIOUS
<1> HIDE DEF part
<1> QED
  BY <1>1, <1>2

(* Counted by kind, each is counted once. *)
LEMMA KindsAddUp ==
    ASSUME NEW S, IsFiniteSet(S), NEW D, NEW kind \in [S -> D],
           NEW count, DOMAIN count = D,
           \A d \in D : count[d] = Cardinality({x \in S : kind[x] = d})
    PROVE  Sum(count) = Cardinality(S)
<1> DEFINE of(d) == {x \in S : kind[x] = d}
           marks == Marks(count)
           line == [d \in D |-> CHOOSE f \in Bijection(1..count[d], of(d)) : TRUE]
           g == [p \in marks |-> line[p[1]][p[2]]]
<1>1. \A d \in D : line[d] \in Bijection(1..count[d], of(d))
  <2> SUFFICES ASSUME NEW d \in D PROVE line[d] \in Bijection(1..count[d], of(d))
    OBVIOUS
  <2>1. IsFiniteSet(of(d))
    BY FS_Subset
  <2>2. ExistsBijection(1..Cardinality(of(d)), of(d))
    <3> HIDE DEF of
    <3> QED
      BY <2>1, FS_CardinalityType
  <2>3. count[d] = Cardinality(of(d))
    OBVIOUS
  <2>4. \E f : f \in Bijection(1..count[d], of(d))
    BY Zenon, <2>2, <2>3 DEF ExistsBijection
  <2> HIDE DEF of
  <2> QED
    BY Zenon, <2>4
<1>2. \A d \in D : /\ \A n \in 1..count[d] : line[d][n] \in S /\ kind[line[d][n]] = d
                   /\ \A m, n \in 1..count[d] : line[d][m] = line[d][n] => m = n
                   /\ \A x \in S : kind[x] = d => \E n \in 1..count[d] : line[d][n] = x
  <2> SUFFICES ASSUME NEW d \in D
               PROVE  /\ \A n \in 1..count[d] : line[d][n] \in S /\ kind[line[d][n]] = d
                      /\ \A m, n \in 1..count[d] : line[d][m] = line[d][n] => m = n
                      /\ \A x \in S : kind[x] = d => \E n \in 1..count[d] : line[d][n] = x
    OBVIOUS
  <2> DEFINE f == line[d]
  <2>1. f \in Bijection(1..count[d], of(d))
    BY <1>1
  <2> HIDE DEF f
  <2>2. f \in [1..count[d] -> of(d)]
    BY <2>1 DEF Bijection, Injection
  <2>3. \A m, n \in 1..count[d] : f[m] = f[n] => m = n
    BY <2>1 DEF Bijection, Injection, IsInjective
  <2>4. \A x \in of(d) : \E n \in 1..count[d] : f[n] = x
    BY <2>1 DEF Bijection, Surjection
  <2> QED
    BY <2>2, <2>3, <2>4 DEF f
<1> HIDE DEF line, marks
<1>3. \A p : p \in marks <=> \E d \in D : \E n \in 1..count[d] : p = <<d, n>>
  BY MarksAre DEF marks
<1>4. \A p \in marks : /\ p[1] \in D /\ p[2] \in 1..count[p[1]] /\ p = <<p[1], p[2]>>
                       /\ g[p] = line[p[1]][p[2]]
  <2> SUFFICES ASSUME NEW p \in marks PROVE p[1] \in D /\ p[2] \in 1..count[p[1]] /\ p = <<p[1], p[2]>>
    OBVIOUS
  <2>1. PICK d \in D : \E n \in 1..count[d] : p = <<d, n>>
    BY Zenon, <1>3
  <2>2. PICK n \in 1..count[d] : p = <<d, n>>
    BY <2>1
  <2> QED
    BY <2>2
<1>5. g \in [marks -> S]
  BY <1>2, <1>4
<1>6. DOMAIN g = marks
  OBVIOUS
<1> HIDE DEF g
<1>7. \A p, q \in marks : g[p] = g[q] => p = q
  <2> SUFFICES ASSUME NEW p \in marks, NEW q \in marks, g[p] = g[q] PROVE p = q
    OBVIOUS
  <2>1. /\ p[1] \in D /\ p[2] \in 1..count[p[1]] /\ p = <<p[1], p[2]>> /\ g[p] = line[p[1]][p[2]]
        /\ q[1] \in D /\ q[2] \in 1..count[q[1]] /\ q = <<q[1], q[2]>> /\ g[q] = line[q[1]][q[2]]
    BY Zenon, <1>4
  <2>2. kind[line[p[1]][p[2]]] = p[1] /\ kind[line[q[1]][q[2]]] = q[1]
    BY <1>2, <2>1
  <2>3. p[1] = q[1]
    BY Zenon, <2>1, <2>2
  <2>4. line[p[1]][p[2]] = line[p[1]][q[2]] /\ q[2] \in 1..count[p[1]]
    BY Zenon, <2>1, <2>3
  <2>5. p[2] = q[2]
    BY <1>2, <2>1, <2>4
  <2> QED
    BY Zenon, <2>1, <2>3, <2>5
<1>8. \A x \in S : \E p \in marks : g[p] = x
  <2> SUFFICES ASSUME NEW x \in S PROVE \E p \in marks : g[p] = x
    OBVIOUS
  <2>1. kind[x] \in D
    OBVIOUS
  <2>2. PICK n \in 1..count[kind[x]] : line[kind[x]][n] = x
    BY Zenon, <1>2, <2>1
  <2>3. <<kind[x], n>> \in marks
    BY Zenon, <1>3, <2>1
  <2>4. g[<<kind[x], n>>] = line[kind[x]][n]
    BY <1>4, <2>3
  <2> QED
    BY <2>2, <2>3, <2>4
<1>9. g \in Bijection(marks, S)
  BY Zenon, <1>5, <1>7, <1>8 DEF Bijection, Injection, Surjection, IsInjective
<1>10. ExistsBijection(S, marks)
  <2>1. ExistsBijection(marks, S)
    BY <1>9 DEF ExistsBijection
  <2> QED
    BY <2>1, Fun_ExistsBijSymmetric
<1>11. Cardinality(marks) = Cardinality(S)
  BY <1>10, FS_Bijection
<1>12. Sum(count) = Cardinality(marks)
  BY DEF Sum, marks, Marks
<1> QED
  BY <1>11, <1>12

(* What is at most so much each, is at most so many times that in all. *)
LEMMA SumIsBounded ==
    ASSUME NEW D, IsFiniteSet(D), NEW count, DOMAIN count = D, NEW c \in Nat,
           \A d \in D : count[d] \in Nat /\ count[d] <= c
    PROVE  Sum(count) \in Nat /\ Sum(count) <= Cardinality(D) * c
<1> DEFINE marks == Marks(count)
<1>1. \A p : p \in marks <=> \E d \in D : \E n \in 1..count[d] : p = <<d, n>>
  BY MarksAre
<1>2. Sum(count) = Cardinality(marks)
  BY DEF Sum, Marks
<1> HIDE DEF marks
<1>3. marks \in SUBSET (D \X (1..c))
  <2> SUFFICES ASSUME NEW p \in marks PROVE p \in D \X (1..c)
    OBVIOUS
  <2>1. PICK d \in D : \E n \in 1..count[d] : p = <<d, n>>
    BY Zenon, <1>1
  <2>2. PICK n \in 1..count[d] : p = <<d, n>>
    BY <2>1
  <2>3. n \in 1..c
    OBVIOUS
  <2> QED
    BY <2>2, <2>3
<1>4. IsFiniteSet(1..c) /\ Cardinality(1..c) = c
  BY FS_Interval
<1>5. IsFiniteSet(D \X (1..c)) /\ Cardinality(D \X (1..c)) = Cardinality(D) * Cardinality(1..c)
  BY <1>4, FS_Product
<1>6. IsFiniteSet(marks) /\ Cardinality(marks) <= Cardinality(D \X (1..c))
  BY <1>3, <1>5, FS_Subset
<1>7. Cardinality(marks) \in Nat
  BY <1>6, FS_CardinalityType
<1> QED
  BY Zenon, <1>2, <1>4, <1>5, <1>6, <1>7

LEMMA MeanIsBounded ==
    ASSUME NEW a \in Nat, NEW n \in Nat, n # 0, NEW c \in Nat, a <= n * c
    PROVE  a \div n \in Nat /\ a \div n <= c
<1> DEFINE q == a \div n
<1>1. q \in Int /\ n * q <= a
  OBVIOUS
<1>2. q \in Nat
  OBVIOUS
<1> HIDE DEF q
<1>3. q <= c
  <2> SUFFICES ASSUME q > c PROVE FALSE
    BY <1>1
  <2>1. PICK e \in Nat : q = c + 1 + e
    <3>1. q - c - 1 \in Nat /\ q = c + 1 + (q - c - 1)
      BY <1>2
    <3> QED
      BY <3>1
  <2>2. n * q = n * c + n + n * e
    BY <2>1
  <2>3. n * e >= 0 /\ n * c \in Int /\ n * e \in Int
    OBVIOUS
  <2> QED
    BY <1>1, <2>2, <2>3
<1> QED
  BY <1>2, <1>3 DEF q

(* Rows in the order of their values. *)
Rising(order, rows, values) ==
    /\ Lists(order, rows) /\ Len(order) = Cardinality(rows)
    /\ \A k, l \in 1..Len(order) : k <= l => values[order[k]] <= values[order[l]]

LEMMA SortedRise ==
    ASSUME NEW rows, IsFiniteSet(rows), rows \subseteq Int, NEW values, \A x \in rows : values[x] \in Int
    PROVE  Rising(Ordered([x \in rows |-> {y \in rows : values[y] < values[x]
                                             \/ (values[y] = values[x] /\ y < x)}]), rows, values)
<1> DEFINE before == [x \in rows |-> {y \in rows : values[y] < values[x] \/ (values[y] = values[x] /\ y < x)}]
           order == Ordered(before)
           n == Cardinality(rows)
<1>1. \A x, y \in rows : y \in before[x] <=> values[y] < values[x] \/ (values[y] = values[x] /\ y < x)
  OBVIOUS
<1>2. before \in [rows -> SUBSET rows]
  OBVIOUS
<1> HIDE DEF before
<1>3. /\ \A p \in rows : p \notin before[p]
      /\ \A p, q \in rows : p = q \/ p \in before[q] \/ q \in before[p]
  <2>1. \A p \in rows : p \notin before[p]
    <3> SUFFICES ASSUME NEW p \in rows PROVE p \notin before[p]
      OBVIOUS
    <3>1. values[p] \in Int /\ p \in Int
      OBVIOUS
    <3> QED
      BY <1>1, <3>1
  <2>2. ASSUME NEW p \in rows, NEW q \in rows PROVE p = q \/ p \in before[q] \/ q \in before[p]
    <3>1. values[p] \in Int /\ values[q] \in Int /\ p \in Int /\ q \in Int
      OBVIOUS
    <3>2. \/ p = q
          \/ values[p] < values[q] \/ (values[p] = values[q] /\ p < q)
          \/ values[q] < values[p] \/ (values[q] = values[p] /\ q < p)
      BY <3>1
    <3> QED
      BY <1>1, <3>2
  <2> QED
    BY <2>1, <2>2
<1>4. \A p, q, r \in rows : p \in before[q] /\ q \in before[r] => p \in before[r]
  <2> SUFFICES ASSUME NEW p \in rows, NEW q \in rows, NEW r \in rows, p \in before[q], q \in before[r]
               PROVE  p \in before[r]
    OBVIOUS
  <2>1. values[p] \in Int /\ values[q] \in Int /\ values[r] \in Int /\ p \in Int /\ q \in Int /\ r \in Int
    OBVIOUS
  <2>2. /\ values[p] < values[q] \/ (values[p] = values[q] /\ p < q)
        /\ values[q] < values[r] \/ (values[q] = values[r] /\ q < r)
    BY <1>1
  <2>3. values[p] < values[r] \/ (values[p] = values[r] /\ p < r)
    BY <2>1, <2>2
  <2> QED
    BY <1>1, <2>3
<1>5. /\ Lists(order, rows) /\ Len(order) = n
      /\ \A k \in 1..n : Cardinality(before[order[k]]) = k - 1
  BY <1>2, <1>3, <1>4, OrderedLists
<1>6. \A p, q \in rows : p \in before[q] => Cardinality(before[p]) < Cardinality(before[q])
  BY <1>2, <1>3, <1>4, Line
<1> HIDE DEF order
<1>7. n \in Nat /\ \A k \in 1..n : order[k] \in rows
  BY <1>5 DEF Lists
<1>8. \A k, l \in 1..n : k <= l => values[order[k]] <= values[order[l]]
  <2> SUFFICES ASSUME NEW k \in 1..n, NEW l \in 1..n, k <= l PROVE values[order[k]] <= values[order[l]]
    OBVIOUS
  <2>1. PICK p \in rows : p = order[k]
    BY <1>7
  <2>2. PICK q \in rows : q = order[l]
    BY <1>7
  <2>3. Cardinality(before[p]) = k - 1 /\ Cardinality(before[q]) = l - 1
    BY <1>5, <2>1, <2>2
  <2>4. q \notin before[p]
    BY <1>6, <1>7, <2>3
  <2>5. values[p] <= values[q]
    BY <1>1, <1>3, <2>4
  <2> QED
    BY <2>1, <2>2, <2>5
<1>9. Rising(order, rows, values)
  BY <1>5, <1>8 DEF Rising
<1> QED
  BY <1>9 DEF order, before

(* Between two values there is no value outside. *)
LEMMA ProductsRise ==
    ASSUME NEW r \in Nat, NEW t \in Nat, r <= t, NEW d \in Nat
    PROVE  r * d \in Nat /\ r * d <= t * d
<1>1. PICK e \in Nat : t = r + e
  <2>1. t - r \in Nat /\ t = r + (t - r)
    OBVIOUS
  <2> QED
    BY <2>1
<1>2. t * d = r * d + e * d
  BY <1>1
<1>3. r * d \in Nat /\ e * d \in Nat
  OBVIOUS
<1> QED
  BY <1>2, <1>3

Interpolated(lower, upper, r) == 100 * lower + r * (upper - lower)

Lies(value, lower, upper) == value \in Int /\ 100 * lower <= value /\ value <= 100 * upper

LEMMA BetweenTwo ==
    ASSUME NEW lower \in Int, NEW upper \in Int, lower <= upper, NEW r \in 0..99
    PROVE  Lies(Interpolated(lower, upper, r), lower, upper)
<1>1. PICK d \in Nat : d = upper - lower
  OBVIOUS
<1>2. r * d \in Nat /\ r * d <= 100 * d
  BY ProductsRise
<1>3. Interpolated(lower, upper, r) = 100 * lower + r * d
  BY <1>1 DEF Interpolated
<1> QED
  BY <1>1, <1>2, <1>3 DEF Lies

LEMMA InterpolatedRises ==
    ASSUME NEW lower \in Int, NEW upper \in Int, lower <= upper,
           NEW r \in 0..99, NEW t \in 0..99, r <= t
    PROVE  Interpolated(lower, upper, r) <= Interpolated(lower, upper, t)
<1>1. PICK d \in Nat : d = upper - lower
  OBVIOUS
<1>2. r * d \in Nat /\ r * d <= t * d /\ t * d \in Nat
  BY ProductsRise
<1>3. /\ Interpolated(lower, upper, r) = 100 * lower + r * d
      /\ Interpolated(lower, upper, t) = 100 * lower + t * d
  BY <1>1 DEF Interpolated
<1> QED
  BY <1>2, <1>3

LEMMA PositionsRise ==
    ASSUME NEW m \in Nat
    PROVE  LET a == m * 50
               b == m * 95 IN
           /\ a % 100 \in 0..99 /\ b % 100 \in 0..99
           /\ 1 + a \div 100 \in 1..(m + 1) /\ 1 + (a + 99) \div 100 \in 1..(m + 1)
           /\ 1 + b \div 100 \in 1..(m + 1) /\ 1 + (b + 99) \div 100 \in 1..(m + 1)
           /\ 1 + a \div 100 <= 1 + (a + 99) \div 100 /\ 1 + b \div 100 <= 1 + (b + 99) \div 100
           /\ \/ 1 + (a + 99) \div 100 <= 1 + b \div 100
              \/ a \div 100 = b \div 100 /\ (a + 99) \div 100 = (b + 99) \div 100 /\ a % 100 <= b % 100
  OBVIOUS

(* Percentiles lie among the values, in their order. *)
Spread(values) ==
    /\ percentile(values, 50) <= percentile(values, 95)
    /\ \E x \in DOMAIN values : 100 * values[x] <= percentile(values, 50)
    /\ \E x \in DOMAIN values : percentile(values, 95) <= 100 * values[x]

Valued(values) ==
    /\ IsFiniteSet(DOMAIN values) /\ DOMAIN values # {} /\ DOMAIN values \subseteq Int
    /\ \A x \in DOMAIN values : values[x] \in Int

LEMMA PercentilesLieAmong == ASSUME NEW values, Valued(values) PROVE Spread(values)
<1> DEFINE rows == DOMAIN values
           order == Ordered([x \in rows |-> {y \in rows : values[y] < values[x]
                                               \/ (values[y] = values[x] /\ y < x)}])
           v(k) == values[order[k]]
<1>0. /\ IsFiniteSet(rows) /\ rows # {} /\ rows \subseteq Int
      /\ \A x \in rows : values[x] \in Int
  BY Zenon DEF Valued
<1>1. PICK n \in Nat \ {0} : n = Cardinality(rows)
  BY <1>0, FS_CardinalityType, FS_EmptySet
<1>2. PICK m \in Nat : m = n - 1
  OBVIOUS
<1>3. Rising(order, rows, values)
  BY <1>0, SortedRise
<1> DEFINE a == m * 50
           b == m * 95
           la == 1 + a \div 100
           ua == 1 + (a + 99) \div 100
           lb == 1 + b \div 100
           ub == 1 + (b + 99) \div 100
<1>4. /\ percentile(values, 50) = Interpolated(v(la), v(ua), a % 100)
      /\ percentile(values, 95) = Interpolated(v(lb), v(ub), b % 100)
  <2> HIDE DEF order
  <2>1. /\ percentile(values, 50) =
             100 * values[order[1 + ((Cardinality(rows) - 1) * 50) \div 100]]
               + (((Cardinality(rows) - 1) * 50) % 100)
                   * (values[order[1 + ((Cardinality(rows) - 1) * 50 + 99) \div 100]]
                        - values[order[1 + ((Cardinality(rows) - 1) * 50) \div 100]])
        /\ percentile(values, 95) =
             100 * values[order[1 + ((Cardinality(rows) - 1) * 95) \div 100]]
               + (((Cardinality(rows) - 1) * 95) % 100)
                   * (values[order[1 + ((Cardinality(rows) - 1) * 95 + 99) \div 100]]
                        - values[order[1 + ((Cardinality(rows) - 1) * 95) \div 100]])
    BY ZenonT(30), <1>0 DEF percentile, order
  <2> QED
    BY Zenon, <1>1, <1>2, <2>1 DEF Interpolated
<1>5. /\ a % 100 \in 0..99 /\ b % 100 \in 0..99
      /\ la \in 1..n /\ ua \in 1..n /\ lb \in 1..n /\ ub \in 1..n /\ la <= ua /\ lb <= ub
      /\ \/ ua <= lb
         \/ la = lb /\ ua = ub /\ a % 100 <= b % 100
  BY <1>2, PositionsRise
<1> HIDE DEF order, a, b, la, ua, lb, ub
<1>6. /\ Len(order) = n
      /\ \A k \in 1..n : order[k] \in rows /\ v(k) \in Int
      /\ \A k, l \in 1..n : k <= l => v(k) <= v(l)
  BY <1>0, <1>1, <1>3 DEF Rising, Lists
<1> HIDE DEF v
<1>7. /\ v(la) \in Int /\ v(ua) \in Int /\ v(la) <= v(ua)
      /\ v(lb) \in Int /\ v(ub) \in Int /\ v(lb) <= v(ub)
  BY <1>5, <1>6
<1> DEFINE p == Interpolated(v(la), v(ua), a % 100)
           q == Interpolated(v(lb), v(ub), b % 100)
<1>8. p \in Int /\ 100 * v(la) <= p /\ p <= 100 * v(ua)
  <2>1. a % 100 \in 0..99 /\ a % 100 <= a % 100
    BY <1>5
  <2> HIDE DEF p
  <2>2. PICK lower \in Int : lower = v(la)
    BY <1>7
  <2>3. PICK upper \in Int : upper = v(ua)
    BY <1>7
  <2>4. PICK r \in 0..99 : r = a % 100
    BY <2>1
  <2>5. lower <= upper
    BY <1>7, <2>2, <2>3
  <2>6. Lies(Interpolated(lower, upper, r), lower, upper)
    BY <2>5, BetweenTwo
  <2> QED
    BY Zenon, <2>2, <2>3, <2>4, <2>6 DEF p, Lies
<1>9. q \in Int /\ 100 * v(lb) <= q /\ q <= 100 * v(ub)
  <2>1. b % 100 \in 0..99 /\ b % 100 <= b % 100
    BY <1>5
  <2> HIDE DEF q
  <2>2. PICK lower \in Int : lower = v(lb)
    BY <1>7
  <2>3. PICK upper \in Int : upper = v(ub)
    BY <1>7
  <2>4. PICK r \in 0..99 : r = b % 100
    BY <2>1
  <2>5. lower <= upper
    BY <1>7, <2>2, <2>3
  <2>6. Lies(Interpolated(lower, upper, r), lower, upper)
    BY <2>5, BetweenTwo
  <2> QED
    BY Zenon, <2>2, <2>3, <2>4, <2>6 DEF q, Lies
<1>10. p <= q
  <2>1. CASE ua <= lb
    <3>1. v(ua) <= v(lb)
      BY <1>5, <1>6, <2>1
    <3> HIDE DEF p, q
    <3> QED
      BY <1>7, <1>8, <1>9, <3>1
  <2>2. CASE la = lb /\ ua = ub /\ a % 100 <= b % 100
    <3>1. Interpolated(v(la), v(ua), a % 100) <= Interpolated(v(la), v(ua), b % 100)
      <4>1. PICK lower \in Int : lower = v(la)
        BY <1>7
      <4>2. PICK upper \in Int : upper = v(ua)
        BY <1>7
      <4>3. PICK r \in 0..99 : r = a % 100
        BY <1>5
      <4>4. PICK t \in 0..99 : t = b % 100
        BY <1>5
      <4>5. lower <= upper /\ r <= t
        BY <1>7, <2>2, <4>1, <4>2, <4>3, <4>4
      <4>6. Interpolated(lower, upper, r) <= Interpolated(lower, upper, t)
        BY <4>5, InterpolatedRises
      <4> QED
        BY Zenon, <4>1, <4>2, <4>3, <4>4, <4>6
    <3> QED
      BY Zenon, <2>2, <3>1
  <2> QED
    BY <1>5, <2>1, <2>2
<1> HIDE DEF p, q
<1>11. order[la] \in rows /\ 100 * values[order[la]] <= p
  BY <1>5, <1>6, <1>8 DEF v
<1>12. order[ub] \in rows /\ q <= 100 * values[order[ub]]
  BY <1>5, <1>6, <1>9 DEF v
<1> QED
  <2>1. percentile(values, 50) = p /\ percentile(values, 95) = q
    BY Zenon, <1>4 DEF p, q
  <2>2. \E x \in rows : 100 * values[x] <= p
    BY Zenon, <1>11
  <2>3. \E x \in rows : q <= 100 * values[x]
    BY Zenon, <1>12
  <2> QED
    BY ZenonT(30), <1>10, <2>1, <2>2, <2>3 DEF Spread

-----------------------------------------------------------------------------
Stored ==
    /\ IsList(store.task) /\ IsList(store.edge) /\ IsList(store.run) /\ IsList(store.packet)
    /\ \A i \in DOMAIN store.task : store.task[i].created_at \in Int /\ store.task[i].updated_at \in Int
    /\ \A k \in DOMAIN store.edge : store.edge[k].dst # unresolved
    /\ \A n \in DOMAIN store.run : store.run[n].minutes \in Int
    /\ \A n \in DOMAIN store.packet : IsList(store.packet[n].learnings)

LEMMA RowsAreNumbered ==
    ASSUME NEW s, IsList(s)
    PROVE  IsFiniteSet(DOMAIN s) /\ DOMAIN s \subseteq Nat
<1>1. PICK n \in Nat : n = Len(s)
  BY IsListed
<1>2. DOMAIN s = 1..n
  BY <1>1, IsListed
<1> QED
  BY <1>2, FS_Interval

LEMMA RunsAreFinite ==
    ASSUME Stored, NEW since
    PROVE  /\ Ended(since) \in SUBSET (DOMAIN store.run) /\ IsFiniteSet(Ended(since))
           /\ Ended(since) \subseteq Nat
<1>1. Ended(since) \in SUBSET (DOMAIN store.run)
  BY DEF Ended
<1>2. IsFiniteSet(DOMAIN store.run) /\ DOMAIN store.run \subseteq Nat
  BY RowsAreNumbered DEF Stored
<1> QED
  BY <1>1, <1>2, FS_Subset

(* Every run that lasted stands in one bucket. *)
LEMMA BucketsAddUp ==
    ASSUME Stored, NEW since
    PROVE  Sum(handoff_latency_histogram(since)) = Cardinality({n \in Ended(since) : store.run[n].minutes >= 0})
<1> DEFINE S == {n \in Ended(since) : store.run[n].minutes >= 0}
           minutes(n) == store.run[n].minutes
           in(n, k) == minutes(n) >= HANDOFF_BUCKETS[k].low /\ \A m \in HANDOFF_BUCKETS[k].high : minutes(n) < m
           kind == [n \in S |-> IF minutes(n) < 15 THEN 1 ELSE IF minutes(n) < 30 THEN 2
                                ELSE IF minutes(n) < 60 THEN 3 ELSE IF minutes(n) < 120 THEN 4 ELSE 5]
           count == handoff_latency_histogram(since)
<1>1. IsFiniteSet(S)
  BY RunsAreFinite, FS_Subset
<1>2. \A n \in Ended(since) : minutes(n) \in Int
  BY RunsAreFinite DEF Stored
<1>3. DOMAIN HANDOFF_BUCKETS = 1..5
  BY DEF HANDOFF_BUCKETS
<1>4. /\ DOMAIN count = 1..5
      /\ \A k \in 1..5 : count[k] = Cardinality({n \in Ended(since) : in(n, k)})
  BY <1>3 DEF handoff_latency_histogram
<1>5. kind \in [S -> 1..5]
  OBVIOUS
<1>6. \A n \in Ended(since) :
        /\ in(n, 1) <=> minutes(n) >= 0 /\ minutes(n) < 15
        /\ in(n, 2) <=> minutes(n) >= 15 /\ minutes(n) < 30
        /\ in(n, 3) <=> minutes(n) >= 30 /\ minutes(n) < 60
        /\ in(n, 4) <=> minutes(n) >= 60 /\ minutes(n) < 120
        /\ in(n, 5) <=> minutes(n) >= 120
  <2> HIDE DEF minutes
  <2> QED
    BY DEF HANDOFF_BUCKETS
<1> HIDE DEF in
<1>7. \A k \in 1..5 : \A n : n \in Ended(since) /\ in(n, k) <=> n \in S /\ kind[n] = k
  <2> SUFFICES ASSUME NEW n \in Ended(since), NEW k \in 1..5
               PROVE  in(n, k) <=> n \in S /\ kind[n] = k
    OBVIOUS
  <2>1. PICK u \in Int : u = minutes(n)
    BY <1>2
  <2>2. n \in S <=> u >= 0
    BY <2>1
  <2>3. u >= 0 => kind[n] = IF u < 15 THEN 1 ELSE IF u < 30 THEN 2
                            ELSE IF u < 60 THEN 3 ELSE IF u < 120 THEN 4 ELSE 5
    BY <2>1, <2>2
  <2> HIDE DEF kind, S, minutes
  <2> QED
    BY <1>6, <2>1, <2>2, <2>3
<1>8. \A k \in 1..5 : {n \in Ended(since) : in(n, k)} = {n \in S : kind[n] = k}
  <2> HIDE DEF kind, S
  <2> QED
    BY <1>7
<1> HIDE DEF kind, count
<1>9. \A k \in 1..5 : count[k] = Cardinality({n \in S : kind[n] = k})
  BY <1>4, <1>8
<1> HIDE DEF S
<1>10. Sum(count) = Cardinality(S)
  <2>1. PICK K : K = 1..5
    OBVIOUS
  <2>2. kind \in [S -> K] /\ DOMAIN count = K
    BY <1>4, <1>5, <2>1
  <2>3. \A k \in K : count[k] = Cardinality({n \in S : kind[n] = k})
    BY <1>9, <2>1
  <2> QED
    BY <1>1, <2>2, <2>3, KindsAddUp
<1> QED
  BY <1>10 DEF count, S

(* Every run stands in the figures of its actor, under one outcome. *)
LEMMA ActorsAddUp ==
    ASSUME Stored, NEW since, NEW count, DOMAIN count = Actors(since),
           \A a \in Actors(since) : count[a] = Cardinality(By(a, since))
    PROVE  Sum(count) = Cardinality(Ended(since))
<1> DEFINE kind == [n \in Ended(since) |-> store.run[n].actor]
<1>1. IsFiniteSet(Ended(since))
  BY RunsAreFinite
<1>2. kind \in [Ended(since) -> Actors(since)]
  BY DEF Actors
<1>3. \A a \in Actors(since) : By(a, since) = {n \in Ended(since) : kind[n] = a}
  BY DEF By
<1> HIDE DEF kind
<1>4. \A a \in Actors(since) : count[a] = Cardinality({n \in Ended(since) : kind[n] = a})
  BY <1>3
<1> QED
  BY SMTT(30), <1>1, <1>2, <1>4, KindsAddUp

LEMMA OutcomesAreThree ==
    \A status : success_bucket(status) \in {"complete", "parked", "error"}
  BY Zenon DEF success_bucket

LEMMA OutcomesAddUp ==
    ASSUME Stored, NEW since, NEW a
    PROVE  LET of(outcome) == Cardinality({n \in By(a, since) : success_bucket(store.run[n].status) = outcome}) IN
           of("complete") + of("parked") + of("error") = Cardinality(By(a, since))
<1> DEFINE R == By(a, since)
           kind(n) == success_bucket(store.run[n].status)
           C == {n \in R : kind(n) = "complete"}
           P == {n \in R : kind(n) = "parked"}
           E == {n \in R : kind(n) = "error"}
<1>1. IsFiniteSet(R)
  <2>1. R \in SUBSET Ended(since)
    BY DEF By
  <2> QED
    BY <2>1, RunsAreFinite, FS_Subset
<1>2. \A n \in R : kind(n) \in {"complete", "parked", "error"}
  BY OutcomesAreThree
<1> HIDE DEF R, kind
<1>3. R = (C \cup P) \cup E /\ C \cap P = {} /\ (C \cup P) \cap E = {}
  BY <1>2
<1>4. IsFiniteSet(C) /\ IsFiniteSet(P) /\ IsFiniteSet(E)
  BY <1>1, FS_Subset
<1> HIDE DEF C, P, E
<1>5. IsFiniteSet(C \cup P) /\ Cardinality(C \cup P) = Cardinality(C) + Cardinality(P) - Cardinality({})
  BY <1>3, <1>4, FS_Union
<1>6. Cardinality(R) = Cardinality(C \cup P) + Cardinality(E) - Cardinality({})
  BY <1>3, <1>4, <1>5, FS_Union
<1>7. Cardinality({}) = 0
  BY FS_EmptySet
<1>8. Cardinality(C) \in Nat /\ Cardinality(P) \in Nat /\ Cardinality(E) \in Nat
  BY <1>4, FS_CardinalityType
<1>9. Cardinality(C) + Cardinality(P) + Cardinality(E) = Cardinality(R)
  BY <1>5, <1>6, <1>7, <1>8
<1> QED
  BY Zenon, <1>9 DEF C, P, E, R, kind

(* Every task in review that was written on a day shown is shown once. *)
LEMMA DaysAddUp ==
    ASSUME Stored, NEW days \in 1..365
    PROVE  Sum(review_load(start_at(days), days)) =
             Cardinality({i \in DOMAIN store.task :
               InReview(store.task[i]) /\ DayOf(store.task[i].updated_at) \in Days(days)})
<1> DEFINE T == DOMAIN store.task
           day(i) == DayOf(store.task[i].updated_at)
           S == {i \in T : InReview(store.task[i]) /\ day(i) \in Days(days)}
           kind == [i \in S |-> day(i)]
           count == review_load(start_at(days), days)
<1>1. IsFiniteSet(S)
  <2>1. IsFiniteSet(T)
    BY RowsAreNumbered DEF Stored
  <2> QED
    BY <2>1, FS_Subset
<1>2. kind \in [S -> Days(days)]
  OBVIOUS
<1>3. \A i \in T : day(i) \in Days(days) => store.task[i].updated_at >= start_at(days)
  <2> SUFFICES ASSUME NEW i \in T, day(i) \in Days(days) PROVE store.task[i].updated_at >= start_at(days)
    OBVIOUS
  <2>1. PICK u \in Int : u = store.task[i].updated_at
    BY DEF Stored
  <2>2. PICK now \in Int : now = Now
    BY RowsAreTyped
  <2>3. u \div 24 >= now \div 24 - days + 1
    BY <2>1, <2>2 DEF Days, DayOf
  <2>4. u >= now - 24 * days
    BY <2>3
  <2> QED
    BY <2>1, <2>2, <2>4 DEF start_at
<1>4. /\ DOMAIN count = Days(days)
      /\ \A d \in Days(days) :
           count[d] = Cardinality({i \in T : /\ InReview(store.task[i])
                                             /\ store.task[i].updated_at >= start_at(days)
                                             /\ day(i) = d})
  BY DEF review_load
<1>5. \A d \in Days(days) : {i \in T : /\ InReview(store.task[i])
                                       /\ store.task[i].updated_at >= start_at(days)
                                       /\ day(i) = d} = {i \in S : kind[i] = d}
  <2> HIDE DEF T, day
  <2> QED
    BY <1>3
<1> HIDE DEF kind, count, T, day
<1>6. \A d \in Days(days) : count[d] = Cardinality({i \in S : kind[i] = d})
  BY <1>4, <1>5
<1> HIDE DEF S
<1>7. Sum(count) = Cardinality(S)
  BY <1>1, <1>2, <1>4, <1>6, KindsAddUp
<1> QED
  BY <1>7 DEF count, S, T, day

-----------------------------------------------------------------------------
(* Every blocked task stands under each task it waits for, or as unresolved. *)
LEMMA CellsCount ==
    ASSUME NEW task, IsFiniteSet(DOMAIN task)
    PROVE  /\ cell(task).waiting = {task[e] : e \in DOMAIN task}
           /\ cell(task).task_count >= Cardinality(cell(task).waiting)
<1> DEFINE W == {task[e] : e \in DOMAIN task}
           f == [e \in DOMAIN task |-> task[e]]
<1>1. cell(task).waiting = W /\ cell(task).task_count = Cardinality(DOMAIN task)
  BY DEF cell
<1>2. f \in Surjection(DOMAIN task, W)
  <2>1. f \in [DOMAIN task -> W]
    OBVIOUS
  <2>2. \A x \in W : \E e \in DOMAIN task : f[e] = x
    OBVIOUS
  <2> QED
    BY <2>1, <2>2 DEF Surjection
<1> HIDE DEF W, f
<1>3. IsFiniteSet(W) /\ Cardinality(W) <= Cardinality(DOMAIN task)
  BY <1>2, FS_Surjection
<1>4. Cardinality(W) \in Nat /\ Cardinality(DOMAIN task) \in Nat
  BY <1>3, FS_CardinalityType
<1> QED
  <2>1. Cardinality(DOMAIN task) >= Cardinality(W)
    BY <1>3, <1>4
  <2> QED
    BY Zenon, <1>1, <2>1 DEF W

LEMMA BlockedStand ==
    ASSUME Stored, NEW since
    PROVE  LET H == blocked_heatmap(since) IN
           /\ \A i \in Blocked(since) :
                {b \in DOMAIN H : i \in H[b].waiting}
                  = IF Waits(i) = {} THEN {unresolved} ELSE {store.edge[k].dst : k \in Waits(i)}
           /\ \A b \in DOMAIN H : H[b].task_count >= Cardinality(H[b].waiting)
<1> DEFINE H == blocked_heatmap(since)
           waits == UNION {Waits(i) : i \in Blocked(since)}
           free == {i \in Blocked(since) : Waits(i) = {}}
           under(b) == {k \in waits : store.edge[k].dst = b}
           loose == [i \in free |-> i]
           held(b) == [k \in under(b) |-> store.edge[k].src]
           D == {store.edge[k].dst : k \in waits} \cup {unresolved : i \in free}
<1>1. DOMAIN H = D /\ \A b \in D : H[b] = cell(IF b = unresolved THEN loose ELSE held(b))
  BY DEF blocked_heatmap
<1>2. /\ \A i, k : k \in Waits(i) <=> k \in DOMAIN store.edge /\ store.edge[k].src = i /\ ~store.edge[k].superseded
      /\ \A k \in DOMAIN store.edge : store.edge[k].dst # unresolved
  BY DEF Waits, Stored
<1>3. /\ \A k : k \in waits <=> \E i \in Blocked(since) : k \in Waits(i)
      /\ \A i : i \in free <=> i \in Blocked(since) /\ Waits(i) = {}
  OBVIOUS
<1>4. IsFiniteSet(waits) /\ IsFiniteSet(free)
  <2>1. IsFiniteSet(DOMAIN store.edge) /\ IsFiniteSet(DOMAIN store.task)
    BY RowsAreNumbered DEF Stored
  <2>2. waits \in SUBSET DOMAIN store.edge
    BY <1>2
  <2>3. free \in SUBSET DOMAIN store.task
    BY DEF Blocked
  <2> QED
    BY <2>1, <2>2, <2>3, FS_Subset
<1> HIDE DEF H, waits, free
<1>5. \A b \in D : b = unresolved => H[b] = cell(loose)
  BY Zenon, <1>1
<1>6. \A b \in D : b # unresolved => H[b] = cell(held(b))
  BY Zenon, <1>1
<1>7. /\ DOMAIN loose = free /\ \A b : DOMAIN held(b) = under(b)
      /\ \A b : IsFiniteSet(under(b))
  <2>1. \A b : under(b) \in SUBSET waits
    OBVIOUS
  <2> QED
    BY <1>4, <2>1, FS_Subset
<1>8. /\ cell(loose).waiting = {loose[e] : e \in DOMAIN loose}
      /\ cell(loose).task_count >= Cardinality(cell(loose).waiting)
  <2> HIDE DEF loose
  <2> QED
    BY <1>4, <1>7, CellsCount
<1>9. \A b : /\ cell(held(b)).waiting = {held(b)[e] : e \in DOMAIN held(b)}
             /\ cell(held(b)).task_count >= Cardinality(cell(held(b)).waiting)
  <2> SUFFICES ASSUME NEW b
               PROVE  /\ cell(held(b)).waiting = {held(b)[e] : e \in DOMAIN held(b)}
                      /\ cell(held(b)).task_count >= Cardinality(cell(held(b)).waiting)
    OBVIOUS
  <2>1. IsFiniteSet(DOMAIN held(b))
    BY <1>7
  <2> DEFINE h == held(b)
  <2> HIDE DEF h
  <2>2. cell(h).waiting = {h[e] : e \in DOMAIN h} /\ cell(h).task_count >= Cardinality(cell(h).waiting)
    BY <2>1, CellsCount DEF h
  <2> QED
    BY Zenon, <2>2 DEF h
<1>10. \A i : i \in cell(loose).waiting <=> i \in free
  <2>1. {loose[e] : e \in DOMAIN loose} = free
    OBVIOUS
  <2> HIDE DEF loose
  <2> QED
    BY <1>8, <2>1
<1>11. \A i, b : i \in cell(held(b)).waiting <=> \E k \in waits : store.edge[k].dst = b /\ store.edge[k].src = i
  <2> SUFFICES ASSUME NEW i, NEW b
               PROVE  i \in cell(held(b)).waiting <=> \E k \in waits : store.edge[k].dst = b /\ store.edge[k].src = i
    OBVIOUS
  <2>1. i \in {held(b)[e] : e \in DOMAIN held(b)} <=> \E k \in waits : store.edge[k].dst = b /\ store.edge[k].src = i
    OBVIOUS
  <2> HIDE DEF held
  <2> QED
    BY Zenon, <1>9, <2>1
<1>12. \A b : b \in D <=> \/ \E k \in waits : store.edge[k].dst = b
                          \/ b = unresolved /\ free # {}
  OBVIOUS
<1> HIDE DEF loose, held, under, D
<1>13. ASSUME NEW i \in Blocked(since), NEW b
       PROVE  b \in D /\ i \in H[b].waiting <=>
                IF Waits(i) = {} THEN b = unresolved ELSE \E k \in Waits(i) : b = store.edge[k].dst
  <2>1. CASE b = unresolved
    <3>1. b \in D /\ i \in H[b].waiting <=> i \in free
      BY <1>5, <1>10, <1>12, <2>1
    <3> QED
      BY <1>2, <1>3, <2>1, <3>1
  <2>2. CASE b # unresolved
    <3>1. b \in D /\ i \in H[b].waiting <=> \E k \in waits : store.edge[k].dst = b /\ store.edge[k].src = i
      BY <1>6, <1>11, <1>12, <2>2
    <3>2. (\E k \in waits : store.edge[k].dst = b /\ store.edge[k].src = i)
            <=> \E k \in Waits(i) : b = store.edge[k].dst
      BY <1>2, <1>3
    <3> QED
      BY <2>2, <3>1, <3>2
  <2> QED
    BY <2>1, <2>2
<1>14. ASSUME NEW i \in Blocked(since)
       PROVE  {b \in DOMAIN H : i \in H[b].waiting}
                = IF Waits(i) = {} THEN {unresolved} ELSE {store.edge[k].dst : k \in Waits(i)}
  <2>1. \A b : b \in DOMAIN H /\ i \in H[b].waiting <=>
                 IF Waits(i) = {} THEN b = unresolved ELSE \E k \in Waits(i) : b = store.edge[k].dst
    BY <1>1, <1>13
  <2>2. CASE Waits(i) = {}
    BY <2>1, <2>2
  <2>3. CASE Waits(i) # {}
    BY <2>1, <2>3
  <2> QED
    BY <2>2, <2>3
<1>15. \A b \in DOMAIN H : H[b].task_count >= Cardinality(H[b].waiting)
  BY Zenon, <1>1, <1>5, <1>6, <1>8, <1>9
<1> QED
  BY Zenon, <1>14, <1>15 DEF H

(* The figures of an actor. *)
MinutesOf(a, since) == [n \in By(a, since) |-> store.run[n].minutes]

LEMMA ActorsLieAmong ==
    ASSUME Stored, NEW since, NEW a \in Actors(since)
    PROVE  Among(handoff_latency_by_actor(since)[a], MinutesOf(a, since))
<1> DEFINE values == MinutesOf(a, since)
           c == handoff_latency_by_actor(since)[a]
<1>1. By(a, since) \in SUBSET Ended(since) /\ By(a, since) # {}
  BY DEF By, Actors
<1>2. IsFiniteSet(By(a, since)) /\ By(a, since) \subseteq Int
  BY <1>1, RunsAreFinite, FS_Subset
<1>3. DOMAIN values = By(a, since) /\ \A n \in By(a, since) : values[n] \in Int
  BY <1>1, RunsAreFinite DEF MinutesOf, Stored
<1>4. c.median = percentile(values, 50) /\ c.p95 = percentile(values, 95)
  BY Zenon DEF handoff_latency_by_actor, MinutesOf
<1> HIDE DEF values, c
<1>5. Spread(values)
  <2>1. Valued(values)
    BY Zenon, <1>1, <1>2, <1>3 DEF Valued
  <2> QED
    BY <2>1, PercentilesLieAmong
<1>6. Among(c, values)
  <2>1. percentile(values, 50) <= percentile(values, 95)
    BY Zenon, <1>5 DEF Spread
  <2>2. PICK x \in DOMAIN values : 100 * values[x] <= percentile(values, 50)
    BY Zenon, <1>5 DEF Spread
  <2>3. PICK y \in DOMAIN values : percentile(values, 95) <= 100 * values[y]
    BY Zenon, <1>5 DEF Spread
  <2>4. c.median <= c.p95 /\ 100 * values[x] <= c.median /\ c.p95 <= 100 * values[y]
    BY ZenonT(30), <1>4, <2>1, <2>2, <2>3
  <2> QED
    BY Zenon, <2>4 DEF Among
<1> QED
  BY <1>6 DEF c, values

LEMMA OutcomesOfAll ==
    ASSUME Stored, NEW since
    PROVE  LET m == agent_success_rates(since) IN
           Sum([a \in DOMAIN m |-> m[a].complete + m[a].parked + m[a].error]) = Cardinality(Ended(since))
<1> DEFINE m == agent_success_rates(since)
           count == [a \in DOMAIN m |-> m[a].complete + m[a].parked + m[a].error]
           of(a, outcome) == Cardinality({n \in By(a, since) : success_bucket(store.run[n].status) = outcome})
<1>1. /\ DOMAIN m = Actors(since)
      /\ \A a \in Actors(since) : /\ m[a].complete = of(a, "complete")
                                   /\ m[a].parked = of(a, "parked")
                                   /\ m[a].error = of(a, "error")
  BY DEF agent_success_rates
<1>2. \A a : of(a, "complete") + of(a, "parked") + of(a, "error") = Cardinality(By(a, since))
  BY Zenon, OutcomesAddUp
<1> HIDE DEF m, of
<1>3. DOMAIN count = Actors(since) /\ \A a \in Actors(since) : count[a] = Cardinality(By(a, since))
  BY <1>1, <1>2
<1> HIDE DEF count
<1>4. Sum(count) = Cardinality(Ended(since))
  BY <1>3, ActorsAddUp
<1> QED
  BY Zenon, <1>4 DEF count, m

LEMMA LatenciesOfAll ==
    ASSUME Stored, NEW since
    PROVE  LET m == handoff_latency_by_actor(since) IN
           Sum([a \in DOMAIN m |-> m[a].count]) = Cardinality(Ended(since))
<1> DEFINE m == handoff_latency_by_actor(since)
           count == [a \in DOMAIN m |-> m[a].count]
<1>1. DOMAIN m = Actors(since) /\ \A a \in Actors(since) : m[a].count = Cardinality(By(a, since))
  BY DEF handoff_latency_by_actor
<1> HIDE DEF m
<1>2. DOMAIN count = Actors(since) /\ \A a \in Actors(since) : count[a] = Cardinality(By(a, since))
  BY <1>1
<1> HIDE DEF count
<1>3. Sum(count) = Cardinality(Ended(since))
  BY <1>2, ActorsAddUp
<1> QED
  BY Zenon, <1>3 DEF count, m

(* No more than all that is compared is a hit. *)
LEMMA PrecisionIsBounded ==
    ASSUME NEW p, IsList(p.learnings), NEW k
    PROVE  precision_for_packet(p, k) \in Nat /\ precision_for_packet(p, k) <= 100
<1> DEFINE comparable == {n \in DOMAIN p.learnings : n <= k /\ p.learnings[n] # {}}
           hits == {n \in comparable :
                      \E i \in p.learnings[n] : learning_surfaces(i) \cap packet_surface_area(p) # {}}
<1>1. precision_for_packet(p, k) =
        IF comparable = {} THEN 0 ELSE (100 * Cardinality(hits)) \div Cardinality(comparable)
  BY DEF precision_for_packet
<1>2. IsFiniteSet(comparable)
  <2>1. IsFiniteSet(DOMAIN p.learnings)
    BY RowsAreNumbered
  <2> QED
    BY <2>1, FS_Subset
<1>3. hits \in SUBSET comparable
  OBVIOUS
<1> HIDE DEF comparable, hits
<1>4. IsFiniteSet(hits) /\ Cardinality(hits) <= Cardinality(comparable)
  BY <1>2, <1>3, FS_Subset
<1>5. PICK h \in Nat : h = Cardinality(hits)
  BY <1>4, FS_CardinalityType
<1>6. PICK c \in Nat : c = Cardinality(comparable)
  BY <1>2, FS_CardinalityType
<1>7. CASE comparable = {}
  BY <1>1, <1>7
<1>8. CASE comparable # {}
  <2>1. c # 0
    BY <1>2, <1>6, <1>8, FS_EmptySet
  <2>2. 100 * h \in Nat /\ 100 * h <= c * 100
    BY <1>4, <1>5, <1>6
  <2>3. (100 * h) \div c \in Nat /\ (100 * h) \div c <= 100
    BY <2>1, <2>2, MeanIsBounded
  <2> QED
    BY <1>1, <1>5, <1>6, <1>8, <2>3
<1> QED
  BY <1>7, <1>8

LEMMA MeansAreBounded ==
    ASSUME Stored, NEW since
    PROVE  retrieval_precision(since).at_5 <= 100 /\ retrieval_precision(since).at_10 <= 100
<1> DEFINE samples == {n \in packet_payloads(since) :
                         packet_surface_area(store.packet[n]) # {} /\ store.packet[n].listed}
           each(k) == [n \in samples |-> precision_for_packet(store.packet[n], k)]
           mean(k) == IF samples = {} THEN 0 ELSE Sum(each(k)) \div Cardinality(samples)
<1>1. retrieval_precision(since).at_5 = mean(5) /\ retrieval_precision(since).at_10 = mean(10)
  BY DEF retrieval_precision
<1>2. samples \in SUBSET DOMAIN store.packet
  BY DEF packet_payloads
<1>3. IsFiniteSet(samples)
  <2>1. IsFiniteSet(DOMAIN store.packet)
    BY RowsAreNumbered DEF Stored
  <2> HIDE DEF samples
  <2> QED
    BY <1>2, <2>1, FS_Subset
<1> HIDE DEF samples
<1>4. ASSUME NEW k PROVE mean(k) <= 100
  <2>1. CASE samples = {}
    BY <2>1
  <2>2. CASE samples # {}
    <3> DEFINE count == each(k)
    <3>1. DOMAIN count = samples
      OBVIOUS
    <3>2. \A n \in samples : count[n] \in Nat /\ count[n] <= 100
      <4>1. \A n \in samples : IsList(store.packet[n].learnings)
        BY <1>2 DEF Stored
      <4>2. \A n \in samples : precision_for_packet(store.packet[n], k) \in Nat
                                 /\ precision_for_packet(store.packet[n], k) <= 100
        BY Zenon, <4>1, PrecisionIsBounded
      <4> QED
        BY <4>2
    <3> HIDE DEF count
    <3>3. PICK a \in Nat : a = Sum(count) /\ a <= Cardinality(samples) * 100
      BY <1>3, <3>1, <3>2, SumIsBounded
    <3>4. PICK n \in Nat : n = Cardinality(samples) /\ n # 0
      BY <1>3, <2>2, FS_CardinalityType, FS_EmptySet
    <3>5. a \div n <= 100
      BY <3>3, <3>4, MeanIsBounded
    <3>6. Sum(each(k)) \div Cardinality(samples) <= 100
      BY Zenon, <3>3, <3>4, <3>5 DEF count
    <3> QED
      BY Zenon, <2>2, <3>6
  <2> QED
    BY <2>1, <2>2
<1> HIDE DEF mean
<1> QED
  BY <1>1, <1>4

-----------------------------------------------------------------------------
(* What the figures are compared with, in the rows. *)
Lasted(since) == Cardinality({n \in Ended(since) : store.run[n].minutes >= 0})
Under(i) == IF Waits(i) = {} THEN {unresolved} ELSE {store.edge[k].dst : k \in Waits(i)}
Reviewed(days) ==
    Cardinality({i \in DOMAIN store.task :
      InReview(store.task[i]) /\ DayOf(store.task[i].updated_at) \in Days(days)})

Agree(m) ==
    /\ Sum(m.histogram) = Lasted(start_at(m.days))
    /\ Sum([a \in DOMAIN m.by_actor |-> m.by_actor[a].count]) = Cardinality(Ended(start_at(m.days)))
    /\ Sum([a \in DOMAIN m.success |->
              m.success[a].complete + m.success[a].parked + m.success[a].error])
         = Cardinality(Ended(start_at(m.days)))
    /\ \A a \in DOMAIN m.by_actor : Among(m.by_actor[a], MinutesOf(a, start_at(m.days)))
    /\ \A i \in Blocked(start_at(m.days)) : {b \in DOMAIN m.heatmap : i \in m.heatmap[b].waiting} = Under(i)
    /\ \A b \in DOMAIN m.heatmap : m.heatmap[b].task_count >= Cardinality(m.heatmap[b].waiting)
    /\ Sum(m.review_load) = Reviewed(m.days)
    /\ m.precision.at_5 <= 100 /\ m.precision.at_10 <= 100

LEMMA AgreeIsMetricsAgree ==
    MetricsAgree <=> \A m \in metrics : m.days > 0 => Agree(m)
  BY Zenon DEF MetricsAgree, Agree, Lasted, Under, Reviewed, MinutesOf

(* The answer to one request. *)
Answered(days) ==
    [days         |-> days,
     cycle_time   |-> cycle_time_metrics(start_at(days)),
     heatmap      |-> blocked_heatmap(start_at(days)),
     histogram    |-> handoff_latency_histogram(start_at(days)),
     by_actor     |-> handoff_latency_by_actor(start_at(days)),
     precision    |-> retrieval_precision(start_at(days)),
     success      |-> agent_success_rates(start_at(days)),
     review_load  |-> review_load(start_at(days), days)]

LEMMA AnsweredAgrees ==
    ASSUME Stored, NEW days \in 1..365
    PROVE  Agree(Answered(days))
<1> DEFINE m == Answered(days)
           since == start_at(days)
<1>1. /\ m.days = days
      /\ m.heatmap = blocked_heatmap(since)
      /\ m.histogram = handoff_latency_histogram(since)
      /\ m.by_actor = handoff_latency_by_actor(since)
      /\ m.precision = retrieval_precision(since)
      /\ m.success = agent_success_rates(since)
      /\ m.review_load = review_load(since, days)
  BY DEF Answered
<1> HIDE DEF m
<1>2. Sum(m.histogram) = Lasted(start_at(m.days))
  <2>1. Sum(handoff_latency_histogram(since)) = Lasted(since)
    BY BucketsAddUp DEF Lasted
  <2> QED
    BY Zenon, <1>1, <2>1
<1>3. Sum([a \in DOMAIN m.by_actor |-> m.by_actor[a].count]) = Cardinality(Ended(start_at(m.days)))
  BY Zenon, <1>1, LatenciesOfAll
<1>4. Sum([a \in DOMAIN m.success |-> m.success[a].complete + m.success[a].parked + m.success[a].error])
        = Cardinality(Ended(start_at(m.days)))
  BY Zenon, <1>1, OutcomesOfAll
<1>5. \A a \in DOMAIN m.by_actor : Among(m.by_actor[a], MinutesOf(a, start_at(m.days)))
  <2>1. DOMAIN m.by_actor = Actors(since)
    BY <1>1 DEF handoff_latency_by_actor
  <2>2. \A a \in Actors(since) : Among(handoff_latency_by_actor(since)[a], MinutesOf(a, since))
    BY Zenon, ActorsLieAmong
  <2> QED
    BY Zenon, <1>1, <2>1, <2>2
<1>6. /\ \A i \in Blocked(start_at(m.days)) : {b \in DOMAIN m.heatmap : i \in m.heatmap[b].waiting} = Under(i)
      /\ \A b \in DOMAIN m.heatmap : m.heatmap[b].task_count >= Cardinality(m.heatmap[b].waiting)
  <2> DEFINE H == blocked_heatmap(since)
  <2>1. /\ \A i \in Blocked(since) : {b \in DOMAIN H : i \in H[b].waiting} = Under(i)
        /\ \A b \in DOMAIN H : H[b].task_count >= Cardinality(H[b].waiting)
    BY BlockedStand DEF Under
  <2>2. m.heatmap = H /\ m.days = days
    BY <1>1
  <2> HIDE DEF H
  <2> QED
    BY Zenon, <2>1, <2>2
<1>7. Sum(m.review_load) = Reviewed(m.days)
  <2>1. Sum(review_load(since, days)) = Reviewed(days)
    BY DaysAddUp DEF Reviewed
  <2> QED
    BY Zenon, <1>1, <2>1
<1>8. m.precision.at_5 <= 100 /\ m.precision.at_10 <= 100
  <2>1. retrieval_precision(since).at_5 <= 100 /\ retrieval_precision(since).at_10 <= 100
    BY MeansAreBounded
  <2> QED
    BY <1>1, <2>1
<1>9. Agree(m)
  BY Zenon, <1>2, <1>3, <1>4, <1>5, <1>6, <1>7, <1>8 DEF Agree
<1> QED
  BY <1>9 DEF m

(* The rows are read, not written. *)
LEMMA AgreeStill ==
    ASSUME store' = store, NEW m
    PROVE  Agree(m) <=> Agree(m)'
<1>1. \A since : Ended(since)' = Ended(since)
  BY DEF Ended
<1>2. \A a, since : By(a, since)' = By(a, since)
  BY <1>1 DEF By
<1>3. \A since : Lasted(since)' = Lasted(since)
  BY <1>1 DEF Lasted
<1>4. \A a, since : MinutesOf(a, since)' = MinutesOf(a, since)
  BY <1>2 DEF MinutesOf
<1>5. \A i : Waits(i)' = Waits(i)
  BY DEF Waits
<1>6. \A i : Under(i)' = Under(i)
  BY <1>5 DEF Under
<1>7. \A since : Blocked(since)' = Blocked(since)
  BY DEF Blocked
<1>8. \A days : Reviewed(days)' = Reviewed(days)
  BY DEF Reviewed
<1> QED
  BY Zenon, <1>1, <1>3, <1>4, <1>6, <1>7, <1>8 DEF Agree

MetricsInvariant == Stored /\ MetricsAgree

LEMMA MetricsBegin == MetricsInit => MetricsInvariant
<1> SUFFICES ASSUME MetricsInit PROVE MetricsInvariant
  OBVIOUS
<1>1. store \in Stores /\ metrics = {}
  BY DEF MetricsInit
<1>2. Stored
  BY <1>1, RowsAreTyped DEF Stored
<1>3. MetricsAgree
  BY <1>1, AgreeIsMetricsAgree
<1> QED
  BY <1>2, <1>3 DEF MetricsInvariant

LEMMA MetricsStep == MetricsInvariant /\ [MetricsNext]_metricVars => MetricsInvariant'
<1> SUFFICES ASSUME MetricsInvariant, [MetricsNext]_metricVars PROVE MetricsInvariant'
  OBVIOUS
<1>1. Stored /\ \A m \in metrics : m.days > 0 => Agree(m)
  BY AgreeIsMetricsAgree DEF MetricsInvariant
<1>2. store' = store
  BY DEF MetricsNext, analytics_metrics, metricVars
<1>3. Stored'
  BY Zenon, <1>1, <1>2 DEF Stored
<1>4. ASSUME NEW m \in metrics', m.days > 0 PROVE Agree(m)
  <2>1. CASE UNCHANGED metricVars
    BY Zenon, <1>1, <1>4, <2>1 DEF metricVars
  <2>2. ASSUME NEW days \in Int, analytics_metrics(days) PROVE Agree(m)
    <3>1. metrics' = {IF ~parse_window(days) THEN [days |-> 0] ELSE Answered(days)}
      BY Zenon, <2>2 DEF analytics_metrics, Answered
    <3>2. CASE parse_window(days)
      <4>1. m = Answered(days) /\ days \in 1..365
        BY <1>4, <3>1, <3>2 DEF parse_window
      <4> QED
        BY Zenon, <1>1, <4>1, AnsweredAgrees
    <3>3. CASE ~parse_window(days)
      <4>1. m = [days |-> 0]
        BY <1>4, <3>1, <3>3
      <4> QED
        BY <1>4, <4>1
    <3> QED
      BY <3>2, <3>3
  <2> QED
    BY <2>1, <2>2 DEF MetricsNext
<1>5. \A m \in metrics' : m.days > 0 => Agree(m)'
  BY Zenon, <1>2, <1>4, AgreeStill
<1>6. MetricsAgree'
  BY Zenon, <1>5 DEF MetricsAgree, Agree, Lasted, Under, Reviewed, MinutesOf
<1> QED
  BY <1>3, <1>6 DEF MetricsInvariant

(* The figures of one answer agree with each other and with the rows, for *)
(* any rows: routers/analytics.py.                                        *)
THEOREM MetricsTellOneStory == MetricsSpec => []MetricsAgree
<1>1. MetricsSpec => []MetricsInvariant
  BY MetricsBegin, MetricsStep, PTL DEF MetricsSpec
<1>2. MetricsInvariant => MetricsAgree
  BY DEF MetricsInvariant
<1> QED
  BY <1>1, <1>2, PTL
=============================================================================
