----------------------------- MODULE Submission -----------------------------
(***************************************************************************)
(* The submission validator: validator.py and schemas/submit.py.  An issue *)
(* is named by its rule; hints and the order of issues are left out.  A    *)
(* payload is a record of what the schema and the rules tell apart.        *)
(***************************************************************************)
EXTENDS DodChecks

MAX_SUBMISSION_DEPTH == 10

(* A result in the old shape names an item and whether it is checked. *)
normalize_legacy_shape(result) ==
    CASE "dod_id" \in DOMAIN result -> result
      [] result.checked ->
           [dod_id |-> result.item, status |-> "passed", evidence |-> 1, reason |-> FALSE]
      [] OTHER ->
           [dod_id |-> result.item, status |-> "failed", evidence |-> 0, reason |-> TRUE]

(* TaskCompletionSubmission: what strict parsing refuses. *)
SubmitErrors(body) ==
    (IF body.depth > MAX_SUBMISSION_DEPTH THEN {"submission.value_error"} ELSE {})
      \cup (IF body.extra THEN {"submission.extra_forbidden"} ELSE {})
      \cup (IF body.output.artifacts = {} \/ body.dod_results = <<>> THEN {"submission.too_short"} ELSE {})

Latest(places) == {k \in places : \A j \in places : j <= k}

(* A result names the last item with its id; without any, the last item     *)
(* with its statement.                                                      *)
Match(items, dod_id) ==
    LET named == {k \in DOMAIN items : items[k].dod_id = dod_id}
        stated == {k \in DOMAIN items : items[k].statement = dod_id} IN
    Latest(IF named # {} THEN named ELSE stated)

(* _dod_issues: a result for an unknown item keeps the missing items from   *)
(* being reported.  An item is seen when one with its id is.                *)
dod_issues(contract, results) ==
    LET items == resolve_contract_dod_items(contract)
        known == {r \in ToSet(results) : Match(items, r.dod_id) # {}}
        seen == {items[k].dod_id : k \in UNION {Match(items, r.dod_id) : r \in known}} IN
    IF items = <<>> THEN {} ELSE
      (IF known # ToSet(results) THEN {"dod_result_unknown_id"} ELSE {})
        \cup (IF \E r \in known : r.status = "passed" /\ r.evidence = 0
                THEN {"dod_result_evidence_required"} ELSE {})
        \cup (IF \E r \in known : r.status # "passed" /\ ~r.reason
                THEN {"dod_result_reason_required"} ELSE {})
        \cup (IF known = ToSet(results) /\ {i.dod_id : i \in ToSet(items)} # seen
                THEN {"dod_result_missing"} ELSE {})

NoReport == [made |-> "none", checklist |-> {}]

Unchecked(report) == {c \in report.checklist : c.state # "checked"}

(* f"dod_{state}" *)
DodRule == [partial |-> "dod_partial", unchecked_blocked |-> "dod_unchecked_blocked",
            unchecked_unmet |-> "dod_unchecked_unmet"]

dod_report_issues(report) ==
    {DodRule[c.state] : c \in Unchecked(report)}
      \cup (IF report.made = "invalid" THEN {"dod_checks_invalid"} ELSE {})

has_retry_signal(body) == body.had_failure \/ body.had_block \/ body.had_retry

schema_issues(task_type, output) ==
    CASE task_type \notin Schemas -> {"task_type_schema_missing"}
      [] task_type \in Schemas /\ task_type \notin output.satisfies -> {"schema"}
      [] OTHER -> {}

(* Issues and report of one submission.  Errors of the payload's shape are  *)
(* the only ones reported; a contract without dod_checks yields no report.  *)
validate_submission(task_type, contract, body, world) ==
    LET results == [k \in DOMAIN body.dod_results |-> normalize_legacy_shape(body.dod_results[k])]
        report == IF "dod_checks" \in DOMAIN contract
                    THEN run_dod_checks(contract, body.output, world) ELSE NoReport
        issues == schema_issues(task_type, body.output)
                    \cup (IF has_retry_signal(body) /\ body.output.learnings = 0
                            THEN {"learnings_required"} ELSE {})
                    \cup dod_issues(contract, results) IN
    IF SubmitErrors(body) # {}
      THEN [errors |-> SubmitErrors(body), report |-> NoReport]
      ELSE [errors |-> issues \cup dod_report_issues(report),
            report |-> IF report.made = "made" THEN report ELSE NoReport]
=============================================================================
