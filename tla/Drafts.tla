------------------------------- MODULE Drafts -------------------------------
(***************************************************************************)
(* The learning drafts a run is worth: draft_learnings and its readers of  *)
(* the run trace (learnings/draft.py).  A trace is whatever the agent put  *)
(* into run.details; entries that are not objects, and values that are not *)
(* text, are absent from it.  Texts are model values with a length; the    *)
(* wording around them is left out.                                        *)
(***************************************************************************)
EXTENDS Listed

CONSTANTS
    Size,         \* Size[t]: length of text t
    TitleRoom,    \* what MediumText leaves a summary
    ItemRoom,     \* what PathText leaves an evidence item
    Traces        \* the traces there may be

ASSUME TracesAreLists ==
    \A t \in Traces :
      /\ IsList(t.attempts) /\ IsList(t.events) /\ IsList(t.notes) /\ IsList(t.submitted)
      /\ t.retry_count \subseteq Nat
      /\ \A k \in DOMAIN t.attempts :
           IsList(t.attempts[k].errors) /\ IsList(t.attempts[k].failed_tests)

VARIABLES
    trace,      \* the details of the run, and what its submission declared
    drafted     \* the drafts built from it, {} before

draftVars == <<trace, drafted>>

_MAX_EVIDENCE_ITEMS == 16

(* The texts among entries that hold one or none. *)
Texts(found) ==
    At([k \in DOMAIN found |-> CHOOSE t \in found[k] : TRUE], {k \in DOMAIN found : found[k] # {}})

-----------------------------------------------------------------------------
(* _validator_rejection_attempts: errors, or a status that says so. *)
Rejected(attempt) ==
    \/ attempt.errors # <<>>
    \/ attempt.says \cap {"validator_rejection", "validation_failed",
                          "schema_failed", "rejected_by_validator"} # {}
    \/ "rejected" \in attempt.says /\ attempt.says \cap {"validator", "schema"} # {}

validator_rejection_attempts ==
    At(trace.attempts, {k \in DOMAIN trace.attempts : Rejected(trace.attempts[k])})

validator_failure_modes ==
    LET errors == [k \in DOMAIN validator_rejection_attempts |-> validator_rejection_attempts[k].errors] IN
    dedupe(Texts(Chained(errors)))

(* _failed_test_names: the named tests, and the label of a failed attempt. *)
failed_test_names ==
    LET label(a) == IF a.says \cap {"test_failed", "pytest_failed", "failing test"} # {}
                      THEN a.label ELSE {}
        named == [k \in DOMAIN trace.attempts |->
                    trace.attempts[k].failed_tests \o <<label(trace.attempts[k])>>] IN
    dedupe(Texts(Chained(named)))

(* Attempts instead of retries. *)
retry_count_of_attempts ==
    IF trace.retry_count # {} THEN CHOOSE n \in trace.retry_count : TRUE
    ELSE IF Len(trace.attempts) > 0 THEN Len(trace.attempts)
    ELSE IF trace.had_retry THEN 1 ELSE 0

(* _retry_count: what the trace counts, or shows, or the submission says. *)
retry_count ==
    IF trace.retry_count # {} THEN CHOOSE n \in trace.retry_count : TRUE
    ELSE IF Len(trace.attempts) > 1 THEN Len(trace.attempts) - 1
    ELSE IF trace.had_retry THEN 1 ELSE 0

(* _was_blocked_then_resolved; "unblocked" has a "block" in it. *)
was_blocked_then_resolved ==
    LET kinds == UNION {trace.events[k].kind : k \in DOMAIN trace.events} IN
    kinds \cap {"blocked", "unblocked"} # {} /\ kinds \cap {"unblocked", "resumed", "resolved"} # {}

reviewer_correction_notes ==
    LET said == [k \in DOMAIN trace.events |->
                   IF "reviewer" \in trace.events[k].kind THEN trace.events[k].note ELSE {}] IN
    dedupe(Texts(trace.notes \o said))

-----------------------------------------------------------------------------
Tagged(scheme, items) == [k \in DOMAIN items |-> <<scheme, items[k]>>]

(* _evidence: the run, what the draft is about, what was submitted; capped. *)
evidence(extra) ==
    Take(dedupe(<<<<"run">>>> \o extra \o Tagged("submitted", trace.submitted)), _MAX_EVIDENCE_ITEMS)

build_draft(type, summary, extra) ==
    [type |-> type, summary |-> summary, evidence |-> evidence(extra)]

(* Each of the five drafts that the trace calls for, in this order.  The    *)
(* summary of a title is the first two of its texts.                        *)
Drafted ==
    <<build_draft("pitfall", Take(validator_failure_modes, 2), Tagged("validator", validator_failure_modes)),
      build_draft("tooling", Take(failed_test_names, 2), Tagged("test", failed_test_names)),
      build_draft("process-rule", <<>>, <<<<"retry-count", retry_count>>>>),
      build_draft("decision-followup", <<>>, <<<<"blocked">>, <<"resolved">>>>),
      build_draft("user-preference", <<>>, Tagged("reviewer", reviewer_correction_notes))>>

Called ==
    At(Drafted, {n \in 1..5 : \/ n = 1 /\ validator_rejection_attempts # <<>>
                              \/ n = 2 /\ failed_test_names # <<>>
                              \/ n = 3 /\ retry_count > 0
                              \/ n = 4 /\ was_blocked_then_resolved
                              \/ n = 5 /\ reviewer_correction_notes # <<>>})

(* LearningSchemaModel: a text that is too long is refused. *)
Fitting(draft) ==
    /\ FoldLeft(LAMBDA n, t : n + Size[t], 0, draft.summary) <= TitleRoom
    /\ \A k \in DOMAIN draft.evidence :
         draft.evidence[k][1] \in {"validator", "test", "reviewer"} => Size[draft.evidence[k][2]] <= ItemRoom

(* One draft that is refused, and there is none at all. *)
draft_learnings ==
    /\ drafted = {}
    /\ drafted' = {IF \A k \in DOMAIN Called : Fitting(Called[k])
                     THEN [made |-> TRUE, drafts |-> Called] ELSE [made |-> FALSE, drafts |-> <<>>]}
    /\ UNCHANGED trace

DraftsInit == trace \in Traces /\ drafted = {}
DraftsSpec == DraftsInit /\ [][draft_learnings]_draftVars

-----------------------------------------------------------------------------
Cites(draft, item) == item \in ToSet(draft.evidence)
OfType(d, type) == {k \in DOMAIN d.drafts : d.drafts[k].type = type}

(* Drafts are grounded in the run: each kind comes once at most and names   *)
(* the run; none comes from a run that went through at the first attempt    *)
(* with nothing to tell; a run that says or shows a retry leaves one, if it *)
(* does not count zero of them; what the submission declared is cut from    *)
(* the evidence only for want of room: draft_learnings, _evidence.          *)
DraftsAreGrounded ==
    \A d \in drafted : d.made =>
      /\ \A k, l \in DOMAIN d.drafts : k # l => d.drafts[k].type # d.drafts[l].type
      /\ \A k \in DOMAIN d.drafts :
           /\ d.drafts[k].evidence[1] = <<"run">>
           /\ \/ \A n \in DOMAIN trace.submitted : Cites(d.drafts[k], <<"submitted", trace.submitted[n]>>)
              \/ Len(d.drafts[k].evidence) = _MAX_EVIDENCE_ITEMS
      /\ trace.had_retry \/ Len(trace.attempts) > 1 =>
           0 \in trace.retry_count \/ OfType(d, "process-rule") # {}
      /\ /\ Len(trace.attempts) < 2 /\ ~trace.had_retry /\ trace.retry_count \subseteq {0}
         /\ trace.events = <<>> /\ trace.notes = <<>>
         /\ \A k \in DOMAIN trace.attempts :
              /\ trace.attempts[k].errors = <<>> /\ trace.attempts[k].failed_tests = <<>>
              /\ trace.attempts[k].says = {}
         => d.drafts = <<>>
=============================================================================
