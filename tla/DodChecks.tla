------------------------------ MODULE DodChecks ------------------------------
(***************************************************************************)
(* The declarative definition-of-done checks: dod.py and dod_checks/.  A   *)
(* check is a record of the fields its contract gives it; a field that is  *)
(* missing, or not of its type, is absent from the record, but a timeout   *)
(* that is no number is 0; patterns are ones that compile.  A file is a    *)
(* record of what the checks ask of it: its size, the patterns found in    *)
(* it, its test cases if it is JUnit XML, whether it is JSON and the       *)
(* schemas it satisfies.                                                   *)
(***************************************************************************)
EXTENDS Naturals, Sequences, SequencesExt

CONSTANTS
    Matches,   \* Matches[mode][expression]: the uris an expression selects
    Schemas    \* names of the registered task types

(* What the checks read outside the submission: file[uri] for the uris that *)
(* exist, conclusion[check run] and mergeable[pull request] for what GitHub *)
(* answers.                                                                 *)
Answers(world, kind, key) == key \in DOMAIN world[kind]

Has(check, fields) == fields \subseteq DOMAIN check

(* ArtifactBundle.from_output: the artifacts and the test report. *)
Bundle(output) == output.artifacts \cup {output.test_report}

select_artifacts(bundle, mode, expression) ==
    IF mode = "exact" THEN bundle \cap {expression} ELSE bundle \cap Matches[mode][expression]

Mode(check) == IF "path_mode" \in DOMAIN check THEN check.path_mode ELSE "exact"
Selected(check, bundle) == select_artifacts(bundle, Mode(check), check.path)
Named(check, bundle) == select_artifacts(bundle, "exact", check.path)

Unmet(holds) == IF holds THEN "checked" ELSE "unchecked_unmet"

path_exists(check, bundle, world) ==
    Unmet(Selected(check, bundle) # {} /\ Selected(check, bundle) \subseteq DOMAIN world.file)

(* Only declared artifacts count, whatever else is on the disk. *)
path_absent(check, bundle, world) == Unmet(Selected(check, bundle) = {})

(* What the declared artifacts that exist are files of. *)
FilesNamed(check, bundle, world) ==
    {world.file[u] : u \in {k \in Named(check, bundle) : Answers(world, "file", k)}}

artifact_size(check, bundle, world) ==
    Unmet(\E f \in FilesNamed(check, bundle, world) :
             /\ "min_bytes" \in DOMAIN check => f.size >= check.min_bytes
             /\ "max_bytes" \in DOMAIN check => f.size <= check.max_bytes)

grep_present(check, bundle, world) ==
    Unmet(\E f \in FilesNamed(check, bundle, world) : check.pattern \in f.words)

grep_absent(check, bundle, world) ==
    Unmet(\A f \in FilesNamed(check, bundle, world) : check.pattern \notin f.words)

test_count(check, bundle, world) ==
    Unmet(\E f \in FilesNamed(check, bundle, world) : \E n \in f.testcases : n >= check.min_count)

schema_validates(check, bundle, world) ==
    Unmet(\E f \in FilesNamed(check, bundle, world) : check.schema_name \in f.satisfies)

(* GitHub is asked only through a client; no client, no answer and an error *)
(* leave the item blocked.                                                  *)
CheckRun(check) == <<check.repo, check.sha, check.check_name>>
PullRequest(check) == <<check.repo, check.pr_number>>

ci_status(check, world) ==
    IF Answers(world, "conclusion", CheckRun(check))
      THEN Unmet(world.conclusion[CheckRun(check)] = "success")
      ELSE "unchecked_blocked"

pr_mergeable(check, world) ==
    IF Answers(world, "mergeable", PullRequest(check))
      THEN Unmet(world.mergeable[PullRequest(check)])
      ELSE "unchecked_blocked"

-----------------------------------------------------------------------------
(* The fields a check cannot do without. *)
Fields(type) ==
    CASE type = "artifact_size" -> {"path"}
      [] type \in {"grep_absent", "grep_present"} -> {"path", "pattern"}
      [] type \in {"path_absent", "path_exists"} -> {"path"}
      [] type = "schema_validates" -> {"path", "schema_name"}
      [] type = "test_count" -> {"path", "min_count"}
      [] type = "ci_status" -> {"repo", "sha", "check_name"}
      [] type = "pr_mergeable" -> {"repo", "pr_number"}

CHECK_HANDLERS ==
    {"artifact_size", "ci_status", "grep_absent", "grep_present", "path_absent",
     "path_exists", "pr_mergeable", "schema_validates", "test_count"}

(* A check that cannot be parsed makes the whole run fail; "shell" is no    *)
(* handler.  The schema is looked up only once the document parses.         *)
coerce_check_definition(check, bundle, world) ==
    /\ Has(check, {"item", "type"})
    /\ check.type \in CHECK_HANDLERS
    /\ Has(check, Fields(check.type))
    /\ "timeout_seconds" \in DOMAIN check => check.timeout_seconds > 0
    /\ check.type = "artifact_size" =>
         /\ {"min_bytes", "max_bytes"} \cap DOMAIN check # {}
         /\ Has(check, {"min_bytes", "max_bytes"}) => check.min_bytes <= check.max_bytes
    /\ check.type \in {"path_absent", "path_exists"} =>
         \/ Mode(check) = "exact"
         \/ Mode(check) \in DOMAIN Matches /\ check.path \in DOMAIN Matches[Mode(check)]
    /\ check.type = "schema_validates" =>
         \A u \in Named(check, bundle) :
            Answers(world, "file", u) /\ world.file[u].json => check.schema_name \in Schemas

handler(check, bundle, world) ==
    CASE check.type = "artifact_size"    -> artifact_size(check, bundle, world)
      [] check.type = "grep_absent"      -> grep_absent(check, bundle, world)
      [] check.type = "grep_present"     -> grep_present(check, bundle, world)
      [] check.type = "path_absent"      -> path_absent(check, bundle, world)
      [] check.type = "path_exists"      -> path_exists(check, bundle, world)
      [] check.type = "schema_validates" -> schema_validates(check, bundle, world)
      [] check.type = "test_count"       -> test_count(check, bundle, world)
      [] check.type = "ci_status"        -> ci_status(check, world)
      [] check.type = "pr_mergeable"     -> pr_mergeable(check, world)

(* An item that no check names counts as done. *)
aggregate_item_vacuously(results) ==
    IF \A k \in DOMAIN results : results[k] = "checked" THEN "checked" ELSE "partial"

(* An item is checked when all of its checks are, and not by having none;   *)
(* results[k] is what check k of the contract says of it.                   *)
aggregate_item(results) ==
    LET of(state) == {k \in DOMAIN results : results[k] = state} IN
    IF DOMAIN results = {} THEN "unchecked_blocked"
    ELSE IF of("checked") = DOMAIN results THEN "checked"
    ELSE IF of("checked") # {} THEN "partial"
    ELSE IF of("unchecked_unmet") = {} THEN "unchecked_blocked"
    ELSE "unchecked_unmet"

-----------------------------------------------------------------------------
(* The items of a contract: the complete structured ones; without any, the  *)
(* statements of definition_of_done, or else of dod_checklist.              *)
resolve_contract_dod_items(contract) ==
    LET structured == SelectSeq(contract.dod_items, LAMBDA i : i.complete)
        statements == IF contract.definition_of_done # <<>>
                        THEN contract.definition_of_done ELSE contract.dod_checklist IN
    IF structured # <<>>
      THEN [k \in DOMAIN structured |-> [dod_id |-> structured[k].id, statement |-> structured[k].statement]]
      ELSE [k \in DOMAIN statements |-> [dod_id |-> <<"legacy", k>>, statement |-> statements[k]]]

Statements(contract) == {i.statement : i \in ToSet(resolve_contract_dod_items(contract))}

(* Every item of the contract, and each item that only checks name, each    *)
(* with the state of its checks.  One check that cannot be parsed spoils     *)
(* the whole report.                                                        *)
run_dod_checks(contract, output, world) ==
    LET checks == contract.dod_checks
        bundle == Bundle(output)
        own(item) == {k \in DOMAIN checks : checks[k].item = item}
        results(item) == [k \in own(item) |-> handler(checks[k], bundle, world)]
        items == Statements(contract) \cup {checks[k].item : k \in DOMAIN checks} IN
    IF checks = <<>> \/ \E k \in DOMAIN checks : ~coerce_check_definition(checks[k], bundle, world)
      THEN [made |-> "invalid", checklist |-> {}]
      ELSE [made |-> "made",
            checklist |-> {[item |-> i, state |-> aggregate_item(results(i))] : i \in items}]
=============================================================================
