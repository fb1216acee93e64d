------------------------------- MODULE MCRules -------------------------------
(***************************************************************************)
(* Rules that decide on what one request brings, each on instances of its  *)
(* own: a state belongs to one of them, which the initial state chooses.   *)
(***************************************************************************)
EXTENDS Completion, RequestPath, Retrieval, Drafts, Analytics

CONSTANTS r1, r2, ana, stranger

VARIABLE which   \* the rules this behaviour exercises

-----------------------------------------------------------------------------
(* Completion: the coding-task pack; contracts of one or two items, checked *)
(* on one or two files.  Production builds the validator without a GitHub   *)
(* client, so no world has an answer of it.                                 *)
MCMatches == [glob |-> ("*.xml" :> {"junit"}), regex |-> ("src/.*" :> {"code"})]
MCSchemas == {"coding-task"}

MCPack ==
    [hitl |-> TRUE, tier |-> 3, max_retries |-> 2, blocked_hours |-> 24,
     escalation_target |-> "needs_ghost_triage", overrides |-> ("coding-task" :> 0),
     transitions |-> [queued |-> {"claimed", "parked"},
                      claimed |-> {"in_progress", "blocked", "parked"},
                      in_progress |-> {"submitted", "blocked", "parked"},
                      submitted |-> {"validated", "rejected", "blocked", "parked"},
                      validated |-> {"done", "rejected", "blocked", "parked"},
                      rejected |-> {"queued", "blocked", "parked"},
                      blocked |-> {"queued", "needs_ghost_triage", "parked"},
                      parked |-> {"queued"}],
     required |-> [claimed |-> {"read_repo"}, in_progress |-> {"write_branch"},
                   submitted |-> {"run_tests"}, done |-> {"update_task"}]]

MCAttachable == {[MCPack EXCEPT !.hitl = FALSE, !.tier = 2, !.overrides = ("coding-task" :> 1)]}

Contract(items, checks) ==
    [tier |-> 3, dod_items |-> <<>>, definition_of_done |-> items, dod_checklist |-> <<"other">>,
     dod_checks |-> checks]
Of(type, item, path) == [type |-> type, item |-> item, path |-> path]

MCContracts ==
    {Contract(<<"built">>, <<Of("path_exists", "built", "code")>>),
     [tier |-> 1, dod_items |-> <<[id |-> "d1", statement |-> "built", complete |-> TRUE],
                                  [id |-> "d1", statement |-> "tested", complete |-> TRUE],
                                  [id |-> "d2", statement |-> "other", complete |-> FALSE]>>,
      definition_of_done |-> <<"other">>, dod_checklist |-> <<>>,
      dod_checks |-> <<Of("grep_present", "built", "code") @@ [pattern |-> "main"],
                       Of("grep_absent", "tested", "code") @@ [pattern |-> "todo"]>>],
     Contract(<<"built", "tested">>,
              <<Of("artifact_size", "built", "code") @@ [min_bytes |-> 1, max_bytes |-> 2],
                Of("schema_validates", "built", "code") @@ [schema_name |-> "coding-task"],
                Of("test_count", "tested", "junit") @@ [min_count |-> 2]>>),
     Contract(<<"built", "tested">>, <<Of("path_exists", "tested", "*.xml") @@ [path_mode |-> "glob"]>>),
     Contract(<<>>,
              <<Of("path_absent", "other", "secret"),
                [type |-> "ci_status", item |-> "extra", check_name |-> "ci", repo |-> "aq", sha |-> "head"]>>),
     Contract(<<"built">>, <<Of("shell", "built", "code")>>),
     [tier |-> 1, dod_items |-> <<>>, definition_of_done |-> <<"built">>, dod_checklist |-> <<>>],
     [Contract(<<"built">>, <<Of("path_absent", "built", "secret")>>) EXCEPT !.tier = 4]}

Code(words) == [size |-> 1, words |-> words, testcases |-> {}, json |-> TRUE, satisfies |-> {"coding-task"}]
JUnit(n) == [size |-> 3, words |-> {}, testcases |-> {n}, json |-> FALSE, satisfies |-> {}]
World(file) == [file |-> file, conclusion |-> <<>>, mergeable |-> <<>>]
MCWorlds ==
    {World([code |-> Code({"main"}), junit |-> JUnit(2)]),
     World("code" :> Code({"main", "todo"}))}

Result(id, status) == [dod_id |-> id, status |-> status, evidence |-> 1, reason |-> TRUE]
Body(artifacts, results) ==
    [depth |-> 3, extra |-> FALSE, dod_results |-> results, had_failure |-> FALSE, had_block |-> FALSE,
     had_retry |-> FALSE,
     output |-> [artifacts |-> artifacts, test_report |-> "junit", learnings |-> 0, satisfies |-> {"coding-task"}]]
MCTaskBodies ==
    {Body({"code"}, <<Result("built", "passed")>>),
     Body({"code"}, <<Result("d1", "passed")>>),
     Body({"code"}, <<[item |-> "built", checked |-> TRUE], [item |-> "tested", checked |-> FALSE]>>),
     Body({"code", "secret"}, <<Result("other", "passed")>>),
     [Body({"code"}, <<Result("built", "passed"), Result("tested", "passed")>>) EXCEPT !.had_retry = TRUE],
     [Body({"code"}, <<Result("built", "passed"), Result("tested", "blocked")>>)
        EXCEPT !.had_block = TRUE, !.output.learnings = 1],
     [Body({}, <<>>) EXCEPT !.depth = 11]}

MCTaskState == {"queued", "in_progress", "validated", "done", "dlq"}
MCReports == {[made |-> "made", checklist |-> {[item |-> "built", state |-> "checked"]}]}

-----------------------------------------------------------------------------
(* RequestPath: two requests of one actor, or of a stranger. *)
String(n, matches) ==
    [length |-> n, hinted |-> matches # {}, uuid |-> FALSE, solid |-> FALSE, candidate |-> FALSE,
     random |-> FALSE, matches |-> matches]
Span(start, end, rule) == [start |-> start, end |-> end, rule |-> rule]
Sent(chunks, declared, depth, strings) ==
    [mutating |-> TRUE, v1 |-> TRUE, json |-> TRUE, chunks |-> chunks, declared |-> declared,
     depth |-> depth, strings |-> strings]
Bodies ==
    {[Sent(<<>>, {}, {}, <<>>) EXCEPT !.mutating = FALSE],
     Sent(<<2, 1>>, {}, {1}, <<String(3, {Span(1, 2, 1)})>>),
     Sent(<<2, 2>>, {}, {1}, <<>>),
     Sent(<<1>>, {9}, {1}, <<>>),
     Sent(<<3>>, {3}, {2}, <<String(7, {Span(0, 2, 1), Span(1, 4, 2), Span(5, 6, 1)}), String(2, {})>>),
     Sent(<<1>>, {1}, {3}, <<>>),
     Sent(<<1>>, {1}, {1}, <<[String(20, {}) EXCEPT !.solid = TRUE, !.random = TRUE]>>),
     [Sent(<<1>>, {1}, {}, <<String(2, {Span(0, 1, 1)})>>) EXCEPT !.json = FALSE],
     [Sent(<<9>>, {}, {}, <<>>) EXCEPT !.v1 = FALSE]}

-----------------------------------------------------------------------------
(* Retrieval: three learnings out of six kinds, with one pair of them alike. *)
Kind(surface, scores) ==
    [active |-> TRUE, type |-> {"coding-task"}, project |-> {"p"}, scope |-> {"api"}, tooling |-> {},
     decisions |-> {}, dependencies |-> {}, similarity |-> scores[3], recency |-> 10, lexical |-> scores[1],
     surface |-> surface, layer |-> "task", owner |-> "", learning_type |-> "pitfall", age |-> 1,
     match |-> [text |-> scores[1] + scores[2], fts |-> scores[1], trgm |-> scores[2], vector |-> scores[3]]]
Kinds ==
    {Kind({"api"}, <<1, 0, 0>>), Kind({"api"}, <<0, 0, 0>>), Kind({}, <<0, 2, 1>>),
     [Kind({"web"}, <<3, 0, 2>>) EXCEPT !.project = {"q"}, !.layer = "global"],
     [Kind({}, <<0, 0, 9>>) EXCEPT !.project = {}, !.type = {}, !.age = 90, !.recency = 0],
     [Kind({"api"}, <<9, 9, 9>>) EXCEPT !.active = FALSE]}
Plainly == [layers |-> {}, owners |-> {}, learning_types |-> {}, max_age |-> {}, surface |-> {}, project |-> {}]
Scopes ==
    {Plainly, [Plainly EXCEPT !.max_age = {30}, !.surface = {"web", "api"}],
     [Plainly EXCEPT !.layers = {"task"}, !.project = {"p"}]}
Says(project, type, repo_scope) == [project |-> project, task_type |-> type, repo_scope |-> repo_scope]
TextScopes == {Says({}, {}, {}), Says({"p"}, {"coding-task"}, {"api"}), Says({"q"}, {}, {})}
MCWeight ==
    [task_type_match |-> 20, project_match |-> 32, repo_scope_overlap |-> 30, linked_decision_overlap |-> 25,
     shared_dependency_overlap |-> 20, tooling_overlap |-> 16, text_similarity |-> 44, recency |-> 4,
     scope_bonus |-> 1]
MCBonus == [task |-> 500, project |-> 300, global |-> 300]
MCTarget ==
    [type |-> "coding-task", project |-> "p", scope |-> {"api", "log"}, tooling |-> {"pytest"},
     decisions |-> {}, dependencies |-> {}, surface |-> {"api"}]
OneLibrary == <<>>
MCLibraries == [1..3 -> Kinds] \cup {OneLibrary}
MCTargets == {MCTarget}
MCAlike == {{}, {{1, 2}}}
MCLimits == 1..3

-----------------------------------------------------------------------------
(* Drafts: a trace of few entries; one has more failure modes than a draft  *)
(* has room for.                                                            *)
Modes == <<"a", "b", "c", "d", "e", "f", "g", "h", "i", "j", "k", "l", "m", "n", "o", "p", "q">>
MCSize == [t \in ToSet(Modes) \cup {"long", "note", "test"} |->
             CASE t = "long" -> 5 [] t \in {"note", "test"} -> 1 [] OTHER -> 0]
Attempt(errors, says) == [errors |-> errors, says |-> says, failed_tests |-> <<>>, label |-> {"note"}]
Attempts ==
    {<<>>, <<Attempt(<<{"note"}, {}>>, {})>>, <<Attempt(<<>>, {}), Attempt(<<>>, {"test_failed"})>>,
     <<Attempt(<<>>, {})>>, <<Attempt(<<{"long"}>>, {})>>,
     <<Attempt(<<>>, {"rejected", "schema"}), Attempt([n \in DOMAIN Modes |-> {Modes[n]}], {})>>,
     <<[Attempt(<<>>, {}) EXCEPT !.failed_tests = <<{"test"}, {"note"}, {"test"}>>]>>}
Event(kind, note) == [kind |-> kind, note |-> note]
OneTrace ==
    [attempts |-> <<>>, retry_count |-> {}, had_retry |-> FALSE, events |-> <<>>, notes |-> <<>>,
     submitted |-> <<"code", "junit">>]
MCTraces ==
    [attempts : Attempts, retry_count : {{}, {0}, {2}}, had_retry : BOOLEAN,
     events : {<<>>, <<Event({"blocked"}, {}), Event({"reviewer"}, {"note"})>>,
               <<Event({"unblocked"}, {})>>, <<Event({"blocked"}, {})>>},
     notes : {<<>>, <<{"note"}, {}, {"long"}, {"note"}>>},
     submitted : {<<"code", "junit">>}]

-----------------------------------------------------------------------------
(* Analytics: three tasks with edges, three runs and three packets, seen in *)
(* a window of one or two days.                                             *)
Row(state, created, updated) ==
    [state |-> state, task_type |-> "coding-task", created_at |-> created, updated_at |-> updated,
     labelled |-> FALSE, surface |-> {"api"}]
Rows ==
    {Row("done", 10, 60), Row("done", 0, 5), Row("blocked", 1, 50), Row("parked", 2, 30),
     Row("validated", 3, 49), Row("validated", 3, 80), [Row("queued", 4, 25) EXCEPT !.labelled = TRUE, !.surface = {}]}
Edge(src, dst, superseded) == [src |-> src, dst |-> dst, superseded |-> superseded]
Run(actor, status, minutes) ==
    [actor |-> actor, status |-> status, minutes |-> minutes, started |-> TRUE, ended_at |-> {55}]
Packet(created, scope, learnings) ==
    [created_at |-> created, scope |-> scope, contract |-> {"api"}, learnings |-> learnings, listed |-> TRUE]
OneStore == [task |-> <<>>, edge |-> <<>>, run |-> <<>>, packet |-> <<>>]
MCStores ==
    {OneStore} \cup
    [task : [1..3 -> Rows],
     edge : {<<>>, <<Edge(1, 2, FALSE), Edge(1, 2, FALSE), Edge(2, 3, TRUE)>>, <<Edge(2, 1, FALSE), Edge(2, 3, FALSE)>>},
     run : {<<Run("ana", "done", 15), Run("ana", "failed", 0), Run("system", "queued", 120), Run("system", "ok", -5)>>,
            <<Run("ana", "ok", 29), [Run("ana", "ok", 9) EXCEPT !.ended_at = {}], Run("ana", "dlq", 60)>>},
     packet : {<<Packet(1, {}, <<{1}>>), Packet(30, {}, <<{1}, {2}, {}>>), Packet(50, {"web"}, <<{9}>>)>>}]

-----------------------------------------------------------------------------
OneRow == [state |-> "queued", attempts |-> 0, held |-> FALSE]
OneContract == CHOOSE c \in Contracts : TRUE
OneWorld == CHOOSE w \in Worlds : TRUE

Init ==
    /\ which \in {"completion", "path", "retrieval", "drafts", "analytics"}
    /\ CompletionInit
    /\ which = "completion" \/ (row = OneRow /\ contract = OneContract /\ world = OneWorld /\ attached = {})
    /\ PathInit
    /\ RetrievalInit
    /\ which = "retrieval" \/ (learning = OneLibrary /\ near = {})
    /\ DraftsInit
    /\ which = "drafts" \/ trace = OneTrace
    /\ MetricsInit
    /\ which = "analytics" \/ store = OneStore

In(rules) == which = rules /\ UNCHANGED which

Completing ==
    /\ In("completion")
    /\ UNCHANGED <<pathVars, retrievalVars, draftVars, metricVars>>
OnThePath ==
    /\ In("path")
    /\ UNCHANGED <<completionVars, retrievalVars, draftVars, metricVars>>
Retrieving ==
    /\ In("retrieval")
    /\ UNCHANGED <<completionVars, pathVars, draftVars, metricVars>>
Drafting ==
    /\ In("drafts")
    /\ UNCHANGED <<completionVars, pathVars, retrievalVars, metricVars>>
Measuring ==
    /\ In("analytics")
    /\ UNCHANGED <<completionVars, pathVars, retrievalVars, draftVars>>

Next ==
    \/ Completing /\ \E state \in TaskState : claim(state)
    \/ Completing /\ \E body \in Submissions : submit_task(body)
    \/ Completing /\ approve_task
    \/ Completing /\ reject_task
    \/ Completing /\ reset_task
    \/ Completing /\ \E n \in Place, report \in Reports : create_runs(n, report)
    \/ Completing /\ \E n \in Place, report \in Reports : patch_runs(n, report)
    \/ Completing /\ \E n \in Place : delete_runs(n)
    \/ Completing /\ \E c \in Contracts : revise(c)
    \/ Completing /\ \E p \in {{}} \cup {{a} : a \in Attachable} : attach(p)
    \/ Completing /\ \E w \in Worlds : change(w)
    \/ OnThePath /\ \E r \in Call, a \in Sender, b \in Sends : begin(r, a, b)
    \/ OnThePath /\ \E r \in Call : receive(r)
    \/ OnThePath /\ \E r \in Call : disconnect(r)
    \/ OnThePath /\ \E r \in Call : authenticate(r)
    \/ OnThePath /\ \E r \in Call : allow(r)
    \/ OnThePath /\ \E r \in Call : scan(r)
    \/ OnThePath /\ \E r \in Call : respond(r)
    \/ OnThePath /\ tick
    \/ Retrieving /\ \E k \in Limits, fuzzy \in BOOLEAN, s \in ScopesAsked : retrieve(k, fuzzy, s)
    \/ Retrieving /\ \E k \in Limits, fuzzy \in BOOLEAN, s \in ScopesAsked : search(k, fuzzy, s)
    \/ Retrieving /\ \E k \in Limits, s \in TextsAsked : invoke_search_learnings(k, s)
    \/ Drafting /\ draft_learnings
    \/ Measuring /\ \E days \in {0, 1, 2} : analytics_metrics(days)

Symmetry == Permutations(Call)
Spec == Init /\ [][Next]_<<completionVars, pathVars, retrievalVars, draftVars, metricVars, which>>
=============================================================================
