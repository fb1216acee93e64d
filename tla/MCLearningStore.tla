--------------------------- MODULE MCLearningStore ---------------------------
(* Three instances of the learning ledger in one run:                        *)
(*   review  reviewers at work on two drafts of two projects, beside one      *)
(*           learning written by hand, and whatever comes to be learning 1    *)
(*           promoted and superseded, two requests at a time;                 *)
(*   curate  three learnings written by hand, promoted once and superseded by *)
(*           one another, two requests at a time;                             *)
(*   client  two drafts and two learnings, one request at a time, and at any  *)
(*           point one write of a generic route, after which the ledger goes  *)
(*           on ("written").                                                  *)
(* A race may happen at any time, and in one behaviour once: after it, the    *)
(* two requests keep to different rows.                                       *)
EXTENDS LearningStore, TLC

CONSTANTS d1, d2, t1, t2, m1, m2, p1, p2, r1, r2

TwoDrafts == {d1, d2}
TwoTopics == {t1, t2}
TwoMarks == {m1, m2}
TwoProjects == {p1, p2}
TwoSlots == {r1, r2}
ThreeLearnings == 1..3
Apart == [d \in Draft |-> IF d = d1 THEN p1 ELSE p2]
Row(status, scope, topic, project) ==
    [status |-> status, scope |-> scope, topic |-> topic, vector |-> topic,
     marks |-> {m1}, project |-> project]
Hand == {Row("active", "task", t1, p1), Row("other", "project", t2, None)}
Says == [d \in Draft |-> {[topic |-> t1, scope |-> "task",
                           marks |-> {IF d = d1 THEN m1 ELSE m2}]}]
Rewrite == {[topic |-> None, scope |-> None, marks |-> {m2}],
            [topic |-> t2, scope |-> "project", marks |-> None]}

CONSTANT Instance
VARIABLE which

OneRace == raced = {} \/ raced' = raced
Stored(rows) == {l \in Learning : rows[l].status # "none"}
OneByHand == Cardinality({l \in Stored(learning') : learning'[l].from = None}) <= 1
WrittenFirst == learning' # learning /\ req' = req => \A r \in Request : req[r] = Idle
OneAtATime == Cardinality({r \in Request : req'[r] # Idle}) <= 1
OnTheFirst == \A r \in Request : req'[r].op \in {"promote", "supersede"} => req'[r].learning = 1
OneCurates == Cardinality({r \in Request : req'[r].op \in {"promote", "supersede"}}) <= 1
EditsTheOther == \A r \in Request : req'[r].op \in {"edit", "reject"} => req'[r].draft = d2
OnOneTopic == /\ \A d \in Draft : draft'[d].topic # t2
              /\ \A l \in Learning : learning'[l].topic # t2

DraftsFirst ==
    req' # req \/ learning' # learning => \A d \in Draft : draft[d].status # "none"
EndsStored ==
    /\ \A e \in replaced' : {e[1], e[2]} \subseteq Stored(learning')
    /\ \A p \in related' : p \subseteq Stored(learning')

Allowed ==
    CASE which = "review" ->
            DraftsFirst /\ OneByHand /\ OneCurates /\ OnTheFirst /\ OnOneTopic
      [] which = "curate" ->
            /\ WrittenFirst /\ draft' = draft /\ OnOneTopic
            /\ \A r \in Request : req'[r].op = "promote" => req'[r].row.scope = "task"
      [] which \in {"client", "written"} ->
            /\ DraftsFirst /\ OneByHand /\ OneAtATime /\ OnTheFirst /\ EditsTheOther
            /\ Cardinality(Stored(learning')) <= 2 /\ EndsStored

MCInit == Init /\ which \in Instance
MCNext ==
    /\ \/ Ledger /\ OneRace /\ UNCHANGED which
       \/ Generic /\ which = "client" /\ which' = "written"
    /\ Allowed
MCSpec == MCInit /\ [][MCNext]_<<vars, which>>

Symmetry == Permutations(TwoSlots)
=============================================================================
