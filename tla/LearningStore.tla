---------------------------- MODULE LearningStore ----------------------------
(***************************************************************************)
(* The learning ledger: drafts that submissions leave behind, reviewers who *)
(* edit, reject, confirm or merge them, the learnings that are then         *)
(* promoted and superseded, and the generic routes, which write learnings   *)
(* and edges past all of that.                                              *)
(*                                                                          *)
(* Nothing here locks a row it has read.  A request loads its rows, decides *)
(* on what it loaded, and writes; the audit lock only makes the writes of   *)
(* one request appear at once.  `raced` records the rows that two requests  *)
(* have had in hand at the same time, and those a generic route rewrote:    *)
(* the ledger promises nothing about them, and everything about the others. *)
(***************************************************************************)
EXTENDS Naturals, FiniteSets

CONSTANTS
    Draft, None,
    Reviewer,       \* request slots that review drafts
    Curator,        \* request slots that promote and supersede
    Learning,       \* 1..n: ids in the order of (created_at, id)
    Topic,          \* what title and action rule say: equal means similar
    Mark,           \* evidence items
    Project,
    ProjectOf,      \* ProjectOf[d]: the project of the task of draft d
    Submitted,      \* Submitted[d]: what the submission may say in draft d
    Edits,          \* patches of a draft; None leaves a field alone
    ByHand          \* rows that clients write, and what they patch them to

ASSUME LearningStoreAssumption ==
    /\ IsFiniteSet(Learning) /\ Learning = 1..Cardinality(Learning)
    /\ ProjectOf \in [Draft -> Project]
    /\ Submitted \in [Draft -> SUBSET [topic : Topic, scope : {"task", "project", "global"},
                                        marks : SUBSET Mark]]
    /\ Edits \subseteq [topic : Topic \cup {None}, scope : {"task", "project", "global", None},
                        marks : (SUBSET Mark) \cup {None}]
    /\ ByHand \subseteq [status : {"active", "superseded", "expired", "other"},
                         scope : {"task", "project", "global", "other"},
                         topic : Topic, vector : Topic, marks : SUBSET Mark,
                         project : Project \cup {None}]
    /\ None \notin Draft \cup Learning \cup Topic \cup Project \cup Reviewer \cup Curator

VARIABLES
    draft,      \* draft[d]: the row of learning_drafts
    learning,   \* learning[l]: the row of learning
    replaced,   \* SUPERSEDES edges <<new, old>>
    related,    \* RELATED_TO edges, as unordered pairs
    req,        \* req[r]: the request slot r is serving
    raced       \* drafts, learnings and topics two requests had in hand at once,
                \* or a generic route rewrote

Request == Reviewer \cup Curator
vars == <<draft, learning, replaced, related, req, raced>>

(* A deleted row is kept as such: ids of the ledger's own are not used twice. *)
(* The vector of a learning is its embedding, named by the topic it was       *)
(* computed from; a generic route may store any.                              *)
DraftRow == [status : {"none", "pending", "confirmed", "rejected", "deleted"},
             topic : Topic \cup {None}, scope : {"task", "project", "global"},
             marks : SUBSET Mark, learning : Learning \cup {None}]
LearningRow == [status : {"none", "active", "superseded", "expired", "other", "deleted"},
                scope : {"task", "project", "global", "other"},
                topic : Topic \cup {None}, vector : Topic \cup {None},
                marks : SUBSET Mark, project : Project \cup {None},
                flagged : BOOLEAN, from : Draft \cup {None}]
NoDraft == [status |-> "none", topic |-> None, scope |-> "task", marks |-> {},
            learning |-> None]
NoLearning == [status |-> "none", scope |-> "task", topic |-> None, vector |-> None,
               marks |-> {}, project |-> None, flagged |-> FALSE, from |-> None]
NoRow == {"none", "deleted"}

Op == {"none", "edit", "reject", "confirm", "promote", "supersede"}
Idle == [op |-> "none", step |-> "idle", draft |-> None, learning |-> None,
         other |-> None, draftRow |-> NoDraft, row |-> NoLearning]

Min(S) == CHOOSE x \in S : \A y \in S : x <= y
Next1 == Min({l \in Learning : learning[l].status = "none"})
HasRoom == \E l \in Learning : learning[l].status = "none"

(* Everything a request has read and acts upon; a promotion recomputes the *)
(* flag of every learning.                                                  *)
Rows(q) == {q.draft, q.learning, q.other}
           \cup (IF q.op = "promote" THEN Learning ELSE {})
           \cup (IF q.step = "decide" THEN {q.draftRow.topic} ELSE {})
Takes(r, S) ==
    raced' = raced \cup UNION {(S \ {None}) \cap Rows(req[q]) : q \in Request \ {r}}

Finish(r) == req' = [req EXCEPT ![r] = Idle]

Answer(r) ==
    /\ req' = [req EXCEPT ![r] = Idle]
    /\ UNCHANGED <<draft, learning, replaced, related, raced>>

Load(r, loaded) ==
    /\ req[r].op = "none"
    /\ Takes(r, Rows(loaded))
    /\ req' = [req EXCEPT ![r] = loaded]
    /\ UNCHANGED <<draft, learning, replaced, related>>

-----------------------------------------------------------------------------
(* A submission leaves one pending draft per learning in its output. *)
persist_learning_drafts(d) ==
    /\ draft[d].status = "none"
    /\ \E payload \in Submitted[d] :
         draft' = [draft EXCEPT ![d].status = "pending",
                                ![d].topic = payload.topic, ![d].scope = payload.scope,
                                ![d].marks = payload.marks]
    /\ UNCHANGED <<learning, replaced, related, req, raced>>

WrittenAs(row, said) ==
    [row EXCEPT !.status = said.status, !.scope = said.scope, !.topic = said.topic,
                !.vector = said.vector, !.marks = said.marks, !.project = said.project]
Writes(l, said) ==
    /\ learning' = [learning EXCEPT ![l] = WrittenAs(NoLearning, said)]
    /\ Takes(None, {said.vector, learning[l].vector})
    /\ UNCHANGED <<draft, replaced, related, req>>

(* invoke_submit_task_learning: a learning written by hand, as it says. *)
submit_task_learning(said) ==
    /\ HasRoom
    /\ said.vector = said.topic /\ said.project # None
    /\ said.status # "other" /\ said.scope # "other"
    /\ Writes(Next1, said)

(* POST /v1/learnings: the client chooses created_at and the id too, so the  *)
(* row may come before older ones and take the id of one that was deleted.  *)
create_learnings(l, said) == learning[l].status \in NoRow /\ Writes(l, said)

(* PATCH /v1/learnings: of the row as read, the columns that differ are      *)
(* written, so that `said` is the row afterwards.                           *)
patch_learnings(l, said) ==
    /\ learning[l].status \notin NoRow
    /\ learning' = [learning EXCEPT ![l] = WrittenAs(learning[l], said)]
    /\ raced' = raced \cup {l, said.topic, said.vector, learning[l].vector}
    /\ UNCHANGED <<draft, replaced, related, req>>

(* DELETE /v1/learnings: drafts lose the id (ON DELETE SET NULL), edges are   *)
(* left as they are.                                                        *)
PointsAt(l) == {d \in Draft : draft[d].learning = l}
delete_learnings(l) ==
    /\ learning[l].status \notin NoRow
    /\ learning' = [learning EXCEPT ![l].status = "deleted"]
    /\ draft' = [d \in Draft |-> IF d \in PointsAt(l) THEN [draft[d] EXCEPT !.learning = None]
                                 ELSE draft[d]]
    /\ raced' = raced \cup {l} \cup PointsAt(l)
    /\ UNCHANGED <<replaced, related, req>>

(* DELETE /v1/tasks: some drafts and learnings of one project are of that     *)
(* task; its drafts go with it and its learnings belong to no task.  With     *)
(* no learnings, DELETE /v1/runs.                                            *)
delete_task(D, L) ==
    /\ \A d \in D : draft[d].status \notin {"none", "deleted"}
    /\ \E p \in Project : /\ \A d \in D : ProjectOf[d] = p
                         /\ \A l \in L : learning[l].project = p
    /\ draft' = [d \in Draft |->
                   IF d \in D THEN [draft[d] EXCEPT !.status = "deleted", !.learning = None]
                   ELSE draft[d]]
    /\ learning' = [l \in Learning |->
                      IF l \in L THEN [learning[l] EXCEPT !.project = None] ELSE learning[l]]
    /\ raced' = raced \cup D \cup L
    /\ UNCHANGED <<replaced, related, req>>

(* _draft_store_or_error loads the row; the session's identity map hands    *)
(* the same row to _require_pending.                                        *)
ReviewableAgain(d) == draft[d].status # "none"
Reviewable(d) == draft[d].status = "pending"

edit_learning_draft(r, d) ==
    /\ Reviewable(d)
    /\ Load(r, [Idle EXCEPT !.op = "edit", !.step = "write", !.draft = d,
                            !.draftRow = draft[d]])

reject_learning_draft(r, d) ==
    /\ Reviewable(d)
    /\ Load(r, [Idle EXCEPT !.op = "reject", !.step = "write", !.draft = d])

confirm_learning_draft(r, d) ==
    /\ Reviewable(d)
    /\ Load(r, [Idle EXCEPT !.op = "confirm", !.step = "match", !.draft = d,
                            !.draftRow = draft[d]])

(* Active learnings of the draft's scope whose embedding is alike: the most *)
(* similar one, and of those the oldest.                                    *)
AlikeElsewhere(row) == {l \in Learning : /\ learning[l].status = "active"
                                         /\ learning[l].scope # row.scope
                                         /\ learning[l].vector = row.topic}
Alike(row) == {l \in Learning : /\ learning[l].status = "active"
                                /\ learning[l].scope = row.scope
                                /\ learning[l].vector = row.topic}
suggest(r) ==
    LET alike == Alike(req[r].draftRow)
        best == IF alike = {} THEN None ELSE Min(alike)
    IN /\ req[r].op = "confirm" /\ req[r].step = "match"
       /\ Takes(r, {best, req[r].draftRow.topic})
       /\ req' = [req EXCEPT ![r].step = "decide", ![r].other = best,
                             ![r].row = IF best = None THEN NoLearning
                                        ELSE learning[best]]
       /\ UNCHANGED <<draft, learning, replaced, related>>

promote_learning(r, l) ==
    /\ learning[l].status = "active"
    /\ Load(r, [Idle EXCEPT !.op = "promote", !.step = "write", !.learning = l,
                            !.row = learning[l]])

supersede_learning(r, old, new) ==
    /\ old # new /\ learning[old].status \notin NoRow
    /\ Load(r, [Idle EXCEPT !.op = "supersede", !.step = "check",
                            !.learning = old, !.other = new,
                            !.row = learning[old]])

-----------------------------------------------------------------------------
(* An UPDATE of a row that was deleted meanwhile matches nothing, and the    *)
(* request fails; so does a draft that names a deleted learning.            *)
(*                                                                          *)
(* The payload column is rewritten whole, from the payload as loaded. *)
Patched(row, patch) ==
    [row EXCEPT !.topic = IF patch.topic = None THEN row.topic ELSE patch.topic,
                !.scope = IF patch.scope = None THEN row.scope ELSE patch.scope,
                !.marks = IF patch.marks = None THEN row.marks ELSE patch.marks]
edit(r, patch) ==
    LET d == req[r].draft
        payload == Patched(req[r].draftRow, patch)
    IN /\ req[r].op = "edit" /\ draft[d].status # "deleted"
       /\ draft' = [draft EXCEPT ![d].topic = payload.topic, ![d].scope = payload.scope,
                                  ![d].marks = payload.marks]
       /\ Finish(r)
       /\ UNCHANGED <<learning, replaced, related, raced>>

reject(r) ==
    /\ req[r].op = "reject" /\ draft[req[r].draft].status # "deleted"
    /\ draft' = [draft EXCEPT ![req[r].draft].status = "rejected"]
    /\ Finish(r)
    /\ UNCHANGED <<learning, replaced, related, raced>>

mark_confirmed(d, l) ==
    /\ draft[d].status # "deleted"
    /\ draft' = [draft EXCEPT ![d].status = "confirmed", ![d].learning = l]

(* "decide": with a suggestion, the reviewer merges into it or keeps both,  *)
(* naming the learning that was suggested; a decision missing or made about *)
(* another suggestion is answered and writes nothing, and so ends in fail.  *)
(*                                                                          *)
(* Into the learning as it was loaded: its evidence column is rewritten     *)
(* whole, unless nothing was added.                                         *)
ReplacedMarks(r) == req[r].draftRow.marks
MergedMarks(r) == req[r].row.marks \cup req[r].draftRow.marks
merge_into_existing(r) ==
    LET l == req[r].other IN
    /\ req[r].step = "decide" /\ l # None /\ learning[l].status # "deleted"
    /\ learning' = IF MergedMarks(r) = req[r].row.marks THEN learning
                   ELSE [learning EXCEPT ![l].marks = MergedMarks(r)]
    /\ mark_confirmed(req[r].draft, l)
    /\ Finish(r)
    /\ UNCHANGED <<replaced, related, raced>>

create_learning_record(r) ==
    LET d == req[r].draft
        l == Next1
    IN /\ req[r].step = "decide" /\ HasRoom
       /\ learning' = [learning EXCEPT ![l] =
                         [NoLearning EXCEPT !.status = "active", !.from = d,
                            !.scope = req[r].draftRow.scope,
                            !.topic = req[r].draftRow.topic,
                            !.vector = req[r].draftRow.topic,
                            !.marks = req[r].draftRow.marks,
                            !.project = ProjectOf[d]]]
       /\ related' = IF req[r].other = None THEN related
                     ELSE related \cup {{l, req[r].other}}
       /\ mark_confirmed(d, l)
       /\ Finish(r)
       /\ UNCHANGED <<replaced, raced>>

-----------------------------------------------------------------------------
(* Promotion: one rung up, then every flag is computed again. *)
Rung == [task |-> "project", project |-> "global", global |-> "none", other |-> "none"]

Confirmations(l) == {d \in Draft : draft[d].status = "confirmed" /\ draft[d].learning = l}
Occurrences(row, l) == (IF row.project = None THEN 0 ELSE 1) + Cardinality(Confirmations(l))
Projects(row, l) == ({row.project} \ {None}) \cup {ProjectOf[d] : d \in Confirmations(l)}
Total(rows, group) ==
    LET sum[n \in 0..Cardinality(Learning)] ==
            IF n = 0 THEN 0
            ELSE sum[n - 1] + (IF n \in group THEN Occurrences(rows[n], n) ELSE 0)
    IN sum[Cardinality(Learning)]

(* The learnings that stand for the same lesson as l at the scope of l. *)
Group(rows, l) ==
    {k \in Learning :
        /\ rows[k].status = "active" /\ rows[k].scope = rows[l].scope
        /\ rows[k].topic = rows[l].topic
        /\ rows[l].scope = "task" => rows[k].project = rows[l].project}
Repeated(rows, group, scope) ==
    CASE scope = "task" -> Total(rows, group) >= 2
      [] scope = "project" ->
            /\ Total(rows, group) >= 3
            /\ Cardinality(UNION {Projects(rows[k], k) : k \in group}) >= 2
every_repeated_learning(rows) ==
    {l \in Learning :
        /\ rows[l].status = "active" /\ rows[l].scope \in {"task", "project"}
        /\ rows[l].scope = "task" => rows[l].project # None
        /\ Repeated(rows, Group(rows, l), rows[l].scope)}
eligible_learning_ids(rows) ==
    {l \in Learning :
        /\ rows[l].status = "active" /\ rows[l].scope \in {"task", "project"}
        /\ rows[l].scope = "task" => rows[l].project # None
        /\ l = Min(Group(rows, l))
        /\ Repeated(rows, Group(rows, l), rows[l].scope)}

auto_promote_candidates(rows) ==
    [l \in Learning |->
       IF rows[l].status = "active" /\ rows[l].scope \in {"task", "project"}
       THEN [rows[l] EXCEPT !.flagged = l \in eligible_learning_ids(rows)]
       ELSE IF rows[l].scope = "global" THEN [rows[l] EXCEPT !.flagged = FALSE]
       ELSE rows[l]]

(* The promoted learning stays as it was loaded: its title is taken from     *)
(* there, and a flag another request set meanwhile is neither seen nor       *)
(* cleared.                                                                 *)
promote(r, target) ==
    LET l == req[r].learning
        seen == req[r].row
        rows == [learning EXCEPT ![l].scope = target, ![l].flagged = FALSE,
                                 ![l].topic = seen.topic]
        flags == auto_promote_candidates(rows)
        kept == ~seen.flagged /\ ~flags[l].flagged
    IN /\ req[r].op = "promote" /\ target = Rung[seen.scope]
       /\ learning[l].status # "deleted"
       /\ learning' = [flags EXCEPT ![l].topic = learning[l].topic, ![l].flagged =
                         IF kept THEN learning[l].flagged ELSE flags[l].flagged]
       /\ Finish(r)
       /\ UNCHANGED <<draft, replaced, related, raced>>

(* A target that is not the next rung: 409. *)
refuse_promotion(r) ==
    /\ req[r].op = "promote"
    /\ \E target \in {"project", "global"} : target # Rung[req[r].row.scope]
    /\ Answer(r)

-----------------------------------------------------------------------------
(* Any one of the edges, if there are several. *)
FoundUnread(old) == {None}
Found(old) ==
    LET found == {n \in Learning : <<n, old>> \in replaced}
    IN IF found = {} THEN {None} ELSE found
Supersedable(r) ==
    learning[req[r].other].status = "active" /\ req[r].row.status # "expired"

ensure_unique_replacement(r) ==
    /\ req[r].op = "supersede" /\ req[r].step = "check"
    /\ Supersedable(r)
    /\ Found(req[r].learning) \cap {None, req[r].other} # {}
    /\ req' = [req EXCEPT ![r].step = "write"]
    /\ UNCHANGED <<draft, learning, replaced, related, raced>>

refuse_supersede(r) ==
    /\ req[r].op = "supersede" /\ req[r].step = "check"
    /\ ~Supersedable(r) \/ Found(req[r].learning) \ {None, req[r].other} # {}
    /\ Answer(r)

supersede(r) ==
    LET old == req[r].learning IN
    /\ req[r].op = "supersede" /\ req[r].step = "write"
    /\ learning[old].status # "deleted"
    /\ learning' = [learning EXCEPT ![old].status =
                      IF req[r].row.status = "superseded" THEN @ ELSE "superseded"]
    /\ replaced' = replaced \cup {<<req[r].other, old>>}
    /\ Finish(r)
    /\ UNCHANGED <<draft, related, raced>>

(* Rollback: an error, a lock timeout, a deadlock victim, a lost connection.*)
fail(r) == req[r].op # "none" /\ Answer(r)

-----------------------------------------------------------------------------
(* The generic routes of edges: nothing is asked of the learnings at the     *)
(* ends.  What replaces a learning is not as the ledger left it when such     *)
(* an edge comes or goes, and a topic is not when learnings of it may lose    *)
(* the link between them.                                                   *)
Linked(l) ==
    {k \in Learning : \A S \in SUBSET Learning :
        l \in S /\ (\A p \in related : p \cap S # {} => p \subseteq S) => k \in S}
Cut(links) == {learning[k].vector : k \in {l \in Learning : \E p \in related \ links :
                                                              Linked(l) \cap p # {}}}
Turned(edges) == {e[2] : e \in (edges \ replaced) \cup (replaced \ edges)}
EdgesBecome(edges, links) ==
    /\ replaced' = edges /\ related' = links
    /\ raced' = raced \cup Turned(edges) \cup Cut(links)
    /\ UNCHANGED <<draft, learning, req>>

OneMore(edges, links) ==
    {<<edges \cup {<<n, o>>}, links>> : n, o \in Learning}
    \cup {<<edges, links \cup {{n, o}}>> : n, o \in Learning}
OneLess ==
    {<<replaced \ {e}, related>> : e \in replaced}
    \cup {<<replaced, related \ {p}>> : p \in related}
create_edges == \E both \in OneMore(replaced, related) : EdgesBecome(both[1], both[2])
delete_edges == \E both \in OneLess : EdgesBecome(both[1], both[2])
patch_edges ==
    \E less \in OneLess : \E both \in OneMore(less[1], less[2]) : EdgesBecome(both[1], both[2])

-----------------------------------------------------------------------------
Init ==
    /\ draft = [d \in Draft |-> NoDraft]
    /\ learning = [l \in Learning |-> NoLearning]
    /\ replaced = {} /\ related = {}
    /\ req = [r \in Request |-> Idle]
    /\ raced = {}

Review(r) ==
    \/ \E d \in Draft :
         \/ edit_learning_draft(r, d)
         \/ reject_learning_draft(r, d)
         \/ confirm_learning_draft(r, d)
    \/ \E patch \in Edits : edit(r, patch)
    \/ reject(r) \/ suggest(r)
    \/ merge_into_existing(r) \/ create_learning_record(r)
Curate(r) ==
    \/ \E l \in Learning : promote_learning(r, l)
    \/ \E old, new \in Learning : supersede_learning(r, old, new)
    \/ \E target \in {"project", "global"} : promote(r, target)
    \/ refuse_promotion(r)
    \/ ensure_unique_replacement(r) \/ refuse_supersede(r) \/ supersede(r)

Ledger ==
    \/ \E d \in Draft : persist_learning_drafts(d)
    \/ \E said \in ByHand : submit_task_learning(said)
    \/ \E r \in Reviewer : Review(r)
    \/ \E r \in Curator : Curate(r)
    \/ \E r \in Request : fail(r)
Generic ==
    \/ \E l \in Learning, said \in ByHand : create_learnings(l, said) \/ patch_learnings(l, said)
    \/ \E l \in Learning : delete_learnings(l)
    \/ \E D \in SUBSET Draft, L \in SUBSET Learning : delete_task(D, L)
    \/ create_edges \/ patch_edges \/ delete_edges

Next == Ledger \/ Generic

Spec == Init /\ [][Next]_vars

-----------------------------------------------------------------------------
(* A draft no two reviewers had in hand at once becomes at most one         *)
(* learning, and it is confirmed exactly when it points at that learning,   *)
(* whatever happens to other drafts and learnings: only a client that       *)
(* deletes the learning, or the draft's task or run, undoes it.             *)
OncePerDraft ==
    \A d \in Draft \ raced :
        LET born == {l \in Learning : learning[l].from = d} IN
        /\ (draft[d].status = "confirmed") <=> (draft[d].learning # None)
        /\ born # {} => born = {draft[d].learning}

(* Whatever evidence a confirmed draft carried is in the learning it was    *)
(* merged into, however many other drafts were merged before and after, if  *)
(* neither row was raced for or rewritten.                                  *)
EvidenceKept ==
    \A d \in Draft \ raced :
        draft[d].status = "confirmed" /\ draft[d].learning \notin raced =>
            draft[d].marks \subseteq learning[draft[d].learning].marks

Replacements(l) == {n \in Learning : <<n, l>> \in replaced}
Successors(l) ==
    {k \in Learning : \A S \in SUBSET Learning :
        l \in S /\ (\A edge \in replaced : edge[2] \in S => edge[1] \in S) => k \in S}

(* Chains of replacements stay linear and end: whoever follows the edges    *)
(* from a superseded learning meets one replacement at a time and arrives   *)
(* at a learning that has none, unless two requests raced for one of them   *)
(* or a client rewrote one of them or its edges.                            *)
ChainsEnd ==
    \A l \in {k \in {edge[2] : edge \in replaced} : Successors(k) \cap raced = {}} :
        /\ Cardinality(Replacements(l)) = 1
        /\ learning[l].status = "superseded"
        /\ \E k \in Successors(l) : Replacements(k) = {}

LinkedByHand(l) ==
    \E h \in Linked(l) : learning[h].status # "none" /\ learning[h].from = None

(* Two active task learnings that both came from drafts and say the same    *)
(* are linked, because a reviewer chose to keep them apart, unless that was  *)
(* being decided about two drafts at once, a client rewrote learnings of     *)
(* the topic or took a link away, or the reviewer was shown what is linked   *)
(* to a learning written by hand instead.                                   *)
NoSilentDuplicate ==
    \A k, l \in {n \in Learning : /\ learning[n].status = "active"
                                   /\ learning[n].scope = "task"
                                   /\ learning[n].from # None
                                   /\ learning[n].topic \notin raced} :
        (k < l /\ learning[k].topic = learning[l].topic) =>
            k \in Linked(l) \/ LinkedByHand(k) \/ LinkedByHand(l)

(* One learning at most stands for a repeated lesson, and it can be promoted *)
(* still: a promotion leaves no flag behind on the ladder, but on learnings  *)
(* another request had in hand or a client rewrote.                         *)
OneFlagPerLesson ==
    \A l \in {n \in Learning \ raced : learning[n].flagged /\ learning[n].status = "active"} :
        /\ learning[l].scope \in {"task", "project"}
        /\ \A k \in Group(learning, l) \ ({l} \cup raced) : ~learning[k].flagged
=============================================================================
