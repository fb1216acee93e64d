-------------------------- MODULE LearningStoreProofs --------------------------
(***************************************************************************)
(* Proofs about the learning ledger, for any number of drafts, learnings,  *)
(* reviewers and curators.                                                 *)
(***************************************************************************)
EXTENDS LearningStore, Counting, FiniteSetTheorems, TLAPS

InHand == [op : Op, step : {"idle", "write", "match", "decide", "check"},
           draft : Draft \cup {None}, learning : Learning \cup {None},
           other : Learning \cup {None}, draftRow : DraftRow, row : LearningRow]

StoreTypeOK ==
    /\ draft \in [Draft -> DraftRow]
    /\ learning \in [Learning -> LearningRow]
    /\ replaced \subseteq Learning \X Learning
    /\ related \subseteq SUBSET Learning
    /\ req \in [Request -> InHand]

(* Whatever two requests have in hand is known to be raced for. *)
HandsApart ==
    \A r, q \in Request : r # q => (Rows(req[r]) \cap Rows(req[q])) \ {None} \subseteq raced

-----------------------------------------------------------------------------
(* What a request c has in hand, and what it has read of it. *)
Shape(c) ==
    /\ c.op \in {"edit", "reject", "confirm"} <=> c.draft # None
    /\ c.op \in {"promote", "supersede"} <=> c.learning # None
    /\ c.op = "supersede" =>
         c.other # None /\ c.learning # c.other /\ c.step \in {"check", "write"}
    /\ c.step = "decide" => c.op = "confirm"
    /\ c.other # None => c.op = "supersede" \/ c.step = "decide"
    /\ c.op \in {"edit", "confirm"} => c.draftRow.topic # None

SeenDraft(c) ==
    c.draft # None =>
        /\ draft[c.draft].status # "none"
        /\ c.draft \notin raced =>
             /\ draft[c.draft].status = "pending"
             /\ c.op = "confirm" => draft[c.draft].marks = c.draftRow.marks

SeenMatch(c) ==
    c.step = "decide" /\ c.other # None =>
        /\ learning[c.other].status # "none"
        /\ c.other \notin raced => learning[c.other].marks = c.row.marks

(* The active task learnings alike on a topic, and those of them from drafts.*)
OnTopic(t) == {k \in Learning : /\ learning[k].status = "active"
                                /\ learning[k].scope = "task"
                                /\ learning[k].vector = t}
Drafted(t) == {k \in OnTopic(t) : learning[k].from # None}

SeenTopic(c) ==
    c.step = "decide" /\ c.draftRow.topic \notin raced =>
        /\ c.other # None => learning[c.other].vector = c.draftRow.topic
        /\ c.draftRow.scope = "task" /\ c.other = None => OnTopic(c.draftRow.topic) = {}
        /\ c.draftRow.scope = "task" /\ c.other # None =>
             \A k \in Drafted(c.draftRow.topic) :
               k \in Linked(c.other) \/ LinkedByHand(k) \/ LinkedByHand(c.other)

SeenOld(c) ==
    c.op = "supersede" =>
        /\ learning[c.learning].status # "none"
        /\ c.row.status = "superseded" /\ c.learning \notin raced =>
             learning[c.learning].status = "superseded"
        /\ c.step = "write" =>
             /\ c.learning \notin raced =>
                  \A n \in Learning : <<n, c.learning>> \in replaced => n = c.other
             /\ c.other \notin raced => learning[c.other].status = "active"

SeenFlag(c) ==
    c.op = "promote" =>
        /\ learning[c.learning].status # "none"
        /\ c.learning \notin raced => /\ learning[c.learning].flagged = c.row.flagged
                                      /\ learning[c.learning].topic = c.row.topic

Seen(c) ==
    /\ Shape(c) /\ SeenDraft(c) /\ SeenMatch(c)
    /\ SeenTopic(c) /\ SeenOld(c) /\ SeenFlag(c)

-----------------------------------------------------------------------------
(* What the rows say of one another. *)
DraftsSay == \A d \in Draft : draft[d].status # "none" => draft[d].topic # None

BornOnce ==
    \A d \in Draft \ raced :
        /\ (draft[d].status = "confirmed") <=> (draft[d].learning # None)
        /\ \A l \in Learning : learning[l].from = d =>
             draft[d].status = "confirmed" /\ draft[d].learning = l

PointsAtRow ==
    \A d \in Draft : draft[d].learning # None => learning[draft[d].learning].status \notin NoRow

ReplacedAreSuperseded ==
    \A edge \in replaced : edge[2] \notin raced => learning[edge[2]].status = "superseded"

OneReplacement ==
    \A l \in Learning \ raced : \A n, m \in Learning :
        <<n, l>> \in replaced /\ <<m, l>> \in replaced => n = m

VectorsKept ==
    \A l \in Learning : learning[l].from # None /\ learning[l].topic \notin raced =>
        learning[l].vector = learning[l].topic

DeletedAreRaced == \A l \in Learning : learning[l].status = "deleted" => l \in raced

(* A chain from a replaced learning ends, and has one way to go. *)
ChainEnds(l) ==
    /\ \E n \in Learning : Replacements(l) = {n}
    /\ \E k \in Successors(l) : Replacements(k) = {}
ChainsAreLinear ==
    \A edge \in replaced : Successors(edge[2]) \cap raced = {} => ChainEnds(edge[2])

LessonsLinked ==
    \A t \in (Topic \cup {None}) \ raced : \A k, l \in Drafted(t) :
        k # l => k \in Linked(l) \/ LinkedByHand(k) \/ LinkedByHand(l)

Data ==
    /\ DraftsSay /\ BornOnce /\ PointsAtRow /\ EvidenceKept /\ VectorsKept
    /\ DeletedAreRaced /\ ReplacedAreSuperseded /\ OneReplacement
    /\ ChainsAreLinear /\ LessonsLinked /\ OneFlagPerLesson

StoreInv ==
    /\ StoreTypeOK /\ HandsApart
    /\ \A r \in Request : Seen(req[r])
    /\ Data

-----------------------------------------------------------------------------
(* Numbers, and what is reached by edges. *)

LEMMA MinIsMember ==
    ASSUME NEW T, T \subseteq Learning, T # {}
    PROVE  Min(T) \in T
<1>1. T \subseteq Nat
  BY FS_CardinalityType, LearningStoreAssumption
<1>2. \E x \in T : \A y \in T : x <= y
  BY <1>1, LeastNat
<1> QED
  BY <1>2 DEF Min

LEMMA Next1IsFree ==
    ASSUME HasRoom
    PROVE  Next1 \in Learning /\ learning[Next1].status = "none"
<1> DEFINE T == {l \in Learning : learning[l].status = "none"}
<1>1. Min(T) \in T
  BY MinIsMember DEF HasRoom
<1> QED
  BY <1>1 DEF Next1

LEMMA SuccessorsClosed ==
    ASSUME NEW l \in Learning, StoreTypeOK
    PROVE  /\ l \in Successors(l)
           /\ \A n, k \in Learning : <<n, k>> \in replaced /\ k \in Successors(l) => n \in Successors(l)
BY DEF Successors, StoreTypeOK

LEMMA SuccessorsGrow ==
    ASSUME NEW l, replaced \subseteq replaced'
    PROVE  Successors(l) \subseteq Successors(l)'
BY DEF Successors

LEMMA LinkedClosed ==
    ASSUME NEW l \in Learning
    PROVE  /\ l \in Linked(l) /\ Linked(l) \subseteq Learning
           /\ \A n, k \in Learning : {n, k} \in related /\ k \in Linked(l) => n \in Linked(l)
           /\ \A k \in Linked(l) : Linked(k) \subseteq Linked(l)
BY DEF Linked

LEMMA LinkedGrow ==
    ASSUME NEW l, related \subseteq related'
    PROVE  Linked(l) \subseteq Linked(l)'
BY DEF Linked

(* Edges of related have no direction. *)
LEMMA LinkedBack ==
    ASSUME StoreTypeOK, NEW l \in Learning, NEW k \in Linked(l)
    PROVE  l \in Linked(k)
<1>1. k \in Learning
  BY DEF Linked
<1> SUFFICES ASSUME NEW S \in SUBSET Learning, k \in S,
                    \A p \in related : p \cap S # {} => p \subseteq S
             PROVE  l \in S
  BY DEF Linked
<1> SUFFICES ASSUME l \notin S PROVE FALSE
  OBVIOUS
<1>2. \A p \in related : p \cap (Learning \ S) # {} => p \subseteq Learning \ S
  BY DEF StoreTypeOK
<1>3. l \in Learning \ S
  OBVIOUS
<1>4. k \in Learning \ S
  <2> DEFINE C == Learning \ S
  <2>1. C \in SUBSET Learning /\ l \in C /\ \A p \in related : p \cap C # {} => p \subseteq C
    BY <1>2, <1>3
  <2> HIDE DEF C
  <2>2. k \in C
    BY <2>1 DEF Linked
  <2> QED
    BY <2>2 DEF C
<1> QED
  BY <1>4

-----------------------------------------------------------------------------
(* Steps that write no row. *)

(* Request r has c in hand now; what the others have is raced for, if c has  *)
(* it too.                                                                  *)
TakesUp(r, c) ==
    /\ req' = [req EXCEPT ![r] = c]
    /\ raced \subseteq raced'
    /\ \A q \in Request \ {r} : (Rows(c) \cap Rows(req[q])) \ {None} \subseteq raced'

LEMMA HandsStayApart ==
    ASSUME StoreTypeOK, HandsApart, NEW r \in Request, NEW c \in InHand, TakesUp(r, c)
    PROVE  /\ HandsApart'
           /\ req' \in [Request -> InHand]
           /\ req'[r] = c /\ \A q \in Request \ {r} : req'[q] = req[q]
<1>1. /\ req' \in [Request -> InHand]
      /\ req'[r] = c /\ \A q \in Request \ {r} : req'[q] = req[q]
  BY DEF StoreTypeOK, TakesUp
<1>2. \A q : Rows(req[q])' = Rows(req'[q])
  BY DEF Rows
<1>3. ASSUME NEW q \in Request, NEW v \in Request, q # v
      PROVE  (Rows(req'[q]) \cap Rows(req'[v])) \ {None} \subseteq raced'
  <2>1. CASE q # r /\ v # r
    BY <1>1, <1>3, <2>1 DEF HandsApart, TakesUp
  <2>2. CASE q = r
    BY <1>1, <1>3, <2>2 DEF TakesUp
  <2>3. CASE v = r
    BY <1>1, <1>3, <2>3 DEF TakesUp
  <2> QED
    BY <2>1, <2>2, <2>3
<1> QED
  BY <1>1, <1>2, <1>3 DEF HandsApart

(* While no row is written, what is raced for only grows. *)
LEMMA SameRows ==
    ASSUME StoreTypeOK, UNCHANGED <<draft, learning, replaced, related>>, raced \subseteq raced'
    PROVE  /\ \A c \in InHand : Seen(c) => Seen(c)'
           /\ Data => Data'
<1>1. /\ \A l : Linked(l)' = Linked(l) /\ Successors(l)' = Successors(l)
      /\ \A l : Replacements(l)' = Replacements(l)
      /\ \A t : OnTopic(t)' = OnTopic(t)
  BY DEF Linked, Successors, Replacements, OnTopic
<1>2. \A l : LinkedByHand(l)' = LinkedByHand(l)
  BY <1>1 DEF LinkedByHand
<1>3. \A t : Drafted(t)' = Drafted(t)
  BY <1>1 DEF Drafted
<1>4. \A c \in InHand : Seen(c) => Seen(c)'
  <2> SUFFICES ASSUME NEW c \in InHand, Seen(c) PROVE Seen(c)'
    OBVIOUS
  <2>1. Shape(c)' /\ SeenDraft(c)' /\ SeenMatch(c)' /\ SeenFlag(c)'
    BY DEF Seen, Shape, SeenDraft, SeenMatch, SeenFlag
  <2>2. SeenTopic(c)'
    BY <1>1, <1>2, <1>3 DEF Seen, SeenTopic
  <2>3. SeenOld(c)'
    BY DEF Seen, SeenOld
  <2> QED
    BY <2>1, <2>2, <2>3 DEF Seen
<1>5. Data => Data'
  <2> SUFFICES ASSUME Data PROVE Data'
    OBVIOUS
  <2>1. /\ DraftsSay' /\ BornOnce' /\ PointsAtRow' /\ EvidenceKept' /\ VectorsKept'
        /\ DeletedAreRaced' /\ ReplacedAreSuperseded' /\ OneReplacement'
    BY DEF Data, DraftsSay, BornOnce, PointsAtRow, EvidenceKept, VectorsKept,
           DeletedAreRaced, ReplacedAreSuperseded, OneReplacement
  <2>2. ChainsAreLinear'
    BY <1>1 DEF Data, ChainsAreLinear, ChainEnds
  <2>3. LessonsLinked'
    BY <1>1, <1>2, <1>3 DEF Data, LessonsLinked
  <2>4. OneFlagPerLesson'
    <3>1. \A l : Group(learning, l)' = Group(learning, l)
      BY DEF Group
    <3> QED
      BY <3>1 DEF Data, OneFlagPerLesson
  <2> QED
    BY <2>1, <2>2, <2>3, <2>4 DEF Data
<1> QED
  BY <1>4, <1>5

LEMMA TakesUpInv ==
    ASSUME StoreInv, NEW r \in Request, NEW c \in InHand, TakesUp(r, c),
           UNCHANGED <<draft, learning, replaced, related>>,
           Seen(c)
    PROVE  StoreInv'
<1>1. /\ HandsApart' /\ req' \in [Request -> InHand]
      /\ req'[r] = c /\ \A q \in Request \ {r} : req'[q] = req[q]
  BY HandsStayApart DEF StoreInv
<1>2. raced \subseteq raced'
  BY DEF TakesUp
<1>3. Data' /\ \A h \in InHand : Seen(h) => Seen(h)'
  BY <1>2, SameRows DEF StoreInv
<1>4. StoreTypeOK'
  BY <1>1 DEF StoreInv, StoreTypeOK
<1>5. ASSUME NEW q \in Request PROVE Seen(req[q])'
  <2>1. req[q] \in InHand /\ req'[q] \in InHand
    BY <1>1 DEF StoreInv, StoreTypeOK
  <2>2. Seen(req'[q])
    BY <1>1 DEF StoreInv
  <2>3. PICK h : h = req'[q]
    OBVIOUS
  <2>4. Seen(h)'
    BY <1>3, <2>1, <2>2, <2>3
  <2> QED
    BY <2>3, <2>4 DEF Seen, Shape, SeenDraft, SeenMatch, SeenTopic, SeenOld, SeenFlag
<1> QED
  BY <1>1, <1>3, <1>4, <1>5 DEF StoreInv

LEMMA IdleInHand ==
    /\ NoDraft \in DraftRow /\ NoLearning \in LearningRow
    /\ Idle \in InHand /\ Idle.op = "none" /\ Idle.step = "idle"
    /\ Idle.draft = None /\ Idle.learning = None /\ Idle.other = None
    /\ Seen(Idle)
<1>1. NoDraft \in DraftRow /\ NoLearning \in LearningRow
  BY DEF NoDraft, NoLearning, DraftRow, LearningRow
<1>2. /\ Idle.op = "none" /\ Idle.step = "idle"
      /\ Idle.draft = None /\ Idle.learning = None /\ Idle.other = None
  BY DEF Idle
<1>3. Idle \in InHand
  BY <1>1 DEF Idle, InHand, Op
<1> QED
  BY <1>1, <1>2, <1>3 DEF Seen, Shape, SeenDraft, SeenMatch, SeenTopic, SeenOld, SeenFlag

LEMMA LoadTakesUp ==
    ASSUME NEW r \in Request, NEW c, Load(r, c)
    PROVE  TakesUp(r, c) /\ UNCHANGED <<draft, learning, replaced, related>>
BY DEF Load, Takes, TakesUp

(* A request that loads what it will work on. *)
LEMMA LoadInv ==
    ASSUME StoreInv, NEW r \in Request,
           \/ \E d \in Draft : \/ edit_learning_draft(r, d)
                               \/ reject_learning_draft(r, d)
                               \/ confirm_learning_draft(r, d)
           \/ \E l \in Learning : promote_learning(r, l)
           \/ \E old, new \in Learning : supersede_learning(r, old, new)
    PROVE  StoreInv'
<1>0. /\ draft \in [Draft -> DraftRow] /\ learning \in [Learning -> LearningRow]
      /\ None \notin Draft /\ None \notin Learning
      /\ Idle \in InHand /\ Idle.op = "none" /\ Idle.step = "idle"
      /\ Idle.draft = None /\ Idle.learning = None /\ Idle.other = None
  BY IdleInHand, LearningStoreAssumption DEF StoreInv, StoreTypeOK
<1>1. ASSUME NEW d \in Draft, edit_learning_draft(r, d) PROVE StoreInv'
  <2>1. PICK c : c = [Idle EXCEPT !.op = "edit", !.step = "write", !.draft = d, !.draftRow = draft[d]]
    OBVIOUS
  <2>2. Reviewable(d) /\ Load(r, c)
    BY <1>1, <2>1 DEF edit_learning_draft
  <2>3. c \in InHand
    BY <1>0, <2>1 DEF InHand, Op
  <2>4. /\ c.op = "edit" /\ c.step = "write" /\ c.draft = d /\ c.draftRow = draft[d]
        /\ c.learning = None /\ c.other = None
    BY <2>1 DEF Idle
  <2>5. draft[d].status = "pending" /\ draft[d].topic # None
    BY <2>2 DEF Reviewable, StoreInv, Data, DraftsSay
  <2>6. Seen(c)
    BY <1>0, <2>4, <2>5 DEF Seen, Shape, SeenDraft, SeenMatch, SeenTopic, SeenOld, SeenFlag
  <2> QED
    BY <2>2, <2>3, <2>6, LoadTakesUp, TakesUpInv
<1>2. ASSUME NEW d \in Draft, reject_learning_draft(r, d) PROVE StoreInv'
  <2>1. PICK c : c = [Idle EXCEPT !.op = "reject", !.step = "write", !.draft = d]
    OBVIOUS
  <2>2. Reviewable(d) /\ Load(r, c)
    BY <1>2, <2>1 DEF reject_learning_draft
  <2>3. c \in InHand
    BY <1>0, <2>1 DEF InHand, Op
  <2>4. /\ c.op = "reject" /\ c.step = "write" /\ c.draft = d
        /\ c.learning = None /\ c.other = None
    BY <2>1 DEF Idle
  <2>5. draft[d].status = "pending"
    BY <2>2 DEF Reviewable
  <2>6. Seen(c)
    BY <1>0, <2>4, <2>5 DEF Seen, Shape, SeenDraft, SeenMatch, SeenTopic, SeenOld, SeenFlag
  <2> QED
    BY <2>2, <2>3, <2>6, LoadTakesUp, TakesUpInv
<1>3. ASSUME NEW d \in Draft, confirm_learning_draft(r, d) PROVE StoreInv'
  <2>1. PICK c : c = [Idle EXCEPT !.op = "confirm", !.step = "match", !.draft = d, !.draftRow = draft[d]]
    OBVIOUS
  <2>2. Reviewable(d) /\ Load(r, c)
    BY <1>3, <2>1 DEF confirm_learning_draft
  <2>3. c \in InHand
    BY <1>0, <2>1 DEF InHand, Op
  <2>4. /\ c.op = "confirm" /\ c.step = "match" /\ c.draft = d /\ c.draftRow = draft[d]
        /\ c.learning = None /\ c.other = None
    BY <2>1 DEF Idle
  <2>5. draft[d].status = "pending" /\ draft[d].topic # None
    BY <2>2 DEF Reviewable, StoreInv, Data, DraftsSay
  <2>6. Seen(c)
    BY <1>0, <2>4, <2>5 DEF Seen, Shape, SeenDraft, SeenMatch, SeenTopic, SeenOld, SeenFlag
  <2> QED
    BY <2>2, <2>3, <2>6, LoadTakesUp, TakesUpInv
<1>4. ASSUME NEW l \in Learning, promote_learning(r, l) PROVE StoreInv'
  <2>1. PICK c : c = [Idle EXCEPT !.op = "promote", !.step = "write", !.learning = l, !.row = learning[l]]
    OBVIOUS
  <2>2. learning[l].status = "active" /\ Load(r, c)
    BY <1>4, <2>1 DEF promote_learning
  <2>3. c \in InHand
    BY <1>0, <2>1 DEF InHand, Op
  <2>4. /\ c.op = "promote" /\ c.step = "write" /\ c.learning = l /\ c.row = learning[l]
        /\ c.draft = None /\ c.other = None
    BY <2>1 DEF Idle
  <2>5. Seen(c)
    BY <1>0, <2>2, <2>4 DEF Seen, Shape, SeenDraft, SeenMatch, SeenTopic, SeenOld, SeenFlag
  <2> QED
    BY <2>2, <2>3, <2>5, LoadTakesUp, TakesUpInv
<1>5. ASSUME NEW old \in Learning, NEW new \in Learning, supersede_learning(r, old, new)
      PROVE  StoreInv'
  <2>1. PICK c : c = [Idle EXCEPT !.op = "supersede", !.step = "check",
                            !.learning = old, !.other = new,
                            !.row = learning[old]]
    OBVIOUS
  <2>2. old # new /\ learning[old].status # "none" /\ Load(r, c)
    BY <1>5, <2>1 DEF supersede_learning, NoRow
  <2>3. c \in InHand
    BY <1>0, <2>1 DEF InHand, Op
  <2>4. /\ c.op = "supersede" /\ c.step = "check" /\ c.learning = old /\ c.row = learning[old]
        /\ c.draft = None /\ c.other = new
    BY <2>1 DEF Idle
  <2>5. Seen(c)
    BY <1>0, <2>2, <2>4 DEF Seen, Shape, SeenDraft, SeenMatch, SeenTopic, SeenOld, SeenFlag
  <2> QED
    BY <2>2, <2>3, <2>5, LoadTakesUp, TakesUpInv
<1> QED
  BY <1>1, <1>2, <1>3, <1>4, <1>5

(* A request that looks for what is alike, or for another replacement. *)
LEMMA LookInv ==
    ASSUME StoreInv, NEW r \in Request, suggest(r) \/ ensure_unique_replacement(r)
    PROVE  StoreInv'
<1>0. /\ learning \in [Learning -> LearningRow] /\ req \in [Request -> InHand]
      /\ req[r] \in InHand /\ Seen(req[r])
      /\ None \notin Draft /\ None \notin Learning /\ None \notin Topic
  BY LearningStoreAssumption DEF StoreInv, StoreTypeOK
<1>1. CASE suggest(r)
  <2>1. PICK t, alike, best, row, c :
           /\ t = req[r].draftRow.topic
           /\ alike = Alike(req[r].draftRow)
           /\ best = IF alike = {} THEN None ELSE Min(alike)
           /\ row = IF best = None THEN NoLearning ELSE learning[best]
           /\ c = [req[r] EXCEPT !.step = "decide", !.other = best, !.row = row]
    OBVIOUS
  <2>2. /\ req[r].op = "confirm" /\ req[r].step = "match"
        /\ Takes(r, {best, t})
        /\ req' = [req EXCEPT ![r].step = "decide", ![r].other = best, ![r].row = row]
        /\ UNCHANGED <<draft, learning, replaced, related>>
    BY <1>1, <2>1 DEF suggest
  <2>3. /\ alike \subseteq Learning
        /\ \A k \in alike : learning[k].status = "active" /\ learning[k].vector = t
        /\ req[r].draftRow.scope = "task" => alike = OnTopic(t)
    BY <2>1 DEF Alike, OnTopic
  <2>4. best # None => best \in alike /\ best \in Learning /\ row = learning[best]
    BY <1>0, <2>1, <2>3, MinIsMember
  <2>5. best = None => alike = {}
    BY <1>0, <2>1, <2>3, MinIsMember
  <2>6. row \in LearningRow /\ best \in Learning \cup {None}
    BY <1>0, <2>1, <2>4, IdleInHand
  <2>7. c \in InHand /\ req' = [req EXCEPT ![r] = c]
    BY <1>0, <2>1, <2>2, <2>6 DEF InHand
  <2>8. /\ c.op = "confirm" /\ c.step = "decide" /\ c.other = best /\ c.row = row
        /\ c.draft = req[r].draft /\ c.learning = req[r].learning
        /\ c.draftRow = req[r].draftRow
    BY <1>0, <2>1, <2>2 DEF InHand
  <2>9. TakesUp(r, c)
    <3>1. Rows(c) \subseteq Rows(req[r]) \cup {best, t}
      BY <2>1, <2>2, <2>8, ZenonT(30) DEF Rows
    <3>2. raced \subseteq raced'
          /\ \A q \in Request \ {r} : ({best, t} \ {None}) \cap Rows(req[q]) \subseteq raced'
      BY <2>2 DEF Takes
    <3>3. \A q \in Request \ {r} : (Rows(req[r]) \cap Rows(req[q])) \ {None} \subseteq raced
      BY DEF StoreInv, HandsApart
    <3> QED
      BY <2>7, <3>1, <3>2, <3>3 DEF TakesUp
  <2>10. Shape(c) /\ SeenDraft(c) /\ SeenOld(c) /\ SeenFlag(c)
    BY <1>0, <2>2, <2>8 DEF Seen, Shape, SeenDraft, SeenOld, SeenFlag
  <2>11. SeenMatch(c)
    BY <2>3, <2>4, <2>8 DEF SeenMatch
  <2>12. SeenTopic(c)
    <3> SUFFICES ASSUME t \notin raced, best # None, req[r].draftRow.scope = "task",
                        NEW k \in Drafted(t)
                 PROVE  k \in Linked(best) \/ LinkedByHand(k) \/ LinkedByHand(best)
      BY <2>1, <2>3, <2>4, <2>5, <2>8 DEF SeenTopic
    <3>1. best \in Linked(best) /\ best \in OnTopic(t) /\ best \in Learning
      BY <2>3, <2>4, LinkedClosed
    <3>2. CASE learning[best].from = None
      BY <3>1, <3>2 DEF LinkedByHand, OnTopic
    <3>3. CASE learning[best].from # None
      <4>1. best \in Drafted(t)
        BY <3>1, <3>3 DEF Drafted
      <4>2. t \in Topic \cup {None}
        BY <1>0, <2>1 DEF InHand, DraftRow
      <4>3. best # k => k \in Linked(best) \/ LinkedByHand(k) \/ LinkedByHand(best)
        BY <4>1, <4>2 DEF StoreInv, Data, LessonsLinked
      <4> QED
        BY <3>1, <4>3
    <3> QED
      BY <3>2, <3>3
  <2> QED
    BY <2>2, <2>7, <2>9, <2>10, <2>11, <2>12, TakesUpInv DEF Seen
<1>2. CASE ensure_unique_replacement(r)
  <2>1. PICK c : c = [req[r] EXCEPT !.step = "write"]
    OBVIOUS
  <2>2. /\ req[r].op = "supersede" /\ req[r].step = "check" /\ Supersedable(r)
        /\ Found(req[r].learning) \cap {None, req[r].other} # {}
        /\ req' = [req EXCEPT ![r] = c]
        /\ UNCHANGED <<draft, learning, replaced, related, raced>>
    BY <1>0, <1>2, <2>1 DEF ensure_unique_replacement
  <2>3. c \in InHand
    BY <1>0, <2>1 DEF InHand
  <2>4. /\ c.op = "supersede" /\ c.step = "write" /\ c.other = req[r].other /\ c.row = req[r].row
        /\ c.draft = req[r].draft /\ c.learning = req[r].learning
        /\ c.draftRow = req[r].draftRow
    BY <1>0, <2>1, <2>2 DEF InHand
  <2>5. TakesUp(r, c)
    <3>1. Rows(c) = Rows(req[r])
      BY <2>2, <2>4 DEF Rows
    <3> QED
      BY <2>2, <3>1 DEF TakesUp, StoreInv, HandsApart
  <2>6. Shape(c) /\ SeenDraft(c) /\ SeenMatch(c) /\ SeenTopic(c) /\ SeenFlag(c)
    BY <1>0, <2>2, <2>4 DEF Seen, Shape, SeenDraft, SeenMatch, SeenTopic, SeenFlag
  <2>7. SeenOld(c)
    <3>1. /\ req[r].learning \in Learning /\ req[r].other \in Learning
          /\ replaced \subseteq Learning \X Learning /\ OneReplacement
      BY <1>0, <2>2 DEF Seen, Shape, InHand, StoreInv, StoreTypeOK, Data
    <3>2. ASSUME NEW n \in Learning, <<n, req[r].learning>> \in replaced,
                 req[r].learning \notin raced
          PROVE  n = req[r].other
      <4>1. <<req[r].other, req[r].learning>> \in replaced
        BY <1>0, <2>2, <3>1, <3>2 DEF Found
      <4> QED
        BY <3>1, <3>2, <4>1 DEF OneReplacement
    <3> QED
      BY <1>0, <2>2, <2>4, <3>1, <3>2 DEF Seen, SeenOld, Supersedable
  <2> QED
    BY <2>2, <2>3, <2>5, <2>6, <2>7, TakesUpInv DEF Seen
<1> QED
  BY <1>1, <1>2

(* A request that ends without a write. *)
LEMMA AnswerInv ==
    ASSUME StoreInv, NEW r \in Request, Answer(r)
    PROVE  StoreInv'
<1>1. Rows(Idle) = {None}
  BY IdleInHand DEF Rows
<1>2. TakesUp(r, Idle)
  BY <1>1 DEF Answer, TakesUp
<1>3. UNCHANGED <<draft, learning, replaced, related>>
  BY DEF Answer
<1> QED
  BY <1>2, <1>3, IdleInHand, TakesUpInv

-----------------------------------------------------------------------------
(* Steps that write rows. *)

(* What c has in hand and request r too, is raced for. *)
Apart(r, c) == (Rows(c) \cap Rows(req[r])) \ {None} \subseteq raced

LEMMA FinishInv ==
    ASSUME StoreInv, NEW r \in Request, Finish(r), raced' = raced,
           draft' \in [Draft -> DraftRow], learning' \in [Learning -> LearningRow],
           replaced' \subseteq Learning \X Learning, related' \subseteq SUBSET Learning,
           Data',
           \A c \in InHand : Seen(c) /\ Apart(r, c) => Seen(c)'
    PROVE  StoreInv'
<1>1. Rows(Idle) = {None}
  BY IdleInHand DEF Rows
<1>2. TakesUp(r, Idle)
  BY <1>1 DEF Finish, TakesUp
<1>3. /\ HandsApart' /\ req' \in [Request -> InHand]
      /\ req'[r] = Idle /\ \A q \in Request \ {r} : req'[q] = req[q]
  BY <1>2, IdleInHand, HandsStayApart DEF StoreInv
<1>4. StoreTypeOK'
  BY <1>3 DEF StoreTypeOK
<1>5. ASSUME NEW q \in Request PROVE Seen(req[q])'
  <2>1. PICK h : h = req'[q]
    OBVIOUS
  <2>2. Seen(h)'
    <3>1. CASE q = r
      <4>1. /\ h.op = "none" /\ h.step = "idle"
            /\ h.draft = None /\ h.learning = None /\ h.other = None
        BY <1>3, <2>1, <3>1, IdleInHand
      <4> QED
        BY <4>1 DEF Seen, Shape, SeenDraft, SeenMatch, SeenTopic, SeenOld, SeenFlag
    <3>2. CASE q # r
      <4>1. h = req[q] /\ h \in InHand /\ Seen(h)
        BY <1>3, <2>1, <3>2 DEF StoreInv, StoreTypeOK
      <4>2. Apart(r, h)
        BY <3>2, <4>1 DEF Apart, StoreInv, HandsApart
      <4> QED
        BY <4>1, <4>2
    <3> QED
      BY <3>1, <3>2
  <2> QED
    BY <2>1, <2>2 DEF Seen, Shape, SeenDraft, SeenMatch, SeenTopic, SeenOld, SeenFlag
<1> QED
  BY <1>3, <1>4, <1>5 DEF StoreInv

(* Steps that leave alone what the learnings say, and how they are linked. *)
LEMMA LessonsKept ==
    ASSUME StoreTypeOK,
           \A l \in Learning :
             /\ learning'[l].status = learning[l].status /\ learning'[l].scope = learning[l].scope
             /\ learning'[l].topic = learning[l].topic /\ learning'[l].from = learning[l].from
             /\ learning'[l].vector = learning[l].vector
             /\ learning'[l].project = learning[l].project
             /\ learning'[l].flagged = learning[l].flagged,
           UNCHANGED <<replaced, related, raced>>
    PROVE  /\ \A c \in InHand : Seen(c) /\ SeenDraft(c)' /\ SeenMatch(c)' => Seen(c)'
           /\ Data /\ DraftsSay' /\ BornOnce' /\ PointsAtRow' /\ EvidenceKept' => Data'
<1>1. /\ \A l : Linked(l)' = Linked(l) /\ Successors(l)' = Successors(l)
      /\ \A l : Replacements(l)' = Replacements(l)
  BY DEF Linked, Successors, Replacements
<1>2. \A t : OnTopic(t)' = OnTopic(t)
  BY DEF OnTopic
<1>3. \A l : LinkedByHand(l)' = LinkedByHand(l)
  <2>1. \A l : Linked(l) \subseteq Learning
    BY DEF Linked
  <2> QED
    BY <1>1, <2>1 DEF LinkedByHand
<1>4. \A t : Drafted(t)' = Drafted(t)
  <2>1. \A t : OnTopic(t) \subseteq Learning
    BY DEF OnTopic
  <2> QED
    BY <1>2, <2>1 DEF Drafted
<1>5. ASSUME NEW c \in InHand, Seen(c), SeenDraft(c)', SeenMatch(c)' PROVE Seen(c)'
  <2>1. Shape(c) /\ Shape(c)' /\ c.learning \in Learning \cup {None} /\ c.other \in Learning \cup {None}
    BY <1>5 DEF Seen, Shape, InHand
  <2>2. SeenTopic(c)'
    BY <1>1, <1>2, <1>3, <1>4, <1>5, <2>1 DEF Seen, SeenTopic
  <2>3. SeenOld(c)'
    BY <1>5, <2>1 DEF Seen, SeenOld, Shape
  <2>4. SeenFlag(c)'
    BY <1>5, <2>1 DEF Seen, SeenFlag, Shape
  <2> QED
    BY <1>5, <2>1, <2>2, <2>3, <2>4 DEF Seen
<1>6. ASSUME Data, DraftsSay', BornOnce', PointsAtRow', EvidenceKept' PROVE Data'
  <2>1. ReplacedAreSuperseded' /\ OneReplacement' /\ VectorsKept' /\ DeletedAreRaced'
    BY <1>6 DEF Data, ReplacedAreSuperseded, OneReplacement, VectorsKept, DeletedAreRaced,
                StoreTypeOK
  <2>2. ChainsAreLinear'
    BY <1>1, <1>6 DEF Data, ChainsAreLinear, ChainEnds
  <2>3. LessonsLinked'
    BY <1>1, <1>3, <1>4, <1>6 DEF Data, LessonsLinked
  <2>4. OneFlagPerLesson'
    <3>1. \A l \in Learning : Group(learning, l)' = Group(learning, l) /\ Group(learning, l) \subseteq Learning
      BY DEF Group
    <3> QED
      BY <1>6, <3>1 DEF Data, OneFlagPerLesson
  <2> QED
    BY <1>6, <2>1, <2>2, <2>3, <2>4 DEF Data
<1> QED
  BY <1>5, <1>6

(* A submission leaves a draft: nobody has it in hand yet. *)
LEMMA PersistInv ==
    ASSUME StoreInv, NEW d \in Draft, persist_learning_drafts(d)
    PROVE  StoreInv'
<1>1. PICK payload \in Submitted[d] :
        draft' = [draft EXCEPT ![d].status = "pending",
                               ![d].topic = payload.topic, ![d].scope = payload.scope,
                               ![d].marks = payload.marks]
  BY DEF persist_learning_drafts
<1>2. /\ draft[d].status = "none" /\ payload.topic \in Topic /\ payload.topic # None
      /\ payload.marks \subseteq Mark /\ payload.scope \in {"task", "project", "global"}
      /\ UNCHANGED <<learning, replaced, related, req, raced>>
  BY LearningStoreAssumption DEF persist_learning_drafts
<1>3. /\ draft \in [Draft -> DraftRow] /\ learning \in [Learning -> LearningRow]
      /\ StoreTypeOK /\ Data /\ HandsApart
  BY DEF StoreInv, StoreTypeOK
<1>4. /\ draft' \in [Draft -> DraftRow]
      /\ \A e \in Draft \ {d} : draft'[e] = draft[e]
      /\ draft'[d].status = "pending" /\ draft'[d].topic # None
      /\ draft'[d].learning = draft[d].learning
  <2>1. /\ \A e \in Draft \ {d} : draft'[e] = draft[e]
        /\ draft'[d] = [draft[d] EXCEPT !.status = "pending", !.topic = payload.topic,
                                        !.scope = payload.scope, !.marks = payload.marks]
        /\ DOMAIN draft' = Draft /\ draft' = [e \in DOMAIN draft' |-> draft'[e]]
    BY <1>1, <1>3
  <2>2. draft[d] \in DraftRow
    BY <1>3
  <2>3. /\ draft'[d] \in DraftRow /\ draft'[d].status = "pending"
        /\ draft'[d].topic # None /\ draft'[d].learning = draft[d].learning
    BY <1>2, <2>1, <2>2 DEF DraftRow
  <2>4. \A e \in Draft : draft'[e] \in DraftRow
    BY <1>3, <2>1, <2>3
  <2> QED
    BY <2>1, <2>3, <2>4
<1>5. DraftsSay' /\ BornOnce' /\ PointsAtRow' /\ EvidenceKept'
  <2>1. DraftsSay'
    BY <1>2, <1>3, <1>4 DEF Data, DraftsSay
  <2>2. BornOnce'
    BY <1>2, <1>3, <1>4 DEF Data, BornOnce
  <2>3. PointsAtRow'
    BY <1>2, <1>3, <1>4 DEF Data, PointsAtRow
  <2>4. EvidenceKept'
    BY <1>2, <1>3, <1>4 DEF Data, EvidenceKept
  <2> QED
    BY <2>1, <2>2, <2>3, <2>4
<1>6. Data' /\ \A c \in InHand : Seen(c) /\ SeenDraft(c)' /\ SeenMatch(c)' => Seen(c)'
  BY <1>2, <1>3, <1>5, LessonsKept
<1>7. ASSUME NEW q \in Request PROVE Seen(req[q])'
  <2>1. PICK h : h = req[q]
    OBVIOUS
  <2>2. h \in InHand /\ Seen(h)
    BY <2>1 DEF StoreInv, StoreTypeOK
  <2>3. SeenMatch(h)'
    BY <1>2, <2>2 DEF Seen, SeenMatch
  <2>4. SeenDraft(h)'
    <3>1. h.draft # None => h.draft \in Draft /\ h.draft # d
      BY <1>2, <2>2 DEF Seen, SeenDraft, InHand
    <3> QED
      BY <1>2, <1>4, <2>2, <3>1 DEF Seen, SeenDraft
  <2>5. Seen(h)' /\ h = req'[q]
    BY <1>2, <1>6, <2>1, <2>2, <2>3, <2>4
  <2> QED
    BY <2>5 DEF Seen, Shape, SeenDraft, SeenMatch, SeenTopic, SeenOld, SeenFlag
<1>8. StoreTypeOK'
  BY <1>2, <1>3, <1>4 DEF StoreTypeOK
<1>9. HandsApart'
  BY <1>2, <1>3 DEF HandsApart, Rows
<1> QED
  BY <1>6, <1>7, <1>8, <1>9 DEF StoreInv

(* Edit and reject: the draft is still in nobody's learning. *)
LEMMA ReviewInv ==
    ASSUME StoreInv, NEW r \in Request, reject(r) \/ \E patch \in Edits : edit(r, patch)
    PROVE  StoreInv'
<1>1. /\ draft \in [Draft -> DraftRow] /\ learning \in [Learning -> LearningRow]
      /\ replaced \subseteq Learning \X Learning /\ related \subseteq SUBSET Learning
      /\ StoreTypeOK /\ Data /\ req[r] \in InHand /\ Seen(req[r]) /\ None \notin Draft
  BY LearningStoreAssumption DEF StoreInv, StoreTypeOK
<1>2. PICK d : d = req[r].draft
  OBVIOUS
<1>3. /\ Finish(r) /\ UNCHANGED <<learning, replaced, related, raced>>
      /\ req[r].op \in {"edit", "reject"}
  BY DEF edit, reject
<1>4. /\ d \in Draft /\ d \in Rows(req[r]) /\ draft[d].status # "none"
      /\ d \notin raced => draft[d].status = "pending"
  BY <1>1, <1>2, <1>3 DEF Seen, Shape, SeenDraft, InHand, Rows
<1>5. /\ draft' \in [Draft -> DraftRow]
      /\ \A e \in Draft \ {d} : draft'[e] = draft[e]
      /\ draft'[d].status \in {draft[d].status, "rejected"}
      /\ draft'[d].topic # None /\ draft'[d].learning = draft[d].learning
  <2>1. CASE reject(r)
    BY <1>1, <1>2, <1>4, <2>1 DEF reject, DraftRow, Data, DraftsSay
  <2>2. CASE \E patch \in Edits : edit(r, patch)
    <3>1. PICK patch \in Edits : edit(r, patch)
      BY <2>2
    <3>2. PICK payload : payload = Patched(req[r].draftRow, patch)
      OBVIOUS
    <3>3. payload \in DraftRow /\ payload.topic # None
      <4>1. req[r].draftRow \in DraftRow /\ req[r].draftRow.topic # None
        BY <1>1, <3>1 DEF InHand, Seen, Shape, edit
      <4>2. patch \in [topic : Topic \cup {None}, scope : {"task", "project", "global", None},
                       marks : (SUBSET Mark) \cup {None}]
        BY LearningStoreAssumption
      <4> QED
        BY <3>2, <4>1, <4>2 DEF Patched, DraftRow
    <3>4. draft' = [draft EXCEPT ![d].topic = payload.topic, ![d].scope = payload.scope,
                                 ![d].marks = payload.marks]
      BY <1>2, <3>1, <3>2 DEF edit
    <3>5. \A e \in Draft : e # d => draft'[e] = draft[e]
      BY <1>1, <1>4, <3>4
    <3>6. DOMAIN draft' = Draft /\ draft' = [e \in DOMAIN draft' |-> draft'[e]]
      BY <1>1, <3>4
    <3>7. draft'[d] = [draft[d] EXCEPT !.topic = payload.topic, !.scope = payload.scope,
                                       !.marks = payload.marks]
      BY <1>1, <1>4, <3>4
    <3>8. /\ draft'[d] \in DraftRow /\ draft'[d].status = draft[d].status
          /\ draft'[d].topic # None /\ draft'[d].learning = draft[d].learning
      <4>1. draft[d] \in DraftRow
        BY <1>1, <1>4
      <4> QED
        BY <3>3, <3>7, <4>1 DEF DraftRow
    <3>9. \A e \in Draft : draft'[e] \in DraftRow
      BY <1>1, <3>5, <3>8
    <3> QED
      BY <3>5, <3>6, <3>8, <3>9
  <2> QED
    BY <2>1, <2>2
<1>6. DraftsSay' /\ BornOnce' /\ PointsAtRow' /\ EvidenceKept'
  <2>1. DraftsSay'
    BY <1>1, <1>4, <1>5 DEF Data, DraftsSay
  <2>2. BornOnce'
    BY <1>1, <1>3, <1>4, <1>5 DEF Data, BornOnce
  <2>3. PointsAtRow'
    BY <1>1, <1>3, <1>4, <1>5 DEF Data, PointsAtRow
  <2>4. EvidenceKept'
    BY <1>1, <1>3, <1>4, <1>5 DEF Data, EvidenceKept
  <2> QED
    BY <2>1, <2>2, <2>3, <2>4
<1>7. Data' /\ \A c \in InHand : Seen(c) /\ SeenDraft(c)' /\ SeenMatch(c)' => Seen(c)'
  BY <1>1, <1>3, <1>6, LessonsKept
<1>8. ASSUME NEW c \in InHand, Seen(c), Apart(r, c) PROVE Seen(c)'
  <2>1. SeenMatch(c)'
    BY <1>3, <1>8 DEF Seen, SeenMatch
  <2>2. SeenDraft(c)'
    <3> SUFFICES ASSUME c.draft # None PROVE SeenDraft(c)'
      BY DEF SeenDraft
    <3>1. c.draft \in Draft /\ (c.draft = d => d \in raced)
      BY <1>4, <1>8, <1>1 DEF Apart, Rows, InHand
    <3>2. CASE c.draft = d
      BY <1>3, <1>4, <1>5, <3>1, <3>2 DEF SeenDraft
    <3>3. CASE c.draft # d
      BY <1>3, <1>5, <1>8, <3>1, <3>3 DEF Seen, SeenDraft
    <3> QED
      BY <3>2, <3>3
  <2> QED
    BY <1>7, <1>8, <2>1, <2>2
<1> QED
  BY <1>1, <1>3, <1>5, <1>7, <1>8, FinishInv

(* What a reviewer who decides has in hand. *)
LEMMA Deciding ==
    ASSUME StoreInv, NEW r \in Request, req[r].step = "decide"
    PROVE  /\ req[r].op = "confirm" /\ req[r].draft \in Draft
           /\ req[r].other \in Learning \cup {None}
           /\ req[r].draftRow \in DraftRow /\ req[r].draftRow.topic \in Topic
           /\ {req[r].draft, req[r].draftRow.topic, req[r].other} \subseteq Rows(req[r])
           /\ Seen(req[r])
<1>1. req[r] \in InHand /\ Seen(req[r])
  BY DEF StoreInv, StoreTypeOK
<1>2. req[r].op = "confirm" /\ req[r].draft # None /\ req[r].draftRow.topic # None
  BY <1>1 DEF Seen, Shape
<1>3. req[r].draftRow \in DraftRow
  BY <1>1 DEF InHand
<1>4. req[r].draftRow.topic \in Topic
  BY <1>2, <1>3 DEF DraftRow
<1> QED
  BY <1>1, <1>2, <1>3, <1>4 DEF InHand, Rows

(* A draft that is confirmed by the request that has it in hand. *)
LEMMA ConfirmedDraft ==
    ASSUME StoreInv, NEW r \in Request, req[r].step = "decide", NEW l \in Learning,
           mark_confirmed(req[r].draft, l), raced' = raced
    PROVE  /\ draft' \in [Draft -> DraftRow]
           /\ \A e \in Draft \ {req[r].draft} : draft'[e] = draft[e]
           /\ draft'[req[r].draft].status = "confirmed"
           /\ draft'[req[r].draft].learning = l
           /\ req[r].draft \notin raced =>
                /\ draft'[req[r].draft].marks = req[r].draftRow.marks
                /\ \A k \in Learning : learning[k].from # req[r].draft
           /\ DraftsSay'
           /\ \A c \in InHand : Seen(c) /\ Apart(r, c) => SeenDraft(c)'
<1>0. PICK d : d = req[r].draft
  OBVIOUS
<1>1. /\ draft \in [Draft -> DraftRow] /\ d \in Draft /\ d \in Rows(req[r])
      /\ req[r].op = "confirm" /\ Seen(req[r]) /\ Data /\ None \notin Draft
  BY <1>0, Deciding, LearningStoreAssumption DEF StoreInv, StoreTypeOK
<1>2. /\ draft[d].status # "none"
      /\ d \notin raced => draft[d].status = "pending" /\ draft[d].marks = req[r].draftRow.marks
  BY <1>0, <1>1 DEF Seen, SeenDraft
<1>3. /\ draft' \in [Draft -> DraftRow]
      /\ \A e \in Draft \ {d} : draft'[e] = draft[e]
      /\ draft'[d].status = "confirmed" /\ draft'[d].learning = l
      /\ draft'[d].topic = draft[d].topic /\ draft'[d].marks = draft[d].marks
  BY <1>0, <1>1 DEF mark_confirmed, DraftRow
<1>4. d \notin raced => \A k \in Learning : learning[k].from # d
  BY <1>1, <1>2 DEF Data, BornOnce
<1>5. DraftsSay'
  BY <1>1, <1>2, <1>3 DEF Data, DraftsSay
<1>6. ASSUME NEW c \in InHand, Seen(c), Apart(r, c) PROVE SeenDraft(c)'
  <2> SUFFICES ASSUME c.draft # None PROVE SeenDraft(c)'
    BY DEF SeenDraft
  <2>1. c.draft \in Draft /\ (c.draft = d => d \in raced)
    BY <1>1, <1>6 DEF Apart, Rows, InHand
  <2>2. CASE c.draft = d
    BY <1>3, <2>1, <2>2 DEF SeenDraft
  <2>3. CASE c.draft # d
    BY <1>3, <1>6, <2>1, <2>3 DEF Seen, SeenDraft
  <2> QED
    BY <2>2, <2>3
<1> QED
  BY <1>0, <1>2, <1>3, <1>4, <1>5, <1>6

(* A merge writes the evidence of one learning whole, from the row as the    *)
(* reviewer was shown it: nothing is lost unless somebody else had it too.   *)
LEMMA MergeInv ==
    ASSUME StoreInv, NEW r \in Request, merge_into_existing(r)
    PROVE  StoreInv'
<1>0. PICK l, d : l = req[r].other /\ d = req[r].draft
  OBVIOUS
<1>1. /\ req[r].step = "decide" /\ l # None /\ mark_confirmed(req[r].draft, l)
      /\ Finish(r) /\ UNCHANGED <<replaced, related, raced>>
      /\ learning' = IF MergedMarks(r) = req[r].row.marks THEN learning
                     ELSE [learning EXCEPT ![l].marks = MergedMarks(r)]
  BY <1>0 DEF merge_into_existing
<1>2. /\ draft \in [Draft -> DraftRow] /\ learning \in [Learning -> LearningRow]
      /\ replaced \subseteq Learning \X Learning /\ related \subseteq SUBSET Learning
      /\ StoreTypeOK /\ Data /\ req[r] \in InHand /\ None \notin Draft /\ None \notin Learning
  BY LearningStoreAssumption DEF StoreInv, StoreTypeOK
<1>3. l \in Learning /\ l \in Rows(req[r]) /\ d \in Draft /\ Seen(req[r])
  BY <1>0, <1>1, Deciding
<1>4. /\ draft' \in [Draft -> DraftRow]
      /\ \A e \in Draft \ {d} : draft'[e] = draft[e]
      /\ draft'[d].status = "confirmed" /\ draft'[d].learning = l
      /\ d \notin raced => /\ draft'[d].marks = req[r].draftRow.marks
                           /\ \A k \in Learning : learning[k].from # d
      /\ DraftsSay'
      /\ \A c \in InHand : Seen(c) /\ Apart(r, c) => SeenDraft(c)'
  BY <1>0, <1>1, <1>3, ConfirmedDraft
<1>5. /\ learning[l].status \notin NoRow
      /\ l \notin raced => learning[l].marks = req[r].row.marks
  BY <1>0, <1>1, <1>3 DEF Seen, SeenMatch, merge_into_existing, NoRow
<1>6. req[r].row \in LearningRow /\ req[r].draftRow \in DraftRow /\ MergedMarks(r) \subseteq Mark
  BY <1>2 DEF InHand, MergedMarks, LearningRow, DraftRow
<1>7. /\ learning' \in [Learning -> LearningRow]
      /\ \A k \in Learning :
           /\ learning'[k].status = learning[k].status /\ learning'[k].scope = learning[k].scope
           /\ learning'[k].topic = learning[k].topic /\ learning'[k].from = learning[k].from
           /\ learning'[k].vector = learning[k].vector
           /\ learning'[k].project = learning[k].project
           /\ learning'[k].flagged = learning[k].flagged
           /\ k # l => learning'[k].marks = learning[k].marks
  BY <1>1, <1>2, <1>3, <1>6 DEF LearningRow
<1>8. l \notin raced => /\ learning'[l].marks = MergedMarks(r)
                        /\ learning[l].marks \subseteq MergedMarks(r)
                        /\ req[r].draftRow.marks \subseteq MergedMarks(r)
  BY <1>1, <1>2, <1>3, <1>5 DEF MergedMarks
<1>9. BornOnce'
  BY <1>1, <1>2, <1>3, <1>4, <1>7 DEF Data, BornOnce
<1>10. PointsAtRow'
  BY <1>2, <1>3, <1>4, <1>5, <1>7 DEF Data, PointsAtRow, DraftRow
<1>11. EvidenceKept'
  <2> SUFFICES ASSUME NEW e \in Draft, e \notin raced, draft'[e].status = "confirmed",
                      draft'[e].learning \notin raced
               PROVE  draft'[e].marks \subseteq learning'[draft'[e].learning].marks
    BY <1>1 DEF EvidenceKept
  <2>1. CASE e = d
    BY <1>4, <1>8, <2>1
  <2>2. CASE e # d
    <3>1. draft'[e] = draft[e] /\ draft[e].learning \in Learning
      BY <1>2, <1>4, <2>2 DEF Data, BornOnce, DraftRow
    <3>2. draft[e].marks \subseteq learning[draft[e].learning].marks
      BY <1>2, <3>1 DEF Data, EvidenceKept
    <3>3. CASE draft[e].learning = l
      BY <1>8, <3>1, <3>2, <3>3
    <3>4. CASE draft[e].learning # l
      BY <1>7, <3>1, <3>2, <3>4
    <3> QED
      BY <3>3, <3>4
  <2> QED
    BY <2>1, <2>2
<1>12. Data' /\ \A c \in InHand : Seen(c) /\ SeenDraft(c)' /\ SeenMatch(c)' => Seen(c)'
  BY <1>1, <1>2, <1>4, <1>7, <1>9, <1>10, <1>11, LessonsKept
<1>13. ASSUME NEW c \in InHand, Seen(c), Apart(r, c) PROVE SeenMatch(c)'
  <2> SUFFICES ASSUME c.step = "decide", c.other # None PROVE SeenMatch(c)'
    BY DEF SeenMatch
  <2>1. c.other \in Learning /\ (c.other = l => l \in raced)
    BY <1>1, <1>2, <1>3, <1>13 DEF Apart, Rows, InHand
  <2> QED
    BY <1>1, <1>7, <1>13, <2>1 DEF Seen, SeenMatch
<1> QED
  BY <1>1, <1>2, <1>4, <1>7, <1>12, <1>13, FinishInv

-----------------------------------------------------------------------------
(* New learnings. *)

(* The laws of links, one state later. *)
LEMMA LinkedLaws ==
    StoreTypeOK => \A l \in Learning :
        /\ l \in Linked(l)
        /\ \A n \in Learning : {n, l} \in related => n \in Linked(l)
        /\ \A k \in Linked(l) : Linked(k) \subseteq Linked(l) /\ l \in Linked(k)
BY LinkedClosed, LinkedBack

LEMMA LinkedLawsNext ==
    StoreTypeOK' => \A l \in Learning :
        /\ l \in Linked(l)'
        /\ \A n \in Learning : {n, l} \in related' => n \in Linked(l)'
        /\ \A k \in Linked(l)' : Linked(k)' \subseteq Linked(l)' /\ l \in Linked(k)'
<1>1. (StoreTypeOK => \A l \in Learning :
        /\ l \in Linked(l)
        /\ \A n \in Learning : {n, l} \in related => n \in Linked(l)
        /\ \A k \in Linked(l) : Linked(k) \subseteq Linked(l) /\ l \in Linked(k))'
  BY LinkedLaws, PTL
<1> QED
  BY <1>1

(* A row that was free concerns no draft, no request and no edge. *)
LEMMA NewRow ==
    ASSUME StoreInv, NEW l \in Learning, NEW new \in LearningRow,
           \/ learning[l].status = "none"
           \/ learning[l].status = "deleted" /\ new.from = None,
           new.status \notin NoRow, ~new.flagged,
           new.from # None => new.vector = new.topic,
           learning' = [learning EXCEPT ![l] = new],
           replaced' = replaced, related \subseteq related', raced \subseteq raced'
    PROVE  /\ learning' \in [Learning -> LearningRow]
           /\ learning'[l] = new
           /\ \A k \in Learning \ {l} : learning'[k] = learning[k]
           /\ \A t : /\ OnTopic(t)' \subseteq OnTopic(t) \cup {l}
                     /\ Drafted(t)' \subseteq Drafted(t) \cup {l}
                     /\ new.vector # t => OnTopic(t)' \subseteq OnTopic(t)
                     /\ new.from = None \/ new.vector # t => Drafted(t)' \subseteq Drafted(t)
           /\ \A k : LinkedByHand(k) => LinkedByHand(k)'
           /\ \A d \in Draft : draft[d].learning # l
           /\ VectorsKept' /\ DeletedAreRaced' /\ ReplacedAreSuperseded'
           /\ OneReplacement' /\ ChainsAreLinear' /\ OneFlagPerLesson'
           /\ \A c \in InHand : Seen(c) =>
                Shape(c)' /\ SeenMatch(c)' /\ SeenOld(c)' /\ SeenFlag(c)'
<1>1. learning \in [Learning -> LearningRow] /\ StoreTypeOK /\ Data /\ None \notin Learning
  BY LearningStoreAssumption DEF StoreInv, StoreTypeOK
<1>0. learning[l].status \in NoRow /\ (l \notin raced => learning[l].status = "none")
  BY <1>1 DEF Data, DeletedAreRaced, NoRow
<1>2. /\ learning' \in [Learning -> LearningRow] /\ learning'[l] = new
      /\ \A k \in Learning \ {l} : learning'[k] = learning[k]
  BY <1>1
<1>3. \A t : /\ OnTopic(t)' \subseteq OnTopic(t) \cup {l}
             /\ Drafted(t)' \subseteq Drafted(t) \cup {l}
             /\ new.vector # t => OnTopic(t)' \subseteq OnTopic(t)
             /\ new.from = None \/ new.vector # t => Drafted(t)' \subseteq Drafted(t)
  BY <1>2 DEF OnTopic, Drafted
<1>4. \A k : Linked(k) \subseteq Linked(k)'
  BY LinkedGrow
<1>5. ASSUME NEW k, LinkedByHand(k) PROVE LinkedByHand(k)'
  <2>1. PICK h \in Linked(k) : learning[h].status # "none" /\ learning[h].from = None
    BY <1>5 DEF LinkedByHand
  <2>2. h \in Learning /\ (h = l => new.from = None)
    BY <2>1 DEF Linked
  <2>3. h \in Linked(k)' /\ (h # l => learning'[h] = learning[h])
    BY <1>2, <1>4, <2>2
  <2> QED
    BY <1>2, <2>1, <2>2, <2>3 DEF LinkedByHand, NoRow
<1>6. \A d \in Draft : draft[d].learning # l
  BY <1>0, <1>1 DEF Data, PointsAtRow
<1>7. /\ VectorsKept' /\ DeletedAreRaced' /\ ReplacedAreSuperseded'
      /\ OneReplacement' /\ ChainsAreLinear'
  <2>1. \A k : Successors(k)' = Successors(k) /\ Replacements(k)' = Replacements(k)
    BY DEF Successors, Replacements
  <2>2. ReplacedAreSuperseded'
    BY <1>0, <1>1, <1>2 DEF Data, ReplacedAreSuperseded, StoreTypeOK
  <2>3. ChainsAreLinear'
    BY <1>1, <2>1 DEF Data, ChainsAreLinear, ChainEnds
  <2>4. OneReplacement'
    BY <1>1 DEF Data, OneReplacement
  <2>5. VectorsKept' /\ DeletedAreRaced'
    BY <1>1, <1>2 DEF Data, VectorsKept, DeletedAreRaced, NoRow
  <2> QED
    BY <2>2, <2>3, <2>4, <2>5
<1>8. OneFlagPerLesson'
  <2> SUFFICES ASSUME NEW j \in Learning, j \notin raced', learning'[j].flagged,
                      learning'[j].status = "active"
               PROVE  /\ learning'[j].scope \in {"task", "project"}
                      /\ \A k \in Group(learning', j) \ ({j} \cup raced') : ~learning'[k].flagged
    BY DEF OneFlagPerLesson
  <2>1. j # l /\ j \notin raced /\ learning'[j] = learning[j]
    BY <1>2
  <2>2. \A k \in Group(learning', j) : k \in Learning /\ (k # l => k \in Group(learning, j))
    BY <1>2, <2>1 DEF Group
  <2> QED
    BY <1>1, <1>2, <2>1, <2>2 DEF Data, OneFlagPerLesson
<1>9. ASSUME NEW c \in InHand, Seen(c)
      PROVE  Shape(c)' /\ SeenMatch(c)' /\ SeenOld(c)' /\ SeenFlag(c)'
  <2>1. Shape(c) /\ Shape(c)' /\ c.learning \in Learning \cup {None} /\ c.other \in Learning \cup {None}
    BY <1>9 DEF Seen, Shape, InHand
  <2>2. SeenMatch(c)'
    BY <1>0, <1>2, <1>9, <2>1 DEF Seen, SeenMatch, NoRow
  <2>3. SeenOld(c)'
    BY <1>0, <1>1, <1>2, <1>9, <2>1 DEF Seen, SeenOld, Shape, NoRow
  <2>4. SeenFlag(c)'
    BY <1>0, <1>2, <1>9, <2>1 DEF Seen, SeenFlag, Shape, NoRow
  <2> QED
    BY <2>1, <2>2, <2>3, <2>4
<1> QED
  BY <1>2, <1>3, <1>5, <1>6, <1>7, <1>8, <1>9

(* A learning written by hand: no draft points at it, and a reviewer who is  *)
(* deciding on the same topic now is known to have missed it.               *)
LEMMA WrittenInv ==
    ASSUME StoreInv, NEW said \in ByHand, NEW l \in Learning,
           learning[l].status \in NoRow, Writes(l, said)
    PROVE  StoreInv'
<1>0. PICK new : new = WrittenAs(NoLearning, said)
  OBVIOUS
<1>1. /\ learning' = [learning EXCEPT ![l] = new]
      /\ UNCHANGED <<draft, replaced, related, req>>
  BY <1>0 DEF Writes
<1>2. /\ said.vector \in Topic /\ said.vector # None /\ said.topic \in Topic
      /\ said.marks \subseteq Mark /\ said.project \in Project \cup {None}
      /\ said.scope \in {"task", "project", "global", "other"}
      /\ said.status \in {"active", "superseded", "expired", "other"}
  BY LearningStoreAssumption
<1>3. /\ new \in LearningRow /\ new.status \notin NoRow /\ ~new.flagged
      /\ new.from = None /\ new.vector = said.vector
  BY <1>0, <1>2, IdleInHand DEF NoLearning, LearningRow, NoRow, WrittenAs
<1>4. /\ raced \subseteq raced'
      /\ \A q \in Request :
           ({said.vector, learning[l].vector} \ {None}) \cap Rows(req[q]) \subseteq raced'
  BY <1>2, LearningStoreAssumption DEF Writes, Takes, Request
<1>5. /\ learning' \in [Learning -> LearningRow] /\ learning'[l] = new
      /\ \A k \in Learning \ {l} : learning'[k] = learning[k]
      /\ \A t : /\ Drafted(t)' \subseteq Drafted(t)
                /\ said.vector # t => OnTopic(t)' \subseteq OnTopic(t)
      /\ \A k : LinkedByHand(k) => LinkedByHand(k)'
      /\ \A d \in Draft : draft[d].learning # l
      /\ VectorsKept' /\ DeletedAreRaced' /\ ReplacedAreSuperseded'
      /\ OneReplacement' /\ ChainsAreLinear' /\ OneFlagPerLesson'
      /\ \A c \in InHand : Seen(c) =>
           Shape(c)' /\ SeenMatch(c)' /\ SeenOld(c)' /\ SeenFlag(c)'
  <2>1. learning[l].status = "none" \/ (learning[l].status = "deleted" /\ new.from = None)
    BY <1>3 DEF NoRow
  <2> QED
    BY <1>1, <1>3, <1>4, <2>1, NewRow
<1>6. StoreTypeOK /\ Data /\ HandsApart /\ draft \in [Draft -> DraftRow] /\ None \notin Learning
  BY LearningStoreAssumption DEF StoreInv, StoreTypeOK
<1>7. \A k : Linked(k) \subseteq Linked(k)'
  BY <1>1, LinkedGrow
<1>8. Data'
  <2>1. DraftsSay'
    BY <1>1, <1>6 DEF Data, DraftsSay
  <2>2. BornOnce'
    <3> SUFFICES ASSUME NEW d \in Draft \ raced'
                 PROVE  /\ (draft[d].status = "confirmed") <=> (draft[d].learning # None)
                        /\ \A k \in Learning : learning'[k].from = d =>
                             draft[d].status = "confirmed" /\ draft[d].learning = k
      BY <1>1 DEF BornOnce
    <3>1. d # None
      BY LearningStoreAssumption
    <3> QED
      BY <1>3, <1>4, <1>5, <1>6, <3>1 DEF Data, BornOnce
  <2>3. PointsAtRow'
    BY <1>1, <1>5, <1>6 DEF Data, PointsAtRow, DraftRow
  <2>4. EvidenceKept'
    <3> SUFFICES ASSUME NEW d \in Draft \ raced', draft[d].status = "confirmed",
                        draft[d].learning \notin raced'
                 PROVE  draft[d].marks \subseteq learning'[draft[d].learning].marks
      BY <1>1 DEF EvidenceKept
    <3>1. draft[d].learning \in Learning \ {l}
      BY <1>4, <1>5, <1>6 DEF Data, BornOnce, DraftRow
    <3> QED
      BY <1>4, <1>5, <1>6, <3>1 DEF Data, EvidenceKept
  <2>5. LessonsLinked'
    <3> SUFFICES ASSUME NEW t \in (Topic \cup {None}) \ raced', NEW k \in Drafted(t)',
                        NEW j \in Drafted(t)', k # j
                 PROVE  k \in Linked(j)' \/ LinkedByHand(k)' \/ LinkedByHand(j)'
      BY DEF LessonsLinked
    <3>1. k \in Drafted(t) /\ j \in Drafted(t) /\ t \notin raced
      BY <1>4, <1>5
    <3>2. k \in Linked(j) \/ LinkedByHand(k) \/ LinkedByHand(j)
      BY <1>6, <3>1 DEF Data, LessonsLinked
    <3> QED
      BY <1>5, <1>7, <3>2
  <2> QED
    BY <1>5, <2>1, <2>2, <2>3, <2>4, <2>5 DEF Data
<1>9. ASSUME NEW q \in Request PROVE Seen(req[q])'
  <2>1. PICK h : h = req[q]
    OBVIOUS
  <2>2. h \in InHand /\ Seen(h)
    BY <2>1 DEF StoreInv, StoreTypeOK
  <2>3. SeenDraft(h)'
    BY <1>1, <1>4, <2>2 DEF Seen, SeenDraft
  <2>4. SeenTopic(h)'
    <3>0. PICK t, o : t = h.draftRow.topic /\ o = h.other
      OBVIOUS
    <3> SUFFICES ASSUME h.step = "decide", t \notin raced'
                 PROVE  SeenTopic(h)'
      BY <3>0 DEF SeenTopic
    <3>1. t \in Rows(req[q]) /\ t # None /\ o \in Learning \cup {None}
      BY <2>1, <2>2, <3>0 DEF Rows, Seen, Shape, InHand
    <3>2. t # said.vector /\ t # learning[l].vector /\ t \notin raced
      BY <1>2, <1>4, <3>1
    <3>3. /\ o # None => learning[o].vector = t
          /\ h.draftRow.scope = "task" /\ o = None => OnTopic(t) = {}
          /\ h.draftRow.scope = "task" /\ o # None =>
               \A k \in Drafted(t) : k \in Linked(o) \/ LinkedByHand(k) \/ LinkedByHand(o)
      BY <2>2, <3>0, <3>2 DEF Seen, SeenTopic
    <3>4. o # None => learning'[o].vector = t
      BY <1>5, <3>1, <3>2, <3>3
    <3>5. h.draftRow.scope = "task" /\ o = None => OnTopic(t)' = {}
      BY <1>5, <3>2, <3>3
    <3>6. h.draftRow.scope = "task" /\ o # None =>
             \A k \in Drafted(t)' : k \in Linked(o)' \/ LinkedByHand(k)' \/ LinkedByHand(o)'
      BY <1>5, <1>7, <3>3
    <3> QED
      BY <3>0, <3>4, <3>5, <3>6 DEF SeenTopic
  <2>5. Seen(h)'
    BY <1>5, <2>2, <2>3, <2>4 DEF Seen
  <2>6. h = req'[q]
    BY <1>1, <2>1
  <2> QED
    BY <2>5, <2>6 DEF Seen, Shape, SeenDraft, SeenMatch, SeenTopic, SeenOld, SeenFlag
<1>10. StoreTypeOK'
  BY <1>1, <1>5, <1>6 DEF StoreTypeOK
<1>11. HandsApart'
  BY <1>1, <1>4, <1>6 DEF HandsApart, Rows
<1> QED
  BY <1>8, <1>9, <1>10, <1>11 DEF StoreInv

LEMMA SubmitInv ==
    ASSUME StoreInv, NEW said \in ByHand,
           submit_task_learning(said) \/ \E l \in Learning : create_learnings(l, said)
    PROVE  StoreInv'
<1>1. CASE submit_task_learning(said)
  <2>1. PICK l : l = Next1
    OBVIOUS
  <2>2. l \in Learning /\ learning[l].status \in NoRow /\ Writes(l, said)
    BY <1>1, <2>1, Next1IsFree DEF submit_task_learning, NoRow
  <2> QED
    BY <2>2, WrittenInv
<1>2. CASE \E l \in Learning : create_learnings(l, said)
  BY <1>2, WrittenInv DEF create_learnings
<1> QED
  BY <1>1, <1>2

(* A draft that becomes a learning: the row carries its evidence, and if it  *)
(* was kept apart from one that says the same, the two are linked.          *)
LEMMA CreateInv ==
    ASSUME StoreInv, NEW r \in Request, create_learning_record(r)
    PROVE  StoreInv'
<1>0. PICK l, d, o, t, new :
        /\ l = Next1 /\ d = req[r].draft /\ o = req[r].other /\ t = req[r].draftRow.topic
        /\ new = [NoLearning EXCEPT !.status = "active", !.from = d,
                            !.scope = req[r].draftRow.scope,
                            !.topic = req[r].draftRow.topic,
                            !.vector = req[r].draftRow.topic,
                            !.marks = req[r].draftRow.marks,
                            !.project = ProjectOf[d]]
  OBVIOUS
<1>1. /\ l \in Learning /\ learning[l].status = "none" /\ req[r].step = "decide"
      /\ learning' = [learning EXCEPT ![l] = new]
      /\ related' = IF o = None THEN related ELSE related \cup {{l, o}}
      /\ mark_confirmed(req[r].draft, l) /\ Finish(r)
      /\ UNCHANGED <<replaced, raced>>
  BY <1>0, Next1IsFree DEF create_learning_record
<1>2. /\ d \in Draft /\ o \in Learning \cup {None} /\ t \in Topic
      /\ req[r].draftRow \in DraftRow /\ Seen(req[r]) /\ {d, t, o} \subseteq Rows(req[r])
  BY <1>0, <1>1, Deciding
<1>3. /\ new \in LearningRow /\ new.status = "active" /\ ~new.flagged
      /\ new.from = d /\ new.topic = t /\ new.vector = t
      /\ new.scope = req[r].draftRow.scope /\ new.marks = req[r].draftRow.marks
  <2>1. /\ new = [NoLearning EXCEPT !.status = "active", !.from = d,
                                     !.scope = req[r].draftRow.scope,
                                     !.topic = t, !.vector = t,
                                     !.marks = req[r].draftRow.marks,
                                     !.project = ProjectOf[d]]
        /\ NoLearning \in LearningRow /\ ~NoLearning.flagged
    BY <1>0, IdleInHand DEF NoLearning
  <2>2. /\ req[r].draftRow.marks \subseteq Mark /\ ProjectOf[d] \in Project
        /\ req[r].draftRow.scope \in {"task", "project", "global"}
    BY <1>2, LearningStoreAssumption DEF DraftRow
  <2> QED
    BY <1>2, <2>1, <2>2 DEF LearningRow
<1>4. related \subseteq related' /\ raced \subseteq raced'
  BY <1>1
<1>5. /\ learning' \in [Learning -> LearningRow] /\ learning'[l] = new
      /\ \A k \in Learning \ {l} : learning'[k] = learning[k]
      /\ \A s : /\ Drafted(s)' \subseteq Drafted(s) \cup {l}
                /\ t # s => OnTopic(s)' \subseteq OnTopic(s) /\ Drafted(s)' \subseteq Drafted(s)
      /\ \A k : LinkedByHand(k) => LinkedByHand(k)'
      /\ \A e \in Draft : draft[e].learning # l
      /\ VectorsKept' /\ DeletedAreRaced' /\ ReplacedAreSuperseded'
      /\ OneReplacement' /\ ChainsAreLinear' /\ OneFlagPerLesson'
      /\ \A c \in InHand : Seen(c) =>
           Shape(c)' /\ SeenMatch(c)' /\ SeenOld(c)' /\ SeenFlag(c)'
  <2>1. new.status \notin NoRow
    BY <1>3 DEF NoRow
  <2> QED
    BY <1>1, <1>3, <1>4, <2>1, NewRow
<1>6. /\ StoreTypeOK /\ Data /\ draft \in [Draft -> DraftRow] /\ req \in [Request -> InHand]
      /\ replaced \subseteq Learning \X Learning /\ related \subseteq SUBSET Learning
      /\ None \notin Learning /\ None \notin Topic /\ None \notin Draft
  BY LearningStoreAssumption DEF StoreInv, StoreTypeOK
<1>7. /\ draft' \in [Draft -> DraftRow]
      /\ \A e \in Draft \ {d} : draft'[e] = draft[e]
      /\ draft'[d].status = "confirmed" /\ draft'[d].learning = l
      /\ d \notin raced => /\ draft'[d].marks = req[r].draftRow.marks
                           /\ \A k \in Learning : learning[k].from # d
      /\ DraftsSay'
      /\ \A c \in InHand : Seen(c) /\ Apart(r, c) => SeenDraft(c)'
  BY <1>0, <1>1, ConfirmedDraft
<1>8. related' \subseteq SUBSET Learning
  BY <1>1, <1>2, <1>6
<1>9. \A k : Linked(k) \subseteq Linked(k)'
  BY <1>4, LinkedGrow
<1>10. BornOnce'
  <2> SUFFICES ASSUME NEW e \in Draft \ raced
               PROVE  /\ (draft'[e].status = "confirmed") <=> (draft'[e].learning # None)
                      /\ \A k \in Learning : learning'[k].from = e =>
                           draft'[e].status = "confirmed" /\ draft'[e].learning = k
    BY <1>1 DEF BornOnce
  <2>1. CASE e = d
    BY <1>1, <1>5, <1>6, <1>7, <2>1
  <2>2. CASE e # d
    BY <1>3, <1>5, <1>6, <1>7, <2>2 DEF Data, BornOnce
  <2> QED
    BY <2>1, <2>2
<1>11. PointsAtRow'
  BY <1>3, <1>5, <1>6, <1>7 DEF Data, PointsAtRow, DraftRow, NoRow
<1>12. EvidenceKept'
  <2> SUFFICES ASSUME NEW e \in Draft \ raced, draft'[e].status = "confirmed",
                      draft'[e].learning \notin raced
               PROVE  draft'[e].marks \subseteq learning'[draft'[e].learning].marks
    BY <1>1 DEF EvidenceKept
  <2>1. CASE e = d
    BY <1>3, <1>5, <1>7, <2>1
  <2>2. CASE e # d
    <3>1. draft'[e] = draft[e] /\ draft[e].learning \in Learning \ {l}
      BY <1>5, <1>6, <1>7, <2>2 DEF Data, BornOnce, DraftRow
    <3> QED
      BY <1>5, <1>6, <3>1 DEF Data, EvidenceKept
  <2> QED
    BY <2>1, <2>2
<1>13. StoreTypeOK'
  <2>1. req' \in [Request -> InHand]
    BY <1>1, <1>6, IdleInHand DEF Finish
  <2> QED
    BY <1>1, <1>5, <1>6, <1>7, <1>8, <2>1 DEF StoreTypeOK
<1>14. ASSUME t \notin raced, new.scope = "task", NEW k \in Drafted(t)
       PROVE  (k \in Linked(l)' /\ l \in Linked(k)') \/ LinkedByHand(k)' \/ LinkedByHand(l)'
  <2>1. k \in OnTopic(t)
    BY DEF Drafted
  <2>2. o \in Learning /\ (k \in Linked(o) \/ LinkedByHand(k) \/ LinkedByHand(o))
    BY <1>0, <1>1, <1>2, <1>3, <1>14, <2>1 DEF Seen, SeenTopic
  <2>3. o \in Linked(l)' /\ Linked(o)' \subseteq Linked(l)'
    <3>1. {o, l} \in related'
      BY <1>1, <1>6, <2>2
    <3>2. o \in Linked(l)'
      BY <1>1, <1>13, <2>2, <3>1, LinkedLawsNext
    <3> QED
      BY <1>1, <1>13, <3>2, LinkedLawsNext
  <2>4. CASE k \in Linked(o)
    <3>1. k \in Linked(l)'
      BY <1>9, <2>3, <2>4
    <3> QED
      BY <1>1, <1>13, <3>1, LinkedLawsNext
  <2>5. CASE LinkedByHand(k)
    BY <1>5, <2>5
  <2>6. CASE LinkedByHand(o)
    <3>1. LinkedByHand(o)'
      BY <1>5, <2>6
    <3> QED
      BY <2>3, <3>1 DEF LinkedByHand
  <2> QED
    BY <2>2, <2>4, <2>5, <2>6
<1>15. LessonsLinked'
  <2> SUFFICES ASSUME NEW s \in (Topic \cup {None}) \ raced, NEW k \in Drafted(s)',
                      NEW j \in Drafted(s)', k # j
               PROVE  k \in Linked(j)' \/ LinkedByHand(k)' \/ LinkedByHand(j)'
    BY <1>1 DEF LessonsLinked
  <2>1. k = l \/ j = l => s = t /\ new.scope = "task"
    BY <1>3, <1>5 DEF Drafted, OnTopic
  <2>2. CASE k = l
    BY <1>5, <1>14, <2>1, <2>2
  <2>3. CASE j = l
    BY <1>5, <1>14, <2>1, <2>3
  <2>4. CASE k # l /\ j # l
    <3>1. k \in Drafted(s) /\ j \in Drafted(s)
      BY <1>5, <2>4
    <3>2. k \in Linked(j) \/ LinkedByHand(k) \/ LinkedByHand(j)
      BY <1>6, <3>1 DEF Data, LessonsLinked
    <3> QED
      BY <1>5, <1>9, <3>2
  <2> QED
    BY <2>2, <2>3, <2>4
<1>16. Data'
  BY <1>5, <1>7, <1>10, <1>11, <1>12, <1>15 DEF Data
<1>17. ASSUME NEW c \in InHand, Seen(c), Apart(r, c) PROVE Seen(c)'
  <2>1. SeenTopic(c)'
    <3>0. PICK s, p : s = c.draftRow.topic /\ p = c.other
      OBVIOUS
    <3> SUFFICES ASSUME c.step = "decide", s \notin raced
                 PROVE  SeenTopic(c)'
      BY <1>1, <3>0 DEF SeenTopic
    <3>1. s \in Rows(c) /\ p \in Learning \cup {None}
      BY <3>0 DEF Rows, InHand
    <3>2. s # t
      BY <1>2, <1>6, <1>17, <3>1 DEF Apart
    <3>3. /\ p # None => learning[p].vector = s /\ learning[p].status # "none"
          /\ c.draftRow.scope = "task" /\ p = None => OnTopic(s) = {}
          /\ c.draftRow.scope = "task" /\ p # None =>
               \A k \in Drafted(s) : k \in Linked(p) \/ LinkedByHand(k) \/ LinkedByHand(p)
      BY <1>17, <3>0 DEF Seen, SeenTopic, SeenMatch
    <3>4. p # None => learning'[p].vector = s
      BY <1>1, <1>5, <3>1, <3>3
    <3>5. c.draftRow.scope = "task" /\ p = None => OnTopic(s)' = {}
      BY <1>5, <3>2, <3>3
    <3>6. c.draftRow.scope = "task" /\ p # None =>
             \A k \in Drafted(s)' : k \in Linked(p)' \/ LinkedByHand(k)' \/ LinkedByHand(p)'
      BY <1>5, <1>9, <3>2, <3>3
    <3> QED
      BY <1>1, <3>0, <3>4, <3>5, <3>6 DEF SeenTopic
  <2> QED
    BY <1>5, <1>7, <1>17, <2>1 DEF Seen
<1> QED
  BY <1>1, <1>5, <1>6, <1>7, <1>8, <1>16, <1>17, FinishInv

-----------------------------------------------------------------------------
(* Learnings that move on: up the ladder, or replaced. *)

LEMMA SuccessorLaws ==
    StoreTypeOK => \A l \in Learning :
        /\ l \in Successors(l)
        /\ \A n, k \in Learning : <<n, k>> \in replaced /\ k \in Successors(l) => n \in Successors(l)
BY SuccessorsClosed

LEMMA SuccessorLawsNext ==
    StoreTypeOK' => \A l \in Learning :
        /\ l \in Successors(l)'
        /\ \A n, k \in Learning :
             <<n, k>> \in replaced' /\ k \in Successors(l)' => n \in Successors(l)'
<1>1. (StoreTypeOK => \A l \in Learning :
        /\ l \in Successors(l)
        /\ \A n, k \in Learning : <<n, k>> \in replaced /\ k \in Successors(l) => n \in Successors(l))'
  BY SuccessorLaws, PTL
<1> QED
  BY <1>1

(* What moves on says what it said, and never comes back to where duplicates *)
(* are looked for.                                                          *)
LEMMA MovedOn ==
    ASSUME StoreInv,
           \A k \in Learning :
             /\ learning'[k].topic = learning[k].topic /\ learning'[k].from = learning[k].from
             /\ learning'[k].vector = learning[k].vector
             /\ learning'[k].marks = learning[k].marks
             /\ learning'[k].status = "none" <=> learning[k].status = "none"
             /\ learning'[k].status = "deleted" <=> learning[k].status = "deleted"
             /\ learning'[k].status = "active" => learning[k].status = "active"
             /\ learning'[k].scope = "task" => learning[k].scope = "task",
           UNCHANGED <<draft, related, raced>>
    PROVE  /\ DraftsSay' /\ BornOnce' /\ PointsAtRow' /\ EvidenceKept' /\ LessonsLinked'
           /\ VectorsKept' /\ DeletedAreRaced'
           /\ \A c \in InHand : Seen(c) =>
                Shape(c)' /\ SeenDraft(c)' /\ SeenMatch(c)' /\ SeenTopic(c)'
<1>1. Data /\ draft \in [Draft -> DraftRow] /\ None \notin Learning
  BY LearningStoreAssumption DEF StoreInv, StoreTypeOK
<1>2. \A k : Linked(k)' = Linked(k) /\ Linked(k) \subseteq Learning
  BY DEF Linked
<1>3. \A k : LinkedByHand(k)' = LinkedByHand(k)
  BY <1>2 DEF LinkedByHand
<1>4. \A t : OnTopic(t)' \subseteq OnTopic(t) /\ Drafted(t)' \subseteq Drafted(t)
  BY DEF OnTopic, Drafted
<1>5. DraftsSay' /\ BornOnce' /\ PointsAtRow' /\ EvidenceKept'
  <2>1. DraftsSay'
    BY <1>1 DEF Data, DraftsSay
  <2>2. BornOnce'
    BY <1>1 DEF Data, BornOnce
  <2>3. PointsAtRow'
    BY <1>1 DEF Data, PointsAtRow, DraftRow, NoRow
  <2>4. EvidenceKept'
    <3> SUFFICES ASSUME NEW d \in Draft \ raced, draft[d].status = "confirmed",
                        draft[d].learning \notin raced
                 PROVE  draft[d].marks \subseteq learning'[draft[d].learning].marks
      BY DEF EvidenceKept
    <3>1. draft[d].learning \in Learning
      BY <1>1 DEF Data, BornOnce, DraftRow
    <3> QED
      BY <1>1, <3>1 DEF Data, EvidenceKept
  <2> QED
    BY <2>1, <2>2, <2>3, <2>4
<1>6. LessonsLinked'
  BY <1>1, <1>2, <1>3, <1>4 DEF Data, LessonsLinked
<1>7. ASSUME NEW c \in InHand, Seen(c)
      PROVE  Shape(c)' /\ SeenDraft(c)' /\ SeenMatch(c)' /\ SeenTopic(c)'
  <2>1. Shape(c)' /\ SeenDraft(c)' /\ c.other \in Learning \cup {None}
    BY <1>7 DEF Seen, Shape, SeenDraft, InHand
  <2>2. SeenMatch(c)'
    BY <1>7, <2>1 DEF Seen, SeenMatch
  <2>3. SeenTopic(c)'
    <3>1. c.other # None => learning'[c.other].vector = learning[c.other].vector
      BY <2>1
    <3> QED
      BY <1>2, <1>3, <1>4, <1>7, <3>1 DEF Seen, SeenTopic
  <2> QED
    BY <2>1, <2>2, <2>3
<1>8. VectorsKept' /\ DeletedAreRaced'
  BY <1>1 DEF Data, VectorsKept, DeletedAreRaced
<1> QED
  BY <1>5, <1>6, <1>7, <1>8

(* A replacement: the edge goes to a learning that is active and so is       *)
(* replaced by nothing, from one that nothing else replaces, unless another  *)
(* request had one of the two in hand.                                      *)
LEMMA SupersedeInv ==
    ASSUME StoreInv, NEW r \in Request, supersede(r)
    PROVE  StoreInv'
<1>0. PICK old, new : old = req[r].learning /\ new = req[r].other
  OBVIOUS
<1>1. /\ req[r].op = "supersede" /\ req[r].step = "write"
      /\ learning' = [learning EXCEPT ![old].status =
                      IF req[r].row.status = "superseded" THEN @ ELSE "superseded"]
      /\ replaced' = replaced \cup {<<new, old>>}
      /\ Finish(r) /\ UNCHANGED <<draft, related, raced>>
  BY <1>0 DEF supersede
<1>2. /\ draft \in [Draft -> DraftRow] /\ learning \in [Learning -> LearningRow]
      /\ replaced \subseteq Learning \X Learning /\ related \subseteq SUBSET Learning
      /\ StoreTypeOK /\ Data /\ req \in [Request -> InHand] /\ Seen(req[r])
      /\ None \notin Learning
  BY LearningStoreAssumption DEF StoreInv, StoreTypeOK
<1>3. /\ old \in Learning /\ new \in Learning /\ old # new
      /\ old \in Rows(req[r]) /\ new \in Rows(req[r])
      /\ learning[old].status \notin NoRow
      /\ old \notin raced /\ req[r].row.status = "superseded" =>
           learning[old].status = "superseded"
      /\ old \notin raced => \A n \in Learning : <<n, old>> \in replaced => n = new
      /\ new \notin raced => learning[new].status = "active"
  BY <1>0, <1>1, <1>2 DEF Seen, Shape, SeenOld, InHand, Rows, NoRow, supersede
<1>4. /\ learning' \in [Learning -> LearningRow]
      /\ old \notin raced => learning'[old].status = "superseded"
      /\ learning'[old].status \notin NoRow
      /\ learning'[old].status = "active" => learning[old].status = "active"
      /\ \A k \in Learning :
           /\ k # old => learning'[k].status = learning[k].status
           /\ learning'[k].topic = learning[k].topic /\ learning'[k].from = learning[k].from
           /\ learning'[k].vector = learning[k].vector
           /\ learning'[k].marks = learning[k].marks /\ learning'[k].scope = learning[k].scope
           /\ learning'[k].project = learning[k].project
           /\ learning'[k].flagged = learning[k].flagged
  <2>1. learning[old] \in LearningRow
    BY <1>2, <1>3
  <2>2. CASE req[r].row.status = "superseded"
    <3>1. learning'[old] = [learning[old] EXCEPT !.status = learning[old].status]
      BY <1>1, <1>2, <1>3, <2>2
    <3>2. learning'[old] = learning[old]
      BY <2>1, <3>1 DEF LearningRow
    <3>3. /\ DOMAIN learning' = Learning /\ learning' = [k \in DOMAIN learning' |-> learning'[k]]
          /\ \A k \in Learning \ {old} : learning'[k] = learning[k]
      BY <1>1, <1>2
    <3>4. learning' \in [Learning -> LearningRow]
      BY <1>2, <3>2, <3>3
    <3> QED
      BY <1>2, <1>3, <2>2, <3>2, <3>3, <3>4
  <2>3. CASE req[r].row.status # "superseded"
    <3>1. learning' = [learning EXCEPT ![old].status = "superseded"]
      BY <1>1, <2>3
    <3> QED
      BY <1>2, <1>3, <2>1, <3>1, SMTT(30) DEF LearningRow, NoRow
  <2> QED
    BY <2>2, <2>3
<1>5. /\ DraftsSay' /\ BornOnce' /\ PointsAtRow' /\ EvidenceKept' /\ LessonsLinked'
      /\ VectorsKept' /\ DeletedAreRaced'
      /\ \A c \in InHand : Seen(c) =>
           Shape(c)' /\ SeenDraft(c)' /\ SeenMatch(c)' /\ SeenTopic(c)'
  <2>1. \A k \in Learning :
             /\ learning'[k].status = "none" <=> learning[k].status = "none"
             /\ learning'[k].status = "deleted" <=> learning[k].status = "deleted"
             /\ learning'[k].status = "active" => learning[k].status = "active"
    BY <1>3, <1>4 DEF NoRow
  <2> QED
    BY <1>1, <1>4, <2>1, MovedOn
<1>6. replaced' \subseteq Learning \X Learning
  BY <1>1, <1>2, <1>3
<1>7. StoreTypeOK'
  <2>1. req' \in [Request -> InHand]
    BY <1>1, <1>2, IdleInHand DEF Finish
  <2> QED
    BY <1>1, <1>2, <1>4, <1>6, <2>1 DEF StoreTypeOK
<1>8. ReplacedAreSuperseded'
  <2> SUFFICES ASSUME NEW edge \in replaced', edge[2] \notin raced
               PROVE  learning'[edge[2]].status = "superseded"
    BY <1>1 DEF ReplacedAreSuperseded
  <2>1. CASE edge = <<new, old>>
    BY <1>4, <2>1
  <2>2. CASE edge \in replaced
    <3>1. edge[2] \in Learning /\ learning[edge[2]].status = "superseded"
      BY <1>2, <2>2 DEF Data, ReplacedAreSuperseded
    <3>2. edge[2] = old \/ learning'[edge[2]].status = learning[edge[2]].status
      BY <1>4, <3>1
    <3> QED
      BY <1>4, <3>1, <3>2
  <2> QED
    BY <1>1, <2>1, <2>2
<1>9. OneReplacement'
  BY <1>1, <1>2, <1>3 DEF Data, OneReplacement
<1>10. ASSUME NEW l \in Learning, old \in Successors(l)', Successors(l)' \cap raced = {}
      PROVE  /\ Replacements(old)' = {new}
             /\ new \in Successors(l)' /\ Replacements(new)' = {}
  <2>1. new \in Successors(l)'
    BY <1>1, <1>3, <1>7, <1>10, SuccessorLawsNext
  <2>2. old \notin raced /\ new \notin raced
    BY <1>10, <2>1
  <2>3. Replacements(old)' = {new}
    BY <1>1, <1>3, <2>2 DEF Replacements
  <2>4. \A n : <<n, new>> \notin replaced
    BY <1>2, <1>3, <2>2 DEF Data, ReplacedAreSuperseded
  <2>5. Replacements(new)' = {}
    BY <1>1, <1>3, <2>4 DEF Replacements
  <2> QED
    BY <2>1, <2>3, <2>5
<1>11. ChainsAreLinear'
  <2> SUFFICES ASSUME NEW edge \in replaced', Successors(edge[2])' \cap raced = {}
               PROVE  ChainEnds(edge[2])'
    BY <1>1 DEF ChainsAreLinear
  <2>1. PICK l \in Learning : l = edge[2]
    BY <1>6
  <2>2. Successors(l)' \cap raced = {} /\ l \in Successors(l)'
    BY <1>7, <2>1, SuccessorLawsNext
  <2>3. \A k \in Learning \ {old} : Replacements(k)' = Replacements(k)
    BY <1>1 DEF Replacements
  <2>4. CASE l = old
    <3>1. Replacements(l)' = {new} /\ new \in Successors(l)' /\ Replacements(new)' = {}
      BY <1>10, <2>2, <2>4
    <3>2. ChainEnds(l)'
      BY <1>3, <3>1 DEF ChainEnds
    <3> QED
      BY <2>1, <3>2 DEF ChainEnds
  <2>5. CASE l # old
    <3>1. edge \in replaced
      BY <1>1, <2>1, <2>5
    <3>2. Successors(l) \subseteq Successors(l)'
      BY <1>1, SuccessorsGrow
    <3>3. Successors(edge[2]) \cap raced = {}
      BY <2>1, <2>2, <3>2
    <3>4. ChainEnds(l)
      BY <1>2, <2>1, <3>1, <3>3 DEF Data, ChainsAreLinear
    <3>5. PICK n \in Learning, k \in Successors(l) : Replacements(l) = {n} /\ Replacements(k) = {}
      BY <3>4 DEF ChainEnds
    <3>6. Replacements(l)' = {n} /\ k \in Successors(l)' /\ k \in Learning
      BY <2>3, <2>5, <3>2, <3>5 DEF Successors
    <3>7. \E m \in Successors(l)' : Replacements(m)' = {}
      <4>1. CASE k = old
        BY <1>10, <2>2, <3>6, <4>1
      <4>2. CASE k # old
        BY <2>3, <3>5, <3>6, <4>2
      <4> QED
        BY <4>1, <4>2
    <3>8. ChainEnds(l)'
      BY <3>6, <3>7 DEF ChainEnds
    <3> QED
      BY <2>1, <3>8 DEF ChainEnds
  <2> QED
    BY <2>4, <2>5
<1>12. OneFlagPerLesson'
  <2>1. \A j \in Learning : learning'[j].status = "active" =>
          learning[j].status = "active" /\ Group(learning', j) \subseteq Group(learning, j)
    BY <1>3, <1>4 DEF Group
  <2>2. \A j \in Learning : Group(learning', j) \subseteq Learning
    BY DEF Group
  <2> SUFFICES ASSUME NEW j \in Learning, j \notin raced', learning'[j].flagged,
                      learning'[j].status = "active"
               PROVE  /\ learning'[j].scope \in {"task", "project"}
                      /\ \A k \in Group(learning', j) \ ({j} \cup raced') : ~learning'[k].flagged
    BY DEF OneFlagPerLesson
  <2>3. j \notin raced /\ learning[j].flagged /\ learning[j].status = "active"
    BY <1>1, <1>4, <2>1
  <2>4. /\ learning[j].scope \in {"task", "project"}
        /\ \A k \in Group(learning, j) \ ({j} \cup raced) : ~learning[k].flagged
    BY <1>2, <2>3 DEF Data, OneFlagPerLesson
  <2> QED
    BY <1>1, <1>4, <2>1, <2>2, <2>3, <2>4
<1>13. Data'
  BY <1>5, <1>8, <1>11, <1>12, <1>9 DEF Data
<1>14. ASSUME NEW c \in InHand, Seen(c), Apart(r, c) PROVE Seen(c)'
  <2>1. c.learning \in Learning \cup {None} /\ c.other \in Learning \cup {None} /\ Shape(c) /\ Shape(c)'
    BY <1>5, <1>14 DEF InHand, Seen
  <2>2. /\ c.learning = old => old \in raced
        /\ c.other = old => old \in raced
    BY <1>2, <1>3, <1>14 DEF Apart, Rows
  <2>3. SeenOld(c)'
    <3> SUFFICES ASSUME c.op = "supersede"
                 PROVE  /\ learning'[c.learning].status # "none"
                        /\ c.row.status = "superseded" /\ c.learning \notin raced =>
                             learning'[c.learning].status = "superseded"
                        /\ c.step = "write" =>
                             /\ c.learning \notin raced =>
                                  \A n \in Learning : <<n, c.learning>> \in replaced' => n = c.other
                             /\ c.other \notin raced => learning'[c.other].status = "active"
      BY <1>1 DEF SeenOld
    <3>1. c.learning \in Learning /\ c.other \in Learning
      BY <2>1 DEF Shape
    <3> QED
      BY <1>1, <1>4, <1>14, <2>2, <3>1 DEF Seen, SeenOld, NoRow
  <2>4. SeenFlag(c)'
    <3>1. c.op = "promote" => c.learning \in Learning
      BY <2>1 DEF Shape
    <3> QED
      BY <1>1, <1>4, <1>14, <3>1 DEF Seen, SeenFlag
  <2> QED
    BY <1>5, <1>14, <2>3, <2>4 DEF Seen
<1> QED
  BY <1>1, <1>2, <1>4, <1>6, <1>13, <1>14, FinishInv

(* What a promotion leaves in the rows: nothing moves but the promoted       *)
(* learning's scope and the flags, and of the active learnings on the ladder *)
(* only the first of a group is flagged, the promoted one apart if its flag  *)
(* is not the one that was loaded.  Groups are those of the rows as the      *)
(* request has them, with the title of the promoted one as loaded.          *)
FirstFlagged(r, l, rows) ==
    \A k \in Learning :
        /\ rows[k].status = learning'[k].status /\ rows[k].scope = learning'[k].scope
        /\ rows[k].project = learning'[k].project
        /\ k # l \/ learning[l].topic = req[r].row.topic => rows[k].topic = learning'[k].topic
        /\ k # l \/ learning[l].flagged = req[r].row.flagged =>
             (learning'[k].status = "active" /\ learning'[k].flagged =>
                \/ learning'[k].scope \in {"task", "project"} /\ k = Min(Group(rows, k))
                \/ k # l /\ learning[k].scope = "other" /\ learning[k].flagged)

LEMMA Promoted ==
    ASSUME learning \in [Learning -> LearningRow], NEW r, NEW target \in {"project", "global"},
           NEW l \in Learning, l = req[r].learning, promote(r, target),
           req[r].row \in LearningRow
    PROVE  /\ learning' \in [Learning -> LearningRow]
           /\ \A k \in Learning :
                /\ learning'[k].status = learning[k].status /\ learning'[k].topic = learning[k].topic
                /\ learning'[k].vector = learning[k].vector
                /\ learning'[k].marks = learning[k].marks /\ learning'[k].from = learning[k].from
                /\ learning'[k].project = learning[k].project
                /\ learning'[k].scope = IF k = l THEN target ELSE learning[k].scope
           /\ \E rows : FirstFlagged(r, l, rows)
<1>0. PICK rows, flags, flag :
        /\ rows = [learning EXCEPT ![l].scope = target, ![l].flagged = FALSE,
                                   ![l].topic = req[r].row.topic]
        /\ flags = auto_promote_candidates(rows)
        /\ flag = IF ~req[r].row.flagged /\ ~flags[l].flagged
                  THEN learning[l].flagged ELSE flags[l].flagged
  OBVIOUS
<1>1. learning' = [flags EXCEPT ![l].topic = learning[l].topic, ![l].flagged = flag]
  BY <1>0 DEF promote
<1>2. /\ rows \in [Learning -> LearningRow]
      /\ rows[l].scope = target /\ rows[l].topic = req[r].row.topic
      /\ \A k \in Learning \ {l} : rows[k] = learning[k]
      /\ \A k \in Learning :
           /\ rows[k].status = learning[k].status /\ rows[k].vector = learning[k].vector
           /\ rows[k].marks = learning[k].marks /\ rows[k].from = learning[k].from
           /\ rows[k].project = learning[k].project
  <2>0. rows = [learning EXCEPT ![l].scope = target, ![l].flagged = FALSE,
                                ![l].topic = req[r].row.topic]
    BY <1>0
  <2>2. \A k \in Learning \ {l} : rows[k] = learning[k]
    BY <2>0
  <2>3. learning[l] \in LearningRow /\ req[r].row.topic \in Topic \cup {None}
    BY DEF LearningRow
  <2>4. rows[l] = [learning[l] EXCEPT !.scope = target, !.flagged = FALSE,
                                      !.topic = req[r].row.topic]
    BY <2>0
  <2>5. /\ rows[l].scope = target /\ rows[l].topic = req[r].row.topic
        /\ rows[l].status = learning[l].status /\ rows[l].vector = learning[l].vector
        /\ rows[l].marks = learning[l].marks /\ rows[l].from = learning[l].from
        /\ rows[l].project = learning[l].project
    BY <2>3, <2>4 DEF LearningRow
  <2>6. rows[l] \in LearningRow
    BY <2>3, <2>4 DEF LearningRow
  <2>7. DOMAIN rows = Learning /\ rows = [k \in DOMAIN rows |-> rows[k]]
    BY <2>0
  <2>1. rows \in [Learning -> LearningRow]
    BY <2>2, <2>6, <2>7
  <2> QED
    BY <2>1, <2>2, <2>5
<1> DEFINE Elig == eligible_learning_ids(rows)
<1>3. \A k \in Learning : k \in Elig => k = Min(Group(rows, k))
  BY DEF eligible_learning_ids
<1> HIDE DEF Elig
<1>4. flags = [k \in Learning |->
                 IF rows[k].status = "active" /\ rows[k].scope \in {"task", "project"}
                 THEN [rows[k] EXCEPT !.flagged = k \in Elig]
                 ELSE IF rows[k].scope = "global" THEN [rows[k] EXCEPT !.flagged = FALSE]
                 ELSE rows[k]]
  BY <1>0 DEF auto_promote_candidates, Elig
<1>5. ASSUME NEW k \in Learning
      PROVE  /\ flags[k] \in LearningRow
             /\ flags[k].status = rows[k].status /\ flags[k].topic = rows[k].topic
             /\ flags[k].marks = rows[k].marks /\ flags[k].from = rows[k].from
             /\ flags[k].vector = rows[k].vector
             /\ flags[k].project = rows[k].project /\ flags[k].scope = rows[k].scope
             /\ flags[k].status = "active" /\ flags[k].flagged =>
                  \/ flags[k].scope \in {"task", "project"} /\ k \in Elig
                  \/ flags[k].scope = "other" /\ rows[k].flagged
  <2>1. rows[k] \in LearningRow
    BY <1>2
  <2>2. CASE rows[k].status = "active" /\ rows[k].scope \in {"task", "project"}
    <3>1. flags[k] = [rows[k] EXCEPT !.flagged = k \in Elig]
      BY <1>4, <2>2
    <3>2. CASE k \in Elig
      <4>1. flags[k] = [rows[k] EXCEPT !.flagged = TRUE]
        BY <3>1, <3>2
      <4> QED
        BY <2>1, <2>2, <3>2, <4>1 DEF LearningRow
    <3>3. CASE k \notin Elig
      <4>0. (k \in Elig) = FALSE
        BY <3>3
      <4>1. flags[k] = [rows[k] EXCEPT !.flagged = FALSE]
        BY <3>1, <4>0, Zenon
      <4> QED
        BY <2>1, <4>1 DEF LearningRow
    <3> QED
      BY <3>2, <3>3
  <2>3. CASE rows[k].scope = "global"
    <3>1. flags[k] = [rows[k] EXCEPT !.flagged = FALSE]
      BY <1>4, <2>3
    <3> QED
      BY <2>1, <3>1 DEF LearningRow
  <2>4. CASE /\ ~(rows[k].status = "active" /\ rows[k].scope \in {"task", "project"})
             /\ rows[k].scope # "global"
    <3>1. flags[k] = rows[k]
      BY <1>4, <2>4
    <3>2. rows[k].scope \in {"task", "project", "other"}
      BY <2>1, <2>4 DEF LearningRow
    <3> QED
      BY <2>1, <2>4, <3>1, <3>2
  <2> QED
    BY <2>2, <2>3, <2>4
<1>6. flags \in [Learning -> LearningRow]
  <2>1. DOMAIN flags = Learning /\ flags = [k \in Learning |-> flags[k]]
    BY <1>4
  <2> QED
    BY <1>5, <2>1
<1>7. /\ learning' \in [Learning -> LearningRow]
      /\ \A k \in Learning \ {l} : learning'[k] = flags[k]
      /\ learning'[l].flagged = flag /\ learning'[l].topic = learning[l].topic
      /\ learning'[l].status = flags[l].status /\ learning'[l].vector = flags[l].vector
      /\ learning'[l].marks = flags[l].marks /\ learning'[l].from = flags[l].from
      /\ learning'[l].project = flags[l].project /\ learning'[l].scope = flags[l].scope
  <2>1. /\ learning[l].flagged \in BOOLEAN /\ flags[l].flagged \in BOOLEAN
        /\ learning[l].topic \in Topic \cup {None}
    BY <1>6 DEF LearningRow
  <2>2. flag \in BOOLEAN
    BY <1>0, <2>1
  <2>4. \A k \in Learning \ {l} : learning'[k] = flags[k]
    BY <1>1, <1>6
  <2>5. flags[l] \in LearningRow
    BY <1>6
  <2>6. learning'[l] = [flags[l] EXCEPT !.topic = learning[l].topic, !.flagged = flag]
    BY <1>1, <1>6
  <2>7. learning'[l] \in LearningRow
    BY <2>1, <2>2, <2>5, <2>6 DEF LearningRow
  <2>8. DOMAIN learning' = Learning /\ learning' = [k \in DOMAIN learning' |-> learning'[k]]
    BY <1>1, <1>6
  <2>3. learning' \in [Learning -> LearningRow]
    BY <1>6, <2>4, <2>7, <2>8
  <2> QED
    BY <2>3, <2>4, <2>5, <2>6 DEF LearningRow
<1>8. ASSUME NEW k \in Learning
      PROVE  /\ learning'[k].status = rows[k].status /\ learning'[k].vector = rows[k].vector
             /\ learning'[k].marks = rows[k].marks /\ learning'[k].from = rows[k].from
             /\ learning'[k].project = rows[k].project /\ learning'[k].scope = rows[k].scope
             /\ learning'[k].topic = learning[k].topic
             /\ k # l => rows[k].topic = learning[k].topic
  <2>1. CASE k = l
    BY <1>5, <1>7, <2>1
  <2>2. CASE k # l
    BY <1>2, <1>5, <1>7, <2>2
  <2> QED
    BY <2>1, <2>2
<1>9. ASSUME NEW k \in Learning, k # l \/ learning[l].flagged = req[r].row.flagged,
             learning'[k].status = "active", learning'[k].flagged
      PROVE  \/ learning'[k].scope \in {"task", "project"} /\ k = Min(Group(rows, k))
             \/ k # l /\ learning[k].scope = "other" /\ learning[k].flagged
  <2>1. flags[k].flagged
    <3>1. CASE k # l
      BY <1>7, <1>9, <3>1
    <3>2. CASE k = l
      <4>1. flag
        BY <1>7, <1>9, <3>2
      <4>2. learning[l].flagged = req[r].row.flagged
        BY <1>9, <3>2
      <4>3. CASE ~req[r].row.flagged /\ ~flags[l].flagged
        BY <1>0, <4>1, <4>2, <4>3
      <4>4. CASE ~(~req[r].row.flagged /\ ~flags[l].flagged)
        BY <1>0, <3>2, <4>1, <4>4
      <4> QED
        BY <4>3, <4>4
    <3> QED
      BY <3>1, <3>2
  <2>2. flags[k].status = "active" /\ flags[k].scope = learning'[k].scope
    BY <1>5, <1>8, <1>9
  <2>3. \/ flags[k].scope \in {"task", "project"} /\ k \in Elig
        \/ flags[k].scope = "other" /\ rows[k].flagged
    BY <1>5, <2>1, <2>2
  <2>4. flags[k].scope = "other" => k # l
    BY <1>2, <1>5
  <2> QED
    BY <1>2, <1>3, <1>5, <2>2, <2>3, <2>4
<1> QED
  <2>1. \A k \in Learning :
           /\ learning'[k].status = learning[k].status /\ learning'[k].topic = learning[k].topic
           /\ learning'[k].vector = learning[k].vector
           /\ learning'[k].marks = learning[k].marks /\ learning'[k].from = learning[k].from
           /\ learning'[k].project = learning[k].project
           /\ learning'[k].scope = IF k = l THEN target ELSE learning[k].scope
    BY <1>2, <1>8
  <2>2. FirstFlagged(r, l, rows)
    <3> SUFFICES ASSUME NEW k \in Learning
                 PROVE  /\ rows[k].status = learning'[k].status
                        /\ rows[k].scope = learning'[k].scope
                        /\ rows[k].project = learning'[k].project
                        /\ k # l \/ learning[l].topic = req[r].row.topic =>
                             rows[k].topic = learning'[k].topic
                        /\ k # l \/ learning[l].flagged = req[r].row.flagged =>
                             (learning'[k].status = "active" /\ learning'[k].flagged =>
                                \/ /\ learning'[k].scope \in {"task", "project"}
                                   /\ k = Min(Group(rows, k))
                                \/ k # l /\ learning[k].scope = "other" /\ learning[k].flagged)
      BY DEF FirstFlagged
    <3> QED
      BY <1>2, <1>8, <1>9
  <2> QED
    BY <1>7, <2>1, <2>2

(* The groups of learnings that stand for one lesson are apart. *)
LEMMA SameGroup ==
    ASSUME NEW rows, NEW j \in Learning, NEW k \in Group(rows, j)
    PROVE  Group(rows, k) = Group(rows, j)
BY DEF Group

LEMMA PromoteInv ==
    ASSUME StoreInv, NEW r \in Request, NEW target \in {"project", "global"}, promote(r, target)
    PROVE  StoreInv'
<1>0. PICK l : l = req[r].learning
  OBVIOUS
<1>1. req[r].op = "promote" /\ Finish(r) /\ UNCHANGED <<draft, replaced, related, raced>>
  BY DEF promote
<1>2. /\ draft \in [Draft -> DraftRow] /\ learning \in [Learning -> LearningRow]
      /\ replaced \subseteq Learning \X Learning /\ related \subseteq SUBSET Learning
      /\ StoreTypeOK /\ Data /\ Seen(req[r]) /\ req[r] \in InHand /\ None \notin Learning
  BY LearningStoreAssumption DEF StoreInv, StoreTypeOK
<1>3. /\ l \in Learning /\ Learning \subseteq Rows(req[r])
      /\ l \notin raced => /\ learning[l].flagged = req[r].row.flagged
                           /\ learning[l].topic = req[r].row.topic
      /\ req[r].row \in LearningRow
  BY <1>0, <1>1, <1>2 DEF Seen, Shape, SeenFlag, InHand, Rows
<1>5. /\ learning' \in [Learning -> LearningRow]
      /\ \A k \in Learning :
           /\ learning'[k].status = learning[k].status /\ learning'[k].topic = learning[k].topic
           /\ learning'[k].marks = learning[k].marks /\ learning'[k].from = learning[k].from
           /\ learning'[k].project = learning[k].project
           /\ learning'[k].vector = learning[k].vector
           /\ learning'[k].scope = IF k = l THEN target ELSE learning[k].scope
      /\ \E rows : FirstFlagged(r, l, rows)
  BY <1>0, <1>2, <1>3, Promoted
<1>6. /\ DraftsSay' /\ BornOnce' /\ PointsAtRow' /\ EvidenceKept' /\ LessonsLinked'
      /\ VectorsKept' /\ DeletedAreRaced'
      /\ \A c \in InHand : Seen(c) =>
           Shape(c)' /\ SeenDraft(c)' /\ SeenMatch(c)' /\ SeenTopic(c)'
  BY <1>1, <1>5, MovedOn
<1>7. ReplacedAreSuperseded' /\ OneReplacement' /\ ChainsAreLinear'
  <2>1. \A k : Successors(k)' = Successors(k) /\ Replacements(k)' = Replacements(k)
    BY <1>1 DEF Successors, Replacements
  <2>2. ReplacedAreSuperseded'
    <3> SUFFICES ASSUME NEW edge \in replaced, edge[2] \notin raced
                 PROVE  learning'[edge[2]].status = "superseded"
      BY <1>1 DEF ReplacedAreSuperseded
    <3>1. edge[2] \in Learning /\ learning[edge[2]].status = "superseded"
      BY <1>2 DEF Data, ReplacedAreSuperseded
    <3> QED
      BY <1>5, <3>1
  <2>3. ChainsAreLinear'
    BY <1>1, <1>2, <2>1 DEF Data, ChainsAreLinear, ChainEnds
  <2>4. OneReplacement'
    BY <1>1, <1>2 DEF Data, OneReplacement
  <2> QED
    BY <2>2, <2>3, <2>4
<1>4. PICK rows : FirstFlagged(r, l, rows)
  BY <1>5
<1>8. ASSUME NEW j \in Learning, j \notin raced
      PROVE  /\ rows[j].status = learning'[j].status /\ rows[j].scope = learning'[j].scope
             /\ rows[j].project = learning'[j].project /\ rows[j].topic = learning'[j].topic
             /\ learning'[j].flagged /\ learning'[j].status = "active" =>
                  learning'[j].scope \in {"task", "project"} /\ j = Min(Group(rows, j))
  <2>1. j # l \/ learning[l].flagged = req[r].row.flagged
    BY <1>3, <1>8
  <2>2. j # l \/ learning[l].topic = req[r].row.topic
    BY <1>3, <1>8
  <2>3. learning[j].flagged /\ learning[j].status = "active" => learning[j].scope # "other"
    BY <1>2, <1>8 DEF Data, OneFlagPerLesson
  <2> QED
    BY <1>4, <1>5, <2>1, <2>2, <2>3 DEF FirstFlagged
<1>9. OneFlagPerLesson'
  <2> SUFFICES ASSUME NEW j \in Learning, j \notin raced, learning'[j].flagged,
                      learning'[j].status = "active"
               PROVE  /\ learning'[j].scope \in {"task", "project"}
                      /\ \A k \in Group(learning', j) \ ({j} \cup raced) : ~learning'[k].flagged
    BY <1>1 DEF OneFlagPerLesson
  <2>1. learning'[j].scope \in {"task", "project"} /\ j = Min(Group(rows, j))
    BY <1>8
  <2>2. ASSUME NEW k \in Group(learning', j), k # j, k \notin raced, learning'[k].flagged
        PROVE  FALSE
    <3>1. k \in Learning /\ learning'[k].status = "active"
      BY DEF Group
    <3>2. k = Min(Group(rows, k))
      BY <1>8, <2>2, <3>1
    <3>3. k \in Group(rows, j)
      BY <1>8, <2>2, <3>1 DEF Group
    <3>4. Group(rows, k) = Group(rows, j)
      BY <3>3, SameGroup
    <3> QED
      BY <2>1, <2>2, <3>2, <3>4
  <2> QED
    BY <2>1, <2>2
<1>10. Data'
  BY <1>6, <1>7, <1>9 DEF Data
<1>11. ASSUME NEW c \in InHand, Seen(c), Apart(r, c) PROVE Seen(c)'
  <2>1. c.learning \in Learning \cup {None} /\ c.other \in Learning \cup {None} /\ Shape(c)
    BY <1>11 DEF InHand, Seen
  <2>2. SeenOld(c)'
    <3>1. c.op = "supersede" => c.learning \in Learning /\ c.other \in Learning
      BY <2>1 DEF Shape
    <3> QED
      BY <1>1, <1>5, <1>11, <3>1 DEF Seen, SeenOld
  <2>3. SeenFlag(c)'
    <3> SUFFICES ASSUME c.op = "promote" PROVE SeenFlag(c)'
      BY DEF SeenFlag
    <3>1. c.learning \in Learning /\ c.learning \in raced
      BY <1>2, <1>3, <1>11, <2>1 DEF Shape, Apart, Rows
    <3> QED
      BY <1>1, <1>5, <1>11, <3>1 DEF Seen, SeenFlag
  <2> QED
    BY <1>6, <1>11, <2>2, <2>3 DEF Seen
<1> QED
  BY <1>1, <1>2, <1>5, <1>10, <1>11, FinishInv

-----------------------------------------------------------------------------
(* What the generic routes rewrite is known to be raced for, and they leave  *)
(* the rest as it was.                                                      *)

(* A topic may gain or lose a learning only if it is raced for.              *)
Unsaid(l) ==
    \/ {learning'[l].topic, learning'[l].vector, learning[l].vector} \subseteq raced'
    \/ /\ learning'[l].topic = learning[l].topic /\ learning'[l].vector = learning[l].vector
       /\ learning'[l].scope = learning[l].scope
       /\ learning'[l].status = "active" => learning[l].status = "active"

LEMMA RowsRewritten ==
    ASSUME StoreInv, UNCHANGED <<replaced, related, req>>, raced \subseteq raced',
           draft' \in [Draft -> DraftRow], learning' \in [Learning -> LearningRow],
           PointsAtRow',
           \A d \in Draft :
             /\ d \notin raced' => draft'[d] = draft[d]
             /\ draft'[d].status = "none" <=> draft[d].status = "none"
             /\ draft'[d].topic = draft[d].topic,
           \A l \in Learning :
             /\ l \notin raced' => learning'[l] = learning[l]
             /\ learning'[l].status = "none" <=> learning[l].status = "none"
             /\ learning'[l].from = learning[l].from
             /\ Unsaid(l)
    PROVE  StoreInv'
<1>1. /\ StoreTypeOK /\ Data /\ HandsApart /\ draft \in [Draft -> DraftRow]
      /\ learning \in [Learning -> LearningRow] /\ None \notin Learning
      /\ replaced \subseteq Learning \X Learning
  BY LearningStoreAssumption DEF StoreInv, StoreTypeOK
<1>2. /\ \A k : Linked(k)' = Linked(k) /\ Linked(k) \subseteq Learning
      /\ \A k : Successors(k)' = Successors(k) /\ Replacements(k)' = Replacements(k)
  BY DEF Linked, Successors, Replacements
<1>3. \A k : LinkedByHand(k)' <=> LinkedByHand(k)
  BY <1>2 DEF LinkedByHand
<1>4. ASSUME NEW t, t \notin raced'
      PROVE  OnTopic(t)' \subseteq OnTopic(t) /\ Drafted(t)' \subseteq Drafted(t)
  <2>1. OnTopic(t)' \subseteq OnTopic(t)
    <3> SUFFICES ASSUME NEW k \in Learning, learning'[k].status = "active",
                        learning'[k].scope = "task", learning'[k].vector = t
                 PROVE  k \in OnTopic(t)
      BY DEF OnTopic
    <3>1. learning'[k].vector \notin raced'
      BY <1>4
    <3> QED
      BY <3>1 DEF OnTopic, Unsaid
  <2> QED
    BY <2>1 DEF Drafted, OnTopic
<1>5. Data'
  <2>1. DraftsSay'
    BY <1>1 DEF Data, DraftsSay
  <2>2. BornOnce'
    <3> SUFFICES ASSUME NEW d \in Draft \ raced'
                 PROVE  /\ (draft'[d].status = "confirmed") <=> (draft'[d].learning # None)
                        /\ \A k \in Learning : learning'[k].from = d =>
                             draft'[d].status = "confirmed" /\ draft'[d].learning = k
      BY DEF BornOnce
    <3> QED
      BY <1>1 DEF Data, BornOnce
  <2>3. EvidenceKept'
    <3> SUFFICES ASSUME NEW d \in Draft \ raced', draft'[d].status = "confirmed",
                        draft'[d].learning \notin raced'
                 PROVE  draft'[d].marks \subseteq learning'[draft'[d].learning].marks
      BY DEF EvidenceKept
    <3>1. draft'[d] = draft[d] /\ d \notin raced /\ draft[d].learning \in Learning
      BY <1>1 DEF Data, BornOnce, DraftRow
    <3>2. draft[d].marks \subseteq learning[draft[d].learning].marks
      BY <1>1, <3>1 DEF Data, EvidenceKept
    <3> QED
      BY <3>1, <3>2
  <2>4. VectorsKept'
    BY <1>1 DEF Data, VectorsKept, Unsaid
  <2>5. DeletedAreRaced'
    BY <1>1 DEF Data, DeletedAreRaced
  <2>6. ReplacedAreSuperseded' /\ OneReplacement'
    BY <1>1 DEF Data, ReplacedAreSuperseded, OneReplacement
  <2>7. ChainsAreLinear'
    BY <1>1, <1>2 DEF Data, ChainsAreLinear, ChainEnds
  <2>8. LessonsLinked'
    BY <1>1, <1>2, <1>3, <1>4 DEF Data, LessonsLinked
  <2>9. OneFlagPerLesson'
    <3> SUFFICES ASSUME NEW j \in Learning, j \notin raced', learning'[j].flagged,
                        learning'[j].status = "active"
                 PROVE  /\ learning'[j].scope \in {"task", "project"}
                        /\ \A k \in Group(learning', j) \ ({j} \cup raced') : ~learning'[k].flagged
      BY DEF OneFlagPerLesson
    <3>1. j \notin raced /\ learning'[j] = learning[j]
      OBVIOUS
    <3>2. \A k \in Group(learning', j) \ raced' :
            k \in Group(learning, j) /\ learning'[k] = learning[k]
      BY <3>1 DEF Group
    <3> QED
      BY <1>1, <3>1, <3>2 DEF Data, OneFlagPerLesson
  <2> QED
    BY <2>1, <2>2, <2>3, <2>4, <2>5, <2>6, <2>7, <2>8, <2>9 DEF Data
<1>6. ASSUME NEW q \in Request PROVE Seen(req[q])'
  <2>1. PICK h : h = req[q]
    OBVIOUS
  <2>2. h \in InHand /\ Seen(h) /\ Shape(h) /\ Shape(h)'
    BY <2>1 DEF StoreInv, StoreTypeOK, Seen, Shape
  <2>3. /\ h.learning \in Learning \cup {None} /\ h.other \in Learning \cup {None}
        /\ h.draft \in Draft \cup {None}
    BY <2>2 DEF InHand
  <2>4. SeenDraft(h)'
    BY <2>2, <2>3 DEF Seen, SeenDraft
  <2>5. SeenMatch(h)'
    BY <2>2, <2>3 DEF Seen, SeenMatch
  <2>6. SeenTopic(h)'
    <3>0. PICK s, p : s = h.draftRow.topic /\ p = h.other
      OBVIOUS
    <3> SUFFICES ASSUME h.step = "decide", s \notin raced'
                 PROVE  SeenTopic(h)'
      BY <3>0 DEF SeenTopic
    <3>3. /\ p # None => learning[p].vector = s
          /\ h.draftRow.scope = "task" /\ p = None => OnTopic(s) = {}
          /\ h.draftRow.scope = "task" /\ p # None =>
               \A k \in Drafted(s) : k \in Linked(p) \/ LinkedByHand(k) \/ LinkedByHand(p)
      BY <2>2, <3>0 DEF Seen, SeenTopic
    <3>4. p # None => learning'[p].vector = s
      BY <2>3, <3>0, <3>3 DEF Unsaid
    <3>5. h.draftRow.scope = "task" /\ p = None => OnTopic(s)' = {}
      BY <1>4, <3>3
    <3>6. h.draftRow.scope = "task" /\ p # None =>
             \A k \in Drafted(s)' : k \in Linked(p)' \/ LinkedByHand(k)' \/ LinkedByHand(p)'
      BY <1>2, <1>3, <1>4, <3>3
    <3> QED
      BY <3>0, <3>4, <3>5, <3>6 DEF SeenTopic
  <2>7. SeenOld(h)'
    <3> SUFFICES ASSUME h.op = "supersede" PROVE SeenOld(h)'
      BY DEF SeenOld
    <3>1. h.learning \in Learning /\ h.other \in Learning
      BY <2>2, <2>3 DEF Shape
    <3> QED
      BY <2>2, <3>1 DEF Seen, SeenOld
  <2>8. SeenFlag(h)'
    <3>1. h.op = "promote" => h.learning \in Learning
      BY <2>2, <2>3 DEF Shape
    <3> QED
      BY <2>2, <3>1 DEF Seen, SeenFlag
  <2>9. Seen(h)' /\ h = req'[q]
    BY <2>1, <2>2, <2>4, <2>5, <2>6, <2>7, <2>8 DEF Seen
  <2> QED
    BY <2>9 DEF Seen, Shape, SeenDraft, SeenMatch, SeenTopic, SeenOld, SeenFlag
<1>7. StoreTypeOK'
  BY <1>1 DEF StoreTypeOK
<1>8. HandsApart'
  BY <1>1 DEF HandsApart, Rows
<1> QED
  BY <1>5, <1>6, <1>7, <1>8 DEF StoreInv

LEMMA PatchInv ==
    ASSUME StoreInv, NEW l \in Learning, NEW said \in ByHand, patch_learnings(l, said)
    PROVE  StoreInv'
<1>1. /\ draft \in [Draft -> DraftRow] /\ learning \in [Learning -> LearningRow]
      /\ PointsAtRow
  BY DEF StoreInv, StoreTypeOK, Data
<1>2. PICK new : new = WrittenAs(learning[l], said)
  OBVIOUS
<1>3. /\ learning[l].status \notin NoRow /\ learning' = [learning EXCEPT ![l] = new]
      /\ raced' = raced \cup {l, said.topic, said.vector, learning[l].vector}
      /\ UNCHANGED <<draft, replaced, related, req>>
  BY <1>2 DEF patch_learnings
<1>4. /\ new \in LearningRow /\ new.status \notin NoRow /\ new.from = learning[l].from
      /\ new.topic = said.topic /\ new.vector = said.vector
  <2>1. learning[l] \in LearningRow
    BY <1>1
  <2>2. /\ said.vector \in Topic /\ said.topic \in Topic
        /\ said.marks \subseteq Mark /\ said.project \in Project \cup {None}
        /\ said.scope \in {"task", "project", "global", "other"}
        /\ said.status \in {"active", "superseded", "expired", "other"}
    BY LearningStoreAssumption
  <2> QED
    BY <1>2, <2>1, <2>2 DEF WrittenAs, LearningRow, NoRow
<1>5. /\ learning' \in [Learning -> LearningRow] /\ learning'[l] = new
      /\ \A k \in Learning \ {l} : learning'[k] = learning[k]
  BY <1>1, <1>3, <1>4
<1>6. \A k \in Learning :
             /\ k \notin raced' => learning'[k] = learning[k]
             /\ learning'[k].status = "none" <=> learning[k].status = "none"
             /\ learning'[k].from = learning[k].from
             /\ Unsaid(k)
  <2> SUFFICES ASSUME NEW k \in Learning
               PROVE  /\ k \notin raced' => learning'[k] = learning[k]
                      /\ learning'[k].status = "none" <=> learning[k].status = "none"
                      /\ learning'[k].from = learning[k].from
                      /\ Unsaid(k)
    OBVIOUS
  <2>1. CASE k = l
    BY <1>3, <1>4, <1>5, <2>1 DEF Unsaid, NoRow
  <2>2. CASE k # l
    BY <1>5, <2>2 DEF Unsaid
  <2> QED
    BY <2>1, <2>2
<1>7. PointsAtRow'
  BY <1>1, <1>3, <1>4, <1>5 DEF PointsAtRow, DraftRow
<1> QED
  BY <1>1, <1>3, <1>5, <1>6, <1>7, RowsRewritten

LEMMA DeleteInv ==
    ASSUME StoreInv, NEW l \in Learning, delete_learnings(l)
    PROVE  StoreInv'
<1>1. /\ draft \in [Draft -> DraftRow] /\ learning \in [Learning -> LearningRow]
      /\ PointsAtRow /\ None \notin Learning
  BY LearningStoreAssumption DEF StoreInv, StoreTypeOK, Data
<1>2. /\ learning[l].status \notin NoRow
      /\ learning' = [learning EXCEPT ![l].status = "deleted"]
      /\ raced' = raced \cup {l} \cup PointsAt(l)
      /\ UNCHANGED <<replaced, related, req>>
  BY DEF delete_learnings
<1>3. /\ draft' \in [Draft -> DraftRow]
      /\ \A d \in Draft :
           /\ d \notin PointsAt(l) => draft'[d] = draft[d]
           /\ draft'[d].status = draft[d].status /\ draft'[d].topic = draft[d].topic
           /\ draft'[d].learning # l
           /\ draft'[d].learning \in {draft[d].learning, None}
  <2>1. \A d \in Draft :
          draft'[d] = IF d \in PointsAt(l) THEN [draft[d] EXCEPT !.learning = None] ELSE draft[d]
    BY DEF delete_learnings
  <2>2. DOMAIN draft' = Draft /\ draft' = [d \in DOMAIN draft' |-> draft'[d]]
    BY DEF delete_learnings
  <2>3. ASSUME NEW d \in Draft
        PROVE  /\ draft'[d] \in DraftRow
               /\ d \notin PointsAt(l) => draft'[d] = draft[d]
               /\ draft'[d].status = draft[d].status /\ draft'[d].topic = draft[d].topic
               /\ draft'[d].learning # l
               /\ draft'[d].learning \in {draft[d].learning, None}
    <3>1. draft[d] \in DraftRow
      BY <1>1
    <3>2. CASE d \in PointsAt(l)
      <4>1. draft'[d] = [draft[d] EXCEPT !.learning = None]
        BY <2>1, <3>2
      <4> QED
        BY <1>1, <3>1, <3>2, <4>1 DEF DraftRow
    <3>3. CASE d \notin PointsAt(l)
      BY <2>1, <3>1, <3>3 DEF PointsAt
    <3> QED
      BY <3>2, <3>3
  <2> QED
    BY <2>2, <2>3
<1>4. /\ learning' \in [Learning -> LearningRow]
      /\ learning'[l].status = "deleted"
      /\ \A k \in Learning \ {l} : learning'[k] = learning[k]
      /\ \A k \in Learning :
           /\ learning'[k].topic = learning[k].topic /\ learning'[k].vector = learning[k].vector
           /\ learning'[k].scope = learning[k].scope /\ learning'[k].from = learning[k].from
  BY <1>1, <1>2 DEF LearningRow
<1>5. \A k \in Learning :
             /\ k \notin raced' => learning'[k] = learning[k]
             /\ learning'[k].status = "none" <=> learning[k].status = "none"
             /\ learning'[k].from = learning[k].from
             /\ Unsaid(k)
  BY <1>2, <1>4 DEF Unsaid, NoRow
<1>6. \A d \in Draft :
             /\ d \notin raced' => draft'[d] = draft[d]
             /\ draft'[d].status = "none" <=> draft[d].status = "none"
             /\ draft'[d].topic = draft[d].topic
  BY <1>2, <1>3
<1>7. PointsAtRow'
  <2> SUFFICES ASSUME NEW d \in Draft, draft'[d].learning # None
               PROVE  learning'[draft'[d].learning].status \notin NoRow
    BY DEF PointsAtRow
  <2>1. draft'[d].learning \in Learning \ {l} /\ draft'[d].learning = draft[d].learning
    BY <1>3 DEF DraftRow
  <2> QED
    BY <1>1, <1>4, <2>1 DEF PointsAtRow
<1> QED
  BY <1>2, <1>3, <1>4, <1>5, <1>6, <1>7, RowsRewritten

LEMMA DeleteTaskInv ==
    ASSUME StoreInv, NEW D \in SUBSET Draft, NEW L \in SUBSET Learning, delete_task(D, L)
    PROVE  StoreInv'
<1>1. /\ draft \in [Draft -> DraftRow] /\ learning \in [Learning -> LearningRow]
      /\ PointsAtRow /\ None \notin Learning
  BY LearningStoreAssumption DEF StoreInv, StoreTypeOK, Data
<1>2. /\ \A d \in D : draft[d].status \notin {"none", "deleted"}
      /\ raced' = raced \cup D \cup L
      /\ UNCHANGED <<replaced, related, req>>
  BY DEF delete_task
<1>3. /\ draft' \in [Draft -> DraftRow]
      /\ \A d \in Draft :
           /\ d \notin D => draft'[d] = draft[d]
           /\ draft'[d].status = "none" <=> draft[d].status = "none"
           /\ draft'[d].topic = draft[d].topic
           /\ draft'[d].learning \in {draft[d].learning, None}
  <2>1. \A d \in Draft :
          draft'[d] = IF d \in D THEN [draft[d] EXCEPT !.status = "deleted", !.learning = None]
                      ELSE draft[d]
    BY DEF delete_task
  <2>2. DOMAIN draft' = Draft /\ draft' = [d \in DOMAIN draft' |-> draft'[d]]
    BY DEF delete_task
  <2>3. ASSUME NEW d \in Draft
        PROVE  /\ draft'[d] \in DraftRow
               /\ d \notin D => draft'[d] = draft[d]
               /\ draft'[d].status = "none" <=> draft[d].status = "none"
               /\ draft'[d].topic = draft[d].topic
               /\ draft'[d].learning \in {draft[d].learning, None}
    <3>1. draft[d] \in DraftRow
      BY <1>1
    <3>2. CASE d \in D
      <4>1. draft'[d] = [draft[d] EXCEPT !.status = "deleted", !.learning = None]
        BY <2>1, <3>2
      <4> QED
        BY <1>2, <3>1, <3>2, <4>1 DEF DraftRow
    <3>3. CASE d \notin D
      BY <2>1, <3>1, <3>3
    <3> QED
      BY <3>2, <3>3
  <2> QED
    BY <2>2, <2>3
<1>4. /\ learning' \in [Learning -> LearningRow]
      /\ \A k \in Learning :
           /\ k \notin L => learning'[k] = learning[k]
           /\ learning'[k].status = learning[k].status
           /\ learning'[k].topic = learning[k].topic /\ learning'[k].vector = learning[k].vector
           /\ learning'[k].scope = learning[k].scope /\ learning'[k].from = learning[k].from
  <2>1. \A k \in Learning :
          learning'[k] = IF k \in L THEN [learning[k] EXCEPT !.project = None] ELSE learning[k]
    BY DEF delete_task
  <2>2. DOMAIN learning' = Learning /\ learning' = [k \in DOMAIN learning' |-> learning'[k]]
    BY DEF delete_task
  <2>3. ASSUME NEW k \in Learning
        PROVE  /\ learning'[k] \in LearningRow
               /\ k \notin L => learning'[k] = learning[k]
               /\ learning'[k].status = learning[k].status
               /\ learning'[k].topic = learning[k].topic
               /\ learning'[k].vector = learning[k].vector
               /\ learning'[k].scope = learning[k].scope
               /\ learning'[k].from = learning[k].from
    <3>1. learning[k] \in LearningRow
      BY <1>1
    <3>2. CASE k \in L
      <4>1. learning'[k] = [learning[k] EXCEPT !.project = None]
        BY <2>1, <3>2
      <4> QED
        BY <3>1, <3>2, <4>1 DEF LearningRow
    <3>3. CASE k \notin L
      BY <2>1, <3>1, <3>3
    <3> QED
      BY <3>2, <3>3
  <2> QED
    BY <2>2, <2>3
<1>5. \A k \in Learning :
             /\ k \notin raced' => learning'[k] = learning[k]
             /\ learning'[k].status = "none" <=> learning[k].status = "none"
             /\ learning'[k].from = learning[k].from
             /\ Unsaid(k)
  BY <1>2, <1>4 DEF Unsaid
<1>6. PointsAtRow'
  <2> SUFFICES ASSUME NEW d \in Draft, draft'[d].learning # None
               PROVE  learning'[draft'[d].learning].status \notin NoRow
    BY DEF PointsAtRow
  <2>1. draft'[d].learning \in Learning /\ draft'[d].learning = draft[d].learning
    BY <1>3 DEF DraftRow
  <2> QED
    BY <1>1, <1>4, <2>1 DEF PointsAtRow
<1> QED
  BY <1>2, <1>3, <1>4, <1>5, <1>6, RowsRewritten

(* A set of learnings none of which loses a link stays linked. *)
LEMMA LinkedUncut ==
    ASSUME StoreTypeOK, NEW links, related' = links, NEW x \in Learning,
           learning[x].vector \notin Cut(links)
    PROVE  Linked(x) \subseteq Linked(x)'
<1>1. \A p \in related \ links : Linked(x) \cap p = {}
  BY DEF Cut
<1> SUFFICES ASSUME NEW S \in SUBSET Learning, x \in S,
                    \A p \in links : p \cap S # {} => p \subseteq S,
                    NEW k \in Linked(x)
             PROVE  k \in S
  BY DEF Linked
<1> DEFINE C == S \cap Linked(x)
<1>2. ASSUME NEW p \in related, p \cap C # {} PROVE p \subseteq C
  <2>1. PICK y \in p : y \in S /\ y \in Linked(x)
    BY <1>2
  <2>2. p \in links
    BY <1>1, <2>1
  <2>3. p \subseteq S
    BY <2>1, <2>2
  <2>4. p \subseteq Linked(x)
    <3>0. p \subseteq Learning
      BY DEF StoreTypeOK
    <3> SUFFICES ASSUME NEW z \in p, NEW T \in SUBSET Learning, x \in T,
                        \A q \in related : q \cap T # {} => q \subseteq T
                 PROVE  z \in T
      BY <3>0 DEF Linked
    <3>1. y \in T
      BY <2>1 DEF Linked
    <3> QED
      BY <2>1, <3>1
  <2> QED
    BY <2>3, <2>4
<1>3. x \in C /\ C \in SUBSET Learning
  BY LinkedClosed
<1> HIDE DEF C
<1>4. k \in C
  BY <1>2, <1>3 DEF Linked
<1> QED
  BY <1>4 DEF C

(* Edges that come and go: what they replace is raced for, and so is the     *)
(* topic of whatever loses a link.                                          *)
LEMMA EdgesInv ==
    ASSUME StoreInv, NEW edges, edges \subseteq Learning \X Learning,
           NEW links, links \subseteq SUBSET Learning, EdgesBecome(edges, links)
    PROVE  StoreInv'
<1>1. /\ StoreTypeOK /\ Data /\ HandsApart /\ learning \in [Learning -> LearningRow]
      /\ replaced \subseteq Learning \X Learning /\ None \notin Learning
  BY LearningStoreAssumption DEF StoreInv, StoreTypeOK
<1>2. /\ replaced' = edges /\ related' = links
      /\ raced' = raced \cup Turned(edges) \cup Cut(links)
      /\ UNCHANGED <<draft, learning, req>>
  BY DEF EdgesBecome
<1>3. /\ \A n, l \in Learning : l \notin raced' => (<<n, l>> \in edges <=> <<n, l>> \in replaced)
      /\ \A edge \in edges : edge[2] \notin raced' => edge \in replaced
  BY <1>2 DEF Turned
<1>4. \A x \in Learning : learning[x].vector \notin raced' =>
        Linked(x) \subseteq Linked(x)' /\ (LinkedByHand(x) => LinkedByHand(x)')
  <2> SUFFICES ASSUME NEW x \in Learning, learning[x].vector \notin raced'
               PROVE  Linked(x) \subseteq Linked(x)' /\ (LinkedByHand(x) => LinkedByHand(x)')
    OBVIOUS
  <2>1. Linked(x) \subseteq Linked(x)'
    BY <1>1, <1>2, LinkedUncut
  <2> QED
    BY <1>2, <2>1 DEF LinkedByHand
<1>5. \A t : OnTopic(t)' = OnTopic(t) /\ Drafted(t)' = Drafted(t)
  BY <1>2 DEF OnTopic, Drafted
<1>6. \A t : \A k \in Drafted(t) : k \in Learning /\ learning[k].vector = t
  BY DEF Drafted, OnTopic
<1>7. ASSUME NEW l \in Learning, Successors(l)' \cap raced' = {}
      PROVE  l \notin raced' /\ Successors(l) \subseteq Successors(l)'
  <2>0. StoreTypeOK'
    BY <1>1, <1>2 DEF StoreTypeOK
  <2>1. l \in Successors(l)' /\ Successors(l)' \subseteq Learning
    BY <2>0, SuccessorLawsNext DEF Successors
  <2>2. ASSUME NEW edge \in replaced, edge[2] \in Successors(l)' PROVE edge[1] \in Successors(l)'
    <3>1. PICK n \in Learning, k \in Learning : edge = <<n, k>>
      BY <1>1
    <3>2. <<n, k>> \in replaced'
      BY <1>2, <1>3, <1>7, <2>2, <3>1
    <3>3. n \in Successors(l)'
      BY <2>0, <2>2, <3>1, <3>2, SuccessorLawsNext
    <3> QED
      BY <3>1, <3>3
  <2> DEFINE C == Successors(l)'
  <2>3. C \in SUBSET Learning /\ l \in C /\ \A edge \in replaced : edge[2] \in C => edge[1] \in C
    BY <2>1, <2>2
  <2>4. Successors(l) \subseteq C
    <3> HIDE DEF C
    <3> QED
      BY <2>3 DEF Successors
  <2> QED
    BY <1>7, <2>1, <2>4
<1>8. Data'
  <2>1. /\ DraftsSay' /\ BornOnce' /\ PointsAtRow' /\ EvidenceKept' /\ VectorsKept'
        /\ DeletedAreRaced'
    BY <1>1, <1>2 DEF Data, DraftsSay, BornOnce, PointsAtRow, EvidenceKept, VectorsKept,
                      DeletedAreRaced
  <2>2. ReplacedAreSuperseded' /\ OneReplacement'
    BY <1>1, <1>2, <1>3 DEF Data, ReplacedAreSuperseded, OneReplacement
  <2>3. ChainsAreLinear'
    <3> SUFFICES ASSUME NEW edge \in edges, Successors(edge[2])' \cap raced' = {}
                 PROVE  ChainEnds(edge[2])'
      BY <1>2 DEF ChainsAreLinear
    <3>1. PICK l \in Learning : l = edge[2]
      OBVIOUS
    <3>2. Successors(l)' \cap raced' = {}
      BY <3>1
    <3>3. l \notin raced' /\ Successors(l) \subseteq Successors(l)'
      BY <1>7, <3>2
    <3>4. edge \in replaced
      BY <1>3, <3>1, <3>3
    <3>5. Successors(l) \cap raced = {}
      BY <1>2, <3>2, <3>3
    <3>6. ChainEnds(l)
      BY <1>1, <3>1, <3>4, <3>5 DEF Data, ChainsAreLinear
    <3>7. \A k \in Learning : k \notin raced' => Replacements(k)' = Replacements(k)
      BY <1>2, <1>3 DEF Replacements
    <3>8. PICK n \in Learning, k \in Successors(l) : Replacements(l) = {n} /\ Replacements(k) = {}
      BY <3>6 DEF ChainEnds
    <3>9. k \in Learning /\ k \in Successors(l)' /\ k \notin raced'
      BY <3>2, <3>3, <3>8 DEF Successors
    <3>10. Replacements(l)' = {n} /\ Replacements(k)' = {}
      BY <3>3, <3>7, <3>8, <3>9
    <3>11. ChainEnds(l)'
      BY <3>9, <3>10 DEF ChainEnds
    <3> QED
      BY <3>1, <3>11 DEF ChainEnds
  <2>4. LessonsLinked'
    <3> SUFFICES ASSUME NEW t \in (Topic \cup {None}) \ raced', NEW k \in Drafted(t),
                        NEW j \in Drafted(t), k # j
                 PROVE  k \in Linked(j)' \/ LinkedByHand(k)' \/ LinkedByHand(j)'
      BY <1>5 DEF LessonsLinked
    <3>1. k \in Linked(j) \/ LinkedByHand(k) \/ LinkedByHand(j)
      BY <1>1, <1>2 DEF Data, LessonsLinked
    <3> QED
      BY <1>4, <1>6, <3>1
  <2>5. OneFlagPerLesson'
    <3>1. \A l : Group(learning, l)' = Group(learning, l)
      BY <1>2 DEF Group
    <3> QED
      BY <1>1, <1>2, <3>1 DEF Data, OneFlagPerLesson
  <2> QED
    BY <2>1, <2>2, <2>3, <2>4, <2>5 DEF Data
<1>9. ASSUME NEW q \in Request PROVE Seen(req[q])'
  <2>1. PICK h : h = req[q]
    OBVIOUS
  <2>2. h \in InHand /\ Seen(h) /\ h.learning \in Learning \cup {None} /\ h.other \in Learning \cup {None}
    BY <2>1 DEF StoreInv, StoreTypeOK, InHand
  <2>3. Shape(h)' /\ SeenDraft(h)' /\ SeenMatch(h)' /\ SeenFlag(h)'
    BY <1>2, <2>2 DEF Seen, Shape, SeenDraft, SeenMatch, SeenFlag
  <2>4. SeenTopic(h)'
    <3>0. PICK s, p : s = h.draftRow.topic /\ p = h.other
      OBVIOUS
    <3> SUFFICES ASSUME h.step = "decide", s \notin raced'
                 PROVE  SeenTopic(h)'
      BY <3>0 DEF SeenTopic
    <3>1. /\ p # None => learning[p].vector = s
          /\ h.draftRow.scope = "task" /\ p = None => OnTopic(s) = {}
          /\ h.draftRow.scope = "task" /\ p # None =>
               \A k \in Drafted(s) : k \in Linked(p) \/ LinkedByHand(k) \/ LinkedByHand(p)
      BY <1>2, <2>2, <3>0 DEF Seen, SeenTopic
    <3>2. p # None => learning'[p].vector = s
      BY <1>2, <3>1
    <3>3. h.draftRow.scope = "task" /\ p = None => OnTopic(s)' = {}
      BY <1>5, <3>1
    <3>4. h.draftRow.scope = "task" /\ p # None =>
             \A k \in Drafted(s)' : k \in Linked(p)' \/ LinkedByHand(k)' \/ LinkedByHand(p)'
      BY <1>4, <1>5, <1>6, <2>2, <3>0, <3>1
    <3> QED
      BY <3>0, <3>2, <3>3, <3>4 DEF SeenTopic
  <2>5. SeenOld(h)'
    <3> SUFFICES ASSUME h.op = "supersede" PROVE SeenOld(h)'
      BY DEF SeenOld
    <3>1. h.learning \in Learning
      BY <2>2 DEF Seen, Shape
    <3> QED
      BY <1>2, <1>3, <2>2, <3>1 DEF Seen, SeenOld
  <2>6. Seen(h)' /\ h = req'[q]
    BY <1>2, <2>1, <2>3, <2>4, <2>5 DEF Seen
  <2> QED
    BY <2>6 DEF Seen, Shape, SeenDraft, SeenMatch, SeenTopic, SeenOld, SeenFlag
<1>10. StoreTypeOK'
  BY <1>1, <1>2 DEF StoreTypeOK
<1>11. HandsApart'
  BY <1>1, <1>2 DEF HandsApart, Rows
<1> QED
  BY <1>8, <1>9, <1>10, <1>11 DEF StoreInv

LEMMA EdgeRoutesInv ==
    ASSUME StoreInv, create_edges \/ patch_edges \/ delete_edges
    PROVE  StoreInv'
<1> DEFINE Edges(both) == both[1] \subseteq Learning \X Learning /\ both[2] \subseteq SUBSET Learning
<1>1. \A both \in OneLess : Edges(both)
  BY DEF StoreInv, StoreTypeOK, OneLess
<1>2. ASSUME NEW edges, NEW links, edges \subseteq Learning \X Learning,
             links \subseteq SUBSET Learning, NEW both \in OneMore(edges, links)
      PROVE  Edges(both)
  BY <1>2 DEF OneMore
<1>3. \E both : Edges(both) /\ EdgesBecome(both[1], both[2])
  <2>1. CASE create_edges
    <3>1. replaced \subseteq Learning \X Learning /\ related \subseteq SUBSET Learning
      BY DEF StoreInv, StoreTypeOK
    <3>2. PICK both \in OneMore(replaced, related) : EdgesBecome(both[1], both[2])
      BY <2>1 DEF create_edges
    <3>3. Edges(both)
      BY <1>2, <3>1
    <3> QED
      BY <3>2, <3>3
  <2>2. CASE patch_edges
    <3>1. PICK less \in OneLess :
            \E both \in OneMore(less[1], less[2]) : EdgesBecome(both[1], both[2])
      BY <2>2 DEF patch_edges
    <3>2. PICK both \in OneMore(less[1], less[2]) : EdgesBecome(both[1], both[2])
      BY <3>1
    <3>3. Edges(both)
      BY <1>1, <1>2
    <3> QED
      BY <3>2, <3>3
  <2>3. CASE delete_edges
    BY <1>1, <2>3 DEF delete_edges
  <2> QED
    BY <2>1, <2>2, <2>3
<1> QED
  BY <1>3, EdgesInv

-----------------------------------------------------------------------------
LEMMA StoreInit == Init => StoreInv
<1> SUFFICES ASSUME Init PROVE StoreInv
  OBVIOUS
<1>1. /\ draft \in [Draft -> DraftRow] /\ learning \in [Learning -> LearningRow]
      /\ req \in [Request -> InHand]
      /\ \A d \in Draft : draft[d] = NoDraft
      /\ \A l \in Learning : learning[l] = NoLearning
      /\ \A r \in Request : req[r] = Idle
      /\ replaced = {} /\ related = {} /\ raced = {}
  BY IdleInHand DEF Init
<1>2. StoreTypeOK
  BY <1>1 DEF StoreTypeOK
<1>3. HandsApart
  <2>1. Rows(Idle) = {None}
    BY IdleInHand DEF Rows
  <2> QED
    BY <1>1, <2>1 DEF HandsApart
<1>4. \A r \in Request : Seen(req[r])
  BY <1>1, IdleInHand
<1>5. /\ NoDraft.status = "none" /\ NoDraft.learning = None
      /\ NoLearning.status = "none" /\ NoLearning.from = None /\ ~NoLearning.flagged
  BY DEF NoDraft, NoLearning
<1>6. Data
  <2>1. \A d \in Draft : d # None
    BY LearningStoreAssumption
  <2>2. /\ DraftsSay /\ BornOnce /\ PointsAtRow /\ EvidenceKept
        /\ VectorsKept /\ DeletedAreRaced
    BY <1>1, <1>5, <2>1 DEF DraftsSay, BornOnce, PointsAtRow, EvidenceKept, VectorsKept,
                            DeletedAreRaced
  <2>3. ReplacedAreSuperseded /\ OneReplacement /\ ChainsAreLinear
    BY <1>1 DEF ReplacedAreSuperseded, OneReplacement, ChainsAreLinear
  <2>4. \A t : Drafted(t) = {}
    BY <1>1, <1>5 DEF Drafted, OnTopic
  <2>5. LessonsLinked
    BY <2>4 DEF LessonsLinked
  <2>6. OneFlagPerLesson
    BY <1>1, <1>5 DEF OneFlagPerLesson
  <2> QED
    BY <2>2, <2>3, <2>5, <2>6 DEF Data
<1> QED
  BY <1>2, <1>3, <1>4, <1>6 DEF StoreInv

LEMMA StoreStep == StoreInv /\ [Next]_vars => StoreInv'
<1> SUFFICES ASSUME StoreInv, [Next]_vars PROVE StoreInv'
  OBVIOUS
<1>1. CASE \E d \in Draft : persist_learning_drafts(d)
  BY <1>1, PersistInv
<1>2. CASE \E said \in ByHand : submit_task_learning(said)
  BY <1>2, SubmitInv
<1>3. CASE \E r \in Reviewer : Review(r)
  <2>1. PICK r \in Request : Review(r)
    BY <1>3 DEF Request
  <2>2. CASE \E d \in Draft : \/ edit_learning_draft(r, d) \/ reject_learning_draft(r, d)
                              \/ confirm_learning_draft(r, d)
    BY <2>2, LoadInv
  <2>3. CASE reject(r) \/ \E patch \in Edits : edit(r, patch)
    BY <2>3, ReviewInv
  <2>4. CASE suggest(r)
    BY <2>4, LookInv
  <2>5. CASE merge_into_existing(r)
    BY <2>5, MergeInv
  <2>6. CASE create_learning_record(r)
    BY <2>6, CreateInv
  <2> QED
    BY <2>1, <2>2, <2>3, <2>4, <2>5, <2>6 DEF Review
<1>4. CASE \E r \in Curator : Curate(r)
  <2>1. PICK r \in Request : Curate(r)
    BY <1>4 DEF Request
  <2>2. CASE \E l \in Learning : promote_learning(r, l)
    BY <2>2, LoadInv
  <2>3. CASE \E old, new \in Learning : supersede_learning(r, old, new)
    BY <2>3, LoadInv
  <2>4. CASE \E target \in {"project", "global"} : promote(r, target)
    BY <2>4, PromoteInv
  <2>5. CASE refuse_promotion(r) \/ refuse_supersede(r)
    BY <2>5, AnswerInv DEF refuse_promotion, refuse_supersede
  <2>6. CASE ensure_unique_replacement(r)
    BY <2>6, LookInv
  <2>7. CASE supersede(r)
    BY <2>7, SupersedeInv
  <2> QED
    BY <2>1, <2>2, <2>3, <2>4, <2>5, <2>6, <2>7 DEF Curate
<1>5. CASE \E r \in Request : fail(r)
  BY <1>5, AnswerInv DEF fail
<1>6. CASE Generic
  <2>1. CASE \E l \in Learning, said \in ByHand : create_learnings(l, said)
    BY <2>1, SubmitInv
  <2>2. CASE \E l \in Learning, said \in ByHand : patch_learnings(l, said)
    BY <2>2, PatchInv
  <2>3. CASE \E l \in Learning : delete_learnings(l)
    BY <2>3, DeleteInv
  <2>4. CASE \E D \in SUBSET Draft, L \in SUBSET Learning : delete_task(D, L)
    BY <2>4, DeleteTaskInv
  <2>5. CASE create_edges \/ patch_edges \/ delete_edges
    BY <2>5, EdgeRoutesInv
  <2> QED
    BY <1>6, <2>1, <2>2, <2>3, <2>4, <2>5 DEF Generic
<1>7. CASE UNCHANGED vars
  <2>1. UNCHANGED <<draft, learning, replaced, related, req, raced>>
    BY <1>7 DEF vars
  <2>2. StoreTypeOK' /\ HandsApart'
    BY <2>1 DEF StoreInv, StoreTypeOK, HandsApart, Rows
  <2>3. Data' /\ \A c \in InHand : Seen(c) => Seen(c)'
    BY <2>1, SameRows DEF StoreInv
  <2>4. ASSUME NEW r \in Request PROVE Seen(req[r])'
    <3>1. PICK h : h = req[r]
      OBVIOUS
    <3>2. h \in InHand /\ Seen(h)
      BY <3>1 DEF StoreInv, StoreTypeOK
    <3>3. Seen(h)' /\ h = req'[r]
      BY <2>1, <2>3, <3>1, <3>2
    <3> QED
      BY <3>3 DEF Seen, Shape, SeenDraft, SeenMatch, SeenTopic, SeenOld, SeenFlag
  <2> QED
    BY <2>2, <2>3, <2>4 DEF StoreInv
<1> QED
  BY <1>1, <1>2, <1>3, <1>4, <1>5, <1>6, <1>7 DEF Next, Ledger

(* The inductive invariant: besides the rows it says what every request in   *)
(* flight still knows of what it read, unless another has had it in hand.   *)
THEOREM StoreInvariant == Spec => []StoreInv
BY StoreInit, StoreStep, PTL DEF Spec

-----------------------------------------------------------------------------
(* A draft no two reviewers had in hand at once becomes at most one learning, *)
(* and is confirmed exactly when it points at it (confirm_learning_draft).  *)
THEOREM DraftsBecomeOne == Spec => []OncePerDraft
<1>1. StoreInv => OncePerDraft
  <2> SUFFICES ASSUME StoreInv, NEW d \in Draft \ raced
               PROVE  /\ (draft[d].status = "confirmed") <=> (draft[d].learning # None)
                      /\ {l \in Learning : learning[l].from = d} # {} =>
                           {l \in Learning : learning[l].from = d} = {draft[d].learning}
    BY DEF OncePerDraft
  <2>1. /\ (draft[d].status = "confirmed") <=> (draft[d].learning # None)
        /\ \A l \in Learning : learning[l].from = d =>
             draft[d].status = "confirmed" /\ draft[d].learning = l
    BY DEF StoreInv, Data, BornOnce
  <2> QED
    BY <2>1
<1> QED
  BY <1>1, StoreInvariant, PTL

(* Evidence of a confirmed draft is in the learning it was merged into, for  *)
(* any number of merges into the same learning (merge_into_existing).       *)
THEOREM NoEvidenceLost == Spec => []EvidenceKept
<1>1. StoreInv => EvidenceKept
  BY DEF StoreInv, Data
<1> QED
  BY <1>1, StoreInvariant, PTL

(* Whoever follows replacements meets one at a time and comes to an end, for *)
(* chains of any length (supersede_learning, ensure_unique_replacement).    *)
THEOREM ReplacementsEnd == Spec => []ChainsEnd
<1>1. StoreInv => ChainsEnd
  <2> SUFFICES ASSUME StoreInv, NEW edge \in replaced, Successors(edge[2]) \cap raced = {}
               PROVE  /\ Cardinality(Replacements(edge[2])) = 1
                      /\ learning[edge[2]].status = "superseded"
                      /\ \E k \in Successors(edge[2]) : Replacements(k) = {}
    BY DEF ChainsEnd
  <2>0. edge[2] \in Learning /\ edge[2] \in Successors(edge[2])
    BY DEF StoreInv, StoreTypeOK, Successors
  <2>1. learning[edge[2]].status = "superseded" /\ ChainEnds(edge[2])
    BY <2>0 DEF StoreInv, Data, ReplacedAreSuperseded, ChainsAreLinear
  <2>2. Cardinality(Replacements(edge[2])) = 1
    BY <2>1, FS_Singleton DEF ChainEnds
  <2> QED
    BY <2>1, <2>2 DEF ChainEnds
<1> QED
  BY <1>1, StoreInvariant, PTL

(* Task learnings from drafts that say the same are linked, however many     *)
(* there are, unless two were decided on at once (suggest,                  *)
(* create_learning_record).                                                 *)
THEOREM DuplicatesAreLinked == Spec => []NoSilentDuplicate
<1>1. StoreInv => NoSilentDuplicate
  <2> SUFFICES ASSUME StoreInv,
                      NEW k \in Learning, learning[k].status = "active", learning[k].scope = "task",
                      learning[k].from # None, learning[k].topic \notin raced,
                      NEW l \in Learning, learning[l].status = "active", learning[l].scope = "task",
                      learning[l].from # None,
                      k < l, learning[k].topic = learning[l].topic
               PROVE  k \in Linked(l) \/ LinkedByHand(k) \/ LinkedByHand(l)
    BY DEF NoSilentDuplicate
  <2>1. PICK t : t = learning[k].topic
    OBVIOUS
  <2>2. k \in Drafted(t) /\ l \in Drafted(t) /\ t \in (Topic \cup {None}) \ raced
    BY <2>1 DEF Drafted, OnTopic, StoreInv, StoreTypeOK, LearningRow, Data, VectorsKept
  <2>3. k # l
    <3>1. k \in Nat
      BY FS_CardinalityType, LearningStoreAssumption
    <3> QED
      BY <3>1
  <2> QED
    BY <2>2, <2>3 DEF StoreInv, Data, LessonsLinked
<1> QED
  BY <1>1, StoreInvariant, PTL

(* One learning at most is flagged for promotion of those that stand for one *)
(* lesson, and none that is global (promote_learning,                       *)
(* auto_promote_candidates).                                                *)
THEOREM OneFlag == Spec => []OneFlagPerLesson
<1>1. StoreInv => OneFlagPerLesson
  BY DEF StoreInv, Data
<1> QED
  BY <1>1, StoreInvariant, PTL
===============================================================================
