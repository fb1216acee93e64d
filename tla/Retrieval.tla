------------------------------ MODULE Retrieval ------------------------------
(***************************************************************************)
(* Which learnings a packet or a search shows: retrieval/,                 *)
(* learnings/ranker.py and the search of routers/learnings.py.  Learnings  *)
(* are numbered in the order of their creation.  Texts are abstracted to   *)
(* their tokens and to the scores the database and the embeddings give;    *)
(* real-valued scores are whole numbers, percentages of ratios.            *)
(***************************************************************************)
EXTENDS Listed, FiniteSetsExt

CONSTANTS
    Weight,              \* Weight[f]: weight of feature f in LearningRankerConfig
    Bonus,               \* Bonus[s]: what the scope of a learning adds
    VectorLimit,         \* vector_candidate_limit
    ProjectOnly,         \* vector_project_scope_only
    Libraries,           \* the learnings there may be, as sequences
    Targets,             \* the tasks one may ask for
    Alike,               \* which learnings may be near duplicates
    ScopesAsked,         \* the scopes of a retrieval or a search
    TextsAsked,         \* the scopes of a search of the learnings
    Limits               \* how many learnings a question may ask for

Layer == DOMAIN Bonus
Tier == {"fts", "trgm", "vector", "text"}

IsLearning(l) ==
    /\ l.layer \in Layer /\ l.match \in [Tier -> Int]
    /\ l.similarity \in Int /\ l.recency \in Int /\ l.lexical \in Int
    /\ IsFiniteSet(l.scope) /\ IsFiniteSet(l.decisions)
    /\ IsFiniteSet(l.dependencies) /\ IsFiniteSet(l.tooling)

ASSUME ScoresAreNumbers ==
    /\ VectorLimit \in Nat
    /\ \A s \in Layer : Bonus[s] \in Int
    /\ \A f \in DOMAIN Weight : Weight[f] \in Int
    /\ {"task_type_match", "project_match", "repo_scope_overlap", "linked_decision_overlap",
        "shared_dependency_overlap", "tooling_overlap", "text_similarity", "recency",
        "scope_bonus"} \subseteq DOMAIN Weight

ASSUME QuestionsAreTyped ==
    /\ Limits \subseteq Nat
    /\ \A library \in Libraries :
         /\ Len(library) \in Nat /\ DOMAIN library = 1..Len(library)
         /\ \A i \in DOMAIN library : IsLearning(library[i])
    /\ \A t \in Targets : /\ IsFiniteSet(t.scope) /\ IsFiniteSet(t.decisions)
                           /\ IsFiniteSet(t.dependencies) /\ IsFiniteSet(t.tooling)

VARIABLES
    learning,   \* the learnings: what the tiers read of each, and its score in a tier
    target,     \* the task asked for: type, project, tokens, surface area
    near,       \* pairs of learnings too similar to show both first
    answer      \* the last question and its answer, {} before

retrievalVars == <<learning, target, near, answer>>

Id == DOMAIN learning

-----------------------------------------------------------------------------
(* learnings/ranker.py *)

jaccard(s, t) == IF s = {} \/ t = {} THEN 0
                 ELSE (100 * Cardinality(s \cap t)) \div Cardinality(s \cup t)

(* A learning without a source task has no type and no project. *)
Features(i) ==
    LET l == learning[i] IN
    [task_type_match |-> IF target.type \in l.type THEN 100 ELSE 0,
     project_match |-> IF target.project \in l.project THEN 100 ELSE 0,
     repo_scope_overlap |-> jaccard(target.scope, l.scope),
     linked_decision_overlap |-> jaccard(target.decisions, l.decisions),
     shared_dependency_overlap |-> jaccard(target.dependencies, l.dependencies),
     tooling_overlap |-> jaccard(target.tooling, l.tooling),
     text_similarity |-> l.similarity,
     recency |-> l.recency,
     scope_bonus |-> Bonus[l.layer]]

score_candidate(i) ==
    LET f == Features(i) IN
    Weight["task_type_match"] * f.task_type_match + Weight["project_match"] * f.project_match
      + Weight["repo_scope_overlap"] * f.repo_scope_overlap
      + Weight["linked_decision_overlap"] * f.linked_decision_overlap
      + Weight["shared_dependency_overlap"] * f.shared_dependency_overlap
      + Weight["tooling_overlap"] * f.tooling_overlap + Weight["text_similarity"] * f.text_similarity
      + Weight["recency"] * f.recency + Weight["scope_bonus"] * f.scope_bonus

Active == {i \in Id : learning[i].active}

Better(i, j) == score_candidate(i) > score_candidate(j)
                  \/ (score_candidate(i) = score_candidate(j) /\ i < j)

(* _select_diverse_candidates: near duplicates of what is already selected  *)
(* are put off, and fill up the places that remain.                         *)
diverse(ranked, k) ==
    LET selects[n \in DOMAIN ranked] ==
          LET selected == {m \in 1..(n - 1) : selects[m]} IN
          Cardinality(selected) < k /\ \A m \in selected : {ranked[n], ranked[m]} \notin near IN
    {n \in DOMAIN ranked : selects[n]}

select_diverse(ranked, k) ==
    LET selected == diverse(ranked, k) IN
    At(ranked, selected) \o Take(At(ranked, DOMAIN ranked \ selected), k - Cardinality(selected))

rank_learnings_for_task(k) ==
    select_diverse(Ordered([i \in Active |-> {j \in Active : Better(j, i)}]), k)

-----------------------------------------------------------------------------
(* The tiers.  A candidate carries the similarity of the tier it came from. *)

Plain(ids) == [k \in DOMAIN ids |-> [id |-> ids[k], similarity |-> 0]]
Ids(candidates) == {candidates[k].id : k \in DOMAIN candidates}

surface_candidates(pool, surface) ==
    IF surface = {} THEN pool ELSE {i \in pool : learning[i].surface \cap surface # {}}

Fits(i, filter) ==
    LET l == learning[i] IN
    /\ filter.layers = {} \/ l.layer \in filter.layers
    /\ filter.owners = {} \/ l.owner \in filter.owners
    /\ filter.learning_types = {} \/ l.learning_type \in filter.learning_types
    /\ \A n \in filter.max_age : l.age <= n

(* Ranked over all active learnings, so that diversity drops no one. *)
graph_rank(pool) == Only(rank_learnings_for_task(Cardinality(Active)), pool)

vector_pool(pool, project) ==
    IF ~ProjectOnly \/ project = {} THEN pool
    ELSE {i \in pool : learning[i].project \cap project # {}}

(* fts, trgm and vector: the best matches among those not found before. *)
tier_candidates(tier, pool, exclude, limit) ==
    LET matches == {i \in pool \ exclude : learning[i].match[tier] > 0}
        score(i) == learning[i].match[tier]
        ahead(i) == {j \in matches : score(j) > score(i) \/ (score(j) = score(i) /\ j < i)}
        best == Take(Ordered([i \in matches |-> ahead(i)]), limit) IN
    [k \in DOMAIN best |-> [id |-> best[k], similarity |-> score(best[k])]]

(* One candidate for each learning, the more similar, in its first place. *)
merge_candidates(lhs, rhs) ==
    LET all == lhs \o rhs
        same(n) == {m \in DOMAIN all : all[m].id = all[n].id}
        best == [n \in DOMAIN all |->
                   [id |-> all[n].id, similarity |-> Max({all[m].similarity : m \in same(n)})]] IN
    At(best, {n \in DOMAIN all : \A m \in same(n) : n <= m})

(* By words and recency, then by the similarity that found it. *)
rerank_candidates(candidates, limit) ==
    LET all == ToSet(candidates)
        score(c) == learning[c.id].lexical + learning[c.id].recency
        before(d, c) ==
          \/ score(d) > score(c)
          \/ score(d) = score(c) /\ d.similarity > c.similarity
          \/ score(d) = score(c) /\ d.similarity = c.similarity /\ d.id < c.id
        ahead(c) == {d \in all : before(d, c)} IN
    Take(Ordered([c \in all |-> ahead(c)]), limit)

(* As many as the configuration allows, whatever is missing. *)
cold_limit_whole(found, k) == VectorLimit

(* _cold_candidates: what is still missing is looked for in three tiers. *)
cold_limit(found, k) ==
    LET missing == IF k - Len(found) > 1 THEN k - Len(found) ELSE 1 IN
    IF VectorLimit < missing THEN VectorLimit ELSE missing

More(limit, found) == IF limit > Len(found) THEN limit - Len(found) ELSE 0

cold_candidates(found, scope, k) ==
    LET limit == cold_limit(found, k)
        pool == {i \in vector_pool(Active, scope.project) : Fits(i, scope)}
        fts == tier_candidates("fts", pool, Ids(found), limit)
        trgm == tier_candidates("trgm", pool, Ids(found) \cup Ids(fts), More(limit, fts))
        words == merge_candidates(fts, trgm)
        vector == tier_candidates("vector", pool, Ids(found) \cup Ids(words), More(limit, words)) IN
    merge_candidates(words, vector)

-----------------------------------------------------------------------------
(* RetrievalScope.with_defaults: what the question leaves open is the task's. *)
with_defaults(scope) ==
    [scope EXCEPT !.surface = IF @ = {} THEN target.surface ELSE @,
                  !.project = IF @ = {} THEN {target.project} ELSE @]

(* RetrievalService.retrieve: the learnings of the task's surface area in   *)
(* rank order; with the fuzzy search, and room left, the cold tiers' too.   *)
Hot(scope) == Only(graph_rank(surface_candidates(Active, scope.surface)), {i \in Id : Fits(i, scope)})

retrieve(k, fuzzy, asked) ==
    LET scope == with_defaults(asked)
        found == Plain(Take(Hot(scope), k))
        cold == IF fuzzy /\ Len(found) < k THEN cold_candidates(found, scope, k) ELSE <<>>
        items == IF cold = <<>> THEN found
                 ELSE rerank_candidates(merge_candidates(found, cold), k) IN
    /\ answer = {}
    /\ answer' = {[of |-> "retrieve", k |-> k, fuzzy |-> fuzzy, scope |-> scope, items |-> items]}
    /\ UNCHANGED <<learning, target, near>>

(* RetrievalService.search, by text: full text first, then, if there is     *)
(* room, trigrams and embeddings.                                           *)
Scoped(scope) ==
    LET pool == {i \in Active : scope.project = {} \/ learning[i].project \cap scope.project # {}} IN
    {i \in surface_candidates(pool, scope.surface) : Fits(i, scope)}

search(k, fuzzy, scope) ==
    LET pool == Scoped(scope)
        fts == tier_candidates("fts", pool, {}, k)
        trgm == IF fuzzy THEN tier_candidates("trgm", pool, Ids(fts), More(k, fts)) ELSE <<>>
        words == merge_candidates(fts, trgm)
        vector == IF fuzzy /\ More(k, fts) > 0
                    THEN tier_candidates("vector", vector_pool(pool, scope.project), Ids(words), More(k, words))
                    ELSE <<>> IN
    /\ answer = {}
    /\ answer' = {[of |-> "search", k |-> k, fuzzy |-> fuzzy, scope |-> scope,
                   items |-> Take(merge_candidates(words, vector), k)]}
    /\ UNCHANGED <<learning, target, near>>

(* POST /v1/learnings/search: newest first, what the text and the task the  *)
(* learning came from satisfy, up to the limit.                             *)
Said(i, scope) ==
    LET l == learning[i] IN
    /\ scope.project = {} \/ l.project \cap scope.project # {}
    /\ scope.task_type = {} \/ l.type \cap scope.task_type # {}
    /\ scope.repo_scope \subseteq l.scope
    /\ l.match["text"] > 0

invoke_search_learnings(k, scope) ==
    LET rows == Ordered([i \in Active |-> {j \in Active : j > i}]) IN
    /\ answer = {}
    /\ answer' = {[of |-> "learnings", k |-> k, fuzzy |-> FALSE, scope |-> scope,
                   items |-> Plain(Take(Only(rows, {i \in Id : Said(i, scope)}), k))]}
    /\ UNCHANGED <<learning, target, near>>

RetrievalInit ==
    /\ learning \in Libraries
    /\ target \in Targets
    /\ near \in Alike
    /\ answer = {}

RetrievalNext ==
    \/ \E k \in Limits, fuzzy \in BOOLEAN, s \in ScopesAsked : retrieve(k, fuzzy, s)
    \/ \E k \in Limits, fuzzy \in BOOLEAN, s \in ScopesAsked : search(k, fuzzy, s)
    \/ \E k \in Limits, s \in TextsAsked : invoke_search_learnings(k, s)

RetrievalSpec == RetrievalInit /\ [][RetrievalNext]_retrievalVars

-----------------------------------------------------------------------------
Matched(i) == \E tier \in {"fts", "trgm", "vector"} : learning[i].match[tier] > 0

(* What the answer owes first: the task's surface area, or the words.       *)
Own(a) ==
    CASE a.of = "search" -> {i \in Scoped(a.scope) : learning[i].match["fts"] > 0}
      [] a.of = "learnings" -> {i \in Active : Said(i, a.scope)}
      [] OTHER -> {i \in surface_candidates(Active, a.scope.surface) : Fits(i, a.scope)}

(* What the fuzzy search may add. *)
Others(a) ==
    LET eligible == IF a.of = "search" THEN Scoped(a.scope) ELSE {i \in Active : Fits(i, a.scope)} IN
    {i \in eligible \ Own(a) : Matched(i)}

(* An answer shows at most k learnings, each once, and loses none it owes:  *)
(* the fuzzy search takes the place of none of the task's own surface area  *)
(* (near duplicates included) or of the words asked for, adds only active   *)
(* matches within the filters, and while there is room leaves out a match   *)
(* of the project only for the limit of the cold tiers: the limits and      *)
(* exclusions of retrieval/service.py.                                      *)
AnswersKeepWhatWasFound ==
    \A a \in answer :
      LET shown == Ids(a.items) IN
      /\ Len(a.items) <= a.k /\ Cardinality(shown) = Len(a.items)
      /\ Own(a) \subseteq shown \/ (shown \subseteq Own(a) /\ Len(a.items) = a.k)
      /\ shown \ Own(a) \subseteq (IF a.fuzzy THEN Others(a) ELSE {})
      /\ a.fuzzy /\ Len(a.items) < a.k =>
            \/ vector_pool(Others(a), a.scope.project) \subseteq shown
            \/ a.of = "retrieve" /\ Cardinality(shown \ Own(a)) >= VectorLimit
=============================================================================
