---------------------------- MODULE PacketDecisions ----------------------------
(***************************************************************************)
(* The decisions a packet shows: compiler.py packet_decisions.  Each        *)
(* question to the database is a statement of its own, which sees what is   *)
(* committed by then, while others write and end edges.                     *)
(***************************************************************************)
EXTENDS DependencyGraph

CONSTANTS
    Subject,    \* the task of the packet
    TaskOf,     \* TaskOf[d]: the task decision d was made for
    Rank,       \* Rank[d]: its place by (decided_at, id)
    MaxHops,    \* DEFAULT_PACKET_DECISION_MAX_HOPS
    MaxNodes    \* DEFAULT_PACKET_DECISION_MAX_NODES

VARIABLES
    reading,    \* the packet being assembled
    ever,       \* the rows that were active at some time since it began
    always      \* the rows that were active all the time

decisionVars == <<reading, ever, always>>

Decision == {n \in Node : EntityType[n] = "decision"}

(* A decision belongs to a task, or to none; no two decisions share a place. *)
ASSUME DecisionsAssumption ==
    /\ IsFiniteSet(Decision) /\ Subject \in Node /\ EntityType[Subject] = "task"
    /\ \A d \in Decision : TaskOf[d] \in Node => EntityType[TaskOf[d]] = "task"
    /\ \A d \in Decision : Rank[d] \in Nat
    /\ \A d, k \in Decision : Rank[d] = Rank[k] => d = k
    /\ MaxHops \in Nat \ {0} /\ MaxNodes \in Nat \ {0}

Neighborly == {"informed_by", "supersedes"}

NotReading == [at |-> "idle", ids |-> {}, todo |-> {}, shown |-> <<>>]

Now(rows) == {row \in rows : active_edge_condition(row.metadata)}
Reads(step) == reading' = step /\ UNCHANGED <<graphVars, ever, always>>

-----------------------------------------------------------------------------
(* The decisions of the task itself. *)
packet_decisions ==
    /\ reading.at \in {"idle", "done"}
    /\ reading' = [NotReading EXCEPT !.at = "edges", !.ids = {d \in Decision : TaskOf[d] = Subject}]
    /\ ever' = Now(Rows) /\ always' = Now(Rows)
    /\ UNCHANGED graphVars

(* With neither an edge into the task nor a decision of its own there is    *)
(* nothing to look for.                                                     *)
Worthwhile(edges, ids) == edges # {} \/ ids # {}

(* Any edge, also one that was superseded. *)
has_dependency_ancestors ==
    LET edges == {row \in Rows : row.relation = "depends_on" /\ row.dst = Subject} IN
    /\ reading.at = "edges"
    /\ Reads(IF ~Worthwhile(edges, reading.ids)
               THEN [NotReading EXCEPT !.at = "done"]
               ELSE [reading EXCEPT !.at = IF edges = {} THEN "linked" ELSE "anchors",
                                    !.todo = reading.ids \X BOOLEAN])

tasks_below == {n \in DOMAIN descendants({"depends_on"}, Subject, MaxHops) : EntityType[n] = "task"}
anchor_tasks == {n \in DOMAIN ancestors({"depends_on"}, Subject, MaxHops) : EntityType[n] = "task"}

_anchor_task_ids ==
    LET ids == reading.ids \cup {d \in Decision : TaskOf[d] \in anchor_tasks \cup {Subject}} IN
    /\ reading.at = "anchors"
    /\ Reads(IF ids = {} THEN [NotReading EXCEPT !.at = "done"]
             ELSE [reading EXCEPT !.at = "linked", !.ids = ids, !.todo = ids \X BOOLEAN])

(* The neighbors of one decision, each direction asked for by itself. *)
neighbors_of(d, outbound) ==
    LET hits == walk_direction(Followed(Neighborly), d, outbound, MaxHops) IN
    /\ reading.at = "linked" /\ <<d, outbound>> \in reading.todo
    /\ outbound \/ <<d, TRUE>> \notin reading.todo
    /\ Reads([reading EXCEPT !.ids = @ \cup (DOMAIN hits \cap Decision),
                             !.todo = @ \ {<<d, outbound>>}])

(* The k-th newest of some decisions, and the first n of them. *)
Newest(ids, k) == CHOOSE d \in ids : Cardinality({j \in ids : Rank[j] > Rank[d]}) = k - 1
Take(ids, n) == [k \in 1..(IF Cardinality(ids) < n THEN Cardinality(ids) ELSE n) |-> Newest(ids, k)]

select_decisions ==
    /\ reading.at = "linked" /\ reading.todo = {}
    /\ Reads([reading EXCEPT !.at = "done", !.shown = Take(reading.ids, MaxNodes)])

(* What others write, in the meantime. *)
Meanwhile ==
    /\ UNCHANGED reading
    /\ IF reading.at \in {"idle", "done"}
         THEN UNCHANGED <<ever, always>>
         ELSE ever' = ever \cup Now(Rows') /\ always' = always \cap Rows'

DecisionsInit == reading = NotReading /\ ever = {} /\ always = {}

DecisionsNext ==
    \/ GraphNext /\ Meanwhile
    \/ packet_decisions
    \/ has_dependency_ancestors
    \/ _anchor_task_ids
    \/ \E d \in Node, outbound \in BOOLEAN : neighbors_of(d, outbound)
    \/ select_decisions

DecisionsSpec ==
    GraphInit /\ DecisionsInit /\ [][DecisionsNext]_<<graphVars, decisionVars>>

-----------------------------------------------------------------------------
Within(rows, from, to) == \E length \in 1..MaxHops : Connected(rows, from, to, length)

(* The decisions about the task, by edges alone: its own, those of the      *)
(* tasks from which dependencies lead to it, and the ones they are linked   *)
(* to, in one direction or the other.                                       *)
About(rows) ==
    LET dependencies == {row \in rows : row.relation = "depends_on"}
        links == {row \in rows : row.relation \in Neighborly}
        first == {d \in Decision : TaskOf[d] = Subject \/ Within(dependencies, TaskOf[d], Subject)}
    IN first \cup {d \in Decision : \E k \in first : Within(links, k, d) \/ Within(links, d, k)}

(* A packet shows the newest decisions about the task, no others, and       *)
(* leaves none out but for the limit: by edges that stayed while it was     *)
(* assembled, whatever others wrote or superseded between its statements    *)
(* (packet_decisions).                                                      *)
PacketsShowTheDecisions ==
    reading.at = "done" =>
        LET shown == {reading.shown[k] : k \in DOMAIN reading.shown} IN
        /\ shown \subseteq About(ever)
        /\ \A i, j \in DOMAIN reading.shown : i < j => Rank[reading.shown[i]] > Rank[reading.shown[j]]
        /\ \A d \in About(always) \ shown :
              Len(reading.shown) = MaxNodes /\ \A k \in shown : Rank[k] > Rank[d]
=============================================================================
