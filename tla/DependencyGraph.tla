--------------------------- MODULE DependencyGraph ---------------------------
(***************************************************************************)
(* The edges between tasks, decisions and learnings: how they are written,  *)
(* and how they are searched.                                               *)
(*                                                                          *)
(* Whoever writes an active depends_on edge first looks for a path back in  *)
(* the edges committed by then, and writes later, without a lock in         *)
(* between.  `late` records that another edge was written meanwhile.        *)
(***************************************************************************)
EXTENDS Naturals, FiniteSets, Sequences, Absent

CONSTANTS
    Node, EntityType,       \* EntityType[n]: what node n is
    Edge,                   \* row ids
    Request,
    MaxDepth,               \* DEFAULT_MAX_DEPTH
    Posted,                 \* rows clients may post
    Linkable,               \* <<decision, task, relation>> clients may link
    Patches                 \* what a PATCH may say: functions from columns to values

Relation == {"depends_on", "supersedes", "informed_by", "learned_from"}
(* A key of the metadata is absent (or null), or its value is falsy, or it  *)
(* is set; "text" is a string where the code expects a Boolean.             *)
Metadata == [superseded_at : {"absent", "blank", "set"},
             superseded_by : {"absent", "blank", "set"},
             status : {"absent", "superseded", "other"},
             is_active : {"absent", "true", "false", "text false"}]
EdgeRow == [src : Node, dst : Node, relation : Relation, metadata : Metadata]

ASSUME GraphAssumption ==
    /\ Posted \subseteq EdgeRow
    /\ Linkable \subseteq Node \X Node \X Relation
    /\ MaxDepth \in Nat \ {0}
    /\ None \notin EdgeRow \cup (1..MaxDepth) \cup {"create", "update"}

VARIABLES
    edge,       \* edge[e]: the committed row, or None
    editing,    \* editing[r]: the write request r has decided on
    late        \* active rows last written by a request that another one overtook

graphVars == <<edge, editing, late>>
NoWrite == [op |-> "none", edge |-> None, row |-> None, changed |-> {}, overtaken |-> FALSE]

-----------------------------------------------------------------------------
(* Two definitions of an active edge: models/edge.py in Python, the search  *)
(* in SQL.                                                                  *)
edge_metadata_marks_superseded(metadata) ==
    \/ metadata.superseded_at = "set" \/ metadata.superseded_by = "set"
    \/ metadata.status = "superseded"
    \/ metadata.is_active = "false"

active_edge_condition(metadata) ==
    /\ metadata.superseded_at = "absent" /\ metadata.superseded_by = "absent"
    /\ metadata.status # "superseded"
    /\ metadata.is_active \notin {"false", "text false"}

Rows == {edge[e] : e \in {k \in Edge : edge[k] # None}}
Followed(relations) ==
    {row \in Rows : active_edge_condition(row.metadata) /\ row.relation \in relations}

(* LEARNED_FROM joins one learning and something that is not a project. *)
ValidEndpoints(row) ==
    row.relation = "learned_from" =>
        /\ (EntityType[row.src] = "learning") # (EntityType[row.dst] = "learning")
        /\ {EntityType[row.src], EntityType[row.dst]} \subseteq
              {"learning", "task", "run", "artifact", "decision", "actor"}

(* Breadth first over the rows loaded in one statement. *)
shortest_path(rows, from, to, maxDepth) ==
    LET next(S) == {row.dst : row \in {k \in rows : k.src \in S}}
        reached[d \in 0..maxDepth] ==
            IF d = 0 THEN {from} ELSE reached[d - 1] \cup next(reached[d - 1])
        found == {d \in 1..maxDepth : to \in next(reached[d - 1])}
    IN IF found = {} THEN None ELSE CHOOSE d \in found : \A k \in found : d <= k

(* The recursive query: paths that revisit no node, and the least depth at  *)
(* which each node ends one.  Its first row is not compared with the root.  *)
walk_direction(rows, root, outbound, maxDepth) ==
    LET Near(row) == IF outbound THEN row.src ELSE row.dst
        Far(row) == IF outbound THEN row.dst ELSE row.src
        Last(p) == p[Len(p)]
        Seen(p) == {p[i] : i \in 1..Len(p)}
        base == {<<root, Far(row)>> : row \in {k \in rows : Near(k) = root}}
        Longer(p) == {Append(p, Far(row)) :
                        row \in {k \in rows : Near(k) = Last(p) /\ Far(k) \notin Seen(p)}}
        grown[d \in 1..maxDepth] ==
            IF d = 1 THEN base ELSE UNION {Longer(p) : p \in grown[d - 1]}
        paths == UNION {grown[d] : d \in 1..maxDepth}
        Least(n) == CHOOSE d \in {Len(p) - 1 : p \in {q \in paths : Last(q) = n}} :
                       \A p \in {q \in paths : Last(q) = n} : d <= Len(p) - 1
    IN [n \in {Last(p) : p \in paths} |-> Least(n)]

descendants(relations, n, maxDepth) == walk_direction(Followed(relations), n, TRUE, maxDepth)
ancestors(relations, n, maxDepth) == walk_direction(Followed(relations), n, FALSE, maxDepth)

(* Both directions, each node once, at the lesser of its depths. *)
neighbors(relations, n, depth) ==
    LET out == descendants(relations, n, depth)
        in == ancestors(relations, n, depth)
        Both(k) == {out[k] : j \in {k} \cap DOMAIN out} \cup {in[k] : j \in {k} \cap DOMAIN in}
    IN [k \in DOMAIN out \cup DOMAIN in |->
          CHOOSE d \in Both(k) : \A j \in Both(k) : d <= j]

downstream_of_decision(n) ==
    {k \in DOMAIN descendants(Relation, n, MaxDepth) :
        EntityType[k] \in {"task", "artifact", "run"}}

-----------------------------------------------------------------------------
ensure_dependency_edge_is_acyclic(row) ==
    /\ row.src # row.dst
    /\ shortest_path(Followed({"depends_on"}), row.dst, row.src, MaxDepth) = None

unvalidated_edge(row) == TRUE
maybe_validate_edge(row) ==
    (row.relation = "depends_on" /\ ~edge_metadata_marks_superseded(row.metadata))
        => ensure_dependency_edge_is_acyclic(row)

(* create_edge, and POST /v1/edges. *)
create_edge(r, row) ==
    /\ editing[r].op = "none"
    /\ ValidEndpoints(row) /\ maybe_validate_edge(row)
    /\ editing' = [editing EXCEPT ![r] = [NoWrite EXCEPT !.op = "create", !.row = row]]
    /\ UNCHANGED <<edge, late>>

Plain == [superseded_at |-> "absent", superseded_by |-> "absent",
          status |-> "absent", is_active |-> "absent"]

(* No look at what the prior decision, or the replacement, is part of. *)
supersede_decision(r, prior, replacement) ==
    /\ EntityType[prior] = "decision" /\ EntityType[replacement] = "decision"
    /\ create_edge(r, [src |-> replacement, dst |-> prior,
                       relation |-> "supersedes", metadata |-> Plain])

link_decision(r, decision, task, relation) ==
    /\ EntityType[decision] = "decision" /\ EntityType[task] = "task"
    /\ create_edge(r, [src |-> decision, dst |-> task,
                       relation |-> relation, metadata |-> Plain])

(* PATCH /v1/edges/{id}: the row as loaded, with the patch, is validated    *)
(* whole; what is written is the columns that differ from those loaded (and *)
(* nothing if none does).                                                   *)
Merged(row, patch) == [c \in DOMAIN row |-> IF c \in DOMAIN patch THEN patch[c] ELSE row[c]]
update_edge(r, e, patch) ==
    LET row == Merged(edge[e], patch) IN
    /\ editing[r].op = "none" /\ edge[e] # None /\ row # edge[e]
    /\ row \in EdgeRow /\ ValidEndpoints(row) /\ maybe_validate_edge(row)
    /\ editing' = [editing EXCEPT ![r] =
                     [NoWrite EXCEPT !.op = "update", !.edge = e, !.row = row,
                        !.changed = {c \in DOMAIN row : row[c] # edge[e][c]}]]
    /\ UNCHANGED <<edge, late>>

delete_edge(e) ==
    /\ edge[e] # None
    /\ edge' = [edge EXCEPT ![e] = None]
    /\ late' = late \ {e}
    /\ UNCHANGED editing

Signature(row) == <<row.src, row.dst, row.relation>>
Unique(e, row) == \A k \in Edge \ {e} : edge[k] # None => Signature(edge[k]) # Signature(row)
FreeEdge == CHOOSE e \in Edge : edge[e] = None
Target(r) == IF editing[r].op = "create" THEN FreeEdge ELSE editing[r].edge
Written(r) ==
    IF editing[r].op = "create" THEN editing[r].row
    ELSE [c \in DOMAIN editing[r].row |->
            IF c \in editing[r].changed THEN editing[r].row[c] ELSE edge[editing[r].edge][c]]

(* The flush, which waits for other writers of the row or the signature,    *)
(* and the commit after it.                                                 *)
flush_edge(r) ==
    LET e == Target(r) IN
    /\ editing[r].op # "none"
    /\ editing[r].op = "create" => \E k \in Edge : edge[k] = None
    /\ editing[r].op = "update" => edge[e] # None
    /\ Unique(e, Written(r))
    /\ edge' = [edge EXCEPT ![e] = Written(r)]
    /\ late' = IF editing[r].overtaken /\ active_edge_condition(Written(r).metadata)
               THEN late \cup {e} ELSE late \ {e}
    /\ editing' = [k \in Request |->
                     IF k = r \/ editing[k].op = "none" THEN NoWrite
                     ELSE [editing[k] EXCEPT !.overtaken = TRUE]]

(* 409 for a signature that exists, a row deleted meanwhile, any rollback. *)
abandon_edge(r) ==
    /\ editing[r].op # "none"
    /\ editing' = [editing EXCEPT ![r] = NoWrite]
    /\ UNCHANGED <<edge, late>>

-----------------------------------------------------------------------------
GraphInit ==
    /\ edge = [e \in Edge |-> None]
    /\ editing = [r \in Request |-> NoWrite]
    /\ late = {}

GraphNext ==
    \/ \E r \in Request :
         \/ \E row \in Posted : create_edge(r, row)
         \/ \E n, k \in Node : supersede_decision(r, n, k)
         \/ \E link \in Linkable : link_decision(r, link[1], link[2], link[3])
         \/ \E e \in Edge, patch \in Patches : update_edge(r, e, patch)
         \/ flush_edge(r)
         \/ abandon_edge(r)
    \/ \E e \in Edge : delete_edge(e)

GraphSpec == GraphInit /\ [][GraphNext]_graphVars

-----------------------------------------------------------------------------
(* Rows have their columns, and no two of them the same signature. *)
GraphTypeOK ==
    /\ edge \in [Edge -> EdgeRow \cup {None}]
    /\ \A e \in Edge : edge[e] # None => \A k \in Edge \ {e} :
          edge[k] # None => Signature(edge[k]) # Signature(edge[e])
    /\ late \subseteq Edge
    /\ \A r \in Request : editing[r].row \in EdgeRow \cup {None}

(* Paths, defined without reference to either search. *)
Connected(rows, from, to, length) ==
    \E p \in [1..length -> rows] :
        /\ p[1].src = from /\ p[length].dst = to
        /\ \A i \in 1..(length - 1) : p[i].dst = p[i + 1].src

Dependencies == {e \in Edge : /\ edge[e] # None /\ edge[e].relation = "depends_on"
                              /\ active_edge_condition(edge[e].metadata)}

(* Dependencies that the search can see close no cycle within its depth     *)
(* unless one of them was written by a request that another write overtook. *)
CyclesComeFromOverlaps ==
    LET timely == {edge[e] : e \in Dependencies \ late} IN
    \A length \in 1..(MaxDepth + 1) : \A row \in timely : ~Connected(timely, row.src, row.src, length)

=============================================================================
