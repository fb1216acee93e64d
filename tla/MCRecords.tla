------------------------------- MODULE MCRecords -------------------------------
(* The rows of the REST interface, in six instances of one run:               *)
(*   graph    two requests write dependencies of two tasks and a decision;     *)
(*   packet   a packet gathers its decisions while one request writes edges;   *)
(*   patches  two requests update one task, and the policy attached to it;     *)
(*   pages    a client walks over pages of one row while another updates rows; *)
(*   types    two registrations of two task types, with and without reloading; *)
(*   memory   two syncs of two files into one or two scopes.                   *)
EXTENDS PacketDecisions, EntityRecords, TaskTypes, MemorySync, TLC

CONSTANTS g1, g2, s1, s2, n1, n2, t1, t2, f1, f2, project, user, a, b, c, r1, r2, w1, w2, p1, d, o, feature, bug, narrow, wide, open, closed

MCNode == {a, b, c, d, o}
MCEntityType == [n \in MCNode |-> IF n \in {a, b} THEN "task" ELSE "decision"]
(* c was made for the task that b's packet looks back to, o for b, d for none. *)
MCTaskOf == (c :> a) @@ (o :> b) @@ (d :> None)
MCRank == (c :> 2) @@ (o :> 1) @@ (d :> 3)
Retired == [Plain EXCEPT !.is_active = "false"]
Blank == [Plain EXCEPT !.superseded_at = "blank"]
Dependency(s, t, m) == [src |-> s, dst |-> t, relation |-> "depends_on", metadata |-> m]
MCPosted == {Dependency(a, b, Plain), Dependency(b, c, Plain)}
MCPatches == {("metadata" :> Retired), ("metadata" :> Plain)}
MCLinkable == {<<c, a, "depends_on">>}

MCCreated == <<0, 0>>
MCFits == {<<feature, narrow>>, <<feature, wide>>, <<bug, wide>>}
MCPatch == {("type" :> bug @@ "attempt_count" :> 0), ("type" :> feature),
            ("contract" :> narrow), ("policy_id" :> p1), ("state" :> 0)}

FirstFiles == (n1 :> [schema |-> t1, policy |-> t1]) @@ (n2 :> NoPair)

Registered == {<<n1, t2>>, <<n2, t1>>}

VARIABLE which
vars == <<graphVars, decisionVars, recordVars, typeVars, memoryVars, which>>

InGraph == UNCHANGED <<recordVars, typeVars, memoryVars, which>>
Packet == which = "packet" /\ InGraph
Edges(write) ==
    /\ write
    /\ \/ which = "graph" /\ InGraph /\ UNCHANGED decisionVars
       \/ Packet /\ Meanwhile
Superseded == IF which = "graph" THEN {} ELSE {<<o, d>>}
(* In the packet instance one request at a time writes, once the packet is begun. *)
Alone(r) ==
    which = "packet" => reading.at \notin {"idle", "done"} /\ \A k \in Request : editing[k].op = "none"
FirstEdges == <<Dependency(a, b, Plain), [Dependency(d, c, Plain) EXCEPT !.relation = "supersedes"], None>>
Records == which \in {"patches", "pages"} /\ UNCHANGED <<graphVars, decisionVars, typeVars, memoryVars, which>>
Types == which = "types" /\ UNCHANGED <<graphVars, decisionVars, recordVars, memoryVars, which>>
Memory == which = "memory" /\ UNCHANGED <<graphVars, decisionVars, recordVars, typeVars, which>>
Pages == which = "pages"
Row == IF Pages THEN Id ELSE {1}
Attachable == IF Pages THEN {} ELSE Policy

Symmetry == Permutations({r1, r2}) \cup Permutations({w1, w2})
              \cup Permutations({g1, g2}) \cup Permutations({s1, s2})

Init ==
    /\ edge \in {[e \in Edge |-> None], FirstEdges}
    /\ editing = [r \in Request |-> NoWrite] /\ late = {}
    /\ DecisionsInit /\ RecordsInit
    /\ TypesInit(FirstFiles) /\ MemoryInit
    /\ which \in {"graph", "packet", "patches", "pages", "types", "memory"}
    /\ (edge = FirstEdges) = (which = "packet")
    /\ reload_enabled \in {FALSE, which = "types"}
    /\ disk = [f \in File |-> t1]
    /\ \A p \in Policy : policy[p] = open

Next ==
    \/ \E r \in Request, row \in Posted : Edges(which = "graph" /\ create_edge(r, row))
    \/ \E r \in Request, pair \in Superseded : Edges(Alone(r) /\ supersede_decision(r, pair[2], pair[1]))
    \/ \E r \in Request, link \in Linkable : Edges(which = "graph" /\ link_decision(r, link[1], link[2], link[3]))
    \/ \E r \in Request, e \in Edge, patch \in Patches : Edges(Alone(r) /\ update_edge(r, e, patch))
    \/ \E r \in Request : Edges(flush_edge(r))
    \/ \E r \in Request : Edges(abandon_edge(r))
    \/ \E e \in Edge : Edges(delete_edge(e))
    \/ Packet /\ packet_decisions
    \/ Packet /\ has_dependency_ancestors
    \/ Packet /\ _anchor_task_ids
    \/ \E n \in Node, outbound \in BOOLEAN : Packet /\ neighbors_of(n, outbound)
    \/ Packet /\ select_decisions
    \/ \E i \in Row, fit \in Fits, p \in Attachable \cup {None} :
          Records /\ (Pages => fit[2] = wide) /\ create_entity(i, fit[1], fit[2], p)
    \/ \E i \in Row : Records /\ delete_task(i)
    \/ \E w \in Writer, i \in Row, patch \in Patch, began \in 0..now :
          /\ Records /\ (Pages => /\ \A v \in Writer : patching[v].of = None
                           /\ "type" \in DOMAIN patch)
          /\ update_task(w, i, patch, began)
    \/ \E w \in Writer, p \in Attachable, body \in Body : Records /\ update_policy(w, p, body)
    \/ \E w \in Writer : Records /\ flush_task(w)
    \/ \E w \in Writer : Records /\ flush_policy(w)
    \/ \E w \in Writer : Records /\ abandon_update(w)
    \/ \E p \in Attachable : Records /\ delete_policy(p)
    \/ Records /\ Pages /\ list_entities
    \/ Records /\ Pages /\ tick
    \/ \E r \in Register, p \in Registered : Types /\ register(r, p[1], p[2], p[2])
    \/ \E r \in Register : Types /\ write_text(r)
    \/ \E r \in Register : Types /\ ~reload_enabled /\ write_fails(r)
    \/ \E r \in Register : Types /\ load(r)
    \/ Types /\ maybe_reload
    \/ \E n \in TypeName : Types /\ load_pair(n)
    \/ Types /\ load_error
    \/ Types /\ load_ends
    \/ Types /\ edit(n1, t1, t1)
    \/ Types /\ ~reload_enabled /\ crash
    \/ Types /\ create_app
    \/ \E s \in Sync, scope \in Scope, walk \in Walk, full \in BOOLEAN :
          Memory /\ (scope = user => full /\ walk = {f1}) /\ begin_sync(s, scope, walk, full)
    \/ \E s \in Sync : Memory /\ ingest(s)
    \/ \E s \in Sync : Memory /\ select_stale(s)
    \/ \E s \in Sync : Memory /\ commit_sync(s)
    \/ \E s \in Sync : Memory /\ rollback_sync(s)
    \/ Memory /\ edit_file(f1, t2)

Spec == Init /\ [][Next]_vars
=============================================================================
