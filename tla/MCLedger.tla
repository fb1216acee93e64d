-------------------------------- MODULE MCLedger --------------------------------
(* What a request leaves behind, in four instances of one run:                *)
(*   chain  three overlapping transactions of the audit ledger;               *)
(*   pages  two of them, while an administrator reads the ledger by pages;    *)
(*   keys   three overlapping requests under one key: two calls with the same *)
(*          body to different paths, and one with another body;               *)
(*   tools  two agents calling tools on two jobs and on a task type.          *)
EXTENDS ToolCalls, AuditQuery, TLC

CONSTANTS k1, approve1, approve2, other, j1, j2, p1, r1, r2, r3, a1, a2, a3

MCRequest == {r1, r2, r3}
ByTool(tool, on) == [tool |-> tool, on |-> on, said |-> p1]
MCToolCall == {ByTool("submit_payload", j1), ByTool("submit_payload", j2),
               ByTool("register_task_type", j1), ByTool("update_task_type", j1),
               ByTool("create_job", j1), ByTool("list_jobs", j1),
               ByTool("claim_next_job", j1)}
KeyedCall == {c \in MCToolCall : c.tool \in Keyed}
RestCall == {approve1, approve2, other}
MCCall == RestCall \cup KeyedCall
MCKey == {k1} \cup {idempotency_key(c) : c \in KeyedCall}
MCDigest == [c \in MCCall |-> CASE c \in KeyedCall -> json_body(c)
                                [] c = other -> <<2>>
                                [] OTHER -> <<1>>]

VARIABLE which
vars == <<idempotencyVars, toolVars, chainVars, queryVars, which>>
InLedger == which \in {"chain", "pages"} /\ UNCHANGED <<idempotencyVars, toolVars, which>>
InChain == which = "chain" /\ InLedger /\ UNCHANGED queryVars
InPages == which = "pages" /\ InLedger
InEither == InLedger /\ UNCHANGED queryVars
Keys == which \in {"keys", "tools"} /\ UNCHANGED <<chainVars, queryVars, which>>
InKeys == Keys /\ UNCHANGED toolVars
InTools == which = "tools" /\ UNCHANGED <<chainVars, queryVars, which>>
KeyOfTools == IF which = "tools" THEN {submit_key(ByTool("submit_payload", j1))} ELSE {k1}

(* In the pages two transactions write, three rows at most. *)
TwoWrite(a) == sequence < MaxPosition - 1 /\ Cardinality({k \in Tx : tx[k] # NoTx} \cup {a}) < 3

(* Both kinds of rows, at most two of one. *)
Says(id, columns) == (id = 1) = (columns["action"] = "CREATE") \/ id = 3

(* One walk, and more when nothing is written any more. *)
OneWalk == walk = NoWalk \/ sequence = MaxPosition - 1

MCColumns == {("action" :> "CREATE"), ("action" :> "UPDATE")}
MCToken == {[scopes |-> {"audit:read"}, actor_type |-> "admin"],
            [scopes |-> {"admin"}, actor_type |-> "agent"]}
Asking(limit) == [equal |-> <<>>, since |-> {}, until |-> {}, limit |-> limit]
MCPayload == {Asking(1), [Asking(2) EXCEPT !.until = {0}],
              [Asking(1) EXCEPT !.equal = "action" :> "UPDATE", !.since = {1}]}

Symmetry == Permutations(MCRequest) \cup Permutations(Tx)

Init ==
    /\ ToolsInit /\ QueryInit
    /\ which \in {"chain", "pages", "keys", "tools"}

Next ==
    \/ \E a \in Tx : InEither /\ (which = "pages" => TwoWrite(a)) /\ _write_audit_row(a)
    \/ \E a \in Tx : InChain /\ audit_log_set_chain_hashes(a)
    \/ \E a \in Tx : InChain /\ begin_nested(a)
    \/ \E a \in Tx : InChain /\ release_savepoint(a)
    \/ \E a \in Tx : InChain /\ rollback_to_savepoint(a)
    \/ \E a \in Tx : InEither /\ commit_tx(a)
    \/ \E a \in Tx : InEither /\ rollback_tx(a)
    \/ \E a \in Tx, id \in RowId, columns \in Columns : InPages /\ Says(id, columns) /\ stamp_row(a, id, columns)
    \/ InPages /\ passes
    \/ \E token \in Token, payload \in Payload : InPages /\ OneWalk /\ first_page(token, payload)
    \/ InPages /\ next_page
    \/ \E r \in Request, c \in RestCall : InKeys /\ which = "keys" /\ send(r, k1, c)
    \/ \E r \in Request : InKeys /\ lookup_miss(r)
    \/ \E r \in Request : InKeys /\ lookup_expired(r)
    \/ \E r \in Request : InKeys /\ drop_expired(r)
    \/ \E r \in Request : InKeys /\ lookup_conflict(r)
    \/ \E r \in Request : InKeys /\ lookup_hit(r)
    \/ \E r \in Request, success \in BOOLEAN : InKeys /\ call_next(r, success)
    \/ \E r \in Request : InKeys /\ store_idempotency_response(r)
    \/ \E r \in Request : InKeys /\ store_conflict(r)
    \/ \E r \in Request : InKeys /\ commit(r)
    \/ \E r \in Request : InKeys /\ abort(r)
    \/ \E k \in KeyOfTools : InKeys /\ expire(k)
    \/ InKeys /\ cleanup_expired_idempotency_keys
    \/ \E a \in Agent, c \in KeyedCall, r \in Request : InTools /\ call_internal_api(a, c, r)
    \/ \E a \in Agent, c \in ToolCall : InTools /\ read(a, c)
    \/ \E a \in Agent, c \in ToolCall : InTools /\ run_session_tool(a, c)
    \/ \E a \in Agent, c \in ToolCall : InTools /\ call_without_key(a, c)
    \/ \E a \in Agent : InTools /\ tool_returns(a)

Spec == Init /\ [][Next]_vars
=============================================================================
