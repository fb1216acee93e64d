------------------------------- MODULE ToolCalls -------------------------------
(***************************************************************************)
(* MCP tools that work through the REST interface.                          *)
(*                                                                          *)
(* A tool builds a request and sends it to the application in the same      *)
(* process, where it meets the idempotency middleware like any other.  An   *)
(* agent names no key: a tool derives one from what it was called with, or  *)
(* sends none.                                                              *)
(***************************************************************************)
EXTENDS Idempotency, Sequences

CONSTANTS
    Agent,      \* tool calls in flight
    ToolCall    \* [tool, on, said]: on a job or a task type, with a payload

(* register_submit_tools: five kinds of generic tools, then the named ones.  *)
CreateTools == {"create_actor", "create_project", "create_pipeline", "create_job",
                "create_decision", "attach_artifact", "grant_capability"}
UpdateTools == {"update_project", "update_pipeline", "update_job", "edit_learning"}
DeleteTools == {"revoke_actor", "archive_project", "cancel_pipeline"}
ListTools == {"list_" \o x : x \in
    {"actors", "projects", "pipelines", "jobs", "decisions", "learnings",
     "policy_packs", "runs", "artifacts", "task_types"}}
GetTools == {"get_" \o x : x \in
    {"project", "pipeline", "job", "decision", "learning", "policy_pack", "run", "artifact"}}

LearningTools == {"submit_learning", "expire_learning", "promote_learning",
                  "supersede_learning"}
PolicyTools == {"load_policy_pack", "attach_policy"}
DecisionTools == {"supersede_decision", "link_decision"}

(* Calls that carry a key, mutations that carry none, reads, and tools that  *)
(* work on a session of their own and never meet the middleware.            *)
Keyed == {"submit_payload", "register_task_type", "update_task_type"}
Keyless == CreateTools \cup UpdateTools \cup DeleteTools \cup LearningTools
             \cup PolicyTools \cup DecisionTools \cup {"revoke_capability"}
Reads == ListTools \cup GetTools \cup {"get_task_type", "search_learnings", "search_surface"}
SessionTools == {"get_self", "rotate_own_key", "claim_next_job", "release_job",
                 "query_graph", "traverse_graph"}

VARIABLES
    via,        \* via[a]: the request that carries the call of agent a, or None
    answer      \* answer[a]: how its last call ended

toolVars == <<via, answer>>

-----------------------------------------------------------------------------
(* A UUID of a name: equal names, equal keys.  The two task type tools name  *)
(* the same three things, and so does not the tool.                         *)
uuid5(kind, on, said) == [name |-> kind, on |-> on, said |-> said]
submit_key_of_payload(c) == uuid5("payload", None, c.said)
submit_key(c) == uuid5("job", c.on, c.said)
task_type_key(c) == uuid5("type", c.on, c.said)
idempotency_key(c) == IF c.tool = "submit_payload" THEN submit_key(c) ELSE task_type_key(c)

(* The body says who a registration is for; other calls have it in the path. *)
json_body(c) == IF c.tool = "register_task_type" THEN <<c.on, c.said>> ELSE <<c.said>>

requires_idempotency(c) == c.tool \in Keyed \cup Keyless

(* Calls are told apart by what they name; SHA-256 tells bodies apart. *)
ASSUME ToolCallsAssumption ==
    /\ \A c \in ToolCall :
          /\ c = [tool |-> c.tool, on |-> c.on, said |-> c.said]
          /\ c.tool \in Keyed \cup Keyless \cup Reads \cup SessionTools
          /\ c.tool \in Keyed => c \in Call /\ idempotency_key(c) \in Key
    /\ \A c, d \in ToolCall :
          c.tool \in Keyed /\ d.tool \in Keyed /\ Digest[c] = Digest[d] => json_body(c) = json_body(d)
    /\ None \notin Agent \cup Request

(* The answer is awaited; a read takes no part in what the middleware keeps. *)
call_internal_api(a, c, r) ==
    /\ via[a] = None /\ c.tool \in Keyed
    /\ \A b \in Agent : via[b] # r
    /\ send(r, idempotency_key(c), c)
    /\ via' = [via EXCEPT ![a] = r]
    /\ UNCHANGED answer

read(a, c) ==
    /\ via[a] = None /\ c.tool \in Reads
    /\ answer' = [answer EXCEPT ![a] = "given"]
    /\ UNCHANGED <<via, idempotencyVars>>

(* One transaction of its own, committed by a tool that changes something:   *)
(* the result is returned, or the error that undid it.                      *)
run_session_tool(a, c) ==
    /\ via[a] = None /\ c.tool \in SessionTools
    /\ answer' = [answer EXCEPT ![a] = "given"]
    /\ UNCHANGED <<via, idempotencyVars>>

(* "Idempotency-Key header is required": 400, whatever was asked. *)
call_without_key(a, c) ==
    /\ via[a] = None /\ requires_idempotency(c) /\ c.tool \notin Keyed
    /\ answer' = [answer EXCEPT ![a] = "no key"]
    /\ UNCHANGED <<via, idempotencyVars>>

tool_returns(a) ==
    /\ via[a] # None /\ req[via[a]].step = "idle"
    /\ via' = [via EXCEPT ![a] = None]
    /\ answer' = [answer EXCEPT ![a] = "given"]
    /\ UNCHANGED idempotencyVars

ToolsInit ==
    /\ IdempotencyInit
    /\ via = [a \in Agent |-> None]
    /\ answer = [a \in Agent |-> "none"]

ToolsNext ==
    \/ \E a \in Agent, c \in ToolCall :
          \/ \E r \in Request : call_internal_api(a, c, r)
          \/ read(a, c)
          \/ run_session_tool(a, c)
          \/ call_without_key(a, c)
    \/ \E a \in Agent : tool_returns(a)
    \/ ((\E r \in Request : serve(r)) \/ age_out) /\ UNCHANGED toolVars

ToolsSpec == ToolsInit /\ [][ToolsNext]_<<idempotencyVars, toolVars>>

-----------------------------------------------------------------------------
(* A tool that finds its key stored is answered with what the same tool was  *)
(* answered on the same job with the same payload: the middleware compares  *)
(* bodies and no paths, so all depends on what the key is made from.        *)
ToolHitsMatch ==
    \A a \in Agent :
        LET q == req[via[a]] IN
        (/\ via[a] # None /\ q.step = "lookup" /\ Fresh(q.key)
         /\ Digest[cache[q.key].call] = Digest[q.call]) => cache[q.key].call = q.call

=============================================================================
