----------------------------- MODULE Transitions -----------------------------
(***************************************************************************)
(* The transition engine of transitions.py, the retry policy of            *)
(* task_retry.py and the precedence of policies, as the handlers of        *)
(* task_actions.py combine them.  A policy is a record:                    *)
(*   hitl, tier          whether done needs a human; highest autonomy tier *)
(*   transitions         the allowed targets of each state                 *)
(*   required            the capabilities a target state asks for          *)
(*   max_retries         the threshold of the dead letter queue            *)
(*   blocked_hours, escalation_target   when a blocked task may escalate   *)
(*   overrides           max_attempts_per_task_type of the policy body     *)
(* None stands for JSON null and for a policy that is not attached.        *)
(***************************************************************************)
EXTENDS Naturals, Sequences, FiniteSets

Prefer(policy, otherwise) == IF policy = {} THEN otherwise ELSE CHOOSE p \in policy : TRUE

(* The first attached of task, project and workspace; {} is "not attached". *)
resolve_effective_policy(default, workspace, project, task) ==
    Prefer(task, Prefer(project, Prefer(workspace, default)))

(* An override counts when it is a whole number of at least one; the other  *)
(* values JSON allows there are "other".                                    *)
resolve_max_attempts(overrides, task_type, default) ==
    IF task_type \in DOMAIN overrides /\ overrides[task_type] \in Nat \ {0}
      THEN overrides[task_type] ELSE default

remaining_attempts(attempts, maximum) ==
    IF maximum > attempts THEN maximum - attempts ELSE 0

(* The pack of the task type gives transitions and escalation, the policy   *)
(* in effect gives the rest.                                                *)
effective_transition_policy(pack, resolved, task_type) ==
    [pack EXCEPT !.hitl = resolved.hitl, !.tier = resolved.tier,
                 !.max_retries = resolve_max_attempts(resolved.overrides, task_type, pack.max_retries)]

-----------------------------------------------------------------------------
(* What a request for a transition brings along. *)
Asked(capabilities) ==
    [capabilities |-> capabilities, attempts |-> 0, report |-> "none",
     approved |-> FALSE, blocked_for |-> {}]

Allowed(policy, from) ==
    IF from \in DOMAIN policy.transitions THEN policy.transitions[from] ELSE {}

Required(policy, target) ==
    IF target \in DOMAIN policy.required THEN policy.required[target] ELSE {}

Escalates(policy, from, target) == from = "blocked" /\ target = policy.escalation_target

(* The first guard that stops the transition, "" if none does.  A report is *)
(* "none", or tells whether every item of its checklist is checked.         *)
Guard(policy, from, target, tier, asked) ==
    IF target \notin Allowed(policy, from) THEN "invalid"
    ELSE IF ~Required(policy, target) \subseteq asked.capabilities THEN "capability"
    ELSE IF tier > policy.tier THEN "policy"
    ELSE IF target = "done" /\ policy.hitl /\ ~asked.approved THEN "policy"
    ELSE IF target = "done" /\ asked.report # "proven" THEN "dod"
    ELSE IF /\ Escalates(policy, from, target)
            /\ \A h \in asked.blocked_for : h < policy.blocked_hours THEN "policy"
    ELSE ""

Escalation(policy, from, target, attempts) ==
    CASE from = "rejected" /\ target = "queued" /\ attempts >= policy.max_retries -> "max_retries_exceeded"
      [] Escalates(policy, from, target) -> "blocked_too_long"
      [] OTHER -> ""

(* A transition that a guard stops keeps state and attempts. *)
apply_transition(policy, from, target, tier, asked) ==
    LET guard == Guard(policy, from, target, tier, asked)
        attempts == IF guard = "" /\ from = "rejected" /\ target = "queued"
                      THEN asked.attempts + 1 ELSE asked.attempts IN
    [state      |-> IF guard = "" THEN target ELSE from,
     attempts   |-> attempts,
     guard      |-> guard,
     escalation |-> IF guard = "" THEN Escalation(policy, from, target, attempts) ELSE ""]
=============================================================================
