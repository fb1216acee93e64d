------------------------------ MODULE MCLifecycle ------------------------------
(* Two instances of the task lifecycle under fairness, in one run:            *)
(*   three  feature depends on schema and on api: claims, valid submissions,  *)
(*          approvals and rejections, so that the last two dependencies       *)
(*          finish together;                                                  *)
(*   one    the task schema, and an admin who resets and unlocks it beside    *)
(*          releases, valid and invalid submissions and reviews.              *)
EXTENDS MCTaskActions

VARIABLE which

Allowed ==
    \A r \in Request : req'[r].step # "idle" =>
        CASE which = "three" -> /\ req'[r].actor \notin Admin /\ req'[r].outcome # "invalid"
                                /\ req'[r].op \notin {"release", "reclaim"}
          [] which = "one" -> /\ req'[r].task = schema
                              /\ req'[r].op \in {"approve", "reject"} => req'[r].actor \in Admin

MCInit ==
    /\ Init
    /\ \A t \in Task : task[t].state = "blocked" <=> Deps[t] # {}
    /\ which \in {"three", "one"}
MCNext == Next /\ Allowed /\ UNCHANGED which
MCFairSpec ==
    /\ MCInit /\ [][MCNext]_<<vars, which>>
    /\ \A r \in Request : SF_vars(Progress(r)) /\ WF_vars(write_timeout(r))
=============================================================================
