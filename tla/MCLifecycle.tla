---------------------------- MODULE MCLifecycle -----------------------------
(* Two users: creations with a given and with a derived name, incomplete   *)
(* ones, and a Get of the name the creations compete for.                  *)
EXTENDS Lifecycle

Creation(n) == [op |-> "create", name |-> n, agent |-> TRUE, workspace |-> TRUE]

MCJobs ==
    {Creation(0), Creation(1), Creation(2),
     [Creation(0) EXCEPT !.agent = FALSE],
     [Creation(0) EXCEPT !.workspace = FALSE], [Creation(1) EXCEPT !.workspace = FALSE],
     [Creation(1) EXCEPT !.op = "get"]}
=============================================================================
