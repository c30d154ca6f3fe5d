----------------------------- MODULE MCSecrets ------------------------------
(* Two callers and the calls that can meet on one entry.                   *)
EXTENDS Secrets

Call(op, scope) ==
    [op |-> op, scope |-> scope, hostOnly |-> FALSE, overwrite |-> FALSE,
     dryRun |-> FALSE, resolver |-> FALSE]

MCJobs ==
    {Call("SetToken", "global"), Call("SetToken", "box"),
     [Call("SetToken", "global") EXCEPT !.resolver = TRUE],
     [Call("SetToken", "global") EXCEPT !.overwrite = TRUE],
     Call("SetRegistry", "global"), Call("SetRegistry", "box"),
     [Call("SetRegistry", "global") EXCEPT !.hostOnly = TRUE],
     [Call("SetRegistry", "box") EXCEPT !.hostOnly = TRUE],
     Call("Import", "global"),
     [Call("Import", "global") EXCEPT !.dryRun = TRUE],
     Call("ImportAll", "global"),
     Call("Remove", "global")}

MCTokenJobs == {Call("SetToken", "global")}
=============================================================================
