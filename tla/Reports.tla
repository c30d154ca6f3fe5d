------------------------------ MODULE Reports ------------------------------
(***************************************************************************)
(* The caller of the stateless part of the SDK: one call, which asks one   *)
(* question (Answers) or unpublishes a port while others publish (Ports).  *)
(***************************************************************************)
EXTENDS Ports, Answers

vars == <<portsVars, callVars>>

Init ==
    \/ PortsInit /\ CallIdle
    \/ PortsIdle /\ CallInit

Done == {"idle", "done"}

Next ==
    \/ PortsNext /\ UNCHANGED callVars
    \/ CallNext /\ UNCHANGED portsVars
    \/ portsPc \in Done /\ callPc \in Done /\ UNCHANGED vars

Spec == Init /\ [][Next]_vars
=============================================================================
