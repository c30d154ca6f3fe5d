------------------------------ MODULE ShellOut ------------------------------
(***************************************************************************)
(* What a shell-out to the sbx binary promises the rest of the SDK: an     *)
(* abstract specification of one call of cli.Runner.  Runner implements    *)
(* it; the modules of the callers (Lifecycle, Secrets) rely on it.         *)
(***************************************************************************)
EXTENDS Integers

CONSTANT Codes      \* exit codes of the child, integers; 0 is success

\* The answers a caller can see: nil, a failure with the child's own code, or
\* "lost" for a call that never ran or whose outcome the error hides.
Answers == [is : {"pending", "nil", "lost", "failed"}, code : Codes]
Answer(a, x) == [is |-> a, code |-> x]
Pending == Answer("pending", 0)

VARIABLES child, exit, answer
vars == <<child, exit, answer>>

Init ==
    /\ child = "none"
    /\ exit = 0
    /\ answer = Pending

Refuse ==
    /\ child = "none" /\ answer = Pending
    /\ answer' = Answer("lost", 0)
    /\ UNCHANGED <<child, exit>>

Launch ==
    /\ child = "none" /\ answer = Pending
    /\ child' = "running"
    /\ UNCHANGED <<exit, answer>>

End ==
    /\ child = "running"
    /\ child' = "ended"
    /\ exit' \in Codes
    /\ UNCHANGED answer

\* The call returns only when the child is over.  A failure is reported as
\* the child's own; a success may be reported as lost, never the reverse.
Return ==
    /\ child = "ended" /\ answer = Pending
    /\ answer' \in (IF exit = 0 THEN {Answer("nil", 0), Answer("lost", 0)}
                              ELSE {Answer("failed", exit)})
    /\ UNCHANGED <<child, exit>>

Next == Refuse \/ Launch \/ End \/ Return

Spec == Init /\ [][Next]_vars
=============================================================================
