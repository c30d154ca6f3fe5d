--------------------------- MODULE SandboxRegistry ---------------------------
(***************************************************************************)
(* What sandbox.Create promises its callers, as an abstract specification: *)
(* creation is exclusive by name, ErrSandboxExists means that the call made*)
(* nothing and that its name was taken, nil means that it made exactly one *)
(* sandbox.  Any other error says nothing.  Lifecycle implements it.       *)
(***************************************************************************)
EXTENDS Naturals

CONSTANTS Users, Names, MaxBoxes

VARIABLES
    boxes,      \* name -> the incarnation living under it, 0 for none
    next,       \* the next incarnation
    wanted,     \* the name a Create asks for, 0 when the SDK picks it
    made,       \* the incarnation a Create made, 0 for none
    answer      \* what the Create answered

vars == <<boxes, next, wanted, made, answer>>

Init ==
    /\ boxes \in [Names -> {0}]
    /\ next = 1
    /\ wanted \in [Users -> Names \cup {0}]
    /\ made = [u \in Users |-> 0]
    /\ answer = [u \in Users |-> "pending"]

Occupy(n) ==
    /\ boxes[n] = 0 /\ next <= MaxBoxes
    /\ boxes' = [boxes EXCEPT ![n] = next]
    /\ next' = next + 1

Make(u, n) ==
    /\ answer[u] = "pending" /\ made[u] = 0
    /\ wanted[u] \in {0, n}
    /\ Occupy(n)
    /\ made' = [made EXCEPT ![u] = next]
    /\ UNCHANGED <<wanted, answer>>

Say(u, a) ==
    /\ answer[u] = "pending"
    /\ answer' = [answer EXCEPT ![u] = a]
    /\ UNCHANGED <<boxes, next, wanted, made>>

Confirm(u) == made[u] # 0 /\ Say(u, "nil")
Refuse(u)  == /\ made[u] = 0 /\ wanted[u] # 0 /\ boxes[wanted[u]] # 0
              /\ Say(u, "exists")
Fail(u)    == Say(u, "error")

Appear(n) == Occupy(n) /\ UNCHANGED <<wanted, made, answer>>
Vanish(n) ==
    /\ boxes[n] # 0
    /\ boxes' = [boxes EXCEPT ![n] = 0]
    /\ UNCHANGED <<next, wanted, made, answer>>

Next ==
    \/ \E u \in Users : Confirm(u) \/ Refuse(u) \/ Fail(u)
    \/ \E u \in Users, n \in Names : Make(u, n)
    \/ \E n \in Names : Appear(n) \/ Vanish(n)

Spec == Init /\ [][Next]_vars
=============================================================================
