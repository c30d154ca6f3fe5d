------------------------------ MODULE Lifecycle ------------------------------
(***************************************************************************)
(* Provisioning and lifecycle of sandboxes (package sandbox): Create, Get, *)
(* List, and a handle's Inspect, Start, Stop and Remove, by concurrent     *)
(* users of one daemon.  Create lists the names, picks or checks its own,  *)
(* shells out to `sbx create` and reads the new sandbox back; nothing holds*)
(* the name in between.                                                    *)
(*                                                                         *)
(* A name is a number: i stands for "<agent>-<dir>-i", 1 for the name      *)
(* without suffix, 0 for the empty string.  The daemon, the CLI and other  *)
(* users of the sandboxes are external; the shell-out follows ShellOut.    *)
(***************************************************************************)
EXTENDS Naturals

CONSTANTS
    Users,       \* goroutines, each making one Create or Get and using it
    MaxNames,    \* bound: names in play
    MaxBoxes,    \* bound: sandboxes ever created
    Jobs,        \* what the users ask for
    Faults       \* what the environment may do besides answering

Names == 1..MaxNames

\* "request": a request fails before or after the daemon acted on it, and a
\* shell-out may be cancelled; "empty": a 2xx answer loses its body;
\* "partial": the CLI creates the sandbox and fails later;
\* "outside": sandboxes come and go by other hands.
AllFaults == {"request", "empty", "partial", "outside"}

Job == [op : {"create", "get"}, name : 0..MaxNames,
        agent : BOOLEAN, workspace : BOOLEAN]

ASSUME LifecycleAssumption ==
    /\ MaxNames \in Nat /\ MaxBoxes \in Nat
    /\ MaxBoxes < MaxNames          \* a free name is always in play
    /\ Jobs \subseteq Job
    /\ Faults \subseteq AllFaults

VARIABLES
    boxes,      \* daemon: name -> incarnation, 0 for none
    next,       \* daemon: the next incarnation
    running,    \* daemon: the incarnations that run
    pc, job,    \* of each user
    chosen,     \* Create: d.name
    handle,     \* s.info: the name and the ID
    result,     \* what Create or Get returned
    last,       \* what the handle's last method returned
    made,       \* the incarnation a Create's child made (observed)
    raced       \* another sandbox took the name after it was checked (observed)

daemonVars == <<boxes, next, running>>
vars == <<daemonVars, pc, job, chosen, handle, result, last, made, raced>>

NoHandle == [name |-> 0, id |-> 0]
Errors == {"none", "nil", "request", "notFound", "exists", "invalid",
           "binary", "cli", "lost", "panic"}

Init ==
    /\ boxes = [n \in Names |-> 0]
    /\ next = 1
    /\ running = {}
    /\ pc = [u \in Users |-> "idle"]
    /\ job \in [Users -> Jobs]
    /\ chosen = [u \in Users |-> 0]
    /\ handle = [u \in Users |-> NoHandle]
    /\ result = [u \in Users |-> "none"]
    /\ last = [u \in Users |-> "none"]
    /\ made = [u \in Users |-> 0]
    /\ raced = [u \in Users |-> FALSE]

Boxes == 1..MaxBoxes

\* Every variable keeps to the values the code and the daemon can give it.
TypeOK ==
    /\ boxes \in [Names -> Boxes \cup {0}]
    /\ next \in 1..(MaxBoxes + 1)
    /\ running \subseteq Boxes
    /\ pc \in [Users -> {"idle", "list", "cli", "cliOK", "cliTaken",
                         "cliFailed", "get", "ready", "done"}]
    /\ job \in [Users -> Jobs]
    /\ chosen \in [Users -> Names \cup {0}]
    /\ handle \in [Users -> [name : Names \cup {0}, id : Boxes \cup {0}]]
    /\ result \in [Users -> Errors]
    /\ last \in [Users -> Errors]
    /\ made \in [Users -> Boxes \cup {0}]
    /\ raced \in [Users -> BOOLEAN]

-----------------------------------------------------------------------------
Exists(n) == n \in Names /\ boxes[n] # 0

Replies(found) ==
    (IF found THEN {"ok"} \cup (Faults \cap {"empty"}) ELSE {"404"})
    \cup (Faults \cap {"request"})

\* What the daemon says of name n, decoded into a SandboxInfo; an answer
\* without a body leaves it zero.
Info(n, r) == IF r = "ok" THEN [name |-> n, id |-> boxes[n]] ELSE NoHandle

\* generateName: the base name, or the first "-N" that is not listed.
generateName_base(existing) == 1   \* mutant: collisions are not looked for
generateName(existing) ==
    CHOOSE n \in Names \ existing : \A m \in Names \ existing : n <= m

Goto(u, l) == pc' = [pc EXCEPT ![u] = l] /\ UNCHANGED result
Return(u, l, e) ==
    /\ pc' = [pc EXCEPT ![u] = l]
    /\ result' = [result EXCEPT ![u] = e]

\* A sandbox appears under a free name.
Occupy(n) ==
    /\ boxes[n] = 0 /\ next <= MaxBoxes
    /\ boxes' = [boxes EXCEPT ![n] = next]
    /\ next' = next + 1
    /\ running' = running \cup {next}

Vacate(n) ==
    /\ boxes' = [boxes EXCEPT ![n] = 0]
    /\ running' = running \ {boxes[n]}
    /\ UNCHANGED next

RaceFor(n, others) ==
    raced' = [u \in Users |->
                raced[u] \/ (u \in others /\ pc[u] = "cli" /\ chosen[u] = n)]

-----------------------------------------------------------------------------
(* Create and Get.                                                          *)

Begin(u) ==
    /\ pc[u] = "idle"
    /\ \/ job[u].op = "create" /\ Goto(u, "list") /\ UNCHANGED chosen
       \/ /\ job[u].op = "get"
          /\ Goto(u, "get")
          /\ chosen' = [chosen EXCEPT ![u] = job[u].name]
    /\ UNCHANGED <<daemonVars, job, handle, last, made, raced>>

\* A definition without an agent or a workspace is refused; the arguments of
\* `sbx create` are otherwise left out.
toCreateArgs(j) == j.agent /\ j.workspace

\* The name is checked, or derived from the first workspace, before
\* toCreateArgs looks at the agent and the workspaces.
Named(u, existing) ==
    LET j == job[u] IN
    \/ /\ j.name = 0 /\ ~j.workspace
       /\ Return(u, "done", "panic")
       /\ UNCHANGED chosen
    \/ /\ j.name \in existing
       /\ Return(u, "done", "exists")
       /\ UNCHANGED chosen
    \/ /\ j.name \notin existing
       /\ j.name = 0 => j.workspace
       /\ chosen' = [chosen EXCEPT ![u] =
                       IF j.name = 0 THEN generateName(existing) ELSE j.name]
       /\ \/ ~toCreateArgs(j) /\ Return(u, "done", "invalid")
          \/ toCreateArgs(j) /\ Return(u, "done", "binary")
          \/ toCreateArgs(j) /\ Goto(u, "cli")

ListNames(u) ==
    /\ pc[u] = "list"
    /\ \E r \in Replies(TRUE) :
         \/ /\ r = "request"
            /\ Return(u, "done", "request")
            /\ UNCHANGED chosen
         \/ r = "ok" /\ Named(u, {n \in Names : Exists(n)})
         \/ r = "empty" /\ Named(u, {})
    /\ UNCHANGED <<daemonVars, job, handle, last, made, raced>>

\* `sbx create --name N` (external): it refuses a name that is taken.
CliCreates(u) ==
    /\ pc[u] = "cli"
    /\ Occupy(chosen[u])
    /\ made' = [made EXCEPT ![u] = next]
    /\ RaceFor(chosen[u], Users \ {u})
    /\ \/ Goto(u, "cliOK")
       \/ "partial" \in Faults /\ Goto(u, "cliFailed")
    /\ UNCHANGED <<job, chosen, handle, last>>

CliRefuses(u) ==
    /\ pc[u] = "cli"
    /\ Goto(u, IF Exists(chosen[u]) THEN "cliTaken" ELSE "cliFailed")
    /\ UNCHANGED <<daemonVars, job, chosen, handle, last, made, raced>>

\* A done context starts no child.
CliNotRun(u) ==
    /\ pc[u] = "cli" /\ "request" \in Faults
    /\ Return(u, "done", "lost")
    /\ UNCHANGED <<daemonVars, job, chosen, handle, last, made, raced>>

\* Capture's answer: a *CLIError for a failed child; an error that hides the
\* success when the call was cancelled or its pipes were held.
CreateAnswer_asExists(u) ==   \* mutant: any CLI failure is ErrSandboxExists
    IF pc[u] \in {"cliTaken", "cliFailed"} THEN {"exists"} ELSE {"nil"}
CreateAnswer_ignored(u) == {"nil"}   \* mutant: the CLI's error is dropped
CreateAnswer(u) ==
    IF pc[u] \in {"cliTaken", "cliFailed"} THEN {"cli"}
    ELSE {"nil"} \cup (IF "request" \in Faults THEN {"lost"} ELSE {})

CliAnswers(u) ==
    /\ pc[u] \in {"cliOK", "cliTaken", "cliFailed"}
    /\ \E e \in CreateAnswer(u) :
         IF e = "nil" THEN Goto(u, "get") ELSE Return(u, "done", e)
    /\ UNCHANGED <<daemonVars, job, chosen, handle, last, made, raced>>

\* Get: what Create ends with, too.
Get(u) ==
    /\ pc[u] = "get"
    /\ \E r \in Replies(Exists(chosen[u])) :
         \/ r = "request" /\ Return(u, "done", "request") /\ UNCHANGED handle
         \/ r = "404" /\ Return(u, "done", "notFound") /\ UNCHANGED handle
         \/ /\ r \in {"ok", "empty"}
            /\ Return(u, "ready", "nil")
            /\ handle' = [handle EXCEPT ![u] = Info(chosen[u], r)]
    /\ UNCHANGED <<daemonVars, job, chosen, last, made, raced>>

-----------------------------------------------------------------------------
(* The handle's methods address the sandbox by name.                        *)

\* What Inspect leaves in s.info.
Refreshed_onError(u, r) == Info(handle[u].name, r)   \* mutant: error not read
Refreshed(u, r) ==
    IF r \in {"ok", "empty"} THEN Info(handle[u].name, r) ELSE handle[u]

\* What a method returns for an answer of the daemon.
Mapped_not(r) == IF r \in {"404", "request"} THEN r ELSE "nil"   \* mutant
Mapped(r) == CASE r = "404" -> "notFound" [] r = "409" -> "exists"
               [] r = "request" -> "request" [] OTHER -> "nil"

Inspect(u) ==
    /\ pc[u] = "ready"
    /\ \E r \in Replies(Exists(handle[u].name)) :
         /\ handle' = [handle EXCEPT ![u] = Refreshed(u, r)]
         /\ last' = [last EXCEPT ![u] = Mapped(r)]
    /\ UNCHANGED <<daemonVars, pc, job, chosen, result, made, raced>>

\* What the daemon does to sandbox n on a request (external).
Effect(what, n) ==
    \/ what = "start" /\ running' = running \cup {boxes[n]} /\ UNCHANGED <<boxes, next>>
    \/ what = "stop" /\ running' = running \ {boxes[n]} /\ UNCHANGED <<boxes, next>>
    \/ what = "remove" /\ Vacate(n)

\* A request that does not suit the sandbox's state may be refused with 409.
Conflicts(found) == IF found THEN {"409"} ELSE {}

\* One request that changes the sandbox: a failed one may have changed it.
Request(u, what) ==
    /\ pc[u] = "ready"
    /\ \E r \in Replies(Exists(handle[u].name)) \cup Conflicts(Exists(handle[u].name)) :
         /\ last' = [last EXCEPT ![u] = Mapped(r)]
         /\ \/ r \in {"404", "409", "request"} /\ UNCHANGED daemonVars
            \/ /\ r \in {"ok", "empty", "request"} /\ Exists(handle[u].name)
               /\ Effect(what, handle[u].name)
    /\ UNCHANGED <<pc, job, chosen, handle, result, made, raced>>

Start(u)  == Request(u, "start")
Stop(u)   == Request(u, "stop")
Remove(u) == Request(u, "remove")

-----------------------------------------------------------------------------
(* Other users of the daemon (external).                                    *)

Appears(n) ==
    /\ "outside" \in Faults
    /\ Occupy(n) /\ RaceFor(n, Users)
    /\ UNCHANGED <<pc, job, chosen, handle, result, last, made>>

Vanishes(n) ==
    /\ "outside" \in Faults
    /\ Exists(n) /\ Vacate(n)
    /\ UNCHANGED <<pc, job, chosen, handle, result, last, made, raced>>

Terminated == (\A u \in Users : pc[u] \in {"ready", "done"}) /\ UNCHANGED vars

Next ==
    \/ \E u \in Users :
          \/ Begin(u) \/ ListNames(u) \/ CliCreates(u) \/ CliRefuses(u)
          \/ CliNotRun(u) \/ CliAnswers(u) \/ Get(u)
          \/ Inspect(u) \/ Start(u) \/ Stop(u) \/ Remove(u)
    \/ \E n \in Names : Appears(n) \/ Vanishes(n)
    \/ Terminated

Spec == Init /\ [][Next]_vars

-----------------------------------------------------------------------------
Creates(u) == job[u].op = "create"
Alive(i) == \E n \in Names : boxes[n] = i

\* ErrSandboxExists tells the caller that the call created nothing: the name
\* belongs to somebody else and must not be cleaned up.
ExistsWithoutEffect ==
    \A u \in Users : result[u] = "exists" => made[u] = 0

\* A nil error from Create means that this very call created a sandbox, under
\* the name in the handle it returns.
CreatedIsOwn ==
    \A u \in Users :
        Creates(u) /\ result[u] = "nil"
            => made[u] # 0 /\ handle[u].name = chosen[u]

\* The CLI refuses a name as taken only if somebody took it after it was
\* checked: what generateName returns was free when it was listed.
TakenOnlyIfRaced ==
    \A u \in Users : pc[u] = "cliTaken" => raced[u]

\* ErrSandboxNotFound, from Create or from a method of a handle, means that
\* the sandbox the caller had is gone.
NotFoundMeansGone ==
    [][\A u \in Users :
         /\ (Creates(u) /\ result[u] = "none" /\ result'[u] = "notFound")
                => made[u] # 0 /\ ~Alive(made[u])
         /\ (last[u] # "notFound" /\ last'[u] = "notFound")
                => ~Alive(handle[u].id)]_vars

\* Create keeps the promise of SandboxRegistry.
CreateAnswered ==
    [u \in Users |-> IF ~Creates(u) \/ result[u] = "none" THEN "pending"
                     ELSE IF result[u] \in {"nil", "exists"} THEN result[u]
                     ELSE "error"]
Registry == INSTANCE SandboxRegistry WITH
    wanted <- [u \in Users |-> job[u].name], answer <- CreateAnswered
ImplementsRegistry == Registry!Spec

=============================================================================
