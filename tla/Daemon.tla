------------------------------- MODULE Daemon --------------------------------
(***************************************************************************)
(* Bringing the daemon up and down (package client): New with              *)
(* WithAutoStart and WithStrictVersion, EnsureRunning, StartDaemon,        *)
(* RestartDaemon, DaemonStatus and StopDaemon, by concurrent callers.      *)
(* EnsureRunning and RestartDaemon end in waitHealthy: probe, compare with *)
(* a 30 s deadline, sleep 250 ms, again.                                   *)
(*                                                                         *)
(* The daemon is external.  It may be down, still starting (its socket     *)
(* refuses or answers an error), up, or hung: it accepts the connection    *)
(* and never answers.  The deadline is a timer that has run out or not.    *)
(***************************************************************************)
EXTENDS Naturals

CONSTANTS
    Callers,    \* each with a client and a context of its own
    Ops         \* the methods they call

AllOps == {"New", "NewStrict", "EnsureRunning", "StartDaemon",
           "RestartDaemon", "DaemonStatus", "StopDaemon"}

ASSUME DaemonAssumption == Ops \subseteq AllOps

VARIABLES
    daemon,     \* "down", "starting", "up" or "hung"
    tested,     \* the daemon's api_version is TestedAPIVersion
    pc, op,     \* of each caller
    timeout,    \* WithHTTPTimeout was given
    ctx,        \* "live" or "done"
    expired,    \* waitHealthy's deadline is in the past
    result,     \* what the method returned
    seen,       \* the daemon was up at some time since the call began or since
                \* its shell-out ended (observed)
    late        \* probes sent after the deadline (observed)

callVars == <<pc, op, timeout, result, seen>>
vars == <<daemon, tested, ctx, expired, late, callVars>>

Results == {"none", "nil", "request", "cli", "ctx", "notRunning",
            "incompatible", "running", "notrunning"}

\* What each method returns: the error of a request only where DaemonHealth or
\* StopDaemon made it; elsewhere a failed request has an answer of its own.
Answered(o) ==
    CASE o \in {"New", "EnsureRunning", "RestartDaemon"} ->
            {"nil", "cli", "ctx", "notRunning"}
      [] o = "NewStrict" ->
            {"nil", "cli", "ctx", "notRunning", "request", "incompatible"}
      [] o = "StartDaemon"  -> {"nil", "cli"}
      [] o = "DaemonStatus" -> {"running", "notrunning", "ctx"}
      [] o = "StopDaemon"   -> {"nil", "request"}

Init ==
    /\ daemon \in {"down", "starting", "up", "hung"}
    /\ tested \in BOOLEAN
    /\ pc = [c \in Callers |-> "idle"]
    /\ op \in [Callers -> Ops]
    /\ timeout \in [Callers -> BOOLEAN]
    /\ ctx = [c \in Callers |-> "live"]
    /\ expired = [c \in Callers |-> FALSE]
    /\ result = [c \in Callers |-> "none"]
    /\ seen = [c \in Callers |-> FALSE]
    /\ late = [c \in Callers |-> 0]

\* Every variable keeps to the values the code and the daemon can give it, and
\* a method returns one of the answers it has.
TypeOK ==
    /\ daemon \in {"down", "starting", "up", "hung"}
    /\ tested \in BOOLEAN
    /\ pc \in [Callers -> {"idle", "ensure", "cli", "wait", "unhealthy",
                           "sleep", "version", "status", "stop", "done"}]
    /\ op \in [Callers -> Ops]
    /\ timeout \in [Callers -> BOOLEAN]
    /\ ctx \in [Callers -> {"live", "done"}]
    /\ expired \in [Callers -> BOOLEAN]
    /\ result \in [Callers -> Results]
    /\ \A c \in Callers : result[c] \in Answered(op[c]) \cup {"none"}
    /\ seen \in [Callers -> BOOLEAN]
    /\ late \in [Callers -> Nat]

-----------------------------------------------------------------------------
\* How a request can end: a hung daemon lets it end only by the client's
\* timeout or by the context, and one that is up may answer an error.
Answers_noContext(c) ==   \* mutant: the request does not carry the context
    CASE daemon = "up"   -> {"ok", "fails"}
      [] daemon = "hung" -> IF timeout[c] THEN {"fails"} ELSE {}
      [] OTHER           -> {"fails"}
Answers(c) ==
    CASE daemon = "up"   -> {"ok", "fails"}
      [] daemon = "hung" -> IF timeout[c] \/ ctx[c] = "done" THEN {"fails"} ELSE {}
      [] OTHER           -> {"fails"}

Goto(c, l) == pc' = [pc EXCEPT ![c] = l] /\ UNCHANGED result
Return(c, r) ==
    /\ pc' = [pc EXCEPT ![c] = "done"]
    /\ result' = [result EXCEPT ![c] = r]

\* A healthy daemon is what EnsureRunning wants; New may go on to the version.
Healthy(c) == IF op[c] = "NewStrict" THEN Goto(c, "version") ELSE Return(c, "nil")

\* What follows a shell-out that succeeded.
AfterCLI_noWait(o) ==    \* mutant: RestartDaemon does not wait
    IF o \in {"StartDaemon", "RestartDaemon"} THEN "done" ELSE "wait"
AfterCLI(o) == IF o = "StartDaemon" THEN "done" ELSE "wait"

-----------------------------------------------------------------------------
Begin(c) ==
    /\ pc[c] = "idle"
    /\ Goto(c, CASE op[c] \in {"New", "NewStrict", "EnsureRunning"} -> "ensure"
                 [] op[c] \in {"StartDaemon", "RestartDaemon"}      -> "cli"
                 [] op[c] = "DaemonStatus"                          -> "status"
                 [] op[c] = "StopDaemon"                            -> "stop")
    /\ seen' = [seen EXCEPT ![c] = daemon = "up"]
    /\ UNCHANGED <<daemon, tested, ctx, expired, late, op, timeout>>

\* EnsureRunning's first probe: any failure leads to the shell-out.
Ensure(c) ==
    /\ pc[c] = "ensure"
    /\ \/ "ok" \in Answers(c) /\ Healthy(c)
       \/ "fails" \in Answers(c) /\ Goto(c, "cli")
    /\ UNCHANGED <<daemon, tested, ctx, expired, late, op, timeout, seen>>

\* `sbx daemon start --detach` or `sbx daemon restart` (external): it may fail
\* or be cancelled, before or after it touched the daemon.
RunCLI(c) ==
    /\ pc[c] = "cli"
    /\ \/ UNCHANGED <<daemon, tested>>
       \/ /\ ctx[c] = "live"
          /\ daemon = "down" \/ op[c] = "RestartDaemon"
          /\ daemon' = "starting"
          /\ tested' \in BOOLEAN
    /\ \/ Return(c, "cli")
       \/ /\ ctx[c] = "live"
          /\ IF AfterCLI(op[c]) = "done" THEN Return(c, "nil")
             ELSE Goto(c, AfterCLI(op[c]))
    /\ seen' = [seen EXCEPT ![c] = daemon' = "up"]
    /\ UNCHANGED <<ctx, expired, late, op, timeout>>

\* waitHealthy: the probe.
Probe(c) ==
    /\ pc[c] = "wait"
    /\ \/ "ok" \in Answers(c) /\ Healthy(c)
       \/ "fails" \in Answers(c) /\ Goto(c, "unhealthy")
    /\ UNCHANGED <<daemon, tested, ctx, expired, late, op, timeout, seen>>

\* waitHealthy: the deadline, looked at after a failed probe only.
Overdue_never(c) == FALSE           \* mutant: the deadline moves with the loop
Overdue(c) == expired[c]
CheckDeadline(c) ==
    /\ pc[c] = "unhealthy"
    /\ IF Overdue(c) THEN Return(c, "notRunning") ELSE Goto(c, "sleep")
    /\ UNCHANGED <<daemon, tested, ctx, expired, late, op, timeout, seen>>

\* waitHealthy: the select takes either branch when both are ready.
Sleep(c) ==
    /\ pc[c] = "sleep"
    /\ \/ ctx[c] = "done" /\ Return(c, "ctx") /\ UNCHANGED late
       \/ /\ Goto(c, "wait")
          /\ late' = [late EXCEPT ![c] = IF expired[c] THEN @ + 1 ELSE @]
    /\ UNCHANGED <<daemon, tested, ctx, expired, op, timeout, seen>>

\* New, WithStrictVersion: DaemonHealth.
Version(c) ==
    /\ pc[c] = "version"
    /\ \/ "fails" \in Answers(c) /\ Return(c, "request")
       \/ "ok" \in Answers(c) /\ Return(c, IF tested THEN "nil" ELSE "incompatible")
    /\ UNCHANGED <<daemon, tested, ctx, expired, late, op, timeout, seen>>

\* DaemonStatus: a failed probe is an answer, unless the context is done.
ProbeFailed_returned(c) == "request"   \* mutant: the probe's error is returned
ProbeFailed(c) == IF ctx[c] = "done" THEN "ctx" ELSE "notrunning"
DaemonStatus(c) ==
    /\ pc[c] = "status"
    /\ \/ "ok" \in Answers(c) /\ Return(c, "running")
       \/ "fails" \in Answers(c) /\ Return(c, ProbeFailed(c))
    /\ UNCHANGED <<daemon, tested, ctx, expired, late, op, timeout, seen>>

StopDaemon(c) ==
    /\ pc[c] = "stop"
    /\ \/ "ok" \in Answers(c) /\ daemon' = "down" /\ Return(c, "nil")
       \/ "fails" \in Answers(c) /\ UNCHANGED daemon /\ Return(c, "request")
    /\ UNCHANGED <<tested, ctx, expired, late, op, timeout, seen>>

-----------------------------------------------------------------------------
(* Timers, contexts and the daemon.                                         *)

Deadline(c) ==
    /\ pc[c] \in {"wait", "unhealthy", "sleep"} /\ ~expired[c]
    /\ expired' = [expired EXCEPT ![c] = TRUE]
    /\ UNCHANGED <<daemon, tested, ctx, late, callVars>>

CtxDone(c) ==
    /\ pc[c] \notin {"idle", "done"} /\ ctx[c] = "live"
    /\ ctx' = [ctx EXCEPT ![c] = "done"]
    /\ UNCHANGED <<daemon, tested, expired, late, callVars>>

\* It comes up, hangs, recovers, dies or is stopped.
DaemonMoves ==
    /\ \/ daemon = "starting" /\ daemon' \in {"up", "hung", "down"}
       \/ daemon = "up" /\ daemon' \in {"hung", "down"}
       \/ daemon = "hung" /\ daemon' \in {"up", "down"}
    /\ seen' = [c \in Callers |-> seen[c] \/ daemon' = "up"]
    /\ UNCHANGED <<tested, ctx, expired, late, pc, op, timeout, result>>

\* Another process, or another client, starts or restarts it.
OthersStart ==
    /\ daemon' = "starting"
    /\ tested' \in BOOLEAN
    /\ UNCHANGED <<ctx, expired, late, callVars>>

CallStep(c) ==
    \/ Ensure(c) \/ RunCLI(c) \/ Probe(c) \/ CheckDeadline(c) \/ Sleep(c)
    \/ Version(c) \/ DaemonStatus(c) \/ StopDaemon(c)

Terminated == (\A c \in Callers : pc[c] = "done") /\ UNCHANGED vars

Next ==
    \/ \E c \in Callers : Begin(c) \/ CallStep(c) \/ Deadline(c) \/ CtxDone(c)
    \/ DaemonMoves \/ OthersStart
    \/ Terminated

Spec == Init /\ [][Next]_vars

\* Goroutines run, timers fire and shell-outs end.  The daemon owes nothing.
FairSpec ==
    Spec /\ \A c \in Callers : WF_vars(CallStep(c)) /\ WF_vars(Deadline(c))

-----------------------------------------------------------------------------
WaitsForHealth(c) ==
    op[c] \in {"New", "NewStrict", "EnsureRunning", "RestartDaemon"}

\* A nil error means that the daemon was up after whatever the call ran: a
\* shell-out that succeeded is not enough, nor is a probe before the restart.
NilMeansHealthy ==
    \A c \in Callers : WaitsForHealth(c) /\ result[c] = "nil" => seen[c]

\* The deadline ends the polling: at most one probe is sent after it.
AtMostOneLateProbe == \A c \in Callers : late[c] <= 1

\* Cancelling the context ends every call, and with a request timeout
\* waitHealthy ends by itself, whatever the daemon does.
CallEnds ==
    \A c \in Callers :
        (ctx[c] = "done" \/ (timeout[c] /\ pc[c] = "wait")) ~> pc[c] = "done"

-----------------------------------------------------------------------------
(* What the documents say and the code does not do.                         *)

\* client/daemon.go: EnsureRunning "waits up to ~30s for the socket to become
\* healthy".
WaitIsBounded ==
    \A c \in Callers : pc[c] = "wait" ~> pc[c] = "done"
=============================================================================
