---------------------------- MODULE Daemon_proofs ----------------------------
(***************************************************************************)
(* Proofs about Daemon for any number of callers and any set of methods:   *)
(* which answers a method gives, what a nil error is worth, and that the   *)
(* polling overruns its deadline by one probe at most.  That calls end     *)
(* (CallEnds) is left to TLC.                                              *)
(***************************************************************************)
EXTENDS Daemon, TLAPS

Polling == {"wait", "unhealthy", "sleep"}

\* Only the methods that want a healthy daemon poll, and a daemon that is up
\* has been up since the call's last shell-out.
Seen(c) ==
    /\ pc[c] \in Polling \cup {"ensure", "version"} => WaitsForHealth(c)
    /\ pc[c] = "cli" => WaitsForHealth(c) \/ op[c] = "StartDaemon"
    /\ pc[c] = "stop" => op[c] = "StopDaemon"
    /\ pc[c] = "status" => op[c] = "DaemonStatus"
    /\ pc[c] # "idle" /\ daemon = "up" => seen[c]
    /\ pc[c] = "version" => seen[c] /\ op[c] = "NewStrict"
    /\ result[c] = "nil" => pc[c] = "done"
    /\ WaitsForHealth(c) /\ result[c] = "nil" => seen[c]

\* A late probe was sent from the sleep in which the deadline passed.
Late(c) ==
    /\ late[c] \in {0, 1}
    /\ late[c] = 1 => expired[c]
    /\ pc[c] = "sleep" => late[c] = 0

CallInv(c) == Seen(c) /\ Late(c)
DaemonInv == TypeOK /\ \A c \in Callers : CallInv(c)

-----------------------------------------------------------------------------
\* A request is answered only by a daemon that is up.
LEMMA AnswersShape == \A c \in Callers : "ok" \in Answers(c) => daemon = "up"
  BY DEF Answers

\* The initial states satisfy the invariant.
LEMMA InitInv == Init => DaemonInv
<1> SUFFICES ASSUME Init PROVE DaemonInv
  OBVIOUS
<1>1. TypeOK
  BY DEF Init, TypeOK, Results
<1>2. ASSUME NEW c \in Callers PROVE CallInv(c)
  BY <1>2 DEF Init, CallInv, Seen, Late, Polling
<1>3. QED
  BY <1>1, <1>2 DEF DaemonInv

\* A method that returns an answer it has keeps result in its type.
LEMMA ReturnType ==
    ASSUME TypeOK, NEW d \in Callers, UNCHANGED op,
           \/ UNCHANGED result
           \/ \E r \in Answered(op[d]) : result' = [result EXCEPT ![d] = r]
    PROVE  /\ result' \in [Callers -> Results]
           /\ \A c \in Callers : result'[c] \in Answered(op'[c]) \cup {"none"}
<1>1. op[d] \in AllOps
  BY DaemonAssumption DEF TypeOK, DaemonAssumption
<1>2. Answered(op[d]) \subseteq Results
  BY <1>1 DEF AllOps, Answered, Results
<1>3. QED
  BY <1>2 DEF TypeOK

\* What the steps of a call may return, and that the other variables keep to
\* their types.
LEMMA CallType ==
    ASSUME DaemonInv, NEW d \in Callers, CallStep(d)
    PROVE  /\ UNCHANGED op
           /\ \/ UNCHANGED result
              \/ \E r \in Answered(op[d]) : result' = [result EXCEPT ![d] = r]
           /\ daemon' \in {"down", "starting", "up", "hung"} /\ tested' \in BOOLEAN
           /\ pc' \in [Callers -> {"idle", "ensure", "cli", "wait", "unhealthy",
                                  "sleep", "version", "status", "stop", "done"}]
           /\ seen' \in [Callers -> BOOLEAN] /\ late' \in [Callers -> Nat]
           /\ UNCHANGED <<timeout, ctx, expired>>
<1>0. TypeOK /\ Seen(d)
  BY DEF DaemonInv, CallInv
<1> USE <1>0 DEF TypeOK, Seen, WaitsForHealth, Polling, Answered, callVars
<1>1. CASE Ensure(d)
  BY <1>1 DEF Ensure, Healthy, Goto, Return
<1>2. CASE RunCLI(d)
  BY <1>2 DEF RunCLI, AfterCLI, Goto, Return
<1>3. CASE Probe(d)
  BY <1>3 DEF Probe, Healthy, Goto, Return
<1>4. CASE CheckDeadline(d)
  BY <1>4 DEF CheckDeadline, Overdue, Goto, Return
<1>5. CASE Sleep(d)
  BY <1>5 DEF Sleep, Goto, Return
<1>6. CASE Version(d)
  BY <1>6 DEF Version, Return
<1>7. CASE DaemonStatus(d)
  BY <1>7 DEF DaemonStatus, ProbeFailed, Return
<1>8. CASE StopDaemon(d)
  BY <1>8 DEF StopDaemon, Return
<1>9. QED
  BY <1>1, <1>2, <1>3, <1>4, <1>5, <1>6, <1>7, <1>8 DEF CallStep

\* Every step keeps the variables in their types.
LEMMA TypeStep == DaemonInv /\ [Next]_vars => TypeOK'
<1> SUFFICES ASSUME DaemonInv, [Next]_vars PROVE TypeOK'
  OBVIOUS
<1>0. TypeOK
  BY DEF DaemonInv
<1> USE <1>0 DEF TypeOK, callVars
<1>1. ASSUME NEW d \in Callers, Begin(d) PROVE TypeOK'
  <2>1. op[d] \in AllOps
    BY DaemonAssumption DEF DaemonAssumption
  <2>2. \E l \in {"ensure", "cli", "status", "stop"} : Goto(d, l)
    BY <1>1, <2>1 DEF Begin, AllOps
  <2>3. QED
    BY <1>1, <2>2 DEF Begin, Goto
<1>2. ASSUME NEW d \in Callers, CallStep(d) PROVE TypeOK'
  BY <1>2, CallType, ReturnType
<1>3. ASSUME NEW d \in Callers, Deadline(d) PROVE TypeOK'
  BY <1>3 DEF Deadline
<1>4. ASSUME NEW d \in Callers, CtxDone(d) PROVE TypeOK'
  BY <1>4 DEF CtxDone
<1>5. ASSUME DaemonMoves PROVE TypeOK'
  BY <1>5 DEF DaemonMoves
<1>6. ASSUME OthersStart PROVE TypeOK'
  BY <1>6 DEF OthersStart
<1>7. ASSUME UNCHANGED vars PROVE TypeOK'
  BY <1>7 DEF vars
<1>8. QED
  BY <1>1, <1>2, <1>3, <1>4, <1>5, <1>6, <1>7 DEF Next, Terminated

\* Every step keeps the whole invariant.
LEMMA InvStep == DaemonInv /\ [Next]_vars => DaemonInv'
<1> SUFFICES ASSUME DaemonInv, [Next]_vars PROVE DaemonInv'
  OBVIOUS
<1>0. TypeOK /\ TypeOK' /\ \A c \in Callers : CallInv(c)
  BY TypeStep DEF DaemonInv
<1>op. \A d \in Callers : op[d] \in AllOps
  BY <1>0, DaemonAssumption DEF TypeOK, DaemonAssumption
<1> USE <1>0, DaemonAssumption
    DEF DaemonAssumption, AllOps, TypeOK, CallInv, Seen, Late, Polling,
        WaitsForHealth, callVars
<1>1. ASSUME NEW c \in Callers, NEW d \in Callers, Begin(d) PROVE CallInv(c)'
  <2>1. \/ op[d] \in {"New", "NewStrict", "EnsureRunning"} /\ Goto(d, "ensure")
        \/ op[d] \in {"StartDaemon", "RestartDaemon"} /\ Goto(d, "cli")
        \/ op[d] = "DaemonStatus" /\ Goto(d, "status")
        \/ op[d] = "StopDaemon" /\ Goto(d, "stop")
    BY <1>1, <1>op DEF Begin
  <2>2. Late(c)'
    BY <1>1, <2>1 DEF Begin, Goto
  <2>3. CASE c = d
    <3>1. result[d] # "nil"
      BY <1>1 DEF Begin
    <3>2. UNCHANGED <<daemon, op, result, expired>>
      BY <1>1, <2>1 DEF Begin, Goto
    <3>3. daemon = "up" => seen'[d]
      <4>1. seen' = [seen EXCEPT ![d] = daemon = "up"]
        BY <1>1 DEF Begin
      <4>2. seen \in [Callers -> BOOLEAN]
        BY <1>0
      <4>3. QED
        BY ONLY <1>1, <4>1, <4>2
    <3>4. \/ pc'[d] = "ensure" /\ WaitsForHealth(d)
          \/ pc'[d] = "cli" /\ (WaitsForHealth(d) \/ op[d] = "StartDaemon")
          \/ pc'[d] = "status" /\ op[d] = "DaemonStatus"
          \/ pc'[d] = "stop" /\ op[d] = "StopDaemon"
      BY <2>1 DEF Goto
    <3>5. QED
      BY <2>2, <2>3, <3>1, <3>2, <3>3, <3>4
  <2>4. CASE c # d
    BY <1>1, <2>1, <2>2, <2>4 DEF Begin, Goto
  <2>5. QED
    BY <2>3, <2>4
<1>2. ASSUME NEW c \in Callers, NEW d \in Callers, Ensure(d) PROVE CallInv(c)'
  BY <1>2, AnswersShape DEF Ensure, Healthy, Goto, Return
<1>3. ASSUME NEW c \in Callers, NEW d \in Callers, RunCLI(d) PROVE CallInv(c)'
  BY <1>3 DEF RunCLI, AfterCLI, Goto, Return
<1>4. ASSUME NEW c \in Callers, NEW d \in Callers, Probe(d) PROVE CallInv(c)'
  BY <1>4, AnswersShape DEF Probe, Healthy, Goto, Return
<1>5. ASSUME NEW c \in Callers, NEW d \in Callers, CheckDeadline(d) PROVE CallInv(c)'
  BY <1>5 DEF CheckDeadline, Overdue, Goto, Return
<1>6. ASSUME NEW c \in Callers, NEW d \in Callers, Sleep(d) PROVE CallInv(c)'
  BY <1>6 DEF Sleep, Goto, Return
<1>7. ASSUME NEW c \in Callers, NEW d \in Callers, Version(d) PROVE CallInv(c)'
  BY <1>7, AnswersShape DEF Version, Return
<1>8. ASSUME NEW c \in Callers, NEW d \in Callers, DaemonStatus(d) PROVE CallInv(c)'
  BY <1>8 DEF DaemonStatus, ProbeFailed, Return
<1>9. ASSUME NEW c \in Callers, NEW d \in Callers, StopDaemon(d) PROVE CallInv(c)'
  BY <1>9 DEF StopDaemon, Return
<1>10. ASSUME NEW c \in Callers, NEW d \in Callers, Deadline(d) PROVE CallInv(c)'
  BY <1>10 DEF Deadline
<1>11. ASSUME NEW c \in Callers, NEW d \in Callers, CtxDone(d) PROVE CallInv(c)'
  BY <1>11 DEF CtxDone
<1>12. ASSUME NEW c \in Callers, DaemonMoves PROVE CallInv(c)'
  BY <1>12 DEF DaemonMoves
<1>13. ASSUME NEW c \in Callers, OthersStart PROVE CallInv(c)'
  BY <1>13 DEF OthersStart
<1>14. ASSUME NEW c \in Callers, UNCHANGED vars PROVE CallInv(c)'
  BY <1>14 DEF vars
<1>15. QED
  BY <1>1, <1>2, <1>3, <1>4, <1>5, <1>6, <1>7, <1>8, <1>9, <1>10, <1>11,
     <1>12, <1>13, <1>14
     DEF Next, CallStep, Terminated, DaemonInv

\* The invariant holds in every reachable state.
THEOREM Invariance == Spec => []DaemonInv
<1>1. Init => DaemonInv
  BY InitInv
<1>2. DaemonInv /\ [Next]_vars => DaemonInv'
  BY InvStep
<1>3. QED
  BY <1>1, <1>2, PTL DEF Spec

\* Type correctness of every reachable state of Daemon.
THEOREM TypeCorrect == Spec => []TypeOK
  BY Invariance, PTL DEF DaemonInv

\* When EnsureRunning, New or RestartDaemon returns nil the daemon was up after
\* whatever the call ran.
THEOREM NilIsHealthy == Spec => []NilMeansHealthy
<1>1. DaemonInv => NilMeansHealthy
  BY DEF DaemonInv, CallInv, Seen, NilMeansHealthy
<1>2. QED
  BY <1>1, Invariance, PTL

\* waitHealthy sends at most one probe after its deadline.
THEOREM DeadlineEndsPolling == Spec => []AtMostOneLateProbe
<1>1. DaemonInv => AtMostOneLateProbe
  <2> SUFFICES ASSUME DaemonInv, NEW c \in Callers PROVE late[c] <= 1
    BY DEF AtMostOneLateProbe
  <2>1. late[c] \in {0, 1}
    BY DEF DaemonInv, CallInv, Late
  <2>2. QED
    BY <2>1
<1>2. QED
  BY <1>1, Invariance, PTL
=============================================================================
