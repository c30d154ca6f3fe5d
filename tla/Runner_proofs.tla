---------------------------- MODULE Runner_proofs ----------------------------
(***************************************************************************)
(* Proofs about Runner, for every set of exit codes and any amount of      *)
(* output: the safety properties of one shell-out, and that Runner         *)
(* implements ShellOut.  That calls return (CallReturns) is left to TLC.   *)
(***************************************************************************)
EXTENDS Runner, TLAPS

\* Where the goroutines are in relation to the call.
Phases ==
    /\ op = "Capture" => piped
    /\ pc = "start" => child = "none" /\ watcher = "none" /\ err = "nil"
    /\ pc = "reap" => child \in {"running", "ended"}
                      /\ watcher \in {"watching", "interrupted", "closing"}
    /\ pc \in {"collect", "await"} => child = "ended"
    /\ pc = "collect" => watcher \in {"watching", "interrupted", "closing"}
    /\ pc = "await" => watcher = "reported"
    /\ pc = "returned" => /\ child # "running"
                          /\ watcher \in {"none", "reported"}
                          /\ copier # "copying"
    /\ watcher = "closing" => child = "ended"
    /\ child = "none" => /\ copier = "none" /\ watchErr = "nil"
                         /\ pc \in {"start", "returned"}
    /\ child # "none" => copier # "none"

\* Output is only ever cut off by a kill or at the very end of the call.
OutputKept ==
    /\ closed /\ pc # "returned" => child = "ended" /\ exit = -1
    /\ piped /\ copier = "done" /\ ~closed => child = "ended" /\ collected = written
    /\ closed /\ pc = "returned" => exit = -1 \/ err \in {"exit", "ctx", "delay"}
    /\ child = "none" => written = 0 /\ collected = 0

\* The error of Cmd.Wait, in terms of how the child ended.
ErrorKept ==
    /\ pc \in {"collect", "await", "returned"} /\ child = "ended"
           => (err = "exit" <=> exit # 0)
    /\ pc = "collect" => err \in {"nil", "exit"}
    /\ pc = "await" => err # "delay"
    /\ pc \in {"await", "returned"} /\ watchErr = "ctx" => err \in {"exit", "ctx"}
    /\ pc = "returned" /\ child = "none" => err = "ctx"
    /\ pc = "await" /\ err = "ctx" => watchErr = "ctx"
    /\ pc = "returned" /\ child = "ended" /\ err = "ctx" => watchErr = "ctx"

\* Nothing is cut short without a reason.
CauseKept ==
    /\ watchErr = "ctx" => ctx = "done"
    /\ watcher \in {"interrupted", "closing"} => ctx = "done"
    /\ closed => ctx = "done" \/ stalled # "no"
    /\ pc = "returned" /\ err = "delay" => stalled # "no"

\* What the method makes of the error.
Returned ==
    pc = "returned" =>
        /\ ok <=> (err = "nil" \/ (op = "Inherit" /\ err = "exit"))
        /\ code = IF err = "exit" THEN exit ELSE IF err = "nil" THEN 0 ELSE -1

RunnerInv ==
    TypeOK /\ Phases /\ OutputKept /\ ErrorKept /\ CauseKept /\ Returned

-----------------------------------------------------------------------------
\* What a method returns has the type of its results.
LEMMA ReturnType ==
  ASSUME TypeOK, NEW e \in {"nil", "exit", "ctx", "delay"}, ReturnWith(e)
  PROVE  /\ pc' = "returned" /\ err' = e
         /\ code' \in Codes /\ ok' \in BOOLEAN
<1>1. CASE op = "Capture" /\ CaptureResult(e)
  <2>1. code' \in Codes
    BY <1>1, RunnerAssumption DEF CaptureResult, RunnerAssumption, TypeOK
  <2>2. ok' \in BOOLEAN
    BY <1>1, Zenon DEF CaptureResult
  <2>3. QED
    BY <2>1, <2>2 DEF ReturnWith
<1>2. CASE op = "Inherit" /\ InheritResult(e)
  <2>1. code' \in Codes
    BY <1>2, RunnerAssumption DEF InheritResult, RunnerAssumption, TypeOK
  <2>2. ok' \in BOOLEAN
    <3>1. ok' = (e \in {"nil", "exit"})
      BY <1>2 DEF InheritResult
    <3>2. (e \in {"nil", "exit"}) \in BOOLEAN
      OBVIOUS
    <3>3. QED
      BY ONLY <3>1, <3>2, Zenon
  <2>3. QED
    BY <2>1, <2>2 DEF ReturnWith
<1>3. QED
  BY <1>1, <1>2 DEF ReturnWith

\* The initial states satisfy the invariant.
LEMMA InitInv == Init => RunnerInv
<1> SUFFICES ASSUME Init PROVE RunnerInv
  OBVIOUS
<1>1. TypeOK
  <2>1. code \in Codes /\ exit \in Codes
    BY RunnerAssumption DEF Init, RunnerAssumption
  <2>2. written \in 0..MaxWrites /\ collected \in 0..MaxWrites
    BY RunnerAssumption DEF Init, RunnerAssumption
  <2>3. QED
    BY <2>1, <2>2 DEF Init, TypeOK
<1>2. Phases
  BY DEF Init, Phases
<1>3. OutputKept /\ ErrorKept /\ CauseKept /\ Returned
  BY DEF Init, OutputKept, ErrorKept, CauseKept, Returned
<1>4. QED
  BY <1>1, <1>2, <1>3 DEF RunnerInv

\* Every step of the call, of the goroutines and of the environment keeps the
\* variables in their types.
LEMMA TypeStep == TypeOK /\ [Next]_vars => TypeOK'
<1> SUFFICES ASSUME TypeOK, [Next]_vars PROVE TypeOK'
  OBVIOUS
<1> USE RunnerAssumption
    DEF RunnerAssumption, TypeOK, callVars, watchVars, copyVars, childVars
<1>1. CASE StartFails
  BY <1>1, ReturnType DEF StartFails
<1>2. CASE Start
  BY <1>2 DEF Start
<1>3. CASE Reap
  BY <1>3 DEF Reap, Reapable
<1>4. CASE Collect
  BY <1>4 DEF Collect, Combined
<1>5. CASE AwaitCopies
  BY <1>5, ReturnType DEF AwaitCopies
<1>6. CASE AwaitDelay
  BY <1>6, ReturnType DEF AwaitDelay
<1>7. CASE Interrupt
  BY <1>7 DEF Interrupt
<1>8. CASE Kill
  BY <1>8 DEF Kill
<1>9. CASE Copy
  BY <1>9 DEF Copy
<1>10. CASE CopyEnds
  BY <1>10 DEF CopyEnds
<1>11. CASE Write
  BY <1>11 DEF Write
<1>12. CASE Exit
  BY <1>12 DEF Exit
<1>13. CASE Stall
  BY <1>13 DEF Stall
<1>14. CASE Unstall
  BY <1>14 DEF Unstall
<1>15. CASE CtxDone
  BY <1>15 DEF CtxDone
<1>16. CASE UNCHANGED vars
  BY <1>16 DEF vars
<1>17. QED
  BY <1>1, <1>2, <1>3, <1>4, <1>5, <1>6, <1>7, <1>8,
     <1>9, <1>10, <1>11, <1>12, <1>13, <1>14, <1>15, <1>16
     DEF Next, CallStep, WatchStep, CopyStep, Outside, Terminated

\* Every step keeps the whole invariant.
LEMMA InvStep == RunnerInv /\ [Next]_vars => RunnerInv'
<1> SUFFICES ASSUME RunnerInv, [Next]_vars PROVE RunnerInv'
  OBVIOUS
<1>0. TypeOK'
  BY TypeStep DEF RunnerInv
<1> USE RunnerAssumption, <1>0
    DEF RunnerAssumption, RunnerInv, TypeOK, Phases, OutputKept, ErrorKept,
        CauseKept, Returned,
        callVars, watchVars, copyVars, childVars
<1>1. CASE StartFails
  BY <1>1 DEF StartFails, ReturnWith, CaptureResult, InheritResult
<1>2. CASE Start
  BY <1>2 DEF Start
<1>3. CASE Reap
  BY <1>3 DEF Reap, Reapable
<1>4. CASE Collect
  BY <1>4 DEF Collect, Combined
<1>5. CASE AwaitCopies
  BY <1>5 DEF AwaitCopies, ReturnWith, CaptureResult, InheritResult
<1>6. CASE AwaitDelay
  BY <1>6 DEF AwaitDelay, ReturnWith, CaptureResult, InheritResult, DelayElapses
<1>7. CASE Interrupt
  BY <1>7 DEF Interrupt
<1>8. CASE Kill
  BY <1>8 DEF Kill
<1>9. CASE Copy
  BY <1>9 DEF Copy
<1>10. CASE CopyEnds
  BY <1>10 DEF CopyEnds
<1>11. CASE Write
  BY <1>11 DEF Write
<1>12. CASE Exit
  BY <1>12 DEF Exit
<1>13. CASE Stall
  BY <1>13 DEF Stall
<1>14. CASE Unstall
  BY <1>14 DEF Unstall
<1>15. CASE CtxDone
  BY <1>15 DEF CtxDone
<1>16. CASE UNCHANGED vars
  BY <1>16 DEF vars
<1>17. QED
  BY <1>1, <1>2, <1>3, <1>4, <1>5, <1>6, <1>7, <1>8,
     <1>9, <1>10, <1>11, <1>12, <1>13, <1>14, <1>15, <1>16
     DEF Next, CallStep, WatchStep, CopyStep, Outside, Terminated

\* The invariant holds in every reachable state.
THEOREM Invariance == Spec => []RunnerInv
<1>1. Init => RunnerInv
  BY InitInv
<1>2. RunnerInv /\ [Next]_vars => RunnerInv'
  BY InvStep
<1>3. QED
  BY <1>1, <1>2, PTL DEF Spec

-----------------------------------------------------------------------------
\* Type correctness of every reachable state of Runner.
THEOREM TypeCorrect == Spec => []TypeOK
  BY Invariance, PTL DEF RunnerInv

\* A captured nil error means a child that exited 0 and whose whole output is
\* in the returned string (CaptureStdin), for any amount of output.
THEOREM NilIsSuccess == Spec => []NilMeansSuccess
<1>1. RunnerInv => NilMeansSuccess
  BY DEF RunnerInv, TypeOK, Phases, OutputKept, ErrorKept, Returned, NilMeansSuccess
<1>2. QED
  BY <1>1, Invariance, PTL

\* A failing child is never reported as anything but its own exit code.
THEOREM FailureIsKept == Spec => []FailureKept
<1>1. RunnerInv => FailureKept
  BY RunnerAssumption
     DEF RunnerInv, TypeOK, ErrorKept, Returned, FailureKept, RunnerAssumption
<1>2. QED
  BY <1>1, Invariance, PTL

\* When CaptureStdin or Inherit returns, its child has ended.
THEOREM ChildIsReaped == Spec => []NoChildLeft
<1>1. RunnerInv => NoChildLeft
  BY DEF RunnerInv, Phases, NoChildLeft
<1>2. QED
  BY <1>1, Invariance, PTL

\* WaitDelay and the context watcher leave a well-behaved call alone.
THEOREM DelayIsHarmless == Spec => []WellBehavedUntouched
<1>1. RunnerInv => WellBehavedUntouched
  <2> SUFFICES ASSUME RunnerInv, pc = "returned", child = "ended",
                      ctx = "live", stalled = "no"
               PROVE  /\ code = exit
                      /\ ok = (exit = 0 \/ op = "Inherit")
                      /\ piped => collected = written
    BY DEF WellBehavedUntouched
  <2>1. err \in {"nil", "exit"} /\ (err = "exit" <=> exit # 0)
    BY DEF RunnerInv, TypeOK, ErrorKept, CauseKept
  <2>2. code = exit
    BY <2>1 DEF RunnerInv, Returned
  <2>3. ok <=> (exit = 0 \/ op = "Inherit")
    BY <2>1 DEF RunnerInv, Returned
  <2>4. piped => collected = written
    BY DEF RunnerInv, TypeOK, Phases, OutputKept, CauseKept
  <2>5. QED
    BY <2>2, <2>3, <2>4 DEF RunnerInv, TypeOK
<1>2. QED
  BY <1>1, Invariance, PTL

\* A call that was cancelled never reports success for a child that exited 0
\* on the interrupt.
THEOREM CancelIsReported == Spec => []CancelReported
<1>1. RunnerInv => CancelReported
  BY DEF RunnerInv, TypeOK, Phases, ErrorKept, Returned, CancelReported
<1>2. QED
  BY <1>1, Invariance, PTL

-----------------------------------------------------------------------------
\* While the call has not returned its callers see nothing of it.
LEMMA AnsweredPending == pc # "returned" => Answered = Abstract!Pending
  BY DEF Answered, Abstract!Pending, Abstract!Answer

\* Runner implements the contract its callers rely on: every step of the call
\* and of its goroutines is a step of ShellOut or invisible.
THEOREM Refinement == Spec => ImplementsShellOut
<1>1. Init => Abstract!Init
  BY AnsweredPending DEF Init, Abstract!Init
<1>2. ASSUME RunnerInv, RunnerInv', [Next]_vars
      PROVE  [Abstract!Next]_(Abstract!vars)
  <2> USE <1>2 DEF callVars, watchVars, copyVars, childVars
  <2>1. CASE StartFails
    <3>1. child = "none" /\ Answered = Abstract!Pending
      BY <2>1, AnsweredPending DEF StartFails, RunnerInv, Phases
    <3>2. pc' = "returned" /\ err' = "ctx" /\ UNCHANGED <<child, exit>>
      BY <2>1 DEF StartFails, ReturnWith
    <3>3. ~ok'
      BY <3>2 DEF RunnerInv, Returned
    <3>4. Answered' = Abstract!Answer("lost", 0)
      BY <3>2, <3>3 DEF Answered, Abstract!Answer
    <3>5. QED
      BY <3>1, <3>2, <3>4 DEF Abstract!Next, Abstract!Refuse
  <2>2. CASE Start
    <3>1. child = "none" /\ Answered = Abstract!Pending /\ Answered' = Abstract!Pending
      BY <2>2, AnsweredPending DEF Start, RunnerInv, Phases, Answered,
         Abstract!Pending, Abstract!Answer
    <3>2. QED
      BY <2>2, <3>1 DEF Start, Abstract!Next, Abstract!Launch
  <2>3. CASE AwaitCopies \/ AwaitDelay
    <3>1. pc = "await" /\ child = "ended" /\ Answered = Abstract!Pending
      BY <2>3, AnsweredPending DEF AwaitCopies, AwaitDelay, RunnerInv, Phases
    <3>2. pc' = "returned" /\ UNCHANGED <<child, exit>>
      BY <2>3 DEF AwaitCopies, AwaitDelay, ReturnWith
    <3>3. /\ err' = "exit" <=> exit # 0
          /\ err' = "exit" => code' = exit
      BY <3>1, <3>2 DEF RunnerInv, ErrorKept, Returned
    <3>4. exit = 0 => Answered' \in {Abstract!Answer("nil", 0), Abstract!Answer("lost", 0)}
      BY <3>2, <3>3 DEF Answered, Abstract!Answer
    <3>5. exit # 0 => Answered' = Abstract!Answer("failed", exit)
      BY <3>2, <3>3 DEF Answered, Abstract!Answer
    <3>6. QED
      BY <3>1, <3>2, <3>4, <3>5 DEF Abstract!Next, Abstract!Return
  <2>4. CASE Exit \/ Kill
    <3>1. child = "running" /\ child' = "ended" /\ exit' \in Codes
      BY <2>4, RunnerAssumption DEF Exit, Kill, RunnerAssumption
    <3>2. UNCHANGED Answered
      BY <2>4 DEF Exit, Kill, Answered
    <3>3. QED
      BY <3>1, <3>2 DEF Abstract!Next, Abstract!End
  <2>5. CASE Reap \/ Collect
    <3>1. UNCHANGED <<child, exit>> /\ pc # "returned" /\ pc' # "returned"
      BY <2>5 DEF Reap, Collect
    <3>2. QED
      BY <3>1 DEF Answered, Abstract!vars
  <2>6. CASE WatchStep \/ CopyStep \/ Outside \/ UNCHANGED vars
    <3>1. CASE Exit \/ Kill
      BY <2>4, <3>1
    <3>2. CASE ~(Exit \/ Kill)
      BY <2>6, <3>2 DEF WatchStep, CopyStep, Outside, Interrupt, Copy, CopyEnds,
         Write, Stall, Unstall, CtxDone, Answered, vars, Abstract!vars
    <3>3. QED
      BY <3>1, <3>2
  <2>7. QED
    BY <2>1, <2>2, <2>3, <2>5, <2>6 DEF Next, CallStep, Terminated
<1>3. QED
  BY <1>1, <1>2, Invariance, PTL DEF Spec, ImplementsShellOut, Abstract!Spec
=============================================================================
