------------------------------- MODULE Runner -------------------------------
(***************************************************************************)
(* One call of cli.Runner: CaptureStdin or Inherit, down to the goroutines *)
(* of os/exec's Cmd.Run it configures with Cancel and WaitDelay.  Goroutine*)
(* interleavings: the call (start, reap, collect, await), the context      *)
(* watcher, the copying goroutines, the child and whatever the child left  *)
(* behind.  os/exec, the child and its descendants are external.           *)
(***************************************************************************)
EXTENDS Integers

CONSTANTS
    Codes,       \* exit codes of the child; -1 is a death by signal
    MaxWrites,   \* bound: chunks of output the child writes
    Ops          \* {"Capture", "Inherit"} or one of them

ASSUME RunnerAssumption ==
    /\ Codes \subseteq Int /\ {0, -1} \subseteq Codes
    /\ MaxWrites \in Nat
    /\ Ops \subseteq {"Capture", "Inherit"}

VARIABLES
    op,          \* the method called
    piped,       \* stdio goes through pipes and copying goroutines
    pc,          \* where the calling goroutine is
    err,         \* the error Cmd.Wait has so far: "nil", "exit", "ctx", "delay"
    code, ok,    \* what the method returned: exit code, and nil error or not
    ctx,         \* "live" or "done"
    watcher,     \* the goroutine watching the context
    watchErr,    \* what it will report
    copier,      \* the copying goroutines: "none", "copying", "done"
    closed,      \* the parent's pipe ends were closed by a WaitDelay
    child, exit, \* the process and how it ended
    stalled,     \* a grandchild of the call holds the pipes
                 \* keeps a copying goroutine: "no", "yes", "over"
    written, collected

callVars  == <<pc, err, code, ok>>
watchVars == <<watcher, watchErr>>
copyVars  == <<copier, closed, collected>>
childVars == <<child, exit, written>>
vars == <<op, piped, ctx, stalled, callVars, watchVars, copyVars, childVars>>

Init ==
    /\ op \in Ops
    /\ piped \in BOOLEAN /\ (op = "Capture" => piped)
    /\ pc = "start" /\ err = "nil" /\ code = 0 /\ ok = FALSE
    /\ ctx \in {"live", "done"}
    /\ watcher = "none" /\ watchErr = "nil"
    /\ copier = "none" /\ closed = FALSE
    /\ child = "none" /\ exit = 0
    /\ stalled = "no"
    /\ written = 0 /\ collected = 0

\* Every variable keeps to the values the code and os/exec can give it.
TypeOK ==
    /\ op \in Ops /\ piped \in BOOLEAN
    /\ pc \in {"start", "reap", "collect", "await", "returned"}
    /\ err \in {"nil", "exit", "ctx", "delay"}
    /\ code \in Codes /\ ok \in BOOLEAN
    /\ ctx \in {"live", "done"}
    /\ watcher \in {"none", "watching", "interrupted", "closing", "reported"}
    /\ watchErr \in {"nil", "ctx"}
    /\ copier \in {"none", "copying", "done"}
    /\ closed \in BOOLEAN
    /\ child \in {"none", "running", "ended"}
    /\ exit \in Codes
    /\ stalled \in {"no", "yes", "over"}
    /\ written \in 0..MaxWrites /\ collected \in 0..MaxWrites

-----------------------------------------------------------------------------
(* The methods' last lines: how an error of Cmd.Run becomes a result.       *)

\* CaptureStdin: nil only for nil; otherwise *Error with the child's code, or
\* with -1 when the error is not an ExitError.
CaptureResult_ignoreDelay(e) ==   \* mutant: ErrWaitDelay taken for success
    /\ ok' = (e \in {"nil", "delay"})
    /\ code' = IF e = "exit" THEN exit ELSE IF e = "ctx" THEN -1 ELSE 0
CaptureResult_rawStatus(e) ==     \* mutant: the wait status, not the exit code
    /\ ok' = (e = "nil")
    /\ code' = IF e = "exit" THEN exit * 256 ELSE IF e = "nil" THEN 0 ELSE -1
CaptureResult(e) ==
    /\ ok' = (e = "nil")
    /\ code' = IF e = "exit" THEN exit ELSE IF e = "nil" THEN 0 ELSE -1

\* Inherit: a non-zero exit is (code, nil); anything else is (-1, error).
InheritResult(e) ==
    /\ ok' = (e \in {"nil", "exit"})
    /\ code' = IF e = "exit" THEN exit ELSE IF e = "nil" THEN 0 ELSE -1

ReturnWith(e) ==
    /\ pc' = "returned"
    /\ err' = e
    /\ \/ op = "Capture" /\ CaptureResult(e)
       \/ op = "Inherit" /\ InheritResult(e)

-----------------------------------------------------------------------------
(* The call: Cmd.Run.                                                       *)

\* A context that is done, or a binary that cannot run, starts no child.
StartFails ==
    /\ pc = "start"
    /\ ReturnWith("ctx")
    /\ UNCHANGED <<op, piped, ctx, stalled, watchVars, copyVars, childVars>>

Start ==
    /\ pc = "start" /\ ctx = "live"
    /\ pc' = "reap"
    /\ child' = "running"
    /\ watcher' = "watching"
    /\ copier' = IF piped THEN "copying" ELSE "done"
    /\ UNCHANGED <<op, piped, ctx, stalled, err, code, ok, watchErr, closed,
                   collected, exit, written>>

Reapable == child = "ended"

\* Process.Wait: the exit status is the first candidate for the error.
Reap ==
    /\ pc = "reap" /\ Reapable
    /\ pc' = "collect"
    /\ err' = IF exit = 0 THEN "nil" ELSE "exit"
    /\ UNCHANGED <<op, piped, ctx, stalled, code, ok, watchVars, copyVars,
                   childVars>>

Combined_ctxWins(e, w) == IF w = "ctx" THEN w ELSE e   \* mutant
Combined(e, w) == IF e = "nil" THEN w ELSE e

\* The watcher's report replaces a nil error.  A watcher that closed the
\* pipes has waited for the copying goroutines itself.
Collect ==
    /\ pc = "collect"
    /\ \/ watcher \in {"watching", "interrupted"}
       \/ watcher = "closing" /\ copier = "done"
    /\ pc' = "await"
    /\ err' = Combined(err, watchErr)
    /\ watcher' = "reported"
    /\ UNCHANGED <<op, piped, ctx, stalled, code, ok, watchErr, copyVars,
                   childVars>>

\* awaitGoroutines: the copies end, or WaitDelay runs out and closes them.
\* WaitDelay (10s) is taken to outlast the copying of what is in the pipes.
AwaitCopies ==
    /\ pc = "await" /\ copier = "done"
    /\ ReturnWith(err)
    /\ UNCHANGED <<op, piped, ctx, stalled, watchVars, copyVars, childVars>>

DelayElapses_never == FALSE   \* mutant: WaitDelay is not set
DelayElapses_early == TRUE    \* mutant: WaitDelay shorter than the copies
DelayElapses == stalled = "yes"

AwaitDelay ==
    /\ pc = "await" /\ copier # "done" /\ DelayElapses
    /\ closed' = TRUE
    /\ copier' = "done"
    /\ ReturnWith(IF err = "nil" THEN "delay" ELSE err)
    /\ UNCHANGED <<op, piped, ctx, stalled, watchVars, collected, childVars>>

-----------------------------------------------------------------------------
(* The watcher: Cancel sends an interrupt, WaitDelay bounds what follows.   *)

\* Cancel fails with ErrProcessDone once the process has been reaped, and the
\* context's error is then not reported.
Interrupt ==
    /\ watcher = "watching" /\ ctx = "done"
    /\ watcher' = "interrupted"
    /\ watchErr' = IF pc = "reap" THEN "ctx" ELSE "nil"
    /\ UNCHANGED <<op, piped, ctx, stalled, callVars, copyVars, childVars>>

\* WaitDelay after the interrupt: kill, and close the pipes still copied from.
\* The delay outlasts the steps of goroutines that can run, so a child that has
\* ended is reaped and collected first.
Kill_never == FALSE   \* mutant: WaitDelay is not set
Kill ==
    /\ watcher = "interrupted" /\ child = "running"
    /\ watcher' = "closing"
    /\ closed' = (copier = "copying")
    /\ child' = "ended" /\ exit' = -1
    /\ UNCHANGED <<op, piped, ctx, stalled, callVars, watchErr, copier,
                   collected, written>>

-----------------------------------------------------------------------------
(* The copying goroutines.                                                  *)

Copy ==
    /\ copier = "copying" /\ ~closed
    /\ collected < written
    /\ collected' = collected + 1
    /\ UNCHANGED <<op, piped, ctx, stalled, callVars, watchVars, copier,
                   closed, childVars>>

CopyEnds ==
    /\ copier = "copying"
    /\ closed \/ (child = "ended" /\ stalled # "yes" /\ collected = written)
    /\ copier' = "done"
    /\ UNCHANGED <<op, piped, ctx, stalled, callVars, watchVars, closed,
                   collected, childVars>>

-----------------------------------------------------------------------------
(* The child, its descendants and the caller's context (external).          *)

Write ==
    /\ child = "running" /\ written < MaxWrites
    /\ written' = written + 1
    /\ UNCHANGED <<op, piped, ctx, stalled, callVars, watchVars, copyVars,
                   child, exit>>

\* By itself or because of the interrupt, which it may also ignore.
Exit ==
    /\ child = "running"
    /\ child' = "ended"
    /\ exit' \in Codes
    /\ UNCHANGED <<op, piped, ctx, stalled, callVars, watchVars, copyVars,
                   written>>

\* A grandchild that has inherited the pipes holds them, for as long as it likes.
Stall ==
    /\ child = "running" /\ piped /\ stalled = "no"
    /\ stalled' = "yes"
    /\ UNCHANGED <<op, piped, ctx, callVars, watchVars, copyVars, childVars>>

Unstall ==
    /\ stalled = "yes"
    /\ stalled' = "over"
    /\ UNCHANGED <<op, piped, ctx, callVars, watchVars, copyVars, childVars>>

CtxDone ==
    /\ ctx = "live" /\ pc # "returned"
    /\ ctx' = "done"
    /\ UNCHANGED <<op, piped, stalled, callVars, watchVars, copyVars, childVars>>

-----------------------------------------------------------------------------
CallStep  == StartFails \/ Start \/ Reap \/ Collect \/ AwaitCopies \/ AwaitDelay
WatchStep == Interrupt \/ Kill
CopyStep  == Copy \/ CopyEnds
Outside   == Write \/ Exit \/ Stall \/ Unstall \/ CtxDone

Terminated == pc = "returned" /\ UNCHANGED vars

Next == CallStep \/ WatchStep \/ CopyStep \/ Outside \/ Terminated

Spec == Init /\ [][Next]_vars

\* Goroutines run and timers fire.  The child need not exit, whatever signal
\* but a kill it gets, and what it left behind need not let go of the pipes.
FairSpec ==
    Spec /\ WF_vars(CallStep) /\ WF_vars(WatchStep) /\ WF_vars(CopyStep)

-----------------------------------------------------------------------------
(* Safety.                                                                  *)

\* A captured nil error means the child exited 0 and everything it wrote is in
\* the returned string: callers parse that string and act on it.
NilMeansSuccess ==
    pc = "returned" /\ op = "Capture" /\ ok
        => child = "ended" /\ exit = 0 /\ collected = written

\* A failure is never reported as something else, whatever the context and the
\* delays do meanwhile: the code is the child's own.
FailureKept ==
    pc = "returned" /\ child = "ended" /\ exit # 0
        => code = exit /\ ok = (op = "Inherit")

\* No child outlives the call, even one that ignores the interrupt.
NoChildLeft == pc = "returned" => child # "running"

\* WaitDelay bounds a hang and cuts nothing else short: a call nobody cancels,
\* of a child that leaves nothing behind, ends with the child's code and all of
\* its output, in both methods.
WellBehavedUntouched ==
    pc = "returned" /\ child = "ended" /\ ctx = "live" /\ stalled = "no"
        => /\ code = exit
           /\ ok = (exit = 0 \/ op = "Inherit")
           /\ piped => collected = written

\* Inherit reports a cancelled call by its error or by the child's code; a
\* child that exited 0 on the interrupt is not reported as a success.
CancelReported ==
    pc = "returned" /\ watchErr = "ctx" /\ exit = 0 => ~ok

(* Liveness.                                                                *)

\* README: cancelling a shell-out always returns - also with a child that
\* ignores the interrupt and a grandchild that never lets go of the pipes.  So
\* does a call whose child has ended, with nobody cancelling it.
CallReturns == (ctx = "done" \/ child = "ended") ~> pc = "returned"

(* Refinement: what callers of the Runner rely on.                          *)
Answered ==
    [is   |-> IF pc # "returned" THEN "pending"
              ELSE IF err = "exit" THEN "failed"
              ELSE IF ok THEN "nil" ELSE "lost",
     code |-> IF pc = "returned" /\ err = "exit" THEN code ELSE 0]

Abstract == INSTANCE ShellOut WITH answer <- Answered
ImplementsShellOut == Abstract!Spec

=============================================================================
