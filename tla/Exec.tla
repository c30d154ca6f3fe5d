-------------------------------- MODULE Exec --------------------------------
(***************************************************************************)
(* Running commands in one sandbox (packages exec, internal/stdcopy and    *)
(* internal/transport's Hijack).  Several calls share one *Sandbox handle. *)
(* A call inspects the sandbox, optionally starts it, POSTs /exec/attach,  *)
(* reads the hijacked stream through a demultiplexing goroutine and an     *)
(* io.Pipe, and asks the daemon for the exit code when the stream ends.    *)
(*                                                                         *)
(* The daemon, the command and the other users of the sandbox are outside  *)
(* the SDK: their actions say what they can do, never when.                *)
(***************************************************************************)
EXTENDS Naturals, Sequences

CONSTANTS
    Calls,       \* exec calls, each with a context of its own
    Kinds,       \* the entry points and options callers use
    MaxFrames,   \* bound: frames the daemon sends for one command
    ExitCodes,   \* exit codes a command can end with
    Faults       \* what the environment may do besides answering

AllKinds == {"exec", "mux", "interactive", "tty", "detached"}

\* "request": a request fails before or after the daemon acted on it;
\* "empty":   a 2xx answer loses its body; "torn": a stream ends in a payload;
\* "early":   a stream ends though its command still runs;
\* "outside": someone else stops, starts or removes the sandbox;
\* "writer":  a writer passed to WithMultiplexed fails.
AllFaults == {"request", "empty", "torn", "early", "outside", "writer"}

ASSUME ExecAssumption ==
    /\ Kinds \subseteq AllKinds
    /\ Faults \subseteq AllFaults
    /\ MaxFrames \in Nat
    /\ ExitCodes \subseteq Nat

VARIABLES
    (* the SDK *)
    named,      \* the handle still holds the sandbox's name (s.info.Name)
    pc, kind, auto, cancelled, result, out,
    demux, held, streamErr,
    reader, wait, waited, polled,
    (* the daemon and the commands *)
    sandbox, proc, exitCode, sent, wire, ending,
    cut         \* history: the stream ended while its command was running

callVars    == <<pc, kind, auto, result>>
streamVars  == <<demux, held, streamErr>>
sessionVars == <<reader, wait, waited>>
commandVars == <<proc, exitCode, sent>>
connVars    == <<wire, ending>>
vars == <<named, cancelled, out, polled, cut, sandbox,
          callVars, streamVars, sessionVars, commandVars, connVars>>

Frame  == [to : {"out", "err"}, n : 1..MaxFrames]
Errors == {"none", "nil", "request", "notFound", "notRunning", "attach",
           "stream", "execNotFound"}
Result == [err : Errors, code : ExitCodes \cup {0}]
Answer == [err : Errors, running : BOOLEAN, code : ExitCodes \cup {0}]
NoFrame  == [to |-> "none", n |-> 0]
NoResult == [err |-> "none", code |-> 0]
NoAnswer == [err |-> "none", running |-> FALSE, code |-> 0]

Session == {"interactive", "tty"}

\* Where the demultiplexer writes a frame: Exec and a non-TTY session pass
\* io.Discard for stderr, WithMultiplexed two writers; a TTY stream is raw.
Sink_stderrToo(k, f) == IF k = "mux" THEN "writer" ELSE "pipe"   \* mutant
Sink(k, f) ==
    CASE k = "mux"                    -> "writer"
      [] k = "tty" \/ f.to = "out"    -> "pipe"
      [] OTHER                        -> "discard"

\* What a caller is promised of a command's output: both streams from
\* WithMultiplexed, the raw stream of a TTY, and standard output otherwise.
Promised(k, f) == k \in {"mux", "tty"} \/ f.to = "out"

-----------------------------------------------------------------------------
Init ==
    /\ named = TRUE
    /\ pc = [c \in Calls |-> "idle"]
    /\ kind \in [Calls -> Kinds]
    /\ auto \in [Calls -> BOOLEAN]
    /\ cancelled = [c \in Calls |-> FALSE]
    /\ result = [c \in Calls |-> NoResult]
    /\ out = [c \in Calls |-> <<>>]
    /\ demux = [c \in Calls |-> "none"]
    /\ held = [c \in Calls |-> NoFrame]
    /\ streamErr = [c \in Calls |-> "none"]
    /\ reader = [c \in Calls |-> "none"]
    /\ wait = [c \in Calls |-> "none"]
    /\ waited = [c \in Calls |-> NoResult]
    /\ polled = [c \in Calls |-> NoAnswer]
    /\ sandbox \in {"running", "stopped", "absent"}
    /\ proc = [c \in Calls |-> "none"]
    /\ exitCode = [c \in Calls |-> 0]
    /\ sent = [c \in Calls |-> <<>>]
    /\ wire = [c \in Calls |-> <<>>]
    /\ ending = [c \in Calls |-> "none"]
    /\ cut = [c \in Calls |-> FALSE]

\* Every variable keeps to the values the code and the daemon can give it.
TypeOK ==
    /\ named \in BOOLEAN
    /\ pc \in [Calls -> {"idle", "inspect", "start", "hijack", "stream",
                         "session", "inspectExec", "done"}]
    /\ kind \in [Calls -> Kinds]
    /\ auto \in [Calls -> BOOLEAN]
    /\ cancelled \in [Calls -> BOOLEAN]
    /\ result \in [Calls -> Result]
    /\ out \in [Calls -> Seq(Frame)]
    /\ demux \in [Calls -> {"none", "reading", "writing", "done"}]
    /\ held \in [Calls -> Frame \cup {NoFrame}]
    /\ streamErr \in [Calls -> {"none", "nil", "stream"}]
    /\ reader \in [Calls -> {"none", "copying", "eof"}]
    /\ wait \in [Calls -> {"none", "draining", "inspectExec", "returned"}]
    /\ waited \in [Calls -> Result]
    /\ polled \in [Calls -> Answer]
    /\ sandbox \in {"running", "stopped", "absent"}
    /\ proc \in [Calls -> {"none", "running", "exited", "gone"}]
    /\ exitCode \in [Calls -> ExitCodes \cup {0}]
    /\ sent \in [Calls -> Seq(Frame)]
    /\ wire \in [Calls -> Seq(Frame)]
    /\ ending \in [Calls -> {"none", "open", "eof", "torn", "closed"}]
    /\ cut \in [Calls -> BOOLEAN]

-----------------------------------------------------------------------------
(* Requests.  DoJSON answers "404" or "ok"; with an unread body the answer  *)
(* is "empty": nil error and a zero value.  A done context fails a request  *)
(* before it is sent; a fault fails it at any time.                         *)

Replies(c, found) ==
    IF cancelled[c] THEN {"request"}
    ELSE (IF found THEN {"ok"} \cup (Faults \cap {"empty"}) ELSE {"404"})
         \cup (Faults \cap {"request"})

Goto(c, l) == pc' = [pc EXCEPT ![c] = l] /\ UNCHANGED result

Return(c, e, x) ==
    /\ pc' = [pc EXCEPT ![c] = "done"]
    /\ result' = [result EXCEPT ![c] = [err |-> e, code |-> x]]

SandboxFound == named /\ sandbox # "absent"

\* inspectExec: the daemon's record of the command, or ErrExecNotFound.
NotFoundErr_asSandbox == "notFound"   \* mutant: MapError, not mapExecError
NotFoundErr_unmapped == "404"         \* mutant: the transport's error as it is
NotFoundErr == "execNotFound"
ExecAnswer(c, r) ==
    CASE r = "request" -> [err |-> "request", running |-> FALSE, code |-> 0]
      [] r = "404"     -> [err |-> NotFoundErr, running |-> FALSE, code |-> 0]
      [] r = "empty"   -> [err |-> "nil", running |-> FALSE, code |-> 0]
      [] r = "ok"      -> [err |-> "nil", running |-> proc[c] = "running",
                           code |-> IF proc[c] = "exited" THEN exitCode[c] ELSE 0]
inspectExec(c) ==
    {ExecAnswer(c, r) : r \in
        Replies(c, SandboxFound /\ proc[c] \in {"running", "exited"})}

\* The deferred Close of the connection.
CloseConn_forgotten(c) == UNCHANGED ending   \* mutant: no deferred Close
CloseConn(c) == ending' = [ending EXCEPT ![c] = "closed"]

-----------------------------------------------------------------------------
(* The call.                                                                *)

Begin(c) ==
    /\ pc[c] = "idle"
    /\ Goto(c, "inspect")
    /\ UNCHANGED <<named, kind, auto, cancelled, out, polled, cut, sandbox,
                   streamVars, sessionVars, commandVars, connVars>>

\* ensureRunnable: Inspect overwrites s.info, so an empty answer takes the
\* name away from the handle and reads as a sandbox that is not running.
Inspect(c) ==
    /\ pc[c] = "inspect"
    /\ \E r \in Replies(c, SandboxFound) :
         LET status == IF r = "ok" THEN sandbox ELSE "" IN
         /\ named' = (named /\ r # "empty")
         /\ \/ r = "request" /\ Return(c, "request", 0)
            \/ r = "404" /\ Return(c, "notFound", 0)
            \/ /\ r \in {"ok", "empty"}
               /\ \/ status = "running" /\ Goto(c, "hijack")
                  \/ status # "running" /\ auto[c] /\ Goto(c, "start")
                  \/ status # "running" /\ ~auto[c] /\ Return(c, "notRunning", 0)
    /\ UNCHANGED <<kind, auto, cancelled, out, polled, cut, sandbox,
                   streamVars, sessionVars, commandVars, connVars>>

\* ensureRunnable with WithAutoStart: POST /start; a failed request may still
\* have started the sandbox.
Start(c) ==
    /\ pc[c] = "start"
    /\ \E r \in Replies(c, SandboxFound) :
         \/ /\ r \in {"ok", "empty"}
            /\ sandbox' = "running"
            /\ Goto(c, "hijack")
         \/ /\ r = "404"
            /\ Return(c, "notFound", 0)
            /\ UNCHANGED sandbox
         \/ /\ r = "request"
            /\ Return(c, "request", 0)
            /\ \/ UNCHANGED sandbox
               \/ ~cancelled[c] /\ SandboxFound /\ sandbox' = "running"
    /\ UNCHANGED <<named, kind, auto, cancelled, out, polled, cut,
                   streamVars, sessionVars, commandVars, connVars>>

\* The daemon accepts the attach and the SDK takes the connection over.
Attached(c) ==
    \/ /\ kind[c] = "detached"
       /\ ending' = [ending EXCEPT ![c] = "closed"]
       /\ Return(c, "nil", 0)
       /\ UNCHANGED demux
    \/ /\ kind[c] # "detached"
       /\ ending' = [ending EXCEPT ![c] = "open"]
       /\ demux' = [demux EXCEPT ![c] = "reading"]
       /\ Goto(c, IF kind[c] \in Session THEN "session" ELSE "stream")

\* transport.Hijack: dial, POST, read the response.  Anything but 101 is a
\* plain error.  The command may have started when the response is lost.
Hijack(c) ==
    /\ pc[c] = "hijack"
    /\ LET accepts == SandboxFound /\ sandbox = "running" IN
       \/ /\ accepts /\ ~cancelled[c]
          /\ proc' = [proc EXCEPT ![c] = "running"]
          /\ \/ Attached(c)
             \/ /\ "request" \in Faults
                /\ Return(c, "request", 0)
                /\ ending' = [ending EXCEPT ![c] = "closed"]
                /\ UNCHANGED demux
       \/ /\ ~accepts /\ ~cancelled[c]
          /\ Return(c, "attach", 0)
          /\ UNCHANGED <<proc, ending, demux>>
       \/ /\ cancelled[c] \/ "request" \in Faults
          /\ Return(c, "request", 0)
          /\ UNCHANGED <<proc, ending, demux>>
    /\ UNCHANGED <<named, kind, auto, cancelled, out, polled, cut, sandbox, held,
                   streamErr, sessionVars, exitCode, sent, wire>>

\* Exec's io.ReadAll takes what the goroutine writes to the pipe.
ReadAll(c) ==
    /\ pc[c] = "stream" /\ kind[c] = "exec"
    /\ demux[c] = "writing"
    /\ out' = [out EXCEPT ![c] = Append(@, held[c])]
    /\ demux' = [demux EXCEPT ![c] = "reading"]
    /\ held' = [held EXCEPT ![c] = NoFrame]
    /\ UNCHANGED <<named, cancelled, polled, cut, sandbox, callVars, streamErr,
                   sessionVars, commandVars, connVars>>

StreamOK_unchecked(c) == TRUE   \* mutant: the copy's error is dropped
StreamOK(c) == streamErr[c] = "nil"

\* The stream is over: a demultiplexing error is returned (and the deferred
\* Close runs), otherwise the exit code is asked for.
StreamDone(c) ==
    /\ pc[c] = "stream"
    /\ demux[c] = "done"
    /\ \/ /\ StreamOK(c)
          /\ Goto(c, "inspectExec")
          /\ UNCHANGED ending
       \/ /\ ~StreamOK(c)
          /\ Return(c, "stream", 0)
          /\ CloseConn(c)
    /\ UNCHANGED <<named, kind, auto, cancelled, out, polled, cut, sandbox,
                   streamVars, sessionVars, commandVars, wire>>

\* Exec ends: the answer's code is returned, its Running field is not read.
FinishExec(c) ==
    /\ pc[c] = "inspectExec"
    /\ \E a \in inspectExec(c) : Return(c, a.err, a.code)
    /\ CloseConn(c)
    /\ UNCHANGED <<named, kind, auto, cancelled, out, polled, cut, sandbox,
                   streamVars, sessionVars, commandVars, wire>>

-----------------------------------------------------------------------------
(* The demultiplexing goroutine (in mux mode, the call itself).             *)

DemuxFrame(c) ==
    /\ demux[c] = "reading"
    /\ wire[c] # <<>>
    /\ LET f == Head(wire[c]) IN
       /\ wire' = [wire EXCEPT ![c] = Tail(@)]
       /\ \/ /\ Sink(kind[c], f) = "pipe"
             /\ demux' = [demux EXCEPT ![c] = "writing"]
             /\ held' = [held EXCEPT ![c] = f]
             /\ UNCHANGED <<out, streamErr>>
          \/ /\ Sink(kind[c], f) = "discard"
             /\ UNCHANGED <<demux, held, out, streamErr>>
          \/ /\ Sink(kind[c], f) = "writer"
             /\ out' = [out EXCEPT ![c] = Append(@, f)]
             /\ UNCHANGED <<demux, held, streamErr>>
          \/ /\ Sink(kind[c], f) = "writer"
             /\ "writer" \in Faults
             /\ demux' = [demux EXCEPT ![c] = "done"]
             /\ streamErr' = [streamErr EXCEPT ![c] = "stream"]
             /\ UNCHANGED <<held, out>>
    /\ UNCHANGED <<named, cancelled, polled, cut, sandbox, callVars, sessionVars,
                   commandVars, ending>>

\* End of file between frames, or inside a frame header, is a clean end; a
\* torn payload or a closed connection is an error.  A raw TTY stream has no
\* frames to tear.
StreamOver_eofOnly(c) == ending[c] = "eof"   \* mutant: errors end nothing
StreamOver(c) == ending[c] \in {"eof", "torn", "closed"}

DemuxEnd(c) ==
    /\ demux[c] = "reading"
    /\ wire[c] = <<>>
    /\ StreamOver(c)
    /\ demux' = [demux EXCEPT ![c] = "done"]
    /\ streamErr' = [streamErr EXCEPT ![c] =
            IF ending[c] = "eof" \/ (ending[c] = "torn" /\ kind[c] = "tty")
            THEN "nil" ELSE "stream"]
    /\ UNCHANGED <<named, cancelled, out, polled, cut, sandbox, callVars, held,
                   sessionVars, commandVars, connVars>>

-----------------------------------------------------------------------------
(* The session: Stdout, Wait and Close may be used from several goroutines. *)

\* The caller starts copying Stdout, as the README does before it calls Wait.
StartReader(c) ==
    /\ pc[c] = "session" /\ reader[c] = "none" /\ wait[c] = "none"
    /\ reader' = [reader EXCEPT ![c] = "copying"]
    /\ UNCHANGED <<named, cancelled, out, polled, cut, sandbox, callVars,
                   streamVars, wait, waited, commandVars, connVars>>

ReaderCopies(c) ==
    /\ reader[c] = "copying"
    /\ \/ /\ demux[c] = "writing"
          /\ out' = [out EXCEPT ![c] = Append(@, held[c])]
          /\ demux' = [demux EXCEPT ![c] = "reading"]
          /\ held' = [held EXCEPT ![c] = NoFrame]
          /\ UNCHANGED reader
       \/ /\ demux[c] = "done"
          /\ reader' = [reader EXCEPT ![c] = "eof"]
          /\ UNCHANGED <<out, demux, held>>
    /\ UNCHANGED <<named, cancelled, polled, cut, sandbox, callVars, streamErr,
                   wait, waited, commandVars, connVars>>

CallWait(c) ==
    /\ pc[c] = "session" /\ wait[c] = "none"
    /\ wait' = [wait EXCEPT ![c] = "draining"]
    /\ UNCHANGED <<named, cancelled, out, polled, cut, sandbox, callVars,
                   streamVars, reader, waited, commandVars, connVars>>

Drained_atOnce(c) == TRUE   \* mutant: Wait asks without draining
Drained(c) == demux[c] = "done"

\* io.Copy(io.Discard, s.stdout): its error, and the context, are ignored.
WaitDrains(c) ==
    /\ wait[c] = "draining"
    /\ \/ /\ demux[c] = "writing"
          /\ demux' = [demux EXCEPT ![c] = "reading"]
          /\ held' = [held EXCEPT ![c] = NoFrame]
          /\ UNCHANGED wait
       \/ /\ Drained(c)
          /\ wait' = [wait EXCEPT ![c] = "inspectExec"]
          /\ UNCHANGED <<demux, held>>
    /\ UNCHANGED <<named, cancelled, out, polled, cut, sandbox, callVars, streamErr,
                   reader, waited, commandVars, connVars>>

WaitReturns(c) ==
    /\ wait[c] = "inspectExec"
    /\ \E a \in inspectExec(c) :
         waited' = [waited EXCEPT ![c] = [err |-> a.err, code |-> a.code]]
    /\ wait' = [wait EXCEPT ![c] = "returned"]
    /\ UNCHANGED <<named, cancelled, out, polled, cut, sandbox, callVars,
                   streamVars, reader, commandVars, connVars>>

\* Close drops what the kernel holds; what bufio read ahead can still be read.
Close(c) ==
    /\ pc[c] = "session"
    /\ ending[c] # "closed"
    /\ ending' = [ending EXCEPT ![c] = "closed"]
    /\ \E n \in 0..Len(wire[c]) :
         wire' = [wire EXCEPT ![c] = SubSeq(@, 1, n)]
    /\ UNCHANGED <<named, cancelled, out, polled, cut, sandbox, callVars,
                   streamVars, sessionVars, commandVars>>

\* InspectExec, with the id ExecDetached returned.
Poll(c) ==
    /\ kind[c] = "detached"
    /\ pc[c] = "done" /\ result[c].err = "nil"
    /\ \E a \in inspectExec(c) : polled' = [polled EXCEPT ![c] = a]
    /\ UNCHANGED <<named, cancelled, out, cut, sandbox, callVars, streamVars,
                   sessionVars, commandVars, connVars>>

Cancel(c) ==
    /\ pc[c] # "idle" /\ ~cancelled[c]
    /\ cancelled' = [cancelled EXCEPT ![c] = TRUE]
    /\ UNCHANGED <<named, out, polled, cut, sandbox, callVars, streamVars,
                   sessionVars, commandVars, connVars>>

-----------------------------------------------------------------------------
(* The command and the other users of the sandbox (external).               *)

\* A frame of output.  What a command has started may go on writing after it
\* exits; what is written when the stream is no longer open reaches nobody.
Emit(c) ==
    /\ proc[c] = "running" \/ (proc[c] = "exited" /\ ending[c] = "open")
    /\ Len(sent[c]) < MaxFrames
    /\ \E to \in {"out", "err"} :
         LET f == [to |-> to, n |-> Len(sent[c]) + 1] IN
         /\ sent' = [sent EXCEPT ![c] = Append(@, f)]
         /\ wire' = IF ending[c] = "open"
                    THEN [wire EXCEPT ![c] = Append(@, f)] ELSE wire
    /\ UNCHANGED <<named, cancelled, out, polled, cut, sandbox, callVars,
                   streamVars, sessionVars, proc, exitCode, ending>>

Exit(c) ==
    /\ proc[c] = "running"
    /\ proc' = [proc EXCEPT ![c] = "exited"]
    /\ \E x \in ExitCodes : exitCode' = [exitCode EXCEPT ![c] = x]
    /\ UNCHANGED <<named, cancelled, out, polled, cut, sandbox, callVars,
                   streamVars, sessionVars, sent, connVars>>

\* The stream ends, some time after its command or, with the fault, before it:
\* between two frames or inside a header ("eof"), or inside a payload.
StreamEnds(c) ==
    /\ ending[c] = "open"
    /\ \/ proc[c] # "running" /\ UNCHANGED cut
       \/ /\ proc[c] = "running" /\ "early" \in Faults
          /\ cut' = [cut EXCEPT ![c] = TRUE]
    /\ \E e \in {"eof"} \cup (Faults \cap {"torn"}) :
         ending' = [ending EXCEPT ![c] = e]
    /\ UNCHANGED <<named, cancelled, out, polled, sandbox, callVars,
                   streamVars, sessionVars, commandVars, wire>>

\* Stopping, removing or losing the sandbox ends its commands; their records
\* may be lost.
EndCommands(fate) ==
    /\ proc' = [c \in Calls |->
            IF proc[c] = "running" \/ (fate = "gone" /\ proc[c] # "none")
            THEN fate ELSE proc[c]]
    /\ \E x \in ExitCodes :
         exitCode' = [c \in Calls |->
            IF proc[c] = "running" /\ fate = "exited" THEN x ELSE exitCode[c]]

SandboxStops ==
    /\ "outside" \in Faults
    /\ sandbox = "running"
    /\ sandbox' = "stopped"
    /\ \E fate \in {"exited", "gone"} : EndCommands(fate)
    /\ UNCHANGED <<named, cancelled, out, polled, cut, callVars, streamVars,
                   sessionVars, sent, connVars>>

SandboxRemoved ==
    /\ "outside" \in Faults
    /\ sandbox # "absent"
    /\ sandbox' = "absent"
    /\ EndCommands("gone")
    /\ UNCHANGED <<named, cancelled, out, polled, cut, callVars, streamVars,
                   sessionVars, sent, connVars>>

SandboxStarts ==
    /\ "outside" \in Faults
    /\ sandbox = "stopped"
    /\ sandbox' = "running"
    /\ UNCHANGED <<named, cancelled, out, polled, cut, callVars, streamVars,
                   sessionVars, commandVars, connVars>>

-----------------------------------------------------------------------------
CallStep(c) ==
    \/ Inspect(c) \/ Start(c) \/ Hijack(c)
    \/ ReadAll(c) \/ StreamDone(c) \/ FinishExec(c)
DemuxStep(c) == DemuxFrame(c) \/ DemuxEnd(c)
WaitStep(c)  == WaitDrains(c) \/ WaitReturns(c)
UserStep(c)  ==
    \/ Begin(c) \/ StartReader(c) \/ CallWait(c) \/ Close(c) \/ Poll(c)
    \/ Cancel(c)
CommandStep(c) == Emit(c) \/ Exit(c) \/ StreamEnds(c)

\* Every call has returned, every session is waited for, read and closed.
Finished(c) ==
    /\ pc[c] \in {"done", "session"}
    /\ pc[c] = "session" => wait[c] = "returned" /\ ending[c] = "closed"
    /\ reader[c] # "copying"
Terminated == (\A c \in Calls : Finished(c)) /\ UNCHANGED vars

Next ==
    \/ \E c \in Calls :
          \/ CallStep(c) \/ DemuxStep(c) \/ WaitStep(c) \/ ReaderCopies(c)
          \/ UserStep(c) \/ CommandStep(c)
    \/ SandboxStops \/ SandboxRemoved \/ SandboxStarts
    \/ Terminated

Spec == Init /\ [][Next]_vars

\* Goroutines that can run do run, and the daemon answers requests.  Nothing
\* is assumed of callers, of commands or of the other users.
FairSpec ==
    /\ Spec
    /\ \A c \in Calls :
         /\ WF_vars(CallStep(c)) /\ WF_vars(DemuxStep(c))
         /\ WF_vars(WaitStep(c)) /\ WF_vars(ReaderCopies(c))

-----------------------------------------------------------------------------
(* Safety.                                                                  *)

\* ErrSandboxNotFound and ErrSandboxNotRunning mean the command never ran, so
\* a caller that branches on them may run it again; a 404 for the exec record
\* must therefore be another error (mapExecError).
RetrySafe ==
    \A c \in Calls :
        result[c].err \in {"notFound", "notRunning"} => proc[c] = "none"

\* Nothing reached the caller twice, out of order or from the stream it did not
\* ask for; nothing it was promised is missing.  A command's frames are numbered
\* as they are sent, so both together say that the caller has exactly the
\* promised frames of the command, as they were sent.
InOrder(c) ==
    /\ \A i, j \in DOMAIN out[c] : i < j => out[c][i].n < out[c][j].n
    /\ \A i \in DOMAIN out[c] :
         /\ Promised(kind[c], out[c][i])
         /\ out[c][i].n \in DOMAIN sent[c] /\ sent[c][out[c][i].n] = out[c][i]
Whole(c) ==
    \A i \in DOMAIN sent[c] :
        Promised(kind[c], sent[c][i]) =>
            \E j \in DOMAIN out[c] : out[c][j] = sent[c][i]
AllShown(c) == InOrder(c) /\ Whole(c)

\* What an exit code is worth: it is that of a command that has ended, unless
\* the stream was cut; then it may also be the zero of a command that runs,
\* because State.Running is not read.
CodeOf(c, x) ==
    /\ x \in {0, exitCode[c]}
    /\ ~cut[c] => proc[c] \in {"exited", "gone"} /\ x = exitCode[c]

\* Exec returns nil, if the stream did not end before its command, only for a
\* command that ran to its end, with that command's exit code and all of the
\* output the caller was promised.  Of a cut stream it returns nil as well,
\* with what had come and at worst the zero code of a running command.
ExecCompleted ==
    \A c \in Calls :
        /\ pc[c] = "done" /\ kind[c] \in {"exec", "mux"} /\ result[c].err = "nil"
        => /\ CodeOf(c, result[c].code)
           /\ ~cut[c] => AllShown(c)

\* Whatever happens to the stream, nothing reaches a caller twice, out of
\* order or from the stream it did not ask for.
OutputInOrder == \A c \in Calls : InOrder(c)

\* A caller that reads Stdout to its end before it calls Wait has all that the
\* command wrote, if the stream did not end before the command.
ReaderComplete ==
    \A c \in Calls :
        /\ reader[c] = "eof" /\ wait[c] = "none"
        /\ streamErr[c] = "nil" /\ ~cut[c]
        => AllShown(c)

\* Wait on a session whose stream ended without an error returns nil only with
\* the exit code of a command that has ended, or with zero if the stream ended
\* before the command.
WaitCompleted ==
    \A c \in Calls :
        /\ wait[c] = "returned" /\ waited[c].err = "nil" /\ streamErr[c] = "nil"
        => CodeOf(c, waited[c].code)

\* Exec leaves nothing behind: when it returns, its goroutine has ended and
\* its connection is closed.
ExecLeavesNothing ==
    \A c \in Calls :
        pc[c] = "done" => demux[c] \in {"none", "done"}
                          /\ ending[c] \in {"none", "closed"}

(* Liveness.                                                                *)

\* Once the stream has ended, cleanly or in the middle of a frame, Exec and
\* Wait return; that the stream ends is up to the daemon and the command.
CallsReturn ==
    \A c \in Calls :
        /\ (pc[c] = "stream" /\ ending[c] \in {"eof", "torn"}) ~> (pc[c] = "done")
        /\ (wait[c] = "draining" /\ ending[c] \in {"eof", "torn"})
               ~> (wait[c] = "returned")

\* Close frees a blocked Wait and the session's goroutine, even when the
\* command never ends.
CloseFreesWait ==
    \A c \in Calls :
        (wait[c] = "draining" /\ ending[c] = "closed")
            ~> (wait[c] = "returned" /\ demux[c] = "done")

-----------------------------------------------------------------------------
(* What the documents say and the code does not do.                         *)

\* exec/attach.go: "Wait drains the stream and returns the exit code."
WaitReturnsExitCode ==
    \A c \in Calls :
        wait[c] = "returned" /\ waited[c].err = "nil"
            => proc[c] \in {"exited", "gone"} /\ waited[c].code = exitCode[c]

\* README, interactive attach: a goroutine copies Stdout while Wait runs.
ReaderSeesEverything ==
    \A c \in Calls :
        reader[c] = "eof" /\ streamErr[c] = "nil"
            => AllShown(c)
=============================================================================
