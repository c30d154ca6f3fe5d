---------------------------- MODULE Exec_proofs ----------------------------
(***************************************************************************)
(* Proofs about Exec, for any number of calls on one handle, any amount of *)
(* output and any combination of faults: which errors a caller may answer  *)
(* with a second run, that no goroutine or connection outlives a call,     *)
(* what the code that Wait returns is worth, and that the output reaches   *)
(* the caller whole and in order.  Liveness is left to TLC.                *)
(***************************************************************************)
EXTENDS Exec, TLAPS

Labels == {"idle", "inspect", "start", "hijack", "stream", "session",
           "inspectExec", "done"}

\* Nothing of a call exists outside the SDK before it is attached.
NotAttached(c) ==
    pc[c] \in {"idle", "inspect", "start", "hijack"} =>
        /\ proc[c] = "none" /\ ending[c] = "none"
        /\ demux[c] = "none" /\ wait[c] = "none" /\ reader[c] = "none"
        /\ result[c].err = "none"

\* A frame that is being written is a frame; a stream that ended and was not
\* cut belongs to a command that ended.
Streaming(c) ==
    /\ demux[c] = "writing" => held[c] \in Frame
    /\ demux[c] = "done" <=> streamErr[c] # "none"
    /\ ending[c] = "none" => proc[c] = "none"
    /\ ending[c] = "open" => proc[c] # "none" /\ streamErr[c] # "nil"
    /\ ending[c] \in {"eof", "torn"} /\ ~cut[c] => proc[c] \in {"exited", "gone"}
    /\ streamErr[c] = "nil" /\ ~cut[c] => proc[c] \in {"exited", "gone"}
    /\ cut[c] => ending[c] \notin {"none", "open"}

\* What holds of a call that is about to return or has returned.
Ending(c) ==
    /\ pc[c] = "inspectExec" => demux[c] = "done"
    /\ pc[c] = "done" => demux[c] \in {"none", "done"} /\ ending[c] \in {"none", "closed"}
    /\ result[c].err \in {"notFound", "notRunning"} => proc[c] = "none" /\ pc[c] = "done"
    /\ wait[c] \in {"inspectExec", "returned"} => demux[c] = "done"

CallInv(c) == NotAttached(c) /\ Streaming(c) /\ Ending(c)
ExecInv == TypeOK /\ \A c \in Calls : CallInv(c)

-----------------------------------------------------------------------------
\* What InspectExec can answer; with every body read, a nil error is about a
\* command the daemon still has a record of.
LEMMA AnswerShape ==
  ASSUME TypeOK, NEW c \in Calls, NEW a \in inspectExec(c)
  PROVE  /\ a \in Answer
         /\ a.err \in {"request", "execNotFound", "nil"}
         /\ "empty" \notin Faults /\ a.err = "nil" =>
                proc[c] \in {"running", "exited"}
                /\ a.code = IF proc[c] = "exited" THEN exitCode[c] ELSE 0
<1>1. PICK r \in Replies(c, SandboxFound /\ proc[c] \in {"running", "exited"}) :
           a = ExecAnswer(c, r)
  BY DEF inspectExec
<1>2. r \in {"request", "404", "empty", "ok"}
  BY DEF Replies
<1>3. r = "ok" => proc[c] \in {"running", "exited"}
  BY DEF Replies
<1>4. r = "empty" => "empty" \in Faults
  BY DEF Replies
<1>5. proc[c] \in {"none", "running", "exited", "gone"} /\ exitCode[c] \in ExitCodes \cup {0}
  BY DEF TypeOK
<1>6. CASE r \in {"request", "404", "empty"}
  BY <1>1, <1>4, <1>6 DEF ExecAnswer, NotFoundErr, Answer, Errors
<1>7. CASE r = "ok"
  <2>1. a = [err |-> "nil", running |-> proc[c] = "running",
             code |-> IF proc[c] = "exited" THEN exitCode[c] ELSE 0]
    BY <1>1, <1>7 DEF ExecAnswer
  <2>2. (proc[c] = "running") \in BOOLEAN
    OBVIOUS
  <2>3. QED
    BY <2>1, <2>2, <1>3, <1>5, <1>7 DEF Answer, Errors
<1>8. QED
  BY <1>2, <1>6, <1>7

\* A call moves between the labels of its code and returns what its type allows.
LEMMA CallTyped ==
  ASSUME TypeOK, NEW c \in Calls,
         (\E l \in Labels : Goto(c, l))
           \/ \E e \in Errors, x \in ExitCodes \cup {0} : Return(c, e, x)
  PROVE  pc' \in [Calls -> Labels] /\ result' \in [Calls -> Result]
<1>1. CASE \E l \in Labels : Goto(c, l)
  BY <1>1 DEF TypeOK, Labels, Goto
<1>2. ASSUME NEW e \in Errors, NEW x \in ExitCodes \cup {0}, Return(c, e, x)
      PROVE  pc' \in [Calls -> Labels] /\ result' \in [Calls -> Result]
  <2>1. [err |-> e, code |-> x] \in Result
    BY DEF Result
  <2>2. QED
    BY <1>2, <2>1 DEF TypeOK, Labels, Return
<1>3. QED
  BY <1>1, <1>2

\* The initial states satisfy the invariant.
LEMMA InitInv == Init => ExecInv
<1> SUFFICES ASSUME Init PROVE ExecInv
  OBVIOUS
<1>1. TypeOK
  BY ExecAssumption
     DEF Init, TypeOK, ExecAssumption, NoResult, NoAnswer, NoFrame,
         Result, Answer, Errors, Frame
<1>2. ASSUME NEW c \in Calls PROVE CallInv(c)
  BY <1>2 DEF Init, CallInv, NotAttached, Streaming, Ending, NoResult
<1>3. QED
  BY <1>1, <1>2 DEF ExecInv

\* Every step keeps the variables in their types.
LEMMA TypeStep == ExecInv /\ [Next]_vars => TypeOK'
<1> SUFFICES ASSUME ExecInv, [Next]_vars PROVE TypeOK'
  OBVIOUS
<1>0. TypeOK /\ \A c \in Calls : demux[c] = "writing" => held[c] \in Frame
  BY DEF ExecInv, CallInv, Streaming
<1>t. /\ demux \in [Calls -> {"none", "reading", "writing", "done"}]
      /\ held \in [Calls -> Frame \cup {NoFrame}]
      /\ ending \in [Calls -> {"none", "open", "eof", "torn", "closed"}]
      /\ reader \in [Calls -> {"none", "copying", "eof"}]
      /\ wait \in [Calls -> {"none", "draining", "inspectExec", "returned"}]
      /\ out \in [Calls -> Seq(Frame)]
  BY <1>0 DEF TypeOK
<1> USE <1>0, ExecAssumption
    DEF TypeOK, ExecAssumption, NoFrame, Result, Errors,
        callVars, streamVars, sessionVars, commandVars, connVars
<1>1. ASSUME NEW d \in Calls, Begin(d) PROVE TypeOK'
  BY <1>1 DEF Begin, Goto
<1>2. ASSUME NEW d \in Calls, Inspect(d) PROVE TypeOK'
  <2>1. (\E l \in Labels : Goto(d, l))
          \/ \E e \in Errors, x \in ExitCodes \cup {0} : Return(d, e, x)
    BY <1>2 DEF Inspect, Labels
  <2>2. pc' \in [Calls -> Labels] /\ result' \in [Calls -> Result]
    BY ONLY <1>0, <1>2, <2>1, CallTyped
  <2>3. QED
    BY <1>2, <2>2 DEF Inspect, Labels, Replies
<1>3. ASSUME NEW d \in Calls, Start(d) PROVE TypeOK'
  <2>1. (\E l \in Labels : Goto(d, l))
          \/ \E e \in Errors, x \in ExitCodes \cup {0} : Return(d, e, x)
    BY <1>3 DEF Start, Labels
  <2>2. pc' \in [Calls -> Labels] /\ result' \in [Calls -> Result]
    BY ONLY <1>0, <1>3, <2>1, CallTyped
  <2>3. QED
    BY <1>3, <2>2 DEF Start, Labels, Replies, SandboxFound
<1>4. ASSUME NEW d \in Calls, Hijack(d) PROVE TypeOK'
  <2>1. (\E l \in Labels : Goto(d, l))
          \/ \E e \in Errors, x \in ExitCodes \cup {0} : Return(d, e, x)
    BY <1>4 DEF Hijack, Labels, Attached
  <2>2. pc' \in [Calls -> Labels] /\ result' \in [Calls -> Result]
    BY ONLY <1>0, <1>4, <2>1, CallTyped
  <2>3. proc' \in [Calls -> {"none", "running", "exited", "gone"}]
    BY <1>4 DEF Hijack
  <2>4. ending' \in [Calls -> {"none", "open", "eof", "torn", "closed"}]
    <3>1. ending' = ending \/ ending' = [ending EXCEPT ![d] = "closed"]
            \/ ending' = [ending EXCEPT ![d] = "open"]
      BY <1>4 DEF Hijack, Attached
    <3>2. QED
      BY ONLY <1>t, <3>1
  <2>5. demux' \in [Calls -> {"none", "reading", "writing", "done"}]
    <3>1. demux' = demux \/ demux' = [demux EXCEPT ![d] = "reading"]
      BY <1>4 DEF Hijack, Attached
    <3>2. QED
      BY ONLY <1>t, <3>1
  <2>6. QED
    BY <1>4, <2>2, <2>3, <2>4, <2>5 DEF Hijack, Labels
<1>5. ASSUME NEW d \in Calls, ReadAll(d) PROVE TypeOK'
  BY <1>5 DEF ReadAll
<1>6. ASSUME NEW d \in Calls, StreamDone(d) PROVE TypeOK'
  <2>1. (\E l \in Labels : Goto(d, l))
          \/ \E e \in Errors, x \in ExitCodes \cup {0} : Return(d, e, x)
    BY <1>6 DEF StreamDone, Labels
  <2>2. pc' \in [Calls -> Labels] /\ result' \in [Calls -> Result]
    BY ONLY <1>0, <1>6, <2>1, CallTyped
  <2>3. ending' \in [Calls -> {"none", "open", "eof", "torn", "closed"}]
    BY <1>6 DEF StreamDone, CloseConn
  <2>4. UNCHANGED <<named, kind, auto, cancelled, out, polled, cut, sandbox,
                    streamVars, sessionVars, commandVars, wire>>
    BY <1>6 DEF StreamDone
  <2>5. QED
    BY <2>2, <2>3, <2>4 DEF Labels
<1>7. ASSUME NEW d \in Calls, FinishExec(d) PROVE TypeOK'
  <2>1. PICK a \in inspectExec(d) : Return(d, a.err, a.code)
    BY <1>7 DEF FinishExec
  <2>2. a.err \in Errors /\ a.code \in ExitCodes \cup {0}
    BY AnswerShape DEF Answer
  <2>3. pc' \in [Calls -> Labels] /\ result' \in [Calls -> Result]
    BY ONLY <1>0, <1>7, <2>1, <2>2, CallTyped
  <2>4. ending' \in [Calls -> {"none", "open", "eof", "torn", "closed"}]
    BY <1>7 DEF FinishExec, CloseConn
  <2>5. UNCHANGED <<named, kind, auto, cancelled, out, polled, cut, sandbox,
                    streamVars, sessionVars, commandVars, wire>>
    BY <1>7 DEF FinishExec
  <2>6. QED
    BY <2>3, <2>4, <2>5 DEF Labels
<1>8. ASSUME NEW d \in Calls, DemuxFrame(d) PROVE TypeOK'
  <2>1. Head(wire[d]) \in Frame /\ Tail(wire[d]) \in Seq(Frame)
    BY <1>8 DEF DemuxFrame
  <2>2. Append(out[d], Head(wire[d])) \in Seq(Frame)
    BY <2>1
  <2>3. wire' \in [Calls -> Seq(Frame)]
    BY <1>8, <2>1 DEF DemuxFrame
  <2>4. out' \in [Calls -> Seq(Frame)]
    <3>1. out' = out \/ out' = [out EXCEPT ![d] = Append(@, Head(wire[d]))]
      BY <1>8 DEF DemuxFrame
    <3>2. QED
      BY ONLY <1>t, <2>2, <3>1
  <2>5. held' \in [Calls -> Frame \cup {NoFrame}]
    <3>1. held' = [held EXCEPT ![d] = Head(wire[d])] \/ held' = held
      BY <1>8 DEF DemuxFrame
    <3>2. QED
      BY ONLY <1>t, <2>1, <3>1
  <2>6. demux' \in [Calls -> {"none", "reading", "writing", "done"}]
    <3>1. demux' = demux \/ demux' = [demux EXCEPT ![d] = "writing"]
            \/ demux' = [demux EXCEPT ![d] = "done"]
      BY <1>8 DEF DemuxFrame
    <3>2. QED
      BY ONLY <1>t, <3>1
  <2>7. streamErr' = streamErr \/ streamErr' = [streamErr EXCEPT ![d] = "stream"]
    BY <1>8 DEF DemuxFrame
  <2>8. UNCHANGED <<named, cancelled, polled, cut, sandbox, callVars, sessionVars,
                    commandVars, ending>>
    BY <1>8 DEF DemuxFrame
  <2>9. QED
    BY <2>3, <2>4, <2>5, <2>6, <2>7, <2>8
<1>9. ASSUME NEW d \in Calls, DemuxEnd(d) PROVE TypeOK'
  BY <1>9 DEF DemuxEnd, StreamOver
<1>10. ASSUME NEW d \in Calls, StartReader(d) PROVE TypeOK'
  BY <1>10 DEF StartReader
<1>11. ASSUME NEW d \in Calls, ReaderCopies(d) PROVE TypeOK'
  <2>1. out' \in [Calls -> Seq(Frame)]
    <3>1. out' = out \/ (demux[d] = "writing" /\ out' = [out EXCEPT ![d] = Append(@, held[d])])
      BY <1>11 DEF ReaderCopies
    <3>2. demux[d] = "writing" => Append(out[d], held[d]) \in Seq(Frame)
      OBVIOUS
    <3>3. QED
      BY ONLY <1>t, <3>1, <3>2
  <2>2. demux' = demux \/ demux' = [demux EXCEPT ![d] = "reading"]
    BY <1>11 DEF ReaderCopies
  <2>3. held' = held \/ held' = [held EXCEPT ![d] = NoFrame]
    BY <1>11 DEF ReaderCopies
  <2>4. reader' = reader \/ reader' = [reader EXCEPT ![d] = "eof"]
    BY <1>11 DEF ReaderCopies
  <2>5. demux' \in [Calls -> {"none", "reading", "writing", "done"}]
    BY ONLY <1>t, <2>2
  <2>6. held' \in [Calls -> Frame \cup {NoFrame}]
    BY ONLY <1>t, <2>3
  <2>7. reader' \in [Calls -> {"none", "copying", "eof"}]
    BY <2>4
  <2>8. UNCHANGED <<named, cancelled, polled, cut, sandbox, callVars, streamErr,
                    wait, waited, commandVars, connVars>>
    BY <1>11 DEF ReaderCopies
  <2>9. QED
    BY <2>1, <2>5, <2>6, <2>7, <2>8
<1>12. ASSUME NEW d \in Calls, CallWait(d) PROVE TypeOK'
  BY <1>12 DEF CallWait
<1>13. ASSUME NEW d \in Calls, WaitDrains(d) PROVE TypeOK'
  <2>1. demux' = demux \/ demux' = [demux EXCEPT ![d] = "reading"]
    BY <1>13 DEF WaitDrains
  <2>2. held' = held \/ held' = [held EXCEPT ![d] = NoFrame]
    BY <1>13 DEF WaitDrains
  <2>3. wait' = wait \/ wait' = [wait EXCEPT ![d] = "inspectExec"]
    BY <1>13 DEF WaitDrains
  <2>4. demux' \in [Calls -> {"none", "reading", "writing", "done"}]
    BY ONLY <1>t, <2>1
  <2>5. held' \in [Calls -> Frame \cup {NoFrame}]
    BY ONLY <1>t, <2>2
  <2>6. wait' \in [Calls -> {"none", "draining", "inspectExec", "returned"}]
    BY ONLY <1>t, <2>3
  <2>7. UNCHANGED <<named, cancelled, out, polled, cut, sandbox, callVars, streamErr,
                    reader, waited, commandVars, connVars>>
    BY <1>13 DEF WaitDrains
  <2>8. QED
    BY <2>4, <2>5, <2>6, <2>7
<1>14. ASSUME NEW d \in Calls, WaitReturns(d) PROVE TypeOK'
  <2>1. PICK a \in inspectExec(d) :
             waited' = [waited EXCEPT ![d] = [err |-> a.err, code |-> a.code]]
    BY <1>14 DEF WaitReturns
  <2>2. [err |-> a.err, code |-> a.code] \in Result
    BY AnswerShape DEF Answer
  <2>3. QED
    BY <1>14, <2>1, <2>2 DEF WaitReturns
<1>15. ASSUME NEW d \in Calls, Close(d) PROVE TypeOK'
  BY <1>15 DEF Close
<1>16. ASSUME NEW d \in Calls, Poll(d) PROVE TypeOK'
  BY <1>16, AnswerShape DEF Poll
<1>17. ASSUME NEW d \in Calls, Cancel(d) PROVE TypeOK'
  BY <1>17 DEF Cancel
<1>18. ASSUME NEW d \in Calls, Emit(d) PROVE TypeOK'
  <2>1. PICK to \in {"out", "err"} :
          LET f == [to |-> to, n |-> Len(sent[d]) + 1] IN
          /\ sent' = [sent EXCEPT ![d] = Append(@, f)]
          /\ wire' = IF ending[d] = "open"
                     THEN [wire EXCEPT ![d] = Append(@, f)] ELSE wire
    BY <1>18 DEF Emit
  <2>2. [to |-> to, n |-> Len(sent[d]) + 1] \in Frame
    <3>1. Len(sent[d]) + 1 \in 1..MaxFrames
      BY <1>18 DEF Emit
    <3>2. QED
      BY <3>1 DEF Frame
  <2>3. sent' \in [Calls -> Seq(Frame)] /\ wire' \in [Calls -> Seq(Frame)]
    BY <2>1, <2>2
  <2>4. QED
    BY <1>18, <2>3 DEF Emit
<1>19. ASSUME NEW d \in Calls, Exit(d) PROVE TypeOK'
  BY <1>19 DEF Exit
<1>19a. ASSUME NEW d \in Calls, StreamEnds(d) PROVE TypeOK'
  <2>1. cut' = cut \/ cut' = [cut EXCEPT ![d] = TRUE]
    BY <1>19a DEF StreamEnds
  <2>2. ending' = [ending EXCEPT ![d] = "eof"] \/ ending' = [ending EXCEPT ![d] = "torn"]
    BY <1>19a DEF StreamEnds
  <2>3. cut' \in [Calls -> BOOLEAN]
    BY <2>1
  <2>4. ending' \in [Calls -> {"none", "open", "eof", "torn", "closed"}]
    BY ONLY <1>t, <2>2
  <2>5. UNCHANGED <<named, cancelled, out, polled, sandbox, callVars,
                    streamVars, sessionVars, commandVars, wire>>
    BY <1>19a DEF StreamEnds
  <2>6. QED
    BY <2>3, <2>4, <2>5
<1>20. ASSUME SandboxStops PROVE TypeOK'
  BY <1>20 DEF SandboxStops, EndCommands
<1>21. ASSUME SandboxRemoved PROVE TypeOK'
  BY <1>21 DEF SandboxRemoved, EndCommands
<1>22. ASSUME SandboxStarts PROVE TypeOK'
  BY <1>22 DEF SandboxStarts
<1>23. ASSUME UNCHANGED vars PROVE TypeOK'
  BY <1>23 DEF vars
<1>24. QED
  BY <1>1, <1>2, <1>3, <1>4, <1>5, <1>6, <1>7, <1>8, <1>9, <1>10, <1>11,
     <1>12, <1>13, <1>14, <1>15, <1>16, <1>17, <1>18, <1>19, <1>19a, <1>20,
     <1>21, <1>22, <1>23
     DEF Next, CallStep, DemuxStep, WaitStep, UserStep, CommandStep, Terminated

\* Every step keeps the whole invariant.
LEMMA InvStep == ExecInv /\ [Next]_vars => ExecInv'
<1> SUFFICES ASSUME ExecInv, [Next]_vars PROVE ExecInv'
  OBVIOUS
<1>0. TypeOK /\ TypeOK' /\ \A c \in Calls : CallInv(c)
  BY TypeStep DEF ExecInv
<1> USE <1>0
    DEF TypeOK, CallInv, NotAttached, Streaming, Ending, Result,
        callVars, streamVars, sessionVars, commandVars, connVars
<1>1. ASSUME NEW c \in Calls, NEW d \in Calls, Begin(d) PROVE CallInv(c)'
  BY <1>1 DEF Begin, Goto
<1>2. ASSUME NEW c \in Calls, NEW d \in Calls, Inspect(d) PROVE CallInv(c)'
  BY <1>2 DEF Inspect, Replies, SandboxFound, Goto, Return
<1>3. ASSUME NEW c \in Calls, NEW d \in Calls, Start(d) PROVE CallInv(c)'
  BY <1>3 DEF Start, Replies, SandboxFound, Goto, Return
<1>4. ASSUME NEW c \in Calls, NEW d \in Calls, Hijack(d) PROVE CallInv(c)'
  BY <1>4 DEF Hijack, Attached, SandboxFound, Session, Goto, Return
<1>5. ASSUME NEW c \in Calls, NEW d \in Calls, ReadAll(d) PROVE CallInv(c)'
  BY <1>5 DEF ReadAll
<1>6. ASSUME NEW c \in Calls, NEW d \in Calls, StreamDone(d) PROVE CallInv(c)'
  BY <1>6 DEF StreamDone, StreamOK, CloseConn, Goto, Return
<1>7. ASSUME NEW c \in Calls, NEW d \in Calls, FinishExec(d) PROVE CallInv(c)'
  <2>1. PICK a \in inspectExec(d) : Return(d, a.err, a.code)
    BY <1>7 DEF FinishExec
  <2>2. a.err \in {"request", "execNotFound", "nil"}
    BY AnswerShape
  <2>3. QED
    BY <1>7, <2>1, <2>2 DEF FinishExec, Return, CloseConn
<1>8. ASSUME NEW c \in Calls, NEW d \in Calls, DemuxFrame(d) PROVE CallInv(c)'
  <2>1. demux[d] = "reading" /\ Head(wire[d]) \in Frame
    BY <1>8 DEF DemuxFrame
  <2>2. \/ UNCHANGED <<demux, held, streamErr>>
        \/ /\ demux' = [demux EXCEPT ![d] = "writing"]
           /\ held' = [held EXCEPT ![d] = Head(wire[d])]
           /\ UNCHANGED streamErr
        \/ /\ demux' = [demux EXCEPT ![d] = "done"]
           /\ streamErr' = [streamErr EXCEPT ![d] = "stream"]
           /\ UNCHANGED held
    BY <1>8 DEF DemuxFrame
  <2>3. UNCHANGED <<pc, result, proc, ending, cut, reader, wait>>
    BY <1>8 DEF DemuxFrame
  <2>4. QED
    BY <2>1, <2>2, <2>3
<1>9. ASSUME NEW c \in Calls, NEW d \in Calls, DemuxEnd(d) PROVE CallInv(c)'
  BY <1>9 DEF DemuxEnd, StreamOver
<1>10. ASSUME NEW c \in Calls, NEW d \in Calls, StartReader(d) PROVE CallInv(c)'
  BY <1>10 DEF StartReader
<1>11. ASSUME NEW c \in Calls, NEW d \in Calls, ReaderCopies(d) PROVE CallInv(c)'
  BY <1>11 DEF ReaderCopies
<1>12. ASSUME NEW c \in Calls, NEW d \in Calls, CallWait(d) PROVE CallInv(c)'
  BY <1>12 DEF CallWait
<1>13. ASSUME NEW c \in Calls, NEW d \in Calls, WaitDrains(d) PROVE CallInv(c)'
  BY <1>13 DEF WaitDrains, Drained
<1>14. ASSUME NEW c \in Calls, NEW d \in Calls, WaitReturns(d) PROVE CallInv(c)'
  BY <1>14, AnswerShape DEF WaitReturns
<1>15. ASSUME NEW c \in Calls, NEW d \in Calls, Close(d) PROVE CallInv(c)'
  BY <1>15 DEF Close
<1>16. ASSUME NEW c \in Calls, NEW d \in Calls, Poll(d) PROVE CallInv(c)'
  BY <1>16, AnswerShape DEF Poll
<1>17. ASSUME NEW c \in Calls, NEW d \in Calls, Cancel(d) PROVE CallInv(c)'
  BY <1>17 DEF Cancel
<1>18. ASSUME NEW c \in Calls, NEW d \in Calls, Emit(d) PROVE CallInv(c)'
  BY <1>18 DEF Emit
<1>19. ASSUME NEW c \in Calls, NEW d \in Calls, Exit(d) PROVE CallInv(c)'
  BY <1>19 DEF Exit
<1>19a. ASSUME NEW c \in Calls, NEW d \in Calls, StreamEnds(d) PROVE CallInv(c)'
  <2>1. /\ ending[d] = "open"
        /\ ending' = [ending EXCEPT ![d] = "eof"] \/ ending' = [ending EXCEPT ![d] = "torn"]
        /\ \/ proc[d] # "running" /\ UNCHANGED cut
           \/ proc[d] = "running" /\ cut' = [cut EXCEPT ![d] = TRUE]
    BY <1>19a DEF StreamEnds
  <2>2. UNCHANGED <<pc, result, proc, demux, held, streamErr, reader, wait>>
    BY <1>19a DEF StreamEnds
  <2>4. CASE c = d
    BY <2>1, <2>2, <2>4
  <2>5. CASE c # d
    BY <2>1, <2>2, <2>5
  <2>6. QED
    BY <2>4, <2>5
<1>20. ASSUME NEW c \in Calls, SandboxStops PROVE CallInv(c)'
  BY <1>20 DEF SandboxStops, EndCommands
<1>21. ASSUME NEW c \in Calls, SandboxRemoved PROVE CallInv(c)'
  BY <1>21 DEF SandboxRemoved, EndCommands
<1>22. ASSUME NEW c \in Calls, SandboxStarts PROVE CallInv(c)'
  BY <1>22 DEF SandboxStarts
<1>23. ASSUME NEW c \in Calls, UNCHANGED vars PROVE CallInv(c)'
  BY <1>23 DEF vars
<1>24. QED
  BY <1>1, <1>2, <1>3, <1>4, <1>5, <1>6, <1>7, <1>8, <1>9, <1>10, <1>11,
     <1>12, <1>13, <1>14, <1>15, <1>16, <1>17, <1>18, <1>19, <1>19a, <1>20,
     <1>21, <1>22, <1>23
     DEF Next, CallStep, DemuxStep, WaitStep, UserStep, CommandStep, Terminated, ExecInv

\* The invariant holds in every reachable state.
THEOREM Invariance == Spec => []ExecInv
<1>1. Init => ExecInv
  BY InitInv
<1>2. ExecInv /\ [Next]_vars => ExecInv'
  BY InvStep
<1>3. QED
  BY <1>1, <1>2, PTL DEF Spec

\* Type correctness of every reachable state of Exec.
THEOREM TypeCorrect == Spec => []TypeOK
  BY Invariance, PTL DEF ExecInv

\* A caller that gets ErrSandboxNotFound or ErrSandboxNotRunning from Exec,
\* ExecInteractive or ExecDetached may run the command again: it has not run.
THEOREM RetryIsSafe == Spec => []RetrySafe
<1>1. ExecInv => RetrySafe
  BY DEF ExecInv, CallInv, Ending, RetrySafe
<1>2. QED
  BY <1>1, Invariance, PTL

\* Exec never returns while its demultiplexer runs or its connection is open.
THEOREM NothingIsLeft == Spec => []ExecLeavesNothing
<1>1. ExecInv => ExecLeavesNothing
  BY DEF ExecInv, CallInv, Ending, ExecLeavesNothing
<1>2. QED
  BY <1>1, Invariance, PTL

-----------------------------------------------------------------------------
(* The exit code, when no 2xx answer of the daemon loses its body.          *)

\* What Exec and Wait return with a nil error is worth what CodeOf says; a
\* command has no exit code before it ends.
CodeKept(c) ==
    /\ proc[c] \in {"none", "running"} => exitCode[c] = 0
    /\ pc[c] = "inspectExec" => streamErr[c] = "nil"
    /\ pc[c] = "done" /\ kind[c] # "detached" /\ result[c].err = "nil"
           => CodeOf(c, result[c].code)
    /\ wait[c] = "returned" /\ waited[c].err = "nil" /\ streamErr[c] = "nil"
           => CodeOf(c, waited[c].code)
CodeInv == \A c \in Calls : CodeKept(c)

\* Every step keeps it: the code is asked for after a clean end of the stream,
\* and a command that has ended keeps its code.
LEMMA CodeStep ==
  ASSUME "empty" \notin Faults, ExecInv, ExecInv', CodeInv, [Next]_vars
  PROVE  CodeInv'
<1>0. TypeOK /\ TypeOK' /\ \A c \in Calls : CallInv(c) /\ CodeKept(c)
  BY DEF ExecInv, CodeInv
<1> USE <1>0
    DEF TypeOK, CallInv, NotAttached, Streaming, Ending, CodeKept, CodeOf, Result,
        callVars, streamVars, sessionVars, commandVars, connVars
<1>1. ASSUME NEW c \in Calls, NEW d \in Calls, Begin(d) PROVE CodeKept(c)'
  BY <1>1 DEF Begin, Goto
<1>2. ASSUME NEW c \in Calls, NEW d \in Calls, Inspect(d) PROVE CodeKept(c)'
  <2>1. \/ \E l \in {"start", "hijack"} : Goto(d, l)
        \/ \E e \in {"request", "notFound", "notRunning", "attach"} : Return(d, e, 0)
    BY <1>2 DEF Inspect
  <2>2. pc'[c] # pc[c] =>
          \/ pc'[c] \in {"start", "hijack"}
          \/ pc'[c] = "done" /\ (kind[c] # "detached" => result'[c].err # "nil")
    BY <2>1 DEF Goto, Return
  <2>3. pc'[c] = pc[c] => result'[c] = result[c] \/ result'[c].err # "nil"
    BY <2>1, <1>2 DEF Goto, Return, Inspect
  <2>4. QED
    BY <1>2, <2>2, <2>3 DEF Inspect
<1>3. ASSUME NEW c \in Calls, NEW d \in Calls, Start(d) PROVE CodeKept(c)'
  <2>1. \/ \E l \in {"hijack"} : Goto(d, l)
        \/ \E e \in {"request", "notFound", "notRunning", "attach"} : Return(d, e, 0)
    BY <1>3 DEF Start
  <2>2. pc'[c] # pc[c] =>
          \/ pc'[c] \in {"hijack"}
          \/ pc'[c] = "done" /\ (kind[c] # "detached" => result'[c].err # "nil")
    BY <2>1 DEF Goto, Return
  <2>3. pc'[c] = pc[c] => result'[c] = result[c] \/ result'[c].err # "nil"
    BY <2>1, <1>3 DEF Goto, Return, Start
  <2>4. QED
    BY <1>3, <2>2, <2>3 DEF Start
<1>4. ASSUME NEW c \in Calls, NEW d \in Calls, Hijack(d) PROVE CodeKept(c)'
  <2>1. \/ \E l \in {"session", "stream"} : Goto(d, l)
        \/ \E e \in {"request", "notFound", "notRunning", "attach"} : Return(d, e, 0)
        \/ kind[d] = "detached" /\ Return(d, "nil", 0)
    BY <1>4 DEF Hijack, Attached
  <2>2. pc'[c] # pc[c] =>
          \/ pc'[c] \in {"session", "stream"}
          \/ pc'[c] = "done" /\ (kind[c] # "detached" => result'[c].err # "nil")
    BY <2>1 DEF Goto, Return
  <2>3. pc'[c] = pc[c] => result'[c] = result[c] \/ result'[c].err # "nil"
    BY <2>1, <1>4 DEF Goto, Return, Hijack
  <2>4. QED
    BY <1>4, <2>2, <2>3 DEF Hijack
<1>5. ASSUME NEW c \in Calls, NEW d \in Calls, ReadAll(d) PROVE CodeKept(c)'
  BY <1>5 DEF ReadAll
<1>6. ASSUME NEW c \in Calls, NEW d \in Calls, StreamDone(d) PROVE CodeKept(c)'
  BY <1>6 DEF StreamDone, StreamOK, CloseConn, Goto, Return
<1>7. ASSUME NEW c \in Calls, NEW d \in Calls, FinishExec(d) PROVE CodeKept(c)'
  <2>1. PICK a \in inspectExec(d) : Return(d, a.err, a.code)
    BY <1>7 DEF FinishExec
  <2>2. a.err = "nil" => CodeOf(d, a.code)
    BY <1>7, AnswerShape DEF FinishExec
  <2>3. QED
    BY <1>7, <2>1, <2>2 DEF FinishExec, Return, CloseConn
<1>8. ASSUME NEW c \in Calls, NEW d \in Calls, DemuxFrame(d) PROVE CodeKept(c)'
  BY <1>8 DEF DemuxFrame
<1>9. ASSUME NEW c \in Calls, NEW d \in Calls, DemuxEnd(d) PROVE CodeKept(c)'
  BY <1>9 DEF DemuxEnd, StreamOver
<1>10. ASSUME NEW c \in Calls, NEW d \in Calls, StartReader(d) PROVE CodeKept(c)'
  BY <1>10 DEF StartReader
<1>11. ASSUME NEW c \in Calls, NEW d \in Calls, ReaderCopies(d) PROVE CodeKept(c)'
  BY <1>11 DEF ReaderCopies
<1>12. ASSUME NEW c \in Calls, NEW d \in Calls, CallWait(d) PROVE CodeKept(c)'
  BY <1>12 DEF CallWait
<1>13. ASSUME NEW c \in Calls, NEW d \in Calls, WaitDrains(d) PROVE CodeKept(c)'
  BY <1>13 DEF WaitDrains, Drained
<1>14. ASSUME NEW c \in Calls, NEW d \in Calls, WaitReturns(d) PROVE CodeKept(c)'
  <2>1. PICK a \in inspectExec(d) :
             waited' = [waited EXCEPT ![d] = [err |-> a.err, code |-> a.code]]
    BY <1>14 DEF WaitReturns
  <2>2. a.err = "nil" /\ streamErr[d] = "nil" => CodeOf(d, a.code)
    BY <1>14, AnswerShape DEF WaitReturns
  <2>3. QED
    BY <1>14, <2>1, <2>2 DEF WaitReturns
<1>15. ASSUME NEW c \in Calls, NEW d \in Calls, Close(d) PROVE CodeKept(c)'
  BY <1>15 DEF Close
<1>16. ASSUME NEW c \in Calls, NEW d \in Calls, Poll(d) PROVE CodeKept(c)'
  BY <1>16, AnswerShape DEF Poll
<1>17. ASSUME NEW c \in Calls, NEW d \in Calls, Cancel(d) PROVE CodeKept(c)'
  BY <1>17 DEF Cancel
<1>18. ASSUME NEW c \in Calls, NEW d \in Calls, Emit(d) PROVE CodeKept(c)'
  BY <1>18 DEF Emit
<1>19. ASSUME NEW c \in Calls, NEW d \in Calls, Exit(d) PROVE CodeKept(c)'
  BY <1>19 DEF Exit
<1>19a. ASSUME NEW c \in Calls, NEW d \in Calls, StreamEnds(d) PROVE CodeKept(c)'
  BY <1>19a DEF StreamEnds
<1>20. ASSUME NEW c \in Calls, SandboxStops PROVE CodeKept(c)'
  BY <1>20 DEF SandboxStops, EndCommands
<1>21. ASSUME NEW c \in Calls, SandboxRemoved PROVE CodeKept(c)'
  BY <1>21 DEF SandboxRemoved, EndCommands
<1>22. ASSUME NEW c \in Calls, SandboxStarts PROVE CodeKept(c)'
  BY <1>22 DEF SandboxStarts
<1>23. ASSUME NEW c \in Calls, UNCHANGED vars PROVE CodeKept(c)'
  BY <1>23 DEF vars
<1>24. QED
  BY <1>1, <1>2, <1>3, <1>4, <1>5, <1>6, <1>7, <1>8, <1>9, <1>10, <1>11,
     <1>12, <1>13, <1>14, <1>15, <1>16, <1>17, <1>18, <1>19, <1>19a, <1>20,
     <1>21, <1>22, <1>23
     DEF Next, CallStep, DemuxStep, WaitStep, UserStep, CommandStep, Terminated, CodeInv

\* In every reachable state.
LEMMA CodeInvariance == ASSUME "empty" \notin Faults PROVE Spec => []CodeInv
<1>1. Init => CodeInv
  BY DEF Init, CodeInv, CodeKept, NoResult
<1>2. ExecInv /\ ExecInv' /\ CodeInv /\ [Next]_vars => CodeInv'
  BY CodeStep
<1>3. QED
  BY <1>1, <1>2, Invariance, PTL DEF Spec

\* Wait on a session whose stream ended without an error returns nil only with
\* the exit code of a command that has ended, unless the stream ended before
\* the command: then with that code or with zero.
THEOREM WaitIsTrue == ASSUME "empty" \notin Faults PROVE Spec => []WaitCompleted
<1>1. CodeInv => WaitCompleted
  BY DEF CodeInv, CodeKept, WaitCompleted
<1>2. QED
  BY <1>1, CodeInvariance, PTL

\* The same of Exec.
OwnCode ==
    \A c \in Calls :
        pc[c] = "done" /\ kind[c] \in {"exec", "mux"} /\ result[c].err = "nil"
        => CodeOf(c, result[c].code)

\* The part of ExecCompleted about the exit code, for every instance.
THEOREM CodeIsTrue == ASSUME "empty" \notin Faults PROVE Spec => []OwnCode
<1>1. CodeInv => OwnCode
  BY DEF CodeInv, CodeKept, OwnCode
<1>2. QED
  BY <1>1, CodeInvariance, PTL

-----------------------------------------------------------------------------
(* The output: what becomes of each frame on its way from the command over  *)
(* the connection and through the demultiplexer to the caller.              *)

Rising(s)   == \A i, j \in 1..Len(s) : i < j => s[i].n < s[j].n
Under(s, m) == \A i \in 1..Len(s) : s[i].n < m
Over(s, m)  == \A i \in 1..Len(s) : m < s[i].n
Ahead(s, w) == \A i \in 1..Len(s), j \in 1..Len(w) : s[i].n < w[j].n
From(s, t)  == \A i \in 1..Len(s) : s[i].n \in 1..Len(t) /\ t[s[i].n] = s[i]
Only(k, s)  == \A i \in 1..Len(s) : Promised(k, s[i])
Has(s, f)   == \E i \in 1..Len(s) : s[i] = f

\* A command's frames are numbered; those the caller has, the one in the pipe
\* and those on the wire are the command's, in this order.
Flow(c) ==
    /\ \A i \in 1..Len(sent[c]) : sent[c][i].n = i
    /\ Rising(out[c]) /\ From(out[c], sent[c]) /\ Only(kind[c], out[c])
    /\ Rising(wire[c]) /\ From(wire[c], sent[c])
    /\ Ahead(out[c], wire[c])
    /\ demux[c] = "writing" =>
         /\ held[c].n \in 1..Len(sent[c]) /\ sent[c][held[c].n] = held[c]
         /\ Promised(kind[c], held[c])
         /\ Under(out[c], held[c].n) /\ Over(wire[c], held[c].n)

\* Nothing has been taken from the caller: no failed writer or broken frame, no
\* stream that ended before its command, no Wait that drains, no Close before
\* the end.
Lossless(c) ==
    /\ streamErr[c] # "stream" /\ ~cut[c] /\ wait[c] = "none"
    /\ ending[c] # "closed" \/ demux[c] = "done"

\* Then every frame the caller is promised is in one of the three places.
Somewhere(c, f) ==
    \/ Has(out[c], f)
    \/ demux[c] = "writing" /\ held[c] = f
    \/ Has(wire[c], f)
NothingLost(c) ==
    Lossless(c) =>
        \A i \in 1..Len(sent[c]) :
            Promised(kind[c], sent[c][i]) => Somewhere(c, sent[c][i])

\* Which calls have a stream, and what its clean end means.
Track(c) ==
    /\ ending[c] = "none" => /\ out[c] = <<>> /\ sent[c] = <<>> /\ wire[c] = <<>>
                             /\ demux[c] = "none"
    /\ pc[c] \in {"stream", "inspectExec"} => kind[c] \in {"exec", "mux"}
    /\ pc[c] = "session" => kind[c] \in Session
    /\ wait[c] # "none" => pc[c] = "session"
    /\ pc[c] = "inspectExec" => streamErr[c] = "nil"
    /\ pc[c] = "done" /\ kind[c] \in {"exec", "mux"} /\ result[c].err = "nil"
           => streamErr[c] = "nil"
    /\ streamErr[c] = "nil" => wire[c] = <<>>

OutputInv == \A c \in Calls : Track(c) /\ Flow(c) /\ NothingLost(c)

-----------------------------------------------------------------------------
(* Sequences of frames.                                                     *)

\* Rising numbers keep rising when a higher one is appended.
LEMMA RisingAppend ==
  ASSUME NEW s \in Seq(Frame), NEW f \in Frame, Rising(s), Under(s, f.n)
  PROVE  Rising(Append(s, f))
<1>1. /\ Len(Append(s, f)) = Len(s) + 1 /\ Len(s) \in Nat
      /\ Append(s, f)[Len(s) + 1] = f
      /\ \A i \in 1..Len(s) : Append(s, f)[i] = s[i]
  OBVIOUS
<1>2. SUFFICES ASSUME NEW i \in 1..(Len(s) + 1), NEW j \in 1..(Len(s) + 1), i < j
               PROVE  Append(s, f)[i].n < Append(s, f)[j].n
  BY <1>1 DEF Rising
<1>3. i \in 1..Len(s) /\ Append(s, f)[i] = s[i]
  BY <1>1, <1>2
<1>4. CASE j = Len(s) + 1
  BY <1>1, <1>3, <1>4 DEF Under
<1>5. CASE j # Len(s) + 1
  <2>1. j \in 1..Len(s) /\ Append(s, f)[j] = s[j]
    BY <1>1, <1>5
  <2>2. QED
    BY <1>2, <1>3, <2>1 DEF Rising
<1>6. QED
  BY <1>4, <1>5

\* A frame the caller receives goes behind those it has.
LEMMA Received ==
  ASSUME NEW s \in Seq(Frame), NEW w \in Seq(Frame), NEW t \in Seq(Frame),
         NEW f \in Frame, NEW k,
         Rising(s), From(s, t), Only(k, s), Ahead(s, w),
         f.n \in 1..Len(t), t[f.n] = f, Promised(k, f),
         Under(s, f.n), Over(w, f.n)
  PROVE  /\ Rising(Append(s, f)) /\ From(Append(s, f), t)
         /\ Only(k, Append(s, f)) /\ Ahead(Append(s, f), w)
         /\ \A g : Has(s, g) \/ g = f => Has(Append(s, f), g)
<1>1. /\ Len(Append(s, f)) = Len(s) + 1 /\ Len(s) \in Nat
      /\ Append(s, f)[Len(s) + 1] = f
      /\ \A i \in 1..Len(s) : Append(s, f)[i] = s[i]
  OBVIOUS
<1>2. Rising(Append(s, f))
  BY <1>1, RisingAppend
<1>3. From(Append(s, f), t)
  BY <1>1 DEF From
<1>4. Only(k, Append(s, f))
  BY <1>1 DEF Only
<1>5. Ahead(Append(s, f), w)
  BY <1>1 DEF Ahead, Over
<1>6. \A g : Has(s, g) \/ g = f => Has(Append(s, f), g)
  BY <1>1 DEF Has
<1>7. QED
  BY <1>2, <1>3, <1>4, <1>5, <1>6

\* The first frame on the wire is behind what the caller has and before the rest.
LEMMA Taken ==
  ASSUME NEW s \in Seq(Frame), NEW w \in Seq(Frame), NEW t \in Seq(Frame),
         w # <<>>, Rising(w), From(w, t), Ahead(s, w)
  PROVE  /\ Head(w) \in Frame /\ Tail(w) \in Seq(Frame)
         /\ Head(w).n \in 1..Len(t) /\ t[Head(w).n] = Head(w)
         /\ Rising(Tail(w)) /\ From(Tail(w), t) /\ Ahead(s, Tail(w))
         /\ Under(s, Head(w).n) /\ Over(Tail(w), Head(w).n)
         /\ \A g : Has(w, g) => g = Head(w) \/ Has(Tail(w), g)
<1>1. /\ Len(w) \in Nat /\ Len(w) > 0 /\ Head(w) = w[1] /\ w[1] \in Frame
      /\ Tail(w) \in Seq(Frame) /\ Len(Tail(w)) = Len(w) - 1
      /\ \A i \in 1..(Len(w) - 1) : Tail(w)[i] = w[i + 1]
  OBVIOUS
<1>2. Head(w).n \in 1..Len(t) /\ t[Head(w).n] = Head(w)
  BY <1>1 DEF From
<1>3. Rising(Tail(w)) /\ Over(Tail(w), Head(w).n)
  BY <1>1 DEF Rising, Over
<1>4. From(Tail(w), t)
  BY <1>1 DEF From
<1>5. Ahead(s, Tail(w)) /\ Under(s, Head(w).n)
  BY <1>1 DEF Ahead, Under
<1>6. ASSUME NEW g, Has(w, g) PROVE g = Head(w) \/ Has(Tail(w), g)
  <2>1. PICK i \in 1..Len(w) : w[i] = g
    BY <1>6 DEF Has
  <2>2. CASE i = 1
    BY <1>1, <2>1, <2>2
  <2>3. CASE i # 1
    <3>1. i - 1 \in 1..Len(Tail(w)) /\ Tail(w)[i - 1] = w[i]
      BY <1>1, <2>1, <2>3
    <3>2. QED
      BY <2>1, <3>1 DEF Has
  <2>4. QED
    BY <2>2, <2>3
<1>7. QED
  BY <1>1, <1>2, <1>3, <1>4, <1>5, <1>6

\* A new frame of the command, with the next number, is the last on the wire.
LEMMA Emitted ==
  ASSUME NEW s \in Seq(Frame), NEW w \in Seq(Frame), NEW t \in Seq(Frame),
         NEW f \in Frame, f.n = Len(t) + 1,
         \A i \in 1..Len(t) : t[i].n = i,
         From(s, t), Rising(w), From(w, t), Ahead(s, w)
  PROVE  /\ \A i \in 1..Len(Append(t, f)) : Append(t, f)[i].n = i
         /\ From(s, Append(t, f)) /\ From(Append(w, f), Append(t, f))
         /\ Rising(Append(w, f)) /\ Ahead(s, Append(w, f))
         /\ \A g : Has(w, g) \/ g = f => Has(Append(w, f), g)
<1>1. /\ Len(Append(t, f)) = Len(t) + 1 /\ Len(t) \in Nat
      /\ Append(t, f)[Len(t) + 1] = f
      /\ \A i \in 1..Len(t) : Append(t, f)[i] = t[i]
  OBVIOUS
<1>2. /\ Len(Append(w, f)) = Len(w) + 1 /\ Len(w) \in Nat
      /\ Append(w, f)[Len(w) + 1] = f
      /\ \A i \in 1..Len(w) : Append(w, f)[i] = w[i]
  OBVIOUS
<1>3. \A i \in 1..Len(Append(t, f)) : Append(t, f)[i].n = i
  BY <1>1
<1>4. From(s, Append(t, f))
  BY <1>1 DEF From
<1>5. From(Append(w, f), Append(t, f))
  BY <1>1, <1>2 DEF From
<1>6. Rising(Append(w, f))
  <2>1. Under(w, f.n)
    BY <1>1 DEF Under, From
  <2>2. QED
    BY <2>1, RisingAppend
<1>7. Ahead(s, Append(w, f))
  BY <1>1, <1>2 DEF Ahead, From
<1>8. \A g : Has(w, g) \/ g = f => Has(Append(w, f), g)
  BY <1>2 DEF Has
<1>9. QED
  BY <1>3, <1>4, <1>5, <1>6, <1>7, <1>8

\* What a closed connection still holds is a prefix of what it held.
LEMMA CutShort ==
  ASSUME NEW s \in Seq(Frame), NEW w \in Seq(Frame), NEW t \in Seq(Frame),
         NEW n \in 0..Len(w), Rising(w), From(w, t), Ahead(s, w)
  PROVE  /\ SubSeq(w, 1, n) \in Seq(Frame)
         /\ Rising(SubSeq(w, 1, n)) /\ From(SubSeq(w, 1, n), t)
         /\ Ahead(s, SubSeq(w, 1, n))
         /\ \A m : Over(w, m) => Over(SubSeq(w, 1, n), m)
         /\ w = <<>> => SubSeq(w, 1, n) = <<>>
<1>1. /\ SubSeq(w, 1, n) \in Seq(Frame) /\ Len(SubSeq(w, 1, n)) = n
      /\ \A i \in 1..n : SubSeq(w, 1, n)[i] = w[i]
      /\ n <= Len(w) /\ n \in Nat /\ Len(w) \in Nat
  OBVIOUS
<1>2. Rising(SubSeq(w, 1, n))
  BY <1>1 DEF Rising
<1>3. From(SubSeq(w, 1, n), t)
  BY <1>1 DEF From
<1>4. Ahead(s, SubSeq(w, 1, n))
  BY <1>1 DEF Ahead
<1>5. \A m : Over(w, m) => Over(SubSeq(w, 1, n), m)
  BY <1>1 DEF Over
<1>6. w = <<>> => SubSeq(w, 1, n) = <<>>
  BY <1>1
<1>7. QED
  BY <1>1, <1>2, <1>3, <1>4, <1>5, <1>6

\* Every step keeps a call's Track.
LEMMA TrackStep ==
  ASSUME ExecInv, ExecInv', OutputInv, [Next]_vars, NEW c \in Calls
  PROVE  Track(c)'
<1>0. TypeOK /\ TypeOK' /\ CallInv(c) /\ Track(c)
  BY DEF ExecInv, OutputInv
<1>k. kind[c] \in {"exec", "mux", "interactive", "tty", "detached"}
  <2>1. kind[c] \in Kinds
    BY <1>0 DEF TypeOK
  <2>2. Kinds \subseteq AllKinds
    BY ExecAssumption DEF ExecAssumption
  <2>3. QED
    BY <2>1, <2>2 DEF AllKinds
<1> USE <1>0
    DEF TypeOK, CallInv, NotAttached, Streaming, Ending, Track, Session,
        callVars, streamVars, sessionVars, commandVars, connVars
<1>1. ASSUME NEW d \in Calls, Begin(d) PROVE Track(c)'
  BY <1>1 DEF Begin, Goto
<1>2. ASSUME NEW d \in Calls, Inspect(d) PROVE Track(c)'
  <2>1. \/ \E l \in {"start", "hijack"} : Goto(d, l)
        \/ \E e \in {"request", "notFound", "notRunning"} : Return(d, e, 0)
    BY <1>2 DEF Inspect
  <2>2. \/ pc'[c] = pc[c] /\ result'[c] = result[c]
        \/ pc[c] \in {"inspect", "start"} /\ pc'[c] \in {"start", "hijack"}
        \/ pc'[c] = "done" /\ pc[c] \in {"inspect", "start"} /\ result'[c].err # "nil"
    BY <1>2, <2>1 DEF Inspect, Goto, Return
  <2>3. QED
    BY <1>2, <2>2 DEF Inspect
<1>3. ASSUME NEW d \in Calls, Start(d) PROVE Track(c)'
  <2>1. \/ \E l \in {"start", "hijack"} : Goto(d, l)
        \/ \E e \in {"request", "notFound", "notRunning"} : Return(d, e, 0)
    BY <1>3 DEF Start
  <2>2. \/ pc'[c] = pc[c] /\ result'[c] = result[c]
        \/ pc[c] \in {"inspect", "start"} /\ pc'[c] \in {"start", "hijack"}
        \/ pc'[c] = "done" /\ pc[c] \in {"inspect", "start"} /\ result'[c].err # "nil"
    BY <1>3, <2>1 DEF Start, Goto, Return
  <2>3. QED
    BY <1>3, <2>2 DEF Start
<1>4. ASSUME NEW d \in Calls, Hijack(d) PROVE Track(c)'
  <2>1. \/ Goto(d, IF kind[d] \in Session THEN "session" ELSE "stream") /\ kind[d] # "detached"
        \/ \E e \in {"request", "attach"} : Return(d, e, 0)
        \/ kind[d] = "detached" /\ Return(d, "nil", 0)
    BY <1>4 DEF Hijack, Attached
  <2>2. \/ pc'[c] = pc[c] /\ result'[c] = result[c]
        \/ pc'[c] = (IF kind[c] \in Session THEN "session" ELSE "stream")
              /\ kind[c] # "detached" /\ pc[c] = "hijack"
        \/ pc'[c] = "done" /\ pc[c] = "hijack"
             /\ (kind[c] # "detached" => result'[c].err # "nil")
    BY <1>4, <2>1 DEF Hijack, Goto, Return
  <2>3. /\ UNCHANGED <<out, sent, wire, wait, streamErr, kind>>
        /\ ending'[c] = "none" => ending[c] = "none" /\ demux'[c] = demux[c]
    BY <1>4 DEF Hijack, Attached
  <2>4. kind[c] \in {"exec", "mux", "interactive", "tty", "detached"}
    BY <1>k
  <2>5. pc'[c] \in {"stream", "inspectExec"} => kind'[c] \in {"exec", "mux"}
    BY <2>2, <2>3, <2>4
  <2>6. QED
    BY <2>2, <2>3, <2>5
<1>5. ASSUME NEW d \in Calls, ReadAll(d) PROVE Track(c)'
  BY <1>5 DEF ReadAll
<1>6. ASSUME NEW d \in Calls, StreamDone(d) PROVE Track(c)'
  <2>1. /\ pc[d] = "stream"
        /\ \/ streamErr[d] = "nil" /\ Goto(d, "inspectExec") /\ UNCHANGED ending
           \/ Return(d, "stream", 0) /\ ending' = [ending EXCEPT ![d] = "closed"]
        /\ UNCHANGED <<kind, out, sent, wire, wait, streamErr, demux>>
    BY <1>6 DEF StreamDone, StreamOK, CloseConn
  <2>2. CASE c = d
    BY <2>1, <2>2 DEF Goto, Return
  <2>3. CASE c # d
    BY <2>1, <2>3 DEF Goto, Return
  <2>4. QED
    BY <2>2, <2>3
<1>7. ASSUME NEW d \in Calls, FinishExec(d) PROVE Track(c)'
  BY <1>7 DEF FinishExec, CloseConn, Return
<1>8. ASSUME NEW d \in Calls, DemuxFrame(d) PROVE Track(c)'
  BY <1>8 DEF DemuxFrame
<1>9. ASSUME NEW d \in Calls, DemuxEnd(d) PROVE Track(c)'
  BY <1>9 DEF DemuxEnd, StreamOver
<1>10. ASSUME NEW d \in Calls, StartReader(d) PROVE Track(c)'
  BY <1>10 DEF StartReader
<1>11. ASSUME NEW d \in Calls, ReaderCopies(d) PROVE Track(c)'
  BY <1>11 DEF ReaderCopies
<1>12. ASSUME NEW d \in Calls, CallWait(d) PROVE Track(c)'
  BY <1>12 DEF CallWait
<1>13. ASSUME NEW d \in Calls, WaitDrains(d) PROVE Track(c)'
  BY <1>13 DEF WaitDrains, Drained
<1>14. ASSUME NEW d \in Calls, WaitReturns(d) PROVE Track(c)'
  BY <1>14 DEF WaitReturns
<1>15. ASSUME NEW d \in Calls, Close(d) PROVE Track(c)'
  <2>1. \A n \in 0..Len(wire[d]) : wire[d] = <<>> => SubSeq(wire[d], 1, n) = <<>>
    OBVIOUS
  <2>2. wire[c] = <<>> => wire'[c] = <<>>
    BY <1>15, <2>1 DEF Close
  <2>3. QED
    BY <1>15, <2>2 DEF Close
<1>16. ASSUME NEW d \in Calls, Poll(d) PROVE Track(c)'
  BY <1>16 DEF Poll
<1>17. ASSUME NEW d \in Calls, Cancel(d) PROVE Track(c)'
  BY <1>17 DEF Cancel
<1>18. ASSUME NEW d \in Calls, Emit(d) PROVE Track(c)'
  <2>0. CallInv(d)
    BY DEF ExecInv
  <2>1. ending[d] # "none" /\ (wire' = wire \/ ending[d] = "open")
    <3>1. proc[d] # "none"
      BY <1>18 DEF Emit
    <3>2. ending[d] # "none"
      BY <2>0, <3>1
    <3>3. wire' = wire \/ ending[d] = "open"
      BY <1>18 DEF Emit
    <3>4. QED
      BY <3>2, <3>3
  <2>2. CASE c = d
    <3>1. /\ UNCHANGED <<pc, kind, out, result, wait, streamErr, demux, ending>>
          /\ streamErr[c] = "nil" => wire'[c] = wire[c]
      BY <1>18, <2>1, <2>2 DEF Emit
    <3>2. QED
      BY <2>1, <2>2, <3>1
  <2>3. CASE c # d
    BY <1>18, <2>3 DEF Emit
  <2>4. QED
    BY <2>2, <2>3
<1>19. ASSUME NEW d \in Calls, Exit(d) PROVE Track(c)'
  BY <1>19 DEF Exit
<1>19a. ASSUME NEW d \in Calls, StreamEnds(d) PROVE Track(c)'
  BY <1>19a DEF StreamEnds
<1>20. ASSUME SandboxStops PROVE Track(c)'
  BY <1>20 DEF SandboxStops, EndCommands
<1>21. ASSUME SandboxRemoved PROVE Track(c)'
  BY <1>21 DEF SandboxRemoved, EndCommands
<1>22. ASSUME SandboxStarts PROVE Track(c)'
  BY <1>22 DEF SandboxStarts
<1>23. ASSUME UNCHANGED vars PROVE Track(c)'
  BY <1>23 DEF vars
<1>24. QED
  BY <1>1, <1>2, <1>3, <1>4, <1>5, <1>6, <1>7, <1>8, <1>9, <1>10,
     <1>11, <1>12, <1>13, <1>14, <1>15, <1>16, <1>17, <1>18, <1>19,
     <1>19a, <1>20, <1>21, <1>22, <1>23
     DEF Next, CallStep, DemuxStep, WaitStep, UserStep, CommandStep, Terminated

\* What a step must leave alone for a call's output to stay what it was.
Calm(c) ==
    /\ kind'[c] = kind[c] /\ out'[c] = out[c]
    /\ sent'[c] = sent[c] /\ wire'[c] = wire[c]
    /\ demux'[c] = "writing" => demux[c] = "writing" /\ held'[c] = held[c]
    /\ Lossless(c)' => Lossless(c) /\ (demux[c] = "writing" => demux'[c] = "writing")

LEMMA CalmStep ==
  ASSUME NEW c \in Calls, Flow(c), NothingLost(c), Calm(c)
  PROVE  Flow(c)' /\ NothingLost(c)'
<1>1. Flow(c)'
  BY DEF Flow, Calm
<1>2. NothingLost(c)'
  <2>1. SUFFICES ASSUME Lossless(c)', NEW i \in 1..Len(sent[c]),
                        Promised(kind[c], sent[c][i])
                 PROVE  Somewhere(c, sent[c][i])'
    BY DEF NothingLost, Calm
  <2>2. Lossless(c) /\ (demux[c] = "writing" => demux'[c] = "writing")
    BY <2>1 DEF Calm
  <2>3. Somewhere(c, sent[c][i])
    BY <2>1, <2>2 DEF NothingLost
  <2>4. QED
    BY <2>2, <2>3 DEF Somewhere, Calm
<1>3. QED
  BY <1>1, <1>2

\* The caller takes the frame in the pipe.
LEMMA ReceiveStep ==
  ASSUME NEW c \in Calls, TypeOK, Flow(c), NothingLost(c),
         demux[c] = "writing", held[c] \in Frame,
         out'[c] = Append(out[c], held[c]), demux'[c] = "reading",
         kind'[c] = kind[c], sent'[c] = sent[c], wire'[c] = wire[c],
         streamErr'[c] = streamErr[c], wait'[c] = wait[c], ending'[c] = ending[c],
         cut'[c] = cut[c]
  PROVE  Flow(c)' /\ NothingLost(c)'
<1>1. /\ out[c] \in Seq(Frame) /\ wire[c] \in Seq(Frame) /\ sent[c] \in Seq(Frame)
  BY DEF TypeOK
<1>f. /\ Rising(out[c]) /\ From(out[c], sent[c]) /\ Only(kind[c], out[c])
      /\ Ahead(out[c], wire[c])
      /\ held[c].n \in 1..Len(sent[c]) /\ sent[c][held[c].n] = held[c]
      /\ Promised(kind[c], held[c])
      /\ Under(out[c], held[c].n) /\ Over(wire[c], held[c].n)
  BY DEF Flow
<1>a. /\ Rising(Append(out[c], held[c])) /\ From(Append(out[c], held[c]), sent[c])
      /\ Only(kind[c], Append(out[c], held[c])) /\ Ahead(Append(out[c], held[c]), wire[c])
      /\ \A g : Has(out[c], g) \/ g = held[c] => Has(Append(out[c], held[c]), g)
  BY <1>1, <1>f, Received
<1>2. /\ Rising(out'[c]) /\ From(out'[c], sent[c])
      /\ Only(kind[c], out'[c]) /\ Ahead(out'[c], wire[c])
      /\ \A g : Has(out[c], g) \/ g = held[c] => Has(out'[c], g)
  BY <1>a
<1>3. Flow(c)'
  BY <1>2 DEF Flow
<1>4. NothingLost(c)'
  BY <1>2 DEF NothingLost, Lossless, Somewhere
<1>5. QED
  BY <1>3, <1>4

\* The demultiplexer takes the first frame off the wire.
LEMMA DemuxFrameStep ==
  ASSUME NEW c \in Calls, TypeOK, Flow(c), NothingLost(c), DemuxFrame(c)
  PROVE  Flow(c)' /\ NothingLost(c)'
<1> DEFINE f == Head(wire[c])
           rest == Tail(wire[c])
<1>0. /\ out[c] \in Seq(Frame) /\ wire[c] \in Seq(Frame) /\ sent[c] \in Seq(Frame)
      /\ kind[c] \in AllKinds
  BY ExecAssumption DEF TypeOK, ExecAssumption
<1>f. /\ \A i \in 1..Len(sent[c]) : sent[c][i].n = i
      /\ Rising(out[c]) /\ From(out[c], sent[c]) /\ Only(kind[c], out[c])
      /\ Rising(wire[c]) /\ From(wire[c], sent[c]) /\ Ahead(out[c], wire[c])
  BY DEF Flow
<1>1. wire[c] # <<>> /\ demux[c] = "reading"
  BY DEF DemuxFrame
<1>2. /\ f \in Frame /\ rest \in Seq(Frame)
      /\ f.n \in 1..Len(sent[c]) /\ sent[c][f.n] = f
      /\ Rising(rest) /\ From(rest, sent[c]) /\ Ahead(out[c], rest)
      /\ Under(out[c], f.n) /\ Over(rest, f.n)
      /\ \A g : Has(wire[c], g) => g = f \/ Has(rest, g)
  BY <1>0, <1>1, <1>f, Taken
<1> HIDE DEF f, rest
<1>3. /\ wire' = [wire EXCEPT ![c] = rest]
      /\ UNCHANGED <<sent, kind, wait, ending, cut>>
      /\ \/ /\ Sink(kind[c], f) = "pipe"
            /\ demux' = [demux EXCEPT ![c] = "writing"]
            /\ held' = [held EXCEPT ![c] = f]
            /\ UNCHANGED <<out, streamErr>>
         \/ /\ Sink(kind[c], f) = "discard"
            /\ UNCHANGED <<demux, held, out, streamErr>>
         \/ /\ Sink(kind[c], f) = "writer"
            /\ out' = [out EXCEPT ![c] = Append(@, f)]
            /\ UNCHANGED <<demux, held, streamErr>>
         \/ /\ Sink(kind[c], f) = "writer"
            /\ demux' = [demux EXCEPT ![c] = "done"]
            /\ streamErr' = [streamErr EXCEPT ![c] = "stream"]
            /\ UNCHANGED <<held, out>>
  BY DEF DemuxFrame, f, rest, callVars, sessionVars, commandVars
<1>4. /\ wire'[c] = rest /\ sent'[c] = sent[c] /\ kind'[c] = kind[c]
      /\ wait'[c] = wait[c] /\ ending'[c] = ending[c] /\ cut'[c] = cut[c]
  BY <1>3 DEF TypeOK
<1>5. /\ Sink(kind[c], f) \in {"pipe", "writer"} => Promised(kind[c], f)
      /\ Sink(kind[c], f) = "discard" => ~Promised(kind[c], f)
  BY <1>0 DEF Sink, Promised, AllKinds
<1>6. CASE Sink(kind[c], f) = "pipe" /\ demux'[c] = "writing" /\ held'[c] = f
           /\ out'[c] = out[c] /\ streamErr'[c] = streamErr[c]
  <2>1. Flow(c)'
    BY <1>2, <1>4, <1>5, <1>6, <1>f DEF Flow
  <2>2. NothingLost(c)'
    BY <1>1, <1>2, <1>4, <1>6 DEF NothingLost, Lossless, Somewhere
  <2>3. QED
    BY <2>1, <2>2
<1>7. CASE Sink(kind[c], f) = "discard" /\ demux'[c] = demux[c] /\ held'[c] = held[c]
           /\ out'[c] = out[c] /\ streamErr'[c] = streamErr[c]
  <2>1. Flow(c)'
    BY <1>1, <1>2, <1>4, <1>7, <1>f DEF Flow
  <2>2. NothingLost(c)'
    BY <1>1, <1>2, <1>4, <1>5, <1>7 DEF NothingLost, Lossless, Somewhere
  <2>3. QED
    BY <2>1, <2>2
<1>8. CASE Sink(kind[c], f) = "writer" /\ demux'[c] = demux[c] /\ held'[c] = held[c]
           /\ out'[c] = Append(out[c], f) /\ streamErr'[c] = streamErr[c]
  <2>1. Promised(kind[c], f)
    BY <1>5, <1>8
  <2>2. /\ Rising(Append(out[c], f)) /\ From(Append(out[c], f), sent[c])
        /\ Only(kind[c], Append(out[c], f)) /\ Ahead(Append(out[c], f), rest)
        /\ \A g : Has(out[c], g) \/ g = f => Has(Append(out[c], f), g)
    BY <1>0, <1>2, <1>f, <2>1, Received
  <2>3. Flow(c)'
    BY <1>1, <1>2, <1>4, <1>8, <1>f, <2>2 DEF Flow
  <2>4. NothingLost(c)'
    BY <1>1, <1>2, <1>4, <1>8, <2>2 DEF NothingLost, Lossless, Somewhere
  <2>5. QED
    BY <2>3, <2>4
<1>9. CASE demux'[c] = "done" /\ held'[c] = held[c]
           /\ out'[c] = out[c] /\ streamErr'[c] = "stream"
  <2>1. Flow(c)'
    BY <1>2, <1>4, <1>9, <1>f DEF Flow
  <2>2. NothingLost(c)'
    BY <1>9 DEF NothingLost, Lossless
  <2>3. QED
    BY <2>1, <2>2
<1>10. QED
  BY <1>3, <1>6, <1>7, <1>8, <1>9 DEF TypeOK

\* Close keeps what the SDK has read ahead; after the end of the stream there
\* is nothing to lose.
LEMMA CloseStep ==
  ASSUME NEW c \in Calls, TypeOK, Streaming(c), Track(c), Flow(c), NothingLost(c), Close(c)
  PROVE  Flow(c)' /\ NothingLost(c)'
<1>1. PICK n \in 0..Len(wire[c]) : wire' = [wire EXCEPT ![c] = SubSeq(wire[c], 1, n)]
  BY DEF Close
<1>2. /\ out[c] \in Seq(Frame) /\ wire[c] \in Seq(Frame) /\ sent[c] \in Seq(Frame)
  BY DEF TypeOK
<1>f. /\ Rising(wire[c]) /\ From(wire[c], sent[c]) /\ Ahead(out[c], wire[c])
  BY DEF Flow
<1>3. /\ Rising(SubSeq(wire[c], 1, n)) /\ From(SubSeq(wire[c], 1, n), sent[c])
      /\ Ahead(out[c], SubSeq(wire[c], 1, n))
      /\ \A m : Over(wire[c], m) => Over(SubSeq(wire[c], 1, n), m)
      /\ wire[c] = <<>> => SubSeq(wire[c], 1, n) = <<>>
  BY <1>2, <1>f, CutShort
<1>4. wire'[c] = SubSeq(wire[c], 1, n)
  BY <1>1 DEF TypeOK
<1>5. /\ UNCHANGED <<kind, out, sent, demux, held, streamErr, wait, cut>>
      /\ ending'[c] = "closed"
  BY DEF Close, TypeOK, callVars, streamVars, sessionVars, commandVars
<1>6. Flow(c)'
  BY <1>3, <1>4, <1>5 DEF Flow
<1>7. NothingLost(c)'
  <2>1. SUFFICES ASSUME Lossless(c)' PROVE NothingLost(c)'
    BY DEF NothingLost
  <2>2. demux[c] = "done" /\ streamErr[c] # "stream" /\ wait[c] = "none" /\ ~cut[c]
    BY <1>5, <2>1 DEF Lossless
  <2>3. streamErr[c] = "nil"
    BY <2>2 DEF Streaming, TypeOK
  <2>4. wire[c] = <<>> /\ wire'[c] = <<>>
    BY <1>3, <1>4, <2>3 DEF Track
  <2>5. Lossless(c)
    BY <2>2 DEF Lossless
  <2>6. QED
    BY <1>5, <2>4, <2>5 DEF NothingLost, Somewhere
<1>8. QED
  BY <1>6, <1>7

\* The command sends a frame on a stream that is open.
LEMMA HeardStep ==
  ASSUME NEW c \in Calls, TypeOK, TypeOK', Flow(c), NothingLost(c), Emit(c),
         ending[c] = "open"
  PROVE  Flow(c)' /\ NothingLost(c)'
<1>1. PICK to \in {"out", "err"} :
          /\ sent' = [sent EXCEPT ![c] = Append(@, [to |-> to, n |-> Len(sent[c]) + 1])]
          /\ wire' = [wire EXCEPT ![c] = Append(@, [to |-> to, n |-> Len(sent[c]) + 1])]
  BY DEF Emit
<1> DEFINE f == [to |-> to, n |-> Len(sent[c]) + 1]
<1>2. /\ out[c] \in Seq(Frame) /\ wire[c] \in Seq(Frame) /\ sent[c] \in Seq(Frame)
  BY DEF TypeOK
<1>3. f \in Frame /\ f.n = Len(sent[c]) + 1
  BY <1>2, ExecAssumption DEF Emit, ExecAssumption, Frame
<1>4. sent'[c] = Append(sent[c], f) /\ wire'[c] = Append(wire[c], f)
  BY <1>1 DEF TypeOK
<1>5. /\ UNCHANGED <<kind, out, demux, held, streamErr, wait, ending, cut>>
  BY DEF Emit, callVars, streamVars, sessionVars
<1> HIDE DEF f
<1>f. /\ \A i \in 1..Len(sent[c]) : sent[c][i].n = i
      /\ From(out[c], sent[c])
      /\ Rising(wire[c]) /\ From(wire[c], sent[c]) /\ Ahead(out[c], wire[c])
  BY DEF Flow
<1>6. /\ \A i \in 1..Len(Append(sent[c], f)) : Append(sent[c], f)[i].n = i
      /\ From(out[c], Append(sent[c], f)) /\ From(Append(wire[c], f), Append(sent[c], f))
      /\ Rising(Append(wire[c], f)) /\ Ahead(out[c], Append(wire[c], f))
      /\ \A g : Has(wire[c], g) \/ g = f => Has(Append(wire[c], f), g)
  BY ONLY <1>2, <1>3, <1>f, Emitted, ZenonT(60)
<1>7. ASSUME demux[c] = "writing"
      PROVE  /\ held[c].n \in 1..Len(Append(sent[c], f))
             /\ Append(sent[c], f)[held[c].n] = held[c]
             /\ Over(Append(wire[c], f), held[c].n)
  <2>1. held[c].n \in 1..Len(sent[c]) /\ sent[c][held[c].n] = held[c] /\ Over(wire[c], held[c].n)
    BY <1>7 DEF Flow
  <2>2. /\ Len(Append(sent[c], f)) = Len(sent[c]) + 1 /\ Len(sent[c]) \in Nat
        /\ \A i \in 1..Len(sent[c]) : Append(sent[c], f)[i] = sent[c][i]
    BY <1>2, <1>3
  <2>3. /\ Len(Append(wire[c], f)) = Len(wire[c]) + 1 /\ Len(wire[c]) \in Nat
        /\ Append(wire[c], f)[Len(wire[c]) + 1] = f
        /\ \A i \in 1..Len(wire[c]) : Append(wire[c], f)[i] = wire[c][i]
    BY <1>2, <1>3
  <2>4. Over(Append(wire[c], f), held[c].n)
    BY <1>3, <2>1, <2>2, <2>3 DEF Over
  <2>5. QED
    BY <2>1, <2>2, <2>4
<1>8. Flow(c)'
  BY <1>4, <1>5, <1>6, <1>7 DEF Flow
<1>9. NothingLost(c)'
  <2>1. SUFFICES ASSUME Lossless(c), NEW i \in 1..(Len(sent[c]) + 1),
                        Promised(kind[c], Append(sent[c], f)[i])
                 PROVE  Somewhere(c, Append(sent[c], f)[i])'
    BY <1>2, <1>3, <1>4, <1>5 DEF NothingLost, Lossless
  <2>2. CASE i = Len(sent[c]) + 1
    <3>1. Append(sent[c], f)[i] = f
      BY <1>2, <1>3, <2>2
    <3>2. QED
      BY <1>4, <1>6, <3>1 DEF Somewhere
  <2>3. CASE i # Len(sent[c]) + 1
    <3>1. i \in 1..Len(sent[c]) /\ Append(sent[c], f)[i] = sent[c][i]
      BY <1>2, <1>3, <2>3
    <3>2. Somewhere(c, sent[c][i])
      BY <2>1, <3>1 DEF NothingLost
    <3>3. QED
      BY <1>4, <1>5, <1>6, <3>1, <3>2 DEF Somewhere
  <2>4. QED
    BY <2>2, <2>3
<1>10. QED
  BY <1>8, <1>9

\* The command writes a frame when nobody listens any more: a frame is lost,
\* but of a stream that was closed or cut.
LEMMA UnheardStep ==
  ASSUME NEW c \in Calls, TypeOK, Streaming(c), Flow(c), Emit(c),
         ending[c] # "open"
  PROVE  Flow(c)' /\ NothingLost(c)'
<1>1. PICK to \in {"out", "err"} :
          sent' = [sent EXCEPT ![c] = Append(@, [to |-> to, n |-> Len(sent[c]) + 1])]
  BY DEF Emit
<1> DEFINE f == [to |-> to, n |-> Len(sent[c]) + 1]
<1>2. sent[c] \in Seq(Frame) /\ sent'[c] = Append(sent[c], f)
  BY <1>1 DEF TypeOK
<1>3. f \in Frame /\ f.n = Len(sent[c]) + 1
  BY <1>2, ExecAssumption DEF Emit, ExecAssumption, Frame
<1> HIDE DEF f
<1>4. /\ Len(Append(sent[c], f)) = Len(sent[c]) + 1 /\ Len(sent[c]) \in Nat
      /\ Append(sent[c], f)[Len(sent[c]) + 1] = f
      /\ \A i \in 1..Len(sent[c]) : Append(sent[c], f)[i] = sent[c][i]
  BY <1>2, <1>3
<1>5. UNCHANGED <<kind, out, wire, demux, held, streamErr, wait, ending, cut>>
  BY DEF Emit, callVars, streamVars, sessionVars
<1>6. \A s : From(s, sent[c]) => From(s, Append(sent[c], f))
  BY <1>4 DEF From
<1>7. \A i \in 1..Len(Append(sent[c], f)) : Append(sent[c], f)[i].n = i
  BY <1>3, <1>4 DEF Flow
<1>8. Flow(c)'
  BY <1>2, <1>4, <1>5, <1>6, <1>7 DEF Flow
<1>9. proc[c] = "running" /\ ending[c] # "none"
  BY DEF Emit, Streaming
<1>10. ~Lossless(c)'
  <2>1. ending[c] \in {"eof", "torn"} => cut[c]
    BY <1>9 DEF Streaming
  <2>2. ending[c] = "closed" /\ demux[c] = "done" => streamErr[c] = "stream" \/ cut[c]
    BY <1>9 DEF Streaming, TypeOK
  <2>3. ending[c] \in {"eof", "torn", "closed"}
    BY <1>9 DEF TypeOK
  <2>4. QED
    BY <1>5, <2>1, <2>2, <2>3 DEF Lossless
<1>11. QED
  BY <1>8, <1>10 DEF NothingLost

\* Every step keeps the output of every call.
LEMMA FlowStep ==
  ASSUME ExecInv, OutputInv, [Next]_vars, NEW c \in Calls
  PROVE  Flow(c)' /\ NothingLost(c)'
<1>0. TypeOK /\ CallInv(c) /\ Track(c) /\ Flow(c) /\ NothingLost(c)
  BY DEF ExecInv, OutputInv
<1>t. TypeOK'
  BY TypeStep
<1>calm. Calm(c) => Flow(c)' /\ NothingLost(c)'
  BY <1>0, CalmStep
<1> USE <1>0
    DEF TypeOK, CallInv, NotAttached, Streaming, Ending, Track, Lossless, Calm,
        callVars, streamVars, sessionVars, commandVars, connVars
<1>1. ASSUME NEW d \in Calls, Begin(d) PROVE Flow(c)' /\ NothingLost(c)'
  <2>1. Calm(c)
    BY <1>1 DEF Begin, Goto
  <2>2. QED
    BY ONLY <2>1, <1>calm
<1>2. ASSUME NEW d \in Calls, Inspect(d) PROVE Flow(c)' /\ NothingLost(c)'
  <2>1. Calm(c)
    BY <1>2 DEF Inspect, Goto, Return
  <2>2. QED
    BY ONLY <2>1, <1>calm
<1>3. ASSUME NEW d \in Calls, Start(d) PROVE Flow(c)' /\ NothingLost(c)'
  <2>1. Calm(c)
    BY <1>3 DEF Start, Goto, Return
  <2>2. QED
    BY ONLY <2>1, <1>calm
<1>4. ASSUME NEW d \in Calls, Hijack(d) PROVE Flow(c)' /\ NothingLost(c)'
  <2>1. Calm(c)
    BY <1>4 DEF Hijack, Attached, Goto, Return
  <2>2. QED
    BY ONLY <2>1, <1>calm
<1>5. ASSUME NEW d \in Calls, ReadAll(d) PROVE Flow(c)' /\ NothingLost(c)'
  <2>1. CASE c = d
    BY <1>5, <2>1, ReceiveStep DEF ReadAll
  <2>2. CASE c # d
    <3>1. Calm(c)
      BY <1>5, <2>2 DEF ReadAll
    <3>2. QED
      BY ONLY <3>1, <1>calm
  <2>3. QED
    BY ONLY <2>1, <2>2
<1>6. ASSUME NEW d \in Calls, StreamDone(d) PROVE Flow(c)' /\ NothingLost(c)'
  <2>1. Calm(c)
    BY <1>6 DEF StreamDone, StreamOK, CloseConn, Goto, Return
  <2>2. QED
    BY ONLY <2>1, <1>calm
<1>7. ASSUME NEW d \in Calls, FinishExec(d) PROVE Flow(c)' /\ NothingLost(c)'
  <2>1. Calm(c)
    BY <1>7 DEF FinishExec, CloseConn, Return
  <2>2. QED
    BY ONLY <2>1, <1>calm
<1>8. ASSUME NEW d \in Calls, DemuxFrame(d) PROVE Flow(c)' /\ NothingLost(c)'
  <2>1. CASE c = d
    BY ONLY <1>0, <1>8, <2>1, DemuxFrameStep
  <2>2. CASE c # d
    <3>1. Calm(c)
      BY <1>8, <2>2 DEF DemuxFrame
    <3>2. QED
      BY ONLY <3>1, <1>calm
  <2>3. QED
    BY ONLY <2>1, <2>2
<1>9. ASSUME NEW d \in Calls, DemuxEnd(d) PROVE Flow(c)' /\ NothingLost(c)'
  <2>1. Calm(c)
    BY <1>9 DEF DemuxEnd, StreamOver
  <2>2. QED
    BY ONLY <2>1, <1>calm
<1>10. ASSUME NEW d \in Calls, StartReader(d) PROVE Flow(c)' /\ NothingLost(c)'
  <2>1. Calm(c)
    BY <1>10 DEF StartReader
  <2>2. QED
    BY ONLY <2>1, <1>calm
<1>11. ASSUME NEW d \in Calls, ReaderCopies(d) PROVE Flow(c)' /\ NothingLost(c)'
  <2>1. CASE c = d /\ demux[d] = "writing"
    BY <1>11, <2>1, ReceiveStep DEF ReaderCopies
  <2>2. CASE c # d \/ demux[d] # "writing"
    <3>1. Calm(c)
      BY <1>11, <2>2 DEF ReaderCopies
    <3>2. QED
      BY ONLY <3>1, <1>calm
  <2>3. QED
    BY ONLY <2>1, <2>2
<1>12. ASSUME NEW d \in Calls, CallWait(d) PROVE Flow(c)' /\ NothingLost(c)'
  <2>1. Calm(c)
    BY <1>12 DEF CallWait
  <2>2. QED
    BY ONLY <2>1, <1>calm
<1>13. ASSUME NEW d \in Calls, WaitDrains(d) PROVE Flow(c)' /\ NothingLost(c)'
  <2>1. Calm(c)
    BY <1>13 DEF WaitDrains, Drained
  <2>2. QED
    BY ONLY <2>1, <1>calm
<1>14. ASSUME NEW d \in Calls, WaitReturns(d) PROVE Flow(c)' /\ NothingLost(c)'
  <2>1. Calm(c)
    BY <1>14 DEF WaitReturns
  <2>2. QED
    BY ONLY <2>1, <1>calm
<1>15. ASSUME NEW d \in Calls, Close(d) PROVE Flow(c)' /\ NothingLost(c)'
  <2>1. CASE c = d
    <3>1. Streaming(c)
      BY ONLY <1>0 DEF CallInv
    <3>2. Close(c)
      BY ONLY <1>15, <2>1
    <3>3. QED
      BY ONLY <1>0, <3>1, <3>2, CloseStep
  <2>2. CASE c # d
    <3>1. Calm(c)
      BY <1>15, <2>2 DEF Close
    <3>2. QED
      BY ONLY <3>1, <1>calm
  <2>3. QED
    BY ONLY <2>1, <2>2
<1>16. ASSUME NEW d \in Calls, Poll(d) PROVE Flow(c)' /\ NothingLost(c)'
  <2>1. Calm(c)
    BY <1>16 DEF Poll
  <2>2. QED
    BY ONLY <2>1, <1>calm
<1>17. ASSUME NEW d \in Calls, Cancel(d) PROVE Flow(c)' /\ NothingLost(c)'
  <2>1. Calm(c)
    BY <1>17 DEF Cancel
  <2>2. QED
    BY ONLY <2>1, <1>calm
<1>18. ASSUME NEW d \in Calls, Emit(d) PROVE Flow(c)' /\ NothingLost(c)'
  <2>1. CASE c = d
    <3>1. Streaming(c)
      BY ONLY <1>0 DEF CallInv
    <3>2. CASE ending[c] = "open"
      BY ONLY <1>0, <1>t, <1>18, <2>1, <3>2, HeardStep
    <3>3. CASE ending[c] # "open"
      BY ONLY <1>0, <1>18, <2>1, <3>1, <3>3, UnheardStep
    <3>4. QED
      BY ONLY <3>2, <3>3
  <2>2. CASE c # d
    <3>1. Calm(c)
      BY <1>18, <2>2 DEF Emit
    <3>2. QED
      BY ONLY <3>1, <1>calm
  <2>3. QED
    BY ONLY <2>1, <2>2
<1>19. ASSUME NEW d \in Calls, Exit(d) PROVE Flow(c)' /\ NothingLost(c)'
  <2>1. Calm(c)
    BY <1>19 DEF Exit
  <2>2. QED
    BY ONLY <2>1, <1>calm
<1>19a. ASSUME NEW d \in Calls, StreamEnds(d) PROVE Flow(c)' /\ NothingLost(c)'
  <2>1. Calm(c)
    BY <1>19a DEF StreamEnds
  <2>2. QED
    BY ONLY <2>1, <1>calm
<1>20. ASSUME SandboxStops PROVE Flow(c)' /\ NothingLost(c)'
  <2>1. Calm(c)
    BY <1>20 DEF SandboxStops, EndCommands
  <2>2. QED
    BY ONLY <2>1, <1>calm
<1>21. ASSUME SandboxRemoved PROVE Flow(c)' /\ NothingLost(c)'
  <2>1. Calm(c)
    BY <1>21 DEF SandboxRemoved, EndCommands
  <2>2. QED
    BY ONLY <2>1, <1>calm
<1>22. ASSUME SandboxStarts PROVE Flow(c)' /\ NothingLost(c)'
  <2>1. Calm(c)
    BY <1>22 DEF SandboxStarts
  <2>2. QED
    BY ONLY <2>1, <1>calm
<1>23. ASSUME UNCHANGED vars PROVE Flow(c)' /\ NothingLost(c)'
  <2>1. Calm(c)
    BY <1>23 DEF vars
  <2>2. QED
    BY ONLY <2>1, <1>calm
<1>24. QED
  BY <1>1, <1>2, <1>3, <1>4, <1>5, <1>6, <1>7, <1>8, <1>9, <1>10,
     <1>11, <1>12, <1>13, <1>14, <1>15, <1>16, <1>17, <1>18, <1>19,
     <1>19a, <1>20, <1>21, <1>22, <1>23
     DEF Next, CallStep, DemuxStep, WaitStep, UserStep, CommandStep, Terminated

\* The output invariant holds in every reachable state.
LEMMA OutputInvariance == Spec => []OutputInv
<1>1. Init => OutputInv
  <2> SUFFICES ASSUME Init, NEW c \in Calls PROVE Track(c) /\ Flow(c) /\ NothingLost(c)
    BY DEF OutputInv
  <2>1. /\ out[c] = <<>> /\ sent[c] = <<>> /\ wire[c] = <<>> /\ pc[c] = "idle"
        /\ demux[c] = "none" /\ streamErr[c] = "none" /\ wait[c] = "none"
    BY DEF Init
  <2>2. Flow(c)
    BY <2>1 DEF Flow, Rising, From, Only, Ahead
  <2>3. QED
    BY <2>1, <2>2 DEF Track, NothingLost
<1>2. ExecInv /\ ExecInv' /\ OutputInv /\ [Next]_vars => OutputInv'
  BY TrackStep, FlowStep DEF OutputInv
<1>3. QED
  BY <1>1, <1>2, Invariance, PTL DEF Spec

\* What Flow says of the output is what InOrder asks for.
LEMMA FlowInOrder ==
  ASSUME TypeOK, NEW c \in Calls, Flow(c) PROVE InOrder(c)
<1>1. DOMAIN out[c] = 1..Len(out[c]) /\ DOMAIN sent[c] = 1..Len(sent[c])
  <2>1. out[c] \in Seq(Frame) /\ sent[c] \in Seq(Frame)
    BY DEF TypeOK
  <2>2. QED
    BY <2>1
<1>2. QED
  BY <1>1 DEF Flow, Rising, From, Only, InOrder

\* When nothing was lost and nothing is on its way, the caller has it all.
LEMMA EndIsWhole ==
  ASSUME TypeOK, NEW c \in Calls, Streaming(c), Track(c), Flow(c), NothingLost(c),
         streamErr[c] = "nil", ~cut[c], wait[c] = "none"
  PROVE  AllShown(c)
<1>1. demux[c] = "done" /\ wire[c] = <<>>
  BY DEF Streaming, Track
<1>2. Lossless(c)
  BY <1>1 DEF Lossless
<1>3. DOMAIN out[c] = 1..Len(out[c]) /\ DOMAIN sent[c] = 1..Len(sent[c])
  <2>1. out[c] \in Seq(Frame) /\ sent[c] \in Seq(Frame)
    BY DEF TypeOK
  <2>2. QED
    BY <2>1
<1>4. ~\E g : Has(wire[c], g)
  BY <1>1 DEF Has
<1>5. Whole(c)
  BY <1>1, <1>2, <1>3, <1>4 DEF NothingLost, Somewhere, Has, Whole
<1>6. QED
  BY <1>5, FlowInOrder DEF AllShown

\* Nothing reaches a caller twice, out of order or from the wrong stream,
\* whatever becomes of the stream and of the calls around it.
THEOREM OutputIsOrdered == Spec => []OutputInOrder
<1>1. ExecInv /\ OutputInv => OutputInOrder
  BY FlowInOrder DEF ExecInv, OutputInv, OutputInOrder
<1>2. QED
  BY <1>1, Invariance, OutputInvariance, PTL

\* Who reads Stdout to its end before Wait has all that the command wrote, if
\* the stream did not end before the command.
THEOREM ReaderHasAll == Spec => []ReaderComplete
<1>1. ExecInv /\ OutputInv => ReaderComplete
  BY EndIsWhole DEF ExecInv, CallInv, OutputInv, ReaderComplete
<1>2. QED
  BY <1>1, Invariance, OutputInvariance, PTL

\* Exec and WithMultiplexed return nil only with all that the command wrote, in
\* order, if the stream did not end before the command.
OwnOutput ==
    \A c \in Calls :
        pc[c] = "done" /\ kind[c] \in {"exec", "mux"} /\ result[c].err = "nil"
        => (~cut[c] => AllShown(c))

\* The part of ExecCompleted about the output, for every instance.
THEOREM OutputIsWhole == Spec => []OwnOutput
<1>1. ExecInv /\ OutputInv => OwnOutput
  BY EndIsWhole DEF ExecInv, CallInv, OutputInv, Track, OwnOutput
<1>2. QED
  BY <1>1, Invariance, OutputInvariance, PTL

\* With every body read, nil from Exec means the command's end, its exit code
\* and its whole output, or a stream that ended while the command ran.
THEOREM ExecIsTrue == ASSUME "empty" \notin Faults PROVE Spec => []ExecCompleted
<1>1. OwnCode /\ OwnOutput => ExecCompleted
  BY DEF OwnCode, OwnOutput, ExecCompleted
<1>2. QED
  BY <1>1, CodeIsTrue, OutputIsWhole, PTL
=============================================================================
