----------------------------- MODULE OAuthFlow ------------------------------
(***************************************************************************)
(* oauthflow.Run over the Runner: Inherit with one urlScanner for both of  *)
(* the child's streams.  os/exec gives equal writers one pipe and one      *)
(* copying goroutine, whose Writes the scanner gets; after Inherit the     *)
(* caller's goroutine flushes what is left of the last line.  mcp.Authorize*)
(* and secret.SetOAuth are Run with their arguments.                       *)
(*                                                                         *)
(* Output is a sequence of chunks of cells: "p" and "q" the two halves of  *)
(* "https://", "r" more of a URL, "x" other text, "n" the end of a line.   *)
(* onURL returns before WaitDelay (10s) runs out: a Write that has begun   *)
(* is over when the pipes are closed.  Other calls of the Runner have      *)
(* text = <<>> and write as the Runner says.                               *)
(***************************************************************************)
EXTENDS Runner, SequencesExt

CONSTANT Texts      \* what the child of a flow prints: sequences of chunks

ASSUME FlowAssumption ==
    \A t \in Texts : t \in Seq(Seq({"p", "q", "r", "x", "n"})) /\ Len(t) <= MaxWrites

VARIABLES
    text,       \* what the child prints if nobody stops it
    pending,    \* urlScanner: the last line so far
    reports,    \* the URLs handed to onURL; fired is reports # <<>>
    verdict     \* what Run returned

scanVars == <<pending, reports>>
flowVars == <<vars, text, scanVars, verdict>>

Flow == op = "Inherit" /\ piped

FlowInit ==
    /\ Init
    /\ text \in IF Flow THEN Texts ELSE {<<>>}
    /\ pending = <<>> /\ reports = <<>> /\ verdict = "none"

-----------------------------------------------------------------------------
(* The scanner.                                                             *)

Starts(line) == {i \in 1..(Len(line) - 1) : line[i] = "p" /\ line[i + 1] = "q"}

consider(line, done) ==
    IF done # <<>> \/ Starts(line) = {} THEN done
    ELSE Append(done, SubSeq(line, Min(Starts(line)), Len(line)))

\* urlScanner.Write: every line that is whole by now is considered, so that the
\* first with a URL counts; what follows the last end of a line stays.
LineEnds(s) == {i \in 1..Len(s) : s[i] = "n"}
Line(s, e) == SubSeq(s, Max({0} \cup {i \in LineEnds(s) : i < e}) + 1, e - 1)

Scanned_byChunk(chunk) ==     \* mutant: a Write does not see the line's start
    [line |-> <<>>, found |-> consider(SelectSeq(chunk, LAMBDA c : c # "n"), reports)]
Scanned_atEnd(chunk) ==       \* mutant: lines are considered when the child is over
    [line |-> pending \o chunk, found |-> reports]
Scanned(chunk) ==
    LET all  == pending \o chunk
        hits == {e \in LineEnds(all) : Starts(Line(all, e)) # {}}
    IN  [line  |-> Line(all, Len(all) + 1),
         found |-> IF hits = {} THEN reports
                   ELSE consider(Line(all, Min(hits)), reports)]

ScannerWrite ==
    /\ text # <<>>
    /\ pending' = Scanned(text[collected']).line
    /\ reports' = Scanned(text[collected']).found

-----------------------------------------------------------------------------
(* Run.                                                                     *)

FlowCopies ==
    /\ Copy
    /\ ScannerWrite \/ (text = <<>> /\ UNCHANGED scanVars)
    /\ UNCHANGED <<text, verdict>>

FlowWrites ==
    /\ Write
    /\ text # <<>> => written < Len(text)
    /\ UNCHANGED <<text, scanVars, verdict>>

Elsewhere(A) == A /\ UNCHANGED <<text, scanVars, verdict>>
FlowCall  == Elsewhere(CallStep)
FlowWatch == Elsewhere(WatchStep)

\* A context that has ended, by now, names any failure of the child.
Verdicts_byCode ==        \* mutant: the error of Inherit is not looked at
    IF code <= 0 THEN {"nil"} ELSE {"failed"}
Verdicts ==
    IF ~ok THEN {"error"}
    ELSE IF code = 0 THEN {"nil"}
    ELSE IF ctx = "done" THEN {"abandoned"} ELSE {"abandoned", "failed"}

\* flush, for a last line without an end.
Flushed == consider(pending, reports)

RunReturns ==
    /\ pc = "returned" /\ text # <<>> /\ verdict = "none"
    /\ reports' = Flushed /\ pending' = <<>>
    /\ verdict' \in Verdicts
    /\ UNCHANGED <<vars, text>>

Over == pc = "returned" /\ (text # <<>> => verdict # "none") /\ UNCHANGED flowVars

FlowNext ==
    \/ FlowCall \/ FlowWatch \/ FlowCopies \/ Elsewhere(CopyEnds) \/ FlowWrites
    \/ Elsewhere(Exit \/ Stall \/ Unstall \/ CtxDone)
    \/ RunReturns \/ Over

FlowSpec == FlowInit /\ [][FlowNext]_flowVars

\* The fairness of FairSpec, and a call that returned is used.
FairFlowSpec ==
    /\ FlowSpec
    /\ WF_flowVars(FlowCall) /\ WF_flowVars(FlowWatch)
    /\ WF_flowVars(FlowCopies \/ Elsewhere(CopyEnds)) /\ WF_flowVars(RunReturns)

-----------------------------------------------------------------------------
(* What Run promises.  The reference looks at the output as a whole.        *)

Printed(k) ==
    LET output[i \in 0..Len(text)] ==
            IF i = 0 THEN <<>> ELSE output[i - 1] \o text[i]
    IN  output[k]
HasUrl(s) == Starts(s) # {}
UrlEnds(s) == {i \in Min(Starts(s))..Len(s) : s[i] = "n"}
FirstUrl(s) ==
    SubSeq(s, Min(Starts(s)), IF UrlEnds(s) = {} THEN Len(s) ELSE Min(UrlEnds(s)) - 1)

\* onURL is called once, with the first URL of the output, whole however the
\* pipe cuts it up and however the streams come; a flow that nobody cancels,
\* of a child that leaves nothing behind, has called it by the time it
\* returns, also for a last line without an end.
UrlReported ==
    /\ reports # <<>> => /\ HasUrl(Printed(collected))
                         /\ reports = <<FirstUrl(Printed(collected))>>
    /\ verdict # "none" /\ ctx = "live" /\ stalled = "no" /\ HasUrl(Printed(written))
           => reports = <<FirstUrl(Printed(written))>>

\* A nil error is a flow the child completed, all of whose output was scanned
\* and which nobody's cancellation ended.
FlowSucceeds ==
    verdict = "nil" =>
        child = "ended" /\ exit = 0 /\ collected = written /\ watchErr = "nil"

\* The user can only consent to a URL he sees: one on a line that is whole
\* comes out while the child still waits, unless the pipes are closed before.
UrlSurfaces ==
    (text # <<>> /\ HasUrl(Printed(written)) /\ UrlEnds(Printed(written)) # {})
        ~> (reports # <<>> \/ closed)
=============================================================================
