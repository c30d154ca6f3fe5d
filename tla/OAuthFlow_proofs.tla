-------------------------- MODULE OAuthFlow_proofs --------------------------
(***************************************************************************)
(* Proofs about OAuthFlow, for every output of the child: a flow is a call *)
(* of the Runner, so all that Runner_proofs shows of a call holds of the   *)
(* call inside a flow; what a nil error of a flow is worth, and which URL  *)
(* onURL is called with.                                                   *)
(***************************************************************************)
EXTENDS OAuthFlow, Runner_proofs, SequenceTheorems, WellFoundedInduction

\* A step of the flow is a step of the call or leaves the call alone.
LEMMA FlowStep == ASSUME [FlowNext]_flowVars PROVE [Next]_vars
<1>1. CASE FlowCall
  BY <1>1 DEF FlowCall, Elsewhere, Next
<1>2. CASE FlowWatch
  BY <1>2 DEF FlowWatch, Elsewhere, Next
<1>3. CASE FlowCopies
  BY <1>3 DEF FlowCopies, Next, CopyStep
<1>4. CASE Elsewhere(CopyEnds)
  BY <1>4 DEF Elsewhere, Next, CopyStep
<1>5. CASE FlowWrites
  BY <1>5 DEF FlowWrites, Next, Outside
<1>6. CASE Elsewhere(Exit \/ Stall \/ Unstall \/ CtxDone)
  BY <1>6 DEF Elsewhere, Next, Outside
<1>7. CASE RunReturns \/ Over \/ UNCHANGED flowVars
  BY <1>7 DEF RunReturns, Over, flowVars
<1> QED
  BY <1>1, <1>2, <1>3, <1>4, <1>5, <1>6, <1>7 DEF FlowNext

\* An OAuth flow (oauthflow.Run) keeps every promise of the Runner's Inherit.
THEOREM FlowIsACall == FlowSpec => Spec
<1>1. FlowInit => Init
  BY DEF FlowInit
<1>2. [FlowNext]_flowVars => [Next]_vars
  BY FlowStep
<1> QED
  BY <1>1, <1>2, PTL DEF FlowSpec, Spec

-----------------------------------------------------------------------------
\* The verdict is passed after the call, on the call's final result.
VerdictKept ==
    /\ verdict # "none" => pc = "returned"
    /\ verdict = "nil" => ok /\ code = 0 /\ piped

LEMMA VerdictInit == FlowInit => VerdictKept
BY DEF FlowInit, VerdictKept

\* Once a call has returned, its result stays.
LEMMA ReturnedStays ==
    ASSUME pc = "returned", [Next]_vars
    PROVE  pc' = pc /\ ok' = ok /\ code' = code /\ piped' = piped
BY DEF Next, vars, callVars, CallStep, StartFails, Start, Reap, Collect, AwaitCopies,
       AwaitDelay, WatchStep, Interrupt, Kill, CopyStep, Copy, CopyEnds,
       Outside, Write, Exit, Stall, Unstall, CtxDone, Terminated

LEMMA VerdictStep ==
    ASSUME VerdictKept, [FlowNext]_flowVars, (text # <<>> => piped)
    PROVE  VerdictKept'
<1>1. CASE RunReturns
  BY <1>1 DEF RunReturns, VerdictKept, Verdicts, vars, callVars
<1>2. CASE verdict' = verdict
  <2>1. [Next]_vars
    BY FlowStep
  <2> QED
    BY <1>2, <2>1, ReturnedStays DEF VerdictKept
<1> QED
  BY <1>1, <1>2 DEF FlowNext, flowVars, FlowCall, FlowWatch, FlowCopies, FlowWrites,
       Elsewhere, Over

\* Only piped calls have a text: Run gives Inherit a writer.
TextPiped == text # <<>> => piped

LEMMA TextInit == FlowInit => TextPiped
BY DEF FlowInit, TextPiped, Flow

LEMMA TextStep == ASSUME TextPiped, [FlowNext]_flowVars PROVE TextPiped'
<1>1. text' = text
  BY DEF FlowNext, flowVars, FlowCall, FlowWatch, FlowCopies, FlowWrites, Elsewhere,
         RunReturns, Over
<1>2. piped' = piped
  BY FlowStep DEF Next, vars, CallStep, StartFails, Start, Reap, Collect, AwaitCopies,
       AwaitDelay, WatchStep, Interrupt, Kill, CopyStep, Copy, CopyEnds,
       Outside, Write, Exit, Stall, Unstall, CtxDone, Terminated
<1> QED
  BY <1>1, <1>2 DEF TextPiped

-----------------------------------------------------------------------------
\* Everything proved of a call holds of the call of a flow: its answer is the
\* child's own, its output whole, and it implements ShellOut.
THEOREM FlowKeepsPromises ==
    FlowSpec => /\ [](TypeOK /\ NilMeansSuccess /\ WellBehavedUntouched)
                /\ ImplementsShellOut
  BY FlowIsACall, TypeCorrect, NilIsSuccess, DelayIsHarmless, Refinement, PTL

\* A nil error of oauthflow.Run is a child that exited 0 by itself and whose
\* output was scanned to the end, whatever it printed.
THEOREM FlowIsSuccess == FlowSpec => []FlowSucceeds
<1>1. FlowInit => VerdictKept /\ TextPiped
  BY VerdictInit, TextInit
<1>2. VerdictKept /\ TextPiped /\ [FlowNext]_flowVars => (VerdictKept /\ TextPiped)'
  BY VerdictStep, TextStep DEF TextPiped
<1>3. RunnerInv /\ VerdictKept => FlowSucceeds
  <2> SUFFICES ASSUME RunnerInv, VerdictKept, verdict = "nil"
               PROVE  child = "ended" /\ exit = 0 /\ collected = written /\ watchErr = "nil"
    BY DEF FlowSucceeds
  <2>1. pc = "returned" /\ ok /\ code = 0 /\ piped
    BY DEF VerdictKept
  <2>2. err = "nil" \/ err = "exit"
    BY <2>1 DEF RunnerInv, Returned
  <2>3. child = "ended"
    BY <2>1, <2>2 DEF RunnerInv, TypeOK, Phases, ErrorKept
  <2>4. err = "nil" /\ exit = 0
    BY <2>1, <2>2, <2>3 DEF RunnerInv, Returned, ErrorKept
  <2>5. watchErr = "nil"
    BY <2>1, <2>4 DEF RunnerInv, TypeOK, ErrorKept
  <2>6. collected = written
    BY <2>1, <2>3, <2>4 DEF RunnerInv, TypeOK, Phases, OutputKept
  <2> QED
    BY <2>3, <2>4, <2>5, <2>6
<1> QED
  BY <1>1, <1>2, <1>3, FlowIsACall, Invariance, PTL DEF FlowSpec

-----------------------------------------------------------------------------
(* Lines and URLs.                                                          *)

Cells == {"p", "q", "r", "x", "n"}

LEMMA Least ==
    ASSUME NEW S \in SUBSET Nat, S # {}
    PROVE  \E n \in S : \A m \in S : n <= m
<1>1. PICK n \in S : \A m \in S : ~(<<m, n>> \in OpToRel(<, Nat))
  BY WFMin, NatLessThanWellFounded
<1>2. \A m \in S : ~(m < n)
  BY <1>1 DEF OpToRel
<1>3. QED
  BY <1>2

\* The operators of the library choose what is least and greatest.
LEMMA MinIs ==
    ASSUME NEW S \in SUBSET Nat, NEW n \in S, \A m \in S : n <= m
    PROVE  Min(S) = n
<1>1. \A x \in S : (\A y \in S : x =< y) => x = n
  BY SMT
<1> QED
  BY <1>1 DEF Min

LEMMA MinFound ==
    ASSUME NEW S \in SUBSET Nat, S # {}
    PROVE  Min(S) \in S /\ \A m \in S : Min(S) <= m
BY Least, MinIs

\* The line that ends at e begins after the last end before e.
LEMMA LineIs ==
    ASSUME NEW s \in Seq(Cells), NEW e \in 1..(Len(s) + 1)
    PROVE  \E b \in 0..(e - 1) :
              /\ b = 0 \/ s[b] = "n"
              /\ \A i \in (b + 1)..(e - 1) : s[i] # "n"
              /\ Line(s, e) = SubSeq(s, b + 1, e - 1)
<1> DEFINE T == {0} \cup {i \in LineEnds(s) : i < e}
           D == {n \in Nat : \E i \in T : n + i = e}
<1>1. T \in SUBSET (0..(e - 1)) /\ 0 \in T
  BY DEF LineEnds
<1>2. D # {}
  <2>1. e \in Nat /\ e + 0 = e
    OBVIOUS
  <2> QED
    BY <1>1, <2>1
<1>3. PICK d \in D : \A n \in D : d <= n
  BY <1>2, Least
<1>4. PICK b \in T : d + b = e
  BY <1>3
<1>5. \A i \in T : i <= b
  <2> TAKE i \in T
  <2>1. (e - i) \in Nat /\ (e - i) + i = e
    BY <1>1
  <2>2. d <= e - i
    BY <1>3, <2>1
  <2> QED
    BY <1>1, <1>3, <1>4, <2>2
<1>6. \A x \in T : (\A y \in T : x >= y) => x = b
  BY <1>1, <1>5
<1>7. Max(T) = b
  BY <1>5, <1>6, <1>1 DEF Max
<1>8. b = 0 \/ s[b] = "n"
  BY DEF LineEnds
<1>9. \A i \in (b + 1)..(e - 1) : s[i] # "n"
  <2> SUFFICES ASSUME NEW i \in (b + 1)..(e - 1), s[i] = "n" PROVE FALSE
    OBVIOUS
  <2>1. i \in T
    BY <1>1 DEF LineEnds
  <2> QED
    BY <2>1, <1>5, <1>1
<1> QED
  BY <1>1, <1>7, <1>8, <1>9 DEF Line

\* The first URL of the output, by the positions where it begins and ends.
LEMMA UrlIs ==
    ASSUME NEW s \in Seq(Cells), NEW m \in Starts(s), NEW e \in m..(Len(s) + 1),
           \A i \in Starts(s) : m <= i,
           \A i \in m..(e - 1) : s[i] # "n",
           e = Len(s) + 1 \/ s[e] = "n"
    PROVE  FirstUrl(s) = SubSeq(s, m, e - 1)
<1>1. Min(Starts(s)) = m /\ m \in 1..Len(s)
  <2>1. Starts(s) \in SUBSET Nat /\ m \in 1..Len(s)
    BY DEF Starts
  <2> QED
    BY <2>1, MinIs
<1>2. CASE e = Len(s) + 1
  <2>1. UrlEnds(s) = {}
    BY <1>1, <1>2 DEF UrlEnds
  <2> QED
    BY <1>1, <1>2, <2>1 DEF FirstUrl
<1>3. CASE e # Len(s) + 1
  <2>1. e \in UrlEnds(s)
    BY <1>1, <1>3 DEF UrlEnds
  <2>2. \A i \in UrlEnds(s) : e <= i
    BY <1>1 DEF UrlEnds
  <2>3. UrlEnds(s) \in SUBSET Nat
    BY <1>1 DEF UrlEnds
  <2>4. Min(UrlEnds(s)) = e
    BY <2>1, <2>2, <2>3, MinIs
  <2> QED
    BY <1>1, <2>1, <2>4 DEF FirstUrl
<1> QED
  BY <1>2, <1>3

\* Every URL has a first cell and an end.
LEMMA UrlFound ==
    ASSUME NEW s \in Seq(Cells), Starts(s) # {}
    PROVE  \E m \in Starts(s), e \in Nat :
              /\ m < e /\ e <= Len(s) + 1
              /\ \A i \in Starts(s) : m <= i
              /\ \A i \in m..(e - 1) : s[i] # "n"
              /\ e = Len(s) + 1 \/ s[e] = "n"
<1> PICK n \in Nat : n = Len(s)
  OBVIOUS
<1>1. Starts(s) \in SUBSET Nat
  BY DEF Starts
<1>2. PICK m \in Starts(s) : \A i \in Starts(s) : m <= i
  BY <1>1, Least
<1>3. m \in 1..n /\ s[m] = "p"
  BY DEF Starts
<1> DEFINE E == {i \in 1..(n + 1) : m < i /\ (i = n + 1 \/ s[i] = "n")}
<1>4. E \in SUBSET Nat /\ n + 1 \in E
  BY <1>3
<1>5. PICK e \in E : \A i \in E : e <= i
  BY <1>4, Least
<1>6. e \in 1..(n + 1) /\ m < e /\ (e = n + 1 \/ s[e] = "n")
  BY <1>5
<1>7. ASSUME NEW i \in m..(e - 1) PROVE s[i] # "n"
  <2>1. i \in 1..(n + 1) /\ i < e /\ (i = m \/ m < i)
    BY <1>3, <1>6
  <2>2. i \notin E
    BY <1>5, <1>6, <2>1
  <2> QED
    BY <1>3, <2>1, <2>2
<1> QED
  BY <1>2, <1>6, <1>7

\* Parts of sequences, cell by cell.
LEMMA Part ==
    ASSUME NEW s \in Seq(Cells), NEW x \in Nat, NEW y \in Nat,
           1 <= x, x <= y + 1, y <= Len(s)
    PROVE  /\ SubSeq(s, x, y) \in Seq(Cells)
           /\ Len(SubSeq(s, x, y)) = y + 1 - x
           /\ \A i \in 1..(y + 1 - x) : SubSeq(s, x, y)[i] = s[x + i - 1]
OBVIOUS

LEMMA SameParts ==
    ASSUME NEW s \in Seq(Cells), NEW t \in Seq(Cells), NEW b \in Nat, NEW x \in Nat, NEW y \in Nat,
           1 <= x, x <= y + 1, y <= Len(s), b + y <= Len(t),
           \A i \in x..y : s[i] = t[b + i]
    PROVE  SubSeq(s, x, y) = SubSeq(t, b + x, b + y)
<1>1. /\ SubSeq(s, x, y) \in Seq(Cells)
      /\ Len(SubSeq(s, x, y)) = y + 1 - x
      /\ \A i \in 1..(y + 1 - x) : SubSeq(s, x, y)[i] = s[x + i - 1]
  BY Part
<1>2. /\ SubSeq(t, b + x, b + y) \in Seq(Cells)
      /\ Len(SubSeq(t, b + x, b + y)) = b + y + 1 - (b + x)
      /\ \A i \in 1..(b + y + 1 - (b + x)) : SubSeq(t, b + x, b + y)[i] = t[b + x + i - 1]
  <2>1. b + x \in Nat /\ b + y \in Nat /\ 1 <= b + x /\ b + x <= b + y + 1
    OBVIOUS
  <2> QED
    BY <2>1, Part
<1>3. b + y + 1 - (b + x) = y + 1 - x
  OBVIOUS
<1>4. ASSUME NEW i \in 1..(y + 1 - x) PROVE s[x + i - 1] = t[b + x + i - 1]
  <2>1. x + i - 1 \in x..y /\ b + (x + i - 1) = b + x + i - 1
    OBVIOUS
  <2> QED
    BY <2>1
<1> QED
  BY <1>1, <1>2, <1>3, <1>4

\* u is what t ends with.
Ends(u, t, b) == Len(t) = b + Len(u) /\ \A i \in 1..Len(u) : u[i] = t[b + i]

LEMMA EndStarts ==
    ASSUME NEW u \in Seq(Cells), NEW t \in Seq(Cells), NEW b \in Nat, Ends(u, t, b)
    PROVE  /\ \A j \in Starts(u) : b + j \in Starts(t)
           /\ \A i \in Starts(t) : i > b => i - b \in Starts(u)
<1> PICK n \in Nat : n = Len(u)
  OBVIOUS
<1>1. Len(t) = b + n /\ \A i \in 1..n : u[i] = t[b + i]
  BY DEF Ends
<1>2. ASSUME NEW j \in Starts(u) PROVE b + j \in Starts(t)
  <2>1. j \in 1..(n - 1) /\ u[j] = "p" /\ u[j + 1] = "q"
    BY DEF Starts
  <2>2. j \in 1..n /\ j + 1 \in 1..n /\ b + (j + 1) = b + j + 1
    BY <2>1
  <2>3. t[b + j] = "p" /\ t[b + j + 1] = "q"
    BY <1>1, <2>1, <2>2
  <2> QED
    BY <1>1, <2>1, <2>3 DEF Starts
<1>3. ASSUME NEW i \in Starts(t), i > b PROVE i - b \in Starts(u)
  <2>1. i \in 1..(b + n - 1) /\ t[i] = "p" /\ t[i + 1] = "q"
    BY <1>1 DEF Starts
  <2>2. /\ i - b \in 1..(n - 1) /\ i - b \in 1..n /\ i - b + 1 \in 1..n
        /\ b + (i - b) = i /\ b + (i - b + 1) = i + 1
    BY <1>3, <2>1
  <2>3. u[i - b] = "p" /\ u[i - b + 1] = "q"
    BY <1>1, <2>1, <2>2
  <2> QED
    BY <2>2, <2>3 DEF Starts
<1> QED
  BY <1>2, <1>3

LEMMA EndUrl ==
    ASSUME NEW u \in Seq(Cells), NEW t \in Seq(Cells), NEW b \in Nat, Ends(u, t, b),
           Starts(u) # {}, \A i \in Starts(t) : i > b
    PROVE  FirstUrl(t) = FirstUrl(u)
<1> PICK n \in Nat : n = Len(u)
  OBVIOUS
<1>1. Len(t) = b + n /\ \A i \in 1..n : u[i] = t[b + i]
  BY DEF Ends
<1>2. PICK m \in Starts(u), e \in Nat :
              /\ m < e /\ e <= n + 1
              /\ \A i \in Starts(u) : m <= i
              /\ \A i \in m..(e - 1) : u[i] # "n"
              /\ e = n + 1 \/ u[e] = "n"
  BY UrlFound
<1>3. m \in Nat /\ 1 <= m /\ m < e
  BY <1>2 DEF Starts
<1>4. FirstUrl(u) = SubSeq(u, m, e - 1)
  <2>1. e \in m..(Len(u) + 1)
    BY <1>2, <1>3
  <2> QED
    BY <1>2, <2>1, UrlIs
<1>5. FirstUrl(t) = SubSeq(t, b + m, b + e - 1)
  <2>1. b + m \in Starts(t)
    BY EndStarts
  <2>2. b + e \in (b + m)..(Len(t) + 1)
    BY <1>1, <1>2, <1>3
  <2>3. ASSUME NEW i \in Starts(t) PROVE b + m <= i
    <3>1. i - b \in Starts(u) /\ i \in Nat
      BY EndStarts DEF Starts
    <3>2. m <= i - b
      BY <1>2, <3>1
    <3> QED
      BY <1>3, <3>1, <3>2
  <2>4. ASSUME NEW i \in (b + m)..(b + e - 1) PROVE t[i] # "n"
    <3>1. i - b \in m..(e - 1) /\ i - b \in 1..n /\ b + (i - b) = i
      BY <1>2, <1>3
    <3> QED
      BY <1>1, <1>2, <3>1
  <2>5. b + e = Len(t) + 1 \/ t[b + e] = "n"
    <3>1. CASE e = n + 1
      BY <1>1, <3>1
    <3>2. CASE e # n + 1
      <4>1. e \in 1..n
        BY <1>2, <1>3, <3>2
      <4> QED
        BY <1>1, <1>2, <3>2, <4>1
    <3> QED
      BY <3>1, <3>2
  <2> QED
    BY <2>1, <2>2, <2>3, <2>4, <2>5, UrlIs
<1>6. SubSeq(u, m, e - 1) = SubSeq(t, b + m, b + (e - 1))
  <2>1. e - 1 \in Nat /\ 1 <= m /\ m <= e - 1 + 1 /\ e - 1 <= n /\ b + (e - 1) <= Len(t)
    BY <1>1, <1>2, <1>3
  <2>2. \A i \in m..(e - 1) : u[i] = t[b + i]
    BY <1>1, <1>2, <1>3
  <2> QED
    BY <1>3, <2>1, <2>2, SameParts
<1>7. b + (e - 1) = b + e - 1
  OBVIOUS
<1> QED
  BY <1>4, <1>5, <1>6, <1>7

\* A URL that has ended stays the first, whatever comes after it.
LEMMA EndedUrl ==
    ASSUME NEW s \in Seq(Cells), NEW t \in Seq(Cells), Len(s) <= Len(t),
           \A i \in 1..Len(s) : t[i] = s[i],
           NEW j \in Starts(s), NEW b \in LineEnds(s), j < b
    PROVE  FirstUrl(t) = FirstUrl(s)
<1> PICK n \in Nat, k \in Nat : n = Len(s) /\ k = Len(t)
  OBVIOUS
<1>1. n <= k /\ b \in 1..n /\ s[b] = "n"
  BY DEF LineEnds
<1>2. PICK m \in Starts(s), e \in Nat :
              /\ m < e /\ e <= n + 1
              /\ \A i \in Starts(s) : m <= i
              /\ \A i \in m..(e - 1) : s[i] # "n"
              /\ e = n + 1 \/ s[e] = "n"
  BY UrlFound
<1>3. m \in Nat /\ 1 <= m /\ m < e /\ j \in Nat /\ m <= j
  BY <1>2 DEF Starts
<1>4. e <= b
  <2>1. ~(b \in m..(e - 1))
    BY <1>1, <1>2
  <2> QED
    BY <1>1, <1>3, <2>1
<1>5. FirstUrl(s) = SubSeq(s, m, e - 1)
  <2>1. e \in m..(Len(s) + 1)
    BY <1>2, <1>3
  <2> QED
    BY <1>2, <2>1, UrlIs
<1>6. FirstUrl(t) = SubSeq(t, m, e - 1)
  <2>1. m \in Starts(t)
    <3>1. m \in 1..(n - 1) /\ s[m] = "p" /\ s[m + 1] = "q"
      BY DEF Starts
    <3>2. t[m] = "p" /\ t[m + 1] = "q"
      BY <3>1
    <3> QED
      BY <1>1, <3>1, <3>2 DEF Starts
  <2>2. e \in m..(Len(t) + 1) /\ t[e] = "n"
    BY <1>1, <1>2, <1>3, <1>4
  <2>3. ASSUME NEW i \in Starts(t) PROVE m <= i
    <3>1. i \in 1..(k - 1) /\ t[i] = "p" /\ t[i + 1] = "q"
      BY DEF Starts
    <3>2. ASSUME i < m PROVE i \in Starts(s)
      <4>1. i \in 1..(n - 1)
        BY <1>1, <1>2, <1>3, <1>4, <3>1, <3>2
      <4>2. i \in 1..n /\ i + 1 \in 1..n
        BY <4>1
      <4>3. s[i] = "p" /\ s[i + 1] = "q"
        BY <3>1, <4>2
      <4> QED
        BY <4>1, <4>3 DEF Starts
    <3> QED
      BY <1>2, <1>3, <3>1, <3>2
  <2>4. \A i \in m..(e - 1) : t[i] # "n"
    BY <1>1, <1>2, <1>3, <1>4
  <2> QED
    BY <2>1, <2>2, <2>3, <2>4, UrlIs
<1>7. SubSeq(s, m, e - 1) = SubSeq(t, 0 + m, 0 + (e - 1))
  <2>1. e - 1 \in Nat /\ m <= e - 1 + 1 /\ e - 1 <= n /\ 0 + (e - 1) <= k
    BY <1>1, <1>3, <1>4
  <2>2. \A i \in m..(e - 1) : s[i] = t[0 + i]
    BY <1>1, <1>3, <1>4
  <2> QED
    BY <1>3, <2>1, <2>2, SameParts
<1>8. 0 + m = m /\ 0 + (e - 1) = e - 1
  BY <1>3
<1> QED
  BY <1>5, <1>6, <1>7, <1>8

\* A URL before the end of a line is on one of the lines that are whole: the
\* one that ends at the next end.
LEMMA OnItsLine ==
    ASSUME NEW s \in Seq(Cells), NEW j \in Starts(s), NEW f \in LineEnds(s), j < f
    PROVE  \E e \in LineEnds(s) : e <= f /\ Starts(Line(s, e)) # {}
<1> DEFINE N == {i \in LineEnds(s) : j < i}
<1>1. N \in SUBSET Nat /\ f \in N
  BY DEF LineEnds
<1>2. PICK e \in N : \A i \in N : e <= i
  BY <1>1, Least
<1>3. PICK n \in Nat : n = Len(s)
  OBVIOUS
<1>4. /\ j \in 1..n /\ j + 1 \in 1..n /\ s[j] = "p" /\ s[j + 1] = "q"
      /\ e \in 1..n /\ s[e] = "n" /\ j < e /\ e <= f
  BY <1>1, <1>2, <1>3 DEF Starts, LineEnds
<1>5. j + 1 < e
  BY <1>4
<1>6. PICK b \in 0..(e - 1) : /\ b = 0 \/ s[b] = "n"
                              /\ Line(s, e) = SubSeq(s, b + 1, e - 1)
  <2>1. e \in 1..(Len(s) + 1)
    BY <1>3, <1>4
  <2> QED
    BY <2>1, LineIs, Zenon
<1>7. b < j
  <2>1. b # j
    BY <1>4, <1>6
  <2>2. ~(b > j)
    BY <1>2, <1>3, <1>4, <1>6 DEF LineEnds
  <2> QED
    BY <1>4, <1>6, <2>1, <2>2
<1>8. /\ Len(Line(s, e)) = e - 1 - b
      /\ Line(s, e)[j - b] = s[j] /\ Line(s, e)[j - b + 1] = s[j + 1]
  <2>1. /\ Len(SubSeq(s, b + 1, e - 1)) = e - 1 - b
        /\ \A i \in 1..(e - 1 - b) : SubSeq(s, b + 1, e - 1)[i] = s[b + i]
    BY <1>3, <1>4, <1>6
  <2>2. j - b \in 1..(e - 1 - b) /\ j - b + 1 \in 1..(e - 1 - b)
    BY <1>4, <1>5, <1>6, <1>7
  <2> QED
    BY <1>4, <1>6, <2>1, <2>2
<1>9. j - b \in Starts(Line(s, e))
  BY <1>4, <1>5, <1>6, <1>7, <1>8 DEF Starts
<1> QED
  BY <1>2, <1>4, <1>9

\* The first line with a URL shows the first URL of all.
LEMMA FirstHit ==
    ASSUME NEW s \in Seq(Cells), NEW h \in LineEnds(s), Starts(Line(s, h)) # {},
           \A e \in LineEnds(s) : Starts(Line(s, e)) # {} => h <= e
    PROVE  /\ consider(Line(s, h), <<>>) = <<FirstUrl(s)>>
           /\ \E i \in Starts(s) : i < h
<1> PICK n \in Nat : n = Len(s)
  OBVIOUS
<1>1. h \in 1..n /\ s[h] = "n"
  BY DEF LineEnds
<1>2. PICK a \in 0..(h - 1) : /\ a = 0 \/ s[a] = "n"
                              /\ \A i \in (a + 1)..(h - 1) : s[i] # "n"
                              /\ Line(s, h) = SubSeq(s, a + 1, h - 1)
  <2>1. h \in 1..(Len(s) + 1)
    BY <1>1
  <2> QED
    BY <2>1, LineIs, Zenon
<1>3. a \in Nat /\ h \in Nat /\ a < h /\ h <= n
  BY <1>1, <1>2
<1> DEFINE line == Line(s, h)
<1>4. /\ line \in Seq(Cells) /\ Len(line) = h - 1 - a
      /\ \A i \in 1..(h - 1 - a) : line[i] = s[a + i]
  <2>1. a + 1 \in Nat /\ h - 1 \in Nat /\ 1 <= a + 1 /\ a + 1 <= h - 1 + 1 /\ h - 1 <= Len(s)
    BY <1>3
  <2>2. /\ SubSeq(s, a + 1, h - 1) \in Seq(Cells)
        /\ Len(SubSeq(s, a + 1, h - 1)) = h - 1 + 1 - (a + 1)
        /\ \A i \in 1..(h - 1 + 1 - (a + 1)) : SubSeq(s, a + 1, h - 1)[i] = s[a + 1 + i - 1]
    BY <2>1, Part
  <2>3. h - 1 + 1 - (a + 1) = h - 1 - a /\ \A i \in 1..(h - 1 - a) : a + 1 + i - 1 = a + i
    BY <1>3
  <2> QED
    BY <1>2, <2>2, <2>3
<1>5. PICK m \in Starts(line) : \A i \in Starts(line) : m <= i
  <2>1. Starts(line) \in SUBSET Nat
    BY DEF Starts
  <2> QED
    BY <2>1, Least
<1> HIDE DEF line
<1>6. /\ m \in 1..(h - 1 - a - 1) /\ line[m] = "p" /\ line[m + 1] = "q"
      /\ m \in Nat /\ 1 <= m /\ a + m + 1 < h
  <2>1. m \in 1..(h - 1 - a - 1) /\ line[m] = "p" /\ line[m + 1] = "q"
    BY <1>4 DEF Starts
  <2> QED
    BY <1>3, <2>1
<1>7. a + m \in Starts(s)
  <2>1. m \in 1..(h - 1 - a) /\ m + 1 \in 1..(h - 1 - a) /\ a + (m + 1) = a + m + 1
    BY <1>3, <1>6
  <2>2. s[a + m] = "p" /\ s[a + m + 1] = "q"
    BY <1>4, <1>6, <2>1
  <2>3. a + m \in 1..(n - 1)
    BY <1>3, <1>6
  <2> QED
    BY <2>2, <2>3 DEF Starts
<1>8. ASSUME NEW j \in Starts(s) PROVE a + m <= j
  <2>1. j \in 1..(n - 1) /\ s[j] = "p" /\ s[j + 1] = "q"
    BY DEF Starts
  <2>2. ASSUME j <= a PROVE FALSE
    <3>1. j # a /\ a # 0
      BY <1>2, <2>1, <2>2
    <3>2. a \in LineEnds(s) /\ j < a
      BY <1>2, <1>3, <2>1, <2>2, <3>1 DEF LineEnds
    <3>3. PICK e \in LineEnds(s) : e <= a /\ Starts(Line(s, e)) # {}
      BY <3>2, OnItsLine
    <3>4. h <= e /\ e \in Nat
      BY <3>3 DEF LineEnds
    <3> QED
      BY <1>3, <3>3, <3>4
  <2>3. ASSUME j > a, j < a + m PROVE FALSE
    <3>1. /\ j - a \in 1..(h - 1 - a) /\ j - a + 1 \in 1..(h - 1 - a)
          /\ a + (j - a) = j /\ a + (j - a + 1) = j + 1
      BY <1>3, <1>6, <2>1, <2>3
    <3>2. line[j - a] = "p" /\ line[j - a + 1] = "q"
      BY <1>4, <2>1, <3>1
    <3>3. j - a \in 1..(h - 1 - a - 1) /\ j - a < m
      BY <1>3, <1>6, <2>1, <2>3, <3>1
    <3>4. j - a \in Starts(line)
      BY <1>4, <3>2, <3>3 DEF Starts
    <3> QED
      BY <1>5, <1>6, <3>3, <3>4
  <2> QED
    BY <1>3, <1>6, <2>1, <2>2, <2>3
<1>9. FirstUrl(s) = SubSeq(s, a + m, h - 1)
  <2>1. h \in (a + m)..(Len(s) + 1)
    BY <1>3, <1>6
  <2>2. \A i \in (a + m)..(h - 1) : s[i] # "n"
    BY <1>2, <1>3, <1>6
  <2> QED
    BY <1>1, <1>7, <1>8, <2>1, <2>2, UrlIs
<1>10. SubSeq(line, m, h - 1 - a) = SubSeq(s, a + m, a + (h - 1 - a))
  <2>1. /\ h - 1 - a \in Nat /\ m <= h - 1 - a + 1 /\ h - 1 - a <= Len(line)
        /\ a + (h - 1 - a) <= Len(s)
    BY <1>3, <1>4, <1>6
  <2>2. \A i \in m..(h - 1 - a) : line[i] = s[a + i]
    BY <1>3, <1>4, <1>6
  <2> QED
    BY <1>3, <1>4, <1>6, <2>1, <2>2, SameParts
<1>11. consider(line, <<>>) = <<SubSeq(line, m, h - 1 - a)>>
  <2>1. Starts(line) # {} /\ Starts(line) \in SUBSET Nat
    <3>1. Starts(line) \in SUBSET Nat
      BY DEF Starts
    <3> QED
      BY <1>5, <3>1
  <2>2. Min(Starts(line)) = m
    BY <1>5, <2>1, MinIs
  <2> QED
    BY <1>4, <2>1, <2>2 DEF consider
<1>12. a + (h - 1 - a) = h - 1 /\ a + m < h
  BY <1>3, <1>6
<1> QED
  BY <1>7, <1>9, <1>10, <1>11, <1>12 DEF line

-----------------------------------------------------------------------------
(* The scan.                                                                *)

\* What was scanned of the output s: the last, unfinished line of it, and its
\* first URL as soon as that is on a line that is whole.
Scanning(s, line, found) ==
    \E b \in Nat :
        /\ b = 0 \/ b \in LineEnds(s)
        /\ \A i \in LineEnds(s) : i <= b
        /\ line \in Seq(Cells) /\ Ends(line, s, b)
        /\ found = IF \E i \in Starts(s) : i < b THEN <<FirstUrl(s)>> ELSE <<>>

\* A Write goes on with the scan of the output.
LEMMA WriteScans ==
    ASSUME NEW s \in Seq(Cells), NEW chunk \in Seq(Cells), Scanning(s, pending, reports)
    PROVE  Scanning(s \o chunk, Scanned(chunk).line, Scanned(chunk).found)
<1> DEFINE t     == s \o chunk
           all   == pending \o chunk
           line  == Line(all, Len(all) + 1)
           hits  == {e \in LineEnds(all) : Starts(Line(all, e)) # {}}
           found == IF hits = {} THEN reports ELSE consider(Line(all, Min(hits)), reports)
<1>1. PICK b \in Nat :
         /\ b = 0 \/ b \in LineEnds(s)
         /\ \A i \in LineEnds(s) : i <= b
         /\ pending \in Seq(Cells) /\ Ends(pending, s, b)
         /\ reports = IF \E i \in Starts(s) : i < b THEN <<FirstUrl(s)>> ELSE <<>>
  BY DEF Scanning
<1>2. PICK p \in Nat, k \in Nat : p = Len(pending) /\ k = Len(chunk)
  BY <1>1
<1>3. Len(s) = b + p /\ \A i \in 1..p : pending[i] = s[b + i]
  BY <1>1, <1>2 DEF Ends
<1>4. /\ t \in Seq(Cells) /\ Len(t) = b + p + k
      /\ \A i \in 1..(b + p) : t[i] = s[i]
      /\ \A i \in 1..k : t[b + p + i] = chunk[i]
  <2> PICK l \in Nat : l = b + p
    OBVIOUS
  <2>1. l = Len(s)
    BY <1>3
  <2>2. /\ t \in Seq(Cells) /\ Len(t) = l + k
        /\ \A i \in 1..l : t[i] = s[i]
        /\ \A i \in 1..k : t[l + i] = chunk[i]
    BY <1>2, <2>1
  <2> HIDE DEF t
  <2> QED
    BY <2>2
<1>5. /\ all \in Seq(Cells) /\ Len(all) = p + k
      /\ \A i \in 1..p : all[i] = pending[i]
      /\ \A i \in 1..k : all[p + i] = chunk[i]
  BY <1>1, <1>2
<1>6. Scanned(chunk).line = line /\ Scanned(chunk).found = found
  BY DEF Scanned
<1> HIDE DEF t, all, found
<1>7. Ends(all, t, b)
  <2>1. ASSUME NEW i \in 1..(p + k) PROVE all[i] = t[b + i]
    <3>1. CASE i <= p
      <4>1. i \in 1..p /\ b + i \in 1..(b + p)
        BY <3>1
      <4> QED
        BY <1>3, <1>4, <1>5, <4>1
    <3>2. CASE i > p
      <4>1. i - p \in 1..k /\ p + (i - p) = i /\ b + p + (i - p) = b + i
        BY <3>2
      <4> QED
        BY <1>4, <1>5, <4>1
    <3> QED
      BY <3>1, <3>2
  <2> QED
    BY <1>4, <1>5, <2>1 DEF Ends
<1>8. b = 0 \/ t[b] = "n"
  BY <1>1, <1>3, <1>4 DEF LineEnds
\* The last end of a line in what is now the output.
<1>9. PICK c \in 0..(p + k) : /\ c = 0 \/ all[c] = "n"
                              /\ \A i \in (c + 1)..(p + k) : all[i] # "n"
                              /\ line = SubSeq(all, c + 1, p + k)
  <2> PICK e \in Nat : e = p + k + 1
    OBVIOUS
  <2>1. e \in 1..(Len(all) + 1) /\ e - 1 = p + k /\ line = Line(all, e)
    BY <1>5
  <2> HIDE DEF line
  <2>2. \E c \in 0..(e - 1) : /\ c = 0 \/ all[c] = "n"
                              /\ \A i \in (c + 1)..(e - 1) : all[i] # "n"
                              /\ Line(all, e) = SubSeq(all, c + 1, e - 1)
    BY <1>5, <2>1, LineIs, Zenon
  <2> QED
    BY <2>1, <2>2
<1>10. c \in Nat /\ c <= p + k
  BY <1>9
<1> HIDE DEF line
<1>11. b + c = 0 \/ b + c \in LineEnds(t)
  <2>1. CASE c = 0
    BY <1>4, <1>8, <1>10, <2>1 DEF LineEnds
  <2>2. CASE c # 0
    <3>1. c \in 1..(p + k) /\ b + c \in 1..(b + p + k)
      BY <1>10, <2>2
    <3>2. t[b + c] = "n"
      BY <1>5, <1>7, <1>9, <2>2, <3>1 DEF Ends
    <3> QED
      BY <1>4, <3>1, <3>2 DEF LineEnds
  <2> QED
    BY <2>1, <2>2
<1>12. ASSUME NEW i \in LineEnds(t) PROVE i <= b + c
  <2> SUFFICES ASSUME i > b + c PROVE FALSE
    BY <1>10 DEF LineEnds
  <2>1. i \in 1..(b + p + k) /\ t[i] = "n"
    BY <1>4 DEF LineEnds
  <2>2. i - b \in (c + 1)..(p + k) /\ i - b \in 1..(p + k) /\ b + (i - b) = i
    BY <1>10, <2>1
  <2>3. all[i - b] = t[i]
    BY <1>5, <1>7, <2>2 DEF Ends
  <2> QED
    BY <1>9, <2>1, <2>2, <2>3
<1>13. line \in Seq(Cells) /\ Ends(line, t, b + c)
  <2>1. /\ c + 1 \in Nat /\ p + k \in Nat /\ 1 <= c + 1 /\ c + 1 <= p + k + 1 /\ p + k <= Len(all)
    BY <1>5, <1>10
  <2>2. /\ line \in Seq(Cells)
        /\ Len(line) = p + k + 1 - (c + 1)
        /\ \A i \in 1..(p + k + 1 - (c + 1)) : line[i] = all[c + 1 + i - 1]
    BY <1>5, <1>9, <2>1, Part
  <2>3. p + k + 1 - (c + 1) = p + k - c /\ b + p + k = b + c + (p + k - c)
    BY <1>10
  <2>4. ASSUME NEW i \in 1..(p + k - c) PROVE line[i] = t[b + c + i]
    <3>1. c + 1 + i - 1 = c + i /\ c + i \in 1..(p + k) /\ b + (c + i) = b + c + i
      BY <1>10
    <3>2. all[c + i] = t[b + c + i]
      BY <1>5, <1>7, <3>1 DEF Ends
    <3> QED
      BY <2>2, <2>3, <3>1, <3>2
  <2> QED
    BY <1>4, <2>2, <2>3, <2>4 DEF Ends
\* The URLs of what is now the output.
<1>14. \A i \in Starts(t) : i \in Nat /\ i # b /\ (i < b => i \in Starts(s))
  <2> TAKE i \in Starts(t)
  <2>1. i \in 1..(b + p + k - 1) /\ t[i] = "p" /\ t[i + 1] = "q"
    BY <1>4 DEF Starts
  <2>2. i # b
    BY <1>8, <2>1
  <2>3. ASSUME i < b PROVE i \in Starts(s)
    <3>1. i \in 1..(b + p) /\ i + 1 \in 1..(b + p)
      <4>1. i + 1 <= b
        BY <2>1, <2>3
      <4> QED
        BY <2>1, <4>1
    <3>2. s[i] = "p" /\ s[i + 1] = "q" /\ i \in 1..(b + p - 1)
      BY <1>4, <2>1, <3>1
    <3> QED
      BY <1>3, <3>2 DEF Starts
  <2> QED
    BY <2>1, <2>2, <2>3
<1>15. \A i \in Starts(s) : i \in Starts(t) /\ i \in Nat
  <2> TAKE i \in Starts(s)
  <2>1. i \in 1..(b + p - 1) /\ s[i] = "p" /\ s[i + 1] = "q"
    BY <1>3 DEF Starts
  <2>2. t[i] = "p" /\ t[i + 1] = "q" /\ i \in 1..(b + p + k - 1)
    BY <1>4, <2>1
  <2> QED
    BY <1>4, <2>1, <2>2 DEF Starts
<1>16. found = IF \E i \in Starts(t) : i < b + c THEN <<FirstUrl(t)>> ELSE <<>>
  <2>1. CASE \E i \in Starts(s) : i < b
    <3>1. PICK i \in Starts(s) : i < b
      BY <2>1
    <3>2. b \in LineEnds(s) /\ i \in Starts(t) /\ i < b + c
      BY <1>1, <1>10, <1>15, <3>1
    <3>3. Len(s) <= Len(t) /\ \A j \in 1..Len(s) : t[j] = s[j]
      BY <1>3, <1>4
    <3>4. FirstUrl(t) = FirstUrl(s)
      BY <1>4, <3>1, <3>2, <3>3, EndedUrl
    <3>5. reports = <<FirstUrl(s)>> /\ reports # <<>>
      BY <1>1, <2>1
    <3>6. found = reports
      BY <3>5 DEF found, consider
    <3> QED
      BY <3>2, <3>4, <3>5, <3>6
  <2>2. CASE ~\E i \in Starts(s) : i < b
    <3>1. reports = <<>>
      BY <1>1, <2>2
    <3>2. \A i \in Starts(t) : i > b
      BY <1>14, <2>2
    <3>3. CASE hits = {}
      <4>1. ASSUME NEW i \in Starts(t), i < b + c PROVE FALSE
        <5>1. i - b \in Starts(all) /\ i \in Nat /\ i > b
          BY <1>4, <1>5, <1>7, <1>14, <3>2, EndStarts
        <5>2. c # 0 /\ i - b < c
          BY <1>10, <4>1, <5>1
        <5>3. c \in LineEnds(all)
          BY <1>5, <1>9, <1>10, <5>2 DEF LineEnds
        <5> QED
          BY <1>5, <3>3, <5>1, <5>2, <5>3, OnItsLine
      <4> QED
        BY <3>1, <3>3, <4>1 DEF found
    <3>4. CASE hits # {}
      <4>1. hits \in SUBSET Nat
        BY DEF LineEnds
      <4>2. Min(hits) \in hits /\ \A e \in hits : Min(hits) <= e
        BY <3>4, <4>1, MinFound
      <4>3. PICK h \in LineEnds(all) : /\ h = Min(hits) /\ Starts(Line(all, h)) # {}
                                       /\ \A e \in hits : h <= e
        BY <4>2
      <4>4. found = <<FirstUrl(all)>> /\ \E j \in Starts(all) : j < h
        <5>1. /\ consider(Line(all, h), <<>>) = <<FirstUrl(all)>>
              /\ \E j \in Starts(all) : j < h
          BY <1>5, <4>3, FirstHit
        <5> QED
          BY <3>1, <3>4, <4>3, <5>1 DEF found
      <4>5. PICK j \in Starts(all) : j < h
        BY <4>4
      <4>6. FirstUrl(t) = FirstUrl(all)
        BY <1>4, <1>5, <1>7, <3>2, <4>5, EndUrl
      <4>7. h <= c
        <5>1. h \in 1..(p + k) /\ all[h] = "n"
          BY <1>5 DEF LineEnds
        <5> QED
          BY <1>9, <1>10, <5>1
      <4>8. b + j \in Starts(t) /\ b + j < b + c
        <5>1. b + j \in Starts(t)
          BY <1>4, <1>5, <1>7, EndStarts
        <5>2. j \in Nat /\ h \in Nat
          BY DEF Starts, LineEnds
        <5> QED
          BY <1>10, <4>5, <4>7, <5>1, <5>2
      <4> QED
        BY <4>4, <4>6, <4>8
    <3> QED
      BY <3>3, <3>4
  <2> QED
    BY <2>1, <2>2
<1>17. b + c \in Nat
  BY <1>10
<1> QED
  BY <1>6, <1>11, <1>12, <1>13, <1>16, <1>17 DEF Scanning, t

\* The flush, after the last Write, considers what is left of the last line.
LEMMA FlushScans ==
    ASSUME NEW s \in Seq(Cells), Scanning(s, pending, reports)
    PROVE  Flushed = IF HasUrl(s) THEN <<FirstUrl(s)>> ELSE <<>>
<1>1. PICK b \in Nat :
         /\ b = 0 \/ b \in LineEnds(s)
         /\ \A i \in LineEnds(s) : i <= b
         /\ pending \in Seq(Cells) /\ Ends(pending, s, b)
         /\ reports = IF \E i \in Starts(s) : i < b THEN <<FirstUrl(s)>> ELSE <<>>
  BY DEF Scanning
<1>2. CASE \E i \in Starts(s) : i < b
  BY <1>1, <1>2 DEF Flushed, consider, HasUrl
<1>3. CASE ~\E i \in Starts(s) : i < b
  <2>1. \A i \in Starts(s) : i \in Nat /\ i > b
    <3> TAKE i \in Starts(s)
    <3>1. i \in Nat /\ s[i] = "p"
      BY DEF Starts
    <3>2. b = 0 \/ s[b] = "n"
      BY <1>1 DEF LineEnds
    <3>3. i # b /\ ~(i < b)
      <4>1. i # 0
        BY DEF Starts
      <4> QED
        BY <1>3, <3>1, <3>2, <4>1
    <3> QED
      BY <3>1, <3>3
  <2>2. CASE Starts(pending) = {}
    <3>1. ~HasUrl(s)
      BY <1>1, <2>1, <2>2, EndStarts DEF HasUrl
    <3> QED
      BY <1>1, <1>3, <2>2, <3>1 DEF Flushed, consider
  <2>3. CASE Starts(pending) # {}
    <3>1. HasUrl(s)
      BY <1>1, <2>3, EndStarts DEF HasUrl
    <3>2. FirstUrl(s) = FirstUrl(pending)
      BY <1>1, <2>1, <2>3, EndUrl
    <3>3. Flushed = <<SubSeq(pending, Min(Starts(pending)), Len(pending))>>
      BY <1>1, <1>3, <2>3 DEF Flushed, consider
    <3>4. FirstUrl(pending) = SubSeq(pending, Min(Starts(pending)), Len(pending))
      <4> PICK n \in Nat : n = Len(pending)
        BY <1>1
      <4>1. \A i \in 1..n : pending[i] # "n"
        <5> SUFFICES ASSUME NEW i \in 1..n, pending[i] = "n" PROVE FALSE
          OBVIOUS
        <5>1. b + i \in LineEnds(s)
          BY <1>1 DEF Ends, LineEnds
        <5> QED
          BY <1>1, <5>1
      <4>2. UrlEnds(pending) = {}
        <5>1. Min(Starts(pending)) \in Starts(pending)
          <6>1. Starts(pending) \in SUBSET Nat
            BY DEF Starts
          <6> QED
            BY <2>3, <6>1, MinFound
        <5>2. Min(Starts(pending)) \in 1..n
          BY <5>1 DEF Starts
        <5> QED
          BY <4>1, <5>2 DEF UrlEnds
      <4> QED
        BY <4>2 DEF FirstUrl
    <3> QED
      BY <3>1, <3>2, <3>3, <3>4
  <2> QED
    BY <2>2, <2>3
<1> QED
  BY <1>2, <1>3

-----------------------------------------------------------------------------
(* The output as a whole.                                                   *)

\* What the first k chunks of t come to.
Output(t, k) ==
    LET output[i \in 0..Len(t)] == IF i = 0 THEN <<>> ELSE output[i - 1] \o t[i]
    IN  output[k]

LEMMA OutputGrows ==
    ASSUME NEW t \in Seq(Seq(Cells))
    PROVE  /\ Output(t, 0) = <<>>
           /\ \A k \in 1..Len(t) : Output(t, k) = Output(t, k - 1) \o t[k]
           /\ \A k \in 0..Len(t) : Output(t, k) \in Seq(Cells)
<1> PICK l \in Nat : l = Len(t)
  OBVIOUS
<1> DEFINE F(n, f) == [i \in 0..n |-> IF i = 0 THEN <<>> ELSE f[i - 1] \o t[i]]
           Defined(n) == \E f : f = F(n, f)
           Bad == {n \in 0..l : ~Defined(n)}
\* There is such a function: one that goes a chunk less far can be extended.
<1>1. Bad = {}
  <2> SUFFICES ASSUME Bad # {} PROVE FALSE
    OBVIOUS
  <2>1. PICK n \in Bad : \A m \in Bad : n <= m
    <3>1. Bad \in SUBSET Nat
      <4> HIDE DEF Defined
      <4> QED
        OBVIOUS
    <3> HIDE DEF Bad
    <3> QED
      BY <3>1, Least
  <2>2. n \in 0..l /\ ~Defined(n)
    BY <2>1
  <2>3. CASE n = 0
    <3> DEFINE g == [i \in 0..0 |-> <<>>]
    <3>1. g = F(0, g)
      OBVIOUS
    <3> QED
      BY <2>2, <2>3, <3>1
  <2>4. CASE n # 0
    <3>1. n - 1 \in 0..l /\ Defined(n - 1)
      <4> HIDE DEF Defined
      <4>1. n - 1 \in 0..l /\ ~(n <= n - 1)
        BY <2>2, <2>4
      <4> QED
        BY <2>1, <4>1
    <3>2. PICK f : f = F(n - 1, f)
      BY <3>1
    <3> PICK e : e = f[n - 1] \o t[n]
      OBVIOUS
    <3> DEFINE g == [i \in 0..n |-> IF i = n THEN e ELSE f[i]]
    <3>3. ASSUME NEW i \in 0..n
          PROVE  g[i] = IF i = 0 THEN <<>> ELSE g[i - 1] \o t[i]
      <4>1. CASE i = n
        <5>1. n - 1 \in 0..n /\ n - 1 # n /\ n \in 0..n
          BY <2>2, <2>4
        <5>2. g[n] = e /\ g[n - 1] = f[n - 1]
          BY <2>2, <5>1
        <5> HIDE DEF g
        <5> QED
          BY <2>4, <4>1, <5>2
      <4>2. CASE i # n
        <5>1. i \in 0..(n - 1)
          BY <2>2, <4>2
        <5>2. f[i] = IF i = 0 THEN <<>> ELSE f[i - 1] \o t[i]
          BY <3>2, <5>1
        <5>3. g[i] = f[i]
          BY <4>2
        <5>4. i # 0 => g[i - 1] = f[i - 1]
          <6> SUFFICES ASSUME i # 0 PROVE g[i - 1] = f[i - 1]
            OBVIOUS
          <6>1. i - 1 \in 0..n /\ i - 1 # n
            BY <2>2, <5>1
          <6> QED
            BY <6>1
        <5> HIDE DEF g
        <5> QED
          BY <5>2, <5>3, <5>4
      <4> QED
        BY <4>1, <4>2
    <3>4. g = [i \in 0..n |-> g[i]]
      OBVIOUS
    <3>5. g = F(n, g)
      <4> HIDE DEF g
      <4> QED
        BY <3>3, <3>4
    <3> HIDE DEF g, F
    <3> QED
      BY <2>2, <3>5
  <2> QED
    BY <2>3, <2>4
<1>2. \E f : f = F(l, f)
  <2>1. Defined(l)
    <3> HIDE DEF Defined
    <3>1. l \in 0..l
      OBVIOUS
    <3> QED
      BY <1>1, <3>1
  <2> QED
    BY <2>1
<1> DEFINE out == CHOOSE f : f = F(l, f)
<1>3. out = F(l, out)
  <2> HIDE DEF F
  <2> QED
    BY <1>2
<1>4. \A k : Output(t, k) = out[k]
  BY DEF Output
<1> HIDE DEF out
<1>5. \A k \in 0..l : out[k] = IF k = 0 THEN <<>> ELSE out[k - 1] \o t[k]
  BY <1>3
<1>6. out[0] = <<>> /\ \A k \in 1..l : out[k] = out[k - 1] \o t[k]
  <2>1. out[0] = <<>>
    BY <1>5
  <2>2. ASSUME NEW k \in 1..l PROVE out[k] = out[k - 1] \o t[k]
    <3>1. k \in 0..l /\ k # 0
      OBVIOUS
    <3> QED
      BY <1>5, <3>1
  <2> QED
    BY <2>1, <2>2
<1>7. \A k \in 0..l : out[k] \in Seq(Cells)
  <2> DEFINE Odd == {k \in 0..l : out[k] \notin Seq(Cells)}
  <2> SUFFICES ASSUME Odd # {} PROVE FALSE
    OBVIOUS
  <2>1. PICK k \in Odd : \A m \in Odd : k <= m
    <3>1. Odd \in SUBSET Nat
      OBVIOUS
    <3> HIDE DEF Odd
    <3> QED
      BY <3>1, Least
  <2>2. k # 0 /\ k \in 0..l /\ out[k] \notin Seq(Cells)
    <3>1. out[0] \in Seq(Cells)
      BY <1>6
    <3> QED
      BY <2>1, <3>1
  <2>3. k - 1 \in 0..l /\ ~(k <= k - 1) /\ k \in 1..l
    BY <2>2
  <2>4. out[k - 1] \in Seq(Cells)
    BY <2>1, <2>3
  <2>5. out[k] = out[k - 1] \o t[k]
    BY <1>6, <2>3
  <2>6. t[k] \in Seq(Cells)
    BY <2>3
  <2> QED
    BY <2>2, <2>4, <2>5, <2>6
<1> QED
  BY <1>4, <1>6, <1>7

-----------------------------------------------------------------------------
(* The flow.                                                                *)

LEMMA PrintedIs == \A k : Printed(k) = Output(text, k)
BY DEF Printed, Output

\* The scanner has seen what was collected, and the flush has seen the rest.
ScanKept ==
    /\ text \in Seq(Seq(Cells))
    /\ text = <<>> => reports = <<>> /\ verdict = "none"
    /\ text # <<>> =>
         /\ written <= Len(text) /\ collected <= written
         /\ verdict = "none" => Scanning(Output(text, collected), pending, reports)
         /\ verdict # "none" =>
              reports = IF HasUrl(Output(text, collected))
                        THEN <<FirstUrl(Output(text, collected))>> ELSE <<>>

LEMMA ScanInit == FlowInit => ScanKept
<1> SUFFICES ASSUME FlowInit PROVE ScanKept
  OBVIOUS
<1>1. text \in Seq(Seq(Cells))
  <2>1. text \in Texts \/ text = <<>>
    BY DEF FlowInit
  <2>2. Texts \subseteq Seq(Seq(Cells))
    BY FlowAssumption DEF FlowAssumption, Cells
  <2>3. <<>> \in Seq(Seq(Cells))
    BY EmptySeq, Zenon
  <2> QED
    BY ONLY <2>1, <2>2, <2>3, Zenon
<1>2. Output(text, 0) = <<>>
  BY <1>1, OutputGrows
<1>3. Scanning(<<>>, <<>>, <<>>)
  <2>1. Ends(<<>>, <<>>, 0) /\ <<>> \in Seq(Cells)
    BY DEF Ends
  <2>2. LineEnds(<<>>) = {} /\ Starts(<<>>) = {}
    BY DEF LineEnds, Starts
  <2> QED
    BY <2>1, <2>2 DEF Scanning
<1> QED
  BY <1>1, <1>2, <1>3 DEF FlowInit, Init, ScanKept

LEMMA ScanStep ==
    ASSUME ScanKept, RunnerInv, VerdictKept, [FlowNext]_flowVars
    PROVE  ScanKept'
<1>1. text' = text
  BY DEF FlowNext, flowVars, FlowCall, FlowWatch, FlowCopies, FlowWrites, Elsewhere,
         RunReturns, Over
<1>2. text \in Seq(Seq(Cells)) /\ collected \in Nat /\ written \in Nat
  BY RunnerAssumption DEF ScanKept, RunnerInv, TypeOK, RunnerAssumption
<1>3. CASE FlowCopies
  <2>1. /\ collected' = collected + 1 /\ written' = written /\ verdict' = verdict
        /\ copier = "copying" /\ collected < written
    BY <1>3 DEF FlowCopies, Copy, childVars
  <2>2. CASE text = <<>>
    BY <1>1, <1>2, <1>3, <2>1, <2>2 DEF FlowCopies, ScannerWrite, scanVars, ScanKept
  <2>3. CASE text # <<>>
    <3> DEFINE s == Output(text, collected)
               chunk == text[collected + 1]
    <3>1. verdict = "none"
      BY <2>1 DEF VerdictKept, RunnerInv, Phases
    <3>2. collected + 1 \in 1..Len(text) /\ collected \in 0..Len(text) /\ collected + 1 - 1 = collected
      BY <1>2, <2>1, <2>3 DEF ScanKept
    <3>3. /\ Output(text, collected + 1) = s \o chunk
          /\ s \in Seq(Cells) /\ chunk \in Seq(Cells)
      <4>1. Output(text, collected + 1) = Output(text, collected) \o text[collected + 1]
        <5>1. \A k \in 1..Len(text) : Output(text, k) = Output(text, k - 1) \o text[k]
          BY <1>2, OutputGrows, Zenon
        <5> PICK k \in 1..Len(text) : k = collected + 1 /\ k - 1 = collected
          BY <3>2
        <5>2. Output(text, k) = Output(text, k - 1) \o text[k]
          BY <5>1
        <5>3. k - 1 = collected
          OBVIOUS
        <5>4. Output(text, k) = Output(text, collected) \o text[k]
          BY ONLY <5>2, <5>3, Zenon
        <5>5. k = collected + 1
          OBVIOUS
        <5> QED
          BY ONLY <5>4, <5>5, Zenon
      <4>2. Output(text, collected) \in Seq(Cells)
        BY <1>2, <3>2, OutputGrows
      <4>3. chunk \in Seq(Cells)
        BY <1>2, <3>2
      <4> QED
        BY <3>2, <4>1, <4>2, <4>3
    <3>4. Scanning(s, pending, reports)
      BY <2>3, <3>1 DEF ScanKept
    <3>5. pending' = Scanned(chunk).line /\ reports' = Scanned(chunk).found
      BY <1>3, <2>1, <2>3 DEF FlowCopies, ScannerWrite
    <3>6. Scanning(s \o chunk, Scanned(chunk).line, Scanned(chunk).found)
      BY <3>3, <3>4, WriteScans
    <3>7. Scanning(Output(text, collected + 1), pending', reports')
      <4> HIDE DEF s, chunk
      <4> QED
        BY <3>3, <3>5, <3>6
    <3>8. Scanning(Output(text', collected'), pending', reports')
      BY <1>1, <2>1, <3>7
    <3>9. written' <= Len(text') /\ collected' <= written'
      BY <1>1, <1>2, <2>1, <2>3 DEF ScanKept
    <3> QED
      BY <1>1, <1>2, <2>1, <2>3, <3>1, <3>8, <3>9 DEF ScanKept
  <2> QED
    BY <2>2, <2>3
<1>4. CASE RunReturns
  <2>1. /\ text # <<>> /\ verdict = "none" /\ reports' = Flushed
        /\ collected' = collected /\ written' = written
    BY <1>4 DEF RunReturns, vars, copyVars, childVars
  <2>2. collected \in 0..Len(text)
    BY <1>2, <2>1 DEF ScanKept
  <2>3. Output(text, collected) \in Seq(Cells)
    BY <1>2, <2>2, OutputGrows
  <2>4. Flushed = IF HasUrl(Output(text, collected))
                  THEN <<FirstUrl(Output(text, collected))>> ELSE <<>>
    BY <2>1, <2>3, FlushScans DEF ScanKept
  <2>5. verdict' # "none"
    BY <1>4 DEF RunReturns, Verdicts
  <2> QED
    BY <1>1, <1>2, <2>1, <2>4, <2>5 DEF ScanKept
<1>5. CASE FlowWrites
  <2>1. /\ written' = written + 1 /\ collected' = collected
        /\ pending' = pending /\ reports' = reports /\ verdict' = verdict
        /\ text # <<>> => written < Len(text)
    BY <1>5 DEF FlowWrites, Write, copyVars, scanVars
  <2> QED
    BY <1>1, <1>2, <2>1 DEF ScanKept
<1>6. CASE /\ UNCHANGED <<pending, reports, verdict, collected, written>>
  BY <1>1, <1>6 DEF ScanKept
<1>7. CASE FlowCall \/ FlowWatch \/ Elsewhere(CopyEnds)
           \/ Elsewhere(Exit \/ Stall \/ Unstall \/ CtxDone) \/ Over \/ UNCHANGED flowVars
  BY <1>6, <1>7 DEF FlowCall, FlowWatch, Elsewhere, scanVars, Over, flowVars, vars, callVars,
         watchVars, copyVars, childVars, CallStep, StartFails, Start, Reap, Collect,
         AwaitCopies, AwaitDelay, WatchStep, Interrupt, Kill, CopyEnds, Exit, Stall, Unstall,
         CtxDone
<1> QED
  BY <1>3, <1>4, <1>5, <1>7 DEF FlowNext

\* oauthflow.Run calls onURL at most once, with the first URL of whatever the
\* child printed, whole, however the pipe cuts the output and the scan runs
\* ahead of or behind the child; a flow that nobody cancels, of a child that
\* leaves nothing behind, has called it when Run returns.
THEOREM UrlIsReported == FlowSpec => []UrlReported
<1>1. FlowInit => VerdictKept /\ TextPiped /\ ScanKept
  BY VerdictInit, TextInit, ScanInit
<1>2. VerdictKept /\ TextPiped /\ ScanKept /\ RunnerInv /\ [FlowNext]_flowVars
         => (VerdictKept /\ TextPiped /\ ScanKept)'
  <2> SUFFICES ASSUME VerdictKept, TextPiped, ScanKept, RunnerInv, [FlowNext]_flowVars
               PROVE  VerdictKept' /\ TextPiped' /\ ScanKept'
    OBVIOUS
  <2> QED
    BY VerdictStep, TextStep, ScanStep DEF TextPiped
<1>3. RunnerInv /\ VerdictKept /\ TextPiped /\ ScanKept /\ WellBehavedUntouched => UrlReported
  <2> SUFFICES ASSUME RunnerInv, VerdictKept, TextPiped, ScanKept, WellBehavedUntouched
               PROVE  UrlReported
    OBVIOUS
  <2>1. ASSUME reports # <<>>
        PROVE  HasUrl(Output(text, collected)) /\ reports = <<FirstUrl(Output(text, collected))>>
    <3>1. text # <<>>
      BY <2>1 DEF ScanKept
    <3>2. CASE verdict # "none"
      BY <2>1, <3>1, <3>2 DEF ScanKept
    <3>3. CASE verdict = "none"
      BY <2>1, <3>1, <3>3 DEF ScanKept, Scanning, HasUrl
    <3> QED
      BY <3>2, <3>3
  <2>2. ASSUME verdict # "none", ctx = "live", stalled = "no", HasUrl(Output(text, written))
        PROVE  reports = <<FirstUrl(Output(text, written))>>
    <3>1. text # <<>> /\ pc = "returned" /\ piped
      BY <2>2 DEF ScanKept, VerdictKept, TextPiped
    <3>2. child = "ended" \/ child = "none"
      BY <3>1 DEF RunnerInv, TypeOK, Phases
    <3>3. collected = written
      BY <2>2, <3>1, <3>2 DEF RunnerInv, OutputKept, WellBehavedUntouched
    <3> QED
      BY <2>2, <3>1, <3>3 DEF ScanKept
  <2> QED
    BY <2>1, <2>2, PrintedIs DEF UrlReported
<1> QED
  BY <1>1, <1>2, <1>3, FlowIsACall, Invariance, DelayIsHarmless, PTL DEF FlowSpec
=============================================================================
