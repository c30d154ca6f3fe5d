-------------------------- MODULE Lifecycle_proofs --------------------------
(***************************************************************************)
(* Proofs about Lifecycle for any number of users, names and sandboxes:    *)
(* what Create's answers are worth whoever else uses the daemon, and that  *)
(* Create keeps the promise of SandboxRegistry, step by step.              *)
(***************************************************************************)
EXTENDS Lifecycle, FiniteSetTheorems, WellFoundedInduction, TLAPS

WithCli == {"cli", "cliOK", "cliTaken", "cliFailed"}

\* Sandboxes are numbered in the order of their creation, each lives under one
\* name.
Numbered ==
    /\ \A n \in Names : boxes[n] < next
    /\ \A n, m \in Names : boxes[n] = boxes[m] /\ boxes[n] # 0 => n = m

\* How far a call is, and the name it goes by.
Stage(u) ==
    /\ pc[u] \in {"list"} \cup WithCli => Creates(u)
    /\ result[u] = "none" <=> pc[u] \notin {"ready", "done"}
    /\ result[u] = "nil" <=> pc[u] = "ready"
    /\ pc[u] \in WithCli => /\ chosen[u] \in Names
                            /\ job[u].name \in {0, chosen[u]}

\* What a call has made, and under which name it lives.
Making(u) ==
    /\ made[u] < next
    /\ pc[u] \in {"idle", "list", "cli", "cliTaken"} => made[u] = 0
    /\ pc[u] = "cliOK" => made[u] # 0
    /\ pc[u] \in {"get", "ready"} /\ Creates(u) => made[u] # 0
    /\ result[u] = "exists" => made[u] = 0
    /\ \A n \in Names : made[u] # 0 /\ boxes[n] = made[u] => n = chosen[u]

\* What a call knows of others when no 2xx answer loses its body.
Knowing(u) ==
    /\ handle[u].id < next
    /\ pc[u] = "ready" => handle[u].name = chosen[u] /\ handle[u].id # 0
    /\ \A n \in Names :
         handle[u].id # 0 /\ boxes[n] = handle[u].id => n = handle[u].name
    /\ pc[u] = "cli" /\ boxes[chosen[u]] # 0 => raced[u]
    /\ pc[u] = "cliTaken" => raced[u]

LifeInv == TypeOK /\ Numbered /\ \A u \in Users : Stage(u) /\ Making(u)
BodiesKept == "empty" \notin Faults

-----------------------------------------------------------------------------
\* A set of natural numbers that is not empty has a least element.
LEMMA Least ==
    ASSUME NEW S \in SUBSET Nat, S # {}
    PROVE  \E n \in S : \A m \in S : n <= m
<1>1. PICK n \in S : \A m \in S : ~(<<m, n>> \in OpToRel(<, Nat))
  BY WFMin, NatLessThanWellFounded
<1>2. \A m \in S : ~(m < n)
  BY <1>1 DEF OpToRel
<1>3. QED
  BY <1>2

\* generateName returns the first name that is not listed, if there is one.
LEMMA GeneratedIsFree ==
    ASSUME NEW existing, Names \ existing # {}
    PROVE  generateName(existing) \in Names \ existing
<1>1. Names \ existing \in SUBSET Nat
  BY LifecycleAssumption DEF LifecycleAssumption, Names
<1>2. \E n \in Names \ existing : \A m \in Names \ existing : n <= m
  BY <1>1, Least
<1>3. QED
  BY <1>2 DEF generateName

\* There are more names than sandboxes are ever made: one is always free.
LEMMA SomeNameIsFree ==
    ASSUME TypeOK, Numbered
    PROVE  Names \ {n \in Names : Exists(n)} # {}
<1>1. SUFFICES ASSUME \A n \in Names : boxes[n] # 0 PROVE FALSE
  BY DEF Exists
<1>2. /\ IsFiniteSet(Names) /\ Cardinality(Names) = MaxNames
      /\ IsFiniteSet(Boxes) /\ Cardinality(Boxes) = MaxBoxes
  BY FS_Interval, LifecycleAssumption DEF LifecycleAssumption, Names, Boxes
<1>3. boxes \in [Names -> Boxes]
  BY <1>1 DEF TypeOK
<1>4. \E n, m \in Names : n # m /\ boxes[n] = boxes[m]
  BY <1>2, <1>3, FS_PigeonHole, LifecycleAssumption DEF LifecycleAssumption
<1>5. QED
  BY <1>1, <1>4 DEF Numbered

-----------------------------------------------------------------------------
\* What one step may do to the sandboxes: nothing, a new one under a free name,
\* or one gone.
DaemonStep ==
    \/ UNCHANGED <<boxes, next>>
    \/ \E n \in Names : Occupy(n)
    \/ \E n \in Names : Exists(n) /\ Vacate(n)

\* A method of a handle does to the daemon what DaemonStep allows.
LEMMA RequestStep ==
    ASSUME NEW u \in Users, NEW what, Request(u, what)
    PROVE  DaemonStep
  BY DEF Request, Effect, DaemonStep, Exists, daemonVars

\* A step of DaemonStep keeps the sandboxes typed.
LEMMA BoxesType ==
    ASSUME TypeOK, DaemonStep
    PROVE  /\ boxes' \in [Names -> Boxes \cup {0}]
           /\ next' \in 1..(MaxBoxes + 1)
<1> USE LifecycleAssumption DEF LifecycleAssumption, TypeOK, Boxes
<1>1. CASE UNCHANGED <<boxes, next>>
  BY <1>1
<1>2. ASSUME NEW n \in Names, Occupy(n) PROVE
          boxes' \in [Names -> Boxes \cup {0}] /\ next' \in 1..(MaxBoxes + 1)
  BY <1>2 DEF Occupy
<1>3. ASSUME NEW n \in Names, Vacate(n) PROVE
          boxes' \in [Names -> Boxes \cup {0}] /\ next' \in 1..(MaxBoxes + 1)
  BY <1>3 DEF Vacate
<1>4. QED
  BY <1>1, <1>2, <1>3 DEF DaemonStep

\* A step of DaemonStep keeps the sandboxes numbered, makes no old number live
\* again, and numbers no sandbox twice.
LEMMA BoxesStep ==
    ASSUME TypeOK, Numbered, DaemonStep
    PROVE  /\ Numbered'
           /\ next <= next'
           /\ \A n \in Names : boxes'[n] \in {boxes[n], 0, next}
<1> USE LifecycleAssumption DEF LifecycleAssumption, TypeOK, Boxes, Numbered
<1>1. CASE UNCHANGED <<boxes, next>>
  BY <1>1
<1>2. ASSUME NEW n \in Names, Occupy(n)
      PROVE  /\ Numbered' /\ next <= next'
             /\ \A m \in Names : boxes'[m] \in {boxes[m], 0, next}
  BY <1>2 DEF Occupy
<1>3. ASSUME NEW n \in Names, Vacate(n)
      PROVE  /\ Numbered' /\ next <= next'
             /\ \A m \in Names : boxes'[m] \in {boxes[m], 0, next}
  BY <1>3 DEF Vacate
<1>4. QED
  BY <1>1, <1>2, <1>3 DEF DaemonStep

\* So does every step of the specification.
LEMMA DaemonNext ==
    ASSUME \A u \in Users : Stage(u), [Next]_vars
    PROVE  DaemonStep
<1>1. ASSUME NEW u \in Users, CliCreates(u) PROVE DaemonStep
  BY <1>1 DEF CliCreates, DaemonStep, Stage, WithCli
<1>2. ASSUME NEW u \in Users, Start(u) \/ Stop(u) \/ Remove(u) PROVE DaemonStep
  BY <1>2, RequestStep DEF Start, Stop, Remove
<1>3. ASSUME NEW n \in Names, Appears(n) \/ Vanishes(n) PROVE DaemonStep
  BY <1>3 DEF Appears, Vanishes, DaemonStep
<1>4. ASSUME NEW u \in Users,
             \/ Begin(u) \/ ListNames(u) \/ CliRefuses(u) \/ CliNotRun(u)
             \/ CliAnswers(u) \/ Get(u) \/ Inspect(u)
      PROVE DaemonStep
  BY <1>4 DEF Begin, ListNames, CliRefuses, CliNotRun, CliAnswers, Get, Inspect,
              DaemonStep, daemonVars
<1>5. CASE UNCHANGED vars
  BY <1>5 DEF vars, daemonVars, DaemonStep
<1>6. QED
  BY <1>1, <1>2, <1>3, <1>4, <1>5 DEF Next, Terminated

-----------------------------------------------------------------------------
\* The initial states satisfy the invariant.
LEMMA InitInv == Init => LifeInv
<1> SUFFICES ASSUME Init PROVE LifeInv
  OBVIOUS
<1> USE LifecycleAssumption DEF LifecycleAssumption, Init
<1>1. TypeOK
  BY DEF TypeOK, NoHandle, Errors
<1>2. Numbered
  BY DEF Numbered
<1>3. ASSUME NEW u \in Users PROVE Stage(u) /\ Making(u)
  BY DEF Stage, Making, WithCli
<1>4. QED
  BY <1>1, <1>2, <1>3 DEF LifeInv

\* A listing ends a Create or gives it a name, one that was free unless the
\* listing came without its body.
LEMMA Listed ==
    ASSUME TypeOK, Numbered, NEW u \in Users, ListNames(u)
    PROVE  /\ pc[u] = "list"
           /\ UNCHANGED <<daemonVars, job, handle, last, made, raced>>
           /\ \/ /\ UNCHANGED chosen
                 /\ \/ \E e \in {"request", "panic"} : Return(u, "done", e)
                    \/ Return(u, "done", "exists") /\ Exists(job[u].name)
              \/ /\ \E n \in Names :
                      /\ chosen' = [chosen EXCEPT ![u] = n]
                      /\ job[u].name \in {0, n}
                      /\ BodiesKept => boxes[n] = 0
                 /\ \/ \E e \in {"invalid", "binary"} : Return(u, "done", e)
                    \/ Goto(u, "cli")
<1>0. job[u].name \in Names \cup {0}
  BY LifecycleAssumption DEF LifecycleAssumption, TypeOK, Job, Names
<1>1. ASSUME NEW existing \in {{}, {n \in Names : Exists(n)}},
             existing = {} => ~BodiesKept \/ ~\E n \in Names : Exists(n),
             job[u].name \notin existing,
             chosen' = [chosen EXCEPT ![u] =
               IF job[u].name = 0 THEN generateName(existing) ELSE job[u].name]
      PROVE  \E n \in Names :
                /\ chosen' = [chosen EXCEPT ![u] = n]
                /\ job[u].name \in {0, n}
                /\ BodiesKept => boxes[n] = 0
  <2>1. Names \ existing # {}
    BY <1>1, SomeNameIsFree
  <2>2. generateName(existing) \in Names \ existing
    BY <2>1, GeneratedIsFree
  <2>3. PICK n \in Names \ existing : /\ chosen' = [chosen EXCEPT ![u] = n]
                                      /\ job[u].name \in {0, n}
    BY <1>0, <1>1, <2>2
  <2>4. BodiesKept => boxes[n] = 0
    BY <1>1, <2>3 DEF Exists
  <2>5. QED
    BY <2>3, <2>4
<1>2. ASSUME NEW existing, Named(u, existing)
      PROVE  \/ /\ UNCHANGED chosen
                /\ \/ \E e \in {"request", "panic"} : Return(u, "done", e)
                   \/ Return(u, "done", "exists") /\ job[u].name \in existing
             \/ /\ job[u].name \notin existing
                /\ chosen' = [chosen EXCEPT ![u] =
                     IF job[u].name = 0 THEN generateName(existing) ELSE job[u].name]
                /\ \/ \E e \in {"invalid", "binary"} : Return(u, "done", e)
                   \/ Goto(u, "cli")
  BY <1>2 DEF Named
<1>3. \/ UNCHANGED chosen /\ Return(u, "done", "request")
      \/ Named(u, {n \in Names : Exists(n)})
      \/ Named(u, {}) /\ ~BodiesKept
  BY DEF ListNames, Replies, BodiesKept
<1>4. CASE Named(u, {n \in Names : Exists(n)})
  BY <1>1, <1>2, <1>4 DEF ListNames
<1>5. CASE Named(u, {}) /\ ~BodiesKept
  BY <1>1, <1>2, <1>5 DEF ListNames
<1>6. QED
  BY <1>3, <1>4, <1>5 DEF ListNames

\* A decoded answer is a handle.
LEMMA InfoType ==
    ASSUME TypeOK, NEW n \in Names \cup {0}, NEW r, r = "ok" => Exists(n)
    PROVE  Info(n, r) \in [name : Names \cup {0}, id : Boxes \cup {0}]
  BY DEF Info, NoHandle, TypeOK, Exists

\* Every step keeps the variables in their types.
LEMMA TypeStep == LifeInv /\ [Next]_vars => TypeOK'
<1> SUFFICES ASSUME LifeInv, [Next]_vars PROVE TypeOK'
  OBVIOUS
<1>0. TypeOK /\ Numbered /\ \A u \in Users : Stage(u)
  BY DEF LifeInv
<1>d. /\ boxes' \in [Names -> Boxes \cup {0}]
      /\ next' \in 1..(MaxBoxes + 1)
  BY <1>0, DaemonNext, BoxesType
<1> USE <1>0, <1>d DEF TypeOK, Errors
<1>1. ASSUME NEW u \in Users, Begin(u) PROVE TypeOK'
  <2>1. job[u].name \in Names \cup {0}
    BY LifecycleAssumption DEF LifecycleAssumption, Job, Names
  <2>2. QED
    BY <1>1, <2>1 DEF Begin, Goto, daemonVars
<1>2. ASSUME NEW u \in Users, ListNames(u) PROVE TypeOK'
  <2>1. chosen' \in [Users -> Names \cup {0}]
    BY <1>2, Listed
  <2>2. UNCHANGED <<running, job, handle, last, made, raced>>
    BY <1>2 DEF ListNames, daemonVars
  <2>3. /\ pc' \in [Users -> {"idle", "list", "cli", "cliOK", "cliTaken",
                             "cliFailed", "get", "ready", "done"}]
        /\ result' \in [Users -> Errors]
    BY <1>2 DEF ListNames, Named, Goto, Return
  <2>4. QED
    BY <2>1, <2>2, <2>3
<1>3. ASSUME NEW u \in Users, CliCreates(u) PROVE TypeOK'
  <2>1. next \in Boxes
    BY <1>3, LifecycleAssumption DEF LifecycleAssumption, CliCreates, Occupy, Boxes
  <2>2. raced' \in [Users -> BOOLEAN]
    BY <1>3 DEF CliCreates, RaceFor
  <2>3. QED
    BY <1>3, <2>1, <2>2 DEF CliCreates, Occupy, Goto
<1>4. ASSUME NEW u \in Users, CliRefuses(u) PROVE TypeOK'
  BY <1>4 DEF CliRefuses, Goto, daemonVars
<1>5. ASSUME NEW u \in Users, CliNotRun(u) PROVE TypeOK'
  BY <1>5 DEF CliNotRun, Return, daemonVars
<1>6. ASSUME NEW u \in Users, CliAnswers(u) PROVE TypeOK'
  BY <1>6 DEF CliAnswers, CreateAnswer, Goto, Return, daemonVars
<1>7. ASSUME NEW u \in Users, Get(u) PROVE TypeOK'
  <2>1. handle' \in [Users -> [name : Names \cup {0}, id : Boxes \cup {0}]]
    <3>1. \A r : r \in Replies(Exists(chosen[u])) /\ r = "ok" => Exists(chosen[u])
      BY DEF Replies
    <3>2. QED
      BY <1>7, <3>1, InfoType DEF Get
  <2>2. QED
    BY <1>7, <2>1 DEF Get, Return, daemonVars
<1>8. ASSUME NEW u \in Users, Inspect(u) PROVE TypeOK'
  <2>1. handle[u].name \in Names \cup {0}
    OBVIOUS
  <2>2. \A r : r \in Replies(Exists(handle[u].name)) /\ r = "ok"
                => Exists(handle[u].name)
    BY DEF Replies
  <2>3. handle' \in [Users -> [name : Names \cup {0}, id : Boxes \cup {0}]]
    BY <1>8, <2>1, <2>2, InfoType DEF Inspect, Refreshed
  <2>4. QED
    BY <1>8, <2>3 DEF Inspect, Mapped, daemonVars
<1>9. ASSUME NEW u \in Users, NEW what, Request(u, what) PROVE TypeOK'
  <2>1. running' \in SUBSET Boxes
    BY <1>9 DEF Request, Effect, Vacate, Exists, daemonVars
  <2>2. QED
    BY <1>9, <2>1 DEF Request, Mapped
<1>10. ASSUME NEW n \in Names, Appears(n) PROVE TypeOK'
  <2>1. next \in Boxes
    BY <1>10, LifecycleAssumption DEF LifecycleAssumption, Appears, Occupy, Boxes
  <2>2. raced' \in [Users -> BOOLEAN]
    BY <1>10 DEF Appears, RaceFor
  <2>3. QED
    BY <1>10, <2>1, <2>2 DEF Appears, Occupy
<1>11. ASSUME NEW n \in Names, Vanishes(n) PROVE TypeOK'
  BY <1>11 DEF Vanishes, Vacate
<1>12. CASE UNCHANGED vars
  BY <1>12 DEF vars, daemonVars
<1>13. QED
  BY <1>1, <1>2, <1>3, <1>4, <1>5, <1>6, <1>7, <1>8, <1>9, <1>10, <1>11,
     <1>12 DEF Next, Terminated, Start, Stop, Remove

\* Every step keeps each call's Stage.
LEMMA StageStep ==
    ASSUME LifeInv, [Next]_vars, NEW c \in Users
    PROVE  Stage(c)'
<1>0. TypeOK /\ Numbered /\ Stage(c)
  BY DEF LifeInv
<1> USE <1>0 DEF TypeOK, Stage, Creates, WithCli, daemonVars
<1>1. ASSUME NEW d \in Users, Begin(d) PROVE Stage(c)'
  BY <1>1 DEF Begin, Goto
<1>2. ASSUME NEW d \in Users, ListNames(d) PROVE Stage(c)'
  BY <1>2, Listed DEF Goto, Return
<1>3. ASSUME NEW d \in Users, CliCreates(d) PROVE Stage(c)'
  BY <1>3 DEF CliCreates, Occupy, RaceFor, Goto
<1>4. ASSUME NEW d \in Users, CliRefuses(d) PROVE Stage(c)'
  BY <1>4 DEF CliRefuses, Goto
<1>5. ASSUME NEW d \in Users, CliNotRun(d) PROVE Stage(c)'
  BY <1>5 DEF CliNotRun, Return
<1>6. ASSUME NEW d \in Users, CliAnswers(d) PROVE Stage(c)'
  BY <1>6 DEF CliAnswers, CreateAnswer, Goto, Return
<1>7. ASSUME NEW d \in Users, Get(d) PROVE Stage(c)'
  BY <1>7 DEF Get, Return, Info, Exists, Replies
<1>8. ASSUME NEW d \in Users, Inspect(d) PROVE Stage(c)'
  BY <1>8 DEF Inspect, Refreshed, Info, Exists, Replies
<1>9. ASSUME NEW d \in Users, NEW what, Request(d, what) PROVE Stage(c)'
  BY <1>9 DEF Request
<1>10. ASSUME NEW n \in Names, Appears(n) PROVE Stage(c)'
  BY <1>10 DEF Appears, Occupy, RaceFor
<1>11. ASSUME NEW n \in Names, Vanishes(n) PROVE Stage(c)'
  BY <1>11 DEF Vanishes, Vacate
<1>12. CASE UNCHANGED vars
  BY <1>12 DEF vars
<1>13. QED
  BY <1>1, <1>2, <1>3, <1>4, <1>5, <1>6, <1>7, <1>8, <1>9, <1>10, <1>11,
     <1>12 DEF Next, Terminated, Start, Stop, Remove

\* Every step keeps what a call knows of what it made.
LEMMA MakingStep ==
    ASSUME LifeInv, [Next]_vars, NEW c \in Users
    PROVE  Making(c)'
<1>0. TypeOK /\ Numbered /\ Making(c) /\ \A u \in Users : Stage(u)
  BY DEF LifeInv
<1>d. /\ next <= next'
      /\ \A n \in Names : boxes'[n] \in {boxes[n], 0, next}
  BY <1>0, DaemonNext, BoxesStep
<1>n. next \in Nat /\ next # 0 /\ next' \in Nat /\ made[c] \in Nat
  BY <1>0, DaemonNext, BoxesType, LifecycleAssumption
     DEF TypeOK, LifecycleAssumption, Boxes
<1> USE <1>0, <1>d, <1>n DEF TypeOK, Stage, Making, Creates, WithCli, daemonVars
<1>1. ASSUME NEW d \in Users, Begin(d) PROVE Making(c)'
  BY <1>1 DEF Begin, Goto
<1>2. ASSUME NEW d \in Users, ListNames(d) PROVE Making(c)'
  BY <1>2 DEF ListNames, Named, Goto, Return
<1>3. ASSUME NEW d \in Users, CliCreates(d) PROVE Making(c)'
  <2>1. /\ \A n \in Names \ {chosen[d]} : boxes'[n] = boxes[n]
        /\ \A n \in Names : boxes[n] < next /\ boxes[n] \in Nat
        /\ next' = next + 1
        /\ made' = [made EXCEPT ![d] = next]
        /\ pc' = [pc EXCEPT ![d] = "cliOK"] \/ pc' = [pc EXCEPT ![d] = "cliFailed"]
        /\ UNCHANGED <<job, chosen, result>> /\ pc[d] = "cli"
    BY <1>3, LifecycleAssumption
       DEF CliCreates, Occupy, Goto, Numbered, LifecycleAssumption, Boxes
  <2>2. CASE c = d
    BY <2>1, <2>2
  <2>3. CASE c # d
    BY <2>1, <2>3
  <2>4. QED
    BY <2>2, <2>3
<1>4. ASSUME NEW d \in Users, CliRefuses(d) PROVE Making(c)'
  BY <1>4 DEF CliRefuses, Goto
<1>5. ASSUME NEW d \in Users, CliNotRun(d) PROVE Making(c)'
  BY <1>5 DEF CliNotRun, Return
<1>6. ASSUME NEW d \in Users, CliAnswers(d) PROVE Making(c)'
  BY <1>6 DEF CliAnswers, CreateAnswer, Goto, Return
<1>7. ASSUME NEW d \in Users, Get(d) PROVE Making(c)'
  BY <1>7 DEF Get, Return, Info, Exists, Replies
<1>8. ASSUME NEW d \in Users, Inspect(d) PROVE Making(c)'
  BY <1>8 DEF Inspect, Refreshed, Info, Exists, Replies
<1>9. ASSUME NEW d \in Users, NEW what, Request(d, what) PROVE Making(c)'
  BY <1>9 DEF Request
<1>10. ASSUME NEW n \in Names, Appears(n) PROVE Making(c)'
  BY <1>10 DEF Appears, Occupy, RaceFor
<1>11. ASSUME NEW n \in Names, Vanishes(n) PROVE Making(c)'
  BY <1>11 DEF Vanishes, Vacate
<1>12. CASE UNCHANGED vars
  BY <1>12 DEF vars
<1>13. QED
  BY <1>1, <1>2, <1>3, <1>4, <1>5, <1>6, <1>7, <1>8, <1>9, <1>10, <1>11,
     <1>12 DEF Next, Terminated, Start, Stop, Remove

\* Every step keeps the invariant.
LEMMA InvStep == LifeInv /\ [Next]_vars => LifeInv'
<1> SUFFICES ASSUME LifeInv, [Next]_vars PROVE LifeInv'
  OBVIOUS
<1>1. TypeOK'
  BY TypeStep
<1>2. Numbered'
  BY DaemonNext, BoxesStep DEF LifeInv
<1>3. \A u \in Users : Stage(u)' /\ Making(u)'
  BY StageStep, MakingStep
<1>4. QED
  BY <1>1, <1>2, <1>3 DEF LifeInv

\* The invariant holds in every reachable state.
THEOREM Invariance == Spec => []LifeInv
<1>1. Init => LifeInv
  BY InitInv
<1>2. LifeInv /\ [Next]_vars => LifeInv'
  BY InvStep
<1>3. QED
  BY <1>1, <1>2, PTL DEF Spec

\* Type correctness of every reachable state of Lifecycle: generateName always
\* finds a free name among those in play.
THEOREM TypeCorrect == Spec => []TypeOK
  BY Invariance, PTL DEF LifeInv

\* Create answers ErrSandboxExists only when it has made nothing, so that the
\* caller never cleans up somebody else's sandbox, nor leaves one of its own.
THEOREM ExistsMadeNothing == Spec => []ExistsWithoutEffect
<1>1. LifeInv => ExistsWithoutEffect
  BY DEF LifeInv, Making, ExistsWithoutEffect
<1>2. QED
  BY <1>1, Invariance, PTL

-----------------------------------------------------------------------------
\* An answer that keeps its body names the sandbox that has the name.
LEMMA InfoIsTrue ==
    ASSUME BodiesKept, NEW n, NEW r \in Replies(Exists(n)), r \in {"ok", "empty"}
    PROVE  Exists(n) /\ Info(n, r) = [name |-> n, id |-> boxes[n]]
  BY DEF BodiesKept, Replies, Info

\* With BodiesKept every step keeps what a call knows of others.
LEMMA KnowingStep ==
    ASSUME LifeInv, BodiesKept, [Next]_vars,
           NEW c \in Users, Knowing(c)
    PROVE  Knowing(c)'
<1>0. TypeOK /\ Numbered /\ Knowing(c) /\ \A u \in Users : Stage(u)
  BY DEF LifeInv
<1>d. /\ next <= next'
      /\ \A n \in Names : boxes'[n] \in {boxes[n], 0, next}
  BY <1>0, DaemonNext, BoxesStep
<1>n. next \in Nat /\ next # 0 /\ next' \in Nat /\ handle[c].id \in Nat
  BY <1>0, DaemonNext, BoxesType, LifecycleAssumption
     DEF TypeOK, LifecycleAssumption, Boxes
<1> USE <1>0, <1>d, <1>n
        DEF TypeOK, Stage, Knowing, Creates, WithCli, daemonVars, BodiesKept
<1>1. ASSUME NEW d \in Users, Begin(d) PROVE Knowing(c)'
  BY <1>1 DEF Begin, Goto
<1>2. ASSUME NEW d \in Users, ListNames(d) PROVE Knowing(c)'
  BY <1>2, Listed DEF Goto, Return
<1>3. ASSUME NEW d \in Users, CliCreates(d) PROVE Knowing(c)'
  <2>1. /\ \A n \in Names \ {chosen[d]} : boxes'[n] = boxes[n]
        /\ boxes'[chosen[d]] = next /\ next' = next + 1
        /\ pc' = [pc EXCEPT ![d] = "cliOK"] \/ pc' = [pc EXCEPT ![d] = "cliFailed"]
        /\ UNCHANGED <<job, chosen, handle>> /\ pc[d] = "cli"
    BY <1>3 DEF CliCreates, Occupy, Goto
  <2>2. /\ raced[c] => raced'[c]
        /\ c # d /\ pc[c] = "cli" /\ chosen[c] = chosen[d] => raced'[c]
    BY <1>3 DEF CliCreates, RaceFor
  <2>3. CASE c = d
    BY <2>1, <2>2, <2>3
  <2>4. CASE c # d
    BY <2>1, <2>2, <2>4
  <2>5. QED
    BY <2>3, <2>4
<1>4. ASSUME NEW d \in Users, CliRefuses(d) PROVE Knowing(c)'
  BY <1>4 DEF CliRefuses, Goto, Exists
<1>5. ASSUME NEW d \in Users, CliNotRun(d) PROVE Knowing(c)'
  BY <1>5 DEF CliNotRun, Return
<1>6. ASSUME NEW d \in Users, CliAnswers(d) PROVE Knowing(c)'
  BY <1>6 DEF CliAnswers, CreateAnswer, Goto, Return
<1>7. ASSUME NEW d \in Users, Get(d) PROVE Knowing(c)'
  <2>1. \/ UNCHANGED handle /\ \E e \in {"request", "notFound"} : Return(d, "done", e)
        \/ /\ Exists(chosen[d]) /\ Return(d, "ready", "nil")
           /\ handle' = [handle EXCEPT ![d] = [name |-> chosen[d], id |-> boxes[chosen[d]]]]
    BY <1>7, InfoIsTrue DEF Get
  <2>2. UNCHANGED <<boxes, next, chosen, raced>>
    BY <1>7 DEF Get
  <2>3. Exists(chosen[d]) => /\ chosen[d] \in Names /\ boxes[chosen[d]] # 0
                             /\ boxes[chosen[d]] < next
                             /\ \A n \in Names : boxes[n] = boxes[chosen[d]] => n = chosen[d]
    BY DEF Exists, Numbered
  <2>4. CASE c = d
    BY <2>1, <2>2, <2>3, <2>4 DEF Return
  <2>5. CASE c # d
    BY <2>1, <2>2, <2>5 DEF Return
  <2>6. QED
    BY <2>4, <2>5
<1>8. ASSUME NEW d \in Users, Inspect(d) PROVE Knowing(c)'
  <2>0. PICK r \in Replies(Exists(handle[d].name)) :
           handle' = [handle EXCEPT ![d] = Refreshed(d, r)]
    BY <1>8 DEF Inspect
  <2>1. \/ UNCHANGED handle
        \/ /\ Exists(handle[d].name)
           /\ handle' = [handle EXCEPT ![d] =
                          [name |-> handle[d].name, id |-> boxes[handle[d].name]]]
    BY <2>0, InfoIsTrue DEF Refreshed
  <2>2. UNCHANGED <<boxes, next, pc, chosen, raced>>
    BY <1>8 DEF Inspect
  <2>3. Exists(handle[d].name) =>
            /\ handle[d].name \in Names /\ boxes[handle[d].name] # 0
            /\ boxes[handle[d].name] < next
            /\ \A n \in Names : boxes[n] = boxes[handle[d].name] => n = handle[d].name
    BY DEF Exists, Numbered
  <2>4. CASE c = d
    BY <2>1, <2>2, <2>3, <2>4
  <2>5. CASE c # d
    BY <2>1, <2>2, <2>5
  <2>6. QED
    BY <2>4, <2>5
<1>9. ASSUME NEW d \in Users, NEW what, Request(d, what) PROVE Knowing(c)'
  BY <1>9 DEF Request, Effect, Vacate
<1>10. ASSUME NEW n \in Names, Appears(n) PROVE Knowing(c)'
  <2>1. /\ \A m \in Names \ {n} : boxes'[m] = boxes[m]
        /\ boxes'[n] = next /\ next' = next + 1
        /\ UNCHANGED <<pc, job, chosen, handle>>
    BY <1>10 DEF Appears, Occupy
  <2>2. /\ raced[c] => raced'[c]
        /\ pc[c] = "cli" /\ chosen[c] = n => raced'[c]
    BY <1>10 DEF Appears, RaceFor
  <2>3. QED
    BY <2>1, <2>2
<1>11. ASSUME NEW n \in Names, Vanishes(n) PROVE Knowing(c)'
  BY <1>11 DEF Vanishes, Vacate
<1>12. CASE UNCHANGED vars
  BY <1>12 DEF vars
<1>13. QED
  BY <1>1, <1>2, <1>3, <1>4, <1>5, <1>6, <1>7, <1>8, <1>9, <1>10, <1>11,
     <1>12 DEF Next, Terminated, Start, Stop, Remove

\* With BodiesKept the whole invariant holds in every reachable state.
LEMMA KnowingInvariance ==
    ASSUME BodiesKept
    PROVE  Spec => [](LifeInv /\ \A u \in Users : Knowing(u))
<1>1. Init => LifeInv /\ \A u \in Users : Knowing(u)
  BY InitInv DEF Init, Knowing, NoHandle
<1>2. LifeInv /\ (\A u \in Users : Knowing(u)) /\ [Next]_vars
      => LifeInv' /\ (\A u \in Users : Knowing(u))'
  BY InvStep, KnowingStep
<1>3. QED
  BY <1>1, <1>2, PTL DEF Spec

\* A Create that returns nil made a sandbox itself and returns a handle to its
\* name.
THEOREM NilIsOwn == ASSUME BodiesKept PROVE Spec => []CreatedIsOwn
<1>1. LifeInv /\ (\A u \in Users : Knowing(u)) => CreatedIsOwn
  BY DEF LifeInv, Stage, Making, Knowing, CreatedIsOwn
<1>2. QED
  BY <1>1, KnowingInvariance, PTL

\* Without that hypothesis a Create that returns nil still made a sandbox: only
\* the handle it returns may be empty.
OwnMade == \A u \in Users : Creates(u) /\ result[u] = "nil" => made[u] # 0
THEOREM NilMadeOne == Spec => []OwnMade
<1>1. LifeInv => OwnMade
  BY DEF LifeInv, Stage, Making, OwnMade
<1>2. QED
  BY <1>1, Invariance, PTL

\* `sbx create` refuses a name as taken only if somebody took it between the
\* listing and the shell-out.
THEOREM TakenIsRaced == ASSUME BodiesKept PROVE Spec => []TakenOnlyIfRaced
<1>1. (\A u \in Users : Knowing(u)) => TakenOnlyIfRaced
  BY DEF Knowing, TakenOnlyIfRaced
<1>2. QED
  BY <1>1, KnowingInvariance, PTL

\* ErrSandboxNotFound, from Create or from a method of its handle, means that
\* the sandbox the caller had is gone.
THEOREM NotFoundIsGone == ASSUME BodiesKept PROVE Spec => NotFoundMeansGone
<1> DEFINE GoneStep(u) ==
      /\ (Creates(u) /\ result[u] = "none" /\ result'[u] = "notFound")
           => made[u] # 0 /\ ~Alive(made[u])
      /\ (last[u] # "notFound" /\ last'[u] = "notFound")
           => ~Alive(handle[u].id)
<1>1. ASSUME LifeInv, \A u \in Users : Knowing(u), [Next]_vars, NEW c \in Users
      PROVE  GoneStep(c)
  <2>0. TypeOK /\ Stage(c) /\ Making(c) /\ Knowing(c)
    BY <1>1 DEF LifeInv
  <2>1. ASSUME pc[c] = "ready", ~Exists(handle[c].name)
        PROVE  ~Alive(handle[c].id)
    BY <2>0, <2>1 DEF Knowing, Exists, Alive
  <2>2. ASSUME pc[c] = "get", Creates(c), ~Exists(chosen[c])
        PROVE  made[c] # 0 /\ ~Alive(made[c])
    BY <2>0, <2>2 DEF Making, Exists, Alive
  <2>3. ASSUME NEW found \in BOOLEAN, NEW r \in Replies(found) \cup Conflicts(found), r = "404"
        PROVE  ~found
    BY <2>3 DEF Replies, Conflicts
  <2>4. ASSUME NEW d \in Users, Get(d) PROVE GoneStep(c)
    <3>1. UNCHANGED last
      BY <2>4 DEF Get
    <3>2. pc[d] = "get" /\ (\/ result' = [result EXCEPT ![d] = "notFound"] /\ ~Exists(chosen[d])
                           \/ \E e \in {"request", "nil"} : result' = [result EXCEPT ![d] = e])
      BY <2>3, <2>4 DEF Get, Return, Exists
    <3>3. QED
      BY <2>0, <2>2, <3>1, <3>2 DEF TypeOK
  <2>5. ASSUME NEW d \in Users,
               NEW r \in Replies(Exists(handle[d].name)) \cup Conflicts(Exists(handle[d].name)),
               pc[d] = "ready", last' = [last EXCEPT ![d] = Mapped(r)],
               UNCHANGED result
        PROVE  GoneStep(c)
    <3>1. Mapped(r) = "notFound" => ~Exists(handle[d].name)
      BY <2>3, <2>5 DEF Mapped, Exists
    <3>2. QED
      BY <2>0, <2>1, <2>5, <3>1 DEF TypeOK
  <2>6. ASSUME NEW d \in Users, Inspect(d) PROVE GoneStep(c)
    BY <2>5, <2>6 DEF Inspect
  <2>7. ASSUME NEW d \in Users, NEW what, Request(d, what) PROVE GoneStep(c)
    BY <2>5, <2>7 DEF Request
  <2>8. ASSUME NEW d \in Users,
               Begin(d) \/ ListNames(d) \/ CliRefuses(d) \/ CliNotRun(d) \/ CliAnswers(d)
               \/ CliCreates(d)
        PROVE  GoneStep(c)
    <3>1. UNCHANGED last
      BY <2>8 DEF Begin, ListNames, CliRefuses, CliNotRun, CliAnswers, CliCreates
    <3>2. UNCHANGED result \/ \E e \in Errors \ {"notFound"} :
                                 result' = [result EXCEPT ![d] = e]
      BY <2>8 DEF Begin, ListNames, Named, CliRefuses, CliNotRun, CliAnswers,
                  CreateAnswer, CliCreates, Goto, Return, Errors
    <3>3. QED
      BY <2>0, <3>1, <3>2 DEF TypeOK
  <2>9. CASE \E n \in Names : Appears(n) \/ Vanishes(n)
    BY <2>9 DEF Appears, Vanishes
  <2>10. CASE UNCHANGED vars
    BY <2>10 DEF vars
  <2>11. QED
    BY <1>1, <2>4, <2>6, <2>7, <2>8, <2>9, <2>10
       DEF Next, Terminated, Start, Stop, Remove
<1>2. LifeInv /\ (\A u \in Users : Knowing(u)) /\ [Next]_vars
      => [\A u \in Users : GoneStep(u)]_vars
  BY <1>1
<1>3. QED
  BY <1>2, KnowingInvariance, PTL DEF Spec, NotFoundMeansGone

-----------------------------------------------------------------------------
(* Lifecycle implements SandboxRegistry, whatever the faults.               *)

Abstracted(e) == IF e \in {"nil", "exists"} THEN e ELSE "error"

\* A Create's answer is given once: before it the abstract call is pending.
LEMMA Answers ==
    ASSUME NEW c \in Users, NEW e \in Errors \ {"none"}, TypeOK,
           Creates(c), result[c] = "none",
           result' = [result EXCEPT ![c] = e], UNCHANGED job
    PROVE  /\ CreateAnswered[c] = "pending"
           /\ CreateAnswered' = [CreateAnswered EXCEPT ![c] = Abstracted(e)]
  BY DEF CreateAnswered, Creates, Abstracted, TypeOK

\* A Get's answer is none of Create's.
LEMMA GetIsQuiet ==
    ASSUME NEW c \in Users, NEW e, TypeOK, ~Creates(c),
           result' = [result EXCEPT ![c] = e], UNCHANGED job
    PROVE  UNCHANGED CreateAnswered
  BY DEF CreateAnswered, Creates, TypeOK

\* Nothing that Create answers changes without result and job.
LEMMA QuietAnswers ==
    ASSUME UNCHANGED <<result, job>> PROVE UNCHANGED CreateAnswered
  BY DEF CreateAnswered, Creates

\* A step that answers neither nil nor exists is the registry's Fail.
LEMMA FailStep ==
    ASSUME NEW c \in Users, NEW e \in Errors \ {"none", "nil", "exists"}, TypeOK,
           Creates(c), result[c] = "none",
           result' = [result EXCEPT ![c] = e],
           UNCHANGED <<boxes, next, job, made>>
    PROVE  Registry!Next
<1>1. /\ CreateAnswered[c] = "pending"
      /\ CreateAnswered' = [CreateAnswered EXCEPT ![c] = "error"]
  BY Answers DEF Abstracted
<1>2. Registry!Fail(c)
  BY <1>1 DEF Registry!Fail, Registry!Say
<1>3. QED
  BY <1>2 DEF Registry!Next

\* Every step of Lifecycle is a step of SandboxRegistry, or changes nothing the
\* registry sees.
LEMMA RegistryStep ==
    ASSUME LifeInv, [Next]_vars
    PROVE  Registry!Next \/ UNCHANGED Registry!vars
<1>0. TypeOK /\ Numbered /\ \A u \in Users : Stage(u) /\ Making(u)
  BY DEF LifeInv
<1> USE <1>0 DEF daemonVars
<1>1. ASSUME UNCHANGED <<boxes, next, job, made, result>>
      PROVE  UNCHANGED Registry!vars
  BY <1>1, QuietAnswers DEF Registry!vars
<1>2. ASSUME NEW n \in Names, Exists(n), Vacate(n), UNCHANGED <<job, made, result>>
      PROVE  Registry!Next
  <2>1. Registry!Vanish(n)
    BY <1>2, QuietAnswers DEF Registry!Vanish, Vacate, Exists
  <2>2. QED
    BY <2>1 DEF Registry!Next
<1>3. ASSUME NEW d \in Users, ListNames(d) PROVE Registry!Next \/ UNCHANGED Registry!vars
  <2>1. pc[d] = "list" /\ Creates(d) /\ result[d] = "none" /\ made[d] = 0
        /\ UNCHANGED <<boxes, next, job, made>>
    BY <1>3, Listed DEF Stage, Making
  <2>2. CASE Goto(d, "cli")
    BY <1>1, <2>1, <2>2 DEF Goto
  <2>3. CASE \E e \in {"request", "panic", "invalid", "binary"} : Return(d, "done", e)
    BY <2>1, <2>3, FailStep DEF Return, Errors
  <2>4. CASE Return(d, "done", "exists") /\ Exists(job[d].name)
    <3>1. /\ CreateAnswered[d] = "pending"
          /\ CreateAnswered' = [CreateAnswered EXCEPT ![d] = "exists"]
      BY <2>1, <2>4, Answers DEF Return, Errors, Abstracted
    <3>2. job[d].name # 0 /\ boxes[job[d].name] # 0
      BY <2>4 DEF Exists, Names
    <3>3. Registry!Refuse(d)
      BY <2>1, <3>1, <3>2 DEF Registry!Refuse, Registry!Say
    <3>4. QED
      BY <3>3 DEF Registry!Next
  <2>5. QED
    BY <1>3, <2>2, <2>3, <2>4, Listed
<1>4. ASSUME NEW d \in Users, CliCreates(d) PROVE Registry!Next
  <2>1. /\ pc[d] = "cli" /\ chosen[d] \in Names /\ job[d].name \in {0, chosen[d]}
        /\ made[d] = 0 /\ Creates(d) /\ result[d] = "none"
    BY <1>4 DEF CliCreates, Stage, Making, WithCli
  <2>2. CreateAnswered[d] = "pending" /\ UNCHANGED CreateAnswered
    <3>1. UNCHANGED <<result, job>>
      BY <1>4 DEF CliCreates, Goto
    <3>2. QED
      BY <2>1, <3>1, QuietAnswers DEF CreateAnswered
  <2>3. Registry!Make(d, chosen[d])
    BY <1>4, <2>1, <2>2 DEF Registry!Make, Registry!Occupy, CliCreates, Occupy
  <2>4. QED
    BY <2>1, <2>3 DEF Registry!Next
<1>5. ASSUME NEW d \in Users, CliNotRun(d) PROVE Registry!Next
  BY <1>5, FailStep DEF CliNotRun, Return, Stage, WithCli, Errors
<1>6. ASSUME NEW d \in Users, CliAnswers(d) PROVE Registry!Next \/ UNCHANGED Registry!vars
  <2>1. Creates(d) /\ result[d] = "none" /\ UNCHANGED <<boxes, next, job, made>>
    BY <1>6 DEF CliAnswers, Stage, WithCli
  <2>2. UNCHANGED result \/ \E e \in {"cli", "lost"} : Return(d, "done", e)
    BY <1>6 DEF CliAnswers, CreateAnswer, Goto
  <2>3. QED
    BY <1>1, <2>1, <2>2, FailStep DEF Return, Errors
<1>7. ASSUME NEW d \in Users, Get(d) PROVE Registry!Next \/ UNCHANGED Registry!vars
  <2>1. /\ pc[d] = "get" /\ result[d] = "none"
        /\ UNCHANGED <<boxes, next, job, made>>
        /\ \E e \in {"request", "notFound", "nil"} :
              result' = [result EXCEPT ![d] = e]
    BY <1>7 DEF Get, Return, Stage
  <2>2. CASE ~Creates(d)
    BY <2>1, <2>2, GetIsQuiet DEF Registry!vars
  <2>3. CASE Creates(d) /\ \E e \in {"request", "notFound"} :
                              result' = [result EXCEPT ![d] = e]
    BY <2>1, <2>3, FailStep DEF Errors
  <2>4. CASE Creates(d) /\ result' = [result EXCEPT ![d] = "nil"]
    <3>1. /\ CreateAnswered[d] = "pending"
          /\ CreateAnswered' = [CreateAnswered EXCEPT ![d] = "nil"]
      BY <2>1, <2>4, Answers DEF Errors, Abstracted
    <3>2. Registry!Confirm(d)
      BY <2>1, <2>4, <3>1 DEF Registry!Confirm, Registry!Say, Making
    <3>3. QED
      BY <3>2 DEF Registry!Next
  <2>5. QED
    BY <2>1, <2>2, <2>3, <2>4
<1>8. ASSUME NEW d \in Users, NEW what, Request(d, what)
      PROVE  Registry!Next \/ UNCHANGED Registry!vars
  <2>1. UNCHANGED <<job, made, result>>
    BY <1>8 DEF Request
  <2>2. \/ UNCHANGED <<boxes, next>>
        \/ Exists(handle[d].name) /\ Vacate(handle[d].name)
    BY <1>8 DEF Request, Effect
  <2>3. QED
    BY <1>1, <1>2, <2>1, <2>2 DEF Exists
<1>9. ASSUME NEW n \in Names, Appears(n) PROVE Registry!Next
  <2>1. UNCHANGED <<result, job, made>>
    BY <1>9 DEF Appears
  <2>2. Registry!Appear(n)
    BY <1>9, <2>1, QuietAnswers DEF Appears, Occupy, Registry!Appear, Registry!Occupy
  <2>3. QED
    BY <2>2 DEF Registry!Next
<1>10. ASSUME NEW n \in Names, Vanishes(n) PROVE Registry!Next
  BY <1>2, <1>10 DEF Vanishes
<1>11. ASSUME NEW d \in Users, Begin(d) \/ CliRefuses(d) \/ Inspect(d)
       PROVE  UNCHANGED Registry!vars
  BY <1>1, <1>11 DEF Begin, CliRefuses, Inspect, Goto
<1>12. CASE UNCHANGED vars
  BY <1>1, <1>12 DEF vars
<1>13. QED
  BY <1>3, <1>4, <1>5, <1>6, <1>7, <1>8, <1>9, <1>10, <1>11, <1>12
     DEF Next, Terminated, Start, Stop, Remove

\* Create implements the registry: creation is exclusive by name, nil is the
\* answer to exactly one creation, ErrSandboxExists means a taken name and no
\* effect, whatever fails and whoever else uses the daemon.
THEOREM RegistryImplemented == Spec => ImplementsRegistry
<1>1. Init => Registry!Init
  <2> SUFFICES ASSUME Init PROVE Registry!Init
    OBVIOUS
  <2>1. CreateAnswered = [u \in Users |-> "pending"]
    BY DEF Init, CreateAnswered
  <2>2. [u \in Users |-> job[u].name] \in [Users -> Names \cup {0}]
    BY LifecycleAssumption DEF Init, LifecycleAssumption, Job, Names
  <2>3. QED
    BY <2>1, <2>2 DEF Init, Registry!Init
<1>2. LifeInv /\ [Next]_vars => [Registry!Next]_(Registry!vars)
  BY RegistryStep
<1>3. QED
  BY <1>1, <1>2, Invariance, PTL DEF Spec, ImplementsRegistry, Registry!Spec
=============================================================================
