---------------------------- MODULE Secrets_proofs ----------------------------
(***************************************************************************)
(* Proofs about Secrets for any number of concurrent callers and any set   *)
(* of jobs: the check looks where the CLI writes, a refused call has had no*)
(* effect and a cause, and a nil answer means the value was stored unless  *)
(* somebody wrote the entry after it was checked.                          *)
(***************************************************************************)
EXTENDS Secrets, TLAPS

\* The scope the check looks in and the scope the CLI writes are the same one,
\* and the listing it asks for shows that scope (checkNotStored, SetRegistry).
LEMMA CheckLooksWhereCliWrites ==
  ASSUME NEW j \in Job, NeedsCheck(j)
  PROVE  Target(j) \in Entries /\ (FoundStored(j) <=> store[Target(j)] # Nothing)
<1>1. Target(j) \in Entries
  BY DEF Job, Ops, NeedsCheck, Target, Type, writeScope, Entries
<1>2. Target(j) = <<Type(j), checkScope(j)>>
  BY DEF Job, Ops, NeedsCheck, Target, Type, writeScope, checkScope
<1>3. checkScope(j) = "host-only" \/ checkScope(j) \in {"global", "box"}
  BY DEF Job, checkScope
<1>4. FoundStored(j) <=> Target(j) \in List(IF checkScope(j) = "host-only"
                                            THEN "global" ELSE checkScope(j))
  BY <1>2 DEF FoundStored
<1>5. QED
  BY <1>1, <1>2, <1>3, <1>4 DEF List

-----------------------------------------------------------------------------
\* A call has no effect before its child runs, nor after it was refused.
Untouched(w) ==
    /\ pc[w] = "check" => Checked(w)
    /\ pc[w] \in {"idle", "check", "run"} => ~stored[w] /\ prompt[w] = "none"
    /\ result[w] \in {"exists", "listFailed"}
           => ~stored[w] /\ prompt[w] = "none" /\ pc[w] = "done"

\* From its check on, the entry of a checked call is free or was raced for;
\* once the child exited 0 the value is stored or the entry was raced for.
Guarded(w) ==
    Checked(w) =>
        /\ pc[w] = "run" => raced[w] \/ store[Target(job[w])] = Nothing
        /\ pc[w] = "ended" => stored[w] \/ raced[w] \/ job[w].dryRun
        /\ result[w] = "nil" => stored[w] \/ raced[w] \/ job[w].dryRun
        /\ result[w] = "nil" => pc[w] = "done"

CallInv(w) == Untouched(w) /\ Guarded(w)
SecretsInv == TypeOK /\ \A w \in Writers : CallInv(w)

\* The initial states satisfy the invariant.
LEMMA InitInv == Init => SecretsInv
<1> SUFFICES ASSUME Init PROVE SecretsInv
  OBVIOUS
<1>1. TypeOK
  BY DEF Init, TypeOK
<1>2. ASSUME NEW w \in Writers PROVE CallInv(w)
  BY <1>2 DEF Init, CallInv, Untouched, Guarded
<1>3. QED
  BY <1>1, <1>2 DEF SecretsInv

\* A write keeps the store and the record of races in their types.
LEMMA PutTyped ==
  ASSUME TypeOK, NEW e, NEW x \in Writers \cup {Nothing, "old"}, Put(e, x)
  PROVE  /\ store' \in [Entries -> Writers \cup {Nothing, "old"}]
         /\ raced' \in [Writers -> BOOLEAN]
  BY DEF TypeOK, Put

\* Every step keeps the variables in their types.
LEMMA TypeStep == TypeOK /\ [Next]_vars => TypeOK'
<1> SUFFICES ASSUME TypeOK, [Next]_vars PROVE TypeOK'
  OBVIOUS
<1> USE DEF TypeOK, Goto, Return
<1>1. ASSUME NEW v \in Writers, Begin(v) PROVE TypeOK'
  BY <1>1 DEF Begin
<1>2. ASSUME NEW v \in Writers, Check(v) PROVE TypeOK'
  BY <1>2 DEF Check
<1>3. ASSUME NEW v \in Writers, Run(v) PROVE TypeOK'
  <2>1. Put(Target(job[v]), v) \/ UNCHANGED <<store, raced>>
    BY <1>3 DEF Run, CliStores, CliPrompts
  <2>2. /\ store' \in [Entries -> Writers \cup {Nothing, "old"}]
        /\ raced' \in [Writers -> BOOLEAN]
    <3>1. CASE Put(Target(job[v]), v)
      BY <3>1, PutTyped
    <3>2. CASE UNCHANGED <<store, raced>>
      BY <3>2
    <3>3. QED
      BY <2>1, <3>1, <3>2
  <2>3. stored' \in [Writers -> BOOLEAN]
    BY <1>3 DEF Run, CliStores, CliPrompts
  <2>4. prompt' \in [Writers -> {"none", "eof", "secret"}]
    BY <1>3 DEF Run, CliStores, CliPrompts
  <2>5. QED
    BY <1>3, <2>2, <2>3, <2>4 DEF Run
<1>4. ASSUME NEW v \in Writers, Remove(v) PROVE TypeOK'
  BY <1>4, PutTyped DEF Remove
<1>5. ASSUME NEW v \in Writers, Answer(v) PROVE TypeOK'
  BY <1>5 DEF Answer
<1>6. CASE Outside
  BY <1>6, PutTyped DEF Outside
<1>7. CASE UNCHANGED vars
  BY <1>7 DEF vars
<1>8. QED
  BY <1>1, <1>2, <1>3, <1>4, <1>5, <1>6, <1>7 DEF Next

\* A write to one entry leaves every checked call that was about to write that
\* entry with a race, and every other one as it was.
LEMMA PutGuards ==
  ASSUME TypeOK, NEW e \in Entries, NEW x, Put(e, x), NEW w \in Writers,
         pc[w] = "run", raced[w] \/ store[Target(job[w])] = Nothing,
         Target(job[w]) \in Entries
  PROVE  raced'[w] \/ store'[Target(job[w])] = Nothing
  BY DEF TypeOK, Put

\* Every step keeps the whole invariant.
LEMMA InvStep == SecretsInv /\ [Next]_vars => SecretsInv'
<1> SUFFICES ASSUME SecretsInv, [Next]_vars PROVE SecretsInv'
  OBVIOUS
<1>0. /\ TypeOK /\ TypeOK'
      /\ \A w \in Writers : /\ CallInv(w) /\ job[w] \in Job
                            /\ Checked(w) => Target(job[w]) \in Entries
  BY TypeStep, SecretsAssumption, CheckLooksWhereCliWrites
     DEF SecretsInv, TypeOK, SecretsAssumption, Checked
<1> USE <1>0 DEF TypeOK, CallInv, Untouched, Guarded, Checked, Goto, Return
<1>1. ASSUME NEW w \in Writers, NEW v \in Writers, Begin(v)
      PROVE  CallInv(w)'
  BY <1>1 DEF Begin
<1>2. ASSUME NEW w \in Writers, NEW v \in Writers, Check(v)
      PROVE  CallInv(w)'
  BY <1>2, CheckLooksWhereCliWrites DEF Check
<1>3. ASSUME NEW w \in Writers, NEW v \in Writers, Run(v)
      PROVE  CallInv(w)'
  BY <1>3, PutGuards DEF Run, CliStores, CliPrompts, Put
<1>4. ASSUME NEW w \in Writers, NEW v \in Writers, Remove(v)
      PROVE  CallInv(w)'
  BY <1>4, PutGuards DEF Remove, Put
<1>5. ASSUME NEW w \in Writers, NEW v \in Writers, Answer(v)
      PROVE  CallInv(w)'
  BY <1>5 DEF Answer
<1>6. ASSUME NEW w \in Writers, Outside PROVE CallInv(w)'
  BY <1>6, PutGuards DEF Outside, Put
<1>7. ASSUME NEW w \in Writers, UNCHANGED vars PROVE CallInv(w)'
  BY <1>7 DEF vars
<1>8. QED
  BY <1>1, <1>2, <1>3, <1>4, <1>5, <1>6, <1>7 DEF Next, SecretsInv

\* The invariant holds in every reachable state.
THEOREM Invariance == Spec => []SecretsInv
<1>1. Init => SecretsInv
  BY InitInv
<1>2. SecretsInv /\ [Next]_vars => SecretsInv'
  BY InvStep
<1>3. QED
  BY <1>1, <1>2, PTL DEF Spec

\* Type correctness of every reachable state of Secrets.
THEOREM TypeCorrect == Spec => []TypeOK
  BY Invariance, PTL DEF SecretsInv

\* A call that SetToken, SetRegistry or Import refused has stored nothing and
\* has not met the CLI's prompt.
THEOREM RefusalIsHarmless == Spec => []RefusedWithoutEffect
<1>1. SecretsInv => RefusedWithoutEffect
  BY DEF SecretsInv, CallInv, Untouched, RefusedWithoutEffect
<1>2. QED
  BY <1>1, Invariance, PTL

\* nil from a checked call means the value was stored, unless the entry was
\* written between the check and the write.
THEOREM NilIsStored == Spec => []NilStoredUnlessRaced
<1>1. SecretsInv => NilStoredUnlessRaced
  BY DEF SecretsInv, CallInv, Guarded, NilStoredUnlessRaced
<1>2. QED
  BY <1>1, Invariance, PTL

\* A call is refused only because the entry it would write is stored.
THEOREM RefusalHasCause == Spec => RefusedForCause
<1>1. ASSUME SecretsInv, [Next]_vars, NEW w \in Writers,
             result[w] # "exists", result'[w] = "exists"
      PROVE  store[Target(job[w])] # Nothing
  <2> USE <1>1 DEF SecretsInv, CallInv, TypeOK, Untouched, Checked, Goto, Return
  <2>1. ASSUME NEW v \in Writers, Check(v) PROVE store[Target(job[w])] # Nothing
    BY <2>1, SecretsAssumption, CheckLooksWhereCliWrites DEF Check, SecretsAssumption
  <2>2. ASSUME NEW v \in Writers, Begin(v) \/ Run(v) \/ Remove(v) \/ Answer(v) PROVE FALSE
    BY <2>2 DEF Begin, Run, Remove, Answer
  <2>3. QED
    BY <2>1, <2>2 DEF Next, Outside, vars
<1>2. SecretsInv /\ [Next]_vars =>
        [\A w \in Writers : (result[w] # "exists" /\ result'[w] = "exists")
            => store[Target(job[w])] # Nothing]_vars
  BY <1>1
<1>3. QED
  BY <1>2, Invariance, PTL DEF Spec, RefusedForCause
=============================================================================
