------------------------------ MODULE Secrets -------------------------------
(***************************************************************************)
(* Writing to the secret store (package secret): SetToken, SetRegistry,    *)
(* Import, ImportAll and Remove by concurrent callers.  The first three    *)
(* list the store, refuse an entry that is there, and only then run the    *)
(* CLI, whose own overwrite prompt would answer a caller without a         *)
(* terminal by storing nothing and exiting 0.                              *)
(*                                                                         *)
(* The store and the CLI are external.  One service and one registry host  *)
(* are enough: entries with other names never meet.  A shell-out is used   *)
(* through the contract of ShellOut: nil means that the child exited 0.    *)
(***************************************************************************)
CONSTANTS
    Writers,    \* calls of this SDK; a writer's name is also its secret value
    Jobs,       \* the calls they make
    Nothing     \* an entry that is not stored

Ops == {"SetToken", "SetRegistry", "Import", "ImportAll", "Remove"}

\* "global" is the scope "", "host-only" is HostOnlyScope, "box" a sandbox.
Job == [op : Ops, scope : {"global", "box"}, hostOnly : BOOLEAN,
        overwrite : BOOLEAN, dryRun : BOOLEAN, resolver : BOOLEAN]

ASSUME SecretsAssumption ==
    /\ Jobs \subseteq Job
    /\ Nothing \notin Writers \cup {"old"}

Entries == ({"service"} \X {"global", "box"})
           \cup ({"registry"} \X {"global", "box", "host-only"})

VARIABLES
    store,      \* the stored value of every entry
    pc,         \* where each call is
    job,        \* what each call was asked to do
    result,     \* what it returned
    stored,     \* the CLI stored the call's value (observed)
    prompt,     \* what the CLI's overwrite prompt read (observed)
    raced       \* the entry was written between a call's check and its write

vars == <<store, pc, job, result, stored, prompt, raced>>

Init ==
    /\ store \in [Entries -> {Nothing, "old"}]
    /\ pc = [w \in Writers |-> "idle"]
    /\ job \in [Writers -> Jobs]
    /\ result = [w \in Writers |-> "none"]
    /\ stored = [w \in Writers |-> FALSE]
    /\ prompt = [w \in Writers |-> "none"]
    /\ raced = [w \in Writers |-> FALSE]

\* Every variable keeps to the values the code and the CLI can give it.
TypeOK ==
    /\ store \in [Entries -> Writers \cup {Nothing, "old"}]
    /\ pc \in [Writers -> {"idle", "check", "run", "ended", "done"}]
    /\ job \in [Writers -> Jobs]
    /\ result \in [Writers -> {"none", "nil", "exists", "listFailed",
                               "failed", "lost"}]
    /\ stored \in [Writers -> BOOLEAN]
    /\ prompt \in [Writers -> {"none", "eof", "secret"}]
    /\ raced \in [Writers -> BOOLEAN]

-----------------------------------------------------------------------------
Type(j) == IF j.op = "SetRegistry" THEN "registry" ELSE "service"

\* The scope that SetToken, SetRegistry and Import hand to the check.
checkScope_global(j) == j.scope   \* mutant: host-only entries not looked for
checkScope(j) ==
    CASE j.op = "SetRegistry" /\ j.scope = "global" /\ j.hostOnly -> "host-only"
      [] j.op = "Import"                                          -> "global"
      [] OTHER                                                    -> j.scope

\* The scope the argument vector asks the CLI to write: --sandbox NAME,
\* --all-sandboxes, or a bare --registry, which is host-only.
writeScope(j) ==
    CASE j.op = "SetRegistry" /\ j.scope = "global" ->
            IF j.hostOnly THEN "host-only" ELSE "global"
      [] j.op \in {"Import", "ImportAll"} -> "global"
      [] OTHER -> j.scope

Target(j) == <<Type(j), writeScope(j)>>

\* SetToken and SetRegistry pipe the value unless a resolver replaces it.
PipesSecret(j) == j.op = "SetRegistry" \/ (j.op = "SetToken" /\ ~j.resolver)

\* `sbx secret ls`: bare it lists every scope, with --sandbox that one.
List(scope) ==
    {e \in Entries : store[e] # Nothing /\ (scope = "global" \/ e[2] = scope)}

\* checkNotStored: list (host-only cannot narrow a listing), then filter.
FoundStored_anyScope(j) ==   \* mutant: the row filter ignores the scope
    LET scope     == checkScope(j)
        listScope == IF scope = "host-only" THEN "global" ELSE scope
    IN  \E e \in List(listScope) : e[1] = Type(j)
FoundStored(j) ==
    LET scope     == checkScope(j)
        listScope == IF scope = "host-only" THEN "global" ELSE scope
    IN  <<Type(j), scope>> \in List(listScope)

-----------------------------------------------------------------------------
Goto(w, l) == pc' = [pc EXCEPT ![w] = l] /\ UNCHANGED result
Return(w, r) ==
    /\ pc' = [pc EXCEPT ![w] = "done"]
    /\ result' = [result EXCEPT ![w] = r]

\* The argument vector holds --force: every operation spells it so.
Forced(j) == j.overwrite

\* ImportAll and Remove check nothing; an overwrite needs no check.
NeedsCheck(j) == j.op \in {"SetToken", "SetRegistry", "Import"} /\ ~j.overwrite

Begin(w) ==
    /\ pc[w] = "idle"
    /\ Goto(w, IF NeedsCheck(job[w]) THEN "check" ELSE "run")
    /\ UNCHANGED <<store, job, stored, prompt, raced>>

\* A listing that fails blocks the write.
Check(w) ==
    /\ pc[w] = "check"
    /\ \/ Return(w, "listFailed")
       \/ FoundStored(job[w]) /\ Return(w, "exists")
       \/ ~FoundStored(job[w]) /\ Goto(w, "run")
    /\ UNCHANGED <<store, job, stored, prompt, raced>>

Put(e, v) ==
    /\ store' = [store EXCEPT ![e] = v]
    /\ raced' = [w \in Writers |->
                    raced[w] \/ (pc[w] = "run" /\ Target(job[w]) = e)]

\* The CLI's `secret set` and `secret import` on entry e (external).
CliStores_swapped(w, e) ==   \* mutant: the scope is passed as the value
    /\ ~job[w].dryRun
    /\ store[e] = Nothing \/ Forced(job[w])
    /\ Put(e, job[w].scope)
    /\ stored' = [stored EXCEPT ![w] = TRUE]
    /\ UNCHANGED prompt
CliStores(w, e) ==
    /\ ~job[w].dryRun
    /\ store[e] = Nothing \/ Forced(job[w])
    /\ Put(e, w)
    /\ stored' = [stored EXCEPT ![w] = TRUE]
    /\ UNCHANGED prompt

CliPrompts(w, e) ==
    /\ ~job[w].dryRun
    /\ store[e] # Nothing /\ ~Forced(job[w])
    /\ prompt' = [prompt EXCEPT ![w] =
                    IF PipesSecret(job[w]) THEN "secret" ELSE "eof"]
    /\ UNCHANGED <<store, stored, raced>>

\* The child: it acts and exits 0, or fails, is killed or cannot be started,
\* before it acts or after.
Run(w) ==
    /\ pc[w] = "run" /\ job[w].op # "Remove"
    /\ \/ /\ CliStores(w, Target(job[w])) \/ CliPrompts(w, Target(job[w]))
          /\ Goto(w, "ended") \/ Return(w, "failed")
       \/ /\ UNCHANGED <<store, stored, prompt, raced>>
          /\ Return(w, "failed") \/ (job[w].dryRun /\ Goto(w, "ended"))
    /\ UNCHANGED job

\* Remove runs `secret rm -f`, which never asks.
Remove(w) ==
    /\ pc[w] = "run" /\ job[w].op = "Remove"
    /\ \/ Return(w, "failed") /\ UNCHANGED <<store, raced>>
       \/ /\ Put(Target(job[w]), Nothing)
          /\ Goto(w, "ended") \/ Return(w, "failed")
    /\ UNCHANGED <<job, stored, prompt>>

\* The Runner's answer for a child that exited 0: nil, or an error when the
\* call was cancelled or a grandchild held its pipes.
Answer_checkedLast(w) ==   \* mutant: the check runs after the write
    /\ pc[w] = "ended"
    /\ Return(w, IF FoundStored(job[w]) THEN "exists" ELSE "nil")
    /\ UNCHANGED <<store, job, stored, prompt, raced>>
Answer(w) ==
    /\ pc[w] = "ended"
    /\ \/ Return(w, "nil")
       \/ Return(w, "lost")
    /\ UNCHANGED <<store, job, stored, prompt, raced>>

\* Someone runs sbx by hand.
Outside ==
    /\ \E e \in Entries :
         \/ store[e] = Nothing /\ Put(e, "old")
         \/ store[e] = "old" /\ Put(e, Nothing)
    /\ UNCHANGED <<pc, job, result, stored, prompt>>

Next ==
    \/ \E w \in Writers :
          Begin(w) \/ Check(w) \/ Run(w) \/ Remove(w) \/ Answer(w)
    \/ Outside

Spec == Init /\ [][Next]_vars

-----------------------------------------------------------------------------
Checked(w) == NeedsCheck(job[w])

\* A call refused by the check, or by a listing it could not read, has stored
\* nothing and asked nothing.
RefusedWithoutEffect ==
    \A w \in Writers :
        result[w] \in {"exists", "listFailed"}
            => ~stored[w] /\ prompt[w] = "none"

\* A caller is refused only because of the very entry it would write: not for
\* the same name in another scope or of another type.
RefusedForCause ==
    [][\A w \in Writers :
         (result[w] # "exists" /\ result'[w] = "exists")
            => store[Target(job[w])] # Nothing]_vars

\* nil from a checked call means its value was stored, unless somebody wrote
\* that entry between the check and the write: the check looks where the CLI
\* writes, in every scope.
NilStoredUnlessRaced ==
    \A w \in Writers :
        Checked(w) /\ result[w] = "nil" /\ ~job[w].dryRun
            => stored[w] \/ raced[w]

\* secret/set.go: the entry is "checked before the CLI is invoked, so a pending
\* secret is never consumed as the answer to the CLI's own overwrite prompt".
SecretNeverAnswersPrompt == \A w \in Writers : prompt[w] # "secret"
=============================================================================
