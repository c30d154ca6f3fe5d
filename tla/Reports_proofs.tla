--------------------------- MODULE Reports_proofs ---------------------------
(***************************************************************************)
(* Proofs about Reports, for every table of numbers, addresses, protocols, *)
(* specs and published keys: what UnpublishPort takes away; for every      *)
(* content of a report: what the errors of the one-question calls mean.    *)
(***************************************************************************)
EXTENDS Reports, SequenceTheorems, TLAPS

\* A spec that parses has one, two or three fields, numbers in range where
\* ports are, and an address only together with a host port.
LEMMA Parsed ==
    ASSUME NEW s \in PortSpecs, parsePortSpec(s).ok
    PROVE  /\ s.fields \in Seq(DOMAIN Number) /\ Len(s.fields) \in {1, 2, 3}
           /\ InRange(s.fields[Len(s.fields)])
           /\ Len(s.fields) > 1 => InRange(s.fields[Len(s.fields) - 1])
           /\ Len(s.fields) = 1 => s.v6 = None
           /\ Len(s.fields) = 3 => s.v6 = None
           /\ Len(s.fields) = 3 => s.fields[1] # None
<1>1. /\ s.fields \in Seq(DOMAIN Number)
      /\ Len(s.fields) \in 1..3
      /\ s.v6 # None => Len(s.fields) < 3
      /\ Len(s.fields) = 3 => s.fields[1] # None
      /\ Len(s.fields) = 1 => s.v6 = None
  BY PortsAssumption DEF PortsAssumption, parsePortSpec
<1>2. \A i \in 1..Len(s.fields) : i \in {Len(s.fields) - 1, Len(s.fields)} => InRange(s.fields[i])
  BY DEF parsePortSpec
<1>3. ASSUME NEW n \in 1..3, n = Len(s.fields)
      PROVE  InRange(s.fields[n]) /\ (n > 1 => InRange(s.fields[n - 1]))
  <2>1. n \in 1..n /\ (n > 1 => n - 1 \in 1..n)
    BY <1>3
  <2> QED
    BY <1>2, <1>3, <2>1
<1>4. Len(s.fields) \in {1, 2, 3}
  BY <1>1
<1>5. Len(s.fields) = 3 => s.v6 = None
  BY <1>1
<1> QED
  BY <1>1, <1>3, <1>4, <1>5

\* Filtering by the fields of a parsed spec keeps exactly the keys its text
\* names: sandbox/portspec.go and sandbox/ports.go agree with the grammar.
LEMMA WantedIsNamed ==
    ASSUME NEW s \in PortSpecs, NEW ps, parsePortSpec(s).ok
    PROVE  Wanted(parsePortSpec(s), ps) = {p \in ps : Names(s, p)}
<1>1. CASE Len(s.fields) = 1
  <2>1. s.v6 = None /\ Number[s.fields[1]] \in 1..MaxPort
    BY <1>1, Parsed DEF InRange
  <2> QED
    BY <1>1, <2>1 DEF parsePortSpec, Wanted, Names, SaysPorts, Spelled
<1>2. CASE Len(s.fields) = 2
  <2>1. Number[s.fields[1]] \in 1..MaxPort /\ Number[s.fields[2]] \in 1..MaxPort
    BY <1>2, Parsed DEF InRange
  <2> QED
    BY <1>2, <2>1 DEF parsePortSpec, Wanted, Names, SaysPorts, Spelled
<1>3. CASE Len(s.fields) = 3
  <2>1. Number[s.fields[2]] \in 1..MaxPort /\ Number[s.fields[3]] \in 1..MaxPort
    BY <1>3, Parsed DEF InRange
  <2>2. /\ Len(Tail(s.fields)) = 2
        /\ Tail(s.fields)[1] = s.fields[2] /\ Tail(s.fields)[2] = s.fields[3]
    BY <1>3, Parsed
  <2>3. s.v6 = None /\ s.fields[1] # None
    BY <1>3, Parsed
  <2> QED
    BY <1>3, <2>1, <2>2, <2>3 DEF parsePortSpec, Wanted, Names, SaysPorts, Spelled
<1> QED
  BY <1>1, <1>2, <1>3, Parsed

-----------------------------------------------------------------------------
\* From the listing on, keys are the listed keys the spec names; before the
\* request nothing is removed, and only a request returns nil.
Named == keys = {p \in listed : Names(spec, p)}
PortsInv ==
    /\ portsPc \in {"idle", "parse", "list", "post", "done"}
    /\ portsPc # "idle" => spec \in PortSpecs
    /\ portsPc \in {"list", "post"} => parsePortSpec(spec).ok
    /\ portsPc # "done" => portsResult = None
    /\ portsPc \in {"idle", "parse", "list"} => keys = {} /\ removed = {}
    /\ portsPc = "post" => Named /\ keys # {} /\ removed = {}
    /\ \A p \in removed : Names(spec, p)
    /\ portsResult = "nil" => Named /\ keys # {} /\ keys \cap published = {}
    /\ portsResult = "noMatch" => Named /\ keys = {}

LEMMA PortsInvInit == Init => PortsInv
BY DEF Init, PortsInit, PortsIdle, PortsInv, None

LEMMA PortsInvStep == PortsInv /\ [Next]_vars => PortsInv'
<1> SUFFICES ASSUME PortsInv, [Next]_vars PROVE PortsInv'
  OBVIOUS
<1> USE DEF PortsInv, Named, None, Goto, Return
<1>1. CASE ParseSpec
  BY <1>1 DEF ParseSpec
<1>2. CASE ListPorts
  <2>1. CASE \E ps \in {published, {}} :
               /\ listed' = ps
               /\ keys' = Wanted(parsePortSpec(spec), ps)
               /\ IF keys' = {} THEN Return("noMatch") ELSE Goto("post")
    <3>1. keys' = {p \in listed' : Names(spec, p)}
      BY <1>2, <2>1, WantedIsNamed DEF ListPorts
    <3> QED
      BY <1>2, <2>1, <3>1 DEF ListPorts
  <2>2. CASE Return("error") /\ UNCHANGED <<keys, listed>>
    BY <1>2, <2>2 DEF ListPorts
  <2> QED
    BY <1>2, <2>1, <2>2 DEF ListPorts
<1>3. CASE PostKeys
  BY <1>3 DEF PostKeys
<1>4. ASSUME NEW p \in Mappings, PublishPort(p) \/ OthersUnpublish(p) PROVE PortsInv'
  BY <1>4 DEF PublishPort, OthersUnpublish, Meanwhile
<1>5. CASE UNCHANGED portsVars
  BY <1>5 DEF portsVars
<1> QED
  BY <1>1, <1>2, <1>3, <1>4, <1>5 DEF Next, PortsNext, vars

\* UnpublishPort removes no key its spec does not name, whatever others do
\* between its two requests, and on nil none it names is left.
THEOREM UnpublishIsExact == Spec => []UnpublishExact
<1>1. PortsInv => UnpublishExact
  BY DEF PortsInv, UnpublishExact, Named
<1> QED
  BY PortsInvInit, PortsInvStep, <1>1, PTL DEF Spec

-----------------------------------------------------------------------------
(* Errors of the one-question calls.                                        *)

ReadKinds == {"nothing", "text", "json", "keyed", "object", "label", "diagnosis",
              "array", "flag", "lines", "rows"}
OpShape(op) ==
    /\ op.via \in {"cli", "rest", "exec"}
    /\ op.via # "exec" => op.reads \in ReadKinds
    /\ op.flags = op.opts

\* Every function turns each of its options into a flag.
LEMMA OpsShape == \A op \in Ops : OpShape(op)
  BY DEF OpShape, ReadKinds, Op, Shell, Rest, Ops,
     mcpList, mcpInspect, AddRemote, AddLocal, mcpRemove, mcpLoad, AuthStatus, AuthRemove,
     SecretListRaw, SecretRemove, RemoveCustom, addConfig, addArgs,
     kitInspect, Validate, Pack, Push, PushSigned, Pull, Sign, Verify, Provenance,
     signConfig, signArgs, verifyConfig, verifyArgs,
     settingsList, ListAll, settingsGet, settingsSet, Unset, sshEnabled, sshSetup, RemoveSetup,
     skillsImport, skillsList,
     SetDefault, Allow, Deny, RemoveRule, Reset, policyListRaw, Profiles, InspectRaw,
     policyList, ProfileNames, policyLog, policyCheck,
     templateList, templateInspect, templateRemove, templateLoad,
     CopyTo, AddKit, SaveTemplate, Summary, Kits, Prune, PruneDryRun, StatsOp,
     MCPGatewayMode, DaemonHealth, Diagnostics, Login, Logout, Diagnose, DaemonLogPath, DetectSetup

\* The functions with sentinels of their own ask the CLI.
LEMMA Shells == Validate.via = "cli" /\ Verify.via = "cli" /\ Provenance.via = "cli"
  BY DEF Validate, Verify, Provenance, Shell, Op

\* A decoder fails with "format" alone, and never on a report that has its key.
LEMMA DecodedErrors ==
    ASSUME NEW reads \in ReadKinds, NEW b
    PROVE  /\ Decoded(reads, b).err \in {"nil", "format"}
           /\ reads \in {"keyed", "object", "flag", "label", "diagnosis"} /\ Present(b) =>
                 Decoded(reads, b).err = "nil"
  BY DEF ReadKinds, Decoded, Found, Failed, Keyed, Object, Array, Raw, Flag, pruneRemoved, parseSetupReport

\* What the error of a call says of the answer it got.
ErrorTells(op, a, e) ==
    /\ e \notin {"none", "refused", "noBinary"}
    /\ e = "kitRejected" <=> op = Validate /\ a.end = "exit 1" /\ a.said = "INVALID:"
    /\ e = "signatureInvalid" <=>
          op \in {Verify, Provenance} /\ a.end = "exit 1" /\ a.said = "verification failed"
    /\ e \in {"format", "decode"} =>
          /\ a.end \in {"exit 0", "2xx"}
          /\ op.reads \in {"keyed", "object", "flag", "label", "diagnosis"} => ~Present(a.body)

\* For every function and every answer it may get, a sentinel is returned
\* exactly when the answer calls for it.
LEMMA ResultTells ==
    ASSUME NEW op \in Ops, NEW a \in Answers(op)
    PROVE  ErrorTells(op, a, Result(op, a).err)
<1> DEFINE report == Decoded(op.reads, a.body)
<1>0. OpShape(op)
  BY OpsShape
<1>1. CASE op.via = "cli"
  <2>1. report.err \in {"nil", "format"} /\
        (op.reads \in {"keyed", "object", "flag", "label", "diagnosis"} /\ Present(a.body) =>
            report.err = "nil")
    BY <1>0, <1>1, DecodedErrors DEF OpShape
  <2>2. /\ a.end \in {"exit 0", "lost", "exit 1"}
        /\ a.end # "exit 1" => a.said = "none"
    BY <1>1 DEF Answers
  <2>3. Result(op, a) = CliResult(op, a)
    BY <1>1 DEF Result
  <2>4. /\ op = Diagnose => op # Validate /\ op \notin {Verify, Provenance}
        /\ op = Validate => op.reads = "nothing" /\ op \notin {Verify, Provenance}
    BY DEF Diagnose, Validate, Verify, Provenance, Shell, Op
  <2>5. CASE a.end = "exit 0" \/ (op = Diagnose /\ report.err = "nil")
    <3>1. Result(op, a).err = report.err
      BY <2>3, <2>5 DEF CliResult
    <3> QED
      BY <3>1, <2>1, <2>2, <2>4, <2>5 DEF ErrorTells
  <2>6. CASE ~(a.end = "exit 0" \/ (op = Diagnose /\ report.err = "nil"))
    <3>1. Result(op, a).err = Classified(op, a)
      <4>1. CliResult(op, a) = Failed(Classified(op, a))
        BY <2>6 DEF CliResult
      <4> QED
        BY <2>3, <4>1 DEF Failed
    <3> QED
      BY <3>1, <2>2, <2>4, <2>6 DEF ErrorTells, Classified, classifyVerify
  <2> QED
    BY <2>5, <2>6
<1>2. CASE op.via # "cli"
  <2>0. op # Validate /\ op \notin {Verify, Provenance}
    BY <1>2, Shells
  <2>1. CASE op.via = "rest"
    <3>1. report.err \in {"nil", "format"} /\
          (op.reads \in {"keyed", "object", "flag", "label", "diagnosis"} /\ Present(a.body) =>
              report.err = "nil")
      BY <1>0, <2>1, DecodedErrors DEF OpShape
    <3>2. a.end \in {"2xx", "404", "409", "500", "lost"}
      BY <2>1 DEF Answers
    <3>3. Result(op, a) = RestResult(op, a)
      BY <2>1 DEF Result
    <3>4. CASE a.end = "2xx"
      <4>1. \/ Result(op, a) = Found({})
            \/ Result(op, a) = report
            \/ report.err = "format" /\ Result(op, a) = Failed("decode")
        BY <3>3, <3>4 DEF RestResult, DoJSON
      <4>2. Result(op, a).err \in {"nil", "format", "decode"}
        BY <3>1, <4>1 DEF Found, Failed
      <4>3. Result(op, a).err \in {"format", "decode"} => report.err = "format"
        BY <3>1, <4>1 DEF Found, Failed
      <4> QED
        BY <3>1, <3>4, <4>2, <4>3, <2>0 DEF ErrorTells
    <3>5. CASE a.end # "2xx"
      <4>1. Result(op, a).err = mapHTTPError(a.end)
        BY <3>3, <3>5 DEF RestResult, Failed
      <4>2. mapHTTPError(a.end) \in {"notFound", "exists", "api", "transport"}
        BY <3>2, <3>5 DEF mapHTTPError
      <4> QED
        BY <4>1, <4>2, <2>0 DEF ErrorTells
    <3> QED
      BY <3>4, <3>5
  <2>2. CASE op.via = "exec"
    <3>1. Result(op, a).err \in {"nil", "stats"}
      BY <2>2 DEF Result, StatsResult, Found, Failed
    <3> QED
      BY <3>1, <2>0 DEF ErrorTells
  <2> QED
    BY <1>2, <1>0, <2>1, <2>2 DEF OpShape
<1> QED
  BY <1>1, <1>2

\* A call asks with every option given, is answered as the function may be,
\* and returns what the answer tells; a refused call and one without a binary
\* have asked nobody.
CallInv ==
    /\ callPc \in {"idle", "check", "asked", "told", "done"}
    /\ call.op \in Ops /\ call.opts \subseteq call.op.opts
    /\ callPc = "asked" => call.given = call.op.needs /\ asked = [by |-> TRUE, flags |-> call.opts]
    /\ callPc = "told" => /\ call.given = call.op.needs
                          /\ asked = [by |-> TRUE, flags |-> call.opts]
                          /\ answer \in Answers(call.op)
    /\ callPc = "done" =>
          \/ /\ ret.err = "refused" /\ asked = NotAsked /\ answer = NoAnswer
             /\ call.given # call.op.needs
          \/ /\ ret.err = "noBinary" /\ asked = NotAsked /\ answer = NoAnswer
             /\ call.given = call.op.needs
          \/ /\ asked = [by |-> TRUE, flags |-> call.opts]
             /\ call.given = call.op.needs
             /\ ErrorTells(call.op, answer, ret.err)
    /\ callPc \in {"check", "asked"} => answer = NoAnswer
    /\ callPc = "check" => asked = NotAsked

LEMMA CallInvInit == Init => CallInv
<1>1. ASSUME CallIdle PROVE CallInv
  <2>1. Logout \in Ops
    BY DEF Ops
  <2> QED
    BY <1>1, <2>1 DEF CallIdle, CallInv
<1>2. ASSUME CallInit PROVE CallInv
  BY <1>2 DEF CallInit, CallInv
<1> QED
  BY <1>1, <1>2 DEF Init

LEMMA CallInvStep == CallInv /\ [Next]_vars => CallInv'
<1> SUFFICES ASSUME CallInv, [Next]_vars PROVE CallInv'
  OBVIOUS
<1>1. CASE Check
  <2>1. call.op.flags = call.op.opts
    BY OpsShape DEF CallInv, OpShape
  <2>2. CASE call.given # call.op.needs
    BY <1>1, <2>2 DEF Check, CallInv, Failed
  <2>3. CASE call.given = call.op.needs
    <3>1. call.opts \cap call.op.flags = call.opts
      BY <2>1 DEF CallInv
    <3> QED
      BY <1>1, <2>3, <3>1 DEF Check, CallInv, Failed
  <2> QED
    BY <2>2, <2>3
<1>2. CASE Answer
  BY <1>2 DEF Answer, CallInv
<1>3. CASE CallReturns
  <2>1. ErrorTells(call.op, answer, ret.err)'
    BY <1>3, ResultTells DEF CallReturns, CallInv, ErrorTells
  <2> QED
    BY <1>3, <2>1 DEF CallReturns, CallInv
<1>4. CASE UNCHANGED callVars
  BY <1>4 DEF callVars, CallInv, ErrorTells
<1> QED
  BY <1>1, <1>2, <1>3, <1>4 DEF Next, CallNext, vars

\* An error a caller branches on is true and told whenever it is, for every
\* function, every report and every way it may fail; a refused call asked
\* nobody, and whoever was asked was given every option.
THEOREM SentinelsAreTrue == Spec => []SentinelTrue
<1>1. CallInv => SentinelTrue
  <2> SUFFICES ASSUME CallInv, callPc = "done" PROVE SentinelTrue
    BY DEF SentinelTrue
  <2>1. CASE ret.err \in {"refused", "noBinary"}
    <3>1. /\ asked = NotAsked /\ answer = NoAnswer
          /\ ret.err = "refused" <=> call.given # call.op.needs
      BY <2>1 DEF CallInv, ErrorTells
    <3>2. ~asked.by /\ answer.end = "none"
      BY <3>1 DEF NotAsked, NoAnswer
    <3> QED
      BY <2>1, <3>1, <3>2 DEF SentinelTrue
  <2>2. CASE ret.err \notin {"refused", "noBinary"}
    <3>1. /\ asked = [by |-> TRUE, flags |-> call.opts] /\ call.given = call.op.needs
          /\ ErrorTells(call.op, answer, ret.err)
      BY <2>2 DEF CallInv
    <3>2. asked.by /\ asked.flags = call.opts
      BY <3>1
    <3> QED
      BY <2>2, <3>1, <3>2 DEF SentinelTrue, ErrorTells, Succeeded
  <2> QED
    BY <2>1, <2>2
<1> QED
  BY CallInvInit, CallInvStep, <1>1, PTL DEF Spec

-----------------------------------------------------------------------------
(* The parser of Stats.                                                     *)

\* A quotient is a whole number and leaves a remainder less than the divisor.
LEMMA Divided ==
    ASSUME NEW n \in Int, NEW d \in Nat \ {0}
    PROVE  n \div d \in Int /\ n - (n \div d) * d \in 0..(d - 1)
<1>1. (n \div d) \in Int /\ (n % d) \in 0..(d - 1)
  OBVIOUS
<1>2. n = d * (n \div d) + (n % d)
  OBVIOUS
<1> QED
  BY <1>1, <1>2

\* The percentage of a part is at most 100.
LEMMA Percentage ==
    ASSUME NEW busy \in Nat, NEW all \in Nat \ {0}, busy <= all, NEW q \in Int,
           100 * busy - q * all \in 0..(all - 1)
    PROVE  q \in 0..100
<1>1. CASE q < 0
  <2>1. -q * all >= all
    BY <1>1
  <2> QED
    BY <2>1
<1>2. CASE q > 100
  <2>1. q * all >= 101 * all
    BY <1>2
  <2> QED
    BY <2>1
<1> QED
  BY <1>1, <1>2

LEMMA Clamps == ASSUME NEW x \in Int PROVE Clamped(x) \in 0..100 /\ (x \in 0..100 => Clamped(x) = x)
BY DEF Clamped

LEMMA Totals ==
    ASSUME NEW c \in Seq(Nat)
    PROVE  /\ Total(c) \in Nat /\ Busy(c) \in Nat
           /\ Idle(c) \in Nat
           /\ Total(c) - Idle(c) = Busy(c)
<1>1. \A i \in 1..8 : At(c, i) \in Nat
  BY DEF At
<1>2. /\ At(c, 1) \in Nat /\ At(c, 2) \in Nat /\ At(c, 3) \in Nat /\ At(c, 4) \in Nat
      /\ At(c, 5) \in Nat /\ At(c, 6) \in Nat /\ At(c, 7) \in Nat /\ At(c, 8) \in Nat
  BY <1>1
<1>3. PICK a \in Nat, b \in Nat, x \in Nat, y \in Nat, m \in Nat, n \in Nat, v \in Nat, w \in Nat :
        /\ a = At(c, 1) /\ b = At(c, 2) /\ x = At(c, 3) /\ y = At(c, 4)
        /\ m = At(c, 5) /\ n = At(c, 6) /\ v = At(c, 7) /\ w = At(c, 8)
  BY <1>2, Zenon
<1>4. Total(c) = a + b + x + y + m + n + v + w /\ Busy(c) = a + b + x + n + v + w
      /\ Idle(c) = y + m
  BY <1>3 DEF Total, Busy, Idle
<1>5. /\ a + b + x + y + m + n + v + w \in Nat /\ a + b + x + n + v + w \in Nat /\ y + m \in Nat
      /\ (a + b + x + y + m + n + v + w) - (y + m) = a + b + x + n + v + w
  OBVIOUS
<1> QED
  BY <1>3, <1>4, <1>5

LEMMA ClampedShare ==
    ASSUME NEW busy \in Int, NEW all \in Int, all > 0,
           NEW p, p = Clamped((busy * 100) \div all)
    PROVE  p \in 0..100 /\ (busy \in 0..all => 100 * busy - p * all \in 0..(all - 1))
<1>1. PICK q \in Int : q = (busy * 100) \div all /\ busy * 100 - q * all \in 0..(all - 1)
  <2>1. busy * 100 \in Int /\ all \in Nat \ {0}
    OBVIOUS
  <2> QED
    BY <2>1, Divided
<1>2. p = Clamped(q)
  BY <1>1
<1>3. ASSUME busy \in 0..all PROVE 100 * busy - p * all \in 0..(all - 1)
  <2>1. busy \in Nat /\ all \in Nat \ {0} /\ busy <= all
    BY <1>3
  <2>2. 100 * busy - q * all \in 0..(all - 1)
    BY <1>1
  <2>3. q \in 0..100
    BY <2>1, <2>2, Percentage
  <2>4. p = q
    BY <1>2, <2>3, Clamps
  <2> QED
    BY <2>2, <2>4
<1> QED
  BY <1>2, <1>3, Clamps

\* What parseStats makes of two samples is a percentage, and the busy share of
\* the time between them when no counter of theirs went backwards.
LEMMA BusyShare ==
    ASSUME NEW c \in Seq(Nat), NEW d \in Seq(Nat), NEW f, NEW g,
           NEW p, p = CPUPercent(parseCPULine(Line(f, c)), parseCPULine(Line(g, d)))
    PROVE  /\ p \in 0..100
           /\ Busy(d) - Busy(c) \in 0..(Total(d) - Total(c)) /\ Total(d) - Total(c) > 0 =>
                 100 * (Busy(d) - Busy(c)) - p * (Total(d) - Total(c))
                    \in 0..((Total(d) - Total(c)) - 1)
<1>0. /\ Total(c) \in Nat /\ Busy(c) \in Nat /\ Total(d) \in Nat /\ Busy(d) \in Nat
      /\ Idle(c) \in Nat /\ Idle(d) \in Nat
      /\ Total(c) - Idle(c) = Busy(c) /\ Total(d) - Idle(d) = Busy(d)
  BY Totals
<1>a. /\ Busy(d) - Busy(c) \in Int /\ Total(d) - Total(c) \in Int
      /\ (Total(d) - Total(c)) - (Idle(d) - Idle(c)) = Busy(d) - Busy(c)
  BY <1>0
<1>1. PICK busy \in Int, all \in Int :
        /\ busy = Busy(d) - Busy(c) /\ all = Total(d) - Total(c)
        /\ all - (Idle(d) - Idle(c)) = busy
  BY <1>a, Zenon
<1>2. p = IF all > 0 THEN Clamped((busy * 100) \div all) ELSE 0
  BY <1>1 DEF CPUPercent, parseCPULine, Line
<1>3. CASE all > 0
  <2>1. p = Clamped((busy * 100) \div all)
    BY <1>2, <1>3
  <2> QED
    BY <1>1, <1>3, <2>1, ClampedShare
<1>4. CASE ~(all > 0)
  BY <1>1, <1>2, <1>4
<1> QED
  BY <1>3, <1>4

Lines(s) == {Line("int", s.nproc), Line("int", s.total), Line("int", s.avail),
             Line("cpu", s.first), Line("cpu", s.second),
             Line("float", s.uptime), Line("disk", s.df)}

Once(q, l) ==
    \/ q = <<l>> /\ Len(q) = 1
    \/ q = <<>> /\ Len(q) = 0

\* A tool prints its line or nothing.
LEMMA SaysOnce ==
    ASSUME NEW s, NEW label, NEW line \in Lines(s)
    PROVE  /\ Says(s, label, line) \in Seq(Lines(s))
           /\ Once(Says(s, label, line), line)
  BY DEF Says, Once

\* Two tools print their lines in order, and two lines only together.
LEMMA Two ==
    ASSUME NEW s, NEW x \in Lines(s), NEW y \in Lines(s), NEW a, NEW b
    PROVE  LET both == Says(s, a, x) \o Says(s, b, y)
           IN  /\ both \in Seq(Lines(s)) /\ Len(both) \in 0..2
               /\ \A i \in 1..Len(both) : both[i] \in {x, y}
               /\ Len(both) = 2 => both[1] = x /\ both[2] = y
<1> DEFINE one == Says(s, a, x)
           two == Says(s, b, y)
<1>1. /\ one \in Seq(Lines(s)) /\ Once(one, x)
      /\ two \in Seq(Lines(s)) /\ Once(two, y)
  BY SaysOnce
<1> HIDE DEF one, two
<1>2. /\ one \o two \in Seq(Lines(s)) /\ Len(one \o two) = Len(one) + Len(two)
      /\ \A i \in 1..(Len(one) + Len(two)) :
            (one \o two)[i] = IF i <= Len(one) THEN one[i] ELSE two[i - Len(one)]
  BY <1>1, ConcatProperties
<1>3. Len(one \o two) \in 0..2
  <2>1. Len(one) \in {0, 1} /\ Len(two) \in {0, 1}
    BY <1>1 DEF Once
  <2>2. Len(one) + Len(two) \in 0..2
    <3>1. PICK i \in {0, 1}, j \in {0, 1} : i = Len(one) /\ j = Len(two)
      BY <2>1, Zenon
    <3>2. i + j \in 0..2
      OBVIOUS
    <3> QED
      BY <3>1, <3>2, Zenon
  <2> QED
    BY <1>2, <2>2, Zenon
<1>4. \A i \in 1..Len(one \o two) : (one \o two)[i] \in {x, y}
  BY <1>1, <1>2 DEF Once
<1>5. Len(one \o two) = 2 => (one \o two)[1] = x /\ (one \o two)[2] = y
  BY <1>1, <1>2 DEF Once
<1> QED
  BY <1>2, <1>3, <1>4, <1>5 DEF one, two

LEMMA Three ==
    ASSUME NEW s
    PROVE  /\ Memory(s) \in Seq(Lines(s)) /\ Len(Memory(s)) \in 0..3
           /\ \A i \in 1..Len(Memory(s)) : Memory(s)[i].form = "int"
           /\ Len(Memory(s)) = 3 =>
                 /\ Memory(s)[1] = Line("int", s.nproc)
                 /\ Memory(s)[2] = Line("int", s.total)
                 /\ Memory(s)[3] = Line("int", s.avail)
<1> DEFINE x == Line("int", s.nproc)
           y == Line("int", s.total)
           z == Line("int", s.avail)
           both == Says(s, "nproc", x) \o Says(s, "MemTotal", y)
           last == Says(s, "MemAvailable", z)
<1>0. x \in Lines(s) /\ y \in Lines(s) /\ z \in Lines(s)
  BY DEF Lines
<1>1. /\ both \in Seq(Lines(s)) /\ Len(both) \in 0..2
      /\ \A i \in 1..Len(both) : both[i] \in {x, y}
      /\ Len(both) = 2 => both[1] = x /\ both[2] = y
  BY <1>0, Two
<1>2. last \in Seq(Lines(s)) /\ Once(last, z)
  BY <1>0, SaysOnce
<1>3. Memory(s) = both \o last
  BY DEF Memory
<1>4. x.form = "int" /\ y.form = "int" /\ z.form = "int"
  BY DEF Line
<1> HIDE DEF x, y, z, both, last
<1>5. /\ both \o last \in Seq(Lines(s)) /\ Len(both \o last) = Len(both) + Len(last)
      /\ \A i \in 1..(Len(both) + Len(last)) :
            (both \o last)[i] = IF i <= Len(both) THEN both[i] ELSE last[i - Len(both)]
  BY <1>1, <1>2, ConcatProperties
<1>6. Len(both \o last) \in 0..3
  BY <1>1, <1>2, <1>5 DEF Once
<1>7. \A i \in 1..Len(both \o last) : (both \o last)[i] \in {x, y, z}
  BY <1>1, <1>2, <1>5 DEF Once
<1>8. Len(both \o last) = 3 =>
        (both \o last)[1] = x /\ (both \o last)[2] = y /\ (both \o last)[3] = z
  BY <1>1, <1>2, <1>5 DEF Once
<1>9. /\ Memory(s) \in Seq(Lines(s)) /\ Len(Memory(s)) \in 0..3
      /\ \A i \in 1..Len(Memory(s)) : Memory(s)[i].form = "int"
      /\ Len(Memory(s)) = 3 => Memory(s)[1] = x /\ Memory(s)[2] = y /\ Memory(s)[3] = z
  BY <1>3, <1>4, <1>5, <1>6, <1>7, <1>8
<1> QED
  BY <1>9 DEF x, y, z

\* A report whose five core lines are of the right form holds all five, in
\* order, and after them the best-effort lines alone.
LEMMA ScriptLines ==
    ASSUME NEW s, CoreLines(Script(s))
    PROVE  /\ Script(s)[1] = Line("int", s.nproc)
           /\ Script(s)[2] = Line("int", s.total)
           /\ Script(s)[3] = Line("int", s.avail)
           /\ Script(s)[4] = Line("cpu", s.first)
           /\ Script(s)[5] = Line("cpu", s.second)
           /\ Len(Script(s)) \in Nat
           /\ \A i \in 6..Len(Script(s)) : Script(s)[i] \in {Line("float", s.uptime), Line("disk", s.df)}
<1> DEFINE S == Lines(s)
           m == Memory(s)
           c == Samples(s)
           e == Extras(s)
           x == Line("cpu", s.first)
           y == Line("cpu", s.second)
           u == Line("float", s.uptime)
           d == Line("disk", s.df)
<1>0. x \in S /\ y \in S /\ u \in S /\ d \in S
  BY DEF Lines
<1>1. /\ m \in Seq(S) /\ Len(m) \in 0..3 /\ \A i \in 1..Len(m) : m[i].form = "int"
  BY Three
<1>2. /\ c \in Seq(S) /\ Len(c) \in 0..2
      /\ \A i \in 1..Len(c) : c[i] \in {x, y}
      /\ Len(c) = 2 => c[1] = x /\ c[2] = y
  BY <1>0, Two DEF Samples
<1>3. /\ e \in Seq(S) /\ Len(e) \in 0..2
      /\ \A i \in 1..Len(e) : e[i] \in {u, d}
  BY <1>0, Two DEF Extras
<1>4. x.form = "cpu" /\ y.form = "cpu" /\ u.form = "float" /\ d.form = "disk"
  BY DEF Line
<1>5. Script(s) = (m \o c) \o e
  BY DEF Script
<1>6. /\ Len(Script(s)) >= 5 /\ Script(s)[1].form = "int" /\ Script(s)[2].form = "int"
      /\ Script(s)[3].form = "int" /\ Script(s)[4].form = "cpu" /\ Script(s)[5].form = "cpu"
  BY DEF CoreLines, CPULine
<1> HIDE DEF S, m, c, e, x, y, u, d
<1>7. /\ m \o c \in Seq(S) /\ Len(m \o c) = Len(m) + Len(c)
      /\ \A i \in 1..(Len(m) + Len(c)) :
            (m \o c)[i] = IF i <= Len(m) THEN m[i] ELSE c[i - Len(m)]
  BY <1>1, <1>2, ConcatProperties
<1>8. /\ Len((m \o c) \o e) = Len(m) + Len(c) + Len(e)
      /\ \A i \in 1..(Len(m) + Len(c) + Len(e)) :
            ((m \o c) \o e)[i] = IF i <= Len(m) + Len(c) THEN (m \o c)[i] ELSE e[i - (Len(m) + Len(c))]
  <2>1. /\ Len((m \o c) \o e) = Len(m \o c) + Len(e)
        /\ \A i \in 1..(Len(m \o c) + Len(e)) :
            ((m \o c) \o e)[i] = IF i <= Len(m \o c) THEN (m \o c)[i] ELSE e[i - Len(m \o c)]
    BY <1>3, <1>7, ConcatProperties
  <2> QED
    BY <1>1, <1>2, <1>3, <1>7, <2>1
<1>9. Len(m) = 3
  <2>1. ASSUME Len(m) < 3 PROVE FALSE
    <3>1. Len(m) + 1 \in 1..3 /\ Len(m) + 1 \in 1..(Len(m) + Len(c) + Len(e))
      BY <1>1, <1>2, <1>3, <1>5, <1>6, <1>8, <2>1
    <3>2. Script(s)[Len(m) + 1].form = "int"
      BY <1>6, <3>1
    <3>3. CASE Len(c) > 0
      <4>1. Script(s)[Len(m) + 1] = c[1]
        BY <1>1, <1>2, <1>3, <1>5, <1>7, <1>8, <3>1, <3>3
      <4> QED
        BY <1>2, <1>4, <3>2, <3>3, <4>1
    <3>4. CASE Len(c) = 0
      <4>1. Script(s)[Len(m) + 1] = e[1] /\ Len(e) > 0
        BY <1>1, <1>2, <1>3, <1>5, <1>8, <3>1, <3>4
      <4> QED
        BY <1>3, <1>4, <3>2, <4>1
    <3> QED
      BY <1>2, <3>3, <3>4
  <2> QED
    BY <1>1, <2>1
<1>10. Len(c) = 2
  <2>1. ASSUME Len(c) < 2 PROVE FALSE
    <3>1. Len(c) + 4 \in 4..5 /\ Len(c) + 4 \in 1..(Len(m) + Len(c) + Len(e)) /\ 1 \in 1..Len(e)
      BY <1>2, <1>3, <1>5, <1>6, <1>8, <1>9, <2>1
    <3>2. Script(s)[Len(c) + 4].form = "cpu"
      BY <1>6, <3>1
    <3>3. Script(s)[Len(c) + 4] = e[1]
      BY <1>2, <1>3, <1>5, <1>8, <1>9, <3>1
    <3> QED
      BY <1>3, <1>4, <3>1, <3>2, <3>3
  <2> QED
    BY <1>2, <2>1
<1>11. /\ Script(s)[1] = m[1] /\ Script(s)[2] = m[2] /\ Script(s)[3] = m[3]
       /\ Script(s)[4] = c[1] /\ Script(s)[5] = c[2]
  BY <1>3, <1>5, <1>7, <1>8, <1>9, <1>10
<1>12. /\ Len(Script(s)) \in Nat
       /\ \A i \in 6..Len(Script(s)) : i - 5 \in 1..Len(e) /\ Script(s)[i] = e[i - 5]
  BY <1>3, <1>5, <1>8, <1>9, <1>10
<1>13. \A i \in 6..Len(Script(s)) : Script(s)[i] \in {u, d}
  BY <1>3, <1>12
<1>14. /\ Script(s)[4] = x /\ Script(s)[5] = y
  BY <1>2, <1>10, <1>11
<1>15. /\ m[1] = Line("int", s.nproc) /\ m[2] = Line("int", s.total) /\ m[3] = Line("int", s.avail)
  BY <1>9, Three DEF m
<1> QED
  BY <1>11, <1>12, <1>13, <1>14, <1>15 DEF x, y, u, d

\* Whichever tools the sandbox lacks, a usage that is returned is the truth.
LEMMA UsageIsTrue ==
    ASSUME NEW s \in Sandboxes, CoreLines(Script(s))
    PROVE  SaysTruth(Usage(Script(s)), s)
<1> DEFINE l == Script(s)
           u == Usage(l)
<1>1. /\ l[1].val = s.nproc /\ l[2].val = s.total /\ l[3].val = s.avail
      /\ l[4] = Line("cpu", s.first) /\ l[5] = Line("cpu", s.second)
      /\ Len(l) \in Nat
      /\ \A i \in 6..Len(l) : l[i] \in {Line("float", s.uptime), Line("disk", s.df)}
  <2>1. /\ l[1] = Line("int", s.nproc) /\ l[2] = Line("int", s.total) /\ l[3] = Line("int", s.avail)
        /\ l[4] = Line("cpu", s.first) /\ l[5] = Line("cpu", s.second)
        /\ Len(l) \in Nat
        /\ \A i \in 6..Len(l) : l[i] \in {Line("float", s.uptime), Line("disk", s.df)}
    BY ScriptLines
  <2>2. l[1].val = s.nproc /\ l[2].val = s.total /\ l[3].val = s.avail
    BY <2>1 DEF Line
  <2> QED
    BY <2>1, <2>2
<1>2. s.total \in Nat /\ s.avail \in Nat /\ s.first \in Seq(Nat) /\ s.second \in Seq(Nat)
  BY SandboxesAssumption
<1>3. /\ u.Cores = s.nproc /\ u.MemTotalKB = s.total /\ u.MemAvailableKB = s.avail
      /\ u.MemUsedKB = IF s.total > s.avail THEN s.total - s.avail ELSE 0
      /\ u.CPUPercent = CPUPercent(parseCPULine(Line("cpu", s.first)), parseCPULine(Line("cpu", s.second)))
  BY <1>1 DEF Usage
<1>4. u.MemUsedKB \in 0..s.total
  BY <1>2, <1>3
<1>5. u.UptimeSeconds \in {s.uptime, 0}
  <2>1. u.UptimeSeconds = IF Len(l) > 5 /\ l[6].form \in {"int", "float"} THEN l[6].val ELSE 0
    BY DEF Usage
  <2>2. CASE Len(l) > 5
    <3>1. l[6] \in {Line("float", s.uptime), Line("disk", s.df)}
      BY <1>1, <2>2
    <3> QED
      BY <2>1, <3>1 DEF Line
  <2>3. CASE ~(Len(l) > 5)
    BY <2>1, <2>3
  <2> QED
    BY <2>2, <2>3
<1>6. u.Disk \in {s.df, <<0, 0>>}
  <2>1. u.Disk = IF Len(l) > 6 THEN parseDiskLine(l[7]) ELSE <<0, 0>>
    BY DEF Usage
  <2>2. CASE Len(l) > 6
    <3>1. l[7] \in {Line("float", s.uptime), Line("disk", s.df)}
      BY <1>1, <2>2
    <3> QED
      BY <2>1, <3>1 DEF Line, parseDiskLine
  <2>3. CASE ~(Len(l) > 6)
    BY <2>1, <2>3
  <2> QED
    BY <2>2, <2>3
<1>7. /\ u.CPUPercent \in 0..100
      /\ Busy(s.second) - Busy(s.first) \in 0..(Total(s.second) - Total(s.first))
         /\ Total(s.second) - Total(s.first) > 0 =>
            100 * (Busy(s.second) - Busy(s.first)) - u.CPUPercent * (Total(s.second) - Total(s.first))
               \in 0..((Total(s.second) - Total(s.first)) - 1)
  BY <1>2, <1>3, BusyShare
<1>8. u.Cores = s.nproc /\ u.MemTotalKB = s.total /\ u.MemAvailableKB = s.avail
  BY <1>3
<1> HIDE DEF u
<1>9. SaysTruth(u, s)
  BY <1>4, <1>5, <1>6, <1>7, <1>8, Zenon DEF SaysTruth
<1> QED
  BY <1>9 DEF u

-----------------------------------------------------------------------------
(* Calls that return no error.                                              *)

\* Only Stats runs a probe; the strict functions ask the CLI for a key.
LEMMA OpsKinds ==
    /\ StatsOp.via = "exec" /\ \A op \in Ops : op.via = "exec" => op = StatsOp
    /\ \A op \in Strict : op.via = "cli" /\ op.reads = "keyed"
    /\ Diagnose.reads = "diagnosis"
    /\ DetectSetup.via = "cli" /\ DetectSetup.reads = "rows" /\ DetectSetup # Diagnose
<1>1. \A op \in Ops : op.via = "exec" => op = StatsOp
  BY DEF Op, Shell, Rest, Ops,
     mcpList, mcpInspect, AddRemote, AddLocal, mcpRemove, mcpLoad, AuthStatus, AuthRemove,
     SecretListRaw, SecretRemove, RemoveCustom,
     kitInspect, Validate, Pack, Push, PushSigned, Pull, Sign, Verify, Provenance,
     settingsList, ListAll, settingsGet, settingsSet, Unset, sshEnabled, sshSetup, RemoveSetup,
     skillsImport, skillsList,
     SetDefault, Allow, Deny, RemoveRule, Reset, policyListRaw, Profiles, InspectRaw,
     policyList, ProfileNames, policyLog, policyCheck,
     templateList, templateInspect, templateRemove, templateLoad,
     CopyTo, AddKit, SaveTemplate, Summary, Kits, Prune, PruneDryRun,
     MCPGatewayMode, DaemonHealth, Diagnostics, Login, Logout, Diagnose, DaemonLogPath, DetectSetup
<1>2. StatsOp.via = "exec"
  BY DEF StatsOp, Op
<1>3. \A op \in Strict : op.via = "cli" /\ op.reads = "keyed"
  BY DEF Strict, mcpList, mcpInspect, skillsList, PruneDryRun, DaemonLogPath, Shell, Op
<1>4. DetectSetup.via = "cli" /\ DetectSetup.reads = "rows" /\ Diagnose.reads = "diagnosis"
  BY DEF DetectSetup, Diagnose, Shell, Op
<1> QED
  BY <1>1, <1>2, <1>3, <1>4

\* A report that is read without an error is read as it is meant: nothing is
\* added, and nothing lost but in a report that has changed its shape.
LEMMA DecodedTruly ==
    ASSUME NEW reads \in ReadKinds, NEW b \in Texts, Decoded(reads, b).err = "nil"
    PROVE  /\ Decoded(reads, b).got \subseteq b.items
           /\ reads # "nothing" /\ Decoded(reads, b).got # b.items => Reshaped(reads, b)
           /\ reads = "keyed" => Decoded(reads, b).got = b.items
           /\ reads = "rows" => Decoded(reads, b).got # {}
           /\ reads = "diagnosis" => b.kind \in {"object", "null"}
<1>1. b.kind = "null" \/ (b.kind = "object" /\ b.key = "null") => b.items = {}
  BY DEF Texts
<1>2. b.kind = "object" => b.key \in {"there", "absent", "wrong", "null"}
  BY DEF Texts
<1> QED
  BY <1>1, <1>2 DEF ReadKinds, Decoded, Found, Failed, Keyed, Object, Array, Raw, Flag,
                    pruneRemoved, parseSetupReport, Present, Zero, Reshaped

\* What a nil error says of the answer the call got.
NilTells(op, a, r) ==
    /\ a.end \in {"exit 0", "2xx"} \/ (op = Diagnose /\ a.body.kind \in {"object", "null"})
    /\ op = StatsOp => SaysTruth(r.got, a.body)
    /\ op # StatsOp => r.got \subseteq a.body.items
    /\ op # StatsOp /\ op.reads # "nothing" /\ r.got # a.body.items =>
          op \notin Strict /\ Reshaped(op.reads, a.body)
    /\ op = DetectSetup => r.got # {}

LEMMA BlankIsText == Blank \in Texts /\ Blank.items = {}
  BY DEF Blank, Texts

\* For every function and every answer, what comes without an error is true.
LEMMA NilIsTold ==
    ASSUME NEW op \in Ops, NEW a \in Answers(op), Result(op, a).err = "nil"
    PROVE  NilTells(op, a, Result(op, a))
<1> DEFINE report == Decoded(op.reads, a.body)
           r == Result(op, a)
<1>0. OpShape(op)
  BY OpsShape
<1>1. ASSUME op.via # "exec", a.body \in Texts, report.err = "nil", r = report,
             a.end \in {"exit 0", "2xx"} \/ op = Diagnose
      PROVE  NilTells(op, a, r)
  <2>1. /\ r.got \subseteq a.body.items
        /\ op.reads # "nothing" /\ r.got # a.body.items => Reshaped(op.reads, a.body)
        /\ op.reads = "keyed" => r.got = a.body.items
        /\ op.reads = "rows" => r.got # {}
        /\ op.reads = "diagnosis" => a.body.kind \in {"object", "null"}
    BY <1>0, <1>1, DecodedTruly DEF OpShape
  <2> HIDE DEF r, report
  <2> QED
    BY <1>1, <2>1, OpsKinds DEF NilTells
<1>2. CASE op.via = "cli"
  <2>1. a.body \in Texts
    BY <1>2, BlankIsText DEF Answers, Reports
  <2>2. r = CliResult(op, a)
    BY <1>2 DEF Result
  <2>3. r = report /\ report.err = "nil" /\ (a.end = "exit 0" \/ op = Diagnose)
    <3>1. a.end = "exit 0" \/ (op = Diagnose /\ report.err = "nil")
      <4>1. Classified(op, a) # "nil"
        BY DEF Classified, classifyVerify
      <4>2. ASSUME ~(a.end = "exit 0" \/ (op = Diagnose /\ report.err = "nil")) PROVE FALSE
        <5>1. CliResult(op, a) = Failed(Classified(op, a))
          BY <4>2 DEF CliResult
        <5>2. Failed(Classified(op, a)).err = Classified(op, a)
          BY DEF Failed
        <5> QED
          BY <2>2, <4>1, <5>1, <5>2
      <4> QED
        BY <4>2
    <3> QED
      BY <2>2, <3>1 DEF CliResult
  <2> QED
    BY <1>1, <1>2, <2>1, <2>3, Zenon
<1>3. CASE op.via = "rest"
  <2>1. a.body \in Texts
    BY <1>3, BlankIsText DEF Answers, Reports
  <2>2. a.end \in {"2xx", "404", "409", "500", "lost"} /\ r = RestResult(op, a)
    BY <1>3 DEF Answers, Result
  <2>3. a.end = "2xx" /\ r = DoJSON(op, a.body)
    <3>1. a.end # "2xx" => r.err \in {"notFound", "exists", "api", "transport"}
      BY <2>2 DEF RestResult, Failed, mapHTTPError
    <3> QED
      BY <2>2, <3>1 DEF RestResult
  <2>4. CASE a.body.kind = "empty" \/ op.reads = "nothing"
    <3>1. r.got = {} /\ op \notin Strict /\ op # DetectSetup
      BY <1>3, <2>3, <2>4, OpsKinds DEF DoJSON, Found
    <3>2. a.body.kind = "empty" => Reshaped(op.reads, a.body)
      BY DEF Reshaped
    <3>3. op # StatsOp
      BY <1>3, OpsKinds
    <3> QED
      BY <2>3, <2>4, <3>1, <3>2, <3>3 DEF NilTells
  <2>5. CASE ~(a.body.kind = "empty" \/ op.reads = "nothing")
    <3>1. r = report
      <4>1. r = report \/ r = Failed("decode")
        BY <2>3, <2>5 DEF DoJSON
      <4> QED
        BY <4>1 DEF Failed
    <3> QED
      BY <1>1, <1>3, <2>1, <2>3, <3>1
  <2> QED
    BY <2>4, <2>5
<1>4. CASE op.via = "exec"
  <2>1. op = StatsOp /\ op \notin Strict /\ op # DetectSetup
    BY <1>4, OpsKinds
  <2>2. r = StatsResult(a) /\ a.body \in Sandboxes
    BY <1>4 DEF Result, Answers
  <2>3. a.end = "exit 0" /\ CoreLines(Script(a.body)) /\ r = Found(Usage(Script(a.body)))
    <3>1. Failed("stats").err # "nil"
      BY DEF Failed
    <3> QED
      BY <2>2, <3>1 DEF StatsResult
  <2>4. r.got = Usage(Script(a.body))
    <3>1. Found(Usage(Script(a.body))).got = Usage(Script(a.body))
      BY DEF Found
    <3> QED
      BY <2>3, <3>1
  <2>5. SaysTruth(r.got, a.body)
    BY <2>2, <2>3, <2>4, UsageIsTrue
  <2>6. NilTells(op, a, r)
    BY <2>1, <2>3, <2>5, Zenon DEF NilTells
  <2> QED
    BY <2>6
<1> QED
  BY <1>0, <1>2, <1>3, <1>4 DEF OpShape

Told == callPc = "done" /\ ret.err = "nil" => NilTells(call.op, answer, ret)

LEMMA ToldInit == Init => Told
  BY DEF Init, CallIdle, CallInit, Told

LEMMA ToldStep == CallInv /\ Told /\ [Next]_vars => Told'
<1> SUFFICES ASSUME CallInv, Told, [Next]_vars PROVE Told'
  OBVIOUS
<1>1. CASE Check
  BY <1>1 DEF Check, Told, Failed
<1>2. CASE Answer
  BY <1>2 DEF Answer, Told
<1>3. CASE CallReturns
  <2>1. /\ call.op \in Ops /\ answer \in Answers(call.op)
        /\ call' = call /\ answer' = answer /\ ret' = Result(call.op, answer)
    BY <1>3 DEF CallReturns, CallInv
  <2> QED
    BY <2>1, NilIsTold DEF Told
<1>4. CASE UNCHANGED callVars
  BY <1>4 DEF callVars, Told
<1> QED
  BY <1>1, <1>2, <1>3, <1>4 DEF Next, CallNext, vars

\* For every function, every report and every sandbox, a nil error invents
\* nothing: the question was asked and answered with success (Diagnose alone
\* believes a failed command's JSON object or null); what is returned is the set
\* of things meant, but for those of a report that changed its shape, of which
\* the strict functions lose nothing either; and Stats takes no line for another
\* and no counter for idle time that is busy.
THEOREM NothingIsInvented == Spec => []NothingInvented
<1>1. CallInv /\ Told => NothingInvented
  <2> SUFFICES ASSUME CallInv, Told, callPc = "done", ret.err = "nil" PROVE NothingInvented
    BY DEF NothingInvented, Returned
  <2>1. NilTells(call.op, answer, ret)
    BY DEF Told
  <2>2. asked = [by |-> TRUE, flags |-> call.opts]
    BY DEF CallInv
  <2>3. asked.by
    BY <2>2
  <2> QED
    BY <2>1, <2>3 DEF NilTells, NothingInvented, Succeeded
<1> QED
  BY CallInvInit, CallInvStep, ToldInit, ToldStep, <1>1, PTL DEF Spec
=============================================================================
