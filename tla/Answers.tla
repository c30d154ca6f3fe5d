------------------------------ MODULE Answers ------------------------------
(***************************************************************************)
(* The calls that are one question: check the mandatory arguments, ask the *)
(* CLI or the daemon once, classify its failure, decode its report.  Each  *)
(* function is a record: what it needs, the options it turns into flags,   *)
(* and how it reads the report.                                            *)
(*                                                                         *)
(* A report is a JSON text or not, seen by what decoders tell apart; items *)
(* is what whoever wrote it has to say (rows, names, a positive flag), in  *)
(* whatever shape he says it and whether or not it arrives.                *)
(* The CLI, the daemon and the sandbox are external.                       *)
(***************************************************************************)
EXTENDS Stats

CONSTANTS
    Items,
    Sandboxes   \* the sandboxes Stats may probe

ASSUME SandboxesAssumption ==
    \A s \in Sandboxes :
        /\ s.nproc \in Nat /\ s.total \in Nat /\ s.avail \in Nat
        /\ s.first \in Seq(Nat) /\ s.second \in Seq(Nat)

-----------------------------------------------------------------------------
(* The functions.                                                           *)

Op(name, via, needs, opts, flags, reads) ==
    [name |-> name, via |-> via, needs |-> needs, opts |-> opts, flags |-> flags, reads |-> reads]
Shell(name, needs, reads) == Op(name, "cli", needs, {}, {}, reads)
Rest(name, reads) == Op(name, "rest", {}, {}, {}, reads)

\* Packages mcp and secret.
addConfig == {"local", "skipAuth", "skipSSRFCheck", "clientID", "authServer", "workingDir", "scopes"}
addArgs == {"local", "skipAuth", "skipSSRFCheck", "clientID", "authServer", "workingDir", "scopes"}
mcpList == Shell("mcp.List", {}, "keyed")
mcpInspect == Shell("mcp.Inspect", {"name"}, "keyed")
AddRemote == Op("mcp.AddRemote", "cli", {"name", "url"}, addConfig, addArgs, "nothing")
AddLocal == Op("mcp.AddLocal", "cli", {"name", "command"}, addConfig, addArgs, "nothing")
mcpRemove == Shell("mcp.Remove", {"name"}, "nothing")
mcpLoad == Shell("mcp.Load", {"name", "sandbox"}, "nothing")
AuthStatus == Shell("mcp.AuthStatus", {}, "array")
AuthRemove == Shell("mcp.AuthRemove", {"name"}, "array")
SecretListRaw == Shell("secret.ListRaw", {}, "text")
SecretRemove == Shell("secret.Remove", {}, "nothing")
RemoveCustom == Shell("secret.RemoveCustom", {}, "nothing")

\* Package kit.
signConfig == {"key", "identityToken", "tokenFile", "noTlogUpload"}
signArgs == {"key", "tokenFile", "identityToken", "noTlogUpload"}
verifyConfig == {"key", "identity", "identityRegexp", "issuer", "issuerRegexp", "ignoreTlog"}
verifyArgs == {"key", "identity", "identityRegexp", "issuer", "issuerRegexp", "ignoreTlog"}
kitInspect == Shell("kit.Inspect", {}, "object")
Validate == Shell("kit.Validate", {}, "nothing")
Pack == Shell("kit.Pack", {}, "nothing")
Push == Shell("kit.Push", {}, "nothing")
PushSigned == Op("kit.Push", "cli", {}, signConfig, signArgs, "nothing")
Pull == Shell("kit.Pull", {}, "nothing")
Sign == Op("kit.Sign", "cli", {}, signConfig, signArgs, "nothing")
Verify == Op("kit.Verify", "cli", {}, verifyConfig, verifyArgs, "nothing")
Provenance == Op("kit.Provenance", "cli", {}, verifyConfig, verifyArgs, "text")

\* Packages settings, ssh and skillstore.
settingsList == Shell("settings.List", {}, "array")
ListAll == Shell("settings.ListAll", {}, "array")
settingsGet == Shell("settings.Get", {}, "object")
settingsSet == Shell("settings.Set", {}, "nothing")
Unset == Shell("settings.Unset", {}, "nothing")
sshEnabled == Shell("ssh.Enabled", {}, "flag")
sshSetup == Op("ssh.Setup", "cli", {}, {"alias"}, {"alias"}, "nothing")
RemoveSetup == Shell("ssh.RemoveSetup", {}, "nothing")
skillsImport == Op("skillstore.Import", "cli", {}, {"dryRun"}, {"dryRun"}, "nothing")
skillsList == Shell("skillstore.List", {}, "keyed")

\* Packages policy and template.
SetDefault == Shell("policy.SetDefault", {}, "nothing")
Allow == Op("policy.Allow", "cli", {}, {"scope"}, {"scope"}, "nothing")
Deny == Op("policy.Deny", "cli", {}, {"scope"}, {"scope"}, "nothing")
RemoveRule == Op("policy.RemoveRule", "cli", {}, {"scope"}, {"scope"}, "nothing")
Reset == Shell("policy.Reset", {}, "nothing")
policyListRaw == Op("policy.ListRaw", "cli", {}, {"scope"}, {"scope"}, "text")
Profiles == Shell("policy.Profiles", {}, "text")
InspectRaw == Shell("policy.InspectRaw", {"selector"}, "text")
policyList == Op("policy.List", "rest", {}, {"scope"}, {"scope"}, "object")
ProfileNames == Rest("policy.ProfileNames", "object")
policyLog == Rest("policy.Log", "object")
policyCheck == Op("policy.Check", "rest", {"target"}, {"sandbox"}, {"sandbox"}, "object")
templateList == Rest("template.List", "array")
templateInspect == Rest("template.Inspect", "object")
templateRemove == Rest("template.Remove", "nothing")
templateLoad == Rest("template.Load", "nothing")

\* Packages sandbox and exec.
CopyTo == Op("sandbox.CopyTo", "cli", {}, {"followSymlinks"}, {"followSymlinks"}, "nothing")
AddKit == Shell("sandbox.AddKit", {}, "nothing")
SaveTemplate == Op("sandbox.SaveTemplate", "cli", {}, {"export"}, {"export"}, "nothing")
Summary == Shell("sandbox.Summary", {}, "object")
Kits == Rest("sandbox.Kits", "label")
Prune == Op("sandbox.Prune", "cli", {}, {"since"}, {"since"}, "lines")
PruneDryRun == Op("sandbox.Prune", "cli", {}, {"since"}, {"since"}, "keyed")
StatsOp == Op("exec.Stats", "exec", {}, {}, {}, "probe")

\* Package client.
MCPGatewayMode == Rest("client.MCPGatewayMode", "object")
DaemonHealth == Rest("client.DaemonHealth", "object")
Diagnostics == Rest("client.Diagnostics", "json")
Login == Shell("client.Login", {"username", "token"}, "nothing")
Logout == Shell("client.Logout", {}, "nothing")
Diagnose == Shell("client.Diagnose", {}, "diagnosis")
DaemonLogPath == Shell("client.DaemonLogPath", {}, "keyed")
DetectSetup == Shell("client.DetectSetup", {}, "rows")

Ops ==
    {mcpList, mcpInspect, AddRemote, AddLocal, mcpRemove, mcpLoad, AuthStatus, AuthRemove,
     SecretListRaw, SecretRemove, RemoveCustom,
     kitInspect, Validate, Pack, Push, PushSigned, Pull, Sign, Verify, Provenance,
     settingsList, ListAll, settingsGet, settingsSet, Unset, sshEnabled, sshSetup, RemoveSetup,
     skillsImport, skillsList,
     SetDefault, Allow, Deny, RemoveRule, Reset, policyListRaw, Profiles, InspectRaw,
     policyList, ProfileNames, policyLog, policyCheck,
     templateList, templateInspect, templateRemove, templateLoad,
     CopyTo, AddKit, SaveTemplate, Summary, Kits, Prune, PruneDryRun, StatsOp,
     MCPGatewayMode, DaemonHealth, Diagnostics, Login, Logout, Diagnose, DaemonLogPath, DetectSetup}

-----------------------------------------------------------------------------
(* Reports and what the decoders make of them.                              *)

Found(x) == [err |-> "nil", got |-> x]
Failed(e) == [err |-> e, got |-> {}]

\* A JSON object has the key that the decoder knows ("there"), or not (absent:
\* left out, or renamed), or there is null or a value of another type under it;
\* "text" is no JSON, or a JSON text cut short; of "empty" nothing arrived.
Texts ==
    [kind : {"null"}, key : {"absent"}, items : {{}}]
    \cup [kind : {"object"}, key : {"null"}, items : {{}}]
    \cup [kind : {"object"}, key : {"there", "absent", "wrong"}, items : SUBSET Items]
    \cup [kind : {"empty", "array", "text"}, key : {"absent"}, items : SUBSET Items]

\* encoding/json into a struct: what is absent or null stays zero.
Present(b) == b.kind = "object" /\ b.key = "there"
Zero(b) == b.kind = "null" \/ (b.kind = "object" /\ b.key \in {"absent", "null"})

Keyed_zero(b) ==        \* mutant: a slice in place of a pointer to one
    IF Present(b) THEN Found(b.items) ELSE IF Zero(b) THEN Found({}) ELSE Failed("format")
Keyed(b) == IF Present(b) THEN Found(b.items) ELSE Failed("format")
Object(b) == IF Present(b) THEN Found(b.items) ELSE IF Zero(b) THEN Found({}) ELSE Failed("format")
Array(b) == IF b.kind = "array" THEN Found(b.items)
            ELSE IF b.kind = "null" THEN Found({}) ELSE Failed("format")

\* The text as it is.
Raw(b) == Found(IF b.kind = "empty" THEN {} ELSE b.items)

\* feature.ssh of a Setting: its value is decoded once more, and must be there (a
\* Setting without one reads as null does); the key is the one inside it.
Flag(b) == IF Present(b) THEN Found(b.items)
           ELSE IF b.kind = "object" /\ b.key \in {"absent", "null"} THEN Found({})
           ELSE Failed("format")

pruneRemoved(b) == Found(IF b.kind = "text" THEN b.items ELSE {})
parseSetupReport(b) == IF b.kind = "text" /\ b.items # {} THEN Found(b.items) ELSE Failed("format")

Decoded(reads, b) ==
    CASE reads = "nothing" -> Found({})
      [] reads = "text" -> Raw(b)
      [] reads = "json" -> IF b.kind = "text" THEN Failed("format") ELSE Raw(b)
      [] reads = "keyed" -> Keyed(b)
      [] reads \in {"object", "label", "diagnosis"} -> Object(b)
      [] reads = "array" -> Array(b)
      [] reads = "flag" -> Flag(b)
      [] reads = "lines" -> pruneRemoved(b)
      [] reads = "rows" -> parseSetupReport(b)

-----------------------------------------------------------------------------
(* Answers: how the command or request ended, the marks on stderr, and the  *)
(* report.                                                                  *)

Blank == [kind |-> "empty", key |-> "absent", items |-> {}]
Reports(op) == IF op.reads = "nothing" THEN {Blank} ELSE Texts

Answers(op) ==
    CASE op.via = "rest" ->
            [end : {"2xx"}, said : {"none"}, body : Reports(op)]
            \cup [end : {"404", "409", "500", "lost"}, said : {"none"}, body : {Blank}]
      [] op.via = "cli" ->
            [end : {"exit 0", "lost"}, said : {"none"}, body : Reports(op)]
            \cup [end : {"exit 1"}, body : Reports(op),
                  said : {"none", "INVALID:", "warning, INVALID:", "verification failed"}]
      [] op.via = "exec" ->
            [end : {"exit 0", "exit 1", "lost"}, said : {"none"}, body : Sandboxes]

classifyVerify_always(op, a) ==     \* mutant: any failure is a bad signature
    IF op \in {Verify, Provenance} THEN "signatureInvalid" ELSE "cli"
classifyVerify(op, a) ==
    IF op \in {Verify, Provenance} /\ a.said = "verification failed"
    THEN "signatureInvalid" ELSE "cli"

\* The mark counts at the beginning of stderr only.
Classified(op, a) ==
    IF op = Validate /\ a.said = "INVALID:" THEN "kitRejected" ELSE classifyVerify(op, a)

CliResult(op, a) ==
    LET report == Decoded(op.reads, a.body)
        believed == op = Diagnose /\ report.err = "nil"
    IN  IF a.end = "exit 0" \/ believed THEN report ELSE Failed(Classified(op, a))

mapHTTPError(end) ==
    CASE end = "404" -> "notFound" [] end = "409" -> "exists"
      [] end = "500" -> "api" [] end = "lost" -> "transport"

\* An empty body is a zero value and no error; only two functions of package
\* policy, and the label of Kits, tell a report out of shape from another error.
DoJSON(op, b) ==
    LET report == Decoded(op.reads, b)
        told == op \in {policyList, ProfileNames} \/ (op = Kits /\ b.kind = "object")
    IN  IF b.kind = "empty" \/ op.reads = "nothing" THEN Found({})
        ELSE IF report.err = "format" /\ ~told THEN Failed("decode") ELSE report

RestResult(op, a) == IF a.end = "2xx" THEN DoJSON(op, a.body) ELSE Failed(mapHTTPError(a.end))

StatsResult(a) ==
    IF a.end = "exit 0" /\ CoreLines(Script(a.body)) THEN Found(Usage(Script(a.body)))
    ELSE Failed("stats")

Result(op, a) ==
    CASE op.via = "cli" -> CliResult(op, a)
      [] op.via = "rest" -> RestResult(op, a)
      [] op.via = "exec" -> StatsResult(a)

-----------------------------------------------------------------------------
(* One call.                                                                *)

VARIABLES
    call,       \* the function, the mandatory arguments and options given
    callPc,
    asked,      \* whether somebody was asked, and with which flags
    answer,     \* what it said
    ret

callVars == <<call, callPc, asked, answer, ret>>

NotAsked == [by |-> FALSE, flags |-> {}]
NoAnswer == [end |-> "none", said |-> "none", body |-> Blank]

CallIdle ==
    /\ call = [op |-> Logout, given |-> {}, opts |-> {}] /\ callPc = "idle"
    /\ asked = NotAsked /\ answer = NoAnswer /\ ret = Failed("none")

CallInit ==
    /\ \E op \in Ops : \E given \in SUBSET op.needs, opts \in SUBSET op.opts :
            call = [op |-> op, given |-> given, opts |-> opts]
    /\ callPc = "check"
    /\ asked = NotAsked /\ answer = NoAnswer /\ ret = Failed("none")

Check ==
    /\ callPc = "check"
    /\ IF call.given # call.op.needs
       THEN ret' = Failed("refused") /\ callPc' = "done" /\ UNCHANGED asked
       ELSE \/ /\ call.op.via = "cli"       \* client.Runner finds no binary
               /\ ret' = Failed("noBinary") /\ callPc' = "done" /\ UNCHANGED asked
            \/ /\ asked' = [by |-> TRUE, flags |-> call.opts \cap call.op.flags]
               /\ callPc' = "asked" /\ UNCHANGED ret
    /\ UNCHANGED <<call, answer>>

Answer ==
    /\ callPc = "asked"
    /\ answer' \in Answers(call.op)
    /\ callPc' = "told"
    /\ UNCHANGED <<call, asked, ret>>

CallReturns ==
    /\ callPc = "told"
    /\ ret' = Result(call.op, answer)
    /\ callPc' = "done"
    /\ UNCHANGED <<call, asked, answer>>

CallNext == Check \/ Answer \/ CallReturns

-----------------------------------------------------------------------------
(* What the functions promise.                                              *)

Returned(e) == callPc = "done" /\ ret.err = e
Succeeded == answer.end \in {"exit 0", "2xx"}

\* The functions that never take a report out of shape for an empty one.
Strict == {mcpList, mcpInspect, skillsList, PruneDryRun, DaemonLogPath}

\* A report in which a decoder does not find what it was written for: nothing
\* of it arrived, an object lacks the key, or Prune prints no lines.
Reshaped(reads, b) ==
    \/ b.kind = "empty"
    \/ reads \in {"object", "label", "diagnosis", "flag"} /\ b.kind = "object" /\ b.key = "absent"
    \/ reads = "lines" /\ b.kind # "text"

\* A nil error invents nothing: the command ran and succeeded (Diagnose alone
\* believes one that failed, and then only a JSON object or null); nothing is
\* returned that was not meant, and all that was meant is, unless the report
\* has changed its shape; a strict function loses nothing even then; a report of
\* rows had one; and Stats takes no line for another.
NothingInvented ==
    Returned("nil") =>
        /\ asked.by
        /\ Succeeded \/ (call.op = Diagnose /\ answer.body.kind \in {"object", "null"})
        /\ call.op = StatsOp => SaysTruth(ret.got, answer.body)
        /\ call.op # StatsOp => ret.got \subseteq answer.body.items
        /\ call.op # StatsOp /\ call.op.reads # "nothing" /\ ret.got # answer.body.items =>
              call.op \notin Strict /\ Reshaped(call.op.reads, answer.body)
        /\ call.op = DetectSetup => ret.got # {}

\* An error a caller branches on is true, and told whenever it is: a refused
\* call asked nobody; a kit is called rejected, a signature invalid, exactly
\* when the CLI failed saying so; an answer is called out of shape only if the
\* call succeeded.  And who was asked was given every option of the caller, so
\* that a verification means the identity and issuer he demanded.
SentinelTrue ==
    callPc = "done" =>
        /\ asked.by <=> ret.err \notin {"refused", "noBinary"}
        /\ ret.err = "refused" <=> call.given # call.op.needs
        /\ ret.err = "kitRejected" <=>
              call.op = Validate /\ answer.end = "exit 1" /\ answer.said = "INVALID:"
        /\ ret.err = "signatureInvalid" <=>
              /\ call.op \in {Verify, Provenance}
              /\ answer.end = "exit 1" /\ answer.said = "verification failed"
        /\ ret.err \in {"format", "decode"} =>
              /\ Succeeded
              /\ call.op.reads \in {"keyed", "object", "flag", "label", "diagnosis"} =>
                    ~Present(answer.body)
        /\ asked.by => asked.flags = call.opts
=============================================================================
