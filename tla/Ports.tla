------------------------------- MODULE Ports -------------------------------
(***************************************************************************)
(* Published ports of one sandbox (sandbox/ports.go, sandbox/portspec.go). *)
(* UnpublishPort parses a spec, lists what is published, keeps the keys    *)
(* the spec names and asks for their removal: two requests, between which  *)
(* other callers publish and unpublish.                                    *)
(*                                                                         *)
(* A spec is the text [[HOST_IP:]HOST_PORT:]SANDBOX_PORT[/PROTOCOL] cut at *)
(* its separators: proto and v6 are None when the text has no "/" and no   *)
(* "[", fields are the tokens between the colons that remain.              *)
(***************************************************************************)
EXTENDS Naturals, Sequences

CONSTANTS
    Number,     \* token -> the number it spells, 0 for none
    Addresses,  \* the tokens net.ParseIP accepts
    Letters,    \* the protocols of letters a to z alone
    PortSpecs,  \* what the caller may pass
    Mappings    \* the keys that may be published

None == "none"

ASSUME PortsAssumption ==
    /\ \A s \in PortSpecs : s.fields \in Seq(DOMAIN Number) \ {<<>>}
    /\ None \notin Addresses \cup Letters

VARIABLES
    published,  \* daemon: the sandbox's published keys
    spec, portsPc,
    keys,       \* UnpublishPort: the listed keys the spec names
    portsResult,
    listed,     \* what was published when it was listed (observed)
    removed,    \* what the request removed (observed)
    others      \* what other callers changed meanwhile (observed)

portsVars == <<published, spec, portsPc, keys, portsResult, listed, removed, others>>

PortsIdle ==
    /\ published = {} /\ spec = None /\ portsPc = "idle" /\ portsResult = None
    /\ keys = {} /\ listed = {} /\ removed = {} /\ others = {}

PortsInit ==
    /\ published \in SUBSET Mappings
    /\ spec \in PortSpecs
    /\ portsPc = "parse" /\ portsResult = None
    /\ keys = {} /\ listed = {} /\ removed = {} /\ others = {}

Return(r) == portsPc' = "done" /\ portsResult' = r
Goto(l) == portsPc' = l /\ UNCHANGED portsResult

-----------------------------------------------------------------------------
(* The spec.                                                                *)

MaxPort == 65535
InRange(t) == Number[t] \in 1..MaxPort

\* A host port is the field before the last, an address the one before it.
parsePortSpec(s) ==
    LET n == Len(s.fields)
        ip == IF n = 3 THEN s.fields[1] ELSE s.v6
    IN  [ok |-> /\ s.proto # None => s.proto \in Letters
                /\ s.v6 # None => s.v6 \in Addresses /\ n < 3
                /\ n \in 1..3
                /\ n = 3 => s.fields[1] \in Addresses
                /\ \A i \in 1..n : i \in {n - 1, n} => InRange(s.fields[i])
                /\ ip # None => n > 1,
         HostIP |-> ip,
         HostPort |-> IF n = 1 THEN 0 ELSE Number[s.fields[n - 1]],
         SandboxPort |-> Number[s.fields[n]],
         Protocol |-> s.proto]

\* The keys among the published ones that agree with each field given.
Wanted_anyAddress(want, ps) ==      \* mutant: the address is not compared
    {p \in ps : /\ p.SandboxPort = want.SandboxPort
                /\ want.Protocol # None => p.Protocol = want.Protocol
                /\ want.HostPort # 0 => p.HostPort = want.HostPort}
Wanted(want, ps) ==
    {p \in ps : /\ p.SandboxPort = want.SandboxPort
                /\ want.Protocol # None => p.Protocol = want.Protocol
                /\ want.HostPort # 0 => p.HostPort = want.HostPort
                /\ want.HostIP # None => p.HostIP = want.HostIP}

-----------------------------------------------------------------------------
(* UnpublishPort.                                                           *)

ParseSpec ==
    /\ portsPc = "parse"
    /\ IF parsePortSpec(spec).ok THEN Goto("list") ELSE Return("badSpec")
    /\ UNCHANGED <<published, spec, keys, listed, removed, others>>

\* Ports; an answer that lost its body lists nothing.
ListPorts ==
    /\ portsPc = "list"
    /\ \/ \E ps \in {published, {}} :
            /\ listed' = ps
            /\ keys' = Wanted(parsePortSpec(spec), ps)
            /\ IF keys' = {} THEN Return("noMatch") ELSE Goto("post")
       \/ Return("error") /\ UNCHANGED <<keys, listed>>
    /\ UNCHANGED <<published, spec, removed, others>>

\* The daemon removes the keys (external); it may fail over one that is gone,
\* or after some of them, and the answer may be lost.
PostKeys ==
    /\ portsPc = "post"
    /\ \E ks \in SUBSET keys :
        /\ removed' = ks \cap published
        /\ published' = published \ ks
        /\ Return("error") \/ (ks = keys /\ Return("nil"))
    /\ UNCHANGED <<spec, keys, listed, others>>

-----------------------------------------------------------------------------
(* Other callers.  Bound: each key changes hands once.                      *)

Meanwhile == portsPc \in {"list", "post"}

PublishPort(p) ==
    /\ Meanwhile /\ p \notin published \cup others
    /\ published' = published \cup {p}
    /\ others' = others \cup {p}
    /\ UNCHANGED <<spec, portsPc, keys, portsResult, listed, removed>>

OthersUnpublish(p) ==
    /\ Meanwhile /\ p \in published \ others
    /\ published' = published \ {p}
    /\ others' = others \cup {p}
    /\ UNCHANGED <<spec, portsPc, keys, portsResult, listed, removed>>

PortsNext ==
    \/ ParseSpec \/ ListPorts \/ PostKeys
    \/ \E p \in Mappings : PublishPort(p) \/ OthersUnpublish(p)

-----------------------------------------------------------------------------
(* What it promises.                                                        *)

\* The texts that name a key, from the shortest to the one that gives it whole:
\* an address only with a host port, and bracketed or as a field of its own.
Spelled(t, n) == Number[t] = n
SaysPorts(f, p) ==
    /\ Spelled(f[Len(f)], p.SandboxPort) /\ p.SandboxPort \in 1..MaxPort
    /\ Len(f) = 2 => Spelled(f[1], p.HostPort) /\ p.HostPort \in 1..MaxPort
Names(s, p) ==
    /\ s.proto \in {None, p.Protocol}
    /\ \/ s.v6 = None /\ Len(s.fields) \in {1, 2} /\ SaysPorts(s.fields, p)
       \/ s.v6 = p.HostIP /\ Len(s.fields) = 2 /\ SaysPorts(s.fields, p)
       \/ /\ s.v6 = None /\ Len(s.fields) = 3
          /\ s.fields[1] = p.HostIP /\ SaysPorts(Tail(s.fields), p)

\* UnpublishPort takes away no key its spec does not name, whatever others do
\* between its two requests; on nil every listed key the spec names is gone,
\* unless another caller published it anew; and "no match" means that none of
\* the listed keys bears that name.
UnpublishExact ==
    /\ \A p \in removed : Names(spec, p)
    /\ portsResult = "nil" =>
        /\ \E p \in listed : Names(spec, p)
        /\ \A p \in listed : Names(spec, p) => p \notin published \/ p \in others
    /\ portsResult = "noMatch" => ~\E p \in listed : Names(spec, p)
=============================================================================
