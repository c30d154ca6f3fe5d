----------------------------- MODULE MCReports -----------------------------
(* Ports: one sandbox port published twice over and one on IPv6, specs of  *)
(* every form the grammar has and every kind it has not.  Answers: a       *)
(* report of up to two items; counters that stand still, run and go back.  *)
EXTENDS Reports, TLC

MCNumber == ("80" :> 80) @@ ("81" :> 81) @@ ("65536" :> 65536) @@ ("x" :> 0) @@ ("" :> 0)
            @@ ("1.1.1.1" :> 0)
MCAddresses == {"1.1.1.1", "::1"}

Key(ip, host, proto) == [HostIP |-> ip, HostPort |-> host, SandboxPort |-> 80, Protocol |-> proto]
MCMappings ==
    {Key("1.1.1.1", 80, "tcp4"), Key("1.1.1.1", 81, "tcp"), Key("::1", 81, "tcp"),
     [Key("::1", 80, "tcp") EXCEPT !.SandboxPort = 81]}

MCPortSpecs ==
    [proto : {None, "tcp", "tcp4", ""}, v6 : {None, "::1", "unclosed"},
     fields : {<<"80">>, <<"81", "80">>, <<"1.1.1.1", "81", "80">>}]
    \cup [proto : {None}, v6 : {None},
          fields : {<<"">>, <<"x">>, <<"65536">>, <<"", "80">>, <<"80", "81">>,
                    <<"x", "81", "80">>, <<"1.1.1.1", "", "80">>, <<"81", "81", "81", "80">>}]

MCSamples ==
    {<<1, 0, 0, 1>>, <<2, 0, 0, 4>>, <<2, 1, 0, 4, 1, 0, 1, 0, 5, 5>>,
     <<2, 1, 0, 4, 0, 0, 1, 0, 9, 5>>, <<1, 0, 0>>}
MCSandboxes ==
    [nproc : {2}, total : {8}, avail : {3, 9}, first : MCSamples, second : MCSamples,
     uptime : {7}, df : {<<20, 5>>, <<20>>},
     prints : SUBSET {"nproc", "MemTotal", "MemAvailable", "first", "second", "uptime", "df"}]
=============================================================================
