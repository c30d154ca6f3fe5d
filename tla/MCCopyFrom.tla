----------------------------- MODULE MCCopyFrom -----------------------------
(* Sources with every kind of entry and mode, destinations with everything *)
(* that can be in their way; the caller is not the superuser.              *)
EXTENDS CopyFrom

a == <<"a">>
b == <<"a", "b">>
c == <<"a", "b", "c">>
f == <<"a", "f">>

MCSources ==
    {a :> File("new", {"w"}),
     (a :> Dir(All)) @@ (b :> File("new", All)) @@ (f :> Hard(b)),
     (a :> Dir({"x"})) @@ (b :> File("new", {})),
     (a :> Dir(All)) @@ (b :> Dir({})) @@ (c :> File("new", All)),
     (a :> Dir(All)) @@ (b :> Link(<<"f">>)) @@ (f :> File("new", {"x"})),
     (a :> Dir({"w"})) @@ (b :> Dir({"x"})) @@ (f :> Link(<<"/", "etc">>)),
     (a :> Dir(All)) @@ (f :> Link(<<"..", "..", "z">>)),
     (a :> Dir(All)) @@ (b :> Other) @@ (f :> File("new", All))}

here == <<>> :> Dir(All)
z == <<"z">>

MCDests ==
    {Absent,
     <<>> :> File("old", All),
     here,
     here @@ (z :> File("old", All)),
     here @@ (a :> File("old", {})),
     here @@ (a :> Link(z)) @@ (z :> File("old", All)),
     here @@ (a :> Link(z)) @@ (z :> Dir(All)) @@ (<<"z", "y">> :> File("old", All)),
     here @@ (a :> Link(<<"/", "etc">>)),
     here @@ (a :> Dir(All)) @@ (b :> Dir(All)) @@ (<<"a", "b", "y">> :> File("old", All)),
     here @@ (a :> Dir(All)) @@ (b :> Link(<<"..", "z">>)) @@ (z :> File("old", All)),
     here @@ (a :> Dir({"x"})) @@ (b :> Link(<<"..", "z">>)) @@ (z :> File("old", All))}
=============================================================================
