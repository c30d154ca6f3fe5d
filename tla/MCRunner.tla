------------------------------ MODULE MCRunner ------------------------------
(* Calls of the Runner, and OAuth flows among them: exit 0, exit 1 and a   *)
(* death by signal; a URL on one line, cut by the pipe, on an unfinished   *)
(* line, none, and two of them.                                            *)
EXTENDS OAuthFlow
MCCodes == {0, 1, -1}
MCTexts ==
    {<<<<"x", "n", "p", "q", "r">>, <<"r", "n", "x">>>>,
     <<<<"x", "p">>, <<"q", "r">>>>,
     <<<<"p", "q", "r", "n">>, <<"p", "q", "n">>>>,
     <<<<"p", "n", "q">>, <<"x", "n">>>>}
=============================================================================
