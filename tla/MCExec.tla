------------------------------- MODULE MCExec -------------------------------
(* One call of every kind; the instance is given in the configurations.    *)
EXTENDS Exec
=============================================================================
