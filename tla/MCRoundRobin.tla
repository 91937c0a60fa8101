---------------------------- MODULE MCRoundRobin ----------------------------
(* Model-checking instance of RoundRobin.                                   *)
EXTENDS RoundRobin
=============================================================================
