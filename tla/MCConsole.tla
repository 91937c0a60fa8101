----------------------------- MODULE MCConsole -----------------------------
(* Model-checking instance of Console.                                      *)
EXTENDS Console
=============================================================================
