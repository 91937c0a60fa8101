------------------------------- MODULE MCVfs -------------------------------
(* Model-checking instance of Vfs.  What the next commands do depends on     *)
(* neither history variable, so TLC need not tell apart states that differ   *)
(* in them only; the action properties are checked on every step all the    *)
(* same.                                                                    *)
EXTENDS Vfs

KernelState == <<nodes, kids, cwd>>
=============================================================================
