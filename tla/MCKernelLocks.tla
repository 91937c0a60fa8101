--------------------------- MODULE MCKernelLocks ---------------------------
(* Model-checking instance of KernelLocks.                                  *)
EXTENDS KernelLocks
=============================================================================
