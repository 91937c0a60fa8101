------------------------------ MODULE MCKernel ------------------------------
(* Model-checking instance of Kernel.                                       *)
EXTENDS Kernel
=============================================================================
