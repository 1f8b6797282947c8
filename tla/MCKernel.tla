------------------------------ MODULE MCKernel ------------------------------
(***************************************************************************)
(* One plugin through three generations, every order of kernel calls.      *)
(***************************************************************************)
EXTENDS Kernel
=============================================================================
