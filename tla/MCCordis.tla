------------------------------ MODULE MCCordis ------------------------------
(***************************************************************************)
(* Two threads over a root and two plugin scopes, side by side or nested,  *)
(* with two effects.                                                       *)
(***************************************************************************)
EXTENDS CordisContext, TLC

ThreadSymmetry == Permutations(Threads)
=============================================================================
