---------------------------- MODULE MCPluginHost ----------------------------
(***************************************************************************)
(* One plugin through two enable cycles with one automatic restart each.   *)
(***************************************************************************)
EXTENDS PluginHost
=============================================================================
