---------------------------- MODULE ProcessLease ----------------------------
(***************************************************************************)
(* What the kernel promises about processes, without threads, channels or  *)
(* commands: each plugin has a lease that one generation holds at a time,  *)
(* a generation takes it at most once, and generations take it in order.   *)
(***************************************************************************)
EXTENDS Naturals

CONSTANTS Plugins, Generations

VARIABLES
  holders,  \* the generations that hold the plugin's lease
  used      \* the generations that have ever held it

LeaseInit ==
  /\ holders = [p \in Plugins |-> {}]
  /\ used = [p \in Plugins |-> {}]

Acquire(p, g) ==
  /\ holders[p] = {}
  /\ \A h \in used[p] : h < g
  /\ holders' = [holders EXCEPT ![p] = {g}]
  /\ used' = [used EXCEPT ![p] = @ \cup {g}]

Release(p, g) ==
  /\ holders[p] = {g}
  /\ holders' = [holders EXCEPT ![p] = {}]
  /\ UNCHANGED used

LeaseNext ==
  \E p \in Plugins, g \in Generations : Acquire(p, g) \/ Release(p, g)

LeaseSpec == LeaseInit /\ [][LeaseNext]_<<holders, used>>
=============================================================================
