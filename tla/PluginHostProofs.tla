-------------------------- MODULE PluginHostProofs --------------------------
(***************************************************************************)
(* For every set of plugins, every bound on generations and every restart  *)
(* budget: the plugin host's routes are those of the current generation,   *)
(* its enable cycles stay within their budget, and every generation it     *)
(* starts has been paid for.                                               *)
(*                                                                         *)
(* The kernel's own invariant comes from KernelProofs: every step of the   *)
(* host is a step of the kernel or leaves the kernel alone.                *)
(***************************************************************************)
EXTENDS PluginHost, KernelProofs

\* Places of start_generation after it dropped the old connection.
Disconnected == {"sg.start", "sg.observe", "sg.accept", "sg.shake"}
Starts == {"sg"} \cup Disconnected
Stops == {"sc", "sc.stop", "sc.stopped", "sc.poll", "sc.look", "sc.fail", "sc.done"}
Recovers == {"rc", "rc.collect", "rc.next", "rc.judge", "rf.prune"}
Fails == {"fc", "fc.check", "fc.refresh", "fc.done"}

\* start_generation(p) has been entered and the kernel has not yet bumped the
\* generation.
StartDue(p) ==
  /\ id = p
  /\ at \in {"sg", "sg.start"} \/ (op = "start" /\ step \in {"drain", "reap", "act"})

\* Which public method may be at which place, and where kernel.start is called.
MethodInv ==
  /\ at = "idle" => op = "none"
  /\ at \in Stops => call \in {"enable", "disable", "refresh"}
  /\ at \in Recovers => call = "refresh"
  /\ op = "start" => at = "sg.observe" /\ target = id

\* While a generation is being started its plugin has no connection, and the
\* handshake is about the generation just started.
HandshakeInv ==
  /\ at \in Disconnected => conn[id] = 0
  /\ at \in {"sg.accept", "sg.shake"} => op = "none" /\ gen = generation[id]
  /\ at = "sg.shake" => peer \in Generations

\* A disabled retry controller, a slot and a method at work belong to a plugin
\* the kernel knows.
KnownInv ==
  /\ \A p \in slots : state[p] # "Unregistered"
  /\ \A p \in Plugins : ~retry[p].enabled => state[p] # "Unregistered"
  /\ at \in Starts \cup Stops \cup {"rc.judge"} \/ (at \in Fails /\ call # "invoke") =>
       state[id] # "Unregistered"

\* The failures still to be recovered are those of the current generations, and
\* not of the plugin being restarted.
TodoInv ==
  /\ at = "idle" \/ call # "refresh" => todo = {}
  /\ \A f \in todo :
       /\ f.gen = generation[f.id] /\ state[f.id] = "Failed"
       /\ at \in Starts => f.id # id

\* A start that is due has been paid for, and counts against the cycle.
PaidFor(p) ==
  /\ retry[p].enabled
  /\ call = "refresh" =>
       state[p] = "Failed" /\ retry[p].handled = generation[p] /\ retry[p].restarts > 0

BudgetInv ==
  \A p \in Plugins :
    /\ generation[p] <= base[p] + 1 + retry[p].restarts
    /\ StartDue(p) => PaidFor(p) /\ generation[p] < base[p] + 1 + retry[p].restarts

HostInv ==
  /\ HostTypeOK /\ RouteIsCurrent
  /\ MethodInv /\ HandshakeInv /\ KnownInv /\ TodoInv /\ BudgetInv

HostIInv == KernelIInv /\ HostInv

-----------------------------------------------------------------------------
(***************************************************************************)
(* The host and the kernel it calls.                                       *)
(***************************************************************************)
\* A failure to recover is named by a plugin and a generation.
LEMMA FailedNowTyped ==
  ASSUME HostTypeOK, KernelTypeOK PROVE FailedNow \subseteq Failures
  BY DEF FailedNow, Failures, Gens0, HostTypeOK, KernelTypeOK

\* Every step of the host is a step of the kernel or leaves the kernel alone.
LEMMA HostIsKernel ==
  ASSUME HostTypeOK, MethodInv, HostNext PROVE [KernelNext]_kernelVars
<1>1. id \in Plugins
  BY DEF HostTypeOK
<1>2. ASSUME NEW m \in Methods, CallEntered(m, id) PROVE KernelNext
  BY <1>1, <1>2 DEF KernelNext
<1>3. {"refresh", "start", "stop", "fail", "shutdown"} \subseteq Methods
  BY DEF Methods
<1>4. CASE Client
  <2>1. ASSUME NEW p \in Plugins, Launch(p) PROVE KernelNext
    BY <2>1 DEF Launch, KernelNext
  <2>2. ASSUME NEW p \in Plugins, Enable(p) \/ Disable(p) \/ InvokeAnswered(p) \/ InvokeFails(p)
        PROVE UNCHANGED kernelVars
    BY <2>2 DEF Enable, Disable, InvokeAnswered, InvokeFails, NoKernel, vars
  <2>3. Refresh \/ Shutdown => KernelNext
    BY <1>2, <1>3 DEF Refresh, Shutdown, CallKernel
  <2> QED
    BY <1>4, <2>1, <2>2, <2>3 DEF Client
<1>5. ASSUME StartSteps PROVE KernelNext \/ UNCHANGED kernelVars
  BY <1>2, <1>3, <1>5 DEF StartSteps, StartGeneration, StartKernel, StartFailed, StartErr,
       StartObserve, Accept, AcceptTimeout, ShakeOk, ShakeFails, CallKernel, NoKernel
<1>6. ASSUME FailSteps PROVE KernelNext \/ UNCHANGED kernelVars
  BY <1>2, <1>3, <1>6 DEF FailSteps, FailConnection, FailCurrent, FailRefresh, FailReturns,
       StartErr, CallKernel, NoKernel
<1>7. ASSUME StopSteps PROVE KernelNext \/ UNCHANGED kernelVars
  <2>1. StopReturns => UNCHANGED kernelVars
    BY DEF StopReturns, Here, MethodInv, Stops, NoKernel
  <2> QED
    BY <1>2, <1>3, <1>7, <2>1 DEF StopSteps, StopCurrent, StopKernel, StopPoll, StopAgain,
         StopDeadline, StopDeadlineRefresh, StopErr, CallKernel, NoKernel
<1>8. ASSUME RecoverSteps PROVE KernelNext \/ UNCHANGED kernelVars
  <2>1. \A f \in Failures : RecoverItem(f) => UNCHANGED kernelVars
    BY DEF RecoverItem, OnFailure, NoKernel
  <2> QED
    BY <1>2, <1>3, <1>8, <2>1 DEF RecoverSteps, RecoverPass, RecoverCollect,
         RecoverJudge, RecoverPassEnds, Prune, LeaveRecovery, CallKernel, NoKernel
<1>9. ASSUME ShutdownReturns PROVE UNCHANGED kernelVars
  BY <1>9 DEF ShutdownReturns, NoKernel
<1>10. KernelStep \/ Environment => KernelNext
  BY DEF KernelNext
<1>11. ASSUME NEW p \in Plugins, NEW g \in Generations, ChildConnect(p, g)
       PROVE UNCHANGED kernelVars
  BY <1>11 DEF ChildConnect
<1> QED
  BY <1>4, <1>5, <1>6, <1>7, <1>8, <1>9, <1>10, <1>11 DEF HostNext, HostStep, Processes

\* What the host can see of a step inside the kernel: a method in progress only
\* gets further or returns, start bumps the generation of its plugin once, a
\* failed generation stays failed, and no slot is ever forgotten.
KernelKeeps ==
  /\ target' = target /\ op' \in {op, "none"}
  /\ op' = "start" /\ step' \in {"drain", "reap", "act"} =>
       op = "start" /\ step \in {"drain", "reap", "act"} /\ generation' = generation
  /\ generation' = generation \/
       (op = "start" /\ step = "act" /\
          generation' = [generation EXCEPT ![target] = @ + 1])
  /\ \A p \in Plugins :
       /\ state[p] # "Unregistered" => state'[p] # "Unregistered"
       /\ state[p] = "Failed" /\ generation'[p] = generation[p] => state'[p] = "Failed"

\* An event of a failed generation leaves it failed.
LEMMA DrainKeepsFailed ==
  ASSUME KernelIInv, DrainEvent
  PROVE  \A p \in Plugins :
           /\ state[p] # "Unregistered" => state'[p] # "Unregistered"
           /\ state[p] = "Failed" => state'[p] = "Failed"
<1> DEFINE e == Head(events)
<1>1. events # <<>> /\ ApplyEvent(e)
  BY DEF DrainEvent
<1>2. e = events[1] /\ 1 \in 1 .. Len(events) /\ e \in Events
  BY <1>1, EventTyped DEF KernelIInv, KernelTypeOK
<1>3. EventOK(e)
  BY <1>2 DEF KernelIInv, EventInv
<1> HIDE DEF e
<1>4. e.id \in Plugins /\ e.state \in EventStates
  BY <1>2 DEF Events
<1>5. state[e.id] = "Failed" /\ ~forced[e.id] => e.gen # generation[e.id]
  BY <1>3, <1>4 DEF EventOK, Terminal
<1> QED
  BY <1>1, <1>4, <1>5 DEF ApplyEvent, KernelIInv, KernelTypeOK, EventStates

\* Every step inside a kernel method, and every step of a supervisor or a
\* process, is such a step.
LEMMA KernelStepKeeps ==
  ASSUME KernelIInv, KernelStep PROVE KernelKeeps
<1> USE DEF KernelKeeps, KernelIInv
<1>1. CASE DrainEvent
  BY <1>1, DrainKeepsFailed DEF DrainEvent, callVars
<1>2. CASE DrainDone \/ Reap
  BY <1>2 DEF DrainDone, Reap, Goto, Return, slotVars
<1>3. CASE StartSlot
  BY <1>3 DEF StartSlot, Goto, KernelTypeOK
<1>4. CASE StartRefused \/ StartJoin \/ StartSpawned
  BY <1>4 DEF StartRefused, StartJoin, StartSpawned, Goto, Return, slotVars
<1>5. CASE StartNotSpawned \/ FailUnknown \/ FailSlot
  BY <1>5 DEF StartNotSpawned, FailUnknown, FailSlot, Return, slotVars, KernelTypeOK
<1>6. CASE StopInactive \/ StopActive
  BY <1>6 DEF StopInactive, StopActive, Return, KernelTypeOK, Active
<1>7. CASE ShutdownSignal \/ ShutdownJoin \/ ShutdownClose
  BY <1>7 DEF ShutdownSignal, ShutdownJoin, ShutdownClose, Goto, Return, KernelTypeOK,
       MustSignal, Active, SlotInv, SlotPart
<1> QED
  BY <1>1, <1>2, <1>3, <1>4, <1>5, <1>6, <1>7 DEF KernelStep

LEMMA EnvironmentKeeps ==
  ASSUME Environment PROVE KernelKeeps
<1>1. UNCHANGED <<slotVars, callVars>>
  BY DEF Environment, Supervisor, SupSpawn, SupSpawnError, SupAnnounce, SupWait, SupPoll,
    SupPollError, SupTerminate, SupReport, SupReturn, ChildExit
<1> QED
  BY <1>1 DEF KernelKeeps, slotVars, callVars

-----------------------------------------------------------------------------
(***************************************************************************)
(* What each step of the host preserves.                                   *)
(***************************************************************************)
\* What the retry controller decides about a failure, and what it keeps count of.
LEMMA RetryFacts ==
  ASSUME NEW r \in RetryStates, NEW g \in Gens0
  PROVE  /\ FreshRetry \in RetryStates
         /\ DisableRetry(r) \in RetryStates
         /\ DisableRetry(r).restarts = r.restarts
         /\ Observe(r, g) \in RetryStates
         /\ Observe(r, g).restarts = r.restarts
         /\ Observe(r, g).enabled = r.enabled
         /\ OnFailure(r, g).next \in RetryStates
         /\ OnFailure(r, g).action \in {"None", "Restart", "Disable"}
         /\ OnFailure(r, g).action = "Restart" =>
              /\ OnFailure(r, g).next.enabled
              /\ OnFailure(r, g).next.handled = g
              /\ OnFailure(r, g).next.restarts = r.restarts + 1
         /\ OnFailure(r, g).action # "Restart" =>
              OnFailure(r, g).next.restarts = r.restarts
         /\ OnFailure(r, g).action = "None" =>
              OnFailure(r, g).next.enabled = r.enabled
<1>1. 0 \in Gens0 /\ 0 \in 0 .. MaxRestarts
  BY RestartAssumption, GenerationAssumption DEF Gens0
<1>2. r.restarts \in 0 .. MaxRestarts /\ (r.restarts < MaxRestarts => r.restarts + 1 \in 0 .. MaxRestarts)
  BY RestartAssumption DEF RetryStates
<1>3. FreshRetry \in RetryStates
  BY <1>1 DEF FreshRetry, RetryStates
<1>4. DisableRetry(r) \in RetryStates
  BY <1>1 DEF DisableRetry, RetryStates
<1>5. DisableRetry(r).restarts = r.restarts
  BY DEF DisableRetry, RetryStates
<1>6. Observe(r, g) \in RetryStates
  BY <1>1 DEF Observe, RetryStates
<1>7. Observe(r, g).restarts = r.restarts /\ Observe(r, g).enabled = r.enabled
  BY DEF Observe, RetryStates
<1>8. CASE ~Accepts(r, g) \/ r.handled = g
  <2>1. OnFailure(r, g) = [action |-> "None", next |-> r]
    BY <1>8 DEF OnFailure
  <2> QED
    BY <1>3, <1>4, <1>5, <1>6, <1>7, <2>1
<1>9. CASE ~(~Accepts(r, g) \/ r.handled = g) /\ r.restarts < MaxRestarts
  <2> DEFINE n == [r EXCEPT !.handled = g, !.restarts = @ + 1]
  <2>1. OnFailure(r, g) = [action |-> "Restart", next |-> n]
    BY <1>9 DEF OnFailure
  <2>2. n \in RetryStates
    BY <1>2, <1>9 DEF RetryStates
  <2>3. n.enabled = r.enabled /\ n.handled = g /\ n.restarts = r.restarts + 1
    BY DEF RetryStates
  <2>4. r.enabled
    BY <1>9 DEF Accepts
  <2>5. n.enabled
    BY <2>3, <2>4
  <2> HIDE DEF n
  <2>6. OnFailure(r, g).action = "Restart" /\ OnFailure(r, g).next = n
    BY <2>1
  <2> QED
    BY <1>3, <1>4, <1>5, <1>6, <1>7, <2>2, <2>3, <2>5, <2>6
<1>10. CASE ~(~Accepts(r, g) \/ r.handled = g) /\ ~(r.restarts < MaxRestarts)
  <2> DEFINE n == [r EXCEPT !.handled = g, !.enabled = FALSE]
  <2>1. OnFailure(r, g) = [action |-> "Disable", next |-> n]
    BY <1>10 DEF OnFailure
  <2>2. n \in RetryStates
    BY DEF RetryStates
  <2>3. n.restarts = r.restarts
    BY DEF RetryStates
  <2> HIDE DEF n
  <2> QED
    BY <1>3, <1>4, <1>5, <1>6, <1>7, <2>1, <2>2, <2>3
<1> QED
  BY <1>8, <1>9, <1>10

\* The host's type invariant, by the parts a step usually changes together.
TypedPlace == call \in PublicMethods \cup {"none"} /\ at \in Places /\ id \in Plugins
TypedRoutes == /\ conn \in [Plugins -> Gens0] /\ session \in [Plugins -> Gens0]
               /\ catalog \in SUBSET Plugins
TypedRetry == retry \in [Plugins -> RetryStates]
TypedLocals == /\ gen \in Gens0 /\ peer \in Gens0
               /\ todo \in SUBSET Failures /\ item \in Failures
               /\ progressed \in BOOLEAN /\ pass \in 0 .. MaxRestarts
TypedRest == /\ slots \in SUBSET Plugins /\ base \in [Plugins -> Gens0]
             /\ backlog \in [Plugins -> Seq(Generations)]
             /\ connected \in [Plugins -> SUBSET Generations]

LEMMA HostTypeParts ==
  HostTypeOK <=> TypedPlace /\ TypedRoutes /\ TypedRetry /\ TypedLocals /\ TypedRest
BY DEF HostTypeOK, TypedPlace, TypedRoutes, TypedRetry, TypedLocals, TypedRest

\* A detached plugin has neither connection nor routes, and no other loses its own.
LEMMA DetachFacts ==
  ASSUME HostTypeOK, NEW p \in Plugins, Detach(p)
  PROVE  /\ TypedRoutes' /\ conn'[p] = 0
         /\ \A q \in Plugins : q # p => /\ conn'[q] = conn[q] /\ session'[q] = session[q]
                                        /\ q \in catalog' <=> q \in catalog
         /\ p \notin catalog'
         /\ RouteIsCurrent /\ generation' = generation => RouteIsCurrent'
<1> USE DEF HostTypeOK
<1>1. 0 \in Gens0
  BY GenerationAssumption DEF Gens0
<1>2. TypedRoutes'
  BY <1>1 DEF Detach, TypedRoutes
<1>3. /\ conn'[p] = 0 /\ p \notin catalog'
      /\ \A q \in Plugins : q # p => /\ conn'[q] = conn[q] /\ session'[q] = session[q]
                                     /\ q \in catalog' <=> q \in catalog
  BY DEF Detach
<1>4. RouteIsCurrent /\ generation' = generation => RouteIsCurrent'
  BY <1>3 DEF RouteIsCurrent
<1> QED
  BY <1>2, <1>3, <1>4

\* A method that returns leaves nothing behind in the host's locals.
LEMMA DoneFacts ==
  ASSUME HostTypeOK, Done, at' = "idle"
  PROVE  /\ TypedPlace' /\ TypedLocals'
         /\ id' = id /\ call' = "none" /\ todo' = {}
<1>1. 0 \in Gens0 /\ 0 \in 0 .. MaxRestarts /\ id \in Plugins
  BY GenerationAssumption, RestartAssumption DEF Gens0, HostTypeOK
<1>2. [id |-> id, gen |-> 0] \in Failures
  BY <1>1 DEF Failures
<1> QED
  BY <1>1, <1>2 DEF Done, TypedPlace, TypedLocals, Places

\* No start is due after the step, and no controller lost a restart it counted.
LEMMA BudgetKept ==
  ASSUME BudgetInv, UNCHANGED <<generation, base>>,
         \A q \in Plugins : retry'[q].restarts = retry[q].restarts,
         \A q \in Plugins : ~StartDue(q)'
  PROVE  BudgetInv'
BY DEF BudgetInv

\* A controller that is disabled keeps the restarts it counted.
LEMMA DisableRetryFacts ==
  ASSUME HostTypeOK, NEW p \in Plugins, retry' = [retry EXCEPT ![p] = DisableRetry(@)]
  PROVE  /\ TypedRetry'
         /\ \A q \in Plugins : /\ retry'[q].restarts = retry[q].restarts
                               /\ q # p => retry'[q] = retry[q]
<1>1. \A q \in Plugins : retry[q] \in RetryStates
  BY DEF HostTypeOK
<1>2. 0 \in Gens0
  BY GenerationAssumption DEF Gens0
<1>3. DisableRetry(retry[p]) \in RetryStates /\ DisableRetry(retry[p]).restarts = retry[p].restarts
  BY <1>1, <1>2, RetryFacts
<1>4. retry' = [retry EXCEPT ![p] = DisableRetry(retry[p])]
  OBVIOUS
<1>5. retry'[p] = DisableRetry(retry[p]) /\ \A q \in Plugins : q # p => retry'[q] = retry[q]
  BY <1>4 DEF HostTypeOK
<1>6. TypedRetry'
  BY <1>3, <1>4 DEF TypedRetry, HostTypeOK
<1> QED
  BY <1>3, <1>5, <1>6

\* Giving up a start counts nothing and starts nothing.
LEMMA StartErrFacts ==
  ASSUME HostIInv, StartErr, op = "none", at \in {"sg.observe", "fc.done"}
  PROVE  /\ TypedRetry'
         /\ \A q \in Plugins : /\ retry'[q].restarts = retry[q].restarts
                               /\ q # id => retry'[q] = retry[q]
         /\ generation' = generation /\ state' = state /\ id' = id
         /\ \A q \in Plugins : ~StartDue(q)'
<1>0. HostTypeOK /\ id \in Plugins
  BY DEF HostIInv, HostInv, HostTypeOK
<1>1. CASE call = "refresh"
  BY <1>0, <1>1 DEF StartErr, CallKernel, CallEntered, locals, slotVars, Stay, StartDue, TypedRetry, HostTypeOK
<1>2. CASE call # "refresh"
  <2>1. retry' = [retry EXCEPT ![id] = DisableRetry(@)] /\ NoKernel("idle")
    BY <1>2 DEF StartErr
  <2>2. generation' = generation /\ state' = state /\ op' = "none" /\ at' = "idle" /\ id' = id
    BY <1>2, <2>1 DEF StartErr, Done, NoKernel, kernelVars, slotVars, callVars
  <2> QED
    BY <1>0, <2>1, <2>2, DisableRetryFacts DEF StartDue
<1> QED
  BY <1>1, <1>2

\* Launch registers the plugin and heads for its first generation.
LEMMA LaunchKeepsHost ==
  ASSUME NEW p \in Plugins, HostIInv, Launch(p)
  PROVE  HostInv'
<1> USE DEF HostIInv, HostInv
<1>0. /\ generation[p] = 0 /\ base[p] \in Nat /\ retry[p].restarts \in Nat /\ retry[p].enabled
      /\ generation' = generation /\ op' = "none" /\ at' = "sg" /\ id' = p /\ call' = "launch"
      /\ state' = [state EXCEPT ![p] = "Registered"]
  BY RestartAssumption, GenerationAssumption DEF Launch, Begin, Register, Return, KernelIInv,
     SlotInv, SlotPart, KnownInv, HostTypeOK, RetryStates, Gens0
<1>1. HostTypeOK'
  BY GenerationAssumption, RestartAssumption DEF Launch, Begin, Register, Return, loopVars,
     routeVars, HostTypeOK, RetryStates, Gens0, Failures, Places, PublicMethods, Generations
<1>2. RouteIsCurrent'
  BY DEF Launch, Begin, Register, Return, loopVars, routeVars, RouteIsCurrent, HostTypeOK
<1>3. MethodInv'
  BY DEF Launch, Begin, Register, Return, loopVars, routeVars, MethodInv, Stops, Recovers,
     HostTypeOK
<1>4. HandshakeInv'
  BY DEF Launch, Begin, Register, Return, loopVars, routeVars, HandshakeInv, Disconnected,
     MethodInv, HostTypeOK
<1>5. KnownInv'
  <2>1. \A q \in Plugins : state[q] # "Unregistered" => state'[q] # "Unregistered"
    BY <1>0 DEF KernelIInv, KernelTypeOK
  <2>2. state'[p] # "Unregistered"
    BY <1>0 DEF KernelIInv, KernelTypeOK
  <2> QED
    BY <1>0, <2>1, <2>2 DEF KnownInv, Launch, HostTypeOK
<1>6. TodoInv'
  BY DEF Launch, Begin, Register, Return, loopVars, routeVars, TodoInv, Starts, Disconnected,
     HostTypeOK, MethodInv, Recovers
<1>7. BudgetInv'
  <2>1. \A q \in Plugins : generation'[q] <= base'[q] + 1 + retry'[q].restarts
    BY <1>0 DEF BudgetInv, Launch
  <2>2. ASSUME NEW q \in Plugins, StartDue(q)'
        PROVE  PaidFor(q)' /\ generation'[q] < base'[q] + 1 + retry'[q].restarts
    <3>1. q = p
      BY <1>0, <2>2 DEF StartDue
    <3> QED
      BY <1>0, <3>1 DEF PaidFor, Launch
  <2> QED
    BY <2>1, <2>2 DEF BudgetInv
<1> QED
  BY <1>1, <1>2, <1>3, <1>4, <1>5, <1>6, <1>7

\* Enable first stops what runs.
LEMMA EnableKeepsHost ==
  ASSUME NEW p \in Plugins, HostIInv, Enable(p)
  PROVE  HostInv'
<1> USE DEF HostIInv, HostInv
<1>1. HostTypeOK'
  BY GenerationAssumption, RestartAssumption DEF Enable, Begin, NoKernel, kernelVars, slotVars,
     callVars, loopVars, routeVars, HostTypeOK, RetryStates, Gens0, Failures, Places,
     PublicMethods, Generations
<1>2. RouteIsCurrent'
  BY DEF Enable, Begin, NoKernel, kernelVars, slotVars, callVars, loopVars, routeVars,
     RouteIsCurrent, HostTypeOK
<1>3. MethodInv'
  BY DEF Enable, Begin, NoKernel, kernelVars, slotVars, callVars, loopVars, routeVars,
     MethodInv, Stops, Recovers, HostTypeOK
<1>4. HandshakeInv'
  BY DEF Enable, Begin, NoKernel, kernelVars, slotVars, callVars, loopVars, routeVars,
     HandshakeInv, Disconnected, MethodInv, HostTypeOK
<1>5. KnownInv'
  BY DEF Enable, Begin, NoKernel, kernelVars, slotVars, callVars, loopVars, routeVars,
     KnownInv, Starts, Stops, Disconnected, Fails, HostTypeOK, MethodInv, Recovers
<1>6. TodoInv'
  BY DEF Enable, Begin, NoKernel, kernelVars, slotVars, callVars, loopVars, routeVars, TodoInv,
     Starts, Disconnected, HostTypeOK, MethodInv, Recovers
<1>7. BudgetInv'
  BY DEF Enable, Begin, NoKernel, kernelVars, slotVars, callVars, loopVars, routeVars,
     BudgetInv, StartDue, PaidFor, HostTypeOK, RetryStates, MethodInv
<1> QED
  BY <1>1, <1>2, <1>3, <1>4, <1>5, <1>6, <1>7

\* Disable ends the enable cycle.
LEMMA DisableKeepsHost ==
  ASSUME NEW p \in Plugins, HostIInv, Disable(p)
  PROVE  HostInv'
<1> USE DEF HostIInv, HostInv
<1>1. HostTypeOK'
  <2>1. TypedPlace'
    BY DoneFacts DEF Disable, NoKernel, Begin, loopVars, routeVars, HostTypeOK, TypedPlace,
       Places, PublicMethods
  <2>2. TypedRoutes'
    BY GenerationAssumption, DetachFacts DEF Disable, NoKernel, routeVars, HostTypeOK,
       TypedRoutes
  <2>3. TypedRetry'
    BY RetryFacts DEF Disable, HostTypeOK, TypedRetry
  <2>4. TypedLocals'
    BY DoneFacts, GenerationAssumption, RestartAssumption DEF Disable, NoKernel, loopVars,
       Gens0, HostTypeOK, TypedLocals
  <2>5. TypedRest'
    BY GenerationAssumption DEF Disable, HostTypeOK, TypedRest
  <2> QED
    BY <2>1, <2>2, <2>3, <2>4, <2>5
      DEF HostTypeOK, TypedPlace, TypedRoutes, TypedRetry, TypedLocals, TypedRest
<1>2. RouteIsCurrent'
  BY DEF Disable, Begin, NoKernel, kernelVars, slotVars, callVars, loopVars, routeVars,
     RouteIsCurrent, HostTypeOK
<1>3. MethodInv'
  BY DEF Disable, Begin, NoKernel, kernelVars, slotVars, callVars, loopVars, routeVars,
     MethodInv, Stops, Recovers, HostTypeOK
<1>4. HandshakeInv'
  BY DEF Disable, Begin, NoKernel, kernelVars, slotVars, callVars, loopVars, routeVars,
     HandshakeInv, Disconnected, MethodInv, HostTypeOK
<1>5. KnownInv'
  BY DEF Disable, Begin, NoKernel, kernelVars, slotVars, callVars, loopVars, routeVars,
     KnownInv, Starts, Stops, Disconnected, Fails, HostTypeOK, MethodInv, Recovers
<1>6. TodoInv'
  BY DEF Disable, Begin, NoKernel, kernelVars, slotVars, callVars, loopVars, routeVars,
     TodoInv, Starts, Disconnected, HostTypeOK, MethodInv, Recovers
<1>7. BudgetInv'
  <2>1. UNCHANGED <<generation, base>> /\ \A q \in Plugins : ~StartDue(q)'
    BY DEF Disable, StartDue, Begin, NoKernel, kernelVars, slotVars, callVars, loopVars
  <2>2. \A q \in Plugins : retry'[q].restarts = retry[q].restarts
    BY DisableRetryFacts DEF Disable
  <2> QED
    BY <2>1, <2>2, BudgetKept
<1> QED
  BY <1>1, <1>2, <1>3, <1>4, <1>5, <1>6, <1>7

\* Refresh enters the kernel's own refresh.
LEMMA RefreshKeepsHost ==
  ASSUME HostIInv, Refresh
  PROVE  HostInv'
<1> USE DEF HostIInv, HostInv
<1>1. HostTypeOK'
  <2>1. TypedPlace'
    BY DoneFacts DEF Refresh, CallKernel, Begin, routeVars, HostTypeOK, TypedPlace, Places,
       PublicMethods
  <2>2. TypedRoutes'
    BY GenerationAssumption, DetachFacts DEF Refresh, CallKernel, routeVars, HostTypeOK,
       TypedRoutes
  <2>3. TypedRetry'
    BY RetryFacts DEF Refresh, HostTypeOK, TypedRetry
  <2>4. TypedLocals'
    BY DoneFacts, GenerationAssumption, RestartAssumption DEF Refresh, Gens0, HostTypeOK,
       TypedLocals
  <2>5. TypedRest'
    BY GenerationAssumption DEF Refresh, HostTypeOK, TypedRest
  <2> QED
    BY <2>1, <2>2, <2>3, <2>4, <2>5
      DEF HostTypeOK, TypedPlace, TypedRoutes, TypedRetry, TypedLocals, TypedRest
<1>2. RouteIsCurrent'
  BY DEF Refresh, Begin, CallKernel, CallEntered, slotVars, routeVars, RouteIsCurrent, HostTypeOK
<1>3. MethodInv'
  BY DEF Refresh, Begin, CallKernel, CallEntered, slotVars, routeVars, MethodInv, Stops,
     Recovers, HostTypeOK
<1>4. HandshakeInv'
  BY DEF Refresh, Begin, CallKernel, CallEntered, slotVars, routeVars, HandshakeInv,
     Disconnected, MethodInv, HostTypeOK
<1>5. KnownInv'
  BY DEF Refresh, Begin, CallKernel, CallEntered, slotVars, routeVars, KnownInv, Starts, Stops,
     Disconnected, Fails, HostTypeOK, MethodInv, Recovers
<1>6. TodoInv'
  BY DEF Refresh, Begin, CallKernel, CallEntered, slotVars, routeVars, TodoInv, Starts,
     Disconnected, HostTypeOK, MethodInv, Recovers
<1>7. BudgetInv'
  BY DEF Refresh, Begin, CallKernel, CallEntered, slotVars, routeVars, BudgetInv, StartDue,
     PaidFor, HostTypeOK, RetryStates, MethodInv
<1> QED
  BY <1>1, <1>2, <1>3, <1>4, <1>5, <1>6, <1>7

\* A failed call is about the connection it used.
LEMMA InvokeFailsKeepsHost ==
  ASSUME NEW p \in Plugins, HostIInv, InvokeFails(p)
  PROVE  HostInv'
<1> USE DEF HostIInv, HostInv
<1>1. HostTypeOK'
  BY GenerationAssumption, RestartAssumption DEF InvokeFails, Begin, NoKernel, kernelVars,
     slotVars, callVars, loopVars, routeVars, HostTypeOK, RetryStates, Gens0, Failures, Places,
     PublicMethods, Generations
<1>2. RouteIsCurrent'
  BY DEF InvokeFails, Begin, NoKernel, kernelVars, slotVars, callVars, loopVars, routeVars,
     RouteIsCurrent, HostTypeOK
<1>3. MethodInv'
  BY DEF InvokeFails, Begin, NoKernel, kernelVars, slotVars, callVars, loopVars, routeVars,
     MethodInv, Stops, Recovers, HostTypeOK
<1>4. HandshakeInv'
  BY DEF InvokeFails, Begin, NoKernel, kernelVars, slotVars, callVars, loopVars, routeVars,
     HandshakeInv, Disconnected, MethodInv, HostTypeOK
<1>5. KnownInv'
  BY DEF InvokeFails, Begin, NoKernel, kernelVars, slotVars, callVars, loopVars, routeVars,
     KnownInv, Starts, Stops, Disconnected, Fails, HostTypeOK, MethodInv, Recovers
<1>6. TodoInv'
  BY DEF InvokeFails, Begin, NoKernel, kernelVars, slotVars, callVars, loopVars, routeVars,
     TodoInv, Starts, Disconnected, HostTypeOK, MethodInv, Recovers
<1>7. BudgetInv'
  BY DEF InvokeFails, Begin, NoKernel, kernelVars, slotVars, callVars, loopVars, routeVars,
     BudgetInv, StartDue, PaidFor, HostTypeOK, RetryStates, MethodInv
<1> QED
  BY <1>1, <1>2, <1>3, <1>4, <1>5, <1>6, <1>7

\* Shutdown drops every route.
LEMMA ShutdownKeepsHost ==
  ASSUME HostIInv, Shutdown
  PROVE  HostInv'
<1> USE DEF HostIInv, HostInv
<1>1. HostTypeOK'
  <2>1. TypedPlace'
    BY DoneFacts DEF Shutdown, CallKernel, Begin, loopVars, HostTypeOK, TypedPlace, Places,
       PublicMethods
  <2>2. TypedRoutes'
    <3>1. 0 \in Gens0
      BY GenerationAssumption DEF Gens0
    <3> QED
      BY <3>1 DEF Shutdown, HostTypeOK, TypedRoutes
  <2>3. TypedRetry'
    BY RetryFacts DEF Shutdown, HostTypeOK, TypedRetry
  <2>4. TypedLocals'
    BY DoneFacts, GenerationAssumption, RestartAssumption DEF Shutdown, loopVars, Gens0,
       HostTypeOK, TypedLocals
  <2>5. TypedRest'
    BY GenerationAssumption DEF Shutdown, HostTypeOK, TypedRest
  <2> QED
    BY <2>1, <2>2, <2>3, <2>4, <2>5
      DEF HostTypeOK, TypedPlace, TypedRoutes, TypedRetry, TypedLocals, TypedRest
<1>2. RouteIsCurrent'
  BY DEF Shutdown, Begin, CallKernel, CallEntered, slotVars, loopVars, RouteIsCurrent, HostTypeOK
<1>3. MethodInv'
  BY DEF Shutdown, Begin, CallKernel, CallEntered, slotVars, loopVars, MethodInv, Stops,
     Recovers, HostTypeOK
<1>4. HandshakeInv'
  BY DEF Shutdown, Begin, CallKernel, CallEntered, slotVars, loopVars, HandshakeInv,
     Disconnected, MethodInv, HostTypeOK
<1>5. KnownInv'
  BY DEF Shutdown, Begin, CallKernel, CallEntered, slotVars, loopVars, KnownInv, Starts, Stops,
     Disconnected, Fails, HostTypeOK, MethodInv, Recovers
<1>6. TodoInv'
  BY DEF Shutdown, Begin, CallKernel, CallEntered, slotVars, loopVars, TodoInv, Starts,
     Disconnected, HostTypeOK, MethodInv, Recovers
<1>7. BudgetInv'
  <2>1. UNCHANGED <<generation, base>> /\ \A q \in Plugins : ~StartDue(q)'
    BY DEF Shutdown, StartDue, Begin, CallKernel, CallEntered, slotVars, loopVars
  <2>2. \A q \in Plugins : retry'[q].restarts = retry[q].restarts
    <3>1. 0 \in Gens0 /\ \A q \in Plugins : retry[q] \in RetryStates
      BY GenerationAssumption DEF Gens0, HostTypeOK
    <3>2. \A q \in Plugins : DisableRetry(retry[q]).restarts = retry[q].restarts
      BY <3>1, RetryFacts
    <3> QED
      BY <3>2 DEF Shutdown
  <2> QED
    BY <2>1, <2>2, BudgetKept
<1> QED
  BY <1>1, <1>2, <1>3, <1>4, <1>5, <1>6, <1>7

\* The slots are gone after shutdown.
LEMMA ShutdownReturnsKeepsHost ==
  ASSUME HostIInv, ShutdownReturns
  PROVE  HostInv'
<1> USE DEF HostIInv, HostInv
<1>1. HostTypeOK'
  <2>1. TypedPlace'
    BY DoneFacts DEF ShutdownReturns, NoKernel, routeVars, HostTypeOK, TypedPlace, Places,
       PublicMethods
  <2>2. TypedRoutes'
    BY GenerationAssumption, DetachFacts DEF ShutdownReturns, NoKernel, routeVars, HostTypeOK,
       TypedRoutes
  <2>3. TypedRetry'
    BY RetryFacts DEF ShutdownReturns, HostTypeOK, TypedRetry
  <2>4. TypedLocals'
    BY DoneFacts, GenerationAssumption, RestartAssumption DEF ShutdownReturns, NoKernel, Gens0,
       HostTypeOK, TypedLocals
  <2>5. TypedRest'
    BY GenerationAssumption DEF ShutdownReturns, HostTypeOK, TypedRest
  <2> QED
    BY <2>1, <2>2, <2>3, <2>4, <2>5
      DEF HostTypeOK, TypedPlace, TypedRoutes, TypedRetry, TypedLocals, TypedRest
<1>2. RouteIsCurrent'
  BY DEF ShutdownReturns, Here, Done, NoKernel, kernelVars, slotVars, callVars, routeVars,
     RouteIsCurrent, HostTypeOK
<1>3. MethodInv'
  BY DEF ShutdownReturns, Here, Done, NoKernel, kernelVars, slotVars, callVars, routeVars,
     MethodInv, Stops, Recovers, HostTypeOK
<1>4. HandshakeInv'
  BY DEF ShutdownReturns, Here, Done, NoKernel, kernelVars, slotVars, callVars, routeVars,
     HandshakeInv, Disconnected, MethodInv, HostTypeOK
<1>5. KnownInv'
  BY DEF ShutdownReturns, Here, Done, NoKernel, kernelVars, slotVars, callVars, routeVars,
     KnownInv, Starts, Stops, Disconnected, Fails, HostTypeOK, MethodInv, Recovers
<1>6. TodoInv'
  BY DEF ShutdownReturns, Here, Done, NoKernel, kernelVars, slotVars, callVars, routeVars,
     TodoInv, Starts, Disconnected, HostTypeOK, MethodInv, Recovers
<1>7. BudgetInv'
  BY DEF ShutdownReturns, Here, Done, NoKernel, kernelVars, slotVars, callVars, routeVars,
     BudgetInv, StartDue, PaidFor, HostTypeOK, RetryStates, MethodInv
<1> QED
  BY <1>1, <1>2, <1>3, <1>4, <1>5, <1>6, <1>7

\* The old connection is dropped before a new generation.
LEMMA StartGenerationKeepsHost ==
  ASSUME HostIInv, StartGeneration
  PROVE  HostInv'
<1> USE DEF HostIInv, HostInv
<1>1. HostTypeOK'
  <2>1. TypedPlace'
    BY DoneFacts DEF StartGeneration, CallKernel, Stay, loopVars, HostTypeOK, TypedPlace,
       Places, PublicMethods
  <2>2. TypedRoutes'
    BY GenerationAssumption, DetachFacts DEF StartGeneration, CallKernel, HostTypeOK, TypedRoutes
  <2>3. TypedRetry'
    BY RetryFacts DEF StartGeneration, HostTypeOK, TypedRetry
  <2>4. TypedLocals'
    BY DoneFacts, GenerationAssumption, RestartAssumption DEF StartGeneration, loopVars, Gens0,
       HostTypeOK, TypedLocals
  <2>5. TypedRest'
    BY GenerationAssumption DEF StartGeneration, HostTypeOK, TypedRest
  <2> QED
    BY <2>1, <2>2, <2>3, <2>4, <2>5
      DEF HostTypeOK, TypedPlace, TypedRoutes, TypedRetry, TypedLocals, TypedRest
<1>2. RouteIsCurrent'
  BY DEF StartGeneration, Here, Stay, CallKernel, CallEntered, Detach, slotVars, loopVars,
     RouteIsCurrent, HostTypeOK
<1>3. MethodInv'
  BY DEF StartGeneration, Here, Stay, CallKernel, CallEntered, Detach, slotVars, loopVars,
     MethodInv, Stops, Recovers, HostTypeOK
<1>4. HandshakeInv'
  BY DEF StartGeneration, Here, Stay, CallKernel, CallEntered, Detach, slotVars, loopVars,
     HandshakeInv, Disconnected, MethodInv, HostTypeOK
<1>5. KnownInv'
  BY DEF StartGeneration, Here, Stay, CallKernel, CallEntered, Detach, slotVars, loopVars,
     KnownInv, Starts, Stops, Disconnected, Fails, HostTypeOK, MethodInv, Recovers
<1>6. TodoInv'
  BY DEF StartGeneration, Here, Stay, CallKernel, CallEntered, Detach, slotVars, loopVars,
     TodoInv, Starts, Disconnected, HostTypeOK, MethodInv, Recovers
<1>7. BudgetInv'
  BY DEF StartGeneration, Here, Stay, CallKernel, CallEntered, Detach, slotVars, loopVars,
     BudgetInv, StartDue, PaidFor, HostTypeOK, RetryStates, MethodInv
<1> QED
  BY <1>1, <1>2, <1>3, <1>4, <1>5, <1>6, <1>7

\* Kernel.start is entered for the plugin at work.
LEMMA StartKernelKeepsHost ==
  ASSUME HostIInv, StartKernel
  PROVE  HostInv'
<1> USE DEF HostIInv, HostInv
<1>1. HostTypeOK'
  BY GenerationAssumption, RestartAssumption DEF StartKernel, Here, Stay, CallKernel,
     CallEntered, slotVars, loopVars, routeVars, HostTypeOK, RetryStates, Gens0, Failures,
     Places, PublicMethods, Generations
<1>2. RouteIsCurrent'
  BY DEF StartKernel, Here, Stay, CallKernel, CallEntered, slotVars, loopVars, routeVars,
     RouteIsCurrent, HostTypeOK
<1>3. MethodInv'
  BY DEF StartKernel, Here, Stay, CallKernel, CallEntered, slotVars, loopVars, routeVars,
     MethodInv, Stops, Recovers, HostTypeOK
<1>4. HandshakeInv'
  BY DEF StartKernel, Here, Stay, CallKernel, CallEntered, slotVars, loopVars, routeVars,
     HandshakeInv, Disconnected, MethodInv, HostTypeOK
<1>5. KnownInv'
  BY DEF StartKernel, Here, Stay, CallKernel, CallEntered, slotVars, loopVars, routeVars,
     KnownInv, Starts, Stops, Disconnected, Fails, HostTypeOK, MethodInv, Recovers
<1>6. TodoInv'
  BY DEF StartKernel, Here, Stay, CallKernel, CallEntered, slotVars, loopVars, routeVars,
     TodoInv, Starts, Disconnected, HostTypeOK, MethodInv, Recovers
<1>7. BudgetInv'
  BY DEF StartKernel, Here, Stay, CallKernel, CallEntered, slotVars, loopVars, routeVars,
     BudgetInv, StartDue, PaidFor, HostTypeOK, RetryStates, MethodInv
<1> QED
  BY <1>1, <1>2, <1>3, <1>4, <1>5, <1>6, <1>7

\* A refused start ends the cycle or goes to recovery.
LEMMA StartFailedKeepsHost ==
  ASSUME HostIInv, StartFailed
  PROVE  HostInv'
<1> USE DEF HostIInv, HostInv
<1>0. HostIInv /\ StartErr /\ op = "none" /\ at = "sg.observe"
  BY DEF StartFailed, Here
<1>1. HostTypeOK'
  <2>1. TypedPlace'
    BY DoneFacts DEF StartFailed, CallKernel, NoKernel, Stay, StartErr, loopVars, routeVars,
       locals, HostTypeOK, TypedPlace, Places, PublicMethods
  <2>2. TypedRoutes'
    BY GenerationAssumption, DetachFacts DEF StartFailed, CallKernel, NoKernel, routeVars,
       HostTypeOK, TypedRoutes
  <2>3. TypedRetry'
    BY <1>0, StartErrFacts
  <2>4. TypedLocals'
    BY DoneFacts, GenerationAssumption, RestartAssumption DEF StartFailed, NoKernel, StartErr,
       locals, loopVars, Gens0, HostTypeOK, TypedLocals
  <2>5. TypedRest'
    BY GenerationAssumption DEF StartFailed, HostTypeOK, TypedRest
  <2> QED
    BY <2>1, <2>2, <2>3, <2>4, <2>5
      DEF HostTypeOK, TypedPlace, TypedRoutes, TypedRetry, TypedLocals, TypedRest
<1>2. RouteIsCurrent'
  BY DEF StartFailed, Here, Done, Stay, NoKernel, CallKernel, CallEntered, StartErr,
     kernelVars, slotVars, callVars, loopVars, routeVars, locals, RouteIsCurrent, HostTypeOK
<1>3. MethodInv'
  BY DEF StartFailed, Here, Done, Stay, NoKernel, CallKernel, CallEntered, StartErr,
     kernelVars, slotVars, callVars, loopVars, routeVars, locals, MethodInv, Stops, Recovers,
     HostTypeOK
<1>4. HandshakeInv'
  BY DEF StartFailed, Here, Done, Stay, NoKernel, CallKernel, CallEntered, StartErr,
     kernelVars, slotVars, callVars, loopVars, routeVars, locals, HandshakeInv, Disconnected,
     MethodInv, HostTypeOK
<1>5. KnownInv'
  <2>1. state' = state /\ state[id] # "Unregistered" /\ id' = id
        /\ \A q \in Plugins : q # id => retry'[q] = retry[q]
    BY <1>0, StartErrFacts DEF KnownInv, Starts, Disconnected
  <2>2. slots' = slots
    BY DEF StartFailed
  <2> QED
    BY <2>1, <2>2 DEF KnownInv
<1>6. TodoInv'
  BY DEF StartFailed, Here, Done, Stay, NoKernel, CallKernel, CallEntered, StartErr,
     kernelVars, slotVars, callVars, loopVars, routeVars, locals, TodoInv, Starts,
     Disconnected, HostTypeOK, MethodInv, Recovers
<1>7. BudgetInv'
  <2>1. UNCHANGED <<generation, base>>
    BY <1>0, StartErrFacts DEF StartFailed
  <2>2. \A q \in Plugins : retry'[q].restarts = retry[q].restarts /\ ~StartDue(q)'
    BY <1>0, StartErrFacts
  <2> QED
    BY <2>1, <2>2, BudgetKept
<1> QED
  BY <1>1, <1>2, <1>3, <1>4, <1>5, <1>6, <1>7

\* The new generation is observed.
LEMMA StartObserveKeepsHost ==
  ASSUME HostIInv, StartObserve
  PROVE  HostInv'
<1> USE DEF HostIInv, HostInv
<1>0. /\ generation[id] \in Gens0 /\ 0 \in Gens0 /\ id \in Plugins
      /\ \A q \in Plugins : retry[q] \in RetryStates
  BY GenerationAssumption DEF HostTypeOK, KernelIInv, KernelTypeOK, Gens0
<1>00. Observe(retry[id], generation[id]) \in RetryStates
       /\ Observe(retry[id], generation[id]).restarts = retry[id].restarts
       /\ Observe(retry[id], generation[id]).enabled = retry[id].enabled
  BY <1>0, RetryFacts
<1>01. retry' = [retry EXCEPT ![id] = Observe(retry[id], generation[id])]
  BY DEF StartObserve
<1>02. retry'[id] = Observe(retry[id], generation[id]) /\ \A q \in Plugins : q # id => retry'[q] = retry[q]
  BY <1>0, <1>01 DEF HostTypeOK
<1>03. /\ generation' = generation /\ state' = state /\ id' = id /\ base' = base /\ slots' = slots
       /\ op' = "none" /\ at' \in {"sg.accept", "fc"} /\ at = "sg.observe"
  BY DEF StartObserve, Here, NoKernel, Stay, kernelVars, slotVars, callVars
<1>1. HostTypeOK'
  <2>1. TypedPlace'
    BY DoneFacts DEF StartObserve, NoKernel, Stay, loopVars, routeVars, HostTypeOK, TypedPlace,
       Places, PublicMethods
  <2>2. TypedRoutes'
    BY GenerationAssumption, DetachFacts DEF StartObserve, NoKernel, routeVars, HostTypeOK,
       TypedRoutes
  <2>3. TypedRetry'
    BY <1>0, <1>00, <1>01 DEF TypedRetry, HostTypeOK
  <2>4. TypedLocals'
    BY <1>0 DEF StartObserve, loopVars, HostTypeOK, TypedLocals
  <2>5. TypedRest'
    BY GenerationAssumption DEF StartObserve, HostTypeOK, TypedRest
  <2> QED
    BY <2>1, <2>2, <2>3, <2>4, <2>5
      DEF HostTypeOK, TypedPlace, TypedRoutes, TypedRetry, TypedLocals, TypedRest
<1>2. RouteIsCurrent'
  BY DEF StartObserve, Here, Stay, NoKernel, kernelVars, slotVars, callVars, loopVars,
     routeVars, RouteIsCurrent, HostTypeOK
<1>3. MethodInv'
  BY DEF StartObserve, Here, Stay, NoKernel, kernelVars, slotVars, callVars, loopVars,
     routeVars, MethodInv, Stops, Recovers, HostTypeOK
<1>4. HandshakeInv'
  BY DEF StartObserve, Here, Stay, NoKernel, kernelVars, slotVars, callVars, loopVars,
     routeVars, HandshakeInv, Disconnected, MethodInv, HostTypeOK
<1>5. KnownInv'
  <2>1. state[id] # "Unregistered"
    BY <1>03 DEF KnownInv, Starts, Disconnected
  <2>2. \A q \in Plugins : ~retry'[q].enabled => state[q] # "Unregistered"
    BY <1>0, <1>00, <1>02 DEF KnownInv
  <2> QED
    BY <1>03, <2>1, <2>2 DEF KnownInv
<1>6. TodoInv'
  BY DEF StartObserve, Here, Stay, NoKernel, kernelVars, slotVars, callVars, loopVars,
     routeVars, TodoInv, Starts, Disconnected, HostTypeOK, MethodInv, Recovers
<1>7. BudgetInv'
  <2>1. \A q \in Plugins : ~StartDue(q)'
    BY <1>03 DEF StartDue
  <2>2. \A q \in Plugins : retry'[q].restarts = retry[q].restarts
    BY <1>0, <1>00, <1>02
  <2> QED
    BY <1>03, <2>1, <2>2, BudgetKept
<1> QED
  BY <1>1, <1>2, <1>3, <1>4, <1>5, <1>6, <1>7

\* A connection is taken from the listener.
LEMMA AcceptKeepsHost ==
  ASSUME HostIInv, Accept
  PROVE  HostInv'
<1> USE DEF HostIInv, HostInv
<1>1. HostTypeOK'
  <2>1. TypedPlace'
    BY DoneFacts DEF Accept, NoKernel, Stay, loopVars, routeVars, HostTypeOK, TypedPlace,
       Places, PublicMethods
  <2>2. TypedRoutes'
    BY GenerationAssumption, DetachFacts DEF Accept, NoKernel, routeVars, HostTypeOK, TypedRoutes
  <2>3. TypedRetry'
    BY RetryFacts DEF Accept, HostTypeOK, TypedRetry
  <2>4. TypedLocals'
    <3>1. id \in Plugins /\ \A q \in Plugins : backlog[q] \in Seq(Generations)
      BY DEF HostTypeOK
    <3>5. backlog[id] # <<>>
      BY DEF Accept
    <3>4. backlog[id] \in Seq(Generations)
      BY <3>1
    <3>2. Head(backlog[id]) \in Generations
      BY <3>4, <3>5
    <3>3. Head(backlog[id]) \in Gens0
      BY <3>2, GenerationAssumption DEF Gens0, Generations
    <3> QED
      BY <3>3 DEF Accept, loopVars, HostTypeOK, TypedLocals
  <2>5. TypedRest'
    BY GenerationAssumption DEF Accept, HostTypeOK, TypedRest
  <2> QED
    BY <2>1, <2>2, <2>3, <2>4, <2>5
      DEF HostTypeOK, TypedPlace, TypedRoutes, TypedRetry, TypedLocals, TypedRest
<1>2. RouteIsCurrent'
  BY DEF Accept, Here, Stay, NoKernel, kernelVars, slotVars, callVars, loopVars, routeVars,
     RouteIsCurrent, HostTypeOK
<1>3. MethodInv'
  BY DEF Accept, Here, Stay, NoKernel, kernelVars, slotVars, callVars, loopVars, routeVars,
     MethodInv, Stops, Recovers, HostTypeOK
<1>4. HandshakeInv'
  BY DEF Accept, Here, Stay, NoKernel, kernelVars, slotVars, callVars, loopVars, routeVars,
     HandshakeInv, Disconnected, MethodInv, HostTypeOK
<1>5. KnownInv'
  BY DEF Accept, Here, Stay, NoKernel, kernelVars, slotVars, callVars, loopVars, routeVars,
     KnownInv, Starts, Stops, Disconnected, Fails, HostTypeOK, MethodInv, Recovers
<1>6. TodoInv'
  BY DEF Accept, Here, Stay, NoKernel, kernelVars, slotVars, callVars, loopVars, routeVars,
     TodoInv, Starts, Disconnected, HostTypeOK, MethodInv, Recovers
<1>7. BudgetInv'
  BY DEF Accept, Here, Stay, NoKernel, kernelVars, slotVars, callVars, loopVars, routeVars,
     BudgetInv, StartDue, PaidFor, HostTypeOK, RetryStates, MethodInv
<1> QED
  BY <1>1, <1>2, <1>3, <1>4, <1>5, <1>6, <1>7

\* No connection came.
LEMMA AcceptTimeoutKeepsHost ==
  ASSUME HostIInv, AcceptTimeout
  PROVE  HostInv'
<1> USE DEF HostIInv, HostInv
<1>1. HostTypeOK'
  BY GenerationAssumption, RestartAssumption DEF AcceptTimeout, Here, Stay, NoKernel,
     kernelVars, slotVars, callVars, loopVars, routeVars, HostTypeOK, RetryStates, Gens0,
     Failures, Places, PublicMethods, Generations
<1>2. RouteIsCurrent'
  BY DEF AcceptTimeout, Here, Stay, NoKernel, kernelVars, slotVars, callVars, loopVars,
     routeVars, RouteIsCurrent, HostTypeOK
<1>3. MethodInv'
  BY DEF AcceptTimeout, Here, Stay, NoKernel, kernelVars, slotVars, callVars, loopVars,
     routeVars, MethodInv, Stops, Recovers, HostTypeOK
<1>4. HandshakeInv'
  BY DEF AcceptTimeout, Here, Stay, NoKernel, kernelVars, slotVars, callVars, loopVars,
     routeVars, HandshakeInv, Disconnected, MethodInv, HostTypeOK
<1>5. KnownInv'
  BY DEF AcceptTimeout, Here, Stay, NoKernel, kernelVars, slotVars, callVars, loopVars,
     routeVars, KnownInv, Starts, Stops, Disconnected, Fails, HostTypeOK, MethodInv, Recovers
<1>6. TodoInv'
  BY DEF AcceptTimeout, Here, Stay, NoKernel, kernelVars, slotVars, callVars, loopVars,
     routeVars, TodoInv, Starts, Disconnected, HostTypeOK, MethodInv, Recovers
<1>7. BudgetInv'
  BY DEF AcceptTimeout, Here, Stay, NoKernel, kernelVars, slotVars, callVars, loopVars,
     routeVars, BudgetInv, StartDue, PaidFor, HostTypeOK, RetryStates, MethodInv
<1> QED
  BY <1>1, <1>2, <1>3, <1>4, <1>5, <1>6, <1>7

\* Only the process of the new generation completes the handshake.
LEMMA ShakeOkKeepsHost ==
  ASSUME HostIInv, ShakeOk
  PROVE  HostInv'
<1> USE DEF HostIInv, HostInv
<1>1. HostTypeOK'
  <2>1. TypedPlace'
    BY DoneFacts DEF ShakeOk, NoKernel, Stay, HostTypeOK, TypedPlace, Places, PublicMethods
  <2>2. TypedRoutes'
    BY GenerationAssumption, DetachFacts DEF ShakeOk, NoKernel, HostTypeOK, TypedRoutes
  <2>3. TypedRetry'
    BY RetryFacts DEF ShakeOk, HostTypeOK, TypedRetry
  <2>4. TypedLocals'
    BY DoneFacts, GenerationAssumption, RestartAssumption DEF ShakeOk, NoKernel, Gens0,
       HostTypeOK, TypedLocals
  <2>5. TypedRest'
    BY GenerationAssumption DEF ShakeOk, HostTypeOK, TypedRest
  <2> QED
    BY <2>1, <2>2, <2>3, <2>4, <2>5
      DEF HostTypeOK, TypedPlace, TypedRoutes, TypedRetry, TypedLocals, TypedRest
<1>2. RouteIsCurrent'
  <2>1. at = "sg.shake" /\ id \in Plugins /\ peer \in Generations /\ gen = generation[id]
        /\ op = "none" /\ child[id][peer] = "alive"
    BY DEF ShakeOk, Here, HandshakeInv, HostTypeOK
  <2>2. LiveSup(id, peer)
    BY <2>1 DEF KernelIInv, SupInv, LiveSup
  <2>3. peer = generation[id] /\ peer # 0
    BY <2>1, <2>2, GenerationAssumption DEF KernelIInv, SupInv, Launching, Generations
  <2>4. conn' = [conn EXCEPT ![id] = gen] /\ session' = [session EXCEPT ![id] = peer]
        /\ catalog' = catalog \cup {id} /\ generation' = generation
    BY DEF ShakeOk, NoKernel, kernelVars, slotVars
  <2>5. conn \in [Plugins -> Gens0] /\ session \in [Plugins -> Gens0]
    BY DEF HostTypeOK
  <2> QED
    BY <2>1, <2>3, <2>4, <2>5 DEF RouteIsCurrent
<1>3. MethodInv'
  BY DEF ShakeOk, Here, Done, Stay, NoKernel, kernelVars, slotVars, callVars, MethodInv, Stops,
     Recovers, HostTypeOK
<1>4. HandshakeInv'
  BY DEF ShakeOk, Here, Done, Stay, NoKernel, kernelVars, slotVars, callVars, HandshakeInv,
     Disconnected, MethodInv, HostTypeOK
<1>5. KnownInv'
  BY DEF ShakeOk, Here, Done, Stay, NoKernel, kernelVars, slotVars, callVars, KnownInv, Starts,
     Stops, Disconnected, Fails, HostTypeOK, MethodInv, Recovers
<1>6. TodoInv'
  BY DEF ShakeOk, Here, Done, Stay, NoKernel, kernelVars, slotVars, callVars, TodoInv, Starts,
     Disconnected, HostTypeOK, MethodInv, Recovers
<1>7. BudgetInv'
  BY DEF ShakeOk, Here, Done, Stay, NoKernel, kernelVars, slotVars, callVars, BudgetInv,
     StartDue, PaidFor, HostTypeOK, RetryStates, MethodInv
<1> QED
  BY <1>1, <1>2, <1>3, <1>4, <1>5, <1>6, <1>7

\* The handshake failed.
LEMMA ShakeFailsKeepsHost ==
  ASSUME HostIInv, ShakeFails
  PROVE  HostInv'
<1> USE DEF HostIInv, HostInv
<1>1. HostTypeOK'
  BY GenerationAssumption, RestartAssumption DEF ShakeFails, Here, Stay, NoKernel, kernelVars,
     slotVars, callVars, loopVars, routeVars, HostTypeOK, RetryStates, Gens0, Failures, Places,
     PublicMethods, Generations
<1>2. RouteIsCurrent'
  BY DEF ShakeFails, Here, Stay, NoKernel, kernelVars, slotVars, callVars, loopVars, routeVars,
     RouteIsCurrent, HostTypeOK
<1>3. MethodInv'
  BY DEF ShakeFails, Here, Stay, NoKernel, kernelVars, slotVars, callVars, loopVars, routeVars,
     MethodInv, Stops, Recovers, HostTypeOK
<1>4. HandshakeInv'
  BY DEF ShakeFails, Here, Stay, NoKernel, kernelVars, slotVars, callVars, loopVars, routeVars,
     HandshakeInv, Disconnected, MethodInv, HostTypeOK
<1>5. KnownInv'
  BY DEF ShakeFails, Here, Stay, NoKernel, kernelVars, slotVars, callVars, loopVars, routeVars,
     KnownInv, Starts, Stops, Disconnected, Fails, HostTypeOK, MethodInv, Recovers
<1>6. TodoInv'
  BY DEF ShakeFails, Here, Stay, NoKernel, kernelVars, slotVars, callVars, loopVars, routeVars,
     TodoInv, Starts, Disconnected, HostTypeOK, MethodInv, Recovers
<1>7. BudgetInv'
  BY DEF ShakeFails, Here, Stay, NoKernel, kernelVars, slotVars, callVars, loopVars, routeVars,
     BudgetInv, StartDue, PaidFor, HostTypeOK, RetryStates, MethodInv
<1> QED
  BY <1>1, <1>2, <1>3, <1>4, <1>5, <1>6, <1>7

\* A failed connection is detached.
LEMMA FailConnectionKeepsHost ==
  ASSUME HostIInv, FailConnection
  PROVE  HostInv'
<1> USE DEF HostIInv, HostInv
<1>1. HostTypeOK'
  <2>1. TypedPlace'
    BY DoneFacts DEF FailConnection, CallKernel, Stay, loopVars, routeVars, KeepRoutes,
       HostTypeOK, TypedPlace, Places, PublicMethods
  <2>2. TypedRoutes'
    BY GenerationAssumption, DetachFacts DEF FailConnection, CallKernel, routeVars, HostTypeOK,
       TypedRoutes, KeepRoutes
  <2>3. TypedRetry'
    BY RetryFacts DEF FailConnection, HostTypeOK, TypedRetry
  <2>4. TypedLocals'
    BY DoneFacts, GenerationAssumption, RestartAssumption DEF FailConnection, loopVars, Gens0,
       HostTypeOK, TypedLocals
  <2>5. TypedRest'
    BY GenerationAssumption DEF FailConnection, HostTypeOK, TypedRest
  <2> QED
    BY <2>1, <2>2, <2>3, <2>4, <2>5
      DEF HostTypeOK, TypedPlace, TypedRoutes, TypedRetry, TypedLocals, TypedRest
<1>2. RouteIsCurrent'
  BY DEF FailConnection, Here, Stay, CallKernel, CallEntered, Detach, KeepRoutes, slotVars,
     loopVars, routeVars, RouteIsCurrent, HostTypeOK
<1>3. MethodInv'
  BY DEF FailConnection, Here, Stay, CallKernel, CallEntered, Detach, KeepRoutes, slotVars,
     loopVars, routeVars, MethodInv, Stops, Recovers, HostTypeOK
<1>4. HandshakeInv'
  BY DEF FailConnection, Here, Stay, CallKernel, CallEntered, Detach, KeepRoutes, slotVars,
     loopVars, routeVars, HandshakeInv, Disconnected, MethodInv, HostTypeOK
<1>5. KnownInv'
  BY DEF FailConnection, Here, Stay, CallKernel, CallEntered, Detach, KeepRoutes, slotVars,
     loopVars, routeVars, KnownInv, Starts, Stops, Disconnected, Fails, HostTypeOK, MethodInv,
     Recovers
<1>6. TodoInv'
  BY DEF FailConnection, Here, Stay, CallKernel, CallEntered, Detach, KeepRoutes, slotVars,
     loopVars, routeVars, TodoInv, Starts, Disconnected, HostTypeOK, MethodInv, Recovers
<1>7. BudgetInv'
  BY DEF FailConnection, Here, Stay, CallKernel, CallEntered, Detach, KeepRoutes, slotVars,
     loopVars, routeVars, BudgetInv, StartDue, PaidFor, HostTypeOK, RetryStates, MethodInv
<1> QED
  BY <1>1, <1>2, <1>3, <1>4, <1>5, <1>6, <1>7

\* Only the current generation is failed.
LEMMA FailCurrentKeepsHost ==
  ASSUME HostIInv, FailCurrent
  PROVE  HostInv'
<1> USE DEF HostIInv, HostInv
<1>1. HostTypeOK'
  BY GenerationAssumption, RestartAssumption DEF FailCurrent, Here, Stay, NoKernel, CallKernel,
     CallEntered, kernelVars, slotVars, callVars, loopVars, routeVars, HostTypeOK, RetryStates,
     Gens0, Failures, Places, PublicMethods, Generations
<1>2. RouteIsCurrent'
  BY DEF FailCurrent, Here, Stay, NoKernel, CallKernel, CallEntered, kernelVars, slotVars,
     callVars, loopVars, routeVars, RouteIsCurrent, HostTypeOK
<1>3. MethodInv'
  BY DEF FailCurrent, Here, Stay, NoKernel, CallKernel, CallEntered, kernelVars, slotVars,
     callVars, loopVars, routeVars, MethodInv, Stops, Recovers, HostTypeOK
<1>4. HandshakeInv'
  BY DEF FailCurrent, Here, Stay, NoKernel, CallKernel, CallEntered, kernelVars, slotVars,
     callVars, loopVars, routeVars, HandshakeInv, Disconnected, MethodInv, HostTypeOK
<1>5. KnownInv'
  BY DEF FailCurrent, Here, Stay, NoKernel, CallKernel, CallEntered, kernelVars, slotVars,
     callVars, loopVars, routeVars, KnownInv, Starts, Stops, Disconnected, Fails, HostTypeOK,
     MethodInv, Recovers
<1>6. TodoInv'
  BY DEF FailCurrent, Here, Stay, NoKernel, CallKernel, CallEntered, kernelVars, slotVars,
     callVars, loopVars, routeVars, TodoInv, Starts, Disconnected, HostTypeOK, MethodInv,
     Recovers
<1>7. BudgetInv'
  BY DEF FailCurrent, Here, Stay, NoKernel, CallKernel, CallEntered, kernelVars, slotVars,
     callVars, loopVars, routeVars, BudgetInv, StartDue, PaidFor, HostTypeOK, RetryStates,
     MethodInv
<1> QED
  BY <1>1, <1>2, <1>3, <1>4, <1>5, <1>6, <1>7

\* The failure is followed by a refresh.
LEMMA FailRefreshKeepsHost ==
  ASSUME HostIInv, FailRefresh
  PROVE  HostInv'
<1> USE DEF HostIInv, HostInv
<1>1. HostTypeOK'
  BY GenerationAssumption, RestartAssumption DEF FailRefresh, Here, Stay, CallKernel,
     CallEntered, slotVars, loopVars, routeVars, HostTypeOK, RetryStates, Gens0, Failures,
     Places, PublicMethods, Generations
<1>2. RouteIsCurrent'
  BY DEF FailRefresh, Here, Stay, CallKernel, CallEntered, slotVars, loopVars, routeVars,
     RouteIsCurrent, HostTypeOK
<1>3. MethodInv'
  BY DEF FailRefresh, Here, Stay, CallKernel, CallEntered, slotVars, loopVars, routeVars,
     MethodInv, Stops, Recovers, HostTypeOK
<1>4. HandshakeInv'
  BY DEF FailRefresh, Here, Stay, CallKernel, CallEntered, slotVars, loopVars, routeVars,
     HandshakeInv, Disconnected, MethodInv, HostTypeOK
<1>5. KnownInv'
  BY DEF FailRefresh, Here, Stay, CallKernel, CallEntered, slotVars, loopVars, routeVars,
     KnownInv, Starts, Stops, Disconnected, Fails, HostTypeOK, MethodInv, Recovers
<1>6. TodoInv'
  BY DEF FailRefresh, Here, Stay, CallKernel, CallEntered, slotVars, loopVars, routeVars,
     TodoInv, Starts, Disconnected, HostTypeOK, MethodInv, Recovers
<1>7. BudgetInv'
  BY DEF FailRefresh, Here, Stay, CallKernel, CallEntered, slotVars, loopVars, routeVars,
     BudgetInv, StartDue, PaidFor, HostTypeOK, RetryStates, MethodInv
<1> QED
  BY <1>1, <1>2, <1>3, <1>4, <1>5, <1>6, <1>7

\* Fail_connection returns to its caller.
LEMMA FailReturnsKeepsHost ==
  ASSUME HostIInv, FailReturns
  PROVE  HostInv'
<1> USE DEF HostIInv, HostInv
<1>0. op = "none" /\ at = "fc.done" /\ slots' = slots /\ base' = base
  BY DEF FailReturns, Here
<1>00. ASSUME call # "invoke" PROVE StartErr
  BY <1>00 DEF FailReturns
<1>01. ASSUME call = "invoke"
       PROVE  /\ retry' = retry /\ at' = "idle" /\ op' = "none" /\ call' = "none"
              /\ generation' = generation /\ state' = state /\ id' = id
  BY <1>0, <1>01 DEF FailReturns, NoKernel, Done, kernelVars, slotVars, callVars
<1>1. HostTypeOK'
  <2>1. TypedPlace'
    BY DoneFacts DEF FailReturns, CallKernel, NoKernel, Stay, StartErr, loopVars, routeVars,
       locals, HostTypeOK, TypedPlace, Places, PublicMethods
  <2>2. TypedRoutes'
    BY GenerationAssumption, DetachFacts DEF FailReturns, CallKernel, NoKernel, routeVars,
       HostTypeOK, TypedRoutes
  <2>3. TypedRetry'
    BY <1>0, <1>00, <1>01, StartErrFacts DEF HostTypeOK, TypedRetry
  <2>4. TypedLocals'
    BY DoneFacts, GenerationAssumption, RestartAssumption DEF FailReturns, NoKernel, StartErr,
       locals, loopVars, Gens0, HostTypeOK, TypedLocals
  <2>5. TypedRest'
    BY GenerationAssumption DEF FailReturns, HostTypeOK, TypedRest
  <2> QED
    BY <2>1, <2>2, <2>3, <2>4, <2>5
      DEF HostTypeOK, TypedPlace, TypedRoutes, TypedRetry, TypedLocals, TypedRest
<1>2. RouteIsCurrent'
  BY DEF FailReturns, Here, Done, Stay, NoKernel, CallKernel, CallEntered, StartErr,
     kernelVars, slotVars, callVars, loopVars, routeVars, locals, RouteIsCurrent, HostTypeOK
<1>3. MethodInv'
  BY DEF FailReturns, Here, Done, Stay, NoKernel, CallKernel, CallEntered, StartErr,
     kernelVars, slotVars, callVars, loopVars, routeVars, locals, MethodInv, Stops, Recovers,
     HostTypeOK
<1>4. HandshakeInv'
  BY DEF FailReturns, Here, Done, Stay, NoKernel, CallKernel, CallEntered, StartErr,
     kernelVars, slotVars, callVars, loopVars, routeVars, locals, HandshakeInv, Disconnected,
     MethodInv, HostTypeOK
<1>5. KnownInv'
  <2>1. CASE call = "invoke"
    BY <1>0, <1>01, <2>1 DEF KnownInv, Starts, Stops, Disconnected, Fails
  <2>2. CASE call # "invoke"
    <3>1. state' = state /\ state[id] # "Unregistered" /\ id' = id
          /\ \A q \in Plugins : q # id => retry'[q] = retry[q]
      BY <1>0, <1>00, <2>2, StartErrFacts DEF KnownInv, Fails
    <3> QED
      BY <1>0, <3>1 DEF KnownInv
  <2> QED
    BY <2>1, <2>2
<1>6. TodoInv'
  BY DEF FailReturns, Here, Done, Stay, NoKernel, CallKernel, CallEntered, StartErr,
     kernelVars, slotVars, callVars, loopVars, routeVars, locals, TodoInv, Starts,
     Disconnected, HostTypeOK, MethodInv, Recovers
<1>7. BudgetInv'
  <2>1. generation' = generation /\ \A q \in Plugins : ~StartDue(q)'
    BY <1>0, <1>00, <1>01, StartErrFacts DEF StartDue
  <2>2. \A q \in Plugins : retry'[q].restarts = retry[q].restarts
    BY <1>0, <1>00, <1>01, StartErrFacts
  <2> QED
    BY <1>0, <2>1, <2>2, BudgetKept
<1> QED
  BY <1>1, <1>2, <1>3, <1>4, <1>5, <1>6, <1>7

\* Stop_current detaches first.
LEMMA StopCurrentKeepsHost ==
  ASSUME HostIInv, StopCurrent
  PROVE  HostInv'
<1> USE DEF HostIInv, HostInv
<1>1. HostTypeOK'
  <2>1. TypedPlace'
    BY DoneFacts DEF StopCurrent, CallKernel, Stay, loopVars, HostTypeOK, TypedPlace, Places,
       PublicMethods
  <2>2. TypedRoutes'
    BY GenerationAssumption, DetachFacts DEF StopCurrent, CallKernel, HostTypeOK, TypedRoutes
  <2>3. TypedRetry'
    BY RetryFacts DEF StopCurrent, HostTypeOK, TypedRetry
  <2>4. TypedLocals'
    BY DoneFacts, GenerationAssumption, RestartAssumption DEF StopCurrent, loopVars, Gens0,
       HostTypeOK, TypedLocals
  <2>5. TypedRest'
    BY GenerationAssumption DEF StopCurrent, HostTypeOK, TypedRest
  <2> QED
    BY <2>1, <2>2, <2>3, <2>4, <2>5
      DEF HostTypeOK, TypedPlace, TypedRoutes, TypedRetry, TypedLocals, TypedRest
<1>2. RouteIsCurrent'
  BY DEF StopCurrent, Here, Stay, CallKernel, CallEntered, Detach, slotVars, loopVars,
     RouteIsCurrent, HostTypeOK
<1>3. MethodInv'
  BY DEF StopCurrent, Here, Stay, CallKernel, CallEntered, Detach, slotVars, loopVars,
     MethodInv, Stops, Recovers, HostTypeOK
<1>4. HandshakeInv'
  BY DEF StopCurrent, Here, Stay, CallKernel, CallEntered, Detach, slotVars, loopVars,
     HandshakeInv, Disconnected, MethodInv, HostTypeOK
<1>5. KnownInv'
  BY DEF StopCurrent, Here, Stay, CallKernel, CallEntered, Detach, slotVars, loopVars,
     KnownInv, Starts, Stops, Disconnected, Fails, HostTypeOK, MethodInv, Recovers
<1>6. TodoInv'
  BY DEF StopCurrent, Here, Stay, CallKernel, CallEntered, Detach, slotVars, loopVars, TodoInv,
     Starts, Disconnected, HostTypeOK, MethodInv, Recovers
<1>7. BudgetInv'
  BY DEF StopCurrent, Here, Stay, CallKernel, CallEntered, Detach, slotVars, loopVars,
     BudgetInv, StartDue, PaidFor, HostTypeOK, RetryStates, MethodInv
<1> QED
  BY <1>1, <1>2, <1>3, <1>4, <1>5, <1>6, <1>7

\* An active plugin is asked to stop.
LEMMA StopKernelKeepsHost ==
  ASSUME HostIInv, StopKernel
  PROVE  HostInv'
<1> USE DEF HostIInv, HostInv
<1>1. HostTypeOK'
  BY GenerationAssumption, RestartAssumption DEF StopKernel, Here, Stay, NoKernel, CallKernel,
     CallEntered, kernelVars, slotVars, callVars, loopVars, routeVars, HostTypeOK, RetryStates,
     Gens0, Failures, Places, PublicMethods, Generations
<1>2. RouteIsCurrent'
  BY DEF StopKernel, Here, Stay, NoKernel, CallKernel, CallEntered, kernelVars, slotVars,
     callVars, loopVars, routeVars, RouteIsCurrent, HostTypeOK
<1>3. MethodInv'
  BY DEF StopKernel, Here, Stay, NoKernel, CallKernel, CallEntered, kernelVars, slotVars,
     callVars, loopVars, routeVars, MethodInv, Stops, Recovers, HostTypeOK
<1>4. HandshakeInv'
  BY DEF StopKernel, Here, Stay, NoKernel, CallKernel, CallEntered, kernelVars, slotVars,
     callVars, loopVars, routeVars, HandshakeInv, Disconnected, MethodInv, HostTypeOK
<1>5. KnownInv'
  BY DEF StopKernel, Here, Stay, NoKernel, CallKernel, CallEntered, kernelVars, slotVars,
     callVars, loopVars, routeVars, KnownInv, Starts, Stops, Disconnected, Fails, HostTypeOK,
     MethodInv, Recovers
<1>6. TodoInv'
  BY DEF StopKernel, Here, Stay, NoKernel, CallKernel, CallEntered, kernelVars, slotVars,
     callVars, loopVars, routeVars, TodoInv, Starts, Disconnected, HostTypeOK, MethodInv,
     Recovers
<1>7. BudgetInv'
  BY DEF StopKernel, Here, Stay, NoKernel, CallKernel, CallEntered, kernelVars, slotVars,
     callVars, loopVars, routeVars, BudgetInv, StartDue, PaidFor, HostTypeOK, RetryStates,
     MethodInv
<1> QED
  BY <1>1, <1>2, <1>3, <1>4, <1>5, <1>6, <1>7

\* Stop_current polls the kernel.
LEMMA StopPollKeepsHost ==
  ASSUME HostIInv, StopPoll
  PROVE  HostInv'
<1> USE DEF HostIInv, HostInv
<1>1. HostTypeOK'
  BY GenerationAssumption, RestartAssumption DEF StopPoll, Here, Stay, CallKernel, CallEntered,
     slotVars, loopVars, routeVars, HostTypeOK, RetryStates, Gens0, Failures, Places,
     PublicMethods, Generations
<1>2. RouteIsCurrent'
  BY DEF StopPoll, Here, Stay, CallKernel, CallEntered, slotVars, loopVars, routeVars,
     RouteIsCurrent, HostTypeOK
<1>3. MethodInv'
  BY DEF StopPoll, Here, Stay, CallKernel, CallEntered, slotVars, loopVars, routeVars,
     MethodInv, Stops, Recovers, HostTypeOK
<1>4. HandshakeInv'
  BY DEF StopPoll, Here, Stay, CallKernel, CallEntered, slotVars, loopVars, routeVars,
     HandshakeInv, Disconnected, MethodInv, HostTypeOK
<1>5. KnownInv'
  BY DEF StopPoll, Here, Stay, CallKernel, CallEntered, slotVars, loopVars, routeVars,
     KnownInv, Starts, Stops, Disconnected, Fails, HostTypeOK, MethodInv, Recovers
<1>6. TodoInv'
  BY DEF StopPoll, Here, Stay, CallKernel, CallEntered, slotVars, loopVars, routeVars, TodoInv,
     Starts, Disconnected, HostTypeOK, MethodInv, Recovers
<1>7. BudgetInv'
  BY DEF StopPoll, Here, Stay, CallKernel, CallEntered, slotVars, loopVars, routeVars,
     BudgetInv, StartDue, PaidFor, HostTypeOK, RetryStates, MethodInv
<1> QED
  BY <1>1, <1>2, <1>3, <1>4, <1>5, <1>6, <1>7

\* It polls again while the plugin is active.
LEMMA StopAgainKeepsHost ==
  ASSUME HostIInv, StopAgain
  PROVE  HostInv'
<1> USE DEF HostIInv, HostInv
<1>1. HostTypeOK'
  BY GenerationAssumption, RestartAssumption DEF StopAgain, Here, Stay, NoKernel, kernelVars,
     slotVars, callVars, loopVars, routeVars, HostTypeOK, RetryStates, Gens0, Failures, Places,
     PublicMethods, Generations
<1>2. RouteIsCurrent'
  BY DEF StopAgain, Here, Stay, NoKernel, kernelVars, slotVars, callVars, loopVars, routeVars,
     RouteIsCurrent, HostTypeOK
<1>3. MethodInv'
  BY DEF StopAgain, Here, Stay, NoKernel, kernelVars, slotVars, callVars, loopVars, routeVars,
     MethodInv, Stops, Recovers, HostTypeOK
<1>4. HandshakeInv'
  BY DEF StopAgain, Here, Stay, NoKernel, kernelVars, slotVars, callVars, loopVars, routeVars,
     HandshakeInv, Disconnected, MethodInv, HostTypeOK
<1>5. KnownInv'
  BY DEF StopAgain, Here, Stay, NoKernel, kernelVars, slotVars, callVars, loopVars, routeVars,
     KnownInv, Starts, Stops, Disconnected, Fails, HostTypeOK, MethodInv, Recovers
<1>6. TodoInv'
  BY DEF StopAgain, Here, Stay, NoKernel, kernelVars, slotVars, callVars, loopVars, routeVars,
     TodoInv, Starts, Disconnected, HostTypeOK, MethodInv, Recovers
<1>7. BudgetInv'
  BY DEF StopAgain, Here, Stay, NoKernel, kernelVars, slotVars, callVars, loopVars, routeVars,
     BudgetInv, StartDue, PaidFor, HostTypeOK, RetryStates, MethodInv
<1> QED
  BY <1>1, <1>2, <1>3, <1>4, <1>5, <1>6, <1>7

\* At the deadline the slot is failed.
LEMMA StopDeadlineKeepsHost ==
  ASSUME HostIInv, StopDeadline
  PROVE  HostInv'
<1> USE DEF HostIInv, HostInv
<1>1. HostTypeOK'
  BY GenerationAssumption, RestartAssumption DEF StopDeadline, Here, Stay, CallKernel,
     CallEntered, slotVars, loopVars, routeVars, HostTypeOK, RetryStates, Gens0, Failures,
     Places, PublicMethods, Generations
<1>2. RouteIsCurrent'
  BY DEF StopDeadline, Here, Stay, CallKernel, CallEntered, slotVars, loopVars, routeVars,
     RouteIsCurrent, HostTypeOK
<1>3. MethodInv'
  BY DEF StopDeadline, Here, Stay, CallKernel, CallEntered, slotVars, loopVars, routeVars,
     MethodInv, Stops, Recovers, HostTypeOK
<1>4. HandshakeInv'
  BY DEF StopDeadline, Here, Stay, CallKernel, CallEntered, slotVars, loopVars, routeVars,
     HandshakeInv, Disconnected, MethodInv, HostTypeOK
<1>5. KnownInv'
  BY DEF StopDeadline, Here, Stay, CallKernel, CallEntered, slotVars, loopVars, routeVars,
     KnownInv, Starts, Stops, Disconnected, Fails, HostTypeOK, MethodInv, Recovers
<1>6. TodoInv'
  BY DEF StopDeadline, Here, Stay, CallKernel, CallEntered, slotVars, loopVars, routeVars,
     TodoInv, Starts, Disconnected, HostTypeOK, MethodInv, Recovers
<1>7. BudgetInv'
  BY DEF StopDeadline, Here, Stay, CallKernel, CallEntered, slotVars, loopVars, routeVars,
     BudgetInv, StartDue, PaidFor, HostTypeOK, RetryStates, MethodInv
<1> QED
  BY <1>1, <1>2, <1>3, <1>4, <1>5, <1>6, <1>7

\* And the kernel refreshed.
LEMMA StopDeadlineRefreshKeepsHost ==
  ASSUME HostIInv, StopDeadlineRefresh
  PROVE  HostInv'
<1> USE DEF HostIInv, HostInv
<1>1. HostTypeOK'
  BY GenerationAssumption, RestartAssumption DEF StopDeadlineRefresh, Here, Stay, CallKernel,
     CallEntered, slotVars, loopVars, routeVars, HostTypeOK, RetryStates, Gens0, Failures,
     Places, PublicMethods, Generations
<1>2. RouteIsCurrent'
  BY DEF StopDeadlineRefresh, Here, Stay, CallKernel, CallEntered, slotVars, loopVars,
     routeVars, RouteIsCurrent, HostTypeOK
<1>3. MethodInv'
  BY DEF StopDeadlineRefresh, Here, Stay, CallKernel, CallEntered, slotVars, loopVars,
     routeVars, MethodInv, Stops, Recovers, HostTypeOK
<1>4. HandshakeInv'
  BY DEF StopDeadlineRefresh, Here, Stay, CallKernel, CallEntered, slotVars, loopVars,
     routeVars, HandshakeInv, Disconnected, MethodInv, HostTypeOK
<1>5. KnownInv'
  BY DEF StopDeadlineRefresh, Here, Stay, CallKernel, CallEntered, slotVars, loopVars,
     routeVars, KnownInv, Starts, Stops, Disconnected, Fails, HostTypeOK, MethodInv, Recovers
<1>6. TodoInv'
  BY DEF StopDeadlineRefresh, Here, Stay, CallKernel, CallEntered, slotVars, loopVars,
     routeVars, TodoInv, Starts, Disconnected, HostTypeOK, MethodInv, Recovers
<1>7. BudgetInv'
  BY DEF StopDeadlineRefresh, Here, Stay, CallKernel, CallEntered, slotVars, loopVars,
     routeVars, BudgetInv, StartDue, PaidFor, HostTypeOK, RetryStates, MethodInv
<1> QED
  BY <1>1, <1>2, <1>3, <1>4, <1>5, <1>6, <1>7

\* stop_current is over, for disable or for recovery.
StopEnds ==
  /\ at \in Stops /\ op = "none" /\ call \in {"disable", "refresh", "enable"}
  /\ IF call = "refresh"
       THEN /\ Detach(id) /\ progressed' = TRUE /\ NoKernel("rc.next")
            /\ Stay /\ UNCHANGED <<gen, peer, todo, item, pass>>
       ELSE /\ NoKernel("idle") /\ Done /\ KeepRoutes
  /\ UNCHANGED <<slots, retry, backlog, connected, base>>

\* Stop_current ends for disable or for recovery.
LEMMA StopEndsKeepsHost ==
  ASSUME HostIInv, StopEnds
  PROVE  HostInv'
<1> USE DEF HostIInv, HostInv
<1>1. HostTypeOK'
  <2>1. TypedPlace'
    BY DoneFacts DEF StopEnds, NoKernel, Stay, routeVars, KeepRoutes, HostTypeOK, TypedPlace,
       Places, PublicMethods
  <2>2. TypedRoutes'
    BY GenerationAssumption, DetachFacts DEF StopEnds, NoKernel, routeVars, HostTypeOK,
       TypedRoutes, KeepRoutes
  <2>3. TypedRetry'
    BY RetryFacts DEF StopEnds, HostTypeOK, TypedRetry
  <2>4. TypedLocals'
    BY DoneFacts, GenerationAssumption, RestartAssumption DEF StopEnds, NoKernel, Gens0,
       HostTypeOK, TypedLocals
  <2>5. TypedRest'
    BY GenerationAssumption DEF StopEnds, HostTypeOK, TypedRest
  <2> QED
    BY <2>1, <2>2, <2>3, <2>4, <2>5
      DEF HostTypeOK, TypedPlace, TypedRoutes, TypedRetry, TypedLocals, TypedRest
<1>2. RouteIsCurrent'
  BY DEF StopEnds, Stops, Done, Stay, NoKernel, Detach, KeepRoutes, kernelVars, slotVars,
     callVars, routeVars, RouteIsCurrent, HostTypeOK
<1>3. MethodInv'
  BY DEF StopEnds, Stops, Done, Stay, NoKernel, Detach, KeepRoutes, kernelVars, slotVars,
     callVars, routeVars, MethodInv, Stops, Recovers, HostTypeOK
<1>4. HandshakeInv'
  BY DEF StopEnds, Stops, Done, Stay, NoKernel, Detach, KeepRoutes, kernelVars, slotVars,
     callVars, routeVars, HandshakeInv, Disconnected, MethodInv, HostTypeOK
<1>5. KnownInv'
  BY DEF StopEnds, Stops, Done, Stay, NoKernel, Detach, KeepRoutes, kernelVars, slotVars,
     callVars, routeVars, KnownInv, Starts, Stops, Disconnected, Fails, HostTypeOK, MethodInv,
     Recovers
<1>6. TodoInv'
  BY DEF StopEnds, Stops, Done, Stay, NoKernel, Detach, KeepRoutes, kernelVars, slotVars,
     callVars, routeVars, TodoInv, Starts, Disconnected, HostTypeOK, MethodInv, Recovers
<1>7. BudgetInv'
  BY DEF StopEnds, Stops, Done, Stay, NoKernel, Detach, KeepRoutes, kernelVars, slotVars,
     callVars, routeVars, BudgetInv, StartDue, PaidFor, HostTypeOK, RetryStates, MethodInv
<1> QED
  BY <1>1, <1>2, <1>3, <1>4, <1>5, <1>6, <1>7

\* Stop_current returns to its caller.
LEMMA StopReturnsKeepsHost ==
  ASSUME HostIInv, StopReturns
  PROVE  HostInv'
<1>1. at \in Stops /\ op = "none" /\ call \in {"enable", "disable", "refresh"}
  BY DEF StopReturns, Here, Stops, HostIInv, HostInv, MethodInv
<1>2. CASE call # "enable"
  <2>1. StopEnds
    BY <1>1, <1>2 DEF StopReturns, StopEnds
  <2> QED
    BY <2>1, StopEndsKeepsHost
<1>3. CASE call = "enable"
  <2> USE DEF HostIInv, HostInv
  <2>1. /\ retry' = [retry EXCEPT ![id] = FreshRetry]
        /\ base' = [base EXCEPT ![id] = generation[id]]
        /\ at' = "sg" /\ call' = call /\ id' = id
        /\ UNCHANGED <<slots, backlog, connected>> /\ UNCHANGED kernelVars
        /\ UNCHANGED routeVars /\ UNCHANGED locals
    BY <1>3 DEF StopReturns, ManualRestart, NoKernel, Stay, KeepRoutes
  <2>2. /\ op' = "none" /\ generation' = generation /\ state' = state
        /\ UNCHANGED <<conn, session, catalog, gen, peer, todo, item, progressed, pass>>
    BY <1>1, <2>1 DEF kernelVars, slotVars, callVars, routeVars, locals, loopVars
  <2>3. /\ id \in Plugins /\ generation[id] \in Gens0 /\ generation[id] \in Nat
        /\ FreshRetry \in RetryStates /\ FreshRetry.restarts = 0 /\ FreshRetry.enabled
        /\ retry \in [Plugins -> RetryStates] /\ base \in [Plugins -> Gens0]
    <3>1. /\ id \in Plugins /\ retry \in [Plugins -> RetryStates] /\ base \in [Plugins -> Gens0]
          /\ generation[id] \in Gens0
      BY DEF HostTypeOK, KernelIInv, KernelTypeOK, Gens0
    <3>2. generation[id] \in Nat
      BY <3>1, GenerationAssumption DEF Gens0
    <3>3. FreshRetry \in RetryStates
      BY <3>1, RetryFacts
    <3>4. FreshRetry.restarts = 0 /\ FreshRetry.enabled
      BY DEF FreshRetry
    <3> QED
      BY <3>1, <3>2, <3>3, <3>4
  <2>4. /\ retry'[id] = FreshRetry /\ base'[id] = generation[id]
        /\ \A q \in Plugins : q # id => retry'[q] = retry[q] /\ base'[q] = base[q]
    BY <2>1, <2>3
  <2>5. HostTypeOK'
    <3>1. retry' \in [Plugins -> RetryStates] /\ base' \in [Plugins -> Gens0]
      BY <2>1, <2>3
    <3> QED
      BY <1>1, <2>1, <2>2, <3>1 DEF HostTypeOK, Places
  <2>6. RouteIsCurrent'
    BY <2>2 DEF RouteIsCurrent
  <2>7. MethodInv' /\ HandshakeInv'
    BY <1>3, <2>1, <2>2 DEF MethodInv, HandshakeInv, Stops, Recovers, Disconnected
  <2>8. KnownInv'
    BY <1>1, <2>1, <2>2, <2>3, <2>4 DEF KnownInv
  <2>9. TodoInv'
    BY <1>3, <2>1, <2>2 DEF TodoInv
  <2>10. BudgetInv'
    <3>1. ASSUME NEW q \in Plugins, q # id
          PROVE  generation'[q] <= base'[q] + 1 + retry'[q].restarts /\ ~StartDue(q)'
      BY <2>1, <2>2, <2>4, <3>1 DEF BudgetInv, StartDue
    <3>2. generation'[id] < base'[id] + 1 + retry'[id].restarts /\ PaidFor(id)'
      BY <1>3, <2>1, <2>2, <2>3, <2>4 DEF PaidFor
    <3>3. generation'[id] <= base'[id] + 1 + retry'[id].restarts
      BY <2>2, <2>3, <2>4
    <3>4. \A q \in Plugins :
             /\ generation'[q] <= base'[q] + 1 + retry'[q].restarts
             /\ StartDue(q)' => PaidFor(q)' /\ generation'[q] < base'[q] + 1 + retry'[q].restarts
      <4>1. TAKE q \in Plugins
      <4>2. CASE q = id
        BY <2>1, <3>2, <3>3, <4>2 DEF PaidFor
      <4>3. CASE q # id
        BY <3>1, <4>3
      <4> QED
        BY <4>2, <4>3
    <3> QED
      BY <3>4 DEF BudgetInv
  <2> QED
    BY <2>5, <2>6, <2>7, <2>8, <2>9, <2>10
<1> QED
  BY <1>2, <1>3

\* A stop that found no supervisor.
LEMMA StopErrKeepsHost ==
  ASSUME HostIInv, StopErr
  PROVE  HostInv'
<1>1. StopEnds
  BY DEF StopErr, StopEnds, Here, Stops, HostIInv, HostInv, MethodInv
<1> QED
  BY <1>1, StopEndsKeepsHost

\* A recovery pass begins with a refresh.
LEMMA RecoverPassKeepsHost ==
  ASSUME HostIInv, RecoverPass
  PROVE  HostInv'
<1> USE DEF HostIInv, HostInv
<1>1. HostTypeOK'
  BY GenerationAssumption, RestartAssumption DEF RecoverPass, Here, Stay, CallKernel,
     CallEntered, slotVars, loopVars, routeVars, HostTypeOK, RetryStates, Gens0, Failures,
     Places, PublicMethods, Generations
<1>2. RouteIsCurrent'
  BY DEF RecoverPass, Here, Stay, CallKernel, CallEntered, slotVars, loopVars, routeVars,
     RouteIsCurrent, HostTypeOK
<1>3. MethodInv'
  BY DEF RecoverPass, Here, Stay, CallKernel, CallEntered, slotVars, loopVars, routeVars,
     MethodInv, Stops, Recovers, HostTypeOK
<1>4. HandshakeInv'
  BY DEF RecoverPass, Here, Stay, CallKernel, CallEntered, slotVars, loopVars, routeVars,
     HandshakeInv, Disconnected, MethodInv, HostTypeOK
<1>5. KnownInv'
  BY DEF RecoverPass, Here, Stay, CallKernel, CallEntered, slotVars, loopVars, routeVars,
     KnownInv, Starts, Stops, Disconnected, Fails, HostTypeOK, MethodInv, Recovers
<1>6. TodoInv'
  BY DEF RecoverPass, Here, Stay, CallKernel, CallEntered, slotVars, loopVars, routeVars,
     TodoInv, Starts, Disconnected, HostTypeOK, MethodInv, Recovers
<1>7. BudgetInv'
  BY DEF RecoverPass, Here, Stay, CallKernel, CallEntered, slotVars, loopVars, routeVars,
     BudgetInv, StartDue, PaidFor, HostTypeOK, RetryStates, MethodInv
<1> QED
  BY <1>1, <1>2, <1>3, <1>4, <1>5, <1>6, <1>7

\* The failures of a pass are those of the current generations.
LEMMA RecoverCollectKeepsHost ==
  ASSUME HostIInv, RecoverCollect
  PROVE  HostInv'
<1> USE DEF HostIInv, HostInv
<1>1. HostTypeOK'
  <2>1. TypedPlace'
    BY DoneFacts DEF RecoverCollect, CallKernel, NoKernel, Stay, LeaveRecovery, routeVars,
       HostTypeOK, TypedPlace, Places, PublicMethods
  <2>2. TypedRoutes'
    BY GenerationAssumption, DetachFacts DEF RecoverCollect, CallKernel, NoKernel, routeVars,
       HostTypeOK, TypedRoutes
  <2>3. TypedRetry'
    BY RetryFacts DEF RecoverCollect, HostTypeOK, TypedRetry
  <2>4. TypedLocals'
    <3>1. FailedNow \subseteq Failures
      BY FailedNowTyped DEF KernelIInv
    <3> QED
      BY <3>1 DEF RecoverCollect, HostTypeOK, TypedLocals
  <2>5. TypedRest'
    BY GenerationAssumption DEF RecoverCollect, HostTypeOK, TypedRest
  <2> QED
    BY <2>1, <2>2, <2>3, <2>4, <2>5
      DEF HostTypeOK, TypedPlace, TypedRoutes, TypedRetry, TypedLocals, TypedRest
<1>2. RouteIsCurrent'
  BY DEF RecoverCollect, Here, Stay, NoKernel, CallKernel, CallEntered, LeaveRecovery,
     kernelVars, slotVars, callVars, routeVars, RouteIsCurrent, HostTypeOK
<1>3. MethodInv'
  BY DEF RecoverCollect, Here, Stay, NoKernel, CallKernel, CallEntered, LeaveRecovery,
     kernelVars, slotVars, callVars, routeVars, MethodInv, Stops, Recovers, HostTypeOK
<1>4. HandshakeInv'
  BY DEF RecoverCollect, Here, Stay, NoKernel, CallKernel, CallEntered, LeaveRecovery,
     kernelVars, slotVars, callVars, routeVars, HandshakeInv, Disconnected, MethodInv,
     HostTypeOK
<1>5. KnownInv'
  BY DEF RecoverCollect, Here, Stay, NoKernel, CallKernel, CallEntered, LeaveRecovery,
     kernelVars, slotVars, callVars, routeVars, KnownInv, Starts, Stops, Disconnected, Fails,
     HostTypeOK, MethodInv, Recovers
<1>6. TodoInv'
  <2>1. \A f \in FailedNow : f.gen = generation[f.id] /\ state[f.id] = "Failed"
    BY DEF FailedNow
  <2>2. /\ todo' = FailedNow /\ at' \notin Starts /\ at' # "idle" /\ call' = call /\ call = "refresh"
        /\ generation' = generation /\ state' = state
    BY DEF RecoverCollect, Here, LeaveRecovery, CallKernel, CallEntered, NoKernel, kernelVars,
       slotVars, Stay, Starts, Disconnected, MethodInv, Recovers
  <2> QED
    BY <2>1, <2>2 DEF TodoInv
<1>7. BudgetInv'
  BY DEF RecoverCollect, Here, Stay, NoKernel, CallKernel, CallEntered, LeaveRecovery,
     kernelVars, slotVars, callVars, routeVars, BudgetInv, StartDue, PaidFor, HostTypeOK,
     RetryStates, MethodInv
<1> QED
  BY <1>1, <1>2, <1>3, <1>4, <1>5, <1>6, <1>7

\* What recovery decides about a failure: to pass over it, to pay for a restart,
\* or to end the enable cycle.
RecoverVerdict(f, q) ==
  /\ q \in RetryStates /\ retry' = [retry EXCEPT ![f.id] = q]
  /\ \/ /\ at' = "rc.next" /\ KeepRoutes
        /\ q.restarts = retry[f.id].restarts /\ q.enabled = retry[f.id].enabled
     \/ /\ at' = "sg" /\ Detach(f.id)
        /\ q.enabled /\ q.handled = f.gen /\ q.restarts = retry[f.id].restarts + 1
     \/ /\ at' = "sc" /\ KeepRoutes
        /\ q.restarts = retry[f.id].restarts

LEMMA RecoverDecides ==
  ASSUME HostTypeOK, NEW f \in Failures, RecoverItem(f)
  PROVE  \E q : RecoverVerdict(f, q)
<1> DEFINE r == retry[f.id]
           seen == Observe(r, f.gen)
           verdict == OnFailure(seen, f.gen)
<1>1. f.id \in Plugins /\ f.gen \in Gens0 /\ r \in RetryStates /\ 0 \in Gens0
      /\ retry \in [Plugins -> RetryStates]
  BY GenerationAssumption DEF Failures, HostTypeOK, Gens0
<1>2. seen \in RetryStates /\ seen.restarts = r.restarts /\ seen.enabled = r.enabled
  BY <1>1, RetryFacts
<1>3. /\ verdict.next \in RetryStates /\ verdict.action \in {"None", "Restart", "Disable"}
      /\ verdict.action = "Restart" => /\ verdict.next.enabled /\ verdict.next.handled = f.gen
                                        /\ verdict.next.restarts = seen.restarts + 1
      /\ verdict.action # "Restart" => verdict.next.restarts = seen.restarts
      /\ verdict.action = "None" => verdict.next.enabled = seen.enabled
  <2> HIDE DEF seen
  <2> QED
    BY <1>1, <1>2, RetryFacts
<1>4. DisableRetry(verdict.next) \in RetryStates
      /\ DisableRetry(verdict.next).restarts = verdict.next.restarts
  <2> HIDE DEF verdict
  <2> QED
    BY <1>1, <1>3, RetryFacts
<1>5. \/ retry' = retry /\ KeepRoutes /\ at' = "rc.next"
      \/ /\ verdict.action = "None" /\ retry' = [retry EXCEPT ![f.id] = verdict.next]
         /\ KeepRoutes /\ at' = "rc.next"
      \/ /\ verdict.action = "Restart" /\ retry' = [retry EXCEPT ![f.id] = verdict.next]
         /\ Detach(f.id) /\ at' = "sg"
      \/ /\ verdict.action = "Disable"
         /\ retry' = [retry EXCEPT ![f.id] = DisableRetry(verdict.next)]
         /\ KeepRoutes /\ at' = "sc"
  BY <1>3 DEF RecoverItem, NoKernel
<1> HIDE DEF verdict, seen
<1>6. CASE retry' = retry /\ KeepRoutes /\ at' = "rc.next"
  <2>1. retry' = [retry EXCEPT ![f.id] = r]
    BY <1>1, <1>6
  <2> QED
    BY <1>1, <1>6, <2>1 DEF RecoverVerdict
<1>7. ASSUME NEW q, q \in {verdict.next, DisableRetry(verdict.next)},
             retry' = [retry EXCEPT ![f.id] = q],
             \/ verdict.action = "None" /\ q = verdict.next /\ KeepRoutes /\ at' = "rc.next"
             \/ verdict.action = "Restart" /\ q = verdict.next /\ Detach(f.id) /\ at' = "sg"
             \/ /\ verdict.action = "Disable" /\ q = DisableRetry(verdict.next)
                /\ KeepRoutes /\ at' = "sc"
      PROVE  RecoverVerdict(f, q)
  BY <1>2, <1>3, <1>4, <1>7 DEF RecoverVerdict
<1> QED
  BY <1>5, <1>6, <1>7

\* A failure is paid for before the restart it causes.
LEMMA RecoverItemKeepsHost ==
  ASSUME NEW f \in Failures, HostIInv, RecoverItem(f)
  PROVE  HostInv'
<1> USE DEF HostIInv, HostInv
<1>1. /\ at = "rc.next" /\ op = "none" /\ f \in todo /\ todo' = todo \ {f} /\ item' = f /\ id' = f.id
      /\ UNCHANGED <<slots, backlog, connected, call, gen, peer, progressed, pass, base>>
  BY DEF RecoverItem, Here
<1>2. UNCHANGED kernelVars
  BY DEF RecoverItem, NoKernel, OnFailure
<1>3. generation' = generation /\ state' = state /\ op' = "none"
  BY <1>1, <1>2 DEF kernelVars, slotVars, callVars
<1>4. f.id \in Plugins /\ f.gen = generation[f.id] /\ state[f.id] = "Failed" /\ call = "refresh"
  BY <1>1 DEF Failures, TodoInv, MethodInv, Recovers
<1>5. PICK q : RecoverVerdict(f, q)
  BY RecoverDecides
<1>6. /\ retry'[f.id] = q /\ q \in RetryStates /\ at' \in {"rc.next", "sg", "sc"}
      /\ \A p \in Plugins : p # f.id => retry'[p] = retry[p]
      /\ retry' \in [Plugins -> RetryStates]
  BY <1>4, <1>5 DEF RecoverVerdict, HostTypeOK
<1>7. TypedRoutes' /\ RouteIsCurrent'
  <2>1. CASE KeepRoutes
    BY <1>3, <2>1 DEF KeepRoutes, routeVars, RouteIsCurrent, TypedRoutes, HostTypeOK
  <2>2. CASE Detach(f.id)
    BY <1>3, <1>4, <2>2, DetachFacts
  <2> QED
    BY <1>5, <2>1, <2>2 DEF RecoverVerdict
<1>8. HostTypeOK'
  BY <1>1, <1>4, <1>6, <1>7 DEF HostTypeOK, TypedRoutes, Places
<1>9. MethodInv' /\ HandshakeInv'
  BY <1>1, <1>3, <1>4, <1>6 DEF MethodInv, HandshakeInv, Stops, Recovers, Disconnected
<1>10. KnownInv'
  BY <1>1, <1>3, <1>4, <1>6 DEF KnownInv
<1>11. TodoInv'
  <2>1. \A e \in todo' : e.gen = generation[e.id] /\ state[e.id] = "Failed"
    BY <1>1 DEF TodoInv
  <2>2. ASSUME NEW e \in todo', e.id = f.id PROVE FALSE
    <3>1. e \in Failures /\ f \in Failures /\ e # f /\ e.gen = f.gen
      BY <1>1, <1>4, <2>1, <2>2 DEF HostTypeOK
    <3> QED
      BY <2>2, <3>1 DEF Failures
  <2> QED
    BY <1>1, <1>3, <1>4, <1>6, <2>1, <2>2 DEF TodoInv
<1>12. BudgetInv'
  <2>1. ASSUME NEW p \in Plugins, p # f.id
        PROVE  generation'[p] <= base'[p] + 1 + retry'[p].restarts /\ ~StartDue(p)'
    BY <1>1, <1>3, <1>6, <2>1 DEF BudgetInv, StartDue
  <2>2. /\ generation[f.id] <= base[f.id] + 1 + retry[f.id].restarts
        /\ generation[f.id] \in Nat /\ base[f.id] \in Nat
        /\ retry[f.id].restarts \in Nat /\ q.restarts \in Nat
    <3>1. /\ generation[f.id] <= base[f.id] + 1 + retry[f.id].restarts
          /\ generation[f.id] \in Gens0 /\ base[f.id] \in Gens0 /\ retry[f.id] \in RetryStates
      BY <1>4 DEF BudgetInv, KernelIInv, KernelTypeOK, HostTypeOK, Gens0
    <3>2. \A r \in RetryStates : r.restarts \in Nat
      BY RestartAssumption DEF RetryStates
    <3>3. Gens0 \subseteq Nat
      BY GenerationAssumption DEF Gens0
    <3> QED
      BY <1>6, <3>1, <3>2, <3>3
  <2>3. CASE q.restarts = retry[f.id].restarts /\ at' # "sg"
    <3>1. ~StartDue(f.id)'
      BY <1>3, <1>6, <2>3 DEF StartDue
    <3> QED
      BY <1>1, <1>3, <1>6, <2>1, <2>2, <2>3, <3>1 DEF BudgetInv
  <2>4. CASE q.enabled /\ q.handled = f.gen /\ q.restarts = retry[f.id].restarts + 1
    <3>1. PaidFor(f.id)'
      BY <1>1, <1>3, <1>4, <1>6, <2>2, <2>4 DEF PaidFor
    <3>2. generation'[f.id] < base'[f.id] + 1 + retry'[f.id].restarts
      BY <1>1, <1>3, <1>6, <2>2, <2>4
    <3>3. generation'[f.id] <= base'[f.id] + 1 + retry'[f.id].restarts
      BY <1>1, <1>3, <1>6, <2>2, <2>4
    <3> QED
      BY <2>1, <3>1, <3>2, <3>3 DEF BudgetInv
  <2> QED
    BY <1>5, <2>3, <2>4 DEF RecoverVerdict
<1> QED
  BY <1>7, <1>8, <1>9, <1>10, <1>11, <1>12

\* A failed restart is judged.
LEMMA RecoverJudgeKeepsHost ==
  ASSUME HostIInv, RecoverJudge
  PROVE  HostInv'
<1> USE DEF HostIInv, HostInv
<1>0. at = "rc.judge" /\ slots' = slots /\ base' = base /\ id' = id
      /\ generation' = generation /\ state' = state /\ op' = "none" /\ at' \in {"rc.next", "sc"}
      /\ id \in Plugins
  BY DEF RecoverJudge, Here, Stay, NoKernel, kernelVars, slotVars, callVars, HostTypeOK
<1>00. retry' = retry \/ retry' = [retry EXCEPT ![id] = DisableRetry(@)]
  BY DEF RecoverJudge
<1>1. HostTypeOK'
  <2>1. TypedPlace'
    BY DoneFacts DEF RecoverJudge, NoKernel, Stay, routeVars, HostTypeOK, TypedPlace, Places,
       PublicMethods
  <2>2. TypedRoutes'
    BY GenerationAssumption, DetachFacts DEF RecoverJudge, NoKernel, routeVars, HostTypeOK,
       TypedRoutes
  <2>3. TypedRetry'
    BY <1>0, <1>00, DisableRetryFacts DEF TypedRetry, HostTypeOK
  <2>4. TypedLocals'
    BY DoneFacts, GenerationAssumption, RestartAssumption DEF RecoverJudge, NoKernel, Gens0,
       HostTypeOK, TypedLocals
  <2>5. TypedRest'
    BY GenerationAssumption DEF RecoverJudge, HostTypeOK, TypedRest
  <2> QED
    BY <2>1, <2>2, <2>3, <2>4, <2>5
      DEF HostTypeOK, TypedPlace, TypedRoutes, TypedRetry, TypedLocals, TypedRest
<1>2. RouteIsCurrent'
  BY DEF RecoverJudge, Here, Stay, NoKernel, kernelVars, slotVars, callVars, routeVars,
     RouteIsCurrent, HostTypeOK
<1>3. MethodInv'
  BY DEF RecoverJudge, Here, Stay, NoKernel, kernelVars, slotVars, callVars, routeVars,
     MethodInv, Stops, Recovers, HostTypeOK
<1>4. HandshakeInv'
  BY DEF RecoverJudge, Here, Stay, NoKernel, kernelVars, slotVars, callVars, routeVars,
     HandshakeInv, Disconnected, MethodInv, HostTypeOK
<1>5. KnownInv'
  BY DEF RecoverJudge, Here, Stay, NoKernel, kernelVars, slotVars, callVars, routeVars,
     KnownInv, Starts, Stops, Disconnected, Fails, HostTypeOK, MethodInv, Recovers
<1>6. TodoInv'
  BY DEF RecoverJudge, Here, Stay, NoKernel, kernelVars, slotVars, callVars, routeVars,
     TodoInv, Starts, Disconnected, HostTypeOK, MethodInv, Recovers
<1>7. BudgetInv'
  <2>1. \A q \in Plugins : ~StartDue(q)'
    BY <1>0 DEF StartDue
  <2>2. \A q \in Plugins : retry'[q].restarts = retry[q].restarts
    BY <1>0, <1>00, DisableRetryFacts
  <2> QED
    BY <1>0, <2>1, <2>2, BudgetKept
<1> QED
  BY <1>1, <1>2, <1>3, <1>4, <1>5, <1>6, <1>7

\* A pass ends.
LEMMA RecoverPassEndsKeepsHost ==
  ASSUME HostIInv, RecoverPassEnds
  PROVE  HostInv'
<1> USE DEF HostIInv, HostInv
<1>1. HostTypeOK'
  <2>1. TypedPlace'
    BY DoneFacts DEF RecoverPassEnds, CallKernel, NoKernel, Stay, LeaveRecovery, routeVars,
       HostTypeOK, TypedPlace, Places, PublicMethods
  <2>2. TypedRoutes'
    BY GenerationAssumption, DetachFacts DEF RecoverPassEnds, CallKernel, NoKernel, routeVars,
       HostTypeOK, TypedRoutes
  <2>3. TypedRetry'
    BY RetryFacts DEF RecoverPassEnds, HostTypeOK, TypedRetry
  <2>4. TypedLocals'
    BY DoneFacts, GenerationAssumption, RestartAssumption DEF RecoverPassEnds, NoKernel, Gens0,
       HostTypeOK, TypedLocals
  <2>5. TypedRest'
    BY GenerationAssumption DEF RecoverPassEnds, HostTypeOK, TypedRest
  <2> QED
    BY <2>1, <2>2, <2>3, <2>4, <2>5
      DEF HostTypeOK, TypedPlace, TypedRoutes, TypedRetry, TypedLocals, TypedRest
<1>2. RouteIsCurrent'
  BY DEF RecoverPassEnds, Here, Stay, NoKernel, CallKernel, CallEntered, LeaveRecovery,
     kernelVars, slotVars, callVars, routeVars, RouteIsCurrent, HostTypeOK
<1>3. MethodInv'
  BY DEF RecoverPassEnds, Here, Stay, NoKernel, CallKernel, CallEntered, LeaveRecovery,
     kernelVars, slotVars, callVars, routeVars, MethodInv, Stops, Recovers, HostTypeOK
<1>4. HandshakeInv'
  BY DEF RecoverPassEnds, Here, Stay, NoKernel, CallKernel, CallEntered, LeaveRecovery,
     kernelVars, slotVars, callVars, routeVars, HandshakeInv, Disconnected, MethodInv,
     HostTypeOK
<1>5. KnownInv'
  BY DEF RecoverPassEnds, Here, Stay, NoKernel, CallKernel, CallEntered, LeaveRecovery,
     kernelVars, slotVars, callVars, routeVars, KnownInv, Starts, Stops, Disconnected, Fails,
     HostTypeOK, MethodInv, Recovers
<1>6. TodoInv'
  BY DEF RecoverPassEnds, Here, Stay, NoKernel, CallKernel, CallEntered, LeaveRecovery,
     kernelVars, slotVars, callVars, routeVars, TodoInv, Starts, Disconnected, HostTypeOK,
     MethodInv, Recovers
<1>7. BudgetInv'
  BY DEF RecoverPassEnds, Here, Stay, NoKernel, CallKernel, CallEntered, LeaveRecovery,
     kernelVars, slotVars, callVars, routeVars, BudgetInv, StartDue, PaidFor, HostTypeOK,
     RetryStates, MethodInv
<1> QED
  BY <1>1, <1>2, <1>3, <1>4, <1>5, <1>6, <1>7

\* Connections of inactive plugins are dropped.
LEMMA PruneKeepsHost ==
  ASSUME HostIInv, Prune
  PROVE  HostInv'
<1> USE DEF HostIInv, HostInv
<1>1. HostTypeOK'
  <2>1. TypedPlace'
    BY DoneFacts DEF Prune, NoKernel, HostTypeOK, TypedPlace, Places, PublicMethods
  <2>2. TypedRoutes'
    <3>1. 0 \in Gens0
      BY GenerationAssumption DEF Gens0
    <3> QED
      BY <3>1 DEF Prune, HostTypeOK, TypedRoutes
  <2>3. TypedRetry'
    BY RetryFacts DEF Prune, HostTypeOK, TypedRetry
  <2>4. TypedLocals'
    BY DoneFacts, GenerationAssumption, RestartAssumption DEF Prune, NoKernel, Gens0,
       HostTypeOK, TypedLocals
  <2>5. TypedRest'
    BY GenerationAssumption DEF Prune, HostTypeOK, TypedRest
  <2> QED
    BY <2>1, <2>2, <2>3, <2>4, <2>5
      DEF HostTypeOK, TypedPlace, TypedRoutes, TypedRetry, TypedLocals, TypedRest
<1>2. RouteIsCurrent'
  BY DEF Prune, Here, Done, NoKernel, kernelVars, slotVars, callVars, RouteIsCurrent, HostTypeOK
<1>3. MethodInv'
  BY DEF Prune, Here, Done, NoKernel, kernelVars, slotVars, callVars, MethodInv, Stops,
     Recovers, HostTypeOK
<1>4. HandshakeInv'
  BY DEF Prune, Here, Done, NoKernel, kernelVars, slotVars, callVars, HandshakeInv,
     Disconnected, MethodInv, HostTypeOK
<1>5. KnownInv'
  BY DEF Prune, Here, Done, NoKernel, kernelVars, slotVars, callVars, KnownInv, Starts, Stops,
     Disconnected, Fails, HostTypeOK, MethodInv, Recovers
<1>6. TodoInv'
  BY DEF Prune, Here, Done, NoKernel, kernelVars, slotVars, callVars, TodoInv, Starts,
     Disconnected, HostTypeOK, MethodInv, Recovers
<1>7. BudgetInv'
  BY DEF Prune, Here, Done, NoKernel, kernelVars, slotVars, callVars, BudgetInv, StartDue,
     PaidFor, HostTypeOK, RetryStates, MethodInv
<1> QED
  BY <1>1, <1>2, <1>3, <1>4, <1>5, <1>6, <1>7

\* A process connects to the listener.
LEMMA ChildConnectKeepsHost ==
  ASSUME NEW p \in Plugins, NEW g \in Generations, HostIInv, ChildConnect(p, g)
  PROVE  HostInv'
<1> USE DEF HostIInv, HostInv
<1>1. HostTypeOK'
  <2>1. TypedPlace'
    BY DoneFacts DEF ChildConnect, loopVars, routeVars, HostTypeOK, TypedPlace, Places,
       PublicMethods
  <2>2. TypedRoutes'
    BY GenerationAssumption, DetachFacts DEF ChildConnect, routeVars, HostTypeOK, TypedRoutes
  <2>3. TypedRetry'
    BY RetryFacts DEF ChildConnect, HostTypeOK, TypedRetry
  <2>4. TypedLocals'
    BY DoneFacts, GenerationAssumption, RestartAssumption DEF ChildConnect, loopVars, Gens0,
       HostTypeOK, TypedLocals
  <2>5. TypedRest'
    BY GenerationAssumption DEF ChildConnect, HostTypeOK, TypedRest
  <2> QED
    BY <2>1, <2>2, <2>3, <2>4, <2>5
      DEF HostTypeOK, TypedPlace, TypedRoutes, TypedRetry, TypedLocals, TypedRest
<1>2. RouteIsCurrent'
  BY DEF ChildConnect, kernelVars, slotVars, callVars, loopVars, routeVars, RouteIsCurrent,
     HostTypeOK
<1>3. MethodInv'
  BY DEF ChildConnect, kernelVars, slotVars, callVars, loopVars, routeVars, MethodInv, Stops,
     Recovers, HostTypeOK
<1>4. HandshakeInv'
  BY DEF ChildConnect, kernelVars, slotVars, callVars, loopVars, routeVars, HandshakeInv,
     Disconnected, MethodInv, HostTypeOK
<1>5. KnownInv'
  BY DEF ChildConnect, kernelVars, slotVars, callVars, loopVars, routeVars, KnownInv, Starts,
     Stops, Disconnected, Fails, HostTypeOK, MethodInv, Recovers
<1>6. TodoInv'
  BY DEF ChildConnect, kernelVars, slotVars, callVars, loopVars, routeVars, TodoInv, Starts,
     Disconnected, HostTypeOK, MethodInv, Recovers
<1>7. BudgetInv'
  BY DEF ChildConnect, kernelVars, slotVars, callVars, loopVars, routeVars, BudgetInv,
     StartDue, PaidFor, HostTypeOK, RetryStates, MethodInv
<1> QED
  BY <1>1, <1>2, <1>3, <1>4, <1>5, <1>6, <1>7
-----------------------------------------------------------------------------
(***************************************************************************)
(* The invariant, and what follows from it.                                *)
(***************************************************************************)
\* A step inside the kernel, of a supervisor or of a process.
LEMMA KernelKeepsHost ==
  ASSUME HostIInv, KernelStep \/ Environment, UNCHANGED hostVars
  PROVE  HostInv'
<1> USE DEF HostIInv, HostInv
<1>1. KernelKeeps
  BY KernelStepKeeps, EnvironmentKeeps
<1>2. UNCHANGED <<slots, conn, session, catalog, retry, backlog, connected, call, at, id, gen, peer,
                  todo, item, progressed, pass, base>>
  BY DEF hostVars, routeVars, loopVars
<1>3. /\ id \in Plugins /\ op \in {op, "none"}
      /\ generation \in [Plugins -> Nat] /\ base \in [Plugins -> Nat]
      /\ \A q \in Plugins : retry[q].restarts \in Nat
  <2>1. /\ id \in Plugins /\ generation \in [Plugins -> Gens0] /\ base \in [Plugins -> Gens0]
        /\ retry \in [Plugins -> RetryStates]
    BY DEF HostTypeOK, KernelIInv, KernelTypeOK, Gens0
  <2>2. Gens0 \subseteq Nat
    BY GenerationAssumption DEF Gens0
  <2>3. \A r \in RetryStates : r.restarts \in Nat
    BY RestartAssumption DEF RetryStates
  <2> QED
    BY <2>1, <2>2, <2>3
<1>4. \/ generation' = generation
      \/ /\ at = "sg.observe" /\ target = id /\ op = "start" /\ step = "act"
         /\ generation'[id] = generation[id] + 1
         /\ \A q \in Plugins : q # id => generation'[q] = generation[q]
  BY <1>1, <1>3 DEF KernelKeeps, MethodInv
<1>5. HostTypeOK'
  BY <1>2 DEF HostTypeOK
<1>6. RouteIsCurrent'
  BY <1>2, <1>4 DEF RouteIsCurrent, HandshakeInv, Disconnected
<1>7. MethodInv'
  BY <1>1, <1>2 DEF MethodInv, KernelKeeps
<1>8. HandshakeInv'
  BY <1>1, <1>2, <1>4 DEF HandshakeInv, KernelKeeps
<1>9. KnownInv'
  BY <1>1, <1>2, <1>3 DEF KnownInv, KernelKeeps, HostTypeOK
<1>10. TodoInv'
  <2>1. ASSUME NEW f \in todo
        PROVE  f.id \in Plugins /\ generation'[f.id] = generation[f.id]
               /\ state'[f.id] = "Failed" /\ f.gen = generation[f.id]
    <3>1. f.id \in Plugins /\ state[f.id] = "Failed" /\ f.gen = generation[f.id]
      BY DEF TodoInv, HostTypeOK, Failures
    <3>2. generation'[f.id] = generation[f.id]
      BY <1>4, <3>1 DEF TodoInv, Starts, Disconnected
    <3> QED
      BY <1>1, <3>1, <3>2 DEF KernelKeeps
  <2> QED
    BY <1>2, <2>1 DEF TodoInv
<1>11. BudgetInv'
  <2>1. CASE generation' = generation
    <3>1. ASSUME NEW q \in Plugins, StartDue(q)' PROVE StartDue(q)
      BY <1>1, <1>2, <3>1 DEF StartDue, KernelKeeps
    <3>2. ASSUME NEW q \in Plugins, PaidFor(q) PROVE PaidFor(q)'
      BY <1>1, <1>2, <2>1, <3>2 DEF PaidFor, KernelKeeps
    <3> QED
      BY <1>2, <2>1, <3>1, <3>2 DEF BudgetInv
  <2>2. CASE generation' # generation
    <3>1. \A q \in Plugins : ~StartDue(q)'
      BY <1>1, <1>2, <1>4, <2>2 DEF StartDue, KernelKeeps
    <3>2. StartDue(id)
      BY <1>4, <2>2 DEF StartDue
    <3>3. generation[id] < base[id] + 1 + retry[id].restarts
      BY <1>3, <3>2 DEF BudgetInv
    <3>4. generation'[id] <= base[id] + 1 + retry[id].restarts
      BY <1>3, <1>4, <2>2, <3>3
    <3>5. \A q \in Plugins : generation'[q] <= base[q] + 1 + retry[q].restarts
      BY <1>4, <2>2, <3>4 DEF BudgetInv
    <3> QED
      BY <1>2, <3>1, <3>5 DEF BudgetInv
  <2> QED
    BY <2>1, <2>2
<1> QED
  BY <1>5, <1>6, <1>7, <1>8, <1>9, <1>10, <1>11

\* The invariant holds at the start.
LEMMA InitHostIInv == HostInit => HostIInv
<1> SUFFICES ASSUME HostInit PROVE HostIInv
  OBVIOUS
<1>1. KernelIInv
  BY InitKernelIInv DEF HostInit
<1>2. 0 \in Gens0 /\ 0 \in 0 .. MaxRestarts /\ id \in Plugins /\ target \in Plugins
  BY GenerationAssumption, RestartAssumption DEF Gens0, HostInit, KernelInit
<1>3. FreshRetry \in RetryStates
  BY <1>2, RetryFacts DEF FreshRetry, RetryStates
<1>4. HostTypeOK
  <2>1. TypedPlace /\ TypedRoutes /\ TypedRetry
    BY <1>2, <1>3 DEF HostInit, TypedPlace, TypedRoutes, TypedRetry, Places
  <2>2. TypedLocals
    <3>1. item \in Failures
      BY <1>2 DEF HostInit, Failures
    <3> QED
      BY <1>2, <3>1 DEF HostInit, TypedLocals
  <2>3. TypedRest
    BY <1>2 DEF HostInit, TypedRest
  <2> QED
    BY <2>1, <2>2, <2>3, HostTypeParts
<1>5. RouteIsCurrent /\ MethodInv /\ HandshakeInv /\ TodoInv
  BY <1>2 DEF HostInit, KernelInit, RouteIsCurrent, MethodInv, HandshakeInv, TodoInv, Stops, Recovers,
       Disconnected
<1>6. KnownInv
  BY DEF HostInit, KnownInv, FreshRetry, Starts, Stops, Disconnected, Fails
<1>7. BudgetInv
  <2>1. \A q \in Plugins : generation[q] = 0 /\ base[q] = 0 /\ retry[q].restarts = 0 /\ ~StartDue(q)
    BY DEF HostInit, KernelInit, StartDue, FreshRetry
  <2> QED
    BY <2>1 DEF BudgetInv
<1> QED
  BY <1>1, <1>4, <1>5, <1>6, <1>7 DEF HostIInv, HostInv

\* And no step of the host breaks it.
LEMMA NextHostIInv == HostIInv /\ [HostNext]_vars => HostIInv'
<1> SUFFICES ASSUME HostIInv, [HostNext]_vars PROVE HostIInv'
  OBVIOUS
<1>1. CASE UNCHANGED vars
  <2>1. UNCHANGED kernelVars /\ UNCHANGED hostVars
    BY <1>1 DEF vars
  <2>2. KernelIInv'
    BY <2>1, NextKernelIInv DEF HostIInv
  <2>3. HostInv'
    BY <2>1 DEF HostIInv, HostInv, HostTypeOK, RouteIsCurrent, MethodInv, HandshakeInv, KnownInv, TodoInv,
      BudgetInv, StartDue, PaidFor, kernelVars, slotVars, callVars, hostVars, routeVars, loopVars
  <2> QED
    BY <2>2, <2>3 DEF HostIInv
<1>2. CASE HostNext
  <2>1. KernelIInv'
    BY <1>2, HostIsKernel, NextKernelIInv DEF HostIInv, HostInv
  <2>2. CASE Client
    <3>1. ASSUME NEW p \in Plugins, Launch(p) \/ Enable(p) \/ Disable(p) \/ InvokeFails(p)
          PROVE  HostInv'
      BY <3>1, LaunchKeepsHost, EnableKeepsHost, DisableKeepsHost, InvokeFailsKeepsHost
    <3>2. ASSUME NEW p \in Plugins, InvokeAnswered(p) PROVE UNCHANGED vars
      BY <3>2 DEF InvokeAnswered
    <3>3. Refresh \/ Shutdown => HostInv'
      BY RefreshKeepsHost, ShutdownKeepsHost
    <3> QED
      BY <1>1, <2>1, <2>2, <3>1, <3>2, <3>3 DEF Client, HostIInv
  <2>3. CASE StartSteps
    BY <2>1, <2>3, StartGenerationKeepsHost, StartKernelKeepsHost, StartFailedKeepsHost,
       StartObserveKeepsHost, AcceptKeepsHost, AcceptTimeoutKeepsHost, ShakeOkKeepsHost,
       ShakeFailsKeepsHost DEF StartSteps, HostIInv
  <2>4. CASE FailSteps
    BY <2>1, <2>4, FailConnectionKeepsHost, FailCurrentKeepsHost, FailRefreshKeepsHost,
       FailReturnsKeepsHost DEF FailSteps, HostIInv
  <2>5. CASE StopSteps
    BY <2>1, <2>5, StopCurrentKeepsHost, StopKernelKeepsHost, StopPollKeepsHost, StopAgainKeepsHost,
       StopDeadlineKeepsHost, StopDeadlineRefreshKeepsHost, StopReturnsKeepsHost, StopErrKeepsHost
       DEF StopSteps, HostIInv
  <2>6. CASE RecoverSteps
    <3>1. ASSUME NEW f \in Failures, RecoverItem(f) PROVE HostInv'
      BY <3>1, RecoverItemKeepsHost
    <3> QED
      BY <2>1, <2>6, <3>1, RecoverPassKeepsHost, RecoverCollectKeepsHost, RecoverJudgeKeepsHost,
         RecoverPassEndsKeepsHost, PruneKeepsHost DEF RecoverSteps, HostIInv
  <2>7. CASE ShutdownReturns
    BY <2>1, <2>7, ShutdownReturnsKeepsHost DEF HostIInv
  <2>8. CASE (KernelStep \/ Environment) /\ UNCHANGED hostVars
    BY <2>1, <2>8, KernelKeepsHost DEF HostIInv
  <2>9. ASSUME NEW p \in Plugins, NEW g \in Generations, ChildConnect(p, g) PROVE HostIInv'
    BY <2>1, <2>9, ChildConnectKeepsHost DEF HostIInv
  <2> QED
    BY <1>2, <2>2, <2>3, <2>4, <2>5, <2>6, <2>7, <2>8, <2>9 DEF HostNext, HostStep, Processes
<1> QED
  BY <1>1, <1>2

LEMMA HostInvariant == HostSpec => []HostIInv
BY InitHostIInv, NextHostIInv, PTL DEF HostSpec

\* HostIsConsistent: routes go to the process of the current generation, at both
\* ends, and an enable cycle starts at most 1 + MaxRestarts generations.
THEOREM HostStaysConsistent == HostSpec => []HostIsConsistent
<1>1. HostIInv => HostIsConsistent
  <2> SUFFICES ASSUME HostIInv PROVE HostIsConsistent
    OBVIOUS
  <2>1. ASSUME NEW p \in Plugins PROVE generation[p] <= base[p] + 1 + MaxRestarts
    <3>1. generation[p] <= base[p] + 1 + retry[p].restarts /\ retry[p] \in RetryStates
          /\ generation[p] \in Gens0 /\ base[p] \in Gens0
      BY DEF HostIInv, HostInv, BudgetInv, HostTypeOK, KernelIInv, KernelTypeOK, Gens0
    <3>2. retry[p].restarts \in 0 .. MaxRestarts
      BY <3>1 DEF RetryStates
    <3>3. generation[p] \in Nat /\ base[p] \in Nat
      BY <3>1, GenerationAssumption DEF Gens0
    <3> QED
      BY <3>1, <3>2, <3>3, RestartAssumption
  <2> QED
    BY <2>1 DEF HostIInv, HostInv, HostIsConsistent, BudgetBoundsCycle
<1> QED
  BY <1>1, HostInvariant, PTL

\* A step that bumps a generation starts one that has been paid for.
PaidStep ==
  \A p \in Plugins :
    generation'[p] # generation[p] =>
      /\ retry[p].enabled
      /\ call = "refresh" =>
           /\ state[p] = "Failed"
           /\ retry[p].handled = generation[p] /\ retry[p].restarts > 0

LEMMA PaidStepLemma == HostIInv /\ [HostNext]_vars => PaidStep
<1> SUFFICES ASSUME HostIInv, [HostNext]_vars, NEW p \in Plugins, generation'[p] # generation[p]
             PROVE  PaidFor(p)
  BY DEF PaidStep, PaidFor
<1>1. KernelNext
  BY HostIsKernel DEF HostIInv, HostInv, vars, kernelVars, slotVars
<1>2. CASE KernelStep
  <2>1. op = "start" /\ step = "act" /\ p = target
    BY <1>2, KernelStepKeeps DEF HostIInv, KernelKeeps, KernelIInv, KernelTypeOK
  <2> QED
    BY <2>1 DEF HostIInv, HostInv, MethodInv, BudgetInv, StartDue
<1>3. CASE Environment
  BY <1>3, EnvironmentKeeps DEF Environment, Supervisor, SupSpawn, SupSpawnError, SupAnnounce, SupWait, SupPoll,
    SupPollError, SupTerminate, SupReport, SupReturn, ChildExit, slotVars
<1>4. ASSUME NEW q \in Plugins, Register(q) PROVE FALSE
  BY <1>4 DEF Register
<1>5. ASSUME NEW q \in Plugins, NEW m \in Methods, CallRefused(m, q) \/ CallEntered(m, q) PROVE FALSE
  BY <1>5 DEF CallRefused, CallEntered, slotVars
<1> QED
  BY <1>1, <1>2, <1>3, <1>4, <1>5 DEF KernelNext

\* StartsArePaidFor: every generation the host starts belongs to an enabled
\* cycle, and an automatic one replaces the failed generation just paid for.
THEOREM EveryStartIsPaidFor == HostSpec => StartsArePaidFor
<1>1. HostIInv /\ [HostNext]_vars => [PaidStep]_vars
  BY PaidStepLemma
<1> QED
  BY <1>1, HostInvariant, PTL DEF HostSpec, StartsArePaidFor, PaidStep
=============================================================================
