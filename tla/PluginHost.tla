----------------------------- MODULE PluginHost -----------------------------
(***************************************************************************)
(* ProcessPluginHost (crates/yunxi-plugin-host) over the kernel: the       *)
(* thread that launches plugins, accepts their connections, routes calls   *)
(* to them, notices failures, spends the restart budget, and disables.     *)
(*                                                                         *)
(* The host is one thread.  Its public methods call private ones and those *)
(* call kernel methods, each of which takes several steps of module        *)
(* Kernel: `at` is where the host thread is, and it moves only when the    *)
(* kernel method it called has returned (op = "none").  The methods nest   *)
(* in one way only, so the public method `call` says where to return to.   *)
(***************************************************************************)
EXTENDS Kernel

CONSTANT MaxRestarts   \* RetryPolicy::max_automatic_restarts (3 in the product)

ASSUME RestartAssumption == MaxRestarts \in Nat

VARIABLES
  slots,      \* plugins the host has launched
  conn,       \* generation of the plugin's ActiveConnection, 0 = none
  session,    \* generation of the process at the other end of that connection
  catalog,    \* plugins registered in the capability catalog
  retry,      \* RetryController per plugin
  backlog,    \* connections waiting in the plugin's listener, by generation
  connected,  \* generations whose process has connected to the listener
  call, at,   \* public method in progress and the host thread's place in it
  id,         \* the plugin that method is about
  gen,        \* the generation start_generation / fail_connection is about
  peer,       \* generation of the process at the other end of the handshake
  todo,       \* failures still to be recovered in this pass
  item,       \* the failure being recovered
  progressed, \* recover_failed_plugins: the pass did something
  pass,       \* recover_failed_plugins: passes made
  base        \* history: the plugin's generation when its enable cycle began

loopVars == <<todo, item, progressed, pass>>
routeVars == <<conn, session, catalog>>
hostVars == <<slots, routeVars, retry, backlog, connected, call, at, id,
              gen, peer, loopVars, base>>
vars == <<kernelVars, hostVars>>

Gens0 == 0 .. MaxGeneration
RetryStates == [enabled : BOOLEAN, gen : Gens0, restarts : 0 .. MaxRestarts,
                handled : Gens0]
Failures == [id : Plugins, gen : Gens0]
PublicMethods == {"launch", "enable", "disable", "refresh", "invoke", "shutdown"}
Places == {"idle",
           "sg", "sg.start", "sg.observe", "sg.accept", "sg.shake",
           "fc", "fc.check", "fc.refresh", "fc.done",
           "sc", "sc.stop", "sc.stopped", "sc.poll", "sc.look", "sc.fail", "sc.done",
           "rc", "rc.collect", "rc.next", "rc.judge", "rf.prune", "closed"}

HostTypeOK ==
  /\ slots \in SUBSET Plugins
  /\ conn \in [Plugins -> Gens0]
  /\ session \in [Plugins -> Gens0]
  /\ catalog \in SUBSET Plugins
  /\ retry \in [Plugins -> RetryStates]
  /\ backlog \in [Plugins -> Seq(Generations)]
  /\ connected \in [Plugins -> SUBSET Generations]
  /\ call \in PublicMethods \cup {"none"}
  /\ at \in Places
  /\ id \in Plugins
  /\ gen \in Gens0
  /\ peer \in Gens0
  /\ todo \in SUBSET Failures
  /\ item \in Failures
  /\ progressed \in BOOLEAN
  /\ pass \in 0 .. MaxRestarts
  /\ base \in [Plugins -> Gens0]

FreshRetry == [enabled |-> TRUE, gen |-> 0, restarts |-> 0, handled |-> 0]

HostInit ==
  /\ KernelInit
  /\ slots = {}
  /\ conn = [p \in Plugins |-> 0]
  /\ session = [p \in Plugins |-> 0]
  /\ catalog = {}
  /\ retry = [p \in Plugins |-> FreshRetry]
  /\ backlog = [p \in Plugins |-> <<>>]
  /\ connected = [p \in Plugins |-> {}]
  /\ call = "none" /\ at = "idle"
  /\ id = target
  /\ gen = 0 /\ peer = 0
  /\ todo = {} /\ item = [id |-> target, gen |-> 0]
  /\ progressed = FALSE /\ pass = 0
  /\ base = [p \in Plugins |-> 0]

-----------------------------------------------------------------------------
(***************************************************************************)
(* RetryController: policy only (generation 0 stands for None).            *)
(***************************************************************************)
\* observe_generation returns enabled and not stale.
Observes(r, g) == r.enabled /\ g >= r.gen
Observe(r, g) ==
  IF r.enabled /\ g > r.gen THEN [r EXCEPT !.gen = g, !.handled = 0] ELSE r

Accepts(r, g) == r.enabled /\ r.gen = g

\* Mutation: a restart is not counted.
OnFailureUncounted(r, g) ==
  IF ~Accepts(r, g) \/ r.handled = g
    THEN [action |-> "None", next |-> r]
    ELSE [action |-> "Restart", next |-> [r EXCEPT !.handled = g]]

\* Mutation: a handled failure is not remembered.
OnFailureForgotten(r, g) ==
  IF ~Accepts(r, g)
    THEN [action |-> "None", next |-> r]
  ELSE IF r.restarts < MaxRestarts
    THEN [action |-> "Restart", next |-> [r EXCEPT !.restarts = @ + 1]]
    ELSE [action |-> "Disable", next |-> [r EXCEPT !.enabled = FALSE]]

\* on_failure: None, Restart, or Disable, and the controller after it.
OnFailure(r, g) ==
  IF ~Accepts(r, g) \/ r.handled = g
    THEN [action |-> "None", next |-> r]
  ELSE IF r.restarts < MaxRestarts
    THEN [action |-> "Restart",
          next |-> [r EXCEPT !.handled = g, !.restarts = @ + 1]]
    ELSE [action |-> "Disable",
          next |-> [r EXCEPT !.handled = g, !.enabled = FALSE]]

ManualRestart(r) == FreshRetry
DisableRetry(r) == [r EXCEPT !.enabled = FALSE, !.gen = 0, !.handled = 0]

-----------------------------------------------------------------------------
(***************************************************************************)
(* Building blocks                                                         *)
(***************************************************************************)
\* The host thread is between kernel methods.
Here(place) == at = place /\ op = "none"

\* Run kernel method m on the current plugin, then continue at `place`.
CallKernel(m, place) == CallEntered(m, id) /\ at' = place
NoKernel(place) == UNCHANGED kernelVars /\ at' = place

\* detach_connection: the connection and the routes disappear together.
Detach(p) ==
  /\ conn' = [conn EXCEPT ![p] = 0]
  /\ session' = [session EXCEPT ![p] = 0]
  /\ catalog' = catalog \ {p}
KeepRoutes == UNCHANGED routeVars

\* Returning to the client: the locals of the method are gone.
Done ==
  /\ call' = "none"
  /\ gen' = 0 /\ peer' = 0
  /\ todo' = {} /\ item' = [id |-> id, gen |-> 0]
  /\ progressed' = FALSE /\ pass' = 0
  /\ UNCHANGED id
locals == <<gen, peer, loopVars>>
Stay == UNCHANGED <<call, id>>
Begin(m, p) == at = "idle" /\ op = "none" /\ call' = m /\ id' = p

-----------------------------------------------------------------------------
(***************************************************************************)
(* Public methods                                                          *)
(***************************************************************************)
\* The model's bound: an enable cycle starts only with generations left for it.
RoomForCycle(p) == generation[p] + 1 + MaxRestarts <= MaxGeneration

\* launch: register with the kernel, a slot with its listener, first generation.
Launch(p) ==
  /\ Begin("launch", p)
  /\ RoomForCycle(p)
  /\ state[p] = "Unregistered"
  /\ Register(p)
  /\ slots' = slots \cup {p}
  /\ at' = "sg"
  /\ UNCHANGED <<routeVars, retry, backlog, connected, gen, peer, loopVars, base>>

\* enable, restart, manual_restart: manual_start, which first stops the current one.
Enable(p) ==
  /\ Begin("enable", p)
  /\ p \in slots /\ RoomForCycle(p)
  /\ NoKernel("sc")
  /\ UNCHANGED <<slots, routeVars, retry, backlog, connected, gen, peer, loopVars, base>>

\* disable, stop: the enable cycle ends before the process is asked to stop.
Disable(p) ==
  /\ Begin("disable", p)
  /\ p \in slots
  /\ retry' = [retry EXCEPT ![p] = DisableRetry(@)]
  /\ NoKernel("sc")
  /\ UNCHANGED <<slots, routeVars, backlog, connected, gen, peer, loopVars, base>>

\* refresh, which plugin(), snapshot() and retry_snapshot() start with.
Refresh ==
  /\ Begin("refresh", id)
  /\ CallKernel("refresh", "rc")
  /\ pass' = 0
  /\ UNCHANGED <<slots, routeVars, retry, backlog, connected, gen, peer,
                 todo, item, progressed, base>>

\* invoke: a request to the unique provider and its answer, or a rejection...
InvokeAnswered(p) ==
  /\ at = "idle" /\ op = "none"
  /\ p \in catalog
  /\ child[p][session[p]] = "alive"
  /\ UNCHANGED vars

\* ... or the connection fails, times out or answers something else.
InvokeFails(p) ==
  /\ Begin("invoke", p)
  /\ p \in catalog
  /\ gen' = conn[p]
  /\ NoKernel("fc")
  /\ UNCHANGED <<slots, routeVars, retry, backlog, connected, peer, loopVars, base>>

\* shutdown, which Drop also runs.
Shutdown ==
  /\ Begin("shutdown", id)
  /\ kernel = "Running"
  /\ retry' = [p \in Plugins |-> IF p \in slots THEN DisableRetry(retry[p]) ELSE retry[p]]
  /\ conn' = [p \in Plugins |-> 0]
  /\ session' = [p \in Plugins |-> 0]
  /\ catalog' = catalog \ {p \in Plugins : conn[p] # 0}
  /\ CallKernel("shutdown", "closed")
  /\ UNCHANGED <<slots, backlog, connected, gen, peer, loopVars, base>>

ShutdownReturns ==
  /\ Here("closed")
  /\ slots' = {}
  /\ NoKernel("idle") /\ Done
  /\ UNCHANGED <<routeVars, retry, backlog, connected, base>>

-----------------------------------------------------------------------------
(***************************************************************************)
(* start_generation(id)                                                    *)
(***************************************************************************)
StartGeneration ==
  /\ Here("sg")
  /\ Detach(id)
  /\ CallKernel("refresh", "sg.start")
  /\ Stay
  /\ UNCHANGED <<slots, retry, backlog, connected, gen, peer, loopVars, base>>

StartKernel ==
  /\ Here("sg.start")
  /\ CallKernel("start", "sg.observe")
  /\ Stay
  /\ UNCHANGED <<slots, routeVars, retry, backlog, connected, gen, peer, loopVars, base>>

\* Err from start_generation: a failed explicit start ends the enable cycle; a
\* failed automatic one is judged after one more refresh.
StartErr ==
  IF call = "refresh"
    THEN CallKernel("refresh", "rc.judge") /\ UNCHANGED <<retry, locals>> /\ Stay
    ELSE /\ retry' = [retry EXCEPT ![id] = DisableRetry(@)]
         /\ NoKernel("idle") /\ Done

StartFailed ==
  /\ Here("sg.observe") /\ result # "Ok"
  /\ StartErr
  /\ UNCHANGED <<slots, routeVars, backlog, connected, base>>

StartObserve ==
  /\ Here("sg.observe") /\ result = "Ok"
  /\ gen' = generation[id]
  /\ peer' = 0
  /\ retry' = [retry EXCEPT ![id] = Observe(@, generation[id])]
  /\ NoKernel(IF Observes(retry[id], generation[id]) THEN "sg.accept" ELSE "fc")
  /\ Stay
  /\ UNCHANGED <<slots, routeVars, backlog, connected, loopVars, base>>

\* acceptor.accept: the first connection in the listener's queue...
Accept ==
  /\ Here("sg.accept") /\ backlog[id] # <<>>
  /\ peer' = Head(backlog[id])
  /\ backlog' = [backlog EXCEPT ![id] = Tail(@)]
  /\ NoKernel("sg.shake")
  /\ Stay
  /\ UNCHANGED <<slots, routeVars, retry, connected, gen, loopVars, base>>

\* ... or none before the handshake timeout.
AcceptTimeout ==
  /\ Here("sg.accept") /\ backlog[id] = <<>>
  /\ NoKernel("fc")
  /\ Stay
  /\ UNCHANGED <<slots, routeVars, retry, backlog, connected, gen, peer, loopVars, base>>

\* Hello, Welcome, Ready, the declared capabilities and grants, the catalog.
\* Ready answers Welcome, so only a live peer completes the handshake.
ShakeOk ==
  /\ Here("sg.shake")
  /\ child[id][peer] = "alive"
  /\ id \notin catalog
  /\ catalog' = catalog \cup {id}
  /\ conn' = [conn EXCEPT ![id] = gen]
  /\ session' = [session EXCEPT ![id] = peer]
  /\ IF call = "refresh"
       THEN /\ NoKernel("rc.next") /\ progressed' = TRUE
            /\ Stay /\ UNCHANGED <<gen, peer, todo, item, pass>>
       ELSE NoKernel("idle") /\ Done
  /\ UNCHANGED <<slots, retry, backlog, connected, base>>

ShakeFails ==
  /\ Here("sg.shake")
  /\ NoKernel("fc")
  /\ Stay
  /\ UNCHANGED <<slots, routeVars, retry, backlog, connected, gen, peer, loopVars, base>>

-----------------------------------------------------------------------------
(***************************************************************************)
(* fail_connection(id, gen): gen = 0 when invoke found no connection.      *)
(***************************************************************************)
FailConnection ==
  /\ Here("fc")
  /\ IF gen = 0 \/ conn[id] \in {0, gen} THEN Detach(id) ELSE KeepRoutes
  /\ CallKernel("refresh", "fc.check")
  /\ Stay
  /\ UNCHANGED <<slots, retry, backlog, connected, gen, peer, loopVars, base>>

\* Mutation: the connection is dropped but the kernel is not told.
FailQuietly ==
  /\ Here("fc.check")
  /\ CallKernel("refresh", "fc.done")
  /\ Stay
  /\ UNCHANGED <<slots, routeVars, retry, backlog, connected, gen, peer, loopVars, base>>

\* "A stale transport event must not fail a newer kernel generation."
FailCurrent ==
  /\ Here("fc.check")
  /\ CASE gen \notin {0, generation[id]} -> NoKernel("fc.done")
       [] gen \in {0, generation[id]} /\ state[id] \in Active \cup {"Registered"} ->
            CallKernel("fail", "fc.refresh")
       [] OTHER -> CallKernel("refresh", "fc.done")
  /\ Stay
  /\ UNCHANGED <<slots, routeVars, retry, backlog, connected, gen, peer, loopVars, base>>

FailRefresh ==
  /\ Here("fc.refresh")
  /\ CallKernel("refresh", "fc.done")
  /\ Stay
  /\ UNCHANGED <<slots, routeVars, retry, backlog, connected, gen, peer, loopVars, base>>

FailReturns ==
  /\ Here("fc.done")
  /\ IF call = "invoke" THEN NoKernel("idle") /\ Done /\ UNCHANGED retry
                        ELSE StartErr
  /\ UNCHANGED <<slots, routeVars, backlog, connected, base>>

-----------------------------------------------------------------------------
(***************************************************************************)
(* stop_current(id), called by disable, manual_start and                   *)
(* disable_failed_plugin                                                   *)
(***************************************************************************)
StopCurrent ==
  /\ Here("sc")
  /\ Detach(id)
  /\ CallKernel("refresh", "sc.stop")
  /\ Stay
  /\ UNCHANGED <<slots, retry, backlog, connected, gen, peer, loopVars, base>>

\* Mutation: stop_current waits without asking the kernel to stop the plugin.
StopUnasked ==
  /\ Here("sc.stop")
  /\ NoKernel("sc.poll")
  /\ Stay
  /\ UNCHANGED <<slots, routeVars, retry, backlog, connected, gen, peer, loopVars, base>>

StopKernel ==
  /\ Here("sc.stop")
  /\ IF state[id] \in Active THEN CallKernel("stop", "sc.stopped") ELSE NoKernel("sc.poll")
  /\ Stay
  /\ UNCHANGED <<slots, routeVars, retry, backlog, connected, gen, peer, loopVars, base>>

StopPoll ==
  /\ Here("sc.poll") \/ (Here("sc.stopped") /\ result = "Ok")
  /\ CallKernel("refresh", "sc.look")
  /\ Stay
  /\ UNCHANGED <<slots, routeVars, retry, backlog, connected, gen, peer, loopVars, base>>

StopAgain ==
  /\ Here("sc.look") /\ state[id] \in Active
  /\ NoKernel("sc.poll")
  /\ Stay
  /\ UNCHANGED <<slots, routeVars, retry, backlog, connected, gen, peer, loopVars, base>>

\* The deadline: the slot is failed from outside, then refreshed once more.
StopDeadline ==
  /\ Here("sc.look") /\ state[id] \in Active
  /\ CallKernel("fail", "sc.fail")
  /\ Stay
  /\ UNCHANGED <<slots, routeVars, retry, backlog, connected, gen, peer, loopVars, base>>

StopDeadlineRefresh ==
  /\ Here("sc.fail")
  /\ CallKernel("refresh", "sc.done")
  /\ Stay
  /\ UNCHANGED <<slots, routeVars, retry, backlog, connected, gen, peer, loopVars, base>>

\* Ok from stop_current: manual_start goes on with a fresh budget.
StopReturns ==
  /\ Here("sc.done") \/ (Here("sc.look") /\ state[id] \notin Active)
  /\ CASE call = "enable"  -> /\ retry' = [retry EXCEPT ![id] = ManualRestart(@)]
                              /\ base' = [base EXCEPT ![id] = generation[id]]
                              /\ NoKernel("sg") /\ Stay /\ KeepRoutes
                              /\ UNCHANGED locals
       [] call = "disable" -> /\ NoKernel("idle") /\ Done /\ KeepRoutes
                              /\ UNCHANGED <<retry, base>>
       [] call = "refresh" -> /\ Detach(id)
                              /\ progressed' = TRUE
                              /\ NoKernel("rc.next") /\ Stay
                              /\ UNCHANGED <<retry, base, gen, peer, todo, item, pass>>
  /\ UNCHANGED <<slots, backlog, connected>>

\* Err: kernel.stop found its supervisor gone.  manual_start and disable give up
\* with that error; disable_failed_plugin ignores it.
StopErr ==
  /\ Here("sc.stopped") /\ result # "Ok"
  /\ IF call = "refresh"
       THEN /\ Detach(id) /\ progressed' = TRUE /\ NoKernel("rc.next")
            /\ Stay /\ UNCHANGED <<gen, peer, todo, item, pass>>
       ELSE /\ NoKernel("idle") /\ Done /\ KeepRoutes
  /\ UNCHANGED <<slots, retry, backlog, connected, base>>

-----------------------------------------------------------------------------
(***************************************************************************)
(* recover_failed_plugins and the end of refresh                           *)
(***************************************************************************)
RecoverPass ==
  /\ Here("rc")
  /\ CallKernel("refresh", "rc.collect")
  /\ Stay
  /\ UNCHANGED <<slots, routeVars, retry, backlog, connected, gen, peer, loopVars, base>>

FailedNow == {[id |-> p, gen |-> generation[p]] : p \in {q \in Plugins : state[q] = "Failed"}}

\* Leaving recovery: refresh the kernel, then prune_inactive_connections.
LeaveRecovery == CallKernel("refresh", "rf.prune")

RecoverCollect ==
  /\ Here("rc.collect")
  /\ todo' = FailedNow
  /\ progressed' = FALSE
  /\ IF FailedNow = {} THEN LeaveRecovery ELSE NoKernel("rc.next")
  /\ Stay
  /\ UNCHANGED <<slots, routeVars, retry, backlog, connected, gen, peer, item, pass, base>>

\* recover_failed_plugin, up to the restart or the disable it decides on.
RecoverItem(f) ==
  /\ Here("rc.next") /\ f \in todo
  /\ todo' = todo \ {f}
  /\ item' = f
  /\ id' = f.id
  /\ LET seen == Observe(retry[f.id], f.gen)
         verdict == OnFailure(seen, f.gen)
         known == f.id \in slots /\ Observes(retry[f.id], f.gen)
     IN IF ~known
          THEN UNCHANGED retry /\ KeepRoutes /\ NoKernel("rc.next")
          ELSE CASE verdict.action = "None" ->
                      /\ retry' = [retry EXCEPT ![f.id] = verdict.next]
                      /\ KeepRoutes /\ NoKernel("rc.next")
                 [] verdict.action = "Restart" ->
                      /\ retry' = [retry EXCEPT ![f.id] = verdict.next]
                      /\ Detach(f.id) /\ NoKernel("sg")
                 [] verdict.action = "Disable" ->
                      /\ retry' = [retry EXCEPT ![f.id] = DisableRetry(verdict.next)]
                      /\ KeepRoutes /\ NoKernel("sc")
  /\ UNCHANGED <<slots, backlog, connected, call, gen, peer, progressed, pass, base>>

\* After a failed restart: unless the new generation is itself Failed (and will
\* be handled by the next pass), the plugin is disabled.
RecoverJudge ==
  /\ Here("rc.judge")
  /\ IF generation[id] > item.gen /\ state[id] = "Failed"
       THEN /\ NoKernel("rc.next") /\ progressed' = TRUE /\ UNCHANGED retry
       ELSE /\ retry' = [retry EXCEPT ![id] = DisableRetry(@)]
            /\ NoKernel("sc") /\ UNCHANGED progressed
  /\ Stay
  /\ UNCHANGED <<slots, routeVars, backlog, connected, gen, peer, todo, item, pass, base>>

RecoverPassEnds ==
  /\ Here("rc.next") /\ todo = {}
  /\ IF progressed /\ pass < MaxRestarts
       THEN NoKernel("rc") /\ pass' = pass + 1
       ELSE LeaveRecovery /\ UNCHANGED pass
  /\ Stay
  /\ UNCHANGED <<slots, routeVars, retry, backlog, connected, gen, peer,
                 todo, item, progressed, base>>

\* prune_inactive_connections
Prune ==
  /\ Here("rf.prune")
  /\ LET dead == {p \in Plugins : conn[p] # 0 /\ state[p] \notin Active}
     IN /\ conn' = [p \in Plugins |-> IF p \in dead THEN 0 ELSE conn[p]]
        /\ session' = [p \in Plugins |-> IF p \in dead THEN 0 ELSE session[p]]
        /\ catalog' = catalog \ dead
  /\ NoKernel("idle") /\ Done
  /\ UNCHANGED <<slots, retry, backlog, connected, base>>

-----------------------------------------------------------------------------
\* The plugin process connects to the listener once and says Hello; the
\* listener outlives generations, so the connection waits there for an accept.
ChildConnect(p, g) ==
  /\ child[p][g] = "alive"
  /\ g \notin connected[p]
  /\ p \in slots
  /\ connected' = [connected EXCEPT ![p] = @ \cup {g}]
  /\ backlog' = [backlog EXCEPT ![p] = Append(@, g)]
  /\ UNCHANGED <<kernelVars, slots, routeVars, retry, call, at, id, gen, peer, loopVars, base>>

StartSteps == StartGeneration \/ StartKernel \/ StartFailed \/ StartObserve
              \/ Accept \/ AcceptTimeout \/ ShakeOk \/ ShakeFails
FailSteps == FailConnection \/ FailCurrent \/ FailRefresh \/ FailReturns
StopSteps == StopCurrent \/ StopKernel \/ StopPoll \/ StopAgain \/ StopDeadline
             \/ StopDeadlineRefresh \/ StopReturns \/ StopErr
RecoverSteps == RecoverPass \/ RecoverCollect \/ (\E f \in Failures : RecoverItem(f))
                \/ RecoverJudge \/ RecoverPassEnds \/ Prune

\* What the host thread does inside a method, the kernel's part included.
HostStep ==
  \/ StartSteps \/ FailSteps \/ StopSteps \/ RecoverSteps \/ ShutdownReturns
  \/ KernelStep /\ UNCHANGED hostVars

Client ==
  \/ \E p \in Plugins : Launch(p) \/ Enable(p) \/ Disable(p)
                        \/ InvokeAnswered(p) \/ InvokeFails(p)
  \/ Refresh \/ Shutdown

Processes ==
  \/ Environment /\ UNCHANGED hostVars
  \/ \E p \in Plugins, g \in Generations : ChildConnect(p, g)

HostNext == Client \/ HostStep \/ Processes

\* A method in progress keeps running and supervisor threads are scheduled.
\* Nothing makes a client call, a process connect, exit or answer.
HostFairness ==
  /\ WF_vars(HostStep)
  /\ \A p \in Plugins, g \in Generations :
       WF_vars(Supervisor(p, g) /\ UNCHANGED hostVars)

HostSpec == HostInit /\ [][HostNext]_vars /\ HostFairness
-----------------------------------------------------------------------------
(***************************************************************************)
(* What the host promises.                                                 *)
(***************************************************************************)
\* Calls are routed only over a live connection record, and such a connection
\* belongs to the plugin's current generation at both ends: never to the process
\* of an earlier one, although the listener and its token outlive generations.
RouteIsCurrent ==
  \A p \in Plugins :
    /\ p \in catalog <=> conn[p] # 0
    /\ conn[p] # 0 => conn[p] = generation[p] /\ session[p] = generation[p]

\* An enable cycle starts at most 1 + MaxRestarts generations, counted in
\* supervisors the kernel started and not by the controller's own counter.
BudgetBoundsCycle ==
  \A p \in Plugins : generation[p] <= base[p] + 1 + MaxRestarts

\* What holds of the host between any two of its steps: routes and connections
\* are those of the current generation and the cycle is within its budget.
HostIsConsistent == HostTypeOK /\ RouteIsCurrent /\ BudgetBoundsCycle

\* A generation is started only in an enabled cycle, and an automatic one only
\* to replace the failed generation whose failure has just been paid for.
StartsArePaidFor ==
  [][\A p \in Plugins :
       generation'[p] # generation[p] =>
         /\ retry[p].enabled
         /\ call = "refresh" =>
              /\ state[p] = "Failed"
              /\ retry[p].handled = generation[p] /\ retry[p].restarts > 0]_vars

\* A disabled plugin (by the user, by an exhausted budget, by a failed start)
\* ends up without a process, whatever disable() or enable() returned.
DisabledIsQuiescent ==
  \A p \in Plugins :
    (p \in slots /\ ~retry[p].enabled /\ at = "idle") ~>
      (retry[p].enabled \/ \A g \in Generations : ~LiveSup(p, g))

\* Every host method returns: no wait in it is for a process that was not told
\* to stop, and recovery always comes to an end.
HostMethodsReturn == call # "none" ~> call = "none"

\* A generation is never failed because of a process of an older one: when a
\* handshake fails, it was with a process of the generation being started.
OldGenerationFailsNothing ==
  at = "fc" /\ call # "invoke" => peer \in {0, gen}
=============================================================================
