------------------------------- MODULE Kernel -------------------------------
(***************************************************************************)
(* The YunXi kernel (crates/yunxi-kernel): one control thread that owns    *)
(* the table of plugin slots, one supervisor thread per started            *)
(* generation of a plugin, one child process per supervisor, and the       *)
(* unbounded event channel by which supervisors report to the kernel.      *)
(*                                                                         *)
(* A kernel method runs on the control thread, but supervisors and         *)
(* children move while it runs.  Its steps are therefore separate actions  *)
(* wherever another thread can get in between: each received event, the    *)
(* reaping of workers, the body of the method, a blocking join.            *)
(***************************************************************************)
EXTENDS Naturals, Sequences

CONSTANTS
  Plugins,        \* plugin identities
  MaxGeneration   \* bound on a slot's generation counter (u64 in the code)

ASSUME GenerationAssumption == MaxGeneration \in Nat

Generations == 1 .. MaxGeneration

VARIABLES
  kernel,      \* KernelState
  state,       \* slot.state, "Unregistered" when there is no slot
  generation,  \* slot.generation
  commands,    \* slot.commands: generation whose Sender the slot holds, 0 = None
  forced,      \* slot.forced_failure.is_some()
  worker,      \* slot.worker: generation whose JoinHandle the slot holds, 0 = None
  events,      \* the mpsc channel from the supervisors to the kernel
  sup,         \* program counter of the supervisor thread of (plugin, generation)
  inbox,       \* a Stop command waits in the supervisor's command channel
  child,       \* the operating system process of (plugin, generation)
  op, target,  \* the kernel method being executed and its argument
  step,        \* where in that method the control thread is
  result       \* what the last kernel method returned

slotVars == <<state, generation, commands, forced, worker>>
supVars  == <<sup, inbox, child>>
callVars == <<op, target, step, result>>
kernelVars == <<kernel, slotVars, events, supVars, callVars>>

PluginStates == {"Unregistered", "Registered", "Starting", "Running",
                 "Stopping", "Stopped", "Failed"}
Active   == {"Starting", "Running", "Stopping"}
Terminal == {"Stopped", "Failed"}

EventStates == {"Running", "Stopped", "Failed"}
Events == [id : Plugins, gen : Generations, state : EventStates]

SupStates == {"none", "spawning", "announcing", "waiting", "polling",
              "stopping", "erroring", "stopped", "failed", "returning",
              "finished"}
ChildStates == {"none", "alive", "dead"}

Methods == {"start", "stop", "fail", "refresh", "shutdown"}
Steps == {"idle", "drain", "reap", "act", "join", "spawn", "joinall",
          "redrain", "rereap", "close"}
Results == {"Ok", "NotRunning", "UnknownPlugin", "DuplicatePlugin",
            "PluginBusy", "SupervisorThread", "SupervisorUnavailable"}

KernelTypeOK ==
  /\ kernel \in {"Running", "ShuttingDown", "Stopped"}
  /\ state \in [Plugins -> PluginStates]
  /\ generation \in [Plugins -> 0 .. MaxGeneration]
  /\ commands \in [Plugins -> 0 .. MaxGeneration]
  /\ forced \in [Plugins -> BOOLEAN]
  /\ worker \in [Plugins -> 0 .. MaxGeneration]
  /\ events \in Seq(Events)
  /\ sup \in [Plugins -> [Generations -> SupStates]]
  /\ inbox \in [Plugins -> [Generations -> BOOLEAN]]
  /\ child \in [Plugins -> [Generations -> ChildStates]]
  /\ op \in Methods \cup {"none"}
  /\ target \in Plugins
  /\ step \in Steps
  /\ result \in Results

KernelInit ==
  /\ kernel = "Running"
  /\ state = [p \in Plugins |-> "Unregistered"]
  /\ generation = [p \in Plugins |-> 0]
  /\ commands = [p \in Plugins |-> 0]
  /\ forced = [p \in Plugins |-> FALSE]
  /\ worker = [p \in Plugins |-> 0]
  /\ events = <<>>
  /\ sup = [p \in Plugins |-> [g \in Generations |-> "none"]]
  /\ inbox = [p \in Plugins |-> [g \in Generations |-> FALSE]]
  /\ child = [p \in Plugins |-> [g \in Generations |-> "none"]]
  /\ op = "none"
  /\ target \in Plugins
  /\ step = "idle"
  /\ result = "Ok"

-----------------------------------------------------------------------------
(***************************************************************************)
(* Calls into the kernel.  Every method but register first runs refresh    *)
(* (drain the channel, then reap finished workers) and then its own body.  *)
(***************************************************************************)
Return(r) ==
  /\ op' = "none"
  /\ step' = "idle"
  /\ result' = r
  /\ UNCHANGED target

Goto(s) ==
  /\ step' = s
  /\ UNCHANGED <<op, target, result>>

\* register(spec): a new slot, never a second one under the same id.
Register(p) ==
  /\ op = "none"
  /\ kernel = "Running"
  /\ IF state[p] = "Unregistered"
       THEN /\ state' = [state EXCEPT ![p] = "Registered"]
            /\ Return("Ok")
       ELSE /\ Return("DuplicatePlugin")
            /\ UNCHANGED state
  /\ UNCHANGED <<kernel, generation, commands, forced, worker, events, supVars>>

\* Entering a method: ensure_running(), then the refresh it starts with.
\* shutdown returns early only once the kernel is Stopped; refresh has no guard.
\* (The generation guard is the model's bound: no start beyond MaxGeneration.)
CallRefused(m, p) ==
  /\ op = "none"
  /\ m # "refresh" /\ kernel # "Running"
  /\ result' = (IF m = "shutdown" THEN "Ok" ELSE "NotRunning")
  /\ UNCHANGED <<kernel, slotVars, events, supVars, op, target, step>>

CallEntered(m, p) ==
  /\ op = "none"
  /\ m = "refresh" \/ kernel = "Running"
  /\ m = "start" => generation[p] < MaxGeneration
  /\ op' = m
  /\ target' = p
  /\ step' = "drain"
  /\ UNCHANGED <<kernel, slotVars, events, supVars, result>>

\* Mutation: events are not fenced by generation.
ApplyAnyGeneration(e) ==
  LET p == e.id
      s == IF forced[p] THEN "Failed" ELSE e.state
  IN IF state[p] = "Unregistered"
       THEN UNCHANGED <<state, commands>>
       ELSE /\ state' = [state EXCEPT ![p] = s]
            /\ commands' = IF s \in Terminal
                             THEN [commands EXCEPT ![p] = 0] ELSE commands

\* Mutation: the reported state wins over a forced failure.
ApplyOverForced(e) ==
  LET p == e.id
  IN IF state[p] = "Unregistered" \/ generation[p] # e.gen
       THEN UNCHANGED <<state, commands>>
       ELSE /\ state' = [state EXCEPT ![p] = e.state]
            /\ commands' = IF e.state \in Terminal
                             THEN [commands EXCEPT ![p] = 0] ELSE commands

\* apply_event: events of another generation are dropped; a forced failure
\* wins over what the supervisor reports; a terminal state drops the sender.
ApplyEvent(e) ==
  LET p == e.id
      s == IF forced[p] THEN "Failed" ELSE e.state
  IN IF state[p] = "Unregistered" \/ generation[p] # e.gen
       THEN UNCHANGED <<state, commands>>
       ELSE /\ state' = [state EXCEPT ![p] = s]
            /\ commands' = IF s \in Terminal
                             THEN [commands EXCEPT ![p] = 0] ELSE commands

\* The try_recv loop of refresh(): one received event, and the empty channel.
DrainEvent ==
  /\ step \in {"drain", "redrain"}
  /\ events # <<>>
  /\ ApplyEvent(Head(events))
  /\ events' = Tail(events)
  /\ UNCHANGED <<kernel, generation, forced, worker, supVars, callVars>>

DrainDone ==
  /\ step \in {"drain", "redrain"}
  /\ events = <<>>
  /\ Goto(IF step = "drain" THEN "reap" ELSE "rereap")
  /\ UNCHANGED <<kernel, slotVars, events, supVars>>

\* reap_finished_workers: the handles of finished threads are joined and taken.
Finished(p) == worker[p] # 0 /\ sup[p][worker[p]] = "finished"

Reap ==
  /\ step \in {"reap", "rereap"}
  /\ worker' = [p \in Plugins |-> IF Finished(p) THEN 0 ELSE worker[p]]
  /\ IF step = "rereap" THEN Goto("close")
     ELSE IF op = "refresh" THEN Return("Ok") ELSE Goto("act")
  /\ UNCHANGED <<kernel, state, generation, commands, forced, events, supVars>>

\* Sender::send succeeds as long as the supervisor still owns the receiver.
Receives(p) == commands[p] # 0 /\ sup[p][commands[p]] # "finished"
SendStop(ps) ==
  inbox' = [p \in Plugins |->
              IF p \in ps /\ Receives(p)
                THEN [inbox[p] EXCEPT ![commands[p]] = TRUE] ELSE inbox[p]]

-----------------------------------------------------------------------------
(***************************************************************************)
(* start(id)                                                               *)
(***************************************************************************)
StartRefused ==
  /\ op = "start" /\ step = "act"
  /\ state[target] \in {"Unregistered"} \cup Active
  /\ Return(IF state[target] \in Active THEN "PluginBusy" ELSE "UnknownPlugin")
  /\ UNCHANGED <<kernel, slotVars, events, supVars>>

StartSlot ==
  /\ op = "start" /\ step = "act"
  /\ state[target] \in {"Registered"} \cup Terminal
  /\ commands' = [commands EXCEPT ![target] = 0]
  /\ forced' = [forced EXCEPT ![target] = FALSE]
  /\ generation' = [generation EXCEPT ![target] = @ + 1]
  /\ state' = [state EXCEPT ![target] = "Starting"]
  /\ Goto("join")
  /\ UNCHANGED <<kernel, worker, events, supVars>>

\* Mutation: the previous worker is detached instead of joined.
StartDetach ==
  /\ op = "start" /\ step = "join"
  /\ worker' = [worker EXCEPT ![target] = 0]
  /\ Goto("spawn")
  /\ UNCHANGED <<kernel, state, generation, commands, forced, events, supVars>>

\* The previous worker is taken and joined before a new one exists.
StartJoin ==
  /\ op = "start" /\ step = "join"
  /\ worker[target] = 0 \/ Finished(target)
  /\ worker' = [worker EXCEPT ![target] = 0]
  /\ Goto("spawn")
  /\ UNCHANGED <<kernel, state, generation, commands, forced, events, supVars>>

\* spawn_supervisor: a thread for this generation and its command channel, or
\* the operating system refuses the thread.
StartSpawned ==
  /\ op = "start" /\ step = "spawn"
  /\ sup' = [sup EXCEPT ![target][generation[target]] = "spawning"]
  /\ commands' = [commands EXCEPT ![target] = generation[target]]
  /\ worker' = [worker EXCEPT ![target] = generation[target]]
  /\ Return("Ok")
  /\ UNCHANGED <<kernel, state, generation, forced, events, inbox, child>>

StartNotSpawned ==
  /\ op = "start" /\ step = "spawn"
  /\ state' = [state EXCEPT ![target] = "Failed"]
  /\ Return("SupervisorThread")
  /\ UNCHANGED <<kernel, generation, commands, forced, worker, events, supVars>>

(***************************************************************************)
(* stop(id) and fail(id, failure)                                          *)
(***************************************************************************)
StopInactive ==
  /\ op = "stop" /\ step = "act"
  /\ state[target] \notin Active
  /\ state' = [state EXCEPT ![target] = IF @ = "Registered" THEN "Stopped" ELSE @]
  /\ Return(IF state[target] = "Unregistered" THEN "UnknownPlugin" ELSE "Ok")
  /\ UNCHANGED <<kernel, generation, commands, forced, worker, events, supVars>>

StopActive ==
  /\ op = "stop" /\ step = "act"
  /\ state[target] \in Active
  /\ state' = [state EXCEPT ![target] = "Stopping"]
  /\ SendStop({target})
  /\ Return(IF Receives(target) THEN "Ok" ELSE "SupervisorUnavailable")
  /\ UNCHANGED <<kernel, generation, commands, forced, worker, events, sup, child>>

FailUnknown ==
  /\ op = "fail" /\ step = "act"
  /\ state[target] = "Unregistered"
  /\ Return("UnknownPlugin")
  /\ UNCHANGED <<kernel, slotVars, events, supVars>>

\* Mutation: fail() marks the slot and leaves its supervisor alone.
FailSilently ==
  /\ op = "fail" /\ step = "act"
  /\ state[target] # "Unregistered"
  /\ forced' = [forced EXCEPT ![target] = TRUE]
  /\ state' = [state EXCEPT ![target] = "Failed"]
  /\ Return("Ok")
  /\ UNCHANGED <<kernel, generation, commands, worker, events, supVars>>

FailSlot ==
  /\ op = "fail" /\ step = "act"
  /\ state[target] # "Unregistered"
  /\ SendStop(IF state[target] \in Active THEN {target} ELSE {})
  /\ forced' = [forced EXCEPT ![target] = TRUE]
  /\ state' = [state EXCEPT ![target] = "Failed"]
  /\ Return("Ok")
  /\ UNCHANGED <<kernel, generation, commands, worker, events, sup, child>>

(***************************************************************************)
(* shutdown(), which Drop also runs: signal, join every worker, drain what *)
(* they reported, close.                                                   *)
(***************************************************************************)
MustSignal(p) == state[p] \in Active \/ (forced[p] /\ worker[p] # 0)

\* Mutation: shutdown() joins without telling the supervisors to stop.
ShutdownSilently ==
  /\ op = "shutdown" /\ step = "act"
  /\ kernel' = "ShuttingDown"
  /\ state' = [p \in Plugins |-> IF state[p] = "Registered" THEN "Stopped" ELSE state[p]]
  /\ Goto("joinall")
  /\ UNCHANGED <<generation, commands, forced, worker, events, supVars>>

ShutdownSignal ==
  /\ op = "shutdown" /\ step = "act"
  /\ kernel' = "ShuttingDown"
  /\ state' = [p \in Plugins |->
                 IF MustSignal(p) THEN IF forced[p] THEN state[p] ELSE "Stopping"
                 ELSE IF state[p] = "Registered" THEN "Stopped" ELSE state[p]]
  /\ SendStop({p \in Plugins : MustSignal(p)})
  /\ Goto("joinall")
  /\ UNCHANGED <<generation, commands, forced, worker, events, sup, child>>

\* Mutation: shutdown() drops the handles without joining.
ShutdownDetach ==
  /\ op = "shutdown" /\ step = "joinall"
  /\ worker' = [p \in Plugins |-> 0]
  /\ Goto("redrain")
  /\ UNCHANGED <<kernel, state, generation, commands, forced, events, supVars>>

ShutdownJoin ==
  /\ op = "shutdown" /\ step = "joinall"
  /\ \A p \in Plugins : worker[p] = 0 \/ Finished(p)
  /\ worker' = [p \in Plugins |-> 0]
  /\ Goto("redrain")
  /\ UNCHANGED <<kernel, state, generation, commands, forced, events, supVars>>

ShutdownClose ==
  /\ op = "shutdown" /\ step = "close"
  /\ commands' = [p \in Plugins |-> 0]
  /\ state' = [p \in Plugins |-> IF state[p] \in Active THEN "Failed" ELSE state[p]]
  /\ kernel' = "Stopped"
  /\ Return("Ok")
  /\ UNCHANGED <<generation, forced, worker, events, supVars>>

\* Everything the control thread does inside a method.
KernelStep ==
  \/ DrainEvent \/ DrainDone \/ Reap
  \/ StartRefused \/ StartSlot \/ StartJoin \/ StartSpawned \/ StartNotSpawned
  \/ StopInactive \/ StopActive \/ FailUnknown \/ FailSlot
  \/ ShutdownSignal \/ ShutdownJoin \/ ShutdownClose

-----------------------------------------------------------------------------
(***************************************************************************)
(* The supervisor thread of generation g of plugin p (supervise_process),  *)
(* and its child process.                                                  *)
(***************************************************************************)
SupGoto(p, g, s) == sup' = [sup EXCEPT ![p][g] = s]
Report(p, g, s) == events' = Append(events, [id |-> p, gen |-> g, state |-> s])

SupSpawn(p, g) ==
  /\ sup[p][g] = "spawning"
  /\ child' = [child EXCEPT ![p][g] = "alive"]
  /\ SupGoto(p, g, "announcing")
  /\ UNCHANGED <<kernel, slotVars, events, inbox, callVars>>

SupSpawnError(p, g) ==
  /\ sup[p][g] = "spawning"
  /\ SupGoto(p, g, "failed")
  /\ UNCHANGED <<kernel, slotVars, events, inbox, child, callVars>>

SupAnnounce(p, g) ==
  /\ sup[p][g] = "announcing"
  /\ Report(p, g, "Running")
  /\ SupGoto(p, g, "waiting")
  /\ UNCHANGED <<kernel, slotVars, inbox, child, callVars>>

\* commands.recv_timeout: a Stop, a dropped sender, or the poll interval.
SupWait(p, g) ==
  /\ sup[p][g] = "waiting"
  /\ SupGoto(p, g, IF inbox[p][g] \/ commands[p] # g THEN "stopping" ELSE "polling")
  /\ UNCHANGED <<kernel, slotVars, events, inbox, child, callVars>>

\* child.try_wait: exited, still running, or an operating system error.
SupPoll(p, g) ==
  /\ sup[p][g] = "polling"
  /\ SupGoto(p, g, IF child[p][g] = "dead" THEN "failed" ELSE "waiting")
  /\ UNCHANGED <<kernel, slotVars, events, inbox, child, callVars>>

SupPollError(p, g) ==
  /\ sup[p][g] = "polling"
  /\ SupGoto(p, g, "erroring")
  /\ UNCHANGED <<kernel, slotVars, events, inbox, child, callVars>>

\* Mutation: the supervisor reports without waiting for the kill.
SupAbandon(p, g) ==
  /\ sup[p][g] \in {"stopping", "erroring"}
  /\ SupGoto(p, g, IF sup[p][g] = "stopping" THEN "stopped" ELSE "failed")
  /\ UNCHANGED <<kernel, slotVars, events, inbox, child, callVars>>

\* terminate_child: kill and wait, unless it has exited already.
SupTerminate(p, g) ==
  /\ sup[p][g] \in {"stopping", "erroring"}
  /\ child' = [child EXCEPT ![p][g] = "dead"]
  /\ SupGoto(p, g, IF sup[p][g] = "stopping" THEN "stopped" ELSE "failed")
  /\ UNCHANGED <<kernel, slotVars, events, inbox, callVars>>

\* send_state with the terminal state.
SupReport(p, g) ==
  /\ sup[p][g] \in {"stopped", "failed"}
  /\ Report(p, g, IF sup[p][g] = "stopped" THEN "Stopped" ELSE "Failed")
  /\ SupGoto(p, g, "returning")
  /\ UNCHANGED <<kernel, slotVars, inbox, child, callVars>>

\* The thread returns; its receiver is dropped and its handle is_finished.
SupReturn(p, g) ==
  /\ sup[p][g] = "returning"
  /\ SupGoto(p, g, "finished")
  /\ UNCHANGED <<kernel, slotVars, events, inbox, child, callVars>>

Supervisor(p, g) ==
  \/ SupSpawn(p, g) \/ SupSpawnError(p, g) \/ SupAnnounce(p, g)
  \/ SupWait(p, g) \/ SupPoll(p, g) \/ SupPollError(p, g)
  \/ SupTerminate(p, g) \/ SupReport(p, g) \/ SupReturn(p, g)

\* The child exits by itself at any time.
ChildExit(p, g) ==
  /\ child[p][g] = "alive"
  /\ child' = [child EXCEPT ![p][g] = "dead"]
  /\ UNCHANGED <<kernel, slotVars, events, sup, inbox, callVars>>

Environment == \E p \in Plugins, g \in Generations : Supervisor(p, g) \/ ChildExit(p, g)

-----------------------------------------------------------------------------
KernelNext ==
  \/ \E p \in Plugins : Register(p)
  \/ \E p \in Plugins, m \in Methods : CallRefused(m, p) \/ CallEntered(m, p)
  \/ KernelStep
  \/ Environment

KernelSafetySpec == KernelInit /\ [][KernelNext]_kernelVars

\* A started method keeps running and supervisor threads are scheduled; that a
\* client calls the kernel, or that a child exits, is never assumed.
KernelFairness ==
  /\ WF_kernelVars(KernelStep)
  /\ \A p \in Plugins, g \in Generations : WF_kernelVars(Supervisor(p, g))

KernelSpec == KernelSafetySpec /\ KernelFairness
-----------------------------------------------------------------------------
(***************************************************************************)
(* What the kernel promises.                                               *)
(***************************************************************************)
\* A thread between spawn_supervisor and its return.
LiveSup(p, g) == sup[p][g] \notin {"none", "finished"}

\* start() has bumped the generation and not yet spawned its supervisor.
Launching(p) == op = "start" /\ target = p /\ step \in {"join", "spawn"}

\* The kernel's supervisor threads, seen as leases on a plugin's process.
Holders == [p \in Plugins |-> {g \in Generations : LiveSup(p, g)}]
Used == [p \in Plugins |-> {g \in Generations : sup[p][g] # "none"}]
Lease == INSTANCE ProcessLease WITH holders <- Holders, used <- Used

\* The kernel implements ProcessLease: a generation gets a supervisor only when
\* no other has one, later than all before it, and never again.
ImplementsLease == Lease!LeaseSpec

\* A plugin the kernel reports as Stopped or Failed has no process any more,
\* unless the failure was forced from outside while its supervisor winds down
\* (kernel.rs:163).  A report is never ahead of the kill it reports.
TerminalIsTrue ==
  \A p \in Plugins : \A g \in Generations :
    state[p] \in Terminal /\ ~forced[p] => child[p][g] # "alive"

\* Outside start(), an active slot holds the command sender of its current
\* generation, so stop() and fail() can always address the supervisor
\* (the ok_or_else of kernel.rs:146 is unreachable).
ActiveIsAddressable ==
  \A p \in Plugins :
    state[p] \in Active /\ ~Launching(p) => commands[p] = generation[p]

\* A stopped kernel leaves nothing behind: no process, no thread, no unread
\* event, and no slot in an active state (shutdown, kernel.rs:193).
NothingSurvivesShutdown ==
  kernel = "Stopped" =>
    /\ events = <<>>
    /\ \A p \in Plugins :
         /\ state[p] \notin Active
         /\ \A g \in Generations : ~LiveSup(p, g) /\ child[p][g] # "alive"

\* Within one generation a terminal state is final, and a forced failure stays a
\* failure: a Running or Stopped event still in the channel does not undo it
\* (apply_event, kernel.rs:258).
TerminalIsFinal ==
  [][\A p \in Plugins :
       generation'[p] = generation[p] =>
         /\ state[p] \in Terminal => state'[p] \in Terminal
         /\ forced[p] => state'[p] = "Failed"]_kernelVars

\* No method blocks forever: the joins in start() and shutdown() only wait for
\* supervisors that were told to stop or whose sender was dropped.
MethodsReturn == op # "none" ~> op = "none"

\* A plugin that was stopped or failed loses its process: the Stop command, or
\* the dropped sender, reaches the supervisor even if it is still spawning, and
\* even if a late Running event makes the slot look running again.
StopIsHonoured ==
  \A p \in Plugins, g \in Generations :
    (generation[p] = g /\ (state[p] = "Stopping" \/ forced[p])) ~>
      ~LiveSup(p, g)
=============================================================================
