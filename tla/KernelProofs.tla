---------------------------- MODULE KernelProofs ----------------------------
(***************************************************************************)
(* For every set of plugins and every bound on generations: the kernel's   *)
(* type invariant and its safety properties, from one inductive invariant. *)
(***************************************************************************)
EXTENDS Kernel, TLAPS

\* The control thread is at a step of the method it executes.
ControlInv ==
  /\ op = "none" <=> step = "idle"
  /\ op = "start" /\ step \in {"drain", "reap", "act"}
       => generation[target] < MaxGeneration
  /\ op = "refresh" => step \in {"drain", "reap"}
  /\ step \in {"join", "spawn"} => op = "start"
  /\ step \in {"joinall", "redrain", "rereap", "close"}
       <=> kernel = "ShuttingDown"
  /\ kernel = "ShuttingDown" => op = "shutdown"
  /\ kernel = "Stopped" => op \in {"none", "refresh"}

\* A live supervisor is the one whose handle the slot holds, and it belongs to
\* the slot's generation unless start() is about to replace it.
SupInv ==
  \A p \in Plugins : \A g \in Generations :
    /\ LiveSup(p, g) => worker[p] = g
    /\ sup[p][g] # "none" => g <= generation[p] /\ (Launching(p) => g # generation[p])
    /\ LiveSup(p, g) => g = generation[p] \/ Launching(p)
    /\ child[p][g] = "alive" =>
         sup[p][g] \in {"announcing", "waiting", "polling", "stopping", "erroring"}

\* What the slot says, and what is left behind a terminal state.
SlotPart(p) ==
  /\ state[p] \in {"Unregistered", "Registered"} => generation[p] = 0
  /\ state[p] \in Active => generation[p] # 0
  /\ state[p] \in Active /\ ~Launching(p) => commands[p] = generation[p]
  /\ forced[p] => state[p] = "Failed"
  /\ Launching(p) => state[p] = "Starting"
  /\ op = "start" /\ target = p /\ step = "spawn" => worker[p] = 0
  /\ state[p] \in Terminal /\ ~forced[p] =>
       \A g \in Generations : sup[p][g] \in {"none", "returning", "finished"}

SlotInv == \A p \in Plugins : SlotPart(p)

\* A queued event was sent by its supervisor, a terminal one as its last act, and
\* an event that could still move a slot does not wait behind a terminal state.
EventOK(e) ==
  /\ sup[e.id][e.gen] \notin {"none", "spawning", "announcing"}
  /\ e.state \in Terminal => sup[e.id][e.gen] \in {"returning", "finished"}
  /\ state[e.id] \in Terminal /\ ~forced[e.id] => e.gen # generation[e.id]

EventInv ==
  /\ \A i \in 1 .. Len(events) : EventOK(events[i])
  /\ \A i, j \in 1 .. Len(events) :
       i < j /\ events[i].id = events[j].id /\ events[i].gen = events[j].gen
         => events[i].state = "Running"

\* After the joins of shutdown() no thread is left, and after its second drain
\* no event is.
QuietInv ==
  /\ step \in {"redrain", "rereap", "close"} \/ kernel = "Stopped"
       => \A p \in Plugins : worker[p] = 0
  /\ step \in {"rereap", "close"} \/ kernel = "Stopped" => events = <<>>
  /\ kernel = "Stopped" => \A p \in Plugins : state[p] \notin Active

KernelIInv == KernelTypeOK /\ ControlInv /\ SupInv /\ SlotInv /\ EventInv /\ QuietInv

-----------------------------------------------------------------------------
\* The initial state satisfies the invariant.
LEMMA InitKernelIInv == KernelInit => KernelIInv
<1> SUFFICES ASSUME KernelInit PROVE KernelIInv
  OBVIOUS
<1> USE GenerationAssumption DEF KernelInit
<1>1. KernelTypeOK
  BY DEF KernelTypeOK, PluginStates, SupStates, ChildStates, Methods, Steps, Results, Generations, Events
<1>2. ControlInv
  BY DEF ControlInv
<1>3. SupInv
  BY DEF SupInv, LiveSup, Launching
<1>4. SlotInv
  BY DEF SlotInv, SlotPart, Active, Terminal, Launching
<1>5. EventInv
  BY DEF EventInv
<1>6. QuietInv
  BY DEF QuietInv
<1> QED
  BY <1>1, <1>2, <1>3, <1>4, <1>5, <1>6 DEF KernelIInv

\* Queued events have the fields their supervisors gave them.
LEMMA EventTyped ==
  ASSUME KernelTypeOK, NEW i \in 1 .. Len(events)
  PROVE  /\ events[i] \in Events
         /\ events[i].id \in Plugins
         /\ events[i].gen \in Generations
         /\ events[i].state \in EventStates
<1>1. events[i] \in Events
  BY DEF KernelTypeOK
<1> QED
  BY <1>1 DEF Events

\* A step that leaves the channel alone keeps its invariant if it keeps it for
\* every event that could be there.
LEMMA EventFrame ==
  ASSUME KernelTypeOK, EventInv, UNCHANGED events,
         \A e \in Events : EventOK(e) => EventOK(e)'
  PROVE  EventInv'
<1>1. ASSUME NEW i \in 1 .. Len(events) PROVE EventOK(events[i])'
  <2>1. events[i] \in Events /\ EventOK(events[i])
    BY EventTyped DEF EventInv
  <2>2. \A e \in Events : e = events[i] => EventOK(e)' 
    BY <2>1
  <2> QED
    BY <2>1, <2>2 DEF EventOK
<1> QED
  BY <1>1 DEF EventInv

\* A supervisor that reports appends one event, after which only its own
\* earlier Running event may stand.
LEMMA EventAppend ==
  ASSUME KernelTypeOK, EventInv, NEW x \in Events,
         events' = Append(events, x),
         \A e \in Events : EventOK(e) => EventOK(e)',
         EventOK(x)',
         \A i \in 1 .. Len(events) :
            events[i].id = x.id /\ events[i].gen = x.gen => events[i].state = "Running"
  PROVE  EventInv'
<1> DEFINE n == Len(events)
<1>0. n \in Nat /\ Len(events') = n + 1 /\ events'[n + 1] = x
      /\ \A i \in 1 .. n : events'[i] = events[i]
  BY DEF KernelTypeOK
<1>1. ASSUME NEW i \in 1 .. Len(events') PROVE EventOK(events[i])'
  <2>1. CASE i = n + 1
    BY <1>0, <2>1 DEF EventOK
  <2>2. CASE i \in 1 .. n
    <3>1. events[i] \in Events /\ EventOK(events[i])
      BY <2>2, EventTyped DEF EventInv
    <3>2. \A e \in Events : e = events[i] => EventOK(e)'
      BY <3>1
    <3> QED
      BY <3>1, <3>2, <2>2, <1>0 DEF EventOK
  <2> QED
    BY <2>1, <2>2, <1>0
<1>2. ASSUME NEW i \in 1 .. Len(events'), NEW j \in 1 .. Len(events'), i < j,
             events'[i].id = events'[j].id, events'[i].gen = events'[j].gen
      PROVE  events'[i].state = "Running"
  <2>1. i \in 1 .. n /\ events'[i] = events[i]
    BY <1>2, <1>0
  <2>2. CASE j = n + 1
    BY <2>1, <2>2, <1>0, <1>2
  <2>3. CASE j \in 1 .. n
    BY <2>1, <2>3, <1>0, <1>2 DEF EventInv
  <2> QED
    BY <2>2, <2>3, <1>0
<1> QED
  BY <1>1, <1>2 DEF EventInv

\* register() preserves the invariant.
LEMMA RegisterPreserves ==
  ASSUME KernelIInv, NEW p \in Plugins, Register(p)
  PROVE  KernelIInv'
<1> USE GenerationAssumption DEF KernelIInv, Generations
<1>1. KernelTypeOK'
  BY DEF KernelTypeOK, ControlInv, Events, EventStates, PluginStates, SupStates, ChildStates, Methods, Steps, Results, Generations, Register, Return, slotVars, supVars, callVars
<1>2. ControlInv'
  BY DEF ControlInv, KernelTypeOK, Register, Return, slotVars, supVars, callVars
<1>3. SupInv'
  BY DEF SupInv, KernelTypeOK, ControlInv, LiveSup, Launching, SlotInv, SlotPart, Register, Return, slotVars, supVars, callVars
<1>4. SlotInv'
  <2>1. CASE state[p] = "Unregistered"
    BY <2>1 DEF SlotInv, SlotPart, KernelTypeOK, ControlInv, Active, Terminal, Launching, Register, Return, slotVars, supVars, callVars
  <2>2. CASE state[p] # "Unregistered"
    BY <2>2 DEF SlotInv, SlotPart, KernelTypeOK, ControlInv, Active, Terminal, Launching, Register, Return, slotVars, supVars, callVars
  <2> QED
    BY <2>1, <2>2
<1>5. EventInv'
  <2>1. \A e \in Events : EventOK(e) => EventOK(e)'
    BY DEF EventOK, KernelTypeOK, SupInv, SlotInv, SlotPart, Active, Terminal, Events, LiveSup, Register, Return, slotVars, supVars, callVars
  <2>2. UNCHANGED events
    BY DEF Register, Return, slotVars, supVars, callVars
  <2> QED
    BY <2>1, <2>2, EventFrame
<1>6. QuietInv'
  BY DEF QuietInv, KernelTypeOK, ControlInv, SupInv, LiveSup, Active, Register, Return, slotVars, supVars, callVars
<1> QED
  BY <1>1, <1>2, <1>3, <1>4, <1>5, <1>6

\* A refused call preserves the invariant.
LEMMA CallRefusedPreserves ==
  ASSUME KernelIInv, NEW p \in Plugins, NEW m \in Methods, CallRefused(m, p)
  PROVE  KernelIInv'
<1> USE GenerationAssumption DEF KernelIInv, Generations
<1>1. KernelTypeOK'
  BY DEF KernelTypeOK, ControlInv, Events, EventStates, PluginStates, SupStates, ChildStates, Methods, Steps, Results, Generations, CallRefused, slotVars, supVars, callVars
<1>2. ControlInv'
  BY DEF ControlInv, KernelTypeOK, CallRefused, slotVars, supVars, callVars
<1>3. SupInv'
  BY DEF SupInv, KernelTypeOK, ControlInv, LiveSup, Launching, SlotInv, SlotPart, CallRefused, slotVars, supVars, callVars
<1>4. SlotInv'
  BY DEF SlotInv, SlotPart, KernelTypeOK, ControlInv, SupInv, LiveSup, Active, Terminal, Launching, CallRefused, slotVars, supVars, callVars
<1>5. EventInv'
  <2>1. \A e \in Events : EventOK(e) => EventOK(e)'
    BY DEF EventOK, KernelTypeOK, SupInv, SlotInv, SlotPart, Active, Terminal, Events, LiveSup, CallRefused, slotVars, supVars, callVars
  <2>2. UNCHANGED events
    BY DEF CallRefused, slotVars, supVars, callVars
  <2> QED
    BY <2>1, <2>2, EventFrame
<1>6. QuietInv'
  BY DEF QuietInv, KernelTypeOK, ControlInv, SupInv, LiveSup, Active, CallRefused, slotVars, supVars, callVars
<1> QED
  BY <1>1, <1>2, <1>3, <1>4, <1>5, <1>6

\* Entering a method preserves the invariant.
LEMMA CallEnteredPreserves ==
  ASSUME KernelIInv, NEW p \in Plugins, NEW m \in Methods, CallEntered(m, p)
  PROVE  KernelIInv'
<1> USE GenerationAssumption DEF KernelIInv, Generations
<1>1. KernelTypeOK'
  BY DEF KernelTypeOK, ControlInv, Events, EventStates, PluginStates, SupStates, ChildStates, Methods, Steps, Results, Generations, CallEntered, slotVars, supVars, callVars
<1>2. ControlInv'
  BY DEF ControlInv, KernelTypeOK, Methods, CallEntered, slotVars, supVars, callVars
<1>3. SupInv'
  BY DEF SupInv, KernelTypeOK, ControlInv, LiveSup, Launching, SlotInv, SlotPart, CallEntered, slotVars, supVars, callVars
<1>4. SlotInv'
  BY DEF SlotInv, SlotPart, KernelTypeOK, ControlInv, SupInv, LiveSup, Active, Terminal, Launching, CallEntered, slotVars, supVars, callVars
<1>5. EventInv'
  <2>1. \A e \in Events : EventOK(e) => EventOK(e)'
    BY DEF EventOK, KernelTypeOK, SupInv, SlotInv, SlotPart, Active, Terminal, Events, LiveSup, CallEntered, slotVars, supVars, callVars
  <2>2. UNCHANGED events
    BY DEF CallEntered, slotVars, supVars, callVars
  <2> QED
    BY <2>1, <2>2, EventFrame
<1>6. QuietInv'
  BY DEF QuietInv, KernelTypeOK, ControlInv, SupInv, LiveSup, Active, CallEntered, slotVars, supVars, callVars
<1> QED
  BY <1>1, <1>2, <1>3, <1>4, <1>5, <1>6

\* An empty channel preserves the invariant.
LEMMA DrainDonePreserves ==
  ASSUME KernelIInv, DrainDone
  PROVE  KernelIInv'
<1> USE GenerationAssumption DEF KernelIInv, Generations
<1>1. KernelTypeOK'
  BY DEF KernelTypeOK, ControlInv, Events, EventStates, PluginStates, SupStates, ChildStates, Methods, Steps, Results, Generations, DrainDone, Goto, slotVars, supVars, callVars
<1>2. ControlInv'
  BY DEF ControlInv, KernelTypeOK, DrainDone, Goto, slotVars, supVars, callVars
<1>3. SupInv'
  BY DEF SupInv, KernelTypeOK, ControlInv, LiveSup, Launching, SlotInv, SlotPart, DrainDone, Goto, slotVars, supVars, callVars
<1>4. SlotInv'
  BY DEF SlotInv, SlotPart, KernelTypeOK, ControlInv, SupInv, LiveSup, Active, Terminal, Launching, DrainDone, Goto, slotVars, supVars, callVars
<1>5. EventInv'
  <2>1. \A e \in Events : EventOK(e) => EventOK(e)'
    BY DEF EventOK, KernelTypeOK, SupInv, SlotInv, SlotPart, Active, Terminal, Events, LiveSup, DrainDone, Goto, slotVars, supVars, callVars
  <2>2. UNCHANGED events
    BY DEF DrainDone, Goto, slotVars, supVars, callVars
  <2> QED
    BY <2>1, <2>2, EventFrame
<1>6. QuietInv'
  BY DEF QuietInv, KernelTypeOK, ControlInv, SupInv, LiveSup, Active, DrainDone, Goto, slotVars, supVars, callVars
<1> QED
  BY <1>1, <1>2, <1>3, <1>4, <1>5, <1>6

\* Reaping finished workers preserves the invariant.
LEMMA ReapPreserves ==
  ASSUME KernelIInv, Reap
  PROVE  KernelIInv'
<1> USE GenerationAssumption DEF KernelIInv, Generations
<1>1. KernelTypeOK'
  BY DEF KernelTypeOK, ControlInv, Events, EventStates, PluginStates, SupStates, ChildStates, Methods, Steps, Results, Generations, Reap, Return, Goto, Finished, slotVars, supVars, callVars
<1>2. ControlInv'
  BY DEF ControlInv, KernelTypeOK, Reap, Return, Goto, Finished, slotVars, supVars, callVars
<1>3. SupInv'
  BY DEF SupInv, KernelTypeOK, ControlInv, LiveSup, Launching, SlotInv, SlotPart, Reap, Return, Goto, Finished, slotVars, supVars, callVars
<1>4. SlotInv'
  BY DEF SlotInv, SlotPart, KernelTypeOK, ControlInv, SupInv, LiveSup, Active, Terminal, Launching, Reap, Return, Goto, Finished, slotVars, supVars, callVars
<1>5. EventInv'
  <2>1. \A e \in Events : EventOK(e) => EventOK(e)'
    BY DEF EventOK, KernelTypeOK, SupInv, SlotInv, SlotPart, Active, Terminal, Events, LiveSup, Reap, Return, Goto, Finished, slotVars, supVars, callVars
  <2>2. UNCHANGED events
    BY DEF Reap, Return, Goto, Finished, slotVars, supVars, callVars
  <2> QED
    BY <2>1, <2>2, EventFrame
<1>6. QuietInv'
  BY DEF QuietInv, KernelTypeOK, ControlInv, SupInv, LiveSup, Active, Reap, Return, Goto, Finished, slotVars, supVars, callVars
<1> QED
  BY <1>1, <1>2, <1>3, <1>4, <1>5, <1>6

\* A refused start() preserves the invariant.
LEMMA StartRefusedPreserves ==
  ASSUME KernelIInv, StartRefused
  PROVE  KernelIInv'
<1> USE GenerationAssumption DEF KernelIInv, Generations
<1>1. KernelTypeOK'
  BY DEF KernelTypeOK, ControlInv, Events, EventStates, PluginStates, SupStates, ChildStates, Methods, Steps, Results, Generations, StartRefused, Return, slotVars, supVars, callVars
<1>2. ControlInv'
  BY DEF ControlInv, KernelTypeOK, StartRefused, Return, slotVars, supVars, callVars
<1>3. SupInv'
  BY DEF SupInv, KernelTypeOK, ControlInv, LiveSup, Launching, SlotInv, SlotPart, StartRefused, Return, slotVars, supVars, callVars
<1>4. SlotInv'
  BY DEF SlotInv, SlotPart, KernelTypeOK, ControlInv, SupInv, LiveSup, Active, Terminal, Launching, StartRefused, Return, slotVars, supVars, callVars
<1>5. EventInv'
  <2>1. \A e \in Events : EventOK(e) => EventOK(e)'
    BY DEF EventOK, KernelTypeOK, SupInv, SlotInv, SlotPart, Active, Terminal, Events, LiveSup, StartRefused, Return, slotVars, supVars, callVars
  <2>2. UNCHANGED events
    BY DEF StartRefused, Return, slotVars, supVars, callVars
  <2> QED
    BY <2>1, <2>2, EventFrame
<1>6. QuietInv'
  BY DEF QuietInv, KernelTypeOK, ControlInv, SupInv, LiveSup, Active, StartRefused, Return, slotVars, supVars, callVars
<1> QED
  BY <1>1, <1>2, <1>3, <1>4, <1>5, <1>6

\* Resetting the slot in start() preserves the invariant.
LEMMA StartSlotPreserves ==
  ASSUME KernelIInv, StartSlot
  PROVE  KernelIInv'
<1> USE GenerationAssumption DEF KernelIInv, Generations
<1>1. KernelTypeOK'
  BY DEF KernelTypeOK, ControlInv, Events, EventStates, PluginStates, SupStates, ChildStates, Methods, Steps, Results, Generations, StartSlot, Goto, slotVars, supVars, callVars
<1>2. ControlInv'
  BY DEF ControlInv, KernelTypeOK, StartSlot, Goto, slotVars, supVars, callVars
<1>3. SupInv'
  BY DEF SupInv, KernelTypeOK, ControlInv, LiveSup, Launching, SlotInv, SlotPart, StartSlot, Goto, slotVars, supVars, callVars
<1>4. SlotInv'
  BY DEF SlotInv, SlotPart, KernelTypeOK, ControlInv, SupInv, LiveSup, Active, Terminal, Launching, StartSlot, Goto, slotVars, supVars, callVars
<1>5. EventInv'
  <2>1. \A e \in Events : EventOK(e) => EventOK(e)'
    BY DEF EventOK, KernelTypeOK, SupInv, SlotInv, SlotPart, Active, Terminal, Events, LiveSup, StartSlot, Goto, slotVars, supVars, callVars
  <2>2. UNCHANGED events
    BY DEF StartSlot, Goto, slotVars, supVars, callVars
  <2> QED
    BY <2>1, <2>2, EventFrame
<1>6. QuietInv'
  BY DEF QuietInv, KernelTypeOK, ControlInv, SupInv, LiveSup, Active, StartSlot, Goto, slotVars, supVars, callVars
<1> QED
  BY <1>1, <1>2, <1>3, <1>4, <1>5, <1>6

\* The join in start() preserves the invariant.
LEMMA StartJoinPreserves ==
  ASSUME KernelIInv, StartJoin
  PROVE  KernelIInv'
<1> USE GenerationAssumption DEF KernelIInv, Generations
<1>1. KernelTypeOK'
  BY DEF KernelTypeOK, ControlInv, Events, EventStates, PluginStates, SupStates, ChildStates, Methods, Steps, Results, Generations, StartJoin, Goto, Finished, slotVars, supVars, callVars
<1>2. ControlInv'
  BY DEF ControlInv, KernelTypeOK, StartJoin, Goto, Finished, slotVars, supVars, callVars
<1>3. SupInv'
  BY DEF SupInv, KernelTypeOK, ControlInv, LiveSup, Launching, SlotInv, SlotPart, StartJoin, Goto, Finished, slotVars, supVars, callVars
<1>4. SlotInv'
  BY DEF SlotInv, SlotPart, KernelTypeOK, ControlInv, SupInv, LiveSup, Active, Terminal, Launching, StartJoin, Goto, Finished, slotVars, supVars, callVars
<1>5. EventInv'
  <2>1. \A e \in Events : EventOK(e) => EventOK(e)'
    BY DEF EventOK, KernelTypeOK, SupInv, SlotInv, SlotPart, Active, Terminal, Events, LiveSup, StartJoin, Goto, Finished, slotVars, supVars, callVars
  <2>2. UNCHANGED events
    BY DEF StartJoin, Goto, Finished, slotVars, supVars, callVars
  <2> QED
    BY <2>1, <2>2, EventFrame
<1>6. QuietInv'
  BY DEF QuietInv, KernelTypeOK, ControlInv, SupInv, LiveSup, Active, StartJoin, Goto, Finished, slotVars, supVars, callVars
<1> QED
  BY <1>1, <1>2, <1>3, <1>4, <1>5, <1>6

\* Spawning a supervisor preserves the invariant.
LEMMA StartSpawnedPreserves ==
  ASSUME KernelIInv, StartSpawned
  PROVE  KernelIInv'
<1> USE GenerationAssumption DEF KernelIInv, Generations
<1>1. KernelTypeOK'
  BY DEF KernelTypeOK, ControlInv, Events, EventStates, PluginStates, SupStates, ChildStates, Methods, Steps, Results, Generations, StartSpawned, Return, slotVars, supVars, callVars
<1>2. ControlInv'
  BY DEF ControlInv, KernelTypeOK, StartSpawned, Return, slotVars, supVars, callVars
<1>3. SupInv'
  BY DEF SupInv, KernelTypeOK, ControlInv, LiveSup, Launching, SlotInv, SlotPart, StartSpawned, Return, slotVars, supVars, callVars
<1>4. SlotInv'
  BY DEF SlotInv, SlotPart, KernelTypeOK, ControlInv, SupInv, LiveSup, Active, Terminal, Launching, StartSpawned, Return, slotVars, supVars, callVars
<1>5. EventInv'
  <2>1. \A e \in Events : EventOK(e) => EventOK(e)'
    BY DEF EventOK, KernelTypeOK, SupInv, SlotInv, SlotPart, Active, Terminal, Events, LiveSup, Launching, StartSpawned, Return, slotVars, supVars, callVars
  <2>2. UNCHANGED events
    BY DEF StartSpawned, Return, slotVars, supVars, callVars
  <2> QED
    BY <2>1, <2>2, EventFrame
<1>6. QuietInv'
  BY DEF QuietInv, KernelTypeOK, ControlInv, SupInv, LiveSup, Active, StartSpawned, Return, slotVars, supVars, callVars
<1> QED
  BY <1>1, <1>2, <1>3, <1>4, <1>5, <1>6

\* Failing to spawn a supervisor preserves the invariant.
LEMMA StartNotSpawnedPreserves ==
  ASSUME KernelIInv, StartNotSpawned
  PROVE  KernelIInv'
<1> USE GenerationAssumption DEF KernelIInv, Generations
<1>1. KernelTypeOK'
  BY DEF KernelTypeOK, ControlInv, Events, EventStates, PluginStates, SupStates, ChildStates, Methods, Steps, Results, Generations, StartNotSpawned, Return, slotVars, supVars, callVars
<1>2. ControlInv'
  BY DEF ControlInv, KernelTypeOK, StartNotSpawned, Return, slotVars, supVars, callVars
<1>3. SupInv'
  BY DEF SupInv, KernelTypeOK, ControlInv, LiveSup, Launching, SlotInv, SlotPart, StartNotSpawned, Return, slotVars, supVars, callVars
<1>4. SlotInv'
  BY DEF SlotInv, SlotPart, KernelTypeOK, ControlInv, SupInv, LiveSup, Active, Terminal, Launching, StartNotSpawned, Return, slotVars, supVars, callVars
<1>5. EventInv'
  <2>1. \A e \in Events : EventOK(e) => EventOK(e)'
    BY DEF EventOK, KernelTypeOK, SupInv, SlotInv, SlotPart, Active, Terminal, Events, LiveSup, Launching, StartNotSpawned, Return, slotVars, supVars, callVars
  <2>2. UNCHANGED events
    BY DEF StartNotSpawned, Return, slotVars, supVars, callVars
  <2> QED
    BY <2>1, <2>2, EventFrame
<1>6. QuietInv'
  BY DEF QuietInv, KernelTypeOK, ControlInv, SupInv, LiveSup, Active, StartNotSpawned, Return, slotVars, supVars, callVars
<1> QED
  BY <1>1, <1>2, <1>3, <1>4, <1>5, <1>6

\* stop() of an inactive slot preserves the invariant.
LEMMA StopInactivePreserves ==
  ASSUME KernelIInv, StopInactive
  PROVE  KernelIInv'
<1> USE GenerationAssumption DEF KernelIInv, Generations
<1>1. KernelTypeOK'
  BY DEF KernelTypeOK, ControlInv, Events, EventStates, PluginStates, SupStates, ChildStates, Methods, Steps, Results, Generations, StopInactive, Return, slotVars, supVars, callVars
<1>2. ControlInv'
  BY DEF ControlInv, KernelTypeOK, StopInactive, Return, slotVars, supVars, callVars
<1>3. SupInv'
  BY DEF SupInv, KernelTypeOK, ControlInv, LiveSup, Launching, SlotInv, SlotPart, StopInactive, Return, slotVars, supVars, callVars
<1>4. SlotInv'
  BY DEF SlotInv, SlotPart, KernelTypeOK, ControlInv, SupInv, LiveSup, Active, Terminal, Launching, StopInactive, Return, slotVars, supVars, callVars
<1>5. EventInv'
  <2>1. \A e \in Events : EventOK(e) => EventOK(e)'
    BY DEF EventOK, KernelTypeOK, SupInv, SlotInv, SlotPart, Active, Terminal, Events, LiveSup, StopInactive, Return, slotVars, supVars, callVars
  <2>2. UNCHANGED events
    BY DEF StopInactive, Return, slotVars, supVars, callVars
  <2> QED
    BY <2>1, <2>2, EventFrame
<1>6. QuietInv'
  BY DEF QuietInv, KernelTypeOK, ControlInv, SupInv, LiveSup, Active, StopInactive, Return, slotVars, supVars, callVars
<1> QED
  BY <1>1, <1>2, <1>3, <1>4, <1>5, <1>6

\* stop() of an active slot preserves the invariant.
LEMMA StopActivePreserves ==
  ASSUME KernelIInv, StopActive
  PROVE  KernelIInv'
<1> USE GenerationAssumption DEF KernelIInv, Generations
<1>1. KernelTypeOK'
  BY DEF KernelTypeOK, ControlInv, Events, EventStates, PluginStates, SupStates, ChildStates, Methods, Steps, Results, Generations, StopActive, Return, SendStop, Receives, slotVars, supVars, callVars
<1>2. ControlInv'
  BY DEF ControlInv, KernelTypeOK, StopActive, Return, SendStop, Receives, slotVars, supVars, callVars
<1>3. SupInv'
  BY DEF SupInv, KernelTypeOK, ControlInv, LiveSup, Launching, SlotInv, SlotPart, StopActive, Return, SendStop, Receives, slotVars, supVars, callVars
<1>4. SlotInv'
  BY DEF SlotInv, SlotPart, KernelTypeOK, ControlInv, SupInv, LiveSup, Active, Terminal, Launching, StopActive, Return, SendStop, Receives, slotVars, supVars, callVars
<1>5. EventInv'
  <2>1. \A e \in Events : EventOK(e) => EventOK(e)'
    BY DEF EventOK, KernelTypeOK, SupInv, SlotInv, SlotPart, Active, Terminal, Events, LiveSup, StopActive, Return, SendStop, Receives, slotVars, supVars, callVars
  <2>2. UNCHANGED events
    BY DEF StopActive, Return, SendStop, Receives, slotVars, supVars, callVars
  <2> QED
    BY <2>1, <2>2, EventFrame
<1>6. QuietInv'
  BY DEF QuietInv, KernelTypeOK, ControlInv, SupInv, LiveSup, Active, StopActive, Return, SendStop, Receives, slotVars, supVars, callVars
<1> QED
  BY <1>1, <1>2, <1>3, <1>4, <1>5, <1>6

\* fail() of an unknown plugin preserves the invariant.
LEMMA FailUnknownPreserves ==
  ASSUME KernelIInv, FailUnknown
  PROVE  KernelIInv'
<1> USE GenerationAssumption DEF KernelIInv, Generations
<1>1. KernelTypeOK'
  BY DEF KernelTypeOK, ControlInv, Events, EventStates, PluginStates, SupStates, ChildStates, Methods, Steps, Results, Generations, FailUnknown, Return, slotVars, supVars, callVars
<1>2. ControlInv'
  BY DEF ControlInv, KernelTypeOK, FailUnknown, Return, slotVars, supVars, callVars
<1>3. SupInv'
  BY DEF SupInv, KernelTypeOK, ControlInv, LiveSup, Launching, SlotInv, SlotPart, FailUnknown, Return, slotVars, supVars, callVars
<1>4. SlotInv'
  BY DEF SlotInv, SlotPart, KernelTypeOK, ControlInv, SupInv, LiveSup, Active, Terminal, Launching, FailUnknown, Return, slotVars, supVars, callVars
<1>5. EventInv'
  <2>1. \A e \in Events : EventOK(e) => EventOK(e)'
    BY DEF EventOK, KernelTypeOK, SupInv, SlotInv, SlotPart, Active, Terminal, Events, LiveSup, FailUnknown, Return, slotVars, supVars, callVars
  <2>2. UNCHANGED events
    BY DEF FailUnknown, Return, slotVars, supVars, callVars
  <2> QED
    BY <2>1, <2>2, EventFrame
<1>6. QuietInv'
  BY DEF QuietInv, KernelTypeOK, ControlInv, SupInv, LiveSup, Active, FailUnknown, Return, slotVars, supVars, callVars
<1> QED
  BY <1>1, <1>2, <1>3, <1>4, <1>5, <1>6

\* fail() preserves the invariant.
LEMMA FailSlotPreserves ==
  ASSUME KernelIInv, FailSlot
  PROVE  KernelIInv'
<1> USE GenerationAssumption DEF KernelIInv, Generations
<1>1. KernelTypeOK'
  BY DEF KernelTypeOK, ControlInv, Events, EventStates, PluginStates, SupStates, ChildStates, Methods, Steps, Results, Generations, FailSlot, Return, SendStop, Receives, slotVars, supVars, callVars
<1>2. ControlInv'
  BY DEF ControlInv, KernelTypeOK, FailSlot, Return, SendStop, Receives, slotVars, supVars, callVars
<1>3. SupInv'
  BY DEF SupInv, KernelTypeOK, ControlInv, LiveSup, Launching, SlotInv, SlotPart, FailSlot, Return, SendStop, Receives, slotVars, supVars, callVars
<1>4. SlotInv'
  BY DEF SlotInv, SlotPart, KernelTypeOK, ControlInv, SupInv, LiveSup, Active, Terminal, Launching, FailSlot, Return, SendStop, Receives, slotVars, supVars, callVars
<1>5. EventInv'
  <2>1. \A e \in Events : EventOK(e) => EventOK(e)'
    BY DEF EventOK, KernelTypeOK, SupInv, SlotInv, SlotPart, Active, Terminal, Events, LiveSup, FailSlot, Return, SendStop, Receives, slotVars, supVars, callVars
  <2>2. UNCHANGED events
    BY DEF FailSlot, Return, SendStop, Receives, slotVars, supVars, callVars
  <2> QED
    BY <2>1, <2>2, EventFrame
<1>6. QuietInv'
  BY DEF QuietInv, KernelTypeOK, ControlInv, SupInv, LiveSup, Active, FailSlot, Return, SendStop, Receives, slotVars, supVars, callVars
<1> QED
  BY <1>1, <1>2, <1>3, <1>4, <1>5, <1>6

\* The signals of shutdown() preserve the invariant.
LEMMA ShutdownSignalPreserves ==
  ASSUME KernelIInv, ShutdownSignal
  PROVE  KernelIInv'
<1> USE GenerationAssumption DEF KernelIInv, Generations
<1>1. KernelTypeOK'
  BY DEF KernelTypeOK, ControlInv, Events, EventStates, PluginStates, SupStates, ChildStates, Methods, Steps, Results, Generations, ShutdownSignal, Goto, SendStop, Receives, MustSignal, slotVars, supVars, callVars
<1>2. ControlInv'
  BY DEF ControlInv, KernelTypeOK, ShutdownSignal, Goto, SendStop, Receives, MustSignal, slotVars, supVars, callVars
<1>3. SupInv'
  BY DEF SupInv, KernelTypeOK, ControlInv, LiveSup, Launching, SlotInv, SlotPart, ShutdownSignal, Goto, SendStop, Receives, MustSignal, slotVars, supVars, callVars
<1>4. SlotInv'
  BY DEF SlotInv, SlotPart, KernelTypeOK, ControlInv, SupInv, LiveSup, Active, Terminal, Launching, ShutdownSignal, Goto, SendStop, Receives, MustSignal, slotVars, supVars, callVars
<1>5. EventInv'
  <2>1. \A e \in Events : EventOK(e) => EventOK(e)'
    BY DEF EventOK, KernelTypeOK, SupInv, SlotInv, SlotPart, Active, Terminal, Events, LiveSup, ShutdownSignal, Goto, SendStop, Receives, MustSignal, slotVars, supVars, callVars
  <2>2. UNCHANGED events
    BY DEF ShutdownSignal, Goto, SendStop, Receives, MustSignal, slotVars, supVars, callVars
  <2> QED
    BY <2>1, <2>2, EventFrame
<1>6. QuietInv'
  BY DEF QuietInv, KernelTypeOK, ControlInv, SupInv, LiveSup, Active, ShutdownSignal, Goto, SendStop, Receives, MustSignal, slotVars, supVars, callVars
<1> QED
  BY <1>1, <1>2, <1>3, <1>4, <1>5, <1>6

\* The joins of shutdown() preserve the invariant.
LEMMA ShutdownJoinPreserves ==
  ASSUME KernelIInv, ShutdownJoin
  PROVE  KernelIInv'
<1> USE GenerationAssumption DEF KernelIInv, Generations
<1>1. KernelTypeOK'
  BY DEF KernelTypeOK, ControlInv, Events, EventStates, PluginStates, SupStates, ChildStates, Methods, Steps, Results, Generations, ShutdownJoin, Goto, Finished, slotVars, supVars, callVars
<1>2. ControlInv'
  BY DEF ControlInv, KernelTypeOK, ShutdownJoin, Goto, Finished, slotVars, supVars, callVars
<1>3. SupInv'
  BY DEF SupInv, KernelTypeOK, ControlInv, LiveSup, Launching, SlotInv, SlotPart, ShutdownJoin, Goto, Finished, slotVars, supVars, callVars
<1>4. SlotInv'
  BY DEF SlotInv, SlotPart, KernelTypeOK, ControlInv, SupInv, LiveSup, Active, Terminal, Launching, ShutdownJoin, Goto, Finished, slotVars, supVars, callVars
<1>5. EventInv'
  <2>1. \A e \in Events : EventOK(e) => EventOK(e)'
    BY DEF EventOK, KernelTypeOK, SupInv, SlotInv, SlotPart, Active, Terminal, Events, LiveSup, ShutdownJoin, Goto, Finished, slotVars, supVars, callVars
  <2>2. UNCHANGED events
    BY DEF ShutdownJoin, Goto, Finished, slotVars, supVars, callVars
  <2> QED
    BY <2>1, <2>2, EventFrame
<1>6. QuietInv'
  BY DEF QuietInv, KernelTypeOK, ControlInv, SupInv, LiveSup, Active, ShutdownJoin, Goto, Finished, slotVars, supVars, callVars
<1> QED
  BY <1>1, <1>2, <1>3, <1>4, <1>5, <1>6

\* Closing the kernel preserves the invariant.
LEMMA ShutdownClosePreserves ==
  ASSUME KernelIInv, ShutdownClose
  PROVE  KernelIInv'
<1> USE GenerationAssumption DEF KernelIInv, Generations
<1>1. KernelTypeOK'
  BY DEF KernelTypeOK, ControlInv, Events, EventStates, PluginStates, SupStates, ChildStates, Methods, Steps, Results, Generations, ShutdownClose, Return, slotVars, supVars, callVars
<1>2. ControlInv'
  BY DEF ControlInv, KernelTypeOK, ShutdownClose, Return, slotVars, supVars, callVars
<1>3. SupInv'
  BY DEF SupInv, KernelTypeOK, ControlInv, LiveSup, Launching, SlotInv, SlotPart, ShutdownClose, Return, slotVars, supVars, callVars
<1>4. SlotInv'
  BY DEF SlotInv, SlotPart, KernelTypeOK, ControlInv, SupInv, LiveSup, Active, Terminal, Launching, QuietInv, ShutdownClose, Return, slotVars, supVars, callVars
<1>5. EventInv'
  <2>1. events = <<>> /\ UNCHANGED events
    BY DEF QuietInv, ShutdownClose, Return, slotVars, supVars, callVars
  <2> QED
    BY <2>1 DEF EventInv
<1>6. QuietInv'
  BY DEF QuietInv, KernelTypeOK, ControlInv, SupInv, LiveSup, Active, ShutdownClose, Return, slotVars, supVars, callVars
<1> QED
  BY <1>1, <1>2, <1>3, <1>4, <1>5, <1>6

\* SupSpawn preserves the invariant.
LEMMA SupSpawnPreserves ==
  ASSUME KernelIInv, NEW p \in Plugins, NEW g \in Generations, SupSpawn(p, g)
  PROVE  KernelIInv'
<1> USE GenerationAssumption DEF KernelIInv, Generations
<1>1. KernelTypeOK'
  BY DEF KernelTypeOK, ControlInv, Events, EventStates, PluginStates, SupStates, ChildStates, Methods, Steps, Results, Generations, SupSpawn, SupGoto, slotVars, supVars, callVars
<1>2. ControlInv'
  BY DEF ControlInv, KernelTypeOK, SupSpawn, SupGoto, slotVars, supVars, callVars
<1>3. SupInv'
  BY SMTT(20) DEF SupInv, KernelTypeOK, ControlInv, LiveSup, Launching, SlotInv, SlotPart, SupSpawn, SupGoto, slotVars, supVars, callVars
<1>4. SlotInv'
  BY DEF SlotInv, SlotPart, KernelTypeOK, ControlInv, SupInv, LiveSup, Active, Terminal, Launching, SupSpawn, SupGoto, slotVars, supVars, callVars
<1>5. EventInv'
  <2>1. \A e \in Events : EventOK(e) => EventOK(e)'
    BY SMTT(20) DEF EventOK, KernelTypeOK, SupInv, SlotInv, SlotPart, Active, Terminal, Events, LiveSup, SupSpawn, SupGoto, slotVars, supVars, callVars
  <2>2. UNCHANGED events
    BY DEF SupSpawn, SupGoto, slotVars, supVars, callVars
  <2> QED
    BY <2>1, <2>2, EventFrame
<1>6. QuietInv'
  BY DEF QuietInv, KernelTypeOK, ControlInv, SupInv, LiveSup, Active, SupSpawn, SupGoto, slotVars, supVars, callVars
<1> QED
  BY <1>1, <1>2, <1>3, <1>4, <1>5, <1>6

\* SupSpawnError preserves the invariant.
LEMMA SupSpawnErrorPreserves ==
  ASSUME KernelIInv, NEW p \in Plugins, NEW g \in Generations, SupSpawnError(p, g)
  PROVE  KernelIInv'
<1> USE GenerationAssumption DEF KernelIInv, Generations
<1>1. KernelTypeOK'
  BY DEF KernelTypeOK, ControlInv, Events, EventStates, PluginStates, SupStates, ChildStates, Methods, Steps, Results, Generations, SupSpawnError, SupGoto, slotVars, supVars, callVars
<1>2. ControlInv'
  BY DEF ControlInv, KernelTypeOK, SupSpawnError, SupGoto, slotVars, supVars, callVars
<1>3. SupInv'
  BY SMTT(20) DEF SupInv, KernelTypeOK, ControlInv, LiveSup, Launching, SlotInv, SlotPart, SupSpawnError, SupGoto, slotVars, supVars, callVars
<1>4. SlotInv'
  BY DEF SlotInv, SlotPart, KernelTypeOK, ControlInv, SupInv, LiveSup, Active, Terminal, Launching, SupSpawnError, SupGoto, slotVars, supVars, callVars
<1>5. EventInv'
  <2>1. \A e \in Events : EventOK(e) => EventOK(e)'
    BY DEF EventOK, KernelTypeOK, SupInv, SlotInv, SlotPart, Active, Terminal, Events, LiveSup, SupSpawnError, SupGoto, slotVars, supVars, callVars
  <2>2. UNCHANGED events
    BY DEF SupSpawnError, SupGoto, slotVars, supVars, callVars
  <2> QED
    BY <2>1, <2>2, EventFrame
<1>6. QuietInv'
  BY DEF QuietInv, KernelTypeOK, ControlInv, SupInv, LiveSup, Active, SupSpawnError, SupGoto, slotVars, supVars, callVars
<1> QED
  BY <1>1, <1>2, <1>3, <1>4, <1>5, <1>6

\* SupAnnounce preserves the invariant.
LEMMA SupAnnouncePreserves ==
  ASSUME KernelIInv, NEW p \in Plugins, NEW g \in Generations, SupAnnounce(p, g)
  PROVE  KernelIInv'
<1> USE GenerationAssumption DEF KernelIInv, Generations
<1>1. KernelTypeOK'
  BY DEF KernelTypeOK, ControlInv, Events, EventStates, PluginStates, SupStates, ChildStates, Methods, Steps, Results, Generations, SupAnnounce, SupGoto, Report, slotVars, supVars, callVars
<1>2. ControlInv'
  BY DEF ControlInv, KernelTypeOK, SupAnnounce, SupGoto, Report, slotVars, supVars, callVars
<1>3. SupInv'
  BY SMTT(20) DEF SupInv, KernelTypeOK, ControlInv, LiveSup, Launching, SlotInv, SlotPart, SupAnnounce, SupGoto, Report, slotVars, supVars, callVars
<1>4. SlotInv'
  BY SMTT(20) DEF SlotInv, SlotPart, KernelTypeOK, ControlInv, SupInv, LiveSup, Active, Terminal, Launching, SupAnnounce, SupGoto, Report, slotVars, supVars, callVars
<1>5. EventInv'
  <2>1. \A e \in Events : EventOK(e) => EventOK(e)'
    BY SMTT(20) DEF EventOK, KernelTypeOK, SupInv, SlotInv, SlotPart, Active, Terminal, Events, LiveSup, SupAnnounce, SupGoto, Report, slotVars, supVars, callVars
  <2>2. PICK x \in Events : /\ events' = Append(events, x)
                           /\ x.id = p /\ x.gen = g
                           /\ x.state = "Running"
    BY DEF Events, EventStates, SupAnnounce, SupGoto, Report, slotVars, supVars, callVars
  <2>3. EventOK(x)'
    <3>1. sup'[p][g] = "waiting" /\ UNCHANGED <<state, forced, generation>>
      BY DEF KernelTypeOK, SupAnnounce, SupGoto, Report, slotVars, supVars, callVars
    <3>2. ~(state[p] \in Terminal /\ ~forced[p])
      BY DEF SlotInv, SlotPart, SupAnnounce, SupGoto, Report, slotVars, supVars, callVars
    <3> QED
      BY <2>2, <3>1, <3>2 DEF EventOK, Terminal
  <2>4. ASSUME NEW i \in 1 .. Len(events), events[i].id = x.id, events[i].gen = x.gen
        PROVE  events[i].state = "Running"
    <3>1. EventOK(events[i]) /\ events[i].state \in EventStates
      BY EventTyped DEF EventInv
    <3> QED
      BY <2>2, <2>4, <3>1 DEF EventOK, EventStates, Terminal, SupAnnounce, SupGoto, Report, slotVars, supVars, callVars
  <2> QED
    BY <2>1, <2>2, <2>3, <2>4, EventAppend
<1>6. QuietInv'
  <2>1. LiveSup(p, g) /\ worker[p] # 0
    BY DEF LiveSup, SupInv, SupAnnounce, SupGoto, Report, slotVars, supVars, callVars
  <2> QED
    BY <2>1 DEF QuietInv, KernelTypeOK, SupAnnounce, SupGoto, Report, slotVars, supVars, callVars
<1> QED
  BY <1>1, <1>2, <1>3, <1>4, <1>5, <1>6

\* SupWait preserves the invariant.
LEMMA SupWaitPreserves ==
  ASSUME KernelIInv, NEW p \in Plugins, NEW g \in Generations, SupWait(p, g)
  PROVE  KernelIInv'
<1> USE GenerationAssumption DEF KernelIInv, Generations
<1>1. KernelTypeOK'
  BY DEF KernelTypeOK, ControlInv, Events, EventStates, PluginStates, SupStates, ChildStates, Methods, Steps, Results, Generations, SupWait, SupGoto, slotVars, supVars, callVars
<1>2. ControlInv'
  BY DEF ControlInv, KernelTypeOK, SupWait, SupGoto, slotVars, supVars, callVars
<1>3. SupInv'
  BY SMTT(20) DEF SupInv, KernelTypeOK, ControlInv, LiveSup, Launching, SlotInv, SlotPart, SupWait, SupGoto, slotVars, supVars, callVars
<1>4. SlotInv'
  BY DEF SlotInv, SlotPart, KernelTypeOK, ControlInv, SupInv, LiveSup, Active, Terminal, Launching, SupWait, SupGoto, slotVars, supVars, callVars
<1>5. EventInv'
  <2>1. \A e \in Events : EventOK(e) => EventOK(e)'
    BY SMTT(20) DEF EventOK, KernelTypeOK, SupInv, SlotInv, SlotPart, Active, Terminal, Events, LiveSup, SupWait, SupGoto, slotVars, supVars, callVars
  <2>2. UNCHANGED events
    BY DEF SupWait, SupGoto, slotVars, supVars, callVars
  <2> QED
    BY <2>1, <2>2, EventFrame
<1>6. QuietInv'
  BY DEF QuietInv, KernelTypeOK, ControlInv, SupInv, LiveSup, Active, SupWait, SupGoto, slotVars, supVars, callVars
<1> QED
  BY <1>1, <1>2, <1>3, <1>4, <1>5, <1>6

\* SupPoll preserves the invariant.
LEMMA SupPollPreserves ==
  ASSUME KernelIInv, NEW p \in Plugins, NEW g \in Generations, SupPoll(p, g)
  PROVE  KernelIInv'
<1> USE GenerationAssumption DEF KernelIInv, Generations
<1>1. KernelTypeOK'
  BY DEF KernelTypeOK, ControlInv, Events, EventStates, PluginStates, SupStates, ChildStates, Methods, Steps, Results, Generations, SupPoll, SupGoto, slotVars, supVars, callVars
<1>2. ControlInv'
  BY DEF ControlInv, KernelTypeOK, SupPoll, SupGoto, slotVars, supVars, callVars
<1>3. SupInv'
  BY SMTT(20) DEF SupInv, KernelTypeOK, ControlInv, LiveSup, Launching, SlotInv, SlotPart, SupPoll, SupGoto, slotVars, supVars, callVars
<1>4. SlotInv'
  BY DEF SlotInv, SlotPart, KernelTypeOK, ControlInv, SupInv, LiveSup, Active, Terminal, Launching, SupPoll, SupGoto, slotVars, supVars, callVars
<1>5. EventInv'
  <2>1. \A e \in Events : EventOK(e) => EventOK(e)'
    BY DEF EventOK, KernelTypeOK, SupInv, SlotInv, SlotPart, Active, Terminal, Events, LiveSup, SupPoll, SupGoto, slotVars, supVars, callVars
  <2>2. UNCHANGED events
    BY DEF SupPoll, SupGoto, slotVars, supVars, callVars
  <2> QED
    BY <2>1, <2>2, EventFrame
<1>6. QuietInv'
  BY DEF QuietInv, KernelTypeOK, ControlInv, SupInv, LiveSup, Active, SupPoll, SupGoto, slotVars, supVars, callVars
<1> QED
  BY <1>1, <1>2, <1>3, <1>4, <1>5, <1>6

\* SupPollError preserves the invariant.
LEMMA SupPollErrorPreserves ==
  ASSUME KernelIInv, NEW p \in Plugins, NEW g \in Generations, SupPollError(p, g)
  PROVE  KernelIInv'
<1> USE GenerationAssumption DEF KernelIInv, Generations
<1>1. KernelTypeOK'
  BY DEF KernelTypeOK, ControlInv, Events, EventStates, PluginStates, SupStates, ChildStates, Methods, Steps, Results, Generations, SupPollError, SupGoto, slotVars, supVars, callVars
<1>2. ControlInv'
  BY DEF ControlInv, KernelTypeOK, SupPollError, SupGoto, slotVars, supVars, callVars
<1>3. SupInv'
  BY SMTT(20) DEF SupInv, KernelTypeOK, ControlInv, LiveSup, Launching, SlotInv, SlotPart, SupPollError, SupGoto, slotVars, supVars, callVars
<1>4. SlotInv'
  BY DEF SlotInv, SlotPart, KernelTypeOK, ControlInv, SupInv, LiveSup, Active, Terminal, Launching, SupPollError, SupGoto, slotVars, supVars, callVars
<1>5. EventInv'
  <2>1. \A e \in Events : EventOK(e) => EventOK(e)'
    BY SMTT(20) DEF EventOK, KernelTypeOK, SupInv, SlotInv, SlotPart, Active, Terminal, Events, LiveSup, SupPollError, SupGoto, slotVars, supVars, callVars
  <2>2. UNCHANGED events
    BY DEF SupPollError, SupGoto, slotVars, supVars, callVars
  <2> QED
    BY <2>1, <2>2, EventFrame
<1>6. QuietInv'
  BY DEF QuietInv, KernelTypeOK, ControlInv, SupInv, LiveSup, Active, SupPollError, SupGoto, slotVars, supVars, callVars
<1> QED
  BY <1>1, <1>2, <1>3, <1>4, <1>5, <1>6

\* SupTerminate preserves the invariant.
LEMMA SupTerminatePreserves ==
  ASSUME KernelIInv, NEW p \in Plugins, NEW g \in Generations, SupTerminate(p, g)
  PROVE  KernelIInv'
<1> USE GenerationAssumption DEF KernelIInv, Generations
<1>1. KernelTypeOK'
  BY DEF KernelTypeOK, ControlInv, Events, EventStates, PluginStates, SupStates, ChildStates, Methods, Steps, Results, Generations, SupTerminate, SupGoto, slotVars, supVars, callVars
<1>2. ControlInv'
  BY DEF ControlInv, KernelTypeOK, SupTerminate, SupGoto, slotVars, supVars, callVars
<1>3. SupInv'
  BY SMTT(20) DEF SupInv, KernelTypeOK, ControlInv, LiveSup, Launching, SlotInv, SlotPart, SupTerminate, SupGoto, slotVars, supVars, callVars
<1>4. SlotInv'
  BY DEF SlotInv, SlotPart, KernelTypeOK, ControlInv, SupInv, LiveSup, Active, Terminal, Launching, SupTerminate, SupGoto, slotVars, supVars, callVars
<1>5. EventInv'
  <2>1. \A e \in Events : EventOK(e) => EventOK(e)'
    BY SMTT(20) DEF EventOK, KernelTypeOK, SupInv, SlotInv, SlotPart, Active, Terminal, Events, LiveSup, SupTerminate, SupGoto, slotVars, supVars, callVars
  <2>2. UNCHANGED events
    BY DEF SupTerminate, SupGoto, slotVars, supVars, callVars
  <2> QED
    BY <2>1, <2>2, EventFrame
<1>6. QuietInv'
  BY DEF QuietInv, KernelTypeOK, ControlInv, SupInv, LiveSup, Active, SupTerminate, SupGoto, slotVars, supVars, callVars
<1> QED
  BY <1>1, <1>2, <1>3, <1>4, <1>5, <1>6

\* SupReport preserves the invariant.
LEMMA SupReportPreserves ==
  ASSUME KernelIInv, NEW p \in Plugins, NEW g \in Generations, SupReport(p, g)
  PROVE  KernelIInv'
<1> USE GenerationAssumption DEF KernelIInv, Generations
<1>1. KernelTypeOK'
  BY DEF KernelTypeOK, ControlInv, Events, EventStates, PluginStates, SupStates, ChildStates, Methods, Steps, Results, Generations, SupReport, SupGoto, Report, slotVars, supVars, callVars
<1>2. ControlInv'
  BY DEF ControlInv, KernelTypeOK, SupReport, SupGoto, Report, slotVars, supVars, callVars
<1>3. SupInv'
  <2>1. /\ sup' = [sup EXCEPT ![p][g] = "returning"]
        /\ UNCHANGED <<generation, worker, child, op, target, step>>
    BY DEF SupReport, SupGoto, slotVars, callVars
  <2>2. sup[p][g] \in {"stopped", "failed"}
    BY DEF SupReport
  <2> QED
    BY <2>1, <2>2, SMTT(20) DEF SupInv, KernelTypeOK, LiveSup, Launching
<1>4. SlotInv'
  BY SMTT(20) DEF SlotInv, SlotPart, KernelTypeOK, ControlInv, SupInv, LiveSup, Active, Terminal, Launching, SupReport, SupGoto, Report, slotVars, supVars, callVars
<1>5. EventInv'
  <2>1. \A e \in Events : EventOK(e) => EventOK(e)'
    BY SMTT(20) DEF EventOK, KernelTypeOK, SupInv, SlotInv, SlotPart, Active, Terminal, Events, LiveSup, SupReport, SupGoto, Report, slotVars, supVars, callVars
  <2>2. PICK x \in Events : /\ events' = Append(events, x)
                           /\ x.id = p /\ x.gen = g
                           /\ x.state = IF sup[p][g] = "stopped" THEN "Stopped" ELSE "Failed"
    BY DEF Events, EventStates, SupReport, SupGoto, Report, slotVars, supVars, callVars
  <2>3. EventOK(x)'
    <3>1. sup'[p][g] = "returning" /\ UNCHANGED <<state, forced, generation>>
      BY DEF KernelTypeOK, SupReport, SupGoto, Report, slotVars, supVars, callVars
    <3>2. ~(state[p] \in Terminal /\ ~forced[p])
      BY DEF SlotInv, SlotPart, SupReport, SupGoto, Report, slotVars, supVars, callVars
    <3> QED
      BY <2>2, <3>1, <3>2 DEF EventOK, Terminal
  <2>4. ASSUME NEW i \in 1 .. Len(events), events[i].id = x.id, events[i].gen = x.gen
        PROVE  events[i].state = "Running"
    <3>1. EventOK(events[i]) /\ events[i].state \in EventStates
      BY EventTyped DEF EventInv
    <3> QED
      BY <2>2, <2>4, <3>1 DEF EventOK, EventStates, Terminal, SupReport, SupGoto, Report, slotVars, supVars, callVars
  <2> QED
    BY <2>1, <2>2, <2>3, <2>4, EventAppend
<1>6. QuietInv'
  <2>1. LiveSup(p, g) /\ worker[p] # 0
    BY DEF LiveSup, SupInv, SupReport, SupGoto, Report, slotVars, supVars, callVars
  <2> QED
    BY <2>1 DEF QuietInv, KernelTypeOK, SupReport, SupGoto, Report, slotVars, supVars, callVars
<1> QED
  BY <1>1, <1>2, <1>3, <1>4, <1>5, <1>6

\* SupReturn preserves the invariant.
LEMMA SupReturnPreserves ==
  ASSUME KernelIInv, NEW p \in Plugins, NEW g \in Generations, SupReturn(p, g)
  PROVE  KernelIInv'
<1> USE GenerationAssumption DEF KernelIInv, Generations
<1>1. KernelTypeOK'
  BY DEF KernelTypeOK, ControlInv, Events, EventStates, PluginStates, SupStates, ChildStates, Methods, Steps, Results, Generations, SupReturn, SupGoto, slotVars, supVars, callVars
<1>2. ControlInv'
  BY DEF ControlInv, KernelTypeOK, SupReturn, SupGoto, slotVars, supVars, callVars
<1>3. SupInv'
  BY SMTT(20) DEF SupInv, KernelTypeOK, ControlInv, LiveSup, Launching, SlotInv, SlotPart, SupReturn, SupGoto, slotVars, supVars, callVars
<1>4. SlotInv'
  BY DEF SlotInv, SlotPart, KernelTypeOK, ControlInv, SupInv, LiveSup, Active, Terminal, Launching, SupReturn, SupGoto, slotVars, supVars, callVars
<1>5. EventInv'
  <2>1. \A e \in Events : EventOK(e) => EventOK(e)'
    BY SMTT(20) DEF EventOK, KernelTypeOK, SupInv, SlotInv, SlotPart, Active, Terminal, Events, LiveSup, SupReturn, SupGoto, slotVars, supVars, callVars
  <2>2. UNCHANGED events
    BY DEF SupReturn, SupGoto, slotVars, supVars, callVars
  <2> QED
    BY <2>1, <2>2, EventFrame
<1>6. QuietInv'
  BY DEF QuietInv, KernelTypeOK, ControlInv, SupInv, LiveSup, Active, SupReturn, SupGoto, slotVars, supVars, callVars
<1> QED
  BY <1>1, <1>2, <1>3, <1>4, <1>5, <1>6

\* ChildExit preserves the invariant.
LEMMA ChildExitPreserves ==
  ASSUME KernelIInv, NEW p \in Plugins, NEW g \in Generations, ChildExit(p, g)
  PROVE  KernelIInv'
<1> USE GenerationAssumption DEF KernelIInv, Generations
<1>1. KernelTypeOK'
  BY DEF KernelTypeOK, ControlInv, Events, EventStates, PluginStates, SupStates, ChildStates, Methods, Steps, Results, Generations, ChildExit, SupGoto, slotVars, supVars, callVars
<1>2. ControlInv'
  BY DEF ControlInv, KernelTypeOK, ChildExit, SupGoto, slotVars, supVars, callVars
<1>3. SupInv'
  BY DEF SupInv, KernelTypeOK, ControlInv, LiveSup, Launching, SlotInv, SlotPart, ChildExit, SupGoto, slotVars, supVars, callVars
<1>4. SlotInv'
  BY DEF SlotInv, SlotPart, KernelTypeOK, ControlInv, SupInv, LiveSup, Active, Terminal, Launching, ChildExit, SupGoto, slotVars, supVars, callVars
<1>5. EventInv'
  <2>1. \A e \in Events : EventOK(e) => EventOK(e)'
    BY DEF EventOK, KernelTypeOK, SupInv, SlotInv, SlotPart, Active, Terminal, Events, LiveSup, ChildExit, SupGoto, slotVars, supVars, callVars
  <2>2. UNCHANGED events
    BY DEF ChildExit, SupGoto, slotVars, supVars, callVars
  <2> QED
    BY <2>1, <2>2, EventFrame
<1>6. QuietInv'
  BY DEF QuietInv, KernelTypeOK, ControlInv, SupInv, LiveSup, Active, ChildExit, SupGoto, slotVars, supVars, callVars
<1> QED
  BY <1>1, <1>2, <1>3, <1>4, <1>5, <1>6

\* Applying the event at the head of the channel preserves the invariant.
LEMMA DrainEventPreserves ==
  ASSUME KernelIInv, DrainEvent
  PROVE  KernelIInv'
<1> USE GenerationAssumption DEF KernelIInv, Generations
<1> DEFINE e == Head(events)
           p == e.id
           n == Len(events)
<1>1. /\ n \in Nat /\ n > 0 /\ events[1] = e
      /\ events' \in Seq(Events) /\ Len(events') = n - 1
      /\ \A i \in 1 .. n - 1 : events'[i] = events[i + 1]
  BY DEF DrainEvent, KernelTypeOK
<1>2. /\ e \in Events /\ p \in Plugins /\ e.gen \in Generations
      /\ e.state \in EventStates /\ EventOK(e)
  BY <1>1, EventTyped DEF EventInv
<1>3. UNCHANGED <<kernel, generation, forced, worker, sup, inbox, child, op, target, step, result>>
  BY DEF DrainEvent, supVars, callVars
<1>4. \A q \in Plugins : ~Launching(q)
  BY DEF DrainEvent, Launching
<1>5. CASE state[p] = "Unregistered" \/ generation[p] # e.gen
  <2>1. UNCHANGED <<state, commands>>
    BY <1>5 DEF DrainEvent, ApplyEvent
  <2>2. KernelTypeOK' /\ ControlInv' /\ SupInv' /\ SlotInv'
    BY <1>1, <1>3, <2>1 DEF KernelTypeOK, ControlInv, SupInv, SlotInv, SlotPart, LiveSup, Launching
  <2>3. \A x \in Events : EventOK(x) => EventOK(x)'
    BY <1>3, <2>1 DEF EventOK
  <2> QED
    <3>1. ASSUME NEW i \in 1 .. n - 1 PROVE EventOK(events[i])'
      <4>1. i + 1 \in 1 .. n /\ events'[i] = events[i + 1]
        BY <1>1
      <4>2. PICK x \in Events : x = events[i + 1] /\ EventOK(x)
        BY <4>1, EventTyped DEF EventInv
      <4> QED
        BY <4>1, <4>2, <2>3 DEF EventOK
    <3>2. EventInv'
      BY <1>1, <3>1 DEF EventInv
    <3>3. QuietInv'
      BY <1>1, <1>3, <2>1 DEF QuietInv, DrainEvent
    <3> QED
      BY <2>2, <3>2, <3>3
<1>6. CASE state[p] # "Unregistered" /\ generation[p] = e.gen
  <2> DEFINE s == IF forced[p] THEN "Failed" ELSE e.state
  <2>1. /\ state' = [state EXCEPT ![p] = s]
        /\ commands' = IF s \in Terminal THEN [commands EXCEPT ![p] = 0] ELSE commands
    BY <1>6 DEF DrainEvent, ApplyEvent
  <2>2. s \in EventStates /\ (s \in Terminal /\ ~forced[p] => e.state \in Terminal)
    BY <1>2 DEF EventStates, Terminal
  <2>3. s = "Running" => state[p] \in Active /\ commands[p] = generation[p] /\ ~forced[p]
    <3> SUFFICES ASSUME s = "Running" PROVE state[p] \in Active /\ commands[p] = generation[p] /\ ~forced[p]
      OBVIOUS
    <3>1. ~forced[p]
      BY <1>2 DEF KernelTypeOK
    <3>2. state[p] \notin Terminal
      BY <1>2, <1>6, <3>1 DEF EventOK
    <3>3. generation[p] # 0 /\ state[p] \notin {"Unregistered", "Registered"}
      BY <1>2, <1>6 DEF SlotInv, SlotPart
    <3>4. state[p] \in Active
      BY <1>2, <3>2, <3>3 DEF KernelTypeOK, PluginStates, Active, Terminal
    <3> QED
      BY <1>2, <1>4, <3>1, <3>4 DEF SlotInv, SlotPart
  <2>4. KernelTypeOK'
    <3>1. state' \in [Plugins -> PluginStates]
      BY <2>1, <2>2 DEF KernelTypeOK, EventStates, PluginStates
    <3>2. commands' \in [Plugins -> 0 .. MaxGeneration]
      <4>1. \A q \in Plugins : [commands EXCEPT ![q] = 0] \in [Plugins -> 0 .. MaxGeneration]
        BY DEF KernelTypeOK
      <4> QED
        BY <1>2, <2>1, <4>1 DEF KernelTypeOK
    <3> QED
      BY <1>1, <1>3, <3>1, <3>2 DEF KernelTypeOK
  <2>5. ControlInv' /\ SupInv'
    BY <1>3 DEF ControlInv, SupInv, LiveSup, Launching
  <2>6. SlotInv'
    <3> SUFFICES ASSUME NEW q \in Plugins
                 PROVE  SlotPart(q)'
      BY DEF SlotInv
    <3>1. CASE q # p
      <4>1. state'[q] = state[q] /\ commands'[q] = commands[q]
        BY <1>2, <2>1, <3>1 DEF KernelTypeOK
      <4> QED
        BY <1>3, <4>1 DEF SlotInv, SlotPart, Launching
    <3>2. CASE q = p
      <4>1. state'[p] = s /\ generation[p] # 0 /\ SlotPart(p)
        <5>1. state \in [Plugins -> PluginStates]
          BY <1>2 DEF KernelTypeOK
        <5>2. state'[p] = s
          BY <1>2, <2>1, <5>1
        <5>3. generation[p] # 0
          BY <1>2, <1>6 DEF Generations
        <5>4. SlotPart(p)
          BY <1>2 DEF SlotInv
        <5> QED
          BY <5>2, <5>3, <5>4
      <4>2. s = "Running" => commands'[p] = generation[p] /\ ~forced[p]
        BY <2>1, <2>3 DEF Terminal
      <4>3. s \in Terminal /\ ~forced[p] =>
              \A g \in Generations : sup[p][g] \in {"none", "returning", "finished"}
        <5> SUFFICES ASSUME s \in Terminal, ~forced[p], NEW g \in Generations
                     PROVE  sup[p][g] \in {"none", "returning", "finished"}
          OBVIOUS
        <5>1. CASE g = e.gen
          BY <1>2, <2>2, <5>1 DEF EventOK
        <5>2. CASE g # e.gen
          BY <1>2, <1>4, <1>6, <5>2 DEF SupInv, LiveSup
        <5> QED
          BY <5>1, <5>2
      <4>4. forced[p] => s = "Failed"
        OBVIOUS
      <4>5. s \in {"Running", "Stopped", "Failed"}
        BY <2>2 DEF EventStates
      <4> QED
        BY <1>3, <1>4, <3>2, <4>1, <4>2, <4>3, <4>4, <4>5 DEF SlotPart, Launching, Active, Terminal
    <3> QED
      BY <3>1, <3>2
  <2>7. EventInv'
    <3>1. ASSUME NEW i \in 1 .. n - 1
          PROVE  EventOK(events[i])'
      <4>1. i + 1 \in 1 .. n /\ events'[i] = events[i + 1]
        BY <1>1
      <4>2. PICK x \in Events : x = events[i + 1] /\ EventOK(x)
        BY <4>1, EventTyped DEF EventInv
      <4>3. x.id \in Plugins
        BY <4>2 DEF Events
      <4>4. x.id = p /\ x.gen = e.gen => e.state = "Running"
        BY <1>1, <4>1, <4>2, SMTT(20) DEF EventInv
      <4>5. CASE x.id # p
        BY <1>2, <1>3, <2>1, <4>1, <4>2, <4>3, <4>5 DEF EventOK, KernelTypeOK
      <4>6. CASE x.id = p
        <5>1. state'[p] = s
          BY <1>2, <2>1 DEF KernelTypeOK
        <5>2. x.gen = generation[p] => e.state \notin Terminal
          BY <1>6, <4>4, <4>6 DEF Terminal
        <5> QED
          BY <1>3, <2>2, <4>1, <4>2, <4>6, <5>1, <5>2 DEF EventOK
      <4> QED
        BY <4>5, <4>6
    <3> QED
      BY <1>1, <3>1 DEF EventInv
  <2>8. QuietInv'
    BY <1>1, <1>2, <1>3, <2>1, <2>2, <2>3 DEF QuietInv, DrainEvent, ControlInv
  <2> QED
    BY <2>4, <2>5, <2>6, <2>7, <2>8
<1> QED
  BY <1>5, <1>6

-----------------------------------------------------------------------------
\* Every step of the kernel, its supervisors and their children, and every
\* stuttering step, preserves the invariant.
LEMMA NextKernelIInv == KernelIInv /\ [KernelNext]_kernelVars => KernelIInv'
<1> SUFFICES ASSUME KernelIInv, [KernelNext]_kernelVars PROVE KernelIInv'
  OBVIOUS
<1>1. ASSUME NEW p \in Plugins, Register(p) PROVE KernelIInv'
  BY <1>1, RegisterPreserves
<1>2. ASSUME NEW p \in Plugins, NEW m \in Methods, CallRefused(m, p) \/ CallEntered(m, p)
      PROVE  KernelIInv'
  BY <1>2, CallRefusedPreserves, CallEnteredPreserves
<1>3. CASE KernelStep
  BY <1>3, DrainEventPreserves, DrainDonePreserves, ReapPreserves, StartRefusedPreserves, StartSlotPreserves, StartJoinPreserves, StartSpawnedPreserves, StartNotSpawnedPreserves, StopInactivePreserves, StopActivePreserves, FailUnknownPreserves, FailSlotPreserves, ShutdownSignalPreserves, ShutdownJoinPreserves, ShutdownClosePreserves DEF KernelStep
<1>4. ASSUME NEW p \in Plugins, NEW g \in Generations, Supervisor(p, g) PROVE KernelIInv'
  BY <1>4, SupSpawnPreserves, SupSpawnErrorPreserves, SupAnnouncePreserves, SupWaitPreserves, SupPollPreserves, SupPollErrorPreserves, SupTerminatePreserves, SupReportPreserves, SupReturnPreserves DEF Supervisor
<1>5. ASSUME NEW p \in Plugins, NEW g \in Generations, ChildExit(p, g) PROVE KernelIInv'
  BY <1>5, ChildExitPreserves
<1>6. CASE UNCHANGED kernelVars
  <2>1. UNCHANGED <<kernel, state, generation, commands, forced, worker, events, sup, inbox, child,
                    op, target, step, result>>
    BY <1>6 DEF kernelVars, slotVars, supVars, callVars
  <2>2. EventInv'
    BY <2>1 DEF KernelIInv, EventInv, EventOK
  <2> QED
    BY <2>1, <2>2 DEF KernelIInv, KernelTypeOK, ControlInv, SupInv, SlotInv, SlotPart, QuietInv, LiveSup, Launching
<1> QED
  BY <1>1, <1>2, <1>3, <1>4, <1>5, <1>6 DEF KernelNext, Environment

\* The inductive invariant holds in every reachable state of the kernel.
THEOREM KernelInvariant == KernelSafetySpec => []KernelIInv
<1> QED
  BY InitKernelIInv, NextKernelIInv, PTL DEF KernelSafetySpec

\* Type correctness of the kernel's state, for any plugins and generations.
THEOREM KernelTypeCorrect == KernelSafetySpec => []KernelTypeOK
<1>1. KernelIInv => KernelTypeOK
  BY DEF KernelIInv
<1> QED
  BY <1>1, KernelInvariant, PTL

\* A Stopped or (not forced) Failed slot has no process left.
THEOREM KernelTerminalIsTrue == KernelSafetySpec => []TerminalIsTrue
<1>1. KernelIInv => TerminalIsTrue
  BY DEF KernelIInv, SupInv, SlotInv, SlotPart, TerminalIsTrue, KernelTypeOK
<1> QED
  BY <1>1, KernelInvariant, PTL

\* Every active slot can be reached through its command sender.
THEOREM KernelActiveIsAddressable == KernelSafetySpec => []ActiveIsAddressable
<1>1. KernelIInv => ActiveIsAddressable
  BY DEF KernelIInv, SlotInv, SlotPart, ActiveIsAddressable
<1> QED
  BY <1>1, KernelInvariant, PTL

\* After shutdown() neither thread, process, event nor active slot remains.
THEOREM KernelNothingSurvives == KernelSafetySpec => []NothingSurvivesShutdown
<1>1. ASSUME KernelIInv, kernel = "Stopped", NEW p \in Plugins, NEW g \in Generations
      PROVE  ~LiveSup(p, g) /\ child[p][g] # "alive"
  <2>1. worker[p] = 0 /\ g # 0
    BY <1>1, GenerationAssumption DEF KernelIInv, QuietInv, Generations
  <2>2. ~LiveSup(p, g)
    BY <1>1, <2>1 DEF KernelIInv, SupInv
  <2> QED
    BY <1>1, <2>2 DEF KernelIInv, SupInv, LiveSup
<1>2. KernelIInv => NothingSurvivesShutdown
  BY <1>1 DEF KernelIInv, QuietInv, NothingSurvivesShutdown
<1> QED
  BY <1>2, KernelInvariant, PTL

FinalStep ==
  \A p \in Plugins :
    generation'[p] = generation[p] =>
      /\ state[p] \in Terminal => state'[p] \in Terminal
      /\ forced[p] => state'[p] = "Failed"

\* Only a new generation leaves a terminal state; nothing but it leaves a forced
\* failure.  The event that could is not in the channel (EventOK) or is overruled.
LEMMA KernelFinalStep == KernelIInv /\ [KernelNext]_kernelVars => FinalStep
<1> SUFFICES ASSUME KernelIInv, [KernelNext]_kernelVars PROVE FinalStep
  OBVIOUS
<1> USE GenerationAssumption DEF KernelIInv
<1>0. \A p \in Plugins : forced[p] => state[p] = "Failed"
  BY DEF SlotInv, SlotPart
<1>1. CASE UNCHANGED state
  BY <1>0, <1>1 DEF FinalStep
<1>2. ASSUME NEW p \in Plugins, Register(p) PROVE FinalStep
  BY <1>0, <1>2 DEF Register, Return, FinalStep, KernelTypeOK, Terminal
<1>3. CASE StartSlot
  BY <1>0, <1>3 DEF StartSlot, FinalStep, KernelTypeOK, Terminal
<1>4. CASE StartNotSpawned
  BY <1>0, <1>4 DEF StartNotSpawned, FinalStep, KernelTypeOK, Terminal
<1>5. CASE StopInactive \/ StopActive
  BY <1>0, <1>5 DEF StopInactive, StopActive, FinalStep, KernelTypeOK, Terminal, Active
<1>6. CASE FailSlot
  BY <1>0, <1>6 DEF FailSlot, FinalStep, KernelTypeOK, Terminal
<1>7. CASE ShutdownSignal \/ ShutdownClose
  BY <1>0, <1>7 DEF ShutdownSignal, ShutdownClose, MustSignal, FinalStep, KernelTypeOK, Terminal, Active
<1>8. CASE DrainEvent
  <2> DEFINE e == Head(events)
  <2>1. e = events[1] /\ 1 \in 1 .. Len(events)
    BY <1>8 DEF DrainEvent, KernelTypeOK
  <2>2. e.id \in Plugins /\ EventOK(e)
    BY <2>1, EventTyped DEF EventInv
  <2>3. CASE state[e.id] = "Unregistered" \/ generation[e.id] # e.gen
    BY <1>0, <1>8, <2>3 DEF DrainEvent, ApplyEvent, FinalStep
  <2>4. CASE state[e.id] # "Unregistered" /\ generation[e.id] = e.gen
    <3>1. state' = [state EXCEPT ![e.id] = IF forced[e.id] THEN "Failed" ELSE e.state]
      BY <1>8, <2>4 DEF DrainEvent, ApplyEvent
    <3>2. state[e.id] \in Terminal => forced[e.id]
      BY <2>2, <2>4 DEF EventOK
    <3> QED
      BY <1>0, <2>2, <3>1, <3>2 DEF FinalStep, KernelTypeOK, Terminal
  <2> QED
    BY <2>3, <2>4
<1>9. CASE UNCHANGED kernelVars
  BY <1>1, <1>9 DEF kernelVars, slotVars
<1>10. ASSUME NEW p \in Plugins, NEW m \in Methods, CallRefused(m, p) \/ CallEntered(m, p)
       PROVE  UNCHANGED state
  BY <1>10 DEF CallRefused, CallEntered, slotVars
<1>11. ASSUME DrainDone \/ Reap \/ StartRefused \/ StartJoin \/ StartSpawned \/ FailUnknown \/ ShutdownJoin
       PROVE  UNCHANGED state
  BY <1>11 DEF DrainDone, Reap, StartRefused, StartJoin, StartSpawned, FailUnknown, ShutdownJoin, slotVars
<1>12. ASSUME NEW p \in Plugins, NEW g \in Generations, Supervisor(p, g) \/ ChildExit(p, g)
       PROVE  UNCHANGED state
  BY <1>12 DEF Supervisor, SupSpawn, SupSpawnError, SupAnnounce, SupWait, SupPoll, SupPollError,
               SupTerminate, SupReport, SupReturn, ChildExit, slotVars
<1>13. CASE KernelStep
  BY <1>13, <1>1, <1>3, <1>4, <1>5, <1>6, <1>7, <1>8, <1>11 DEF KernelStep
<1> QED
  BY <1>1, <1>2, <1>9, <1>10, <1>12, <1>13 DEF KernelNext, Environment

\* Within a generation, terminal states and forced failures are final.
THEOREM KernelTerminalIsFinal == KernelSafetySpec => TerminalIsFinal
<1>1. KernelIInv /\ [KernelNext]_kernelVars => [FinalStep]_kernelVars
  BY KernelFinalStep
<1> QED
  BY <1>1, KernelInvariant, PTL DEF KernelSafetySpec, TerminalIsFinal, FinalStep

\* What a step may do to the set of live supervisors and of started generations.
LEMMA KernelLeaseStep ==
  ASSUME KernelIInv, [KernelNext]_kernelVars
  PROVE  [Lease!LeaseNext]_<<Holders, Used>>
<1> USE GenerationAssumption
<1>1. CASE UNCHANGED sup
  BY <1>1 DEF Holders, Used, LiveSup
<1>2. CASE StartSpawned
  <2> DEFINE p == target
             g == generation[target]
  <2>1. /\ p \in Plugins /\ g \in Generations /\ worker[p] = 0 /\ Launching(p)
        /\ sup' = [sup EXCEPT ![p][g] = "spawning"]
    BY <1>2 DEF StartSpawned, KernelIInv, KernelTypeOK, ControlInv, SlotInv, SlotPart, Active, Launching, Generations
  <2>2. Holders[p] = {}
    BY <2>1 DEF KernelIInv, SupInv, Holders, Generations
  <2>3. \A h \in Used[p] : h < g
    BY <2>1 DEF KernelIInv, SupInv, KernelTypeOK, Used, Generations
  <2>4. Holders' = [Holders EXCEPT ![p] = {g}]
    <3>1. ASSUME NEW q \in Plugins
          PROVE  {h \in Generations : LiveSup(q, h)'} = IF q = p THEN {g} ELSE Holders[q]
      BY <2>1, <2>2 DEF KernelIInv, KernelTypeOK, Holders, LiveSup
    <3> QED
      BY <3>1, <2>1 DEF Holders
  <2>5. Used' = [Used EXCEPT ![p] = @ \cup {g}]
    <3>1. ASSUME NEW q \in Plugins
          PROVE  {h \in Generations : sup'[q][h] # "none"} = IF q = p THEN Used[p] \cup {g} ELSE Used[q]
      BY <2>1 DEF KernelIInv, KernelTypeOK, Used
    <3> QED
      BY <3>1, <2>1 DEF Used
  <2> QED
    BY <2>1, <2>2, <2>3, <2>4, <2>5 DEF Lease!LeaseNext, Lease!Acquire
<1>3. ASSUME NEW p \in Plugins, NEW g \in Generations, SupReturn(p, g)
      PROVE  Lease!LeaseNext
  <2>1. sup[p][g] = "returning" /\ sup' = [sup EXCEPT ![p][g] = "finished"]
    BY <1>3 DEF SupReturn, SupGoto
  <2>2. Holders[p] = {g}
    BY <2>1 DEF KernelIInv, SupInv, Holders, LiveSup
  <2>3. Holders' = [Holders EXCEPT ![p] = {}]
    <3>1. ASSUME NEW q \in Plugins
          PROVE  {h \in Generations : LiveSup(q, h)'} = IF q = p THEN {} ELSE Holders[q]
      BY <2>1, <2>2 DEF KernelIInv, KernelTypeOK, Holders, LiveSup
    <3> QED
      BY <3>1 DEF Holders
  <2>4. Used' = Used
    BY <2>1 DEF KernelIInv, KernelTypeOK, Used
  <2> QED
    BY <2>2, <2>3, <2>4 DEF Lease!LeaseNext, Lease!Release
<1>4. ASSUME NEW p \in Plugins, NEW g \in Generations,
             NEW s \in {"announcing", "waiting", "polling", "stopping", "erroring",
                        "stopped", "failed", "returning"},
             LiveSup(p, g), sup' = [sup EXCEPT ![p][g] = s]
      PROVE  UNCHANGED <<Holders, Used>>
  BY <1>4 DEF KernelIInv, KernelTypeOK, Holders, Used, LiveSup
<1>5. ASSUME NEW p \in Plugins, NEW g \in Generations, Supervisor(p, g), ~SupReturn(p, g)
      PROVE  UNCHANGED <<Holders, Used>>
  BY <1>4, <1>5 DEF Supervisor, SupSpawn, SupSpawnError, SupAnnounce, SupWait, SupPoll, SupPollError,
                    SupTerminate, SupReport, SupGoto, LiveSup
<1>6. ASSUME NEW p \in Plugins, NEW g \in Generations, ChildExit(p, g) PROVE UNCHANGED sup
  BY <1>6 DEF ChildExit
<1>7. ASSUME NEW p \in Plugins, NEW m \in Methods, Register(p) \/ CallRefused(m, p) \/ CallEntered(m, p)
      PROVE  UNCHANGED sup
  BY <1>7 DEF Register, CallRefused, CallEntered, supVars
<1>8. ASSUME KernelStep, ~StartSpawned PROVE UNCHANGED sup
  BY <1>8 DEF KernelStep, DrainEvent, DrainDone, Reap, StartRefused, StartSlot, StartJoin, StartNotSpawned,
              StopInactive, StopActive, FailUnknown, FailSlot, ShutdownSignal, ShutdownJoin, ShutdownClose, supVars
<1>9. CASE UNCHANGED kernelVars
  BY <1>1, <1>9 DEF kernelVars, supVars
<1>10. Methods # {}
  BY DEF Methods
<1> QED
  BY <1>1, <1>2, <1>3, <1>5, <1>6, <1>7, <1>8, <1>9, <1>10 DEF KernelNext, Environment

\* The kernel implements the lease specification.
THEOREM KernelImplementsLease == KernelSafetySpec => ImplementsLease
<1>1. KernelInit => Lease!LeaseInit
  BY DEF KernelInit, Lease!LeaseInit, Holders, Used, LiveSup
<1> QED
  BY <1>1, KernelLeaseStep, KernelInvariant, PTL DEF KernelSafetySpec, ImplementsLease, Lease!LeaseSpec
=============================================================================
