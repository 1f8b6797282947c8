# Formal models of YunXi-Next

TLA+ models of the parts of YunXi-Next that keep state, run concurrently or
must survive failures, the TLC runs that check them on small instances, and
TLAPS proofs of the most important results for every instance. Every
definition is translated from the Rust source; the `map` in `PROJECT.json`
names the lines it stands for. Paths below are relative to `src/`.

## 1. The system

YunXi-Next is a desktop assistant built from processes. The Host (`yunxi`)
owns a small kernel that supervises plugin processes; each capability (model,
storage, memory, shell, patch, MCP, Weixin, voice, multi-agent ...) is a plugin
process that connects back over a loopback socket, says hello, and answers
typed invocations one at a time. Above that, the agent spine runs one turn of
conversation: model, tools, approvals, cancellation, a bounded log.

```
 CLI / Web host ── ChatSession ── agent spine (turn loop, approvals, log)
                        │                │ model and tool calls
                        │                ▼
                        └────── ProcessPluginHost (routes, retries, listeners)
                                         │ start / stop / fail / refresh
                                         ▼
                                    YunxiKernel ── supervisor threads ── child processes
                                                                           │
                    settings, sessions, agents, mailbox documents ◄────────┘
```

### Components

| Component | State | Operations | What is hard |
|---|---|---|---|
| kernel | plugin slots (state, generation, sender, worker, forced failure), event channel | register, start, stop, fail, refresh, shutdown | late events of older generations, supervisors that end between two steps of a method, joins on the control thread |
| plugin-host | slots, connections, catalog, retry controllers, listener backlog | launch, enable/restart, disable/stop, refresh, invoke, shutdown | restarts inside `refresh`, deadline against the late terminal event, stale connections in the backlog |
| protocol | wire types, framing, handshake | connect, accept, send, receive, encode/decode | handshake with a process that dies; bounds on every field |
| agent-spine | agent state, pending turn, budgets, token, session log | run_turn, run_turn_with_approval, approve_pending_tool, cancel_pending_turn, reset | a turn suspended in the middle of a batch, cancellation between any two checks, any append refused |
| cli | ChatSession (capabilities, engine, pending action, active session), Web host, terminal | prompt, approve/deny, queue, resume, settings, respond, poll | routes lost at any call, answers to older announcements, a publish that fails half way, a rebuild that fails half way |
| web-gateway | two bounded event queues | request, respond, poll, shutdown | a full queue, an I/O error of one connection |
| settings, storage, companion-mailbox | one JSON document (or one per item) with a backup | load, commit, create, append, mutate, enqueue, mark_read | a crash or an error at each system call of `replace_file`; revisions that must keep naming one document |
| multi-agent | the agent graph of a session, instance id of its last writer | spawn, start/complete/fail turn, interrupt, list, inspect | coordinators that die with turns running, Hosts that come back with another authority |
| composition | ordered layers of plugin entries, inventory | add layers, compose, start a Host | precedence of layers, total switch, environment and settings |
| cordis-core | context tree, effect scopes, services, fibers, event bus | provide, effect, plugin/mount, on, emit, dispose | checks under one lock and insertion under another, disposal while others insert, dispatch on a copy |
| cordis-runtime | registry, overrides, one record per plugin | start_default, mount_plugin, set_enabled, clear override, shutdown | a fixed point that must not depend on the registry's order, mounts that fail |
| memory | JSONL files, staged conflicts | extract and store, review, recall | torn lines, two Hosts on the same files, the same millisecond |
| tool-mcp | client, transport, request ids | start, refresh, call, cancel | answers late, twice or to other calls; a server that dies |
| tool-patch | plans with their originals | plan, apply, roll back | an error or a crash between two system calls |
| tool-shell | child, two reader threads | execute | deadline against exit, heirs that hold the pipes, output at its limit |
| tool-skills | snapshot of the discovered skills | list, context, status | files that change, two skills of one id, budgets |
| tool-files | one search, one view | search, read | links, trees that change, limits |
| weixin, voice | delivery and stream statuses, stored messages | register, acknowledge, retry, cancel, pause, drain, transcribe, synthesize | calls in any order, statuses a peer made up |
| scheduler | none of its own | decide | midnight, limits |
| context, persona, companion, model-openai, web-contract | none between calls | | pure I/O, text, wire types |

What makes each modelled component correct is listed with its run in section 4;
`PROJECT.json` lists under `hazards` the places where the code can go wrong in
a way that is hard to test, with the property that covers each or the reason
why none does.

## 2. Modules

| Module | Models | Extends |
|---|---|---|
| `Kernel` | kernel, supervisors, children, event channel | |
| `ProcessLease` | what the kernel promises: one generation at a time | instance of it in `Kernel` |
| `PluginHost` | plugin host over the kernel, listener, retries | `Kernel` |
| `AgentSpine` | turn loop, approvals, log | |
| `ChatSession` | the CLI's session: capabilities, both engines, tools, storage of turns | |
| `WebHost` | Web host with the gateway's queues, terminal, settings, restarts | `ChatSession` |
| `DocumentStore` | the four document stores over the file system | |
| `AtomicDocument` | what they promise: a document that changes in one step | instance of it in `DocumentStore` |
| `MultiAgent` | coordinator and child turns over an atomic document | |
| `Memory` | memory plugins over shared JSONL files | |
| `Composition` | layers, switches and the inventory a Host starts with | |
| `CordisContext` | contexts, effects, fibers and disposal of cordis-core | |
| `EventBus` | the typed event bus of cordis-core | |
| `CordisRuntime` | plugin records, overrides and activation | |
| `ToolMcp`, `ToolPatch`, `ToolShell`, `ToolSkills`, `ToolFiles` | the tool plugins | |
| `Weixin`, `Voice` | the two channels | |
| `MCHostState` | documents, agents, memory, composition, runtime and bus in one run | these six |
| `MCPlugins` | the tools and channels in one run | these seven |
| other `MC*` | values of the constants for TLC | the module they are named after |
| `KernelProofs` | theorems | `Kernel` |
| `DocumentProofs` | theorems of the documents, and of the profile that the settings are written into | `DocumentStore`, `Composition` |
| `PluginHostProofs` | theorems, over those of the kernel | `PluginHost`, `KernelProofs` |
| `SpineProofs`, `MultiAgentProofs` | theorems | `AgentSpine`, `MultiAgent` |
| `WebProofs` | theorems of the session behind both fronts | `WebHost` |
| `CordisProofs` | theorems of contexts, of the event bus and of the runtime | `CordisContext`, `EventBus`, `CordisRuntime` |
| `PluginProofs` | theorems of the tools, channels and the memory | the seven of `MCPlugins`, `Memory` |

The parts in `MCHostState` and in `MCPlugins` share no state in the program. A
run of such a module checks their disjoint sum: the constant variable `part`
says which of them a behaviour is about, the others stay where they began, so
the states of the run are the sum of the states of the parts and each part is
explored in full.

### How state and actions correspond to the code

**Kernel.** A variable per field of `PluginSlot` (`commands` and `worker` hold
the generation whose sender or join handle the slot has), `events` for the mpsc
channel, `sup`, `inbox` and `child` per generation for the threads and
processes. A kernel method is `CallEntered`, then `DrainEvent`\* and `DrainDone`
for `refresh`, `Reap`, the body (`StartSlot`, `StopActive`, `FailSlot`,
`ShutdownSignal` ...), and the blocking joins (`StartJoin`, `ShutdownJoin`).
Supervisors move between any two of these: `SupSpawn`, `SupAnnounce`, `SupWait`,
`SupPoll`, `SupTerminate`, `SupReport`, `SupReturn`, with the error exits.

**PluginHost.** The host thread is `at` one place of its private methods and
moves when the kernel method it called has returned; `call` is the public
method, so the single nesting of the private methods needs no stack. The
listener's `backlog` holds connections by the generation of the process that
opened them. Timeouts are steps that are possible whenever the wait is.

**AgentSpine.** `pc` cuts the running method at the token checks and at the
calls of model, tools and log; `Recorded` and `RecordFails` are the two outcomes
of an append. `CancelToken` is the only concurrent actor. Calls are model
values with a fixed answer of the approval policy.

**ChatSession, WebHost.** Everything runs on one thread and nothing else can see
the state inside a method, so a method is an operator from a host to the set of
hosts it may leave, with its answer: each call of a plugin (`Invoke`) may
succeed, fail or lose the route, and a lost route takes the capability away. An
action of `WebHost` is one HTTP request or one line at the terminal. The turn
loop inside is an operator with bounds on rounds and calls (its interior is
`AgentSpine`). In the older engine, modelled beside it, queueing a call and
advancing past it call each other; here each answers with the method it goes on
with, and `ToolLoop` runs them `LoopSteps` times, which is enough because every
call of a round is queued and answered once. A publication that fails
makes the handler return where it stands (`w.ok`). `Restart` ends the program
between any two requests: by the user, the token, a crash, or the I/O error of
one connection, at which `serve_until` gives up.

**DocumentStore.** `pc[w]` is the next system call of `replace_file`; `target`
and `backup` are the two files. `Crash` is possible before every call and
every call may fail. The four loaders differ: `LoadItems` of the mailbox does
not look at backups.

**MultiAgent.** The stored graph, the coordinator's instance and whether it is
alive, the Host's authority and the turn it is busy with. Loading with its
recovery is part of every operation (`Loaded`, `OnlyLoaded`), since the code
saves the recovery before it looks at the request.

**Memory.** A file is its lines and whether the last one is torn. `Extract` and
`Review` load and decide what to append, `AppendLine` and `AppendFails` are the
appends one by one, so other processes come in between; the clock may stand
still. `Load` collapses by id and then by content as the code does. A record of
another workspace can be loaded from a legacy file; its review goes to the file
of the present one (`store.rs:112`).

**Composition.** The settings with their three sources, the layers that are
added to a profile, and the start of a Host, which resolves every switch. An
operation that may be refused is the set of its results. Entries are found and
removed by position, as `find_entry` and `remove` do; `ComposeIsLastWriter`
compares what the operations leave with what they say.

**CordisContext.** A context per scope number; a scope other than the root
belongs to the fiber of its number. No operation holds two locks or calls a
plugin or disposer under one, so a thread's `stack` has a frame per unfinished
operation and every locked region is one action: `Walk` (one lock of
`ensure_hierarchy_active`), the insertion (`InsertEffect`, `RegisterFiber`),
`DisposeBegins`, the disposers and `DisposeEnds`. Between them other threads,
or the plugin's `mount` on the same thread, use the same scopes. `Disposed`
stands for `Failed` of an effect. Services are left out: `provide` walks and
inserts as `install_effect` does, nothing unwinds but a cleared table.
`runs` and `owed` are history.

**EventBus.** The table under its lock and one dispatch per thread: the copy is
taken in one action (`BeginDispatch`), every handler is another (`CallNext`, or
`SpawnNext` and `WorkerReturns` for parallel), and registrations and ends of
subscriptions come in between.

**CordisRuntime.** Every method takes `&mut self` and is one action. What a
plugin's factory, identity, mount and disposers do is chosen anew at each call.
`Pass` takes the plugins that wait in the order of the registry, `Passes` repeats
it while plugins wait and the last pass mounted one, so never more often than
there are plugins: what is left then waits for a service nobody gives (`GiveUp`).

**ToolMcp, ToolPatch, ToolShell, ToolSkills, ToolFiles.** A plugin handles one
invocation at a time; its actions are the system calls, reads and frames between
which the other side moves: the server, the killer, the command and what it left
behind, an editor of the files. The shell's caller looks at its child, reads the
clock, kills, waits and joins in steps of their own, so the child may end by
itself between the look and the kill: the result then says timed out and carries
the child's own status. The bridge of an MCP server ends (`BridgeEnds`: the
client is dropped, which kills its child) or is killed by the Host's supervisor
(`BridgeKilled`: nothing is dropped, and the child runs on until it ends by
itself). A search is confined to the directory it began
in, not to the workspace (`executor.rs:53`, `executor.rs:80`): `Below` says which
places lie below which directory.

**Weixin, Voice.** Every public method of the status types, driven in any order,
and the fixture plugins over them, which are what the Host launches today.

## 3. Bounds

| Bound | Where | Why it is enough |
|---|---|---|
| `MaxGeneration = 3` | kernel, plugin_host | the current generation, one before it whose events are late, and one before that which was replaced while stopping |
| one plugin | kernel, plugin_host | slots interact only through the event channel and shutdown; the proofs hold for any number of plugins |
| `MaxRestarts = 1` | plugin_host | spent, exhausted and renewed budgets all occur; the product's 3 only lengthens the loop |
| `MaxEvents = 13`, `MaxTurns = 2` | agent_spine | a full turn with two tool calls fits, a second one meets the full log |
| `Setups` | agent_spine | budgets of one and two rounds and calls, so each limit is met first in some behaviour |
| two threads, `MaxScopes = 2`, `MaxEffects = 2` | cordis | a dispose of the root that meets a nested or a sibling scope being disposed; threads are symmetric |
| six `Starts` | session | each a set of plugins that depend on one another, for each front and each engine; two with a restart; one whose settings may change |
| `MaxPrompts = 2`, `MaxRounds = 2`, `MaxToolCalls = 2`, `MAX_PENDING_EVENTS = 7` | session | a second prompt after a turn that waited or failed; a queue that is full in the middle of a turn of six events |
| `MaxSaves = 4` | host_state: documents | a backup left by one save meets two later ones; proved without the bound |
| three authorities, `MaxInstances = 2` | host_state: agents | chains of depth three, siblings, a Host that comes back with less, and a takeover; grants in an authority of two agents |
| two processes, three calls, two lines per file, two ticks | host_state: memory | two Hosts that write in one millisecond, a torn line with a record after it, a file that has grown too long |
| seven layers, `MaxLayers = 3`, `MaxEdits = 2`, `MaxVariables = 2` | host_state: composition | insert, replace, switch and remove of one entry in every order, and the refusals; one plugin of each class of capabilities; a variable for a plugin and for the one its default follows |
| two plugins, `MaxRuntimeCalls = 3` | host_state: runtime | needs across the registry's order, all manifests, a failed mount and what follows it |
| one dispatching thread, three handler numbers, two payload types | host_state: bus | an event that is dropped and defined anew during a dispatch; dispatches share nothing but the table |
| `MaxMcpId = 4`, two frames, `MaxMcpStarts = 2` | plugins: MCP | handshake, a call that is cancelled and a later one, with an old answer and another frame before its own; a process that is killed or ends, with its child, and the next one beside it |
| two paths, two files | plugins: patch | two paths to one file, a second file whose write fails |
| `OutputLimit = 2`, `MaxWritten = 3` | plugins: shell | below, at and above the limit in any cut of the reads |
| four slots, five steps | plugins: skills | two directories of one id, a disabled one, each budget met by one and by two skills |
| trees of three directories, depth 2, 8 entries | plugins: files | links up, across, outside the workspace, out of the directory of the search and to nothing; a directory that is too deep |
| three calls, one stored message | plugins: Weixin | any three calls over any reachable status; a full store |
| one request at a time | plugins: voice | the plugin keeps nothing between two |

`RoomForCycle` in `PluginHost` keeps a whole enable cycle within
`MaxGeneration`, so the bound never cuts a recovery short.

## 4. Runs

| Run | Properties | States |
|---|---|---|
| kernel | `TerminalIsTrue`: a slot that ended by itself has no thread or child left; `ActiveIsAddressable`: an active slot can still be told to stop; `NothingSurvivesShutdown`; `TerminalIsFinal`: no late event revives a generation; `MethodsReturn`; `StopIsHonoured`; `ImplementsLease` | 153,701 |
| plugin_host | `HostIsConsistent`: routes lead to the current generation at both ends and a cycle stays within its budget; `StartsArePaidFor`: every generation is started by a user or by one unit of budget; `DisabledIsQuiescent`; `HostMethodsReturn` | 262,688 |
| agent_spine | `ToolsRunAsDecided`: nothing runs unapproved or twice; `TranscriptIsSound`: the model is asked only over a transcript in which every call is answered, the terminal record is last, a pending turn is the recorded request; `LimitsHold`: budgets and cancellation; `TurnsEnd` | 268,329 |
| cordis | `EffectsUnwind`: each disposer runs once, and what a dispose took runs in reverse order of creation; `UnmountedIsClosed`: the scope of an unmounted fiber is not active | 1,843,349 |
| session | `AnswersReachTheirCall`: an answer reaches the announced call of the current turn and session, and nothing runs that the user did not allow; `SettingsAgree`: document, copy and running plugins; `StoredOnce`: a turn is stored once and in order; `LiveStreamIsHistory`: what a client was sent is what it would read | 380,736 |
| host_state | documents: `AcknowledgedSurvives`, `RevisionNamesOneDocument`, `FenceHolds`, `ImplementsAtomicDocument`; agents: `WithinAuthority`, `GraphIsTrue`; memory: `MemoryIsKept`; composition: `CompositionIsSound`; runtime: `RuntimeIsSound`; bus: `PayloadsMatch`, `DispatchesAreSound` | 533,678 |
| plugins | `McpExchangeIsSound`: the answer was computed for that very call, nothing is sent without its grants, a child server outlives only a plugin process that was killed; `PatchIsTransactional`; `ShellResultIsWhole`: the output is that of the pipes and the status that of the end the child came to; `CallEnds`: a started command's call returns unless a process it left behind holds a pipe or the kill was refused; `SkillsAreWhatWasFound`; `FilesAreFoundInside`; `DeliveryIsSound`: deliveries stay legal and decided; `VoiceAnswersAsAsked` | 473,112 |
| late_effect | violation of `RegistrationsUnwind` | |
| stale_hello | violation of `OldGenerationFailsNothing` | |
| wedged_agent | violation of `AwaitingHasPending` | |
| lost_item | violation of `EnqueueIsIdempotent` | |
| swapped_roles | violation of `MessagesKeepTheirRoles` | |

A property that is a conjunction of named parts is one line of a run, and a
counterexample shows which part it breaks. Each property of a passing run is
also run against a mutant of the model, a plausible error in the code (a dropped
guard, a missing reset, a wrong fallback) that it has to catch; mutants stand
before the definition they replace and are marked as such.

The properties of composition, skills, files, patch, runtime and memory compare
what the code's steps arrive at with a definition that does not follow them: the
last operation that mentions an entry, the directories a path leads to, the
least closed set of plugins, a text with disjoint stretches replaced.

### Findings

* **stale_hello.** A listener and its token live as long as the plugin slot.
  A process of an older generation that connected just before it was killed
  stays in the backlog, is accepted for the next generation, and its broken
  handshake fails that generation and spends a restart.
* **wedged_agent.** `cancel_pending_turn` takes the pending turn before the
  append of its record; when the append is refused the agent stays in
  AwaitingApproval with nothing to approve.
* **late_effect.** `install_effect`, `register_fiber` and `provide` look at the
  hierarchy under one lock and insert under the next. A `dispose` of another
  thread in between is finished when the effect comes in: the caller has an Ok,
  and the disposer never runs.
* **lost_item.** The mailbox's `load_items` does not look at backups: a crash
  between the two renames of `mark_read` hides the item, and the next `enqueue`
  of its key creates it again.
* **swapped_roles.** The Web host cuts its history into pairs of a user's and an
  assistant's message. A turn that fails after its approval leaves its prompt
  there without a reply, so every later message is sent in the other role.

### Where documents and code differ, without a run of its own

* `crates/yunxi-tool-patch/README.md:3-6` says earlier writes are rolled back.
  `apply_one` removes the target before the rename (`applier.rs:503-510`), and
  the plan whose rename fails is not undone: its file is gone although the answer
  is "patch transaction rolled back". `PatchIsTransactional` excepts this file.
* `crates/yunxi-tool-shell/README.md:3-5` promises an enforced wall-clock
  timeout. The child is killed at the deadline, but the readers are joined
  without one (`executor.rs:84-91`): a process left behind with a pipe holds the
  call. `CallEnds` says that nothing else does, but a child whose kill the system
  has refused; `ShellResultIsWhole` says what the result is when it comes.
* `docs/dsh-web-compatibility.md:71-72`: "the live Host keeps its current
  children and routes until the next Host composition". `web.rs:480` launches a
  new session at once; `SettingsAgree` is about that code.
* `docs/provider-configuration.md:65-66` gives environment variables precedence
  over the stored document. `plugin_policy.rs:183` puts the document's
  `plugin_overrides` before them; `ConsentIsFollowed`, a part of
  `CompositionIsSound`, states what the code does.
* `docs/provider-configuration.md:75` gives the mailbox the "companion value" by
  default. It follows the companion's value in the document only: a companion
  that the environment switches on starts without a mailbox
  (`yunxi-settings/src/capabilities.rs:215-266`).
* A view whose byte limit falls inside a character is refused as binary
  (`yunxi-tool-files/src/executor.rs:126-131`); `FilesAreFoundInside` allows it.
* A rejected Weixin delivery may be scheduled for a retry, and a cancelled one
  rejected; no peer decodes the status that is left. `DeliveryStaysLegal`
  excepts rejected ones.

What the memory store can lose without breaking `MemoryIsKept` is named there:
a line that continues a torn one, a file over its size limit, and two Hosts that
draw one id or review one record in the same millisecond. The last holds also
when one of the two lines can no longer be read (`Contested` ranges over all lines
ever written): the proof needed it, and TLC shows a loss with one line per file
and four calls, when the file that holds the pending twin grows too long after
its review.

## 5. Fairness

* `Kernel`: weak fairness of the control thread's steps inside a method and of
  each supervisor thread: the operating system schedules threads, and no step
  of theirs waits for a client. None for clients or for children, which may
  never exit by themselves.
* `PluginHost`: the same, for the host thread; its waits are bounded by
  timeouts, so they are steps that happen.
* `AgentSpine`: weak fairness of the running method; the adapters bound the
  waits for model and tools. None for the user, who may never answer an
  approval, or for the token.
* `ToolShell` (`ShellFairness`): weak fairness of the clock, of the steps of the
  caller, whose loop sleeps a bounded time, and of the two reader threads. None
  for the command, which may run for ever, or for what it left behind; a look, a
  wait or a read need not ever fail.
* Everything else claims nothing that needs fairness. In particular there is
  none for a client that polls (`PollAnnounces`, which is proved only, is about a
  poll that happens) or an MCP server.

Deadlock is checked where the system must always be able to go on (kernel,
plugin_host, agent_spine, cordis, session). In host_state and plugins a part
whose bounds are used up stops; in the violations the run ends at the violation.

## 6. Proofs

`KernelProofs` proves, for any set of plugins and any `MaxGeneration`:
`KernelTypeCorrect`, `KernelTerminalIsTrue`, `KernelActiveIsAddressable`,
`KernelNothingSurvives`, `KernelTerminalIsFinal` and `KernelImplementsLease`
(the kernel implements `ProcessLease`). None of these is inductive. The
inductive invariant `KernelIInv` adds to the types: `ControlInv`, what holds at
each step of a method; `SupInv`, what the place of a supervisor says about its
child; `SlotInv`, which generation the slot's sender and worker belong to, and
that supervisors of earlier generations are finished; `EventInv`, that the
channel holds the reports of a generation in order, none from the future, and
that after its terminal report a supervisor is at its end; `QuietInv`, what
shutdown has established so far. The hard step is `DrainEvent`: that an event of
the current generation never contradicts the supervisor rests on `EventInv`.
TLC found `KernelIInv` to hold with two plugins of one generation each before it
was proved; no run repeats that.

`DocumentProofs` proves with one writer (`OneWriter`), for any number of saves:
`DocTypeCorrect`, `AcknowledgedSavesSurvive`, `RevisionsAreUnique`,
`FenceIsSound` and `StoresAreAtomic` (the stores other than the mailbox
implement `AtomicDocument`). `DocIInv` relates the files to the place in
`replace_file` (`FileInv`, `KeptInv`), the running call to the document it
started from (`CallInv`), documents to the saves that made them (`OriginInv`)
and says that what a load finds is the newest published document (`NewestInv`).

`PluginHostProofs` proves, for any set of plugins, `MaxGeneration` and
`MaxRestarts`: `HostStaysConsistent` and the action property
`EveryStartIsPaidFor`. A host step is a step of the kernel or leaves it alone
(`HostIsKernel`), so `KernelIInv` is an invariant of the host as well. `HostInv`
adds: `MethodInv`, which public method may be at which place, and where
`kernel.start` is called; `HandshakeInv`, that the plugin being started has no
connection and that the handshake is about the generation just started;
`KnownInv`, that slots and disabled controllers belong to plugins the kernel
knows; `TodoInv`, that the failures still to be recovered are those of current
generations, and not of the plugin being restarted; `BudgetInv`, that the
generations since the cycle began are at most one more than the restarts the
controller has counted, and that a start that is due has been paid for and not
yet used up. The bound on supervisors the kernel started rests on `BudgetInv`
with the kernel's invariant: a generation grows in `StartSlot` only.

`SpineProofs` proves, for any calls, policy, budgets and sizes of the log:
`DecisionsAreKept`, `TranscriptStaysSound` and `LimitsAlwaysHold`. The inductive
invariant has `ControlInv`, what the place of the method implies of agent, turn
and batch; `LogInv`, that only the turn on record writes and nothing after its
terminal record; `BatchInv`, that what has run and what is recorded of the batch
being processed are its calls before the position; `DecisionInv`, that a decision
is at hand only for the call that was asked about; `ExecutedInv`, `BudgetInv` and
`LateInv` for what has run. The hard part is counting: `AnsweredBeforeAsking`
numbers the results of a round, so each append is followed through the
cardinality of these sets.

`CordisProofs` proves, for any threads, scopes and effects: `EffectsUnwindOnce`
and `UnmountedStaysClosed`. The frames of a thread's stack are counted from the
oldest, so a push or pop leaves the others where they are. `FrameInv` says of
each frame what it has claimed (an effect it will insert or run, a scope it
disposes), and `AloneInv` that no other frame of any thread has claimed the
same; from these follow `EffectInv` and `RunsInv`, which say who may still run an
effect and that what ran of a scope is an initial part of what it owed, in
reverse. For any threads, events, types and handlers it also proves
`PayloadsAlwaysMatch` and `DispatchesStaySound`: `TableInv` (a handler is in the
table of its event exactly while its subscription lives), `CopyInv` (a copy keeps
what its handlers were registered for, since numbers are not used twice) and
`DispatchInv` (who has been called is a prefix of the copy; the error is that of
the first failure in it).

`MultiAgentProofs` proves, for any number of agents, authorities and takeovers:
`GraphWithinAuthority` and `GraphTellsTheTruth`. Every operation loads and
recovers first: `LoadedFits` says that this makes a fitting document out of the
stored one for the present coordinator; then each effect is shown to keep a
fitting document so. That an interrupted branch stays quiet needs that no
operation changes the parents of agents that exist, hence neither their branches
(`SameBranches`), and that a new agent is outside every branch whose agents are
interrupted.

`PluginProofs` proves, each for every value of the constants:

* `ShellReturnsAll`: for both pipes, what was read is no more than what was
  written, what is kept is its bounded part, and a pipe at its end has no writer;
  for each place of the caller, what it knows of the child, wherever the child's
  end falls between look, clock, kill and wait.
* `McpAnswersAreTheirs`: ids in the server's hands are unique and older than the
  next, what it sends honestly for one was computed for it, a waiting client
  asked under its grants, and the children alive are that of the current process
  and of killed ones.
* `VoiceAnswersEveryRequest`, for any requests and chunks.
* `PatchesAreTransactions` (any contents, hunks and number of files): what has
  been written or undone so far, and `HunksReplace`, that `apply_hunks` puts the
  new text of each hunk at disjoint stretches of the old one.
* `DeliveriesStaySound`: the result of each call follows from the status before
  it, the stored messages pass the check under their key, and what the plugin
  has told is what it stores.
* `SkillsStayAsFound`: `WalkedTo` says of each place of the walk over the slots
  that what is listed was found, that what was found is listed or the list is
  marked, and which ids have been seen; `ContextTo` says the same of a context
  and the ids asked for.
* `FilesStayInside`: `Walked` says of a walk that every directory it knows can be
  reached, that the directory it began in is known, that `inspected` is the
  cardinality of the entries of the visited directories and the matches are their
  hits, and that the links of visited directories are known unless one was too
  deep. When the stack is empty the visited set is closed, hence it is all that
  can be reached. After a change only the limits and the confinement remain.
* `MemoryStaysKept`: `Sound` says of every line ever written and of every line
  about to be appended that it was stored under its id, at the time in the id, or
  is the one review of such a line that was pending, and not older than it. So two
  lines of one id that differ are a record and its review, the review has the
  greater revision at the same time, and `Latest`, which exists because versions
  are bounded (`GreatestNumber`), takes it. The collapse by content then keeps a
  line of that content and cannot bring back one the collapse by id has left out.

Five of these are about recursive functions (`apply_hunks`, discovery, contexts,
one directory of a search, the candidates of a prompt). The induction rules of
the library cannot be cited, so `RangeInduction` is proved from the least
counterexample, and `WalkExists` that a function defined step by step exists; an
invariant of the walk is then carried from place to place. The uniqueness of
`retain` in the event bus, the tool loop of the older engine, the passes of the
runtime and the operations of a profile are treated in the same way.

`WebProofs` proves, for any ways to start the program, any bounds on rounds,
calls, prompts, histories and queues, both engines and both fronts:
`AnswersAreSafe`, `TurnsAreStoredOnce`, `SettingsStayTogether`,
`LiveStreamMatches` and the action property `PollShowsWaiting`. The proof has
the model's two layers.

* A method of the session takes a host for which `HostOK` holds to one for which
  it holds (`Good`), and of the calls that need the user it runs at most those it
  may run, which is the approved one or none. `HostOK` says that each stored turn
  is stored once and in order (`Once`), and, what makes this inductive, that a
  turn that is still under way in either engine is not stored yet and newer than
  every stored one (`SpineOK`, `ContinuationOK`, over `OpenTurn` and `Below`): a
  suspended turn is stored by the method that ends it, not by the one that began
  it. `Quiet` is the part of it every call of a plugin keeps.
* A handler of the Web host takes a world for which `WorldOK` holds to another,
  wherever it stops. `CoreOK` adds to the host: that the approval announced under
  a number is older than the next number and is the pending call whenever it is
  still waited for (`Numbered`), without which an answer to an older announcement
  could reach a later call; that every call that needed the user and ran was
  allowed (`Asked`); and that document, copy and running plugins are the same
  (`Agreed`) unless putting the document back has failed. `StreamAt` says which
  messages of the history the client has been sent, and is stated over a prefix
  of the history since a handler publishes while it goes on; the events of a
  history are counted (`EventCount`) and given by their number (`EventOf`).
  `LineOK` is the same for the terminal, which announces nothing.

`RuntimeStaysSound` (`CordisProofs`) is for any registry, manifests, needs,
overrides and behaviour of the plugins. The invariant has the types and
`RecordsKept`: what a record shows agrees with its switch and its fiber. That a
start does not depend on the order of the registry (`StartupIsOrderFree`) is
shown by `InPass`, which every attempt to mount keeps: what runs is within the
least set of wanted plugins that is closed under what they give and need
(`Least`, `Carries`), the services are those that the running ones give, and
what is neither mounted nor failed waits. A pass that is followed by another
one has mounted a plugin, so the waiting set has shrunk, and after as many passes
as there are plugins none mounts any more; then what waits lacks a service, and
what runs is itself closed, hence all of the least set.

`CompositionStaysSound` (`DocumentProofs`) is for any layers, modules, bounds
and edits. `Written` says of a list of entries what the reference says of the
first operations: who is listed, with which module and switch (`Told`), and in
which order (`InsertionOrder`). Each kind of operation takes a list written by k
operations to one written by k + 1, so it holds for the whole profile
(`ComposeWrites`). What a Host starts is the catalogue of the built-in entries
(`CatalogueIsBuilt`), whose switches are traced back to the total switch, the
environment or the document (`Consented`).

Every inductive invariant has been checked by TLC on the bounds of its run, its
sets of functions from infinite sets cut down to what TLC can look up. The
theorems of `MultiAgentProofs`, `PluginProofs`, of the bus, the runtime and the
profile are about the part's own `Init /\ [][Next]_vars`; the runs `host_state`
and `plugins` check the same formula on the sum of the parts.

The proofs rest on the named assumptions about constants of the modules, which
TLC evaluates in every run: the bounds are natural numbers, the sets of values
are what their comments say, the ways to start are records of the right form and
a queue holds at least one event (`SessionAssumption`, `StartsAssumption`,
`CapacityAssumption`), the registry is a sequence without repetitions
(`RuntimeAssumption`), layers are sequences of operations (`LayersAssumption`).

Only model-checked:

* liveness (`MethodsReturn`, `StopIsHonoured`, `HostMethodsReturn`,
  `DisabledIsQuiescent`, `TurnsEnd`, `CallEnds`), which needs fairness and ENABLED;
* the five violations.

Every invariant and every action property of the passing runs is stated by a
theorem, and so are both refinements.

The type invariants `KernelTypeOK` and `DocTypeOK` are proved and not checked by
a run of their own; those of the other modules are conjuncts of a listed property
or were checked while the module was written.

## 7. Not modelled

* The scheduler, companion, persona and context crates, the model client,
  rendering and argument parsing: no state between calls, text or I/O. Where the
  session calls them, the call may succeed, fail or lose its route.
* HTTP and SSE parsing, static resources, the vendored browser build, scripts.
* The wire types of protocol and web-contract beyond the handshake and the
  validations that `AgentSpine`, `ToolSkills` and `MultiAgent` have: conversions
  without state.
* The services of cordis-core as objects of their own; effects created in another
  order than they are installed (every caller in the repository does both at
  once); poisoned locks: nothing panics under them.
* Panics of supervisor threads: `supervise_process` has no panicking call.
* Byte sizes of log records, documents and frames: any append or save may be
  refused instead.
* Files damaged from outside, the mailbox key file (created and then written, so
  a crash in between leaves an empty key) and its cipher; the legacy import and
  the two roots of the session store.
* Two Hosts sharing a state root or a session, except for the memory files: no
  document of the repository speaks of it; listed under `hazards`.
* A child turn whose completion cannot be saved stays Running until the
  coordinator restarts (`session/multi_agent.rs:284`): modelled, but nothing is
  claimed of it. The mailbox key of a proactive message repeats after a resume
  (`session/stateful.rs:531`), so its message is taken for the earlier one.
* The choice among several providers of one capability in the catalog.

## 8. Plan

1. `ChatSession` over the actions of `AgentSpine` and the routes of `PluginHost`
   instead of over its own operators, for one plugin.
2. The scheduler's policy and the field validation of protocol as operators with
   reference definitions; the session store's listing over two roots.
3. Several writers of one document: the fence without `OneWriter`.
