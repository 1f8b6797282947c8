----------------------------- MODULE MultiAgent -----------------------------
(***************************************************************************)
(* The agent graph of one session: CoordinatorStore of the multi-agent     *)
(* plugin, and the child turns that the Host runs over it, one at a time.  *)
(* A save is atomic (see DocumentStore) and may fail.                      *)
(*                                                                         *)
(* The coordinator process may die at any time, and the Host too.  The     *)
(* next coordinator has an instance id of its own; when it loads a         *)
(* document that another instance wrote, it takes the turns that are still *)
(* running for abandoned.  Each Host comes with the authority it was       *)
(* configured with, not always the one the document was created with.      *)
(* Names, texts, events and times are left out.                            *)
(***************************************************************************)
EXTENDS Naturals, Sequences, FiniteSets

CONSTANTS
  GrantKinds,        \* what an agent may be granted for its children
  Authorities,       \* what a Host may be configured with
  MaxInstances       \* bound on the coordinator processes that are started

(* AgentBudget with the allowed_child_grants of AgentDelegationGrant. *)
Authority == [agents : Nat \ {0}, depth : Nat \ {0}, turns : Nat \ {0},
              total : Nat \ {0}, grants : SUBSET GrantKinds]

ASSUME AuthoritiesAssumption == Authorities \subseteq Authority
ASSUME InstancesAssumption == MaxInstances \in Nat \ {0}

VARIABLES
  document,   \* the stored graph, or NoDocument
  instance,   \* the instance id of the current coordinator
  up,         \* the coordinator process is alive
  authority,  \* the authority of the Host
  task,       \* the child turn that the Host is busy with
  cut         \* the agents whose branch was interrupted recursively

maVars == <<document, instance, up, authority, task, cut>>

Root == 0
Statuses == {"Pending", "Running", "Completed", "Failed", "Interrupted"}

(* by, the instance that started the running turn, is not stored: it is    *)
(* there for RunningIsOwned.                                               *)
StoredAgent == [parent : Nat, depth : Nat, status : Statuses, turns : Nat,
                grants : SUBSET GrantKinds, by : Nat]

SessionDocument == [owner : Nat, budget : Authority, total : Nat,
                    agents : Seq(StoredAgent)]

(* Nothing is stored yet: no coordinator has owner 0. *)
NoDocument == [owner |-> 0, agents |-> <<>>]
NewDocument == [owner |-> instance, budget |-> authority, total |-> 0,
                agents |-> <<>>]

(* What the Host does: nothing, start a turn of an agent, or run the model *)
(* for a turn that was started.                                            *)
Idle == [phase |-> "idle", agent |-> 0, turn |-> 0]
Starting(a) == [phase |-> "start", agent |-> a, turn |-> 0]
InModel(a, n) == [phase |-> "model", agent |-> a, turn |-> n]

MAInit ==
  /\ document = NoDocument
  /\ instance = 1
  /\ up = TRUE
  /\ authority \in Authorities
  /\ task = Idle
  /\ cut = {}

----------------------------------------------------------------------------
Agents(d) == DOMAIN d.agents

Contains(b, r) ==
  /\ r.agents <= b.agents /\ r.depth <= b.depth
  /\ r.turns <= b.turns /\ r.total <= b.total
  /\ r.grants \subseteq b.grants

\* Mutation: only the session has to match.
AnyAuthority(d) == TRUE

(* The check of load_or_new: the Host may have less authority than the     *)
(* document was created with, not more.                                    *)
AuthorityFits(d) == Contains(d.budget, authority)

Abandoned(agent) == IF agent.status = "Running"
                      THEN [agent EXCEPT !.status = "Failed", !.by = 0] ELSE agent

(* load_or_new for a document that is there. *)
Recovered(d) ==
  IF d.owner = instance THEN d
  ELSE [d EXCEPT !.owner = instance,
                 !.agents = [a \in Agents(d) |-> Abandoned(d.agents[a])]]

Loads == up /\ (document # NoDocument => AuthorityFits(document))
Loaded == IF document = NoDocument THEN NewDocument ELSE Recovered(document)

(* What an operation leaves that is refused after the load: the load has   *)
(* saved the recovery, but not a new document.                             *)
OnlyLoaded == IF document = NoDocument \/ ~AuthorityFits(document)
                THEN document ELSE Recovered(document)

----------------------------------------------------------------------------
(* spawn: within the budget, under the root or an agent that is not        *)
(* interrupted, with no more grants than the parent has.                   *)
ParentDepth(d, p) == IF p = Root THEN 0 ELSE d.agents[p].depth
ParentGrants(d, p) == IF p = Root THEN authority.grants ELSE d.agents[p].grants

\* Mutation: an interrupted parent is accepted.
ParentExists(d, p) == p = Root \/ p \in Agents(d)

ParentAvailable(d, p) ==
  p = Root \/ (p \in Agents(d) /\ d.agents[p].status # "Interrupted")

SpawnAllowed(d, p, grants) ==
  /\ Len(d.agents) < authority.agents
  /\ ParentAvailable(d, p)
  /\ grants \subseteq ParentGrants(d, p)
  /\ ParentDepth(d, p) + 1 <= authority.depth

(* The Host goes on to the first turn of the agent. *)
Spawn(p, grants) ==
  LET d == Loaded IN
  /\ task = Idle
  /\ Loads
  /\ SpawnAllowed(d, p, grants)
  /\ document' = [d EXCEPT !.agents =
       Append(@, [parent |-> p, depth |-> ParentDepth(d, p) + 1, by |-> 0,
                  status |-> "Pending", turns |-> 0, grants |-> grants])]
  /\ task' = Starting(Len(d.agents) + 1)
  /\ UNCHANGED <<instance, up, authority, cut>>

(* agent_message: a turn of the agent the model has named. *)
Message(a) ==
  /\ task = Idle
  /\ task' = Starting(a)
  /\ UNCHANGED <<document, instance, up, authority, cut>>

StartAllowed(d, a) ==
  /\ d.total < authority.total
  /\ a \in Agents(d)
  /\ d.agents[a].status \notin {"Running", "Interrupted"}
  /\ d.agents[a].turns < authority.turns

Started(d, a) ==
  [d.agents[a] EXCEPT !.status = "Running", !.turns = @ + 1, !.by = instance]

(* start_turn, answered: the Host goes on with the child's model. *)
StartTurn ==
  LET d == Loaded
      a == task.agent
  IN /\ task.phase = "start"
     /\ Loads
     /\ StartAllowed(d, a)
     /\ document' = [d EXCEPT !.agents[a] = Started(d, a), !.total = @ + 1]
     /\ task' = InModel(a, d.agents[a].turns + 1)
     /\ UNCHANGED <<instance, up, authority, cut>>

(* complete_turn or fail_turn, as the model has answered or failed. *)
EndTurn(status) ==
  LET d == Loaded
      a == task.agent
  IN /\ task.phase = "model"
     /\ Loads
     /\ a \in Agents(d)
     /\ d.agents[a].status = "Running"
     /\ document' = [d EXCEPT !.agents[a].status = status, !.agents[a].by = 0]
     /\ task' = Idle
     /\ UNCHANGED <<instance, up, authority, cut>>

CompleteTurn == EndTurn("Completed")
FailTurn == EndTurn("Failed")

----------------------------------------------------------------------------
(* interrupt: the agent, and with recursive its whole branch.  The branch  *)
(* is what the queue of the code collects: the agent, the agents it has    *)
(* spawned, theirs, and no others.                                         *)
Children(d, T) == {b \in Agents(d) : d.agents[b].parent \in T}

Branch(d, a) ==
  {b \in Agents(d) : \A T \in SUBSET Agents(d) :
     a \in T /\ Children(d, T) \subseteq T => b \in T}

Interrupt(a, recursive) ==
  LET d == Loaded
      targets == IF recursive THEN Branch(d, a) ELSE {a}
  IN /\ task = Idle
     /\ Loads
     /\ a \in Agents(d)
     /\ document' = [d EXCEPT !.agents =
          [b \in Agents(d) |-> IF b \in targets
                                 THEN [d.agents[b] EXCEPT !.status = "Interrupted", !.by = 0]
                                 ELSE d.agents[b]]]
     /\ cut' = IF recursive THEN cut \cup {a} ELSE cut
     /\ UNCHANGED <<instance, up, authority, task>>

(* list and inspect, and a spawn, message or interrupt that is refused:    *)
(* only the recovery is saved.  The Web projection reads with a grant that *)
(* saves nothing.                                                          *)
Look ==
  /\ task = Idle
  /\ up
  /\ document' = OnlyLoaded
  /\ UNCHANGED <<instance, up, authority, task, cut>>

(* The pending start, completion or failure report is refused, its save    *)
(* fails, or the answer does not arrive: the Host gives the turn up and    *)
(* reports nothing more.  The recovery may have been saved.                *)
HostCallFails ==
  /\ task # Idle
  /\ \/ document' = document
     \/ up /\ document' = OnlyLoaded
  /\ task' = Idle
  /\ UNCHANGED <<instance, up, authority, cut>>

(* The coordinator dies, also between a save and its answer. *)
CoordinatorDies ==
  /\ up
  /\ up' = FALSE
  /\ UNCHANGED <<document, instance, authority, task, cut>>

(* refresh of the plugin host restarts it: never during a call. *)
CoordinatorRestarts ==
  /\ ~up
  /\ task = Idle
  /\ instance < MaxInstances
  /\ up' = TRUE
  /\ instance' = instance + 1
  /\ UNCHANGED <<document, authority, task, cut>>

(* The Host dies, with its plugins, and another one continues the session. *)
HostDies ==
  /\ instance < MaxInstances
  /\ instance' = instance + 1
  /\ up' = TRUE
  /\ authority' \in Authorities
  /\ task' = Idle
  /\ UNCHANGED <<document, cut>>

AgentIds == 1 .. (IF document = NoDocument THEN 1 ELSE Len(document.agents) + 1)

MANext ==
  \/ \E p \in {Root} \cup AgentIds, g \in SUBSET GrantKinds : Spawn(p, g)
  \/ \E a \in AgentIds : Message(a)
  \/ StartTurn \/ CompleteTurn \/ FailTurn
  \/ \E a \in AgentIds, r \in BOOLEAN : Interrupt(a, r)
  \/ Look \/ HostCallFails
  \/ CoordinatorDies \/ CoordinatorRestarts \/ HostDies

----------------------------------------------------------------------------
(* Type invariant: the stored graph is a forest under the root, as         *)
(* validate of SessionDocument requires, numbered in the order of spawn;   *)
(* only started agents have turns.                                         *)
MATypeOK ==
  /\ document = NoDocument \/ document \in SessionDocument
  /\ instance \in 1 .. MaxInstances
  /\ up \in BOOLEAN
  /\ authority \in Authorities
  /\ task.phase \in {"idle", "start", "model"}
  /\ cut \subseteq Nat
  /\ document # NoDocument => \A a \in Agents(document) :
       LET agent == document.agents[a] IN
       /\ agent.parent < a
       /\ agent.status \in {"Running", "Completed", "Failed"} => agent.turns > 0
       /\ document.owner <= instance

(* The turns that the agents of a document have started, the first, the    *)
(* second and so on of each.                                               *)
TurnsStarted(d) == UNION {{a} \X (1 .. d.agents[a].turns) : a \in Agents(d)}

(* The graph stays within the authority it was created with, whatever      *)
(* Hosts with other budgets continue it and wherever coordinators die: the *)
(* number, the depth and the turns of agents, a session total that counts  *)
(* every turn ever started, and grants that only shrink down the tree.     *)
WithinAuthority ==
  document # NoDocument =>
    LET b == document.budget IN
    /\ Len(document.agents) <= b.agents
    /\ document.total <= b.total
    /\ document.total = Cardinality(TurnsStarted(document))
    /\ \A a \in Agents(document) :
         LET agent == document.agents[a] IN
         /\ agent.turns <= b.turns
         /\ agent.depth <= b.depth
         /\ IF agent.parent = Root
              THEN agent.depth = 1 /\ agent.grants \subseteq b.grants
              ELSE LET parent == document.agents[agent.parent] IN
                   /\ agent.depth = parent.depth + 1
                   /\ agent.grants \subseteq parent.grants

(* A branch that was interrupted recursively stays quiet: no agent of it,  *)
(* also none that is spawned or recovered later, leaves Interrupted.       *)
BranchStaysQuiet ==
  \A a \in cut : \A b \in Branch(document, a) :
    document.agents[b].status = "Interrupted"

(* An agent that the document shows as running was started by the          *)
(* coordinator instance that owns the document: no turn of a coordinator   *)
(* that is gone survives the first load of the next one.  When the Host is *)
(* in the model of a turn and the coordinator has not changed, the         *)
(* document shows that turn.                                               *)
RunningIsOwned ==
  /\ document # NoDocument => \A a \in Agents(document) :
       document.agents[a].status = "Running" =>
         document.agents[a].by = document.owner
  /\ task.phase = "model" =>
       /\ document.agents[task.agent].status = "Running"
       /\ document.agents[task.agent].turns = task.turn

(* The stored graph is a forest that tells the truth: what it shows as     *)
(* running runs, what was interrupted stays so.                            *)
GraphIsTrue == MATypeOK /\ BranchStaysQuiet /\ RunningIsOwned
=============================================================================
