----------------------------- MODULE MCHostState -----------------------------
(***************************************************************************)
(* The parts of the Host itself: its documents, the graph of agents, the   *)
(* memory files, the profile it is composed from with the settings, the    *)
(* runtime that activates plugins and the event bus.  They share no state; *)
(* `part` says which one a behaviour is about, the others do not move.     *)
(***************************************************************************)
EXTENDS DocumentStore, MultiAgent, Memory, Composition, CordisRuntime, EventBus

VARIABLE part

(* Multi-agent: many agents, agents that may grant, and a Host with less   *)
(* authority than either.                                                  *)
Wide == [agents |-> 3, depth |-> 3, turns |-> 1, total |-> 2, grants |-> {}]
MCAuthorities == {Wide,
  [agents |-> 2, depth |-> 2, turns |-> 2, total |-> 2, grants |-> {"read"}],
  [agents |-> 1, depth |-> 1, turns |-> 1, total |-> 1, grants |-> {}]}

(* Memory: a secret, a doubtful preference, two languages that contradict   *)
(* each other, and legacy records that must not be recalled, one of them   *)
(* waiting for a review.                                                   *)
Found(key, sensitivity, secret) == [key |-> key, sensitivity |-> sensitivity, secret |-> secret]
MCPrompts == {<<Found("fact", "Low", TRUE)>>, <<Found("zh", "Medium", FALSE)>>,
              <<Found("zh", "Low", FALSE), Found("en", "Low", FALSE)>>}
Old(scope, status, sensitivity, valid) ==
  [id |-> <<0, 1>>, key |-> "rule", scope |-> scope, status |-> status,
   sensitivity |-> sensitivity, updated |-> 0, revision |-> 1, valid |-> valid]
MCLegacy == {Old("global", "Active", "High", TRUE), Old("elsewhere", "Pending", "Low", TRUE),
             Old("global", "Active", "Low", FALSE)}

(* Composition: layers that insert, replace, switch and remove the same    *)
(* entries, in any order, and some that are refused.                       *)
Entry(id, mod, on) == [id |-> id, module |-> mod, enabled |-> on]
Switch(op) == [op |-> op, id |-> "context"]
MCLayers == {
  <<[op |-> "insert", entries |-> <<Entry("context", "m", FALSE)>>]>>,
  <<[op |-> "insert", entries |-> <<Entry("shell", "m", TRUE), Entry("context", "n", TRUE)>>]>>,
  <<Switch("disable")>>,
  <<Switch("remove"), [op |-> "insert", entries |-> <<Entry("context", "m", TRUE)>>]>>,
  <<[op |-> "replace", id |-> "context", entry |-> Entry("context", "k", TRUE)]>>,
  <<[op |-> "replace", id |-> "shell", entry |-> Entry("context", "k", TRUE)]>>,
  <<Switch("enable"), Switch("enable"), Switch("enable")>>}
(* Two plugins of the runtime, in the order of the registry.               *)
MCRegistered == <<"a", "b">>
----------------------------------------------------------------------------
(* A part that does not run begins in one of its initial states.           *)
Init ==
  /\ part \in {"documents", "agents", "memory", "composition", "runtime", "bus"}
  /\ DocInit
  /\ part # "documents" => kind = "settings"
  /\ MAInit
  /\ part # "agents" => authority = Wide
  /\ MemInit
  /\ part # "memory" => legacy = {}
  /\ CompositionInit
  /\ part # "composition" => environment = [v \in Variables |-> CHOOSE o \in Options : TRUE]
  /\ RtInit
  /\ part # "runtime" => /\ manifest = [p \in RtPlugins |-> CHOOSE m \in Manifests : TRUE]
                         /\ needs = [p \in RtPlugins |-> {}]
  /\ BusInit

files == <<docVars, maVars, memVars>>

Next ==
  \/ /\ part = "documents" /\ DocNext
     /\ UNCHANGED <<part, maVars, memVars, compositionVars, rtVars, busVars>>
  \/ /\ part = "agents" /\ MANext
     /\ UNCHANGED <<part, docVars, memVars, compositionVars, rtVars, busVars>>
  \/ /\ part = "memory" /\ MemNext
     /\ UNCHANGED <<part, docVars, maVars, compositionVars, rtVars, busVars>>
  \/ /\ part = "composition" /\ CompositionNext
     /\ UNCHANGED <<part, files, rtVars, busVars>>
  \/ /\ part = "runtime" /\ RtNext
     /\ UNCHANGED <<part, files, compositionVars, busVars>>
  \/ /\ part = "bus" /\ BusNext
     /\ UNCHANGED <<part, files, compositionVars, rtVars>>
=============================================================================
