---------------------------- MODULE Composition ----------------------------
(***************************************************************************)
(* Which plugins a Host starts: the capability settings with their three   *)
(* sources (environment, settings document, total switches), the layered   *)
(* profile they are written into, and its composition.                     *)
(*                                                                         *)
(* An optional value is a set of at most one element; an operation that    *)
(* may be refused is the set of its results.  Two entries of one class of  *)
(* capabilities behave alike, so there is one of each class.  Texts,       *)
(* groups and configurations of entries are left out.                      *)
(***************************************************************************)
EXTENDS Naturals, Sequences, FiniteSets, TLC

CONSTANTS
  Layers,                  \* operations of the layers a profile is built from
  Modules,                 \* modules that layers name, besides the entries' own
  MAX_COMPOSED_ENTRIES, MAX_LAYER_OPERATIONS,
  MaxLayers, MaxEdits,     \* bounds on the layers and on the edits
  MaxVariables             \* bound on the variables that are set

Capabilities == {"context", "companion", "mailbox", "shell"}
Entries == Capabilities \cup {"model"}

CompositionEntry == [id : Entries, module : Modules \cup Entries, enabled : BOOLEAN]
LayerOperation ==
  [op : {"insert"}, entries : Seq(CompositionEntry)]
    \cup [op : {"replace"}, id : Entries, entry : CompositionEntry]
    \cup [op : {"enable", "disable", "remove"}, id : Entries]

ASSUME LayersAssumption == Layers \subseteq Seq(LayerOperation)

VARIABLES
  profile,      \* [bundles, profile, overlays]: sequences of [name, ops]
  environment,  \* environment[name]: what the variable says, if anything
  settings,     \* [capability, plugin]: the settings document
  generation,   \* what the running Host was started with, if it runs
  edits

compositionVars == <<profile, environment, settings, generation, edits>>

FirstOf(a, b) == IF a # {} THEN a ELSE b
ValueOr(a, default) == IF a = {} THEN default ELSE CHOOSE x \in a : TRUE
Options == {{}, {TRUE}, {FALSE}}

----------------------------------------------------------------------------
(* Manifests                                                               *)
Manifest(id) ==
  CASE id = "model" -> [role |-> "AgentSpine", risk |-> "None"]
    [] id = "context" -> [role |-> "Optional", risk |-> "None"]
    [] OTHER -> [role |-> "Optional", risk |-> "External"]

UserToggleable(m) == m.role = "Optional"

DefaultEnablement(m) ==
  IF m.role # "Optional" THEN "Always" ELSE IF m.risk = "None" THEN "Safe" ELSE "Never"

DefaultEnabled(m) ==
  \/ m.role # "Optional"
  \/ DefaultEnablement(m) = "Safe" /\ m.risk = "None"

----------------------------------------------------------------------------
(* Profiles and their composition: entries are [id, module, enabled].      *)
Ids(entries) == {entries[i].id : i \in DOMAIN entries}
PositionOf(entries, id) == CHOOSE i \in DOMAIN entries : entries[i].id = id
Without(entries, i) ==
  [j \in 1 .. Len(entries) - 1 |-> IF j < i THEN entries[j] ELSE entries[j + 1]]

ApplyOperation(entries, op) ==
  CASE op.op = "insert" ->
         IF \/ Len(entries) + Len(op.entries) > MAX_COMPOSED_ENTRIES
            \/ Cardinality(Ids(op.entries)) # Len(op.entries)
            \/ Ids(op.entries) \cap Ids(entries) # {}
         THEN {} ELSE {entries \o op.entries}
    [] op.op = "replace" ->
         IF op.id # op.entry.id \/ op.id \notin Ids(entries) THEN {}
         ELSE {[entries EXCEPT ![PositionOf(entries, op.id)] = op.entry]}
    [] op.op \in {"enable", "disable"} ->
         IF op.id \notin Ids(entries) THEN {}
         ELSE {[entries EXCEPT ![PositionOf(entries, op.id)].enabled = (op.op = "enable")]}
    [] op.op = "remove" ->
         IF op.id \notin Ids(entries) THEN {} ELSE {Without(entries, PositionOf(entries, op.id))}

Operations(layers) ==
  LET all[i \in 0..Len(layers)] == IF i = 0 THEN <<>> ELSE all[i - 1] \o layers[i].ops
  IN all[Len(layers)]

LayersInOrder(p) == p.bundles \o p.profile \o p.overlays

Compose(p) ==
  LET ops == Operations(LayersInOrder(p))
      after[i \in 0..Len(ops)] ==
        IF i = 0 THEN {<<>>} ELSE UNION {ApplyOperation(e, ops[i]) : e \in after[i - 1]}
  IN after[Len(ops)]

NoProfile == [bundles |-> <<>>, profile |-> <<>>, overlays |-> <<>>]
LayerNames(p) == {LayersInOrder(p)[i].name : i \in DOMAIN LayersInOrder(p)}

LayerAccepted(layer) ==
  /\ layer.name \notin LayerNames(profile)
  /\ Len(layer.ops) <= MAX_LAYER_OPERATIONS

(* The second bundle is added after an overlay, the first profile layer    *)
(* after both: the order of the calls does not matter.                     *)
AddBundle(layer) ==
  /\ LayerAccepted(layer)
  /\ profile' = [profile EXCEPT !.bundles = Append(@, layer)]
  /\ UNCHANGED <<environment, settings, generation, edits>>

SetProfileLayer(layer) ==
  /\ LayerAccepted(layer)
  /\ profile' = [profile EXCEPT !.profile = <<layer>>]
  /\ UNCHANGED <<environment, settings, generation, edits>>

AddOverlay(layer) ==
  /\ LayerAccepted(layer)
  /\ profile' = [profile EXCEPT !.overlays = Append(@, layer)]
  /\ UNCHANGED <<environment, settings, generation, edits>>

----------------------------------------------------------------------------
(* Settings: a variable that is not set, or says neither, does not count.  *)
Variables == {<<cap, "next">> : cap \in Capabilities} \cup {<<"companion", "legacy">>}
FromEnvironment(cap) ==
  FirstOf(environment[<<cap, "next">>],
          IF cap = "companion" THEN environment[<<cap, "legacy">>] ELSE {})

FileValue(cap) == settings.capability[cap]

(* from_overrides and with_environment: a companion's mailbox follows it.  *)
BaseSwitch(cap) ==
  CASE cap = "context" -> ValueOr(FileValue(cap), TRUE)
    [] cap = "mailbox" -> ValueOr(FileValue(cap), ValueOr(FileValue("companion"), FALSE))
    [] OTHER -> ValueOr(FileValue(cap), FALSE)

EffectiveSwitch(cap) == ValueOr(FromEnvironment(cap), BaseSwitch(cap))

(* legacy_capability_override: what was said explicitly.                   *)
LegacyOverride(cap) ==
  IF FromEnvironment(cap) # {} THEN FromEnvironment(cap)
  ELSE IF FileValue(cap) # {} THEN {EffectiveSwitch(cap)}
  ELSE IF cap = "mailbox" /\ (FileValue("companion") # {} \/ FromEnvironment("companion") # {})
  THEN {EffectiveSwitch(cap)}
  ELSE {}

\* Mutation: a switch that nobody touched takes the last explicit choice.
ResolvesCarelessly(id) ==
  ValueOr(FirstOf(settings.plugin[id], LegacyOverride(id)), LegacyOverride("companion") = {TRUE})

ResolveSwitch(id) ==
  \/ ~UserToggleable(Manifest(id))
  \/ ValueOr(FirstOf(settings.plugin[id], LegacyOverride(id)), DefaultEnabled(Manifest(id)))

BuiltinEntry(id) ==
  [id |-> id, module |-> id,
   enabled |-> ~UserToggleable(Manifest(id)) \/ ResolveSwitch(id)]

BuildComposition ==
  LET builtin == <<BuiltinEntry("model"), BuiltinEntry("context"), BuiltinEntry("companion"),
                   BuiltinEntry("mailbox"), BuiltinEntry("shell")>>
      layer == [name |-> "builtin", ops |-> <<[op |-> "insert", entries |-> builtin]>>]
  IN Compose([NoProfile EXCEPT !.bundles = <<layer>>])

(* The inventory before the plugins report: see from_entry.                *)
Inventory(snapshot) ==
  [i \in DOMAIN snapshot |->
     [id |-> snapshot[i].id, enabled |-> snapshot[i].enabled,
      phase |-> IF snapshot[i].enabled THEN "Pending" ELSE "Disabled"]]

CompositionInit ==
  /\ profile = NoProfile
  /\ environment \in {e \in [Variables -> Options] :
                       Cardinality({v \in Variables : e[v] # {}}) <= MaxVariables}
  /\ settings = [capability |-> [cap \in Capabilities |-> {}],
                 plugin |-> [id \in Entries |-> {}]]
  /\ generation = <<>>
  /\ edits = 0

(* set, unset and merge of the overrides, and the total switches.          *)
Edit(table, key, value) ==
  /\ edits < MaxEdits
  /\ edits' = edits + 1
  /\ settings' = [settings EXCEPT ![table][key] = value]
  /\ UNCHANGED <<profile, environment, generation>>

MergeOverrides(patch) ==
  /\ edits < MaxEdits
  /\ edits' = edits + 1
  /\ settings' = [settings EXCEPT !.capability =
       [cap \in Capabilities |-> FirstOf(patch[cap], @[cap])]]
  /\ UNCHANGED <<profile, environment, generation>>

\* A Host starts: what is edited later counts for the next one.
StartHost ==
  \E snapshot \in BuildComposition :
    /\ generation' = Inventory(snapshot)
    /\ UNCHANGED <<profile, environment, settings, edits>>

BuildsProfile == generation = <<>> /\ edits = 0 /\ environment = [v \in Variables |-> {}]

CompositionNext ==
  \/ /\ BuildsProfile
     /\ Len(LayersInOrder(profile)) < MaxLayers
     /\ \E ops \in Layers, name \in 1..(Len(LayersInOrder(profile)) + 1) :
          LET layer == [name |-> name, ops |-> ops] IN
          AddBundle(layer) \/ SetProfileLayer(layer) \/ AddOverlay(layer)
  \/ /\ profile = NoProfile
     /\ \/ \E cap \in Capabilities, value \in Options : Edit("capability", cap, value)
        \/ \E id \in Entries, value \in Options : Edit("plugin", id, value)
        \/ \E patch \in [Capabilities -> {{}, {TRUE}}] : MergeOverrides(patch)
        \/ StartHost

CompositionSpec == CompositionInit /\ [][CompositionNext]_compositionVars

----------------------------------------------------------------------------
(* The reference: what a list of operations means without being run.       *)
Defines(op, id) == \/ op.op = "insert" /\ id \in Ids(op.entries)
                   \/ op.op = "replace" /\ op.id = id
Mentions(op, id) == Defines(op, id) \/ (op.op # "insert" /\ op.id = id)
Given(op, id) == IF op.op = "insert" THEN op.entries[PositionOf(op.entries, id)] ELSE op.entry
Inserting(ops, id) == {i \in DOMAIN ops : ops[i].op = "insert" /\ id \in Ids(ops[i].entries)}
Defining(ops, id) == {i \in DOMAIN ops : Defines(ops[i], id)}
Mentioning(ops, id) == {i \in DOMAIN ops : Mentions(ops[i], id)}
LastOf(indices) == CHOOSE i \in indices : \A j \in indices : j <= i

(* A composed profile is what its last writers said, in the order bundles, *)
(* profile, overlays, however the layers were added: an entry is there     *)
(* unless the last operation that mentions it removes it, has the module   *)
(* of the last operation that defines it and is enabled as the last one    *)
(* that mentions it says; the entries keep the order of their insertion.   *)
ComposeIsLastWriter ==
  LET ops == Operations(profile.bundles \o profile.profile \o profile.overlays) IN
  \A entries \in Compose(profile) :
    LET last(id) == ops[LastOf(Mentioning(ops, id))]
    IN /\ Ids(entries) = {id \in Entries : Mentioning(ops, id) # {} /\ last(id).op # "remove"}
       /\ \A i \in DOMAIN entries :
            LET id == entries[i].id
                defined == Given(ops[LastOf(Defining(ops, id))], id)
            IN /\ entries[i].module = defined.module
               /\ entries[i].enabled = IF Defines(last(id), id) THEN Given(last(id), id).enabled
                                       ELSE last(id).op = "enable"
       /\ \A i, j \in DOMAIN entries :
            i < j => LastOf(Inserting(ops, entries[i].id)) <= LastOf(Inserting(ops, entries[j].id))

(* Nothing with effects outside the Host runs unless somebody said so: an  *)
(* entry of external risk that a Host was started with was enabled by the  *)
(* total switch, the environment or the settings, for itself or, for the   *)
(* mailbox, by the companion's setting; a total switch that is off keeps   *)
(* it off whatever the environment says; the model always runs.            *)
ConsentIsFollowed ==
  [][ generation' # generation =>
        /\ \A i \in DOMAIN generation' :
             LET e == generation'[i] IN
             /\ e.enabled /\ Manifest(e.id).risk = "External" =>
                  /\ \/ settings.plugin[e.id] = {TRUE} \/ FromEnvironment(e.id) = {TRUE}
                     \/ FileValue(e.id) = {TRUE}
                     \/ e.id = "mailbox" /\ FileValue("companion") = {TRUE}
                  /\ settings.plugin[e.id] # {FALSE}
             /\ e.id = "model" => e.enabled
        /\ {generation'[i].id : i \in DOMAIN generation'} = Entries ]_compositionVars

(* From the layers to the plugins of a Host: the profile is what was       *)
(* written last, and what is started is what was consented to.             *)
CompositionIsSound == []ComposeIsLastWriter /\ ConsentIsFollowed
=============================================================================
