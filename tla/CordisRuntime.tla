--------------------------- MODULE CordisRuntime ----------------------------
(***************************************************************************)
(* The runtime of yunxi-cordis-runtime over one root context: an immutable *)
(* registry of plugins with their manifests, the user's overrides and one  *)
(* record per plugin.  Every method takes &mut self, so a call is one      *)
(* step; what happens to the scopes inside it is CordisContext.            *)
(*                                                                         *)
(* A plugin is external: what it needs is fixed, what its factory, its     *)
(* identity, its mount and its disposers do is chosen anew at each call.   *)
(* A service that plugins can find is in the root context: the owner of    *)
(* the runtime provides one, or a plugin that was handed the root provides *)
(* its own while it mounts.  Nothing takes it away again.                  *)
(***************************************************************************)
EXTENDS Naturals, Sequences, FiniteSets

CONSTANTS
  Registered,      \* the plugin ids, in the order of the static slice
  PluginRoles,     \* {"Core", "AgentSpine", "Optional"}
  RootServices,    \* services that only the owner provides
  Behaviours,      \* what a plugin may do when it is mounted: see AllBehaviours
  MaxRuntimeCalls  \* bound on the calls

(* A mounted plugin may be ok, put its service into the root as well       *)
(* ("gives"), or fail in one of the phases of FailurePhase.                *)
AllBehaviours == {"ok", "gives", "Factory", "Identity", "Mount"}

RtPlugins == {Registered[i] : i \in DOMAIN Registered}

ASSUME RuntimeAssumption ==
  /\ MaxRuntimeCalls \in Nat
  /\ Registered \in Seq(RtPlugins)
  /\ Behaviours \subseteq AllBehaviours
  /\ \A i, j \in DOMAIN Registered : Registered[i] = Registered[j] => i = j

VARIABLES
  manifest,   \* manifest[p]: role, risk and default enablement
  needs,      \* needs[p]: the services p requires
  record,     \* record[p]: PluginRecord
  overrides,  \* overrides[p]: "none", "on" or "off"
  runtime,    \* [started, closed]
  rooted,     \* the services of the root context
  report,     \* history: what the last start_default began with and returned
  rtCalls

rtVars == <<manifest, needs, record, overrides, runtime, rooted, report, rtCalls>>

IsRequired(role) == role \in {"Core", "AgentSpine"}

(* DefaultEnablement::resolves_to_enabled *)
ResolvesToEnabled(m) ==
  \/ IsRequired(m.role)
  \/ m.default = "Always"
  \/ m.default = "Safe" /\ m.risk = "Safe"

(* PluginManifest::validate, without the spelling of id and name. *)
ValidManifest(m) ==
  IF IsRequired(m.role)
    THEN m.default = "Always"
    ELSE m.default # "Always" /\ ~(m.risk = "External" /\ m.default = "Safe")

Manifests == {m \in [role : PluginRoles, risk : {"Safe", "External"},
                     default : {"Always", "Safe", "Never"}] : ValidManifest(m)}

(* PluginRecord::new *)
NewRecord(m) ==
  [enabled |-> ResolvesToEnabled(m),
   lifecycle |-> IF ResolvesToEnabled(m) THEN "Pending" ELSE "Disabled",
   fiber |-> FALSE, fiberState |-> "none", failure |-> "none"]

RtInit ==
  /\ manifest \in [RtPlugins -> Manifests]
  /\ needs \in [RtPlugins -> {{}} \cup {{s} : s \in RtPlugins \cup RootServices}]
  /\ \A p \in RtPlugins : p \notin needs[p]
  /\ record = [p \in RtPlugins |-> NewRecord(manifest[p])]
  /\ overrides = [p \in RtPlugins |-> "none"]
  /\ runtime = [started |-> FALSE, closed |-> FALSE]
  /\ rooted = {}
  /\ report = [made |-> FALSE]
  /\ rtCalls = 0

EffectiveEnabled(p) ==
  \/ IsRequired(manifest[p].role)
  \/ IF overrides[p] = "none" THEN ResolvesToEnabled(manifest[p]) ELSE overrides[p] = "on"

----------------------------------------------------------------------------
(* The private steps, on a record.                                         *)
Deactivated(r) ==
  [r EXCEPT !.enabled = FALSE, !.lifecycle = "Disabled", !.failure = "none",
            !.fiberState = IF r.fiber THEN @ ELSE "none"]

ResetForManualMount(r) ==
  [r EXCEPT !.failure = "none", !.fiberState = "none", !.lifecycle = "Pending"]

RecordFailure(r, phase) ==
  [r EXCEPT !.lifecycle = "Failed", !.failure = phase,
            !.fiberState = IF phase = "Mount" THEN "Failed" ELSE "none"]

Unmet(p, services) == ~(needs[p] \subseteq services)

(* mount_index of a plugin without fiber: the record and the outcome.      *)
(* Factory and identity are tried before the dependencies.                 *)
MountOutcome(p, b, services) ==
  IF b \in {"Factory", "Identity"} THEN b
  ELSE IF Unmet(p, services) THEN "Missing"
  ELSE b

MountIndex(r, outcome) ==
  IF outcome \in {"ok", "gives"}
    THEN [enabled |-> TRUE, lifecycle |-> "Mounted", fiber |-> TRUE,
          fiberState |-> "Mounted", failure |-> "none"]
    ELSE RecordFailure([r EXCEPT !.enabled = TRUE],
                       IF outcome = "Missing" THEN "Mount" ELSE outcome)

Gives(p, outcome) == IF outcome = "gives" THEN {p} ELSE {}

(* unmount_index: the fiber goes whatever its disposers return. *)
UnmountIndex(r, clean) ==
  IF ~r.fiber
    THEN [r EXCEPT !.enabled = FALSE, !.lifecycle = "Disabled",
                   !.failure = "none", !.fiberState = "none"]
    ELSE [enabled |-> FALSE, lifecycle |-> "Disabled", fiber |-> FALSE,
          fiberState |-> "Unmounted", failure |-> IF clean THEN "none" ELSE "Unmount"]

----------------------------------------------------------------------------
(* start_default.  First the plugins that shall not run are taken down;    *)
(* then passes over those that are pending, in the order of the registry,  *)
(* as long as a pass mounts something.  A pass has what it left waiting    *)
(* (next), whether it mounted one (mounted), the records and the services. *)
FirstPass(clean) ==
  [p \in RtPlugins |->
     IF EffectiveEnabled(p) THEN record[p]
     ELSE IF record[p].fiber /\ ~clean THEN UnmountIndex(record[p], FALSE)
     ELSE Deactivated(IF record[p].fiber THEN UnmountIndex(record[p], TRUE)
                                         ELSE record[p])]

(* defer_missing_dependency: nothing is decided yet. *)
Deferred(r) ==
  [r EXCEPT !.enabled = TRUE, !.lifecycle = "Pending", !.fiberState = "none",
            !.failure = "none"]

TryMount(st, p, b) ==
  LET o == MountOutcome(p, b[p], st.rooted) IN
  IF o = "Missing"
    THEN [st EXCEPT !.next = @ \cup {p}, !.rec[p] = Deferred(@)]
    ELSE [st EXCEPT !.rec[p] = MountIndex(@, o),
                    !.mounted = @ \/ o \in {"ok", "gives"},
                    !.rooted = @ \cup Gives(p, o)]

Pass(st, b) ==
  LET at[i \in 0 .. Len(Registered)] ==
        IF i = 0 THEN [st EXCEPT !.next = {}, !.mounted = FALSE]
        ELSE IF Registered[i] \in st.next THEN TryMount(at[i - 1], Registered[i], b)
        ELSE at[i - 1]
  IN at[Len(Registered)]

PassAgain(st) == st.next # {} /\ st.mounted

(* Every plugin that is left waits for a service that none of them gives.  *)
GiveUp(st) ==
  [st EXCEPT !.rec = [p \in RtPlugins |->
     IF p \in st.next THEN RecordFailure(st.rec[p], "Mount") ELSE st.rec[p]]]

\* Mutation: what is missing is not tried a second time.
OnePass(st, b) == GiveUp(Pass(st, b))

(* A pass after which another one follows has mounted one of those that    *)
(* waited, so there are no more passes than plugins.                       *)
Passes(st, b) ==
  LET after[n \in 0 .. Len(Registered)] ==
        IF n = 0 THEN Pass(st, b)
        ELSE IF PassAgain(after[n - 1]) THEN Pass(after[n - 1], b) ELSE after[n - 1]
  IN GiveUp(after[Len(Registered)])

Call ==
  /\ rtCalls < MaxRuntimeCalls
  /\ rtCalls' = rtCalls + 1
  /\ ~runtime.closed
  /\ UNCHANGED <<manifest, needs>>

StartDefault(b, clean) ==
  LET first == FirstPass(clean)
      pending == {p \in RtPlugins : EffectiveEnabled(p) /\ ~record[p].fiber}
      end == Passes([rec |-> first, next |-> pending, mounted |-> FALSE,
                     rooted |-> rooted], b)
  IN /\ Call
     /\ record' = end.rec
     /\ rooted' = end.rooted
     /\ runtime' = [runtime EXCEPT !.started = TRUE]
     /\ report' = [made |-> TRUE, services |-> rooted,
                   works |-> {p \in RtPlugins : b[p] \in {"ok", "gives"}},
                   gives |-> {p \in RtPlugins : b[p] = "gives"},
                   running |-> {p \in RtPlugins : record[p].fiber},
                   wanted |-> {p \in RtPlugins : EffectiveEnabled(p)},
                   activated |-> {p \in RtPlugins : end.rec[p].fiber}]
     /\ UNCHANGED overrides

(* The single plugin's mount behind mount, set_enabled and clear_override. *)
Mounts(p, r, behaviour) ==
  LET o == MountOutcome(p, behaviour, rooted) IN
  /\ record' = [record EXCEPT ![p] = MountIndex(r, o)]
  /\ rooted' = rooted \cup Gives(p, o)

MountPlugin(p, behaviour) ==
  /\ Call
  /\ overrides' = IF IsRequired(manifest[p].role) THEN overrides
                  ELSE [overrides EXCEPT ![p] = "on"]
  /\ IF record[p].fiber THEN UNCHANGED <<record, rooted>>
     ELSE Mounts(p, ResetForManualMount(record[p]), behaviour)
  /\ report' = [made |-> FALSE]
  /\ UNCHANGED runtime

\* Before the start a switch only prepares the record.
Prepared(r) ==
  [r EXCEPT !.enabled = TRUE, !.failure = "none",
            !.lifecycle = IF r.fiber THEN "Mounted" ELSE "Pending",
            !.fiberState = IF r.fiber THEN @ ELSE "none"]

(* What set_enabled and clear_override do to reach the wanted state.       *)
SwitchOn(p, r, behaviour) ==
  IF ~runtime.started THEN record' = [record EXCEPT ![p] = Prepared(r)] /\ UNCHANGED rooted
  ELSE IF r.fiber THEN UNCHANGED <<record, rooted>>
  ELSE Mounts(p, r, behaviour)

SwitchOff(p, clean) ==
  /\ record' = [record EXCEPT ![p] =
       IF runtime.started \/ @.fiber THEN UnmountIndex(@, clean) ELSE Deactivated(@)]
  /\ UNCHANGED rooted

(* set_enabled, enable, disable and unmount.  A required plugin cannot be  *)
(* turned off.                                                             *)
SetEnabled(p, on, behaviour, clean) ==
  /\ Call
  /\ on \/ ~IsRequired(manifest[p].role)
  /\ overrides' = [overrides EXCEPT ![p] = IF on THEN "on" ELSE "off"]
  /\ IF on THEN SwitchOn(p, IF runtime.started /\ ~record[p].fiber
                              THEN ResetForManualMount(record[p]) ELSE record[p], behaviour)
           ELSE SwitchOff(p, clean)
  /\ report' = [made |-> FALSE]
  /\ UNCHANGED runtime

ClearOverride(p, behaviour, clean) ==
  /\ Call
  /\ overrides' = [overrides EXCEPT ![p] = "none"]
  /\ IF IsRequired(manifest[p].role) THEN UNCHANGED <<record, rooted>>
     ELSE IF ResolvesToEnabled(manifest[p]) THEN SwitchOn(p, record[p], behaviour)
     ELSE SwitchOff(p, clean)
  /\ report' = [made |-> FALSE]
  /\ UNCHANGED runtime

(* root_context().provide, by the owner. *)
ProvideAtRoot(s) ==
  /\ Call
  /\ s \notin rooted
  /\ rooted' = rooted \cup {s}
  /\ report' = [made |-> FALSE]
  /\ UNCHANGED <<record, overrides, runtime>>

(* shutdown, or the drop of the runtime: required plugins go too. *)
RtShutdown(clean) ==
  /\ Call
  /\ record' = [p \in RtPlugins |->
       IF record[p].fiber THEN UnmountIndex(record[p], clean) ELSE Deactivated(record[p])]
  /\ runtime' = [started |-> FALSE, closed |-> TRUE]
  /\ rooted' = {}
  /\ report' = [made |-> FALSE]
  /\ UNCHANGED overrides

(* A closed runtime refuses everything. *)
RtClosed ==
  /\ runtime.closed \/ rtCalls = MaxRuntimeCalls
  /\ UNCHANGED rtVars

RtNext ==
  \/ \E b \in [RtPlugins -> Behaviours], clean \in BOOLEAN :
       StartDefault(b, clean)
  \/ \E p \in RtPlugins, b \in Behaviours, clean \in BOOLEAN :
       \/ MountPlugin(p, b)
       \/ \E on \in BOOLEAN : SetEnabled(p, on, b, clean)
       \/ ClearOverride(p, b, clean)
  \/ \E s \in RootServices : ProvideAtRoot(s)
  \/ \E clean \in BOOLEAN : RtShutdown(clean)
  \/ RtClosed

RtSpec == RtInit /\ [][RtNext]_rtVars

----------------------------------------------------------------------------
(* plugin() and snapshot(): the status of a plugin that clients are shown. *)
(* The state of a live fiber goes before the one that was recorded.        *)
PluginSnapshot(p) ==
  [enabled |-> record[p].enabled, override |-> overrides[p],
   state |-> record[p].lifecycle, fiber |-> record[p].fiber,
   fiberState |-> IF record[p].fiber THEN "Mounted" ELSE record[p].fiberState,
   failure |-> record[p].failure]

(* The record agrees with the switch and with the fiber: after any series  *)
(* of calls and failures the plugin is marked enabled exactly when the     *)
(* override, or else the manifest, says so; it says Mounted exactly when   *)
(* it has a fiber; and a required plugin is never off before shutdown.     *)
RecordsAgree ==
  \A p \in RtPlugins : LET shown == PluginSnapshot(p) IN
    /\ ~runtime.closed => shown.enabled = EffectiveEnabled(p)
    /\ shown.state = "Mounted" <=> shown.fiber
    /\ shown.state = "Disabled" <=> ~shown.enabled
    /\ shown.fiberState = "Mounted" => shown.fiber
    /\ shown.failure # "none" => ~shown.fiber
    /\ runtime.closed => ~shown.fiber

(* "without making registry order observable" (runtime.rs): start_default  *)
(* mounts the least set of wanted plugins that is closed under what they   *)
(* give and need, whatever the order of the registry, and leaves no wanted *)
(* plugin undecided.                                                       *)
StartupIsOrderFree ==
  report.made =>
    LET given(X) == report.services \cup ((X \ report.running) \cap report.gives)
        running == report.running \cap report.wanted
        closed(X) == /\ running \subseteq X
                     /\ \A p \in report.wanted :
                          p \in report.works /\ needs[p] \subseteq given(X) => p \in X
    IN /\ report.activated =
            {p \in report.wanted : \A X \in SUBSET report.wanted : closed(X) => p \in X}
       /\ \A p \in report.wanted : record[p].lifecycle \in {"Mounted", "Failed"}

(* What the runtime shows of its plugins is so, and the start did not      *)
(* depend on the order of the registry.                                    *)
RuntimeIsSound == RecordsAgree /\ StartupIsOrderFree
=============================================================================
