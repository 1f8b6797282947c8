--------------------------- MODULE CordisContext ----------------------------
(***************************************************************************)
(* Scopes of yunxi-cordis-core: contexts with their effects, the plugins   *)
(* mounted into them (fibers), and disposal.  A context is shared by       *)
(* threads and has one lock.  No operation keeps the lock of a context     *)
(* while it takes another one or calls a plugin or a disposer, so the      *)
(* other threads get in between: a frame of a thread's stack says where an *)
(* operation is.                                                           *)
(*                                                                         *)
(* A scope other than the root belongs to the fiber of the same number.    *)
(* Services are left out: provide and remove make the same walk and insert *)
(* as install_effect, and a lookup refuses a scope that is not active.     *)
(* The locks are not poisoned: nothing panics under them.                  *)
(***************************************************************************)
EXTENDS Naturals, Sequences, FiniteSets, FiniteSetsExt

CONSTANTS
  Threads,
  MaxScopes,   \* bound on the scopes that mounts create
  MaxEffects   \* bound on the effects that are created

ASSUME CordisAssumption == MaxScopes \in Nat /\ MaxEffects \in Nat

Root == 0
Scopes == 0 .. MaxScopes
Fibers == 1 .. MaxScopes
Effects == 1 .. MaxEffects   \* in the order in which Effect::new made them

VARIABLES
  state,       \* ScopeState, "none" before the scope is created
  parent,      \* the parent scope
  effects,     \* effects[s][e]: EffectState of e in s, "none" if not there
  registered,  \* the fibers in the scope's table
  fiber,       \* FiberState, "none" before the fiber is created
  held,        \* the fibers whose handle mount has returned
  stack,       \* stack[t]: the operations of a thread, the innermost first
  runs,        \* history: the disposers that were run, in order
  owed         \* history: the effects that a dispose has to run

cordisVars == <<state, parent, effects, registered, fiber, held,
                stack, runs, owed>>
tables == <<effects, registered>>
history == <<runs, owed>>

ScopeStates == {"none", "Active", "Disposing", "Disposed"}
EffectStates == {"none", "Active", "Disposing", "Disposed"}
FiberStates == {"none", "Mounting", "Mounted", "Failed", "Unmounting", "Unmounted"}

(* A frame: the operation, its scope, the effect or fiber it is about, the *)
(* scope its walk has come to, its place, and for dispose the fibers and   *)
(* effects that are left.                                                  *)
Frame(op, s, x, at) ==
  [op |-> op, scope |-> s, arg |-> x, cursor |-> s, at |-> at,
   fibers |-> {}, effects |-> {}]

CordisInit ==
  /\ state = [s \in Scopes |-> IF s = Root THEN "Active" ELSE "none"]
  /\ parent = [s \in Scopes |-> Root]
  /\ effects = [s \in Scopes |-> [e \in Effects |-> "none"]]
  /\ registered = [s \in Scopes |-> {}]
  /\ fiber = [f \in Fibers |-> "none"]
  /\ held = {}
  /\ stack = [t \in Threads |-> <<>>]
  /\ runs = <<>>
  /\ owed = [s \in Scopes |-> {}]

----------------------------------------------------------------------------
Top(t) == Head(stack[t])
At(t, op, at) == stack[t] # <<>> /\ Top(t).op = op /\ Top(t).at = at

Push(t, frame) == stack' = [stack EXCEPT ![t] = <<frame>> \o @]
Pop(t) == stack' = [stack EXCEPT ![t] = Tail(@)]
Goto(t, frame) == stack' = [stack EXCEPT ![t] = <<frame>> \o Tail(@)]

(* An operation may begin on an idle thread, or inside the plugin's mount, *)
(* which gets the scope of its fiber.                                      *)
MayUse(t, s) ==
  \/ stack[t] = <<>> /\ state[s] # "none"
  \/ At(t, "mount", "body") /\ s = Top(t).arg

Begin(t, op, s, x, at) ==
  /\ MayUse(t, s)
  /\ Push(t, Frame(op, s, x, at))
  /\ UNCHANGED <<state, parent, tables, fiber, held, history>>

----------------------------------------------------------------------------
(* install_effect and mount first walk up the scopes and look whether each *)
(* is active (ensure_hierarchy_active), one lock at a time.  mount walks a *)
(* second time, for child(): scopes never become active again, so the walk *)
(* of register_fiber refuses what that one does.                           *)
InstallEffect(t, s, e) ==
  /\ \A r \in Scopes : effects[r][e] = "none"
  /\ \A u \in Threads : \A k \in DOMAIN stack[u] :
       stack[u][k].op = "install" => stack[u][k].arg # e
  /\ Begin(t, "install", s, e, "walk")
Mount(t, s) == Begin(t, "mount", s, 0, "walk")

Walk(t) ==
  /\ stack[t] # <<>>
  /\ Top(t).at = "walk"
  /\ LET c == Top(t).cursor IN
     \/ state[c] # "Active" /\ Pop(t)
     \/ /\ state[c] = "Active"
        /\ Goto(t, IF c = Root THEN [Top(t) EXCEPT !.at = "insert"]
                               ELSE [Top(t) EXCEPT !.cursor = parent[c]])
  /\ UNCHANGED <<state, parent, tables, fiber, held, history>>

(* The insertion, under the lock of the context. *)
InsertEffect(t) ==
  /\ At(t, "install", "insert")
  /\ effects' = [effects EXCEPT ![Top(t).scope][Top(t).arg] = "Active"]
  /\ Pop(t)
  /\ UNCHANGED <<state, parent, registered, fiber, held, history>>

(* register_fiber, with the scope that child() has made.  One plugin       *)
(* stands for all: a second fiber of it in the same scope is refused while *)
(* the first is mounting or mounted.                                       *)
Duplicate(s) == \E f \in registered[s] : fiber[f] \in {"Mounting", "Mounted"}

NextFiber == Min({f \in Fibers : fiber[f] = "none"})

RegisterFiber(t) ==
  LET s == Top(t).scope
      n == NextFiber
  IN /\ At(t, "mount", "insert")
     /\ \E f \in Fibers : fiber[f] = "none"
     /\ ~Duplicate(s)
     /\ state' = [state EXCEPT ![n] = "Active"]
     /\ parent' = [parent EXCEPT ![n] = s]
     /\ fiber' = [fiber EXCEPT ![n] = "Mounting"]
     /\ registered' = [registered EXCEPT ![s] = @ \cup {n}]
     /\ Goto(t, [Top(t) EXCEPT !.at = "body", !.arg = n])
     /\ UNCHANGED <<effects, held, history>>

(* The plugin is there already, or no more scopes can be made. *)
RegisterRefused(t) ==
  /\ At(t, "mount", "insert")
  /\ Duplicate(Top(t).scope) \/ \A f \in Fibers : fiber[f] # "none"
  /\ Pop(t)
  /\ UNCHANGED <<state, parent, tables, fiber, held, history>>

(* The plugin's mount has returned Ok: the state of the fiber is set,      *)
(* whatever happened to its scope in between.                              *)
MountOk(t) ==
  /\ At(t, "mount", "body")
  /\ fiber' = [fiber EXCEPT ![Top(t).arg] = "Mounted"]
  /\ held' = held \cup {Top(t).arg}
  /\ Pop(t)
  /\ UNCHANGED <<state, parent, tables, history>>

Dispose(s) == Frame("dispose", s, 0, "begin")

(* It has returned an error or panicked: fail_mount. *)
MountFails(t) ==
  /\ At(t, "mount", "body")
  /\ fiber' = [fiber EXCEPT ![Top(t).arg] = "Failed"]
  /\ stack' = [stack EXCEPT ![t] =
       <<Dispose(Top(t).arg), [Top(t) EXCEPT !.at = "failed"]>> \o Tail(@)]
  /\ UNCHANGED <<state, parent, tables, held, history>>

(* The end of fail_mount, and the drop of the handle it does not return. *)
MountFailed(t) ==
  LET f == Top(t).arg IN
  /\ At(t, "mount", "failed")
  /\ registered' = [registered EXCEPT ![Top(t).scope] = @ \ {f}]
  /\ fiber' = [fiber EXCEPT ![f] = IF @ = "Failed" THEN "Unmounted" ELSE @]
  /\ Pop(t)
  /\ UNCHANGED <<state, parent, effects, held, history>>

----------------------------------------------------------------------------
(* dispose_effect: the effect is taken under the lock and run without it.  *)
(* Disposed stands for Failed too: nothing depends on what a disposer      *)
(* returns but the error that is passed on.                                *)
EffectEnds(s, e) ==
  /\ runs' = Append(runs, e)
  /\ effects' = [effects EXCEPT ![s][e] = "Disposed"]

DisposeEffect(t, s, e) ==
  /\ MayUse(t, s)
  /\ effects[s][e] = "Active"
  /\ effects' = [effects EXCEPT ![s][e] = "Disposing"]
  /\ Push(t, Frame("drop", s, e, "run"))
  /\ UNCHANGED <<state, parent, registered, fiber, held, history>>

RunEffect(t) ==
  /\ At(t, "drop", "run")
  /\ EffectEnds(Top(t).scope, Top(t).arg)
  /\ Pop(t)
  /\ UNCHANGED <<state, parent, registered, fiber, held, owed>>

----------------------------------------------------------------------------
(* dispose.  Under the lock: the scope is marked, its fibers are told, its *)
(* active effects are taken.  Then fibers in their order, effects in       *)
(* reverse, and the rest under the lock again.                             *)
DisposeContext(t, s) == Begin(t, "dispose", s, 0, "begin")

DisposeRefused(t) ==
  /\ At(t, "dispose", "begin")
  /\ state[Top(t).scope] # "Active"
  /\ Pop(t)
  /\ UNCHANGED <<state, parent, tables, fiber, held, history>>

DisposeBegins(t) ==
  LET s == Top(t).scope
      active == {e \in Effects : effects[s][e] = "Active"}
  IN /\ At(t, "dispose", "begin")
     /\ state[s] = "Active"
     /\ state' = [state EXCEPT ![s] = "Disposing"]
     /\ fiber' = [f \in Fibers |->
          IF f \in registered[s] /\ fiber[f] \in {"Mounting", "Mounted"}
            THEN "Unmounting" ELSE fiber[f]]
     /\ effects' = [effects EXCEPT ![s] =
          [e \in Effects |-> IF e \in active THEN "Disposing" ELSE @[e]]]
     /\ owed' = [owed EXCEPT ![s] = active]
     /\ Goto(t, [Top(t) EXCEPT !.at = "fibers", !.fibers = registered[s],
                               !.effects = active])
     /\ UNCHANGED <<parent, registered, held, runs>>

DisposeFiber(t) ==
  LET f == Min(Top(t).fibers) IN
  /\ At(t, "dispose", "fibers")
  /\ Top(t).fibers # {}
  /\ stack' = [stack EXCEPT ![t] =
       <<Dispose(f), [Top(t) EXCEPT !.at = "fiber", !.arg = f]>> \o Tail(@)]
  /\ UNCHANGED <<state, parent, tables, fiber, held, history>>

DisposeFiberEnds(t) ==
  LET f == Top(t).arg IN
  /\ At(t, "dispose", "fiber")
  /\ fiber' = [fiber EXCEPT ![f] = "Unmounted"]
  /\ Goto(t, [Top(t) EXCEPT !.at = "fibers", !.arg = 0,
                                 !.fibers = @ \ {f}])
  /\ UNCHANGED <<state, parent, tables, held, history>>

\* Mutation: the effects are run in the order in which they were made.
RunOldest(S) == Min(S)

RunNext(S) == Max(S)

DisposeRuns(t) ==
  LET s == Top(t).scope
      e == RunNext(Top(t).effects)
  IN /\ At(t, "dispose", "fibers")
     /\ Top(t).fibers = {}
     /\ Top(t).effects # {}
     /\ EffectEnds(s, e)
     /\ Goto(t, [Top(t) EXCEPT !.effects = @ \ {e}])
     /\ UNCHANGED <<state, parent, registered, fiber, held, owed>>

DisposeEnds(t) ==
  LET s == Top(t).scope IN
  /\ At(t, "dispose", "fibers")
  /\ Top(t).fibers = {} /\ Top(t).effects = {}
  /\ state' = [state EXCEPT ![s] = "Disposed"]
  /\ registered' = [registered EXCEPT ![s] = {}]
  /\ Pop(t)
  /\ UNCHANGED <<parent, effects, fiber, held, history>>

----------------------------------------------------------------------------
(* Fiber::unmount, also from the drop of the handle.  The state is read    *)
(* and then set, each under its lock.                                      *)
Unmount(t, f) ==
  /\ stack[t] = <<>>
  /\ f \in held
  /\ fiber[f] = "Mounted"
  /\ Push(t, Frame("unmount", parent[f], f, "mark"))
  /\ UNCHANGED <<state, parent, tables, fiber, held, history>>

\* Mutation: the state is set before the scope is disposed.
UnmountAtOnce(t) ==
  LET f == Top(t).arg IN
  /\ At(t, "unmount", "mark")
  /\ fiber' = [fiber EXCEPT ![f] = "Unmounted"]
  /\ stack' = [stack EXCEPT ![t] =
       <<Dispose(f), [Top(t) EXCEPT !.at = "end"]>> \o Tail(@)]
  /\ UNCHANGED <<state, parent, tables, held, history>>

UnmountMarks(t) ==
  LET f == Top(t).arg IN
  /\ At(t, "unmount", "mark")
  /\ fiber' = [fiber EXCEPT ![f] = "Unmounting"]
  /\ stack' = [stack EXCEPT ![t] =
       <<Dispose(f), [Top(t) EXCEPT !.at = "end"]>> \o Tail(@)]
  /\ UNCHANGED <<state, parent, tables, held, history>>

UnmountEnds(t) ==
  LET f == Top(t).arg IN
  /\ At(t, "unmount", "end")
  /\ fiber' = [fiber EXCEPT ![f] = "Unmounted"]
  /\ registered' = [registered EXCEPT ![Top(t).scope] = @ \ {f}]
  /\ Pop(t)
  /\ UNCHANGED <<state, parent, effects, held, history>>

----------------------------------------------------------------------------
Calls(t) ==
  \/ \E s \in Scopes :
       \/ Mount(t, s) \/ DisposeContext(t, s)
       \/ \E e \in Effects : InstallEffect(t, s, e) \/ DisposeEffect(t, s, e)
  \/ \E f \in Fibers : Unmount(t, f)

Steps(t) ==
  \/ Walk(t) \/ InsertEffect(t)
  \/ RegisterFiber(t) \/ RegisterRefused(t)
  \/ MountOk(t) \/ MountFails(t) \/ MountFailed(t)
  \/ RunEffect(t)
  \/ DisposeRefused(t) \/ DisposeBegins(t) \/ DisposeFiber(t)
  \/ DisposeFiberEnds(t) \/ DisposeRuns(t) \/ DisposeEnds(t)
  \/ UnmountMarks(t) \/ UnmountEnds(t)

CordisNext == \E t \in Threads : Calls(t) \/ Steps(t)

CordisSpec == CordisInit /\ [][CordisNext]_cordisVars

----------------------------------------------------------------------------
(* Type invariant; a scope exists exactly when its fiber does, under a     *)
(* scope that was made before it.                                          *)
CordisTypeOK ==
  /\ state \in [Scopes -> ScopeStates]
  /\ effects \in [Scopes -> [Effects -> EffectStates]]
  /\ fiber \in [Fibers -> FiberStates]
  /\ held \subseteq Fibers
  /\ \A f \in Fibers : /\ state[f] = "none" <=> fiber[f] = "none"
                       /\ fiber[f] # "none" => parent[f] < f
  /\ \A s \in Scopes : \A f \in registered[s] :
       parent[f] = s /\ fiber[f] # "none"

(* A disposer is one-shot: however dispose, dispose_effect and unmount of  *)
(* several threads meet, no disposer runs twice, and a record says         *)
(* Disposed only after its run.                                            *)
DisposerRunsOnce ==
  /\ \A i, j \in DOMAIN runs : runs[i] = runs[j] => i = j
  /\ \A s \in Scopes, e \in Effects :
       effects[s][e] = "Disposed" =>
         \E i \in DOMAIN runs : runs[i] = e

(* dispose runs everything that it found, the youngest effect first, and   *)
(* only when it is through with the fibers that it found.                  *)
UnwindsInReverse ==
  \A s \in Scopes :
    LET ran == {e \in owed[s] : \E i \in DOMAIN runs : runs[i] = e} IN
    /\ state[s] = "Disposed" => ran = owed[s]
    /\ \A d, e \in owed[s] : d < e /\ d \in ran =>
         \E i, j \in DOMAIN runs : i < j /\ runs[i] = e /\ runs[j] = d
    /\ ran # {} => \A t \in Threads : \A k \in DOMAIN stack[t] :
         stack[t][k].op = "dispose" /\ stack[t][k].scope = s
           => stack[t][k].fibers = {}

(* Effects unwind with their scope: each one once, the youngest first.     *)
EffectsUnwind == CordisTypeOK /\ DisposerRunsOnce /\ UnwindsInReverse

(* A fiber that says Unmounted has no active scope: nobody can install     *)
(* anything more under it that passes the check of the hierarchy.          *)
UnmountedIsClosed ==
  \A f \in Fibers : fiber[f] = "Unmounted" => state[f] \in {"Disposing", "Disposed"}

(* What docs/cordis-rust-architecture.md says of a composed tree: runtime  *)
(* registrations unwind with the owning fiber.  Nothing is left active in  *)
(* a scope that has been disposed.  It is violated: install_effect inserts *)
(* after it has given up the lock under which it saw the scope active.     *)
RegistrationsUnwind ==
  \A s \in Scopes : state[s] = "Disposed" =>
    \A e \in Effects : effects[s][e] # "Active"
=============================================================================
