------------------------------ MODULE EventBus ------------------------------
(***************************************************************************)
(* The typed event bus of yunxi-cordis-core.  One lock guards the table of *)
(* definitions; a dispatch copies the handlers of its event under the lock *)
(* and calls them without it, so handlers come and go while it runs, also  *)
(* by the hand of a handler, and an event whose last handler leaves may be *)
(* defined again with another payload type or another mode.                *)
(*                                                                         *)
(* A handler is its number.  What it does is external: it returns Ok or    *)
(* fails, a panic being caught and reported as a failure, and a bail       *)
(* handler may answer Handled.  fetch_add and the insertion are one step:  *)
(* numbers are only compared for equality.                                 *)
(***************************************************************************)
EXTENDS Naturals, Sequences, FiniteSets

CONSTANTS
  BusThreads,
  EventNames,
  PayloadTypes,
  EventModes,              \* the modes considered: see AllModes
  MaxHandlerId,            \* bound on the handlers that are ever registered
  MAX_EVENT_DEFINITIONS,
  MAX_EVENT_HANDLERS,
  MAX_PARALLEL_WORKERS

AllModes == {"emit", "waterfall", "parallel", "serial", "bail"}

ASSUME BusAssumption ==
  /\ EventModes \subseteq AllModes
  /\ {MaxHandlerId, MAX_EVENT_DEFINITIONS, MAX_EVENT_HANDLERS,
      MAX_PARALLEL_WORKERS} \subseteq Nat \ {0}

VARIABLES
  definitions,   \* definitions[n]: payload type, mode and handlers of an event
  subscription,  \* subscription[h]: what handler h was registered for
  dispatch       \* dispatch[t]: the dispatch a thread is in

busVars == <<definitions, subscription, dispatch>>

HandlerIds == 1 .. MaxHandlerId
NoEvent == [type |-> "none", mode |-> "none", handlers |-> <<>>]
NoHandler == [name |-> "none", type |-> "none", mode |-> "none", active |-> FALSE]

(* at: "idle", "calling", "batch" (the workers of parallel) or "returned". *)
(* outcome[h] of a handler of the copy: "uncalled", "running", "ok",       *)
(* "failed" or "handled"; error: the handler an error is returned for.     *)
NoDispatch == [at |-> "idle", name |-> "none", type |-> "none", mode |-> "none",
               copy |-> <<>>, outcome |-> [h \in HandlerIds |-> "uncalled"],
               error |-> 0, unspawned |-> FALSE]

BusInit ==
  /\ definitions = [n \in EventNames |-> NoEvent]
  /\ subscription = [h \in HandlerIds |-> NoHandler]
  /\ dispatch = [t \in BusThreads |-> NoDispatch]

Defined == {n \in EventNames : definitions[n] # NoEvent}
Fresh == {h \in HandlerIds : subscription[h] = NoHandler}

----------------------------------------------------------------------------
\* Mutation: a second handler need not have the type of the event.
AdmitsAnyType(n, type, mode) ==
  IF n \in Defined
    THEN /\ definitions[n].mode = mode
         /\ Len(definitions[n].handlers) < MAX_EVENT_HANDLERS
    ELSE Cardinality(Defined) < MAX_EVENT_DEFINITIONS

(* The checks of register. *)
Admits(n, type, mode) ==
  IF n \in Defined
    THEN /\ definitions[n].type = type
         /\ definitions[n].mode = mode
         /\ Len(definitions[n].handlers) < MAX_EVENT_HANDLERS
    ELSE Cardinality(Defined) < MAX_EVENT_DEFINITIONS

(* on_emit, on_waterfall, on_parallel, on_serial and on_bail.  A refused   *)
(* registration has used up its number, which nobody sees.                 *)
Register(n, type, mode) ==
  LET h == CHOOSE x \in Fresh : \A y \in Fresh : x <= y IN
  /\ Fresh # {}
  /\ Admits(n, type, mode)
  /\ definitions' = [definitions EXCEPT ![n] =
       [type |-> type, mode |-> mode, handlers |-> Append(@.handlers, h)]]
  /\ subscription' = [subscription EXCEPT ![h] =
       [name |-> n, type |-> type, mode |-> mode, active |-> TRUE]]
  /\ UNCHANGED dispatch

(* Vec::retain: what is left of a table without a handler, in its order.   *)
Retained(handlers, h) ==
  LET upTo[i \in 0 .. Len(handlers)] ==
        IF i = 0 THEN <<>>
        ELSE IF handlers[i] = h THEN upTo[i - 1]
        ELSE Append(upTo[i - 1], handlers[i])
  IN upTo[Len(handlers)]

(* EventBusInner::remove *)
RemoveHandler(h) ==
  LET n == subscription[h].name
      rest == Retained(definitions[n].handlers, h)
  IN definitions' = [definitions EXCEPT ![n] =
       IF rest = <<>> THEN NoEvent ELSE [@ EXCEPT !.handlers = rest]]

(* Subscription::unsubscribe, or its drop. *)
Unsubscribe(h) ==
  /\ subscription[h].active
  /\ RemoveHandler(h)
  /\ subscription' = [subscription EXCEPT ![h].active = FALSE]
  /\ UNCHANGED dispatch

----------------------------------------------------------------------------
Update(t, d) == dispatch' = [dispatch EXCEPT ![t] = d]
BusKeeps == UNCHANGED <<definitions, subscription>>

(* The copy that handlers() makes; another type or mode is refused. *)
BeginDispatch(t, n, type, mode) ==
  /\ dispatch[t].at = "idle"
  /\ n \in Defined => definitions[n].type = type /\ definitions[n].mode = mode
  /\ Update(t, [NoDispatch EXCEPT
       !.at = IF mode = "parallel" THEN "batch" ELSE "calling",
       !.name = n, !.type = type, !.mode = mode,
       !.copy = definitions[n].handlers])
  /\ BusKeeps

(* The positions of the copy that have not been reached, and the next one. *)
Uncalled(d) == {i \in DOMAIN d.copy : d.outcome[d.copy[i]] = "uncalled"}
Earliest(positions) == CHOOSE i \in positions : \A j \in positions : i <= j
NextHandler(d) == d.copy[Earliest(Uncalled(d))]
RunningIn(d) == {h \in HandlerIds : d.outcome[h] = "running"}

(* What a handler may answer in each mode. *)
Answers(mode) == IF mode = "bail" THEN {"ok", "failed", "handled"} ELSE {"ok", "failed"}

(* emit goes on after an error and returns the first; waterfall, serial    *)
(* and bail stop there, bail also at the first Handled.                    *)
Stops(mode, answer) ==
  \/ mode \in {"waterfall", "serial", "bail"} /\ answer = "failed"
  \/ answer = "handled"

CallNext(t, answer) ==
  LET d == dispatch[t]
      h == NextHandler(d)
  IN /\ d.at = "calling"
     /\ Uncalled(d) # {}
     /\ answer \in Answers(d.mode)
     /\ Update(t, [d EXCEPT
          !.outcome[h] = answer,
          !.error = IF answer = "failed" /\ @ = 0 THEN h ELSE @,
          !.at = IF Stops(d.mode, answer) THEN "returned" ELSE @])
     /\ BusKeeps

(* parallel: up to MAX_PARALLEL_WORKERS threads are spawned, they run in   *)
(* any order, and the whole batch is joined before the next one.           *)
Spawned(d) == Len(d.copy) - Cardinality(Uncalled(d))

SpawnNext(t) ==
  LET d == dispatch[t] IN
  /\ d.at = "batch"
  /\ Uncalled(d) # {}
  /\ Cardinality(RunningIn(d)) < MAX_PARALLEL_WORKERS
  /\ Spawned(d) % MAX_PARALLEL_WORKERS # 0 \/ RunningIn(d) = {}
  /\ Update(t, [d EXCEPT !.outcome[NextHandler(d)] = "running"])
  /\ BusKeeps

(* A worker is done.  Workers are joined in the order in which they were   *)
(* registered, so the first error is that of the earliest of them.         *)
\* Mutation: the first error is that of the worker that is done first.
FirstDone(d, h, answer) == IF answer = "failed" /\ d.error = 0 THEN h ELSE d.error

FirstJoined(d, h, answer) ==
  LET failed == {i \in DOMAIN d.copy : \/ d.copy[i] = h /\ answer = "failed"
                                      \/ d.outcome[d.copy[i]] = "failed"}
  IN IF failed = {} THEN 0 ELSE d.copy[Earliest(failed)]

WorkerReturns(t, answer) ==
  LET d == dispatch[t] IN
  \E h \in RunningIn(d) :
    /\ answer \in Answers(d.mode)
    /\ Update(t, [d EXCEPT !.outcome[h] = answer,
                           !.error = FirstJoined(d, h, answer)])
    /\ BusKeeps

(* A thread cannot be spawned: those that were are joined, their errors    *)
(* are dropped, and the dispatch ends with ThreadSpawn.                    *)
SpawnFails(t) ==
  LET d == dispatch[t] IN
  /\ d.at = "batch"
  /\ Uncalled(d) # {}
  /\ RunningIn(d) = {}
  /\ Update(t, [d EXCEPT !.at = "returned", !.error = 0, !.unspawned = TRUE])
  /\ BusKeeps

AllCalled(t) ==
  LET d == dispatch[t] IN
  /\ d.at \in {"calling", "batch"}
  /\ Uncalled(d) = {}
  /\ RunningIn(d) = {}
  /\ Update(t, [d EXCEPT !.at = "returned"])
  /\ BusKeeps

DispatchReturns(t) ==
  /\ dispatch[t].at = "returned"
  /\ Update(t, NoDispatch)
  /\ BusKeeps

BusNext ==
  \/ \E n \in EventNames, type \in PayloadTypes, mode \in EventModes :
       \/ Register(n, type, mode)
       \/ \E t \in BusThreads : BeginDispatch(t, n, type, mode)
  \/ \E h \in HandlerIds : Unsubscribe(h)
  \/ \E t \in BusThreads, answer \in {"ok", "failed", "handled"} :
       CallNext(t, answer) \/ WorkerReturns(t, answer)
  \/ \E t \in BusThreads :
       SpawnNext(t) \/ SpawnFails(t) \/ AllCalled(t) \/ DispatchReturns(t)

----------------------------------------------------------------------------
(* No handler is given a payload of another type or called in another mode *)
(* than it was registered for, although the event of a running dispatch    *)
(* may have been dropped and defined anew meanwhile: the downcast of       *)
(* event.rs never answers "event payload type mismatch".                   *)
PayloadsMatch ==
  \A t \in BusThreads : LET d == dispatch[t] IN
    \A i \in DOMAIN d.copy :
      /\ subscription[d.copy[i]].type = d.type
      /\ subscription[d.copy[i]].mode = d.mode

(* A live subscription is heard: its handler is in the table exactly once, *)
(* whoever else left the same event, and no ended one is in the table.     *)
LiveSubscriptionsHeard ==
  \A h \in HandlerIds, n \in EventNames :
    Cardinality({i \in DOMAIN definitions[n].handlers :
                   definitions[n].handlers[i] = h})
      = IF subscription[h].active /\ subscription[h].name = n THEN 1 ELSE 0

(* The contract of the modes (README of yunxi-cordis-core): emit and       *)
(* parallel call every handler of the copy; the error that is returned is  *)
(* that of the first failing handler in registration order, in whichever   *)
(* order parallel workers finish; waterfall, serial and bail call a prefix *)
(* that ends with the first failure or the first Handled.                  *)
DispatchContract ==
  \A t \in BusThreads : dispatch[t].at = "returned" =>
    LET d == dispatch[t]
        out(i) == d.outcome[d.copy[i]]
        last == {i \in DOMAIN d.copy : Stops(d.mode, out(i))}
    IN /\ d.mode \in {"emit", "parallel"} /\ ~d.unspawned =>
            \A i \in DOMAIN d.copy : out(i) \in {"ok", "failed"}
       /\ \A i \in last, j \in DOMAIN d.copy : i < j => out(j) = "uncalled"
       /\ ~d.unspawned =>
            /\ d.error # 0 <=> \E i \in DOMAIN d.copy : out(i) = "failed"
            /\ \A i \in DOMAIN d.copy : d.copy[i] = d.error =>
                 \A j \in 1 .. i - 1 : out(j) # "failed"

(* Both together: who is called, and what the caller is told of it.        *)
DispatchesAreSound == LiveSubscriptionsHeard /\ DispatchContract
=============================================================================
