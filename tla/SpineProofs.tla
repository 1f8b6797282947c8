----------------------------- MODULE SpineProofs -----------------------------
(***************************************************************************)
(* For any calls, policy, budgets and limits: tools run as it was decided, *)
(* the transcript is sound, and a turn stays within its limits.            *)
(*                                                                         *)
(* The inductive invariant says, of the turn on record, what the log holds *)
(* at each place of the loop.  A round begins with a record of the batch,  *)
(* its results follow one by one, and a turn that waits for a decision is  *)
(* at the call that the last record asks about.                            *)
(***************************************************************************)
EXTENDS AgentSpine, FiniteSetTheorems, SequenceTheorems, TLAPS

(* Between the answer of the model and the end of its batch, the batch and *)
(* the next call are the method's or, while the turn waits, the pending's. *)
InBatch == pc \in {"tools", "call", "suspend"}
Waiting == pending # NoPending

(* The records of a log, and of the results in it what Answer says.        *)
Of(e, kind, t, r) == e.kind = kind /\ e.turn = t /\ e.round = r
ResultsIn(l, t, r) == {i \in DOMAIN l : Of(l[i], "ToolResultRecorded", t, r)}
RequestsIn(l, t) == {i \in DOMAIN l : l[i].kind = "ModelRequested" /\ l[i].turn = t}

InOrder(l, calls, results) ==
  \A i \in results : l[i].calls = <<calls[Cardinality({k \in results : k <= i})]>>

Answered(l, t, r, calls) ==
  /\ Cardinality(ResultsIn(l, t, r)) = Len(calls)
  /\ InOrder(l, calls, ResultsIn(l, t, r))

(* A batch at its call n, in round r of turn t: what has run of it and     *)
(* what is recorded of it.                                                 *)
RanBefore(ex, r, b, n) ==
  \A i \in DOMAIN ex : ex[i].round = r => \E k \in 1 .. n - 1 : ex[i].call = b[k]

RecordedBefore(l, t, r, b, n) ==
  /\ \A i \in DOMAIN l : Of(l[i], "ModelResponded", t, r) => l[i].calls = b
  /\ Cardinality(ResultsIn(l, t, r)) = n - 1
  /\ InOrder(l, b, ResultsIn(l, t, r))

BatchAt(l, ex, t, b, n) ==
  /\ n \in 1 .. Len(b) + 1
  /\ \A i, j \in DOMAIN b : b[i] = b[j] => i = j
  /\ RanBefore(ex, t.round, b, n)
  /\ RecordedBefore(l, t.id, t.round, b, n)

(* The place of the method and the state of the agent.                     *)
ControlInv ==
  /\ state = "Running" <=> pc # "idle"
  /\ next_turn_id = turn.id + 1
  /\ state # "Ready" => turn.id > 0
  /\ start <= index
  /\ pc \in {"call", "suspend"} => index <= Len(batch)
  /\ pc = "suspend" => turn.mode = "ApprovalAware"
  /\ Waiting => /\ state = "AwaitingApproval"
                /\ pending.turn = turn /\ turn.mode = "ApprovalAware"
                /\ pending.index <= Len(pending.batch)

(* Only the turn on record writes, and nothing after its terminal record.  *)
LogInv ==
  /\ \A i \in DOMAIN log :
       /\ log[i].turn <= turn.id
       /\ log[i].turn = turn.id => log[i].round <= turn.round
       /\ state # "Ready" /\ pc # "completed" /\ log[i].turn = turn.id =>
            log[i].kind \notin Terminals
  /\ TerminalIsLast

(* The batch that is being processed, and those before it.                 *)
BatchInv ==
  /\ InBatch => BatchAt(log, executed, turn, batch, index)
  /\ Waiting => BatchAt(log, executed, turn, pending.batch, pending.index)
  /\ pc \in {"request", "model"} =>
       /\ \A i \in DOMAIN executed : executed[i].round < turn.round
       /\ \A i \in DOMAIN log :
            /\ ~Of(log[i], "ModelResponded", turn.id, turn.round)
            /\ ~Of(log[i], "ToolResultRecorded", turn.id, turn.round)
  /\ pc \in {"start", "loop", "request", "model", "tools", "call", "suspend"} \/ Waiting =>
       \A i \in DOMAIN log :
         log[i].kind = "ModelResponded" /\ log[i].turn = turn.id =>
           \/ (InBatch \/ Waiting) /\ log[i].round = turn.round
           \/ Answered(log, turn.id, log[i].round, log[i].calls)

Asked(l, t, call) ==
  \E i \in DOMAIN l : /\ Of(l[i], "ToolApprovalRequested", t.id, t.round)
                      /\ l[i].calls = <<call>>

LastAsks(l, t, call) ==
  /\ Len(l) > 0
  /\ l[Len(l)] = EventOf(t, "ToolApprovalRequested", <<call>>)

(* A decision is at hand for the call that was asked about only.           *)
DecisionInv ==
  /\ pc = "suspend" => LastAsks(log, turn, batch[index])
  /\ Waiting => LastAsks(log, turn, pending.batch[pending.index])
  /\ pc \in {"tools", "call"} /\ start = index =>
       /\ index <= Len(batch)
       /\ Asked(log, turn, batch[index])
       /\ approval.approved => [round |-> approval.round, call |-> approval.call] \in granted

(* Every call that was run may have been.                                  *)
Permitted(l, t, bare, allowed, c) ==
  \/ t.mode = "Legacy" /\ bare
  \/ t.mode = "ApprovalAware" /\ c.call \in Trusted
  \/ /\ t.mode = "ApprovalAware" /\ c \in allowed
     /\ \E i \in DOMAIN l : /\ Of(l[i], "ToolApprovalRequested", t.id, c.round)
                            /\ l[i].calls = <<c.call>>

ExecutedInv ==
  /\ \A i \in DOMAIN executed :
       /\ executed[i].round <= turn.round
       /\ Permitted(log, turn, ~wrapped, granted, executed[i])
  /\ RunsAtMostOnce

BudgetInv ==
  /\ turn.round <= budget.rounds
  /\ Cardinality(RequestsIn(log, turn.id)) <= turn.models /\ turn.models <= budget.models
  /\ Len(executed) <= turn.tools /\ turn.tools <= budget.tools
  /\ pc = "call" => Len(executed) < turn.tools

LateInv ==
  /\ late <= 1
  /\ late > 0 => cancelled
  /\ pc \in {"request", "call"} => late = 0

SpineIInv ==
  /\ SpineTypeOK /\ ControlInv /\ LogInv /\ BatchInv /\ DecisionInv
  /\ ExecutedInv /\ BudgetInv /\ LateInv

----------------------------------------------------------------------------
(* What a step does to the log: it keeps what is there and adds no more    *)
(* than `events`, all of them or none after the one that was refused.      *)
Adds(events) ==
  /\ log' \in Seq(Record)
  /\ Len(log') \in Len(log) .. Len(log) + Len(events)
  /\ Len(log') <= MaxEvents
  /\ \A i \in 1 .. Len(log) : log'[i] = log[i]
  /\ \A i \in Len(log) + 1 .. Len(log') : log'[i] = events[i - Len(log)]

LEMMA RecordedAdds ==
  ASSUME SpineTypeOK, NEW events \in Seq(Record), Recorded(events)
  PROVE  Adds(events) /\ Len(log') = Len(log) + Len(events)
<1>1. log \in Seq(Record) /\ Len(log) \in Nat /\ Len(events) \in Nat
  BY DEF SpineTypeOK, Record
<1>2. /\ log' \in Seq(Record)
      /\ Len(log') = Len(log) + Len(events)
      /\ \A i \in 1 .. Len(log) + Len(events) :
           log'[i] = IF i <= Len(log) THEN log[i] ELSE events[i - Len(log)]
  BY <1>1, ConcatProperties DEF Recorded
<1> QED
  BY <1>1, <1>2, SpineAssumption DEF Adds, Recorded

(* append of several events: all of them and on, or some and the turn has  *)
(* failed.                                                                 *)
LEMMA RecordAdds ==
  ASSUME SpineTypeOK, NEW events \in Seq(Record), NEW target, RecordThen(events, target)
  PROVE  /\ Adds(events)
         /\ \/ pc' = target /\ Len(log') = Len(log) + Len(events)
            \/ pc' = "failed" /\ Len(log') < Len(log) + Len(events)
<1>1. log \in Seq(Record) /\ Len(log) \in Nat /\ Len(events) \in Nat
  BY DEF SpineTypeOK, Record
<1>2. CASE Recorded(events) /\ pc' = target
  BY <1>2, RecordedAdds
<1>3. CASE RecordFails(events)
  <2>1. PICK k \in 0 .. Len(events) - 1 :
          Len(log) + k <= MaxEvents /\ log' = log \o SubSeq(events, 1, k) /\ pc' = "failed"
    BY <1>3 DEF RecordFails
  <2>2. /\ SubSeq(events, 1, k) \in Seq(Record)
        /\ Len(SubSeq(events, 1, k)) = k
        /\ \A i \in 1 .. k : SubSeq(events, 1, k)[i] = events[i]
    <3>1. \A i \in 1 .. k : events[i] \in Record
      BY <1>1, ElementOfSeq
    <3>2. /\ SubSeq(events, 1, k) \in Seq(Record)
          /\ Len(SubSeq(events, 1, k)) = IF 1 <= k THEN k - 1 + 1 ELSE 0
          /\ \A i \in 1 .. k - 1 + 1 : SubSeq(events, 1, k)[i] = events[1 + i - 1]
      BY <3>1, SubSeqProperties
    <3> QED
      BY <3>2
  <2>3. /\ log' \in Seq(Record)
        /\ Len(log') = Len(log) + k
        /\ \A i \in 1 .. Len(log) + k :
             log'[i] = IF i <= Len(log) THEN log[i] ELSE SubSeq(events, 1, k)[i - Len(log)]
    BY <1>1, <2>1, <2>2, ConcatProperties
  <2> QED
    BY <1>1, <2>1, <2>2, <2>3, SpineAssumption DEF Adds
<1> QED
  BY <1>2, <1>3 DEF RecordThen

(* Every event of a turn is a record.                                      *)
LEMMA EventIsRecord ==
  ASSUME NEW t \in Trackers, NEW kind \in Kinds, NEW calls \in Seq(Calls)
  PROVE  /\ EventOf(t, kind, calls) \in Record
         /\ EventOf(t, kind, calls).kind = kind
         /\ EventOf(t, kind, calls).turn = t.id
         /\ EventOf(t, kind, calls).round = t.round
         /\ EventOf(t, kind, calls).calls = calls
BY DEF Trackers, EventOf, Record

LEMMA PlainEvent ==
  ASSUME SpineTypeOK, NEW k \in Kinds
  PROVE  /\ Event(k, <<>>) \in Record
         /\ Event(k, <<>>).kind = k
         /\ Event(k, <<>>).turn = turn.id /\ Event(k, <<>>).round = turn.round
<1>1. turn.id \in Nat /\ turn.round \in Nat
  BY DEF SpineTypeOK, Trackers
<1> QED
  BY <1>1 DEF Event, EventOf, Record

(* The counters of a turn go up by one. *)
LEMMA TrackerCounts ==
  ASSUME NEW t \in Trackers
  PROVE  /\ [t EXCEPT !.round = @ + 1] \in Trackers
         /\ [t EXCEPT !.models = @ + 1] \in Trackers
         /\ [t EXCEPT !.tools = @ + 1] \in Trackers
<1>1. t = [id |-> t.id, mode |-> t.mode, round |-> t.round, models |-> t.models, tools |-> t.tools]
  BY DEF Trackers
<1> QED
  BY <1>1 DEF Trackers

(* One event more, all or nothing.                                         *)
LEMMA AppendOne ==
  ASSUME SpineTypeOK, NEW e \in Record, NEW target, RecordThen(<<e>>, target)
  PROVE  /\ log' \in Seq(Record) /\ Len(log') <= MaxEvents
         /\ \/ /\ pc' = target
               /\ Len(log') = Len(log) + 1 /\ log'[Len(log) + 1] = e
               /\ \A i \in 1 .. Len(log) : log'[i] = log[i]
            \/ pc' = "failed" /\ log' = log
<1>1. <<e>> \in Seq(Record) /\ Len(<<e>>) = 1 /\ log \in Seq(Record) /\ Len(log) \in Nat
  BY DEF SpineTypeOK
<1>2. /\ Adds(<<e>>)
      /\ \/ pc' = target /\ Len(log') = Len(log) + 1
         \/ pc' = "failed" /\ Len(log') < Len(log) + 1
  BY <1>1, RecordAdds
<1>3. CASE pc' = target /\ Len(log') = Len(log) + 1
  BY <1>1, <1>2, <1>3 DEF Adds
<1>4. CASE pc' = "failed" /\ Len(log') < Len(log) + 1
  <2>1. Len(log') = Len(log) /\ log' \in Seq(Record) /\ \A i \in 1 .. Len(log) : log'[i] = log[i]
    BY <1>1, <1>2, <1>4 DEF Adds
  <2>2. log' = log
    BY <1>1, <2>1, SeqEqual
  <2> QED
    BY <1>2, <1>4, <2>1, <2>2 DEF Adds
<1> QED
  BY <1>2, <1>3, <1>4
----------------------------------------------------------------------------
LEMMA InitTypeOK == SpineInit => SpineTypeOK
<1> SUFFICES ASSUME SpineInit PROVE SpineTypeOK
  OBVIOUS
<1>1. [budget |-> budget, wrapped |-> wrapped] \in Setups
  BY SpineAssumption DEF SpineInit
<1>2. turn \in Trackers /\ pending \in PendingTurns /\ last_turn \in LastTurns
  BY DEF SpineInit, NewTracker, Trackers, Modes, NoPending, PendingTurns, NoTurn, LastTurns
<1>3. log \in Seq(Record) /\ Len(log) <= MaxEvents
  BY SpineAssumption DEF SpineInit
<1>4. executed \in Seq(RunCalls) /\ granted \subseteq RunCalls /\ batch \in Seq(Calls)
  BY DEF SpineInit
<1>5. approval \in Decisions \cup {NoDecision}
  BY DEF SpineInit
<1> QED
  BY <1>1, <1>2, <1>3, <1>4, <1>5 DEF SpineInit, SpineTypeOK

LEMMA TurnTypes ==
  ASSUME SpineTypeOK,
         StartTurn \/ LoopStops \/ BuildContext \/ ModelBudgetStops \/ RequestModel
  PROVE  SpineTypeOK'
<1>0. <<>> \in Seq(Calls)
  OBVIOUS
<1>1. CASE LoopStops \/ ModelBudgetStops
  BY <1>1 DEF SpineTypeOK, LoopStops, ModelBudgetStops, config, cursor, history
<1>2. CASE StartTurn
  <2>1. Event("TurnStarted", <<>>) \in Record
    BY <1>0, EventIsRecord DEF Kinds, Event, SpineTypeOK
  <2>2. RecordThen(<<Event("TurnStarted", <<>>)>>, "loop")
    BY <1>2 DEF StartTurn
  <2>3. log' \in Seq(Record) /\ Len(log') <= MaxEvents /\ pc' \in {"loop", "failed"}
    BY <2>1, <2>2, AppendOne, Zenon
  <2> QED
    BY <1>2, <2>3 DEF SpineTypeOK, StartTurn, config, cursor, history
<1>3. CASE BuildContext
  <2>1. turn' \in Trackers
    BY <1>3, TrackerCounts DEF BuildContext, SpineTypeOK
  <2>2. EventOf(turn', "ContextBuilt", <<>>) \in Record
    BY <1>0, <2>1, EventIsRecord DEF Kinds
  <2>3. RecordThen(<<EventOf(turn', "ContextBuilt", <<>>)>>, "request")
    BY <1>3 DEF BuildContext
  <2>4. log' \in Seq(Record) /\ Len(log') <= MaxEvents /\ pc' \in {"request", "failed"}
    BY <2>2, <2>3, AppendOne, Zenon
  <2> QED
    BY <1>3, <2>1, <2>4 DEF SpineTypeOK, BuildContext, config, cursor, history
<1>4. CASE RequestModel
  <2>1. Event("ModelRequested", <<>>) \in Record
    BY <1>0, EventIsRecord DEF Kinds, Event, SpineTypeOK
  <2>2. RecordThen(<<Event("ModelRequested", <<>>)>>, "model")
    BY <1>4 DEF RequestModel
  <2>3. log' \in Seq(Record) /\ Len(log') <= MaxEvents /\ pc' \in {"model", "failed"}
    BY <2>1, <2>2, AppendOne, Zenon
  <2>4. turn' \in Trackers
    BY <1>4, TrackerCounts DEF RequestModel, SpineTypeOK
  <2>5. late' \in Nat
    BY <1>4 DEF RequestModel, SpineTypeOK
  <2> QED
    BY <1>4, <2>3, <2>4, <2>5 DEF SpineTypeOK, RequestModel, config, cursor
<1> QED
  BY <1>1, <1>2, <1>3, <1>4
LEMMA ModelTypes ==
  ASSUME SpineTypeOK, ModelFails \/ (\E empty \in BOOLEAN : ModelAnswers(empty))
                        \/ (\E b \in Batches : ModelCallsTools(b))
  PROVE  SpineTypeOK'
<1>0. <<>> \in Seq(Calls) /\ turn \in Trackers
  BY DEF SpineTypeOK
<1>1. CASE ModelFails
  BY <1>1 DEF SpineTypeOK, ModelFails, config, cursor, history
<1>2. ASSUME NEW empty \in BOOLEAN, ModelAnswers(empty)
      PROVE  SpineTypeOK'
  <2>1. /\ Event("ModelResponded", <<>>) \in Record
        /\ Event("TurnCompleted", <<>>) \in Record
    BY <1>0, EventIsRecord DEF Kinds, Event
  <2>2. \/ RecordThen(<<Event("ModelResponded", <<>>)>>, "failed")
        \/ RecordThen(<<Event("ModelResponded", <<>>), Event("TurnCompleted", <<>>)>>, "completed")
    BY <1>2 DEF ModelAnswers
  <2>3. /\ <<Event("ModelResponded", <<>>)>> \in Seq(Record)
        /\ <<Event("ModelResponded", <<>>), Event("TurnCompleted", <<>>)>> \in Seq(Record)
    BY <2>1
  <2>4. log' \in Seq(Record) /\ Len(log') <= MaxEvents /\ pc' \in {"failed", "completed"}
    BY <2>2, <2>3, RecordAdds, Zenon DEF Adds
  <2> QED
    BY <1>2, <2>4 DEF SpineTypeOK, ModelAnswers, config, cursor, history
<1>3. ASSUME NEW b \in Batches, ModelCallsTools(b)
      PROVE  SpineTypeOK'
  <2>1. b \in Seq(Calls)
    BY DEF Batches
  <2>2. /\ Event("ModelResponded", b) \in Record
        /\ Event("ToolCallsRequested", b) \in Record
    BY <1>0, <2>1, EventIsRecord DEF Kinds, Event
  <2>3. <<Event("ModelResponded", b), Event("ToolCallsRequested", b)>> \in Seq(Record)
    BY <2>2
  <2>4. RecordThen(<<Event("ModelResponded", b), Event("ToolCallsRequested", b)>>, "tools")
    BY <1>3 DEF ModelCallsTools
  <2>5. log' \in Seq(Record) /\ Len(log') <= MaxEvents /\ pc' \in {"failed", "tools"}
    BY <2>3, <2>4, RecordAdds, Zenon DEF Adds
  <2> QED
    BY <1>3, <2>1, <2>5 DEF SpineTypeOK, ModelCallsTools, config, history
<1> QED
  BY <1>1, <1>2, <1>3

(* What ToolReturns records: the decision if there was one, and the result. *)
ReturnEvents ==
  (IF index = start THEN <<Event("ToolApprovalResolved", <<Call>>)>> ELSE <<>>)
    \o <<Event("ToolResultRecorded", <<Call>>)>>

LEMMA ReturnAdds ==
  ASSUME SpineTypeOK, Call \in Calls, ToolReturns
  PROVE  /\ ReturnEvents \in Seq(Record)
         /\ RecordThen(ReturnEvents, "tools")
         /\ Len(ReturnEvents) \in {1, 2}
         /\ ReturnEvents[Len(ReturnEvents)] = Event("ToolResultRecorded", <<Call>>)
         /\ Len(ReturnEvents) = 2 =>
              ReturnEvents[1] = Event("ToolApprovalResolved", <<Call>>)
<1>1. /\ Event("ToolApprovalResolved", <<Call>>) \in Record
      /\ Event("ToolResultRecorded", <<Call>>) \in Record
  <2>1. <<Call>> \in Seq(Calls) /\ turn \in Trackers
    BY DEF SpineTypeOK
  <2> QED
    BY <2>1, EventIsRecord DEF Kinds, Event
<1>2. RecordThen(ReturnEvents, "tools")
  BY DEF ToolReturns, ToolEnds, ReturnEvents
<1>3. CASE index = start
  BY <1>1, <1>2, <1>3 DEF ReturnEvents
<1>4. CASE index # start
  BY <1>1, <1>2, <1>4 DEF ReturnEvents
<1> QED
  BY <1>3, <1>4

LEMMA ToolTypes ==
  ASSUME SpineTypeOK, index \in 1 .. Len(batch) \/ pc \notin {"call", "suspend"},
         ToolStops \/ ToolCharged \/ ToolAsks \/ ToolReturns \/ BatchDone \/ Suspend
  PROVE  SpineTypeOK'
<1>0. turn \in Trackers
  BY DEF SpineTypeOK
<1>1. CASE ToolStops \/ BatchDone
  BY <1>1 DEF SpineTypeOK, ToolStops, BatchDone, config, cursor, history
<1>2. CASE ToolCharged
  <2>1. turn' \in Trackers
    BY <1>0, <1>2, TrackerCounts DEF ToolCharged
  <2> QED
    BY <1>2, <2>1 DEF SpineTypeOK, ToolCharged, config, cursor, history
<1>3. CASE ToolAsks
  <2>1. Call \in Calls /\ <<Call>> \in Seq(Calls)
    BY <1>3 DEF ToolAsks, Call, SpineTypeOK
  <2>2. Event("ToolApprovalRequested", <<Call>>) \in Record
    BY <1>0, <2>1, EventIsRecord DEF Kinds, Event
  <2>3. RecordThen(<<Event("ToolApprovalRequested", <<Call>>)>>, "suspend")
    BY <1>3 DEF ToolAsks
  <2>4. log' \in Seq(Record) /\ Len(log') <= MaxEvents /\ pc' \in {"failed", "suspend"}
    BY <2>2, <2>3, AppendOne, Zenon
  <2> QED
    BY <1>3, <2>4 DEF SpineTypeOK, ToolAsks, config, cursor, history
<1>4. CASE ToolReturns
  <2>1. Call \in Calls
    BY <1>4 DEF ToolReturns, ToolEnds, Call, SpineTypeOK
  <2>2. log' \in Seq(Record) /\ Len(log') <= MaxEvents /\ pc' \in {"failed", "tools"}
    BY <1>4, <2>1, ReturnAdds, RecordAdds, Zenon DEF Adds
  <2>3. [round |-> turn.round, call |-> Call] \in RunCalls
    BY <1>0, <2>1 DEF Trackers, RunCalls
  <2>4. executed' \in Seq(RunCalls) /\ late' \in Nat /\ index' \in Nat
    BY <1>4, <2>3 DEF ToolReturns, ToolEnds, SpineTypeOK
  <2> QED
    BY <1>4, <2>2, <2>4 DEF SpineTypeOK, ToolReturns, ToolEnds, config
<1>5. CASE Suspend
  <2>1. pending' \in PendingTurns
    BY <1>5 DEF Suspend, PendingTurns, SpineTypeOK
  <2>2. last_turn' \in LastTurns
    BY <1>0, <1>5 DEF Suspend, LastTurns, Trackers
  <2>3. batch' \in Seq(Calls) /\ approval' \in Decisions \cup {NoDecision}
    BY <1>5 DEF Suspend, Returns
  <2> QED
    BY <1>5, <2>1, <2>2, <2>3 DEF SpineTypeOK, Suspend, Returns, config
<1> QED
  BY <1>1, <1>2, <1>3, <1>4, <1>5

LEMMA EndTypes ==
  ASSUME SpineTypeOK, Complete \/ Abandon
  PROVE  SpineTypeOK'
<1>0. turn \in Trackers /\ turn.id \in Nat /\ <<>> \in Seq(Calls)
  BY DEF SpineTypeOK, Trackers
<1>1. Returns
  BY Zenon DEF Complete, Abandon
<1>2. /\ pc' = "idle" /\ index' \in Nat /\ start' \in Nat
      /\ cancelled' \in BOOLEAN /\ late' \in Nat /\ batch' \in Seq(Calls)
  BY <1>0, <1>1 DEF Returns
<1>7. approval' \in Decisions \cup {NoDecision}
  BY <1>1, Zenon DEF Returns
<1>3. pending' \in PendingTurns
  <2>1. NoPending \in PendingTurns
    BY <1>0 DEF NoPending, PendingTurns, NewTracker, Trackers, Modes
  <2>2. pending' = pending \/ pending' = NoPending
    BY Zenon DEF Complete, Abandon
  <2> QED
    BY <2>1, <2>2 DEF SpineTypeOK
<1>4. last_turn' \in LastTurns
  BY <1>0 DEF Complete, Abandon, LastTurns, Terminals
<1>5. log' \in Seq(Record) /\ Len(log') <= MaxEvents
  <2>1. CASE log' = log
    BY <2>1 DEF SpineTypeOK
  <2>2. CASE log' # log
    <3>1. PICK kind \in {"TurnCancelled", "TurnFailed"} : Recorded(<<Event(kind, <<>>)>>)
      BY <2>2 DEF Complete, Abandon
    <3>2. Event(kind, <<>>) \in Record
      BY <1>0, EventIsRecord DEF Kinds, Event
    <3>3. <<Event(kind, <<>>)>> \in Seq(Record)
      BY <3>2
    <3> QED
      BY <3>1, <3>3, RecordedAdds, Zenon DEF Adds
  <2> QED
    BY <2>1, <2>2
<1>6. state' \in {"Ready"} /\ UNCHANGED <<config, turn, next_turn_id, executed, granted>>
  BY Zenon DEF Complete, Abandon
<1> QED
  BY <1>2, <1>3, <1>4, <1>5, <1>6, <1>7 DEF SpineTypeOK, config

LEMMA OwnerTypes ==
  ASSUME SpineTypeOK, pending # NoPending => pending.index \in 1 .. Len(pending.batch),
         Owner \/ CancelToken
  PROVE  SpineTypeOK'
<1>0. turn \in Trackers /\ <<>> \in Seq(Calls)
  BY DEF SpineTypeOK
<1>1. ASSUME NEW mode \in Modes, RunTurn(mode)
      PROVE  SpineTypeOK'
  <2>1. turn' \in Trackers /\ next_turn_id' \in Nat
    BY <1>1 DEF RunTurn, NewTracker, Trackers, SpineTypeOK
  <2>2. batch' \in Seq(Calls) /\ approval' \in Decisions \cup {NoDecision}
    BY <1>1 DEF RunTurn
  <2>3. executed' \in Seq(RunCalls) /\ granted' \subseteq RunCalls
    BY <1>1 DEF RunTurn
  <2> QED
    BY <1>1, <2>1, <2>2, <2>3 DEF RunTurn, SpineTypeOK, config
<1>2. CASE ResetConversation
  <2>1. last_turn' \in LastTurns
    BY <1>2 DEF ResetConversation, NoTurn, LastTurns
  <2>2. log' \in Seq(Record) /\ Len(log') <= MaxEvents
    BY <1>2, SpineAssumption DEF ResetConversation
  <2>3. executed' \in Seq(RunCalls) /\ granted' \subseteq RunCalls
    BY <1>2 DEF ResetConversation
  <2> QED
    BY <1>2, <2>1, <2>2, <2>3 DEF ResetConversation, SpineTypeOK, config, cursor
<1>3. CASE MethodRefused \/ CancelToken
  BY <1>3 DEF MethodRefused, CancelToken, SpineTypeOK, vars, config, cursor, history
<1>4. CASE CancelPendingTurn
  <2>1. pending' \in PendingTurns /\ pending.turn \in Trackers /\ pending.turn.id \in Nat
    BY <1>4
    DEF CancelPendingTurn, SpineTypeOK, NoPending, PendingTurns, NewTracker, Trackers, Modes
  <2>0. EventOf(pending.turn, "TurnCancelled", <<>>) \in Record
    BY <1>0, <2>1, EventIsRecord DEF Kinds
  <2>2. <<EventOf(pending.turn, "TurnCancelled", <<>>)>> \in Seq(Record)
    BY <2>0
  <2>3. log' \in Seq(Record) /\ Len(log') <= MaxEvents
    <3>1. CASE log' = log
      BY <3>1 DEF SpineTypeOK
    <3> QED
      BY <1>4, <2>2, <3>1, RecordedAdds DEF CancelPendingTurn, Adds
  <2>4. last_turn' \in LastTurns /\ state' \in {"Ready", "Running", "AwaitingApproval"}
    BY <1>4, <2>1 DEF CancelPendingTurn, LastTurns, Terminals, SpineTypeOK
  <2> QED
    BY <1>4, <2>1, <2>3, <2>4 DEF CancelPendingTurn, SpineTypeOK, config, cursor, history
<1>5. ASSUME NEW d \in Decisions, ApprovePendingTool(d)
      PROVE  SpineTypeOK'
  <2>1. /\ turn' \in Trackers /\ batch' \in Seq(Calls)
        /\ index' \in Nat /\ start' \in Nat
    BY <1>5 DEF ApprovePendingTool, SpineTypeOK, PendingTurns
  <2>2. pending' \in PendingTurns /\ approval' \in Decisions \cup {NoDecision}
    BY <1>5
    DEF ApprovePendingTool, NoPending, PendingTurns, NewTracker, Trackers, Modes
  <2>3. granted' \subseteq RunCalls
    BY <1>5 DEF ApprovePendingTool, SpineTypeOK, Decisions, RunCalls
  <2> QED
    BY <1>5, <2>1, <2>2, <2>3 DEF ApprovePendingTool, SpineTypeOK, config
<1>6. ASSUME NEW round \in 1 .. budget.rounds, NEW call \in Calls, NEW approved \in BOOLEAN
      PROVE  [round |-> round, call |-> call, approved |-> approved] \in Decisions
  BY SpineAssumption DEF SpineTypeOK, Decisions
<1> QED
  BY <1>1, <1>2, <1>3, <1>4, <1>5, <1>6 DEF Owner
----------------------------------------------------------------------------
(* Most steps go on with the turn on record: they keep the log and add     *)
(* records of the turn's round.                                            *)
Added(l, m) == {i \in DOMAIN m : i > Len(l)}

Extends(l, m) ==
  /\ Len(l) <= Len(m)
  /\ \A i \in DOMAIN l : i \in DOMAIN m /\ m[i] = l[i]

Continues ==
  /\ Extends(log, log')
  /\ \A i \in Added(log, log') : log'[i].turn = turn.id /\ log'[i].round = turn'.round
  /\ turn'.id = turn.id /\ turn'.mode = turn.mode /\ turn.round <= turn'.round

LEMMA LogTypes ==
  ASSUME NEW l \in Seq(Record)
  PROVE  /\ Len(l) \in Nat /\ DOMAIN l = 1 .. Len(l)
         /\ \A i \in DOMAIN l : /\ l[i] \in Record
                                /\ l[i].turn \in Nat /\ l[i].round \in Nat
                                /\ l[i].kind \in Kinds /\ l[i].calls \in Seq(Calls)
<1>1. Len(l) \in Nat /\ DOMAIN l = 1 .. Len(l) /\ \A i \in 1 .. Len(l) : l[i] \in Record
  OBVIOUS
<1> QED
  BY <1>1 DEF Record

LEMMA OldOrAdded ==
  ASSUME NEW l \in Seq(Record), NEW m \in Seq(Record), NEW i \in DOMAIN m
  PROVE  i \in DOMAIN l \/ i \in Added(l, m)
BY LogTypes DEF Added

LEMMA LogKept ==
  ASSUME SpineTypeOK, SpineTypeOK', LogInv, Continues,
         state # "Ready", pc # "completed",
         \A i \in Added(log, log') : log'[i].kind \in Terminals =>
           i = Len(log') /\ (state' = "Ready" \/ pc' = "completed")
  PROVE  LogInv'
<1>0. /\ turn.id \in Nat /\ turn.round \in Nat /\ turn'.round \in Nat
      /\ turn'.id = turn.id /\ turn.round <= turn'.round
      /\ log \in Seq(Record) /\ log' \in Seq(Record)
  BY DEF SpineTypeOK, Trackers, Continues
<1>1. /\ DOMAIN log = 1 .. Len(log) /\ DOMAIN log' = 1 .. Len(log')
      /\ Len(log) \in Nat /\ Len(log') \in Nat
      /\ \A i \in DOMAIN log : log[i].turn \in Nat /\ log[i].round \in Nat
  BY <1>0, LogTypes
<1>2. \A i \in DOMAIN log : i \in DOMAIN log' /\ log'[i] = log[i]
  BY DEF Continues, Extends
<1>3. ASSUME NEW i \in DOMAIN log'
      PROVE  /\ log'[i].turn <= turn'.id
             /\ log'[i].turn = turn'.id => log'[i].round <= turn'.round
             /\ state' # "Ready" /\ pc' # "completed" /\ log'[i].turn = turn'.id =>
                  log'[i].kind \notin Terminals
  <2>1. CASE i \in DOMAIN log
    BY <1>0, <1>1, <1>2, <2>1 DEF LogInv
  <2>2. CASE i \in Added(log, log')
    BY <1>0, <2>2 DEF Continues
  <2> QED
    BY <1>0, <2>1, <2>2, OldOrAdded
<1>4. ASSUME NEW i \in DOMAIN log', NEW j \in DOMAIN log',
             i < j, log'[i].kind \in Terminals
      PROVE  log'[j].turn > log'[i].turn
  <2>0. i # Len(log')
    BY <1>1, <1>4
  <2>1. i \in DOMAIN log
    BY <1>0, <1>4, <2>0, OldOrAdded
  <2>2. CASE j \in DOMAIN log
    BY <1>2, <1>4, <2>1, <2>2 DEF LogInv, TerminalIsLast
  <2>3. CASE j \in Added(log, log')
    <3>1. log'[i].turn # turn.id /\ log'[i].turn <= turn.id
      BY <1>2, <1>4, <2>1 DEF LogInv
    <3>2. log'[j].turn = turn.id
      BY <2>3 DEF Continues
    <3> QED
      BY <1>0, <1>1, <1>2, <2>1, <3>1, <3>2
  <2> QED
    BY <1>0, <2>2, <2>3, OldOrAdded
<1> QED
  BY <1>3, <1>4 DEF LogInv, TerminalIsLast

LEMMA PositionsFinite ==
  ASSUME NEW l \in Seq(Record), NEW S \in SUBSET DOMAIN l
  PROVE  IsFiniteSet(S) /\ Cardinality(S) \in Nat
<1>1. Len(l) \in Nat /\ DOMAIN l = 1 .. Len(l)
  BY LogTypes
<1>2. IsFiniteSet(1 .. Len(l))
  BY <1>1, FS_Interval
<1> QED
  BY <1>1, <1>2, FS_Subset, FS_CardinalityType

(* Other records leave the results of a round as they are.                 *)
LEMMA ResultsKept ==
  ASSUME NEW l \in Seq(Record), NEW m \in Seq(Record), Extends(l, m), NEW t, NEW r,
         \A i \in Added(l, m) : ~Of(m[i], "ToolResultRecorded", t, r)
  PROVE  /\ ResultsIn(m, t, r) = ResultsIn(l, t, r)
         /\ \A calls : InOrder(l, calls, ResultsIn(l, t, r)) => InOrder(m, calls, ResultsIn(m, t, r))
         /\ \A calls : Answered(l, t, r, calls) => Answered(m, t, r, calls)
<1>1. ResultsIn(m, t, r) = ResultsIn(l, t, r)
  BY OldOrAdded DEF ResultsIn, Extends
<1>2. \A i \in ResultsIn(l, t, r) : m[i] = l[i]
  BY DEF ResultsIn, Extends
<1>3. \A calls : InOrder(l, calls, ResultsIn(l, t, r)) => InOrder(m, calls, ResultsIn(m, t, r))
  BY <1>1, <1>2 DEF InOrder
<1> QED
  BY <1>1, <1>3 DEF Answered

LEMMA RequestsKept ==
  ASSUME NEW l \in Seq(Record), NEW m \in Seq(Record), Extends(l, m), NEW t,
         \A i \in Added(l, m) : m[i].kind # "ModelRequested"
  PROVE  RequestsIn(m, t) = RequestsIn(l, t)
BY OldOrAdded DEF RequestsIn, Extends

LEMMA BatchAtKept ==
  ASSUME NEW l \in Seq(Record), NEW m \in Seq(Record), Extends(l, m),
         NEW ex, NEW t, NEW u, u.id = t.id, u.round = t.round, NEW b, NEW n,
         \A i \in Added(l, m) : m[i].kind \notin {"ModelResponded", "ToolResultRecorded"},
         BatchAt(l, ex, t, b, n)
  PROVE  BatchAt(m, ex, u, b, n)
<1>1. /\ ResultsIn(m, t.id, t.round) = ResultsIn(l, t.id, t.round)
      /\ InOrder(m, b, ResultsIn(m, t.id, t.round))
  BY ResultsKept DEF Of, BatchAt, RecordedBefore
<1>2. \A i \in DOMAIN m : Of(m[i], "ModelResponded", t.id, t.round) => m[i].calls = b
  BY OldOrAdded DEF Of, BatchAt, RecordedBefore, Extends
<1>3. RecordedBefore(m, t.id, t.round, b, n)
  BY <1>1, <1>2 DEF BatchAt, RecordedBefore
<1> QED
  BY <1>3 DEF BatchAt
(* What appending makes of the log.                                        *)
LEMMA AddsExtends ==
  ASSUME SpineTypeOK, NEW events \in Seq(Record), Adds(events)
  PROVE  /\ Extends(log, log') /\ log' \in Seq(Record)
         /\ \A i \in Added(log, log') :
              \E k \in 1 .. Len(events) : i = Len(log) + k /\ log'[i] = events[k]
<1>1. /\ Len(log) \in Nat /\ DOMAIN log = 1 .. Len(log)
      /\ Len(log') \in Nat /\ DOMAIN log' = 1 .. Len(log')
      /\ Len(events) \in Nat
  BY LogTypes DEF SpineTypeOK, Adds
<1>2. Extends(log, log')
  BY <1>1 DEF Adds, Extends
<1>3. ASSUME NEW i \in Added(log, log')
      PROVE  \E k \in 1 .. Len(events) : i = Len(log) + k /\ log'[i] = events[k]
  <2>1. i \in Len(log) + 1 .. Len(log') /\ Len(log') <= Len(log) + Len(events)
    BY <1>1 DEF Added, Adds
  <2>2. i - Len(log) \in 1 .. Len(events) /\ i = Len(log) + (i - Len(log))
    BY <1>1, <2>1
  <2> QED
    BY <2>1, <2>2 DEF Adds
<1> QED
  BY <1>2, <1>3 DEF Adds

LEMMA OneExtends ==
  ASSUME SpineTypeOK, NEW e \in Record, NEW target, RecordThen(<<e>>, target)
  PROVE  /\ Extends(log, log') /\ log' \in Seq(Record)
         /\ \A i \in Added(log, log') : i = Len(log') /\ log'[i] = e
         /\ \/ pc' = target /\ Len(log') = Len(log) + 1 /\ log'[Len(log')] = e
            \/ pc' = "failed" /\ log' = log
<1>1. /\ <<e>> \in Seq(Record) /\ Len(<<e>>) = 1 /\ <<e>>[1] = e
      /\ Len(log) \in Nat
  BY LogTypes DEF SpineTypeOK
<1>2. Adds(<<e>>)
  BY <1>1, RecordAdds
<1>3. /\ Extends(log, log') /\ log' \in Seq(Record)
      /\ \A i \in Added(log, log') : i = Len(log) + 1 /\ log'[i] = e
  <2>1. /\ Extends(log, log') /\ log' \in Seq(Record)
        /\ \A i \in Added(log, log') :
             \E k \in 1 .. Len(<<e>>) : i = Len(log) + k /\ log'[i] = <<e>>[k]
    BY <1>1, <1>2, AddsExtends
  <2>2. \A k \in 1 .. Len(<<e>>) : k = 1
    BY <1>1
  <2> QED
    BY <1>1, <2>1, <2>2
<1>4. \/ pc' = target /\ Len(log') = Len(log) + 1 /\ log'[Len(log) + 1] = e
      \/ pc' = "failed" /\ log' = log
  BY AppendOne, Zenon
<1>5. \A i \in Added(log, log') : i \in 1 .. Len(log') /\ i > Len(log)
  BY <1>3, LogTypes DEF Added
<1>6. \A i \in Added(log, log') : i = Len(log')
  BY <1>1, <1>3, <1>4, <1>5
<1> QED
  BY <1>3, <1>4, <1>6

LEMMA TwoInARow ==
  ASSUME NEW a \in Record, NEW b \in Record
  PROVE  <<a>> \o <<b>> = <<a, b>>
<1>1. /\ <<a>> \in Seq(Record) /\ <<b>> \in Seq(Record) /\ <<a, b>> \in Seq(Record)
      /\ Len(<<a>>) = 1 /\ Len(<<b>>) = 1 /\ Len(<<a, b>>) = 2
      /\ <<a>>[1] = a /\ <<b>>[1] = b /\ <<a, b>>[1] = a /\ <<a, b>>[2] = b
  OBVIOUS
<1>2. /\ <<a>> \o <<b>> \in Seq(Record)
      /\ Len(<<a>> \o <<b>>) = 2
      /\ \A i \in 1 .. 2 : (<<a>> \o <<b>>)[i] = <<a, b>>[i]
  BY <1>1, ConcatProperties
<1> QED
  BY <1>1, <1>2, SeqEqual

LEMMA TwoExtends ==
  ASSUME SpineTypeOK, NEW a \in Record, NEW b \in Record, NEW target,
         RecordThen(<<a, b>>, target)
  PROVE  /\ Extends(log, log') /\ log' \in Seq(Record)
         /\ pc' \in {target, "failed"}
         /\ \A i \in Added(log, log') :
              \/ i = Len(log) + 1 /\ log'[i] = a
              \/ i = Len(log') /\ pc' = target /\ log'[i] = b
         /\ \/ /\ pc' = target
               /\ Len(log') = Len(log) + 2
               /\ log'[Len(log) + 1] = a /\ log'[Len(log) + 2] = b
            \/ pc' = "failed"
<1>1. /\ <<a, b>> \in Seq(Record) /\ Len(<<a, b>>) = 2
      /\ <<a, b>>[1] = a /\ <<a, b>>[2] = b
  OBVIOUS
<1>2. Len(log) \in Nat
  BY LogTypes DEF SpineTypeOK
<1>3. /\ Adds(<<a, b>>)
      /\ \/ pc' = target /\ Len(log') = Len(log) + 2
         \/ pc' = "failed" /\ Len(log') < Len(log) + 2
  BY <1>1, RecordAdds
<1>4. /\ Extends(log, log') /\ log' \in Seq(Record)
      /\ \A i \in Added(log, log') :
           \E k \in 1 .. 2 : i = Len(log) + k /\ log'[i] = <<a, b>>[k]
  BY <1>1, <1>3, AddsExtends
<1>5. ASSUME NEW i \in Added(log, log')
      PROVE  \/ i = Len(log) + 1 /\ log'[i] = a
             \/ i = Len(log') /\ pc' = target /\ log'[i] = b
  <2>1. i \in Nat /\ i <= Len(log') /\ Len(log') \in Nat
    BY <1>4, LogTypes DEF Added
  <2>2. PICK k \in 1 .. 2 : i = Len(log) + k /\ log'[i] = <<a, b>>[k]
    BY <1>4
  <2>3. CASE k = 1
    BY <1>1, <2>2, <2>3
  <2>4. CASE k = 2
    <3>1. pc' = target /\ Len(log') = Len(log) + 2
      BY <1>2, <1>3, <2>1, <2>2, <2>4
    <3> QED
      BY <1>1, <2>2, <2>4, <3>1
  <2> QED
    BY <2>3, <2>4
<1>6. pc' = target /\ Len(log') = Len(log) + 2 =>
        log'[Len(log) + 1] = a /\ log'[Len(log) + 2] = b
  <2> SUFFICES ASSUME pc' = target, Len(log') = Len(log) + 2
               PROVE  log'[Len(log) + 1] = a /\ log'[Len(log) + 2] = b
    OBVIOUS
  <2>1. /\ Len(log) + 1 \in Len(log) + 1 .. Len(log') /\ Len(log) + 2 \in Len(log) + 1 .. Len(log')
        /\ (Len(log) + 1) - Len(log) = 1 /\ (Len(log) + 2) - Len(log) = 2
    BY <1>2
  <2>2. \A i \in Len(log) + 1 .. Len(log') : log'[i] = <<a, b>>[i - Len(log)]
    BY <1>3 DEF Adds
  <2> QED
    BY <1>1, <2>1, <2>2
<1> QED
  BY <1>3, <1>4, <1>5, <1>6

LEMMA SameExtends ==
  ASSUME NEW l \in Seq(Record)
  PROVE  Extends(l, l) /\ Added(l, l) = {}
BY LogTypes DEF Extends, Added

LEMMA BatchKept ==
  ASSUME SpineTypeOK, SpineTypeOK', Continues, BatchInv, turn'.round = turn.round,
         executed' = executed, batch' = batch, index' = index, pending' = pending,
         \A i \in Added(log, log') : log'[i].kind \notin {"ModelResponded", "ToolResultRecorded"},
         InBatch' => InBatch,
         pc' \in {"request", "model"} => pc \in {"request", "model"},
         pc' \in {"start", "loop"} => pc \in {"start", "loop"}
  PROVE  BatchInv'
<1>0. /\ log \in Seq(Record) /\ log' \in Seq(Record) /\ Extends(log, log')
      /\ turn'.id = turn.id /\ Waiting' = Waiting
  BY DEF SpineTypeOK, Continues, Waiting
<1>1. InBatch' => BatchAt(log', executed', turn', batch', index')
  BY <1>0, BatchAtKept DEF BatchInv
<1>2. Waiting' => BatchAt(log', executed', turn', pending'.batch, pending'.index)
  BY <1>0, BatchAtKept DEF BatchInv
<1>3. pc' \in {"request", "model"} =>
       /\ \A i \in DOMAIN executed' : executed'[i].round < turn'.round
       /\ \A i \in DOMAIN log' :
            /\ ~Of(log'[i], "ModelResponded", turn'.id, turn'.round)
            /\ ~Of(log'[i], "ToolResultRecorded", turn'.id, turn'.round)
  BY <1>0, OldOrAdded DEF BatchInv, Of, Extends
<1>4. ASSUME NEW i \in DOMAIN log',
             log'[i].kind = "ModelResponded", log'[i].turn = turn'.id,
             pc' \in {"start", "loop", "request", "model", "tools", "call", "suspend"} \/ Waiting'
      PROVE  \/ (InBatch' \/ Waiting') /\ log'[i].round = turn'.round
             \/ Answered(log', turn'.id, log'[i].round, log'[i].calls)
  <2>1. i \in DOMAIN log /\ log'[i] = log[i]
    BY <1>0, <1>4, OldOrAdded DEF Extends
  <2>2. pc \in {"start", "loop", "request", "model", "tools", "call", "suspend"} \/ Waiting
    BY <1>0, <1>4 DEF InBatch
  <2>3. \/ (InBatch \/ Waiting) /\ log[i].round = turn.round
        \/ Answered(log, turn.id, log[i].round, log[i].calls)
    BY <1>0, <1>4, <2>1, <2>2 DEF BatchInv
  <2>4. CASE (InBatch \/ Waiting) /\ log[i].round = turn.round
    BY <1>0, <1>4, <2>1, <2>4 DEF InBatch
  <2>5. CASE Answered(log, turn.id, log[i].round, log[i].calls)
    <3>1. \A r : \A j \in Added(log, log') : ~Of(log'[j], "ToolResultRecorded", turn.id, r)
      BY DEF Of
    <3> QED
      BY <1>0, <2>1, <2>5, <3>1, ResultsKept
  <2> QED
    BY <2>3, <2>4, <2>5
<1> QED
  BY <1>1, <1>2, <1>3, <1>4 DEF BatchInv

LEMMA ExecutedKept ==
  ASSUME SpineTypeOK, SpineTypeOK', Continues, ExecutedInv,
         executed' = executed, granted \subseteq granted', wrapped' = wrapped
  PROVE  ExecutedInv'
<1>1. /\ turn'.id = turn.id /\ turn'.mode = turn.mode /\ turn.round <= turn'.round
      /\ turn.round \in Nat /\ turn'.round \in Nat
  BY DEF Continues, SpineTypeOK, Trackers
<1>2. \A i \in DOMAIN log : i \in DOMAIN log' /\ log'[i] = log[i]
  BY DEF Continues, Extends
<1>3. ASSUME NEW i \in DOMAIN executed
      PROVE  /\ executed[i].round <= turn'.round
             /\ Permitted(log', turn', ~wrapped', granted', executed[i])
  <2>0. executed[i] \in RunCalls
    BY DEF SpineTypeOK
  <2>1. executed[i].round \in Nat
    BY <2>0 DEF RunCalls
  <2>2. Permitted(log, turn, ~wrapped, granted, executed[i])
    BY DEF ExecutedInv
  <2>3. Permitted(log', turn', ~wrapped', granted', executed[i])
    BY <1>1, <1>2, <2>2 DEF Permitted
  <2> QED
    BY <1>1, <2>1, <2>3 DEF ExecutedInv
<1> QED
  BY <1>3 DEF ExecutedInv, RunsAtMostOnce
----------------------------------------------------------------------------
LEMMA BatchPlace ==
  ASSUME SpineIInv
  PROVE  /\ pc \in {"call", "suspend"} => index \in 1 .. Len(batch)
         /\ pending # NoPending => pending.index \in 1 .. Len(pending.batch)
         /\ pc # "idle" => state = "Running" /\ ~Waiting
<1>1. pc # "idle" => state = "Running" /\ ~Waiting
  BY DEF SpineIInv, ControlInv
<1>2. pc \in {"call", "suspend"} => index \in 1 .. Len(batch)
  BY DEF SpineIInv, SpineTypeOK, ControlInv, BatchInv, InBatch, BatchAt
<1>3. Waiting => pending.index \in 1 .. Len(pending.batch)
  BY DEF SpineIInv, SpineTypeOK, PendingTurns, ControlInv, BatchInv, BatchAt
<1> QED
  BY <1>1, <1>2, <1>3 DEF Waiting

(* Steps that change the place only, or the token.                         *)
LEMMA QuietInv ==
  ASSUME SpineIInv,
         LoopStops \/ ModelBudgetStops \/ ModelFails \/ ToolStops \/ CancelToken
  PROVE  SpineIInv'
<1>0. SpineTypeOK /\ ControlInv /\ LogInv /\ BatchInv /\ DecisionInv /\ ExecutedInv
      /\ BudgetInv /\ LateInv
  BY DEF SpineIInv
<1>1. SpineTypeOK'
  BY <1>0, BatchPlace, TurnTypes, ModelTypes, ToolTypes, OwnerTypes DEF ToolStops
<1>2. UNCHANGED <<config, state, turn, cursor, pending, next_turn_id, log, executed, granted, late>>
  BY Zenon DEF LoopStops, ModelBudgetStops, ModelFails, ToolStops, CancelToken, history
<1>3. /\ pc # "idle" /\ (cancelled => cancelled')
      /\ \/ pc' = pc
         \/ pc # "completed" /\ pc' \in {"cancelled", "failed"}
  BY <1>0 DEF LoopStops, ModelBudgetStops, ModelFails, ToolStops, CancelToken, ControlInv
<1>4. Continues
  BY <1>0, <1>2, SameExtends DEF Continues, SpineTypeOK, Trackers
<1>5. ControlInv'
  BY <1>0, <1>2, <1>3 DEF ControlInv, cursor, Waiting
<1>6. LogInv'
  BY <1>0, <1>2, <1>3 DEF LogInv, TerminalIsLast
<1>7. BatchInv'
  <2>1. Added(log, log') = {}
    BY <1>0, <1>2, SameExtends DEF SpineTypeOK
  <2> QED
    BY <1>0, <1>1, <1>2, <1>3, <1>4, <2>1, BatchKept DEF InBatch, cursor
<1>8. DecisionInv'
  BY <1>0, <1>2, <1>3 DEF DecisionInv, cursor, Waiting
<1>9. ExecutedInv'
  BY <1>0, <1>1, <1>2, <1>4, ExecutedKept DEF config
<1>10. BudgetInv' /\ LateInv'
  BY <1>0, <1>2, <1>3 DEF BudgetInv, LateInv, config
<1> QED
  BY <1>1, <1>5, <1>6, <1>7, <1>8, <1>9, <1>10 DEF SpineIInv

LEMMA StartInv ==
  ASSUME SpineIInv, StartTurn
  PROVE  SpineIInv'
<1>0. SpineTypeOK /\ ControlInv /\ LogInv /\ BatchInv /\ DecisionInv /\ ExecutedInv
      /\ BudgetInv /\ LateInv
  BY DEF SpineIInv
<1>1. SpineTypeOK'
  BY <1>0, TurnTypes
<1>2. /\ UNCHANGED <<config, state, turn, cursor, pending, next_turn_id, cancelled,
                     executed, granted, late>>
      /\ pc = "start"
  BY DEF StartTurn, history
<1>3. /\ Extends(log, log') /\ pc' \in {"loop", "failed"}
      /\ \A i \in Added(log, log') : log'[i] = Event("TurnStarted", <<>>)
  <2>1. Event("TurnStarted", <<>>) \in Record
    BY <1>0, PlainEvent DEF Kinds
  <2>2. RecordThen(<<Event("TurnStarted", <<>>)>>, "loop")
    BY DEF StartTurn
  <2> QED
    BY <1>0, <2>1, <2>2, OneExtends, Zenon
<1>4. \A i \in Added(log, log') : /\ log'[i].kind = "TurnStarted"
                                  /\ log'[i].turn = turn.id /\ log'[i].round = turn.round
  BY <1>3 DEF Event, EventOf
<1>5. Continues
  BY <1>0, <1>2, <1>3, <1>4 DEF Continues, SpineTypeOK, Trackers
<1>6. ControlInv'
  BY <1>0, <1>2, <1>3 DEF ControlInv, cursor, Waiting
<1>7. LogInv'
  BY <1>0, <1>1, <1>2, <1>4, <1>5, LogKept DEF Terminals, ControlInv
<1>8. BatchInv'
  BY <1>0, <1>1, <1>2, <1>3, <1>4, <1>5, BatchKept DEF InBatch, cursor
<1>9. DecisionInv'
  BY <1>0, <1>2, <1>3 DEF DecisionInv, cursor, Waiting, ControlInv
<1>10. ExecutedInv'
  BY <1>0, <1>1, <1>2, <1>5, ExecutedKept DEF config
<1>11. RequestsIn(log', turn.id) = RequestsIn(log, turn.id)
  BY <1>0, <1>1, <1>3, <1>4, RequestsKept DEF SpineTypeOK
<1>12. BudgetInv' /\ LateInv'
  BY <1>0, <1>2, <1>3, <1>11 DEF BudgetInv, LateInv, config
<1> QED
  BY <1>1, <1>6, <1>7, <1>8, <1>9, <1>10, <1>12 DEF SpineIInv
LEMMA ContextInv ==
  ASSUME SpineIInv, BuildContext
  PROVE  SpineIInv'
<1>0. SpineTypeOK /\ ControlInv /\ LogInv /\ BatchInv /\ DecisionInv /\ ExecutedInv
      /\ BudgetInv /\ LateInv
  BY DEF SpineIInv
<1>1. SpineTypeOK'
  BY <1>0, TurnTypes
<1>2. /\ UNCHANGED <<config, state, cursor, pending, next_turn_id, cancelled,
                     executed, granted, late>>
      /\ turn' = [turn EXCEPT !.round = @ + 1]
      /\ turn.round + 1 <= budget.rounds /\ ~cancelled /\ pc = "loop"
  BY DEF BuildContext, history
<1>3. /\ turn'.id = turn.id /\ turn'.mode = turn.mode /\ turn'.round = turn.round + 1
      /\ turn'.models = turn.models /\ turn'.tools = turn.tools
      /\ turn.round \in Nat /\ turn.id \in Nat
  BY <1>0, <1>2 DEF SpineTypeOK, Trackers
<1>4. /\ Extends(log, log') /\ pc' \in {"request", "failed"}
      /\ \A i \in Added(log, log') : log'[i] = EventOf(turn', "ContextBuilt", <<>>)
  <2>1. <<>> \in Seq(Calls) /\ turn' \in Trackers
    BY <1>1 DEF SpineTypeOK
  <2>2. EventOf(turn', "ContextBuilt", <<>>) \in Record
    BY <2>1, EventIsRecord DEF Kinds
  <2>3. RecordThen(<<EventOf(turn', "ContextBuilt", <<>>)>>, "request")
    BY DEF BuildContext
  <2> QED
    BY <1>0, <2>2, <2>3, OneExtends, Zenon
<1>5. \A i \in Added(log, log') : /\ log'[i].kind = "ContextBuilt"
                                  /\ log'[i].turn = turn'.id /\ log'[i].round = turn'.round
  BY <1>4 DEF EventOf
<1>6. Continues
  BY <1>0, <1>3, <1>4, <1>5 DEF Continues, SpineTypeOK, Trackers
<1>7. ~Waiting /\ ~Waiting' /\ state = "Running" /\ state' = "Running"
  BY <1>0, <1>2 DEF ControlInv, Waiting
<1>8. ControlInv'
  BY <1>0, <1>2, <1>3, <1>4, <1>7 DEF ControlInv, cursor
<1>9. LogInv'
  BY <1>0, <1>1, <1>2, <1>5, <1>6, <1>7, LogKept DEF Terminals
<1>10. BatchInv'
  <2>1. ~InBatch /\ ~InBatch'
    BY <1>2, <1>4 DEF InBatch
  <2>2. /\ log \in Seq(Record) /\ log' \in Seq(Record)
        /\ \A i \in DOMAIN executed : executed[i] \in RunCalls
    BY <1>0, <1>1 DEF SpineTypeOK
  <2>3. \A i \in DOMAIN executed' : executed'[i].round < turn'.round
    <3>1. \A i \in DOMAIN executed : executed[i].round \in Nat /\ executed[i].round <= turn.round
      BY <1>0, <2>2 DEF ExecutedInv, RunCalls
    <3> QED
      BY <1>2, <1>3, <3>1
  <2>4. ASSUME NEW i \in DOMAIN log'
        PROVE  /\ ~Of(log'[i], "ModelResponded", turn'.id, turn'.round)
               /\ ~Of(log'[i], "ToolResultRecorded", turn'.id, turn'.round)
    <3>1. CASE i \in DOMAIN log
      <4>1. log'[i] = log[i] /\ log[i].round \in Nat
        BY <1>4, <2>2, <3>1, LogTypes DEF Extends
      <4>2. log[i].turn = turn.id => log[i].round <= turn.round
        BY <1>0, <3>1 DEF LogInv
      <4> QED
        BY <1>3, <4>1, <4>2 DEF Of
    <3>2. CASE i \in Added(log, log')
      BY <1>5, <3>2 DEF Of
    <3> QED
      BY <2>2, <3>1, <3>2, OldOrAdded
  <2>5. ASSUME NEW i \in DOMAIN log', log'[i].kind = "ModelResponded", log'[i].turn = turn'.id
        PROVE  Answered(log', turn'.id, log'[i].round, log'[i].calls)
    <3>1. i \in DOMAIN log /\ log'[i] = log[i]
      BY <1>4, <1>5, <2>2, <2>5, OldOrAdded DEF Extends
    <3>2. Answered(log, turn.id, log[i].round, log[i].calls)
      BY <1>0, <1>2, <1>3, <1>7, <2>1, <2>5, <3>1 DEF BatchInv
    <3>3. \A r : \A j \in Added(log, log') : ~Of(log'[j], "ToolResultRecorded", turn.id, r)
      BY <1>5 DEF Of
    <3> QED
      BY <1>3, <1>4, <2>2, <3>1, <3>2, <3>3, ResultsKept
  <2> QED
    BY <1>4, <1>7, <2>1, <2>3, <2>4, <2>5 DEF BatchInv
<1>11. DecisionInv'
  BY <1>4, <1>7 DEF DecisionInv
<1>12. ExecutedInv'
  BY <1>0, <1>1, <1>2, <1>6, ExecutedKept DEF config
<1>13. RequestsIn(log', turn.id) = RequestsIn(log, turn.id)
  BY <1>0, <1>1, <1>4, <1>5, RequestsKept DEF SpineTypeOK
<1>14. BudgetInv'
  BY <1>0, <1>2, <1>3, <1>4, <1>13 DEF BudgetInv, config
<1>15. LateInv'
  BY <1>0, <1>2 DEF LateInv, SpineTypeOK
<1> QED
  BY <1>1, <1>8, <1>9, <1>10, <1>11, <1>12, <1>14, <1>15 DEF SpineIInv
LEMMA RequestsGrow ==
  ASSUME NEW l \in Seq(Record), NEW m \in Seq(Record), Extends(l, m), NEW t,
         \A i \in Added(l, m) : i = Len(m)
  PROVE  Cardinality(RequestsIn(m, t)) <= Cardinality(RequestsIn(l, t)) + 1
<1>1. RequestsIn(m, t) \subseteq RequestsIn(l, t) \cup {Len(m)}
  BY OldOrAdded DEF RequestsIn, Extends
<1>2. IsFiniteSet(RequestsIn(l, t)) /\ Cardinality(RequestsIn(l, t)) \in Nat
  BY PositionsFinite DEF RequestsIn
<1>3. /\ IsFiniteSet(RequestsIn(l, t) \cup {Len(m)})
      /\ Cardinality(RequestsIn(l, t) \cup {Len(m)}) <= Cardinality(RequestsIn(l, t)) + 1
  <2>1. /\ IsFiniteSet(RequestsIn(l, t) \cup {Len(m)})
        /\ Cardinality(RequestsIn(l, t) \cup {Len(m)})
             = IF Len(m) \in RequestsIn(l, t) THEN Cardinality(RequestsIn(l, t))
               ELSE Cardinality(RequestsIn(l, t)) + 1
    BY <1>2, FS_AddElement, Zenon
  <2> QED
    BY <1>2, <2>1
<1>4. Cardinality(RequestsIn(m, t)) <= Cardinality(RequestsIn(l, t) \cup {Len(m)})
  BY <1>1, <1>3, FS_Subset
<1>5. /\ Cardinality(RequestsIn(m, t)) \in Nat
      /\ Cardinality(RequestsIn(l, t) \cup {Len(m)}) \in Nat
  BY <1>3, PositionsFinite, FS_CardinalityType DEF RequestsIn
<1> QED
  BY <1>2, <1>3, <1>4, <1>5

LEMMA RequestInv ==
  ASSUME SpineIInv, RequestModel
  PROVE  SpineIInv'
<1>0. SpineTypeOK /\ ControlInv /\ LogInv /\ BatchInv /\ DecisionInv /\ ExecutedInv
      /\ BudgetInv /\ LateInv
  BY DEF SpineIInv
<1>1. SpineTypeOK'
  BY <1>0, TurnTypes
<1>2. /\ UNCHANGED <<config, state, cursor, pending, next_turn_id, cancelled, executed, granted>>
      /\ turn' = [turn EXCEPT !.models = @ + 1]
      /\ turn.models < budget.models /\ pc = "request"
      /\ late' = IF pc' = "model" /\ cancelled THEN late + 1 ELSE late
  BY DEF RequestModel
<1>3. /\ turn'.id = turn.id /\ turn'.mode = turn.mode /\ turn'.round = turn.round
      /\ turn'.models = turn.models + 1 /\ turn'.tools = turn.tools
      /\ turn.round \in Nat /\ turn.models \in Nat
  BY <1>0, <1>2 DEF SpineTypeOK, Trackers
<1>4. /\ Extends(log, log') /\ pc' \in {"model", "failed"}
      /\ \A i \in Added(log, log') : i = Len(log') /\ log'[i] = Event("ModelRequested", <<>>)
  <2>1. Event("ModelRequested", <<>>) \in Record
    BY <1>0, PlainEvent DEF Kinds
  <2>2. RecordThen(<<Event("ModelRequested", <<>>)>>, "model")
    BY DEF RequestModel
  <2> QED
    BY <1>0, <2>1, <2>2, OneExtends, Zenon
<1>5. \A i \in Added(log, log') : /\ log'[i].kind = "ModelRequested"
                                  /\ log'[i].turn = turn.id /\ log'[i].round = turn.round
  BY <1>4 DEF Event, EventOf
<1>6. Continues
  BY <1>0, <1>3, <1>4, <1>5 DEF Continues
<1>7. ~Waiting /\ ~Waiting' /\ state = "Running" /\ state' = "Running"
  BY <1>0, <1>2 DEF ControlInv, Waiting
<1>8. ControlInv'
  BY <1>0, <1>2, <1>3, <1>4, <1>7 DEF ControlInv, cursor
<1>9. LogInv'
  BY <1>0, <1>1, <1>2, <1>5, <1>6, <1>7, LogKept DEF Terminals
<1>10. BatchInv'
  BY <1>0, <1>1, <1>2, <1>3, <1>4, <1>5, <1>6, BatchKept DEF InBatch, cursor
<1>11. DecisionInv'
  BY <1>4, <1>7 DEF DecisionInv
<1>12. ExecutedInv'
  BY <1>0, <1>1, <1>2, <1>6, ExecutedKept DEF config
<1>13. BudgetInv'
  <2>1. log \in Seq(Record) /\ log' \in Seq(Record)
    BY <1>0, <1>1 DEF SpineTypeOK
  <2>2. Cardinality(RequestsIn(log', turn.id)) <= Cardinality(RequestsIn(log, turn.id)) + 1
    BY <2>1, <1>4, RequestsGrow
  <2>3. /\ Cardinality(RequestsIn(log', turn.id)) \in Nat
        /\ Cardinality(RequestsIn(log, turn.id)) \in Nat
    BY <2>1, PositionsFinite DEF RequestsIn
  <2>4. [budget |-> budget, wrapped |-> wrapped] \in Setups /\ budget.models \in Nat
    BY <1>0, SpineAssumption DEF SpineTypeOK
  <2>5. Cardinality(RequestsIn(log', turn'.id)) <= turn'.models /\ turn'.models <= budget.models
    BY <1>0, <1>2, <1>3, <2>2, <2>3, <2>4 DEF BudgetInv
  <2> QED
    BY <1>0, <1>2, <1>3, <1>4, <2>5 DEF BudgetInv, config
<1>14. LateInv'
  BY <1>0, <1>2, <1>4 DEF LateInv, SpineTypeOK
<1> QED
  BY <1>1, <1>8, <1>9, <1>10, <1>11, <1>12, <1>13, <1>14 DEF SpineIInv

LEMMA AnswerInv ==
  ASSUME SpineIInv, NEW empty \in BOOLEAN, ModelAnswers(empty)
  PROVE  SpineIInv'
<1>0. SpineTypeOK /\ ControlInv /\ LogInv /\ BatchInv /\ DecisionInv /\ ExecutedInv
      /\ BudgetInv /\ LateInv
  BY DEF SpineIInv
<1>1. SpineTypeOK'
  BY <1>0, ModelTypes
<1>2. /\ UNCHANGED <<config, state, turn, cursor, pending, next_turn_id, cancelled,
                     executed, granted, late>>
      /\ pc = "model"
  BY DEF ModelAnswers, history
<1>3. /\ Extends(log, log') /\ pc' \in {"failed", "completed"}
      /\ \A i \in Added(log, log') :
           /\ log'[i].turn = turn.id /\ log'[i].round = turn.round
           /\ log'[i].kind \in {"ModelResponded", "TurnCompleted"}
           /\ log'[i].kind = "TurnCompleted" => i = Len(log') /\ pc' = "completed"
  <2>0. /\ Event("ModelResponded", <<>>) \in Record
        /\ Event("TurnCompleted", <<>>) \in Record
    BY <1>0, PlainEvent DEF Kinds
  <2>1. /\ \A i \in {1} : <<Event("ModelResponded", <<>>)>>[i] = Event("ModelResponded", <<>>)
        /\ Event("ModelResponded", <<>>).kind = "ModelResponded"
        /\ Event("ModelResponded", <<>>).turn = turn.id
        /\ Event("ModelResponded", <<>>).round = turn.round
        /\ Event("TurnCompleted", <<>>).kind = "TurnCompleted"
        /\ Event("TurnCompleted", <<>>).turn = turn.id
        /\ Event("TurnCompleted", <<>>).round = turn.round
    BY DEF Event, EventOf
  <2>2. CASE RecordThen(<<Event("ModelResponded", <<>>)>>, "failed")
    <3>1. /\ Extends(log, log') /\ pc' = "failed"
          /\ \A i \in Added(log, log') : log'[i] = Event("ModelResponded", <<>>)
      BY <1>0, <2>0, <2>2, OneExtends, Zenon
    <3> QED
      BY <2>1, <3>1
  <2>3. CASE RecordThen(<<Event("ModelResponded", <<>>), Event("TurnCompleted", <<>>)>>, "completed")
    <3>1. /\ Extends(log, log') /\ pc' \in {"completed", "failed"}
          /\ \A i \in Added(log, log') :
               \/ log'[i] = Event("ModelResponded", <<>>)
               \/ i = Len(log') /\ pc' = "completed" /\ log'[i] = Event("TurnCompleted", <<>>)
      BY <1>0, <2>0, <2>3, TwoExtends, Zenon
    <3> QED
      BY <2>1, <3>1
  <2> QED
    BY <2>2, <2>3 DEF ModelAnswers
<1>4. Continues
  BY <1>0, <1>2, <1>3 DEF Continues, SpineTypeOK, Trackers
<1>5. ~Waiting /\ ~Waiting' /\ state = "Running" /\ state' = "Running" /\ ~InBatch'
  BY <1>0, <1>2, <1>3 DEF ControlInv, Waiting, InBatch
<1>6. ControlInv'
  BY <1>0, <1>2, <1>3, <1>5 DEF ControlInv, cursor
<1>7. LogInv'
  BY <1>0, <1>1, <1>2, <1>3, <1>4, <1>5, LogKept DEF Terminals
<1>8. BatchInv' /\ DecisionInv'
  BY <1>3, <1>5 DEF BatchInv, DecisionInv
<1>9. ExecutedInv'
  BY <1>0, <1>1, <1>2, <1>4, ExecutedKept DEF config
<1>10. RequestsIn(log', turn.id) = RequestsIn(log, turn.id)
  BY <1>0, <1>1, <1>3, RequestsKept DEF SpineTypeOK
<1>11. BudgetInv' /\ LateInv'
  BY <1>0, <1>2, <1>3, <1>10 DEF BudgetInv, LateInv, config
<1> QED
  BY <1>1, <1>6, <1>7, <1>8, <1>9, <1>11 DEF SpineIInv
(* The model asks for tools: a batch at its first call, none of it run.    *)
LEMMA CallsInv ==
  ASSUME SpineIInv, NEW b \in Batches, ModelCallsTools(b)
  PROVE  SpineIInv'
<1>0. SpineTypeOK /\ ControlInv /\ LogInv /\ BatchInv /\ DecisionInv /\ ExecutedInv
      /\ BudgetInv /\ LateInv
  BY DEF SpineIInv
<1>1. SpineTypeOK'
  BY <1>0, ModelTypes
<1>2. /\ UNCHANGED <<config, state, turn, pending, next_turn_id, cancelled, executed, granted, late>>
      /\ batch' = b /\ index' = 1 /\ start' = 0 /\ pc = "model"
  BY DEF ModelCallsTools, history
<1>3. /\ b \in Seq(Calls) /\ Len(b) \in Nat
      /\ \A i, j \in DOMAIN b : b[i] = b[j] => i = j
  BY DEF Batches
<1>4. /\ Extends(log, log') /\ pc' \in {"failed", "tools"}
      /\ \A i \in Added(log, log') :
           /\ log'[i].turn = turn.id /\ log'[i].round = turn.round
           /\ log'[i].kind \in {"ModelResponded", "ToolCallsRequested"}
           /\ log'[i].calls = b
  <2>1. /\ Event("ModelResponded", b) \in Record
        /\ Event("ToolCallsRequested", b) \in Record
    BY <1>0, <1>3, EventIsRecord DEF Kinds, Event, SpineTypeOK
  <2>2. RecordThen(<<Event("ModelResponded", b), Event("ToolCallsRequested", b)>>, "tools")
    BY DEF ModelCallsTools
  <2>3. /\ Extends(log, log') /\ pc' \in {"tools", "failed"}
        /\ \A i \in Added(log, log') :
             \/ log'[i] = Event("ModelResponded", b)
             \/ log'[i] = Event("ToolCallsRequested", b)
    BY <1>0, <2>1, <2>2, TwoExtends, Zenon
  <2> QED
    BY <2>3 DEF Event, EventOf
<1>5. Continues
  BY <1>0, <1>2, <1>4 DEF Continues, SpineTypeOK, Trackers
<1>6. ~Waiting /\ ~Waiting' /\ state = "Running" /\ state' = "Running" /\ ~InBatch
  BY <1>0, <1>2 DEF ControlInv, Waiting, InBatch
<1>7. ControlInv'
  BY <1>0, <1>2, <1>4, <1>6 DEF ControlInv
<1>8. LogInv'
  BY <1>0, <1>1, <1>2, <1>4, <1>5, <1>6, LogKept DEF Terminals
<1>9. BatchInv'
  <2>1. log \in Seq(Record) /\ log' \in Seq(Record)
    BY <1>0, <1>1 DEF SpineTypeOK
  <2>2. ResultsIn(log', turn.id, turn.round) = {}
    BY <1>0, <1>2, <1>4, <2>1, OldOrAdded DEF BatchInv, ResultsIn, Of, Extends
  <2>3. BatchAt(log', executed', turn', batch', index')
    <3>1. RanBefore(executed', turn'.round, batch', index')
      <4>1. \A i \in DOMAIN executed : executed[i].round < turn.round
        BY <1>0, <1>2 DEF BatchInv
      <4>2. turn.round \in Nat
        BY <1>0 DEF SpineTypeOK, Trackers
      <4> QED
        BY <1>2, <4>1, <4>2 DEF RanBefore
    <3>2. \A i \in DOMAIN log' : Of(log'[i], "ModelResponded", turn.id, turn.round) =>
                                   log'[i].calls = b
      BY <1>0, <1>2, <1>4, <2>1, OldOrAdded DEF BatchInv, Extends
    <3>3. Cardinality({}) = 0 /\ InOrder(log', b, {})
      BY FS_EmptySet DEF InOrder
    <3>4. RecordedBefore(log', turn.id, turn.round, b, 1)
      BY <2>2, <3>2, <3>3 DEF RecordedBefore
    <3> QED
      BY <1>2, <1>3, <3>1, <3>4 DEF BatchAt
  <2>4. ASSUME NEW i \in DOMAIN log', log'[i].kind = "ModelResponded", log'[i].turn = turn.id
        PROVE  \/ log'[i].round = turn.round
               \/ Answered(log', turn.id, log'[i].round, log'[i].calls)
    <3>1. CASE i \in DOMAIN log
      <4>1. log'[i] = log[i]
        BY <1>4, <3>1 DEF Extends
      <4>2. Answered(log, turn.id, log[i].round, log[i].calls)
        BY <1>0, <1>2, <1>6, <2>4, <3>1, <4>1 DEF BatchInv
      <4>3. \A r : \A j \in Added(log, log') : ~Of(log'[j], "ToolResultRecorded", turn.id, r)
        BY <1>4 DEF Of
      <4> QED
        BY <1>4, <2>1, <4>1, <4>2, <4>3, ResultsKept
    <3> QED
      BY <1>4, <2>1, <3>1, OldOrAdded
  <2> QED
    BY <1>2, <1>4, <1>6, <2>3, <2>4 DEF BatchInv, InBatch
<1>10. DecisionInv'
  BY <1>2, <1>4, <1>6 DEF DecisionInv
<1>11. ExecutedInv'
  BY <1>0, <1>1, <1>2, <1>5, ExecutedKept DEF config
<1>12. RequestsIn(log', turn.id) = RequestsIn(log, turn.id)
  BY <1>0, <1>1, <1>4, RequestsKept DEF SpineTypeOK
<1>13. BudgetInv' /\ LateInv'
  BY <1>0, <1>2, <1>4, <1>12 DEF BudgetInv, LateInv, config
<1> QED
  BY <1>1, <1>7, <1>8, <1>9, <1>10, <1>11, <1>13 DEF SpineIInv

(* A call is counted.                                                      *)
LEMMA ChargedInv ==
  ASSUME SpineIInv, ToolCharged
  PROVE  SpineIInv'
<1>0. SpineTypeOK /\ ControlInv /\ LogInv /\ BatchInv /\ DecisionInv /\ ExecutedInv
      /\ BudgetInv /\ LateInv
  BY DEF SpineIInv
<1>1. SpineTypeOK'
  BY <1>0, BatchPlace, ToolTypes DEF ToolCharged
<1>2. /\ UNCHANGED <<config, state, cursor, pending, next_turn_id, log, cancelled, executed, granted, late>>
      /\ turn' = [turn EXCEPT !.tools = @ + 1] /\ turn.tools < budget.tools
      /\ pc = "tools" /\ pc' = "call" /\ index <= Len(batch) /\ ~cancelled
  BY DEF ToolCharged, history
<1>3. /\ turn'.id = turn.id /\ turn'.mode = turn.mode /\ turn'.round = turn.round
      /\ turn'.models = turn.models /\ turn'.tools = turn.tools + 1
      /\ turn.round \in Nat /\ turn.tools \in Nat
  BY <1>0, <1>2 DEF SpineTypeOK, Trackers
<1>4. Extends(log, log') /\ Added(log, log') = {}
  BY <1>0, <1>2, SameExtends DEF SpineTypeOK
<1>5. Continues
  BY <1>3, <1>4 DEF Continues
<1>6. ~Waiting /\ ~Waiting' /\ state = "Running" /\ state' = "Running"
  BY <1>0, <1>2 DEF ControlInv, Waiting
<1>7. ControlInv'
  BY <1>0, <1>2, <1>3, <1>6 DEF ControlInv, cursor
<1>8. LogInv'
  BY <1>0, <1>1, <1>2, <1>4, <1>5, <1>6, LogKept
<1>9. BatchInv'
  BY <1>0, <1>1, <1>2, <1>3, <1>4, <1>5, BatchKept DEF InBatch, cursor
<1>10. DecisionInv'
  BY <1>0, <1>2, <1>3, <1>6 DEF DecisionInv, cursor, Asked
<1>11. ExecutedInv'
  BY <1>0, <1>1, <1>2, <1>5, ExecutedKept DEF config
<1>12. BudgetInv'
  <2>1. budget.tools \in Nat /\ Len(executed) \in Nat
    BY <1>0, SpineAssumption DEF SpineTypeOK
  <2> QED
    BY <1>0, <1>2, <1>3, <2>1 DEF BudgetInv, config
<1>13. LateInv'
  BY <1>0, <1>2 DEF LateInv, SpineTypeOK
<1> QED
  BY <1>1, <1>7, <1>8, <1>9, <1>10, <1>11, <1>12, <1>13 DEF SpineIInv

(* The request for a decision is recorded.                                 *)
LEMMA AsksInv ==
  ASSUME SpineIInv, ToolAsks
  PROVE  SpineIInv'
<1>0. SpineTypeOK /\ ControlInv /\ LogInv /\ BatchInv /\ DecisionInv /\ ExecutedInv
      /\ BudgetInv /\ LateInv
  BY DEF SpineIInv
<1>1. SpineTypeOK'
  BY <1>0, BatchPlace, ToolTypes
<1>2. /\ UNCHANGED <<config, state, turn, cursor, pending, next_turn_id, cancelled,
                     executed, granted, late>>
      /\ pc = "call" /\ Outcome = "AwaitingApproval"
  BY DEF ToolAsks, history
<1>3. /\ Extends(log, log') /\ pc' \in {"suspend", "failed"}
      /\ \A i \in Added(log, log') : log'[i] = Event("ToolApprovalRequested", <<Call>>)
      /\ pc' = "suspend" => LastAsks(log', turn, Call)
  <2>1. Call \in Calls /\ <<Call>> \in Seq(Calls)
    BY <1>0, <1>2, BatchPlace DEF Call, SpineTypeOK
  <2>2. Event("ToolApprovalRequested", <<Call>>) \in Record
    BY <1>0, <2>1, EventIsRecord DEF Kinds, Event, SpineTypeOK
  <2>3. RecordThen(<<Event("ToolApprovalRequested", <<Call>>)>>, "suspend")
    BY DEF ToolAsks
  <2>4. /\ Extends(log, log')
        /\ \A i \in Added(log, log') :
             i = Len(log') /\ log'[i] = Event("ToolApprovalRequested", <<Call>>)
        /\ \/ pc' = "suspend" /\ Len(log') = Len(log) + 1
              /\ log'[Len(log')] = Event("ToolApprovalRequested", <<Call>>)
           \/ pc' = "failed" /\ log' = log
    BY <1>0, <2>2, <2>3, OneExtends, Zenon
  <2>5. Len(log) \in Nat
    BY <1>0 DEF SpineTypeOK
  <2> QED
    BY <2>4, <2>5 DEF LastAsks, Event
<1>4. \A i \in Added(log, log') : /\ log'[i].kind = "ToolApprovalRequested"
                                  /\ log'[i].turn = turn.id /\ log'[i].round = turn.round
  BY <1>3 DEF Event, EventOf
<1>5. turn.mode = "ApprovalAware"
  BY <1>0, <1>2 DEF Outcome, SpineTypeOK, Trackers, Modes
<1>6. Continues
  BY <1>0, <1>2, <1>3, <1>4 DEF Continues, SpineTypeOK, Trackers
<1>7. ~Waiting /\ ~Waiting' /\ state = "Running" /\ state' = "Running"
  BY <1>0, <1>2 DEF ControlInv, Waiting
<1>8. ControlInv'
  BY <1>0, <1>2, <1>3, <1>5, <1>7 DEF ControlInv, cursor
<1>9. LogInv'
  BY <1>0, <1>1, <1>2, <1>4, <1>6, <1>7, LogKept DEF Terminals
<1>10. BatchInv'
  BY <1>0, <1>1, <1>2, <1>3, <1>4, <1>6, BatchKept DEF InBatch, cursor
<1>11. DecisionInv'
  BY <1>2, <1>3, <1>7 DEF DecisionInv, cursor, Call
<1>12. ExecutedInv'
  BY <1>0, <1>1, <1>2, <1>6, ExecutedKept DEF config
<1>13. RequestsIn(log', turn.id) = RequestsIn(log, turn.id)
  BY <1>0, <1>1, <1>3, <1>4, RequestsKept DEF SpineTypeOK
<1>14. BudgetInv' /\ LateInv'
  BY <1>0, <1>2, <1>3, <1>13 DEF BudgetInv, LateInv, config
<1> QED
  BY <1>1, <1>8, <1>9, <1>10, <1>11, <1>12, <1>14 DEF SpineIInv
(* One result more, at the end of the log: it answers the next call.       *)
LEMMA ResultAdded ==
  ASSUME NEW l \in Seq(Record), NEW m \in Seq(Record), Extends(l, m), NEW t, NEW r,
         NEW b, NEW n \in Nat \ {0}, RecordedBefore(l, t, r, b, n),
         \A i \in Added(l, m) : m[i].kind # "ModelResponded",
         Len(m) \in Added(l, m), Of(m[Len(m)], "ToolResultRecorded", t, r),
         m[Len(m)].calls = <<b[n]>>,
         \A i \in Added(l, m) : Of(m[i], "ToolResultRecorded", t, r) => i = Len(m)
  PROVE  RecordedBefore(m, t, r, b, n + 1)
<1> DEFINE R == ResultsIn(l, t, r)
           last == Len(m)
<1>0. /\ \A i \in DOMAIN l : i \in DOMAIN m /\ m[i] = l[i] /\ i \in Nat /\ i < last
      /\ last \in DOMAIN m /\ last \notin DOMAIN l /\ last \in Nat
  BY LogTypes DEF Added, Extends
<1>1. ResultsIn(m, t, r) = R \cup {last} /\ last \notin R
  BY <1>0, OldOrAdded DEF ResultsIn
<1>2. IsFiniteSet(R) /\ Cardinality(R) = n - 1
  BY PositionsFinite DEF ResultsIn, RecordedBefore
<1>3. Cardinality(R \cup {last}) = n
  <2>1. Cardinality(R \cup {last}) = IF last \in R THEN Cardinality(R) ELSE Cardinality(R) + 1
    BY <1>2, FS_AddElement, Zenon
  <2> QED
    BY <1>1, <1>2, <2>1
<1>4. ASSUME NEW i \in R \cup {last}
      PROVE  m[i].calls = <<b[Cardinality({k \in R \cup {last} : k <= i})]>>
  <2>1. CASE i = last
    <3>1. {k \in R \cup {last} : k <= last} = R \cup {last}
      BY <1>0 DEF ResultsIn
    <3> QED
      BY <1>3, <2>1, <3>1
  <2>2. CASE i \in R
    <3>1. {k \in R \cup {last} : k <= i} = {k \in R : k <= i} /\ m[i] = l[i]
      BY <1>0, <2>2 DEF ResultsIn
    <3>2. l[i].calls = <<b[Cardinality({k \in R : k <= i})]>>
      BY <2>2 DEF RecordedBefore, InOrder
    <3> QED
      BY <3>1, <3>2
  <2> QED
    BY <2>1, <2>2
<1>5. InOrder(m, b, ResultsIn(m, t, r))
  BY <1>1, <1>4 DEF InOrder
<1>6. \A i \in DOMAIN m : Of(m[i], "ModelResponded", t, r) => m[i].calls = b
  BY <1>0, OldOrAdded DEF RecordedBefore, Of
<1> QED
  BY <1>1, <1>3, <1>5, <1>6 DEF RecordedBefore

(* The records of a call that is over.                                     *)
LEMMA ReturnRecords ==
  ASSUME SpineTypeOK, Call \in Calls, ToolReturns
  PROVE  /\ Extends(log, log') /\ pc' \in {"tools", "failed"}
         /\ \A i \in Added(log, log') :
              /\ log'[i].turn = turn.id /\ log'[i].round = turn.round
              /\ \/ log'[i].kind = "ToolApprovalResolved"
                 \/ log'[i].kind = "ToolResultRecorded" /\ i = Len(log')
         /\ pc' = "tools" => /\ Len(log') \in Added(log, log')
                             /\ log'[Len(log')] = Event("ToolResultRecorded", <<Call>>)
<1> DEFINE resolved == Event("ToolApprovalResolved", <<Call>>)
           result == Event("ToolResultRecorded", <<Call>>)
<1>1. /\ resolved \in Record /\ result \in Record
  <2>1. <<Call>> \in Seq(Calls) /\ turn \in Trackers
    BY DEF SpineTypeOK
  <2> QED
    BY <2>1, EventIsRecord DEF Kinds, Event
<1>2. /\ resolved.kind = "ToolApprovalResolved" /\ result.kind = "ToolResultRecorded"
      /\ resolved.turn = turn.id /\ resolved.round = turn.round
      /\ result.turn = turn.id /\ result.round = turn.round
  BY DEF Event, EventOf
<1>3. RecordThen(ReturnEvents, "tools") /\ Len(log) \in Nat
  BY ReturnAdds DEF SpineTypeOK
<1>4. CASE index = start
  <2>1. RecordThen(<<resolved, result>>, "tools")
    <3>1. ReturnEvents = <<resolved>> \o <<result>>
      BY <1>4 DEF ReturnEvents
    <3>2. <<resolved>> \o <<result>> = <<resolved, result>>
      BY <1>1, TwoInARow, Zenon
    <3> QED
      BY <1>3, <3>1, <3>2, Zenon
  <2>2. /\ Extends(log, log') /\ log' \in Seq(Record)
        /\ pc' \in {"tools", "failed"}
        /\ \A i \in Added(log, log') :
             \/ i = Len(log) + 1 /\ log'[i] = resolved
             \/ i = Len(log') /\ pc' = "tools" /\ log'[i] = result
        /\ \/ /\ pc' = "tools"
              /\ Len(log') = Len(log) + 2
              /\ log'[Len(log) + 1] = resolved /\ log'[Len(log) + 2] = result
           \/ pc' = "failed"
    BY <1>1, <2>1, TwoExtends, Zenon
  <2>3. pc' = "tools" => /\ Len(log') \in Added(log, log')
                         /\ log'[Len(log')] = result
    BY <1>3, <2>2 DEF Added
  <2> QED
    BY <1>2, <2>2, <2>3
<1>5. CASE index # start
  <2>1. RecordThen(<<result>>, "tools")
    BY <1>3, <1>5 DEF ReturnEvents
  <2>2. /\ Extends(log, log') /\ log' \in Seq(Record)
        /\ \A i \in Added(log, log') : i = Len(log') /\ log'[i] = result
        /\ \/ pc' = "tools" /\ Len(log') = Len(log) + 1 /\ log'[Len(log')] = result
           \/ pc' = "failed" /\ log' = log
    BY <1>1, <2>1, OneExtends, Zenon
  <2>3. pc' = "tools" => Len(log') \in Added(log, log')
    BY <1>3, <2>2 DEF Added
  <2> QED
    BY <1>2, <2>2, <2>3
<1> QED
  BY <1>4, <1>5

(* A call that ran was permitted, and had not run before.                  *)
LEMMA ReturnsExecuted ==
  ASSUME SpineIInv, SpineTypeOK', ToolReturns, Continues
  PROVE  ExecutedInv'
<1> DEFINE run == [round |-> turn.round, call |-> Call]
<1>0. /\ SpineTypeOK /\ BatchInv /\ DecisionInv /\ ExecutedInv
      /\ UNCHANGED <<turn, wrapped, granted>> /\ pc = "call"
  BY DEF SpineIInv, ToolReturns, ToolEnds, config
<1>1. CASE Outcome # "Executed"
  <2>1. executed' = executed
    BY <1>1 DEF ToolReturns, ToolEnds
  <2> QED
    BY <1>0, <2>1, ExecutedKept
<1>2. CASE Outcome = "Executed"
  <2>1. executed' = Append(executed, run)
    BY <1>2 DEF ToolReturns, ToolEnds
  <2>2. /\ executed \in Seq(RunCalls) /\ Len(executed) \in Nat
        /\ turn.id \in Nat /\ turn.round \in Nat /\ turn.mode \in Modes
    BY <1>0 DEF SpineTypeOK, Trackers
  <2>3. /\ index \in 1 .. Len(batch) /\ Call \in Calls /\ run \in RunCalls
    BY <1>0, <2>2, BatchPlace DEF Call, SpineTypeOK, RunCalls
  <2>4. /\ Len(executed') = Len(executed) + 1
        /\ \A i \in 1 .. Len(executed) : executed'[i] = executed[i]
        /\ executed'[Len(executed) + 1] = run
    BY <2>1, <2>2, <2>3, AppendProperties
  <2>5. Permitted(log, turn, ~wrapped, granted, run)
    <3>1. CASE turn.mode = "Legacy"
      BY <1>2, <3>1 DEF Outcome, Permitted
    <3>2. CASE turn.mode = "ApprovalAware" /\ index = start
      <4>1. Matches(approval, turn.round, Call) /\ approval.approved
        BY <1>2, <3>2 DEF Outcome
      <4>2. /\ Asked(log, turn, batch[index])
            /\ [round |-> approval.round, call |-> approval.call] \in granted
        BY <1>0, <3>2, <4>1 DEF DecisionInv
      <4> QED
        BY <3>2, <4>1, <4>2 DEF Permitted, Asked, Matches, Call
    <3>3. CASE turn.mode = "ApprovalAware" /\ index # start
      BY <1>2, <3>3 DEF Outcome, Permitted
    <3> QED
      BY <2>2, <3>1, <3>2, <3>3 DEF Modes
  <2>6. \A i \in DOMAIN executed : executed[i] # run
    <3>1. BatchAt(log, executed, turn, batch, index)
      BY <1>0 DEF BatchInv, InBatch
    <3>2. ASSUME NEW i \in DOMAIN executed, executed[i] = run
          PROVE  FALSE
      <4>1. PICK k \in 1 .. index - 1 : executed[i].call = batch[k]
        BY <3>1, <3>2 DEF BatchAt, RanBefore
      <4>2. batch[k] = batch[index] /\ k \in DOMAIN batch /\ index \in DOMAIN batch /\ k # index
        BY <1>0, <2>3, <3>2, <4>1 DEF Call, SpineTypeOK
      <4> QED
        BY <3>1, <4>2 DEF BatchAt
    <3> QED
      BY <3>2
  <2>7. /\ \A c : Permitted(log, turn, ~wrapped, granted, c) =>
              Permitted(log', turn', ~wrapped', granted', c)
    <3>1. \A i \in DOMAIN log : i \in DOMAIN log' /\ log'[i] = log[i]
      BY DEF Continues, Extends
    <3> QED
      BY <1>0, <3>1 DEF Permitted
  <2>8. DOMAIN executed = 1 .. Len(executed) /\ DOMAIN executed' = 1 .. Len(executed) + 1
    BY <2>2, <2>4 DEF SpineTypeOK
  <2>9. ASSUME NEW i \in DOMAIN executed'
        PROVE  /\ executed'[i].round <= turn'.round
               /\ Permitted(log', turn', ~wrapped', granted', executed'[i])
    <3>1. CASE i \in DOMAIN executed
      BY <1>0, <2>4, <2>7, <2>8, <3>1 DEF ExecutedInv
    <3>2. CASE i = Len(executed) + 1
      BY <1>0, <2>2, <2>4, <2>5, <2>7, <3>2
    <3> QED
      BY <2>2, <2>8, <3>1, <3>2
  <2>10. RunsAtMostOnce'
    <3>1. ASSUME NEW i \in DOMAIN executed', NEW j \in DOMAIN executed', executed'[i] = executed'[j]
          PROVE  i = j
      BY <1>0, <2>2, <2>4, <2>6, <2>8, <3>1 DEF ExecutedInv, RunsAtMostOnce
    <3> QED
      BY <3>1 DEF RunsAtMostOnce
  <2> QED
    BY <2>9, <2>10 DEF ExecutedInv
<1> QED
  BY <1>1, <1>2

LEMMA ReturnsInv ==
  ASSUME SpineIInv, ToolReturns
  PROVE  SpineIInv'
<1>0. SpineTypeOK /\ ControlInv /\ LogInv /\ BatchInv /\ DecisionInv /\ ExecutedInv
      /\ BudgetInv /\ LateInv
  BY DEF SpineIInv
<1>1. SpineTypeOK'
  BY <1>0, BatchPlace, ToolTypes DEF ToolReturns, ToolEnds
<1>2. /\ UNCHANGED <<config, state, turn, batch, start, approval, pending, next_turn_id,
                     cancelled, granted>>
      /\ pc = "call" /\ index' = index + 1
      /\ executed' = IF Outcome = "Executed"
                     THEN Append(executed, [round |-> turn.round, call |-> Call])
                     ELSE executed
      /\ late' = IF Outcome = "Executed" /\ cancelled THEN late + 1 ELSE late
  BY DEF ToolReturns, ToolEnds
<1>3. /\ index \in 1 .. Len(batch) /\ Len(batch) \in Nat
      /\ Call \in Calls /\ Call = batch[index]
      /\ turn.id \in Nat /\ turn.round \in Nat
  BY <1>0, <1>2, BatchPlace DEF Call, SpineTypeOK, Trackers
<1>4. /\ Extends(log, log') /\ pc' \in {"tools", "failed"}
      /\ \A i \in Added(log, log') :
           /\ log'[i].turn = turn.id /\ log'[i].round = turn.round
           /\ \/ log'[i].kind = "ToolApprovalResolved"
              \/ log'[i].kind = "ToolResultRecorded" /\ i = Len(log')
      /\ pc' = "tools" => /\ Len(log') \in Added(log, log')
                          /\ log'[Len(log')] = Event("ToolResultRecorded", <<Call>>)
  BY <1>0, <1>3, ReturnRecords
<1>5. Continues
  BY <1>2, <1>3, <1>4 DEF Continues
<1>6. ~Waiting /\ ~Waiting' /\ state = "Running" /\ state' = "Running"
  BY <1>0, <1>2 DEF ControlInv, Waiting
<1>7. ControlInv'
  <2>1. start' <= index'
    BY <1>0, <1>2, <1>3 DEF ControlInv, SpineTypeOK
  <2> QED
    BY <1>0, <1>2, <1>4, <1>6, <2>1 DEF ControlInv
<1>8. LogInv'
  BY <1>0, <1>1, <1>2, <1>4, <1>5, <1>6, LogKept DEF Terminals
<1>9. BatchInv'
  <2>1. log \in Seq(Record) /\ log' \in Seq(Record)
    BY <1>0, <1>1 DEF SpineTypeOK
  <2>2. BatchAt(log, executed, turn, batch, index)
    BY <1>0, <1>2 DEF BatchInv, InBatch
  <2>3. ASSUME pc' = "tools"
        PROVE  BatchAt(log', executed', turn', batch', index')
    <3>1. RanBefore(executed', turn.round, batch, index + 1)
      <4>1. RanBefore(executed, turn.round, batch, index + 1)
        BY <1>3, <2>2 DEF BatchAt, RanBefore
      <4>2. index \in 1 .. (index + 1) - 1 /\ executed \in Seq(RunCalls)
        BY <1>0, <1>3 DEF SpineTypeOK
      <4>3. CASE Outcome = "Executed"
        <5> DEFINE run == [round |-> turn.round, call |-> Call]
        <5>1. executed' = Append(executed, run) /\ run \in RunCalls /\ run.call = batch[index]
          BY <1>2, <1>3, <4>3 DEF RunCalls
        <5>2. /\ Len(executed') = Len(executed) + 1 /\ Len(executed) \in Nat
              /\ DOMAIN executed' = 1 .. Len(executed) + 1
              /\ DOMAIN executed = 1 .. Len(executed)
              /\ \A i \in 1 .. Len(executed) : executed'[i] = executed[i]
              /\ executed'[Len(executed) + 1] = run
          BY <4>2, <5>1, AppendProperties
        <5>3. ASSUME NEW i \in DOMAIN executed', executed'[i].round = turn.round
              PROVE  \E k \in 1 .. (index + 1) - 1 : executed'[i].call = batch[k]
          <6>1. CASE i \in DOMAIN executed
            BY <4>1, <5>2, <5>3, <6>1 DEF RanBefore
          <6>2. CASE i = Len(executed) + 1
            BY <4>2, <5>1, <5>2, <6>2
          <6> QED
            BY <5>2, <6>1, <6>2
        <5> QED
          BY <5>3 DEF RanBefore
      <4> QED
        BY <1>2, <4>1, <4>3
    <3>2. /\ Of(log'[Len(log')], "ToolResultRecorded", turn.id, turn.round)
          /\ log'[Len(log')].calls = <<batch[index]>>
          /\ Len(log') \in Added(log, log')
      BY <1>3, <1>4, <2>3 DEF Of, Event, EventOf
    <3>3. RecordedBefore(log', turn.id, turn.round, batch, index + 1)
      <4>1. RecordedBefore(log, turn.id, turn.round, batch, index)
        BY <2>2 DEF BatchAt
      <4>2. /\ \A i \in Added(log, log') : log'[i].kind # "ModelResponded"
            /\ \A i \in Added(log, log') :
                 Of(log'[i], "ToolResultRecorded", turn.id, turn.round) => i = Len(log')
            /\ index \in Nat \ {0}
        BY <1>3, <1>4 DEF Of
      <4> QED
        BY <1>4, <2>1, <3>2, <4>1, <4>2, ResultAdded
    <3>4. index + 1 \in 1 .. Len(batch) + 1
      BY <1>3
    <3> QED
      BY <1>2, <2>2, <3>1, <3>3, <3>4 DEF BatchAt
  <2>4. ASSUME NEW i \in DOMAIN log', log'[i].kind = "ModelResponded", log'[i].turn = turn.id
        PROVE  \/ log'[i].round = turn.round
               \/ Answered(log', turn.id, log'[i].round, log'[i].calls)
    <3>1. i \in DOMAIN log /\ log'[i] = log[i]
      BY <1>4, <2>1, <2>4, OldOrAdded DEF Extends
    <3>2. \/ log[i].round = turn.round
          \/ Answered(log, turn.id, log[i].round, log[i].calls)
      BY <1>0, <1>2, <2>4, <3>1 DEF BatchInv
    <3>3. CASE log[i].round # turn.round
      <4>1. \A j \in Added(log, log') : ~Of(log'[j], "ToolResultRecorded", turn.id, log[i].round)
        BY <1>4, <3>3 DEF Of
      <4> QED
        BY <1>4, <2>1, <3>1, <3>2, <3>3, <4>1, ResultsKept
    <3> QED
      BY <3>1, <3>2, <3>3
  <2> QED
    BY <1>2, <1>4, <1>6, <2>3, <2>4 DEF BatchInv, InBatch
<1>10. DecisionInv'
  <2>1. start' # index'
    BY <1>0, <1>2, <1>3 DEF ControlInv, SpineTypeOK
  <2> QED
    BY <1>4, <1>6, <2>1 DEF DecisionInv
<1>11. ExecutedInv'
  BY <1>1, <1>5, ReturnsExecuted
<1>12. RequestsIn(log', turn.id) = RequestsIn(log, turn.id)
  BY <1>0, <1>1, <1>4, RequestsKept DEF SpineTypeOK
<1>13. BudgetInv'
  <2>1. Len(executed') <= turn.tools
    <3>1. turn.tools \in Nat /\ executed \in Seq(RunCalls) /\ Len(executed) \in Nat
      BY <1>0 DEF SpineTypeOK, Trackers
    <3>2. Len(Append(executed, [round |-> turn.round, call |-> Call])) = Len(executed) + 1
      BY <1>3, <3>1 DEF RunCalls
    <3> QED
      BY <1>0, <1>2, <3>1, <3>2 DEF BudgetInv
  <2> QED
    BY <1>0, <1>2, <1>4, <1>12, <2>1 DEF BudgetInv, config
<1>14. LateInv'
  BY <1>0, <1>2, <1>4 DEF LateInv, SpineTypeOK
<1> QED
  BY <1>1, <1>7, <1>8, <1>9, <1>10, <1>11, <1>13, <1>14 DEF SpineIInv
(* The batch is over: it is answered.                                      *)
LEMMA DoneInv ==
  ASSUME SpineIInv, BatchDone
  PROVE  SpineIInv'
<1>0. SpineTypeOK /\ ControlInv /\ LogInv /\ BatchInv /\ DecisionInv /\ ExecutedInv
      /\ BudgetInv /\ LateInv
  BY DEF SpineIInv
<1>1. SpineTypeOK'
  BY <1>0, BatchPlace, ToolTypes DEF BatchDone
<1>2. /\ UNCHANGED <<config, state, turn, batch, index, pending, next_turn_id, log,
                     cancelled, executed, granted, late>>
      /\ pc = "tools" /\ index > Len(batch) /\ pc' = "loop" /\ start' = 0
  BY DEF BatchDone, history
<1>3. ~Waiting /\ ~Waiting' /\ state = "Running" /\ state' = "Running" /\ InBatch /\ ~InBatch'
  BY <1>0, <1>2 DEF ControlInv, Waiting, InBatch
<1>4. ControlInv'
  BY <1>0, <1>2, <1>3 DEF ControlInv, SpineTypeOK
<1>5. LogInv'
  BY <1>0, <1>2, <1>3 DEF LogInv, TerminalIsLast
<1>6. BatchInv'
  <2>1. BatchAt(log, executed, turn, batch, index) /\ index = Len(batch) + 1
    BY <1>0, <1>2, <1>3 DEF BatchInv, BatchAt, SpineTypeOK
  <2>2. Len(batch) \in Nat
    BY <1>0 DEF SpineTypeOK
  <2>3. Answered(log, turn.id, turn.round, batch)
    BY <2>1, <2>2 DEF BatchAt, RecordedBefore, Answered
  <2>4. ASSUME NEW i \in DOMAIN log, log[i].kind = "ModelResponded", log[i].turn = turn.id
        PROVE  Answered(log, turn.id, log[i].round, log[i].calls)
    <3>1. CASE log[i].round = turn.round
      <4>1. log[i].calls = batch
        BY <2>1, <2>4, <3>1 DEF BatchAt, RecordedBefore, Of
      <4> QED
        BY <2>3, <3>1, <4>1
    <3>2. CASE log[i].round # turn.round
      BY <1>0, <1>2, <2>4, <3>2 DEF BatchInv
    <3> QED
      BY <3>1, <3>2
  <2> QED
    BY <1>2, <1>3, <2>4 DEF BatchInv
<1>7. DecisionInv'
  BY <1>2, <1>3 DEF DecisionInv
<1>8. ExecutedInv'
  BY <1>0, <1>2 DEF ExecutedInv, RunsAtMostOnce, Permitted, config
<1>9. BudgetInv' /\ LateInv'
  BY <1>0, <1>2 DEF BudgetInv, LateInv, config
<1> QED
  BY <1>1, <1>4, <1>5, <1>6, <1>7, <1>8, <1>9 DEF SpineIInv

(* The method returns: the turn waits, ...                                 *)
LEMMA SuspendInv ==
  ASSUME SpineIInv, Suspend
  PROVE  SpineIInv'
<1>0. SpineTypeOK /\ ControlInv /\ LogInv /\ BatchInv /\ DecisionInv /\ ExecutedInv
      /\ BudgetInv /\ LateInv
  BY DEF SpineIInv
<1>1. SpineTypeOK'
  BY <1>0, BatchPlace, ToolTypes DEF Suspend
<1>2. /\ UNCHANGED <<config, turn, next_turn_id, log, executed, granted>>
      /\ pc = "suspend" /\ pc' = "idle" /\ state' = "AwaitingApproval"
      /\ pending' = [turn |-> turn, batch |-> batch, index |-> index]
      /\ index' = 1 /\ start' = 0 /\ late' = 0
  BY DEF Suspend, Returns
<1>3. /\ pending'.turn = turn /\ pending'.batch = batch /\ pending'.index = index
  BY <1>2
<1>4. state = "Running" /\ turn.mode = "ApprovalAware" /\ index <= Len(batch)
  BY <1>0, <1>2 DEF ControlInv
<1>5. ControlInv'
  BY <1>0, <1>2, <1>3, <1>4 DEF ControlInv
<1>6. LogInv'
  BY <1>0, <1>2, <1>4 DEF LogInv, TerminalIsLast
<1>7. BatchInv'
  BY <1>0, <1>2, <1>3 DEF BatchInv, InBatch
<1>8. DecisionInv'
  BY <1>0, <1>2, <1>3 DEF DecisionInv
<1>9. ExecutedInv'
  BY <1>0, <1>2 DEF ExecutedInv, RunsAtMostOnce, Permitted, config
<1>10. BudgetInv' /\ LateInv'
  BY <1>0, <1>2 DEF BudgetInv, LateInv, config
<1> QED
  BY <1>1, <1>5, <1>6, <1>7, <1>8, <1>9, <1>10 DEF SpineIInv

(* ... is completed, ...                                                   *)
LEMMA CompleteInv ==
  ASSUME SpineIInv, Complete
  PROVE  SpineIInv'
<1>0. SpineTypeOK /\ ControlInv /\ LogInv /\ BatchInv /\ DecisionInv /\ ExecutedInv
      /\ BudgetInv /\ LateInv
  BY DEF SpineIInv
<1>1. SpineTypeOK'
  BY <1>0, EndTypes
<1>2. /\ UNCHANGED <<config, turn, pending, next_turn_id, log, executed, granted>>
      /\ pc = "completed" /\ pc' = "idle" /\ state' = "Ready"
      /\ index' = 1 /\ start' = 0 /\ late' = 0
  BY DEF Complete, Returns
<1>3. ~Waiting /\ ~Waiting'
  BY <1>0, <1>2 DEF ControlInv, Waiting
<1>4. ControlInv'
  BY <1>0, <1>2, <1>3 DEF ControlInv
<1>5. LogInv'
  BY <1>0, <1>2 DEF LogInv, TerminalIsLast
<1>6. BatchInv' /\ DecisionInv'
  BY <1>2, <1>3 DEF BatchInv, DecisionInv, InBatch
<1>7. ExecutedInv'
  BY <1>0, <1>2 DEF ExecutedInv, RunsAtMostOnce, Permitted, config
<1>8. BudgetInv' /\ LateInv'
  BY <1>0, <1>2 DEF BudgetInv, LateInv, config
<1> QED
  BY <1>1, <1>4, <1>5, <1>6, <1>7, <1>8 DEF SpineIInv

(* The record of a cancellation or a failure, if it is accepted, is the    *)
(* last of its turn.                                                       *)
LEMMA ClosesLog ==
  ASSUME SpineIInv, SpineTypeOK', state # "Ready", pc # "completed",
         NEW kind \in {"TurnCancelled", "TurnFailed"},
         Recorded(<<Event(kind, <<>>)>>) \/ UNCHANGED log,
         state' = "Ready" \/ log' = log, pc' = "idle",
         UNCHANGED <<config, turn, executed, granted>>
  PROVE  LogInv' /\ ExecutedInv' /\ RequestsIn(log', turn.id) = RequestsIn(log, turn.id)
<1>0. SpineTypeOK /\ LogInv /\ ExecutedInv
  BY DEF SpineIInv
<1>1. log \in Seq(Record) /\ log' \in Seq(Record) /\ Len(log) \in Nat
  BY <1>0 DEF SpineTypeOK
<1>2. /\ Extends(log, log')
      /\ \A i \in Added(log, log') : /\ log'[i] = Event(kind, <<>>)
                                     /\ i = Len(log') /\ state' = "Ready"
  <2>1. CASE log' = log
    BY <1>1, <2>1, SameExtends
  <2>2. CASE log' # log
    <3>1. Event(kind, <<>>) \in Record
      BY <1>0, PlainEvent DEF Kinds
    <3>2. /\ <<Event(kind, <<>>)>> \in Seq(Record) /\ Len(<<Event(kind, <<>>)>>) = 1
          /\ <<Event(kind, <<>>)>>[1] = Event(kind, <<>>)
      BY <3>1
    <3>3. Adds(<<Event(kind, <<>>)>>) /\ Len(log') = Len(log) + 1
      BY <1>0, <2>2, <3>2, RecordedAdds
    <3>4. /\ Extends(log, log')
          /\ \A i \in Added(log, log') :
               \E k \in 1 .. 1 : i = Len(log) + k /\ log'[i] = <<Event(kind, <<>>)>>[k]
      BY <1>0, <3>2, <3>3, AddsExtends
    <3>5. ASSUME NEW i \in Added(log, log')
          PROVE  log'[i] = Event(kind, <<>>) /\ i = Len(log')
      <4>1. PICK k \in 1 .. 1 : i = Len(log) + k /\ log'[i] = <<Event(kind, <<>>)>>[k]
        BY <3>4
      <4>2. k = 1
        BY <4>1
      <4> QED
        BY <3>2, <3>3, <4>1, <4>2
    <3> QED
      BY <2>2, <3>4, <3>5
  <2> QED
    BY <2>1, <2>2
<1>3. \A i \in Added(log, log') : /\ log'[i].kind = kind
                                  /\ log'[i].turn = turn.id /\ log'[i].round = turn.round
  BY <1>2 DEF Event, EventOf
<1>4. Continues
  BY <1>0, <1>2, <1>3 DEF Continues, SpineTypeOK, Trackers
<1>5. LogInv'
  BY <1>0, <1>2, <1>4, LogKept
<1>6. ExecutedInv'
  BY <1>0, <1>4, ExecutedKept DEF config
<1>7. RequestsIn(log', turn.id) = RequestsIn(log, turn.id)
  BY <1>1, <1>2, <1>3, RequestsKept
<1> QED
  BY <1>5, <1>6, <1>7

(* ... or is given up.                                                     *)
LEMMA AbandonInv ==
  ASSUME SpineIInv, Abandon
  PROVE  SpineIInv'
<1>0. SpineTypeOK /\ ControlInv /\ LogInv /\ BatchInv /\ DecisionInv /\ ExecutedInv
      /\ BudgetInv /\ LateInv
  BY DEF SpineIInv
<1>1. SpineTypeOK'
  BY <1>0, EndTypes
<1>2. /\ UNCHANGED <<config, turn, next_turn_id, executed, granted>>
      /\ pc \in {"failed", "cancelled"} /\ pc' = "idle" /\ state' = "Ready"
      /\ index' = 1 /\ start' = 0 /\ late' = 0 /\ pending' = NoPending
  BY DEF Abandon, Returns
<1>3. \E kind \in {"TurnCancelled", "TurnFailed"} :
        Recorded(<<Event(kind, <<>>)>>) \/ UNCHANGED log
  BY DEF Abandon
<1>4. state # "Ready" /\ pc # "completed" /\ ~Waiting'
  BY <1>0, <1>2 DEF ControlInv, Waiting
<1>5. LogInv' /\ ExecutedInv' /\ RequestsIn(log', turn.id) = RequestsIn(log, turn.id)
  BY <1>1, <1>2, <1>3, <1>4, ClosesLog
<1>6. ControlInv'
  BY <1>0, <1>2, <1>4 DEF ControlInv
<1>7. BatchInv' /\ DecisionInv'
  BY <1>2, <1>4 DEF BatchInv, DecisionInv, InBatch
<1>8. BudgetInv' /\ LateInv'
  BY <1>0, <1>2, <1>5 DEF BudgetInv, LateInv, config
<1> QED
  BY <1>1, <1>5, <1>6, <1>7, <1>8 DEF SpineIInv----------------------------------------------------------------------------
(* The owner's calls.  A new turn has nothing in the log.                  *)
LEMMA RunInv ==
  ASSUME SpineIInv, NEW mode \in Modes, RunTurn(mode)
  PROVE  SpineIInv'
<1>0. SpineTypeOK /\ ControlInv /\ LogInv /\ BatchInv /\ DecisionInv /\ ExecutedInv
      /\ BudgetInv /\ LateInv
  BY DEF SpineIInv
<1>1. SpineTypeOK'
  BY <1>0, BatchPlace, OwnerTypes DEF Owner
<1>2. /\ UNCHANGED <<config, pending, log>>
      /\ state = "Ready" /\ state' = "Running" /\ pc' = "start"
      /\ turn' = NewTracker(next_turn_id, mode) /\ next_turn_id' = next_turn_id + 1
      /\ index' = 1 /\ start' = 0 /\ executed' = <<>> /\ granted' = {} /\ late' = 0
  BY DEF RunTurn
<1>3. /\ turn'.id = turn.id + 1 /\ turn'.round = 0 /\ turn'.models = 0 /\ turn'.tools = 0
      /\ turn.id \in Nat
  BY <1>0, <1>2 DEF ControlInv, NewTracker, SpineTypeOK, Trackers
<1>4. ~Waiting /\ ~Waiting'
  BY <1>0, <1>2 DEF ControlInv, Waiting
<1>5. ASSUME NEW i \in DOMAIN log
      PROVE  log[i].turn \in Nat /\ log[i].turn < turn'.id
  <2>1. log[i].turn \in Nat /\ log[i].turn <= turn.id
    BY <1>0, LogTypes DEF SpineTypeOK, LogInv
  <2> QED
    BY <1>3, <2>1
<1>6. ControlInv'
  BY <1>0, <1>2, <1>3, <1>4 DEF ControlInv
<1>7. LogInv'
  <2>1. \A i \in DOMAIN log' : log'[i].turn <= turn'.id /\ log'[i].turn # turn'.id
    BY <1>2, <1>3, <1>5
  <2> QED
    BY <1>0, <1>2, <2>1 DEF LogInv, TerminalIsLast
<1>8. BatchInv'
  <2>1. \A i \in DOMAIN log' : log'[i].turn # turn'.id
    BY <1>2, <1>3, <1>5
  <2> QED
    BY <1>2, <1>4, <2>1 DEF BatchInv, InBatch
<1>9. DecisionInv' /\ ExecutedInv' /\ LateInv'
  BY <1>2, <1>4 DEF DecisionInv, ExecutedInv, RunsAtMostOnce, LateInv
<1>10. BudgetInv'
  <2>1. RequestsIn(log', turn'.id) = {}
    BY <1>2, <1>3, <1>5 DEF RequestsIn
  <2>2. Cardinality(RequestsIn(log', turn'.id)) = 0
    BY <2>1, FS_EmptySet
  <2>3. budget.rounds \in Nat /\ budget.models \in Nat /\ budget.tools \in Nat
    BY <1>0, SpineAssumption DEF SpineTypeOK
  <2> QED
    BY <1>2, <1>3, <2>2, <2>3 DEF BudgetInv, config
<1> QED
  BY <1>1, <1>6, <1>7, <1>8, <1>9, <1>10 DEF SpineIInv

LEMMA ResetInv ==
  ASSUME SpineIInv, ResetConversation
  PROVE  SpineIInv'
<1>0. SpineTypeOK /\ ControlInv /\ LogInv /\ BatchInv /\ DecisionInv /\ ExecutedInv
      /\ BudgetInv /\ LateInv
  BY DEF SpineIInv
<1>1. SpineTypeOK'
  BY <1>0, BatchPlace, OwnerTypes DEF Owner
<1>2. /\ UNCHANGED <<config, state, pc, turn, cursor, pending, next_turn_id, cancelled, late>>
      /\ state = "Ready" /\ log' = <<>> /\ executed' = <<>> /\ granted' = {}
  BY DEF ResetConversation
<1>3. ~Waiting /\ ~Waiting' /\ pc = "idle"
  BY <1>0, <1>2 DEF ControlInv, Waiting, SpineTypeOK
<1>4. ControlInv' /\ LateInv'
  BY <1>0, <1>2, <1>3 DEF ControlInv, LateInv, cursor
<1>5. LogInv' /\ BatchInv' /\ DecisionInv' /\ ExecutedInv'
  BY <1>2, <1>3
  DEF LogInv, TerminalIsLast, BatchInv, InBatch, DecisionInv, ExecutedInv, RunsAtMostOnce
<1>6. BudgetInv'
  <2>1. RequestsIn(log', turn'.id) = {}
    BY <1>2 DEF RequestsIn
  <2>2. Cardinality(RequestsIn(log', turn'.id)) = 0 /\ Len(executed') = 0
    BY <1>2, <2>1, FS_EmptySet
  <2>3. turn.models \in Nat /\ turn.tools \in Nat
    BY <1>0 DEF SpineTypeOK, Trackers
  <2> QED
    BY <1>0, <1>2, <1>3, <2>2, <2>3 DEF BudgetInv, config
<1> QED
  BY <1>1, <1>4, <1>5, <1>6 DEF SpineIInv

LEMMA DiscardInv ==
  ASSUME SpineIInv, CancelPendingTurn
  PROVE  SpineIInv'
<1>0. SpineTypeOK /\ ControlInv /\ LogInv /\ BatchInv /\ DecisionInv /\ ExecutedInv
      /\ BudgetInv /\ LateInv
  BY DEF SpineIInv
<1>1. SpineTypeOK'
  BY <1>0, BatchPlace, OwnerTypes DEF Owner
<1>2. /\ UNCHANGED <<config, pc, turn, cursor, next_turn_id, cancelled, executed, granted, late>>
      /\ state = "AwaitingApproval" /\ state' \in {"Ready", "AwaitingApproval"}
      /\ state' = "Ready" \/ log' = log
      /\ Waiting /\ ~Waiting'
  BY DEF CancelPendingTurn, history, Waiting
<1>3. pc = "idle" /\ pending.turn = turn
  BY <1>0, <1>2 DEF ControlInv, SpineTypeOK
<1>4. Recorded(<<Event("TurnCancelled", <<>>)>>) \/ UNCHANGED log
  BY <1>3 DEF CancelPendingTurn, Event
<1>5. LogInv' /\ ExecutedInv' /\ RequestsIn(log', turn.id) = RequestsIn(log, turn.id)
  BY <1>1, <1>2, <1>3, <1>4, ClosesLog
<1>6. ControlInv'
  BY <1>0, <1>2, <1>3 DEF ControlInv, cursor
<1>7. BatchInv' /\ DecisionInv'
  BY <1>2, <1>3 DEF BatchInv, DecisionInv, InBatch
<1>8. BudgetInv' /\ LateInv'
  BY <1>0, <1>2, <1>3, <1>5 DEF BudgetInv, LateInv, config
<1> QED
  BY <1>1, <1>5, <1>6, <1>7, <1>8 DEF SpineIInv

(* The turn goes on at the call that the decision is for.                  *)
LEMMA ApproveInv ==
  ASSUME SpineIInv, NEW d \in Decisions, ApprovePendingTool(d), SpineTypeOK'
  PROVE  SpineIInv'
<1>0. SpineTypeOK /\ ControlInv /\ LogInv /\ BatchInv /\ DecisionInv /\ ExecutedInv
      /\ BudgetInv /\ LateInv
  BY DEF SpineIInv
<1>1. /\ UNCHANGED <<config, next_turn_id, log, executed>>
      /\ state = "AwaitingApproval" /\ state' = "Running" /\ pc' = "tools"
      /\ Waiting /\ ~Waiting'
      /\ turn' = pending.turn /\ batch' = pending.batch
      /\ index' = pending.index /\ start' = pending.index /\ approval' = d
      /\ late' = 0
      /\ granted' = IF d.approved THEN granted \cup {[round |-> d.round, call |-> d.call]}
                    ELSE granted
  BY DEF ApprovePendingTool, Waiting
<1>2. pc = "idle" /\ turn' = turn /\ pending.index <= Len(pending.batch)
  BY <1>0, <1>1 DEF ControlInv, SpineTypeOK
<1>3. pending.index \in Nat
  BY <1>0 DEF SpineTypeOK, PendingTurns
<1>4. ControlInv'
  BY <1>0, <1>1, <1>2, <1>3 DEF ControlInv
<1>5. LogInv'
  BY <1>0, <1>1, <1>2 DEF LogInv, TerminalIsLast
<1>6. BatchInv'
  BY <1>0, <1>1, <1>2 DEF BatchInv, InBatch
<1>7. DecisionInv'
  <2>1. LastAsks(log, turn, pending.batch[pending.index]) /\ Len(log) \in Nat
    BY <1>0, <1>1 DEF DecisionInv, SpineTypeOK
  <2>2. Asked(log, turn, pending.batch[pending.index])
    BY <2>1 DEF LastAsks, Asked, Of, EventOf
  <2> QED
    BY <1>1, <1>2, <2>2 DEF DecisionInv
<1>8. ExecutedInv'
  BY <1>0, <1>1, <1>2 DEF ExecutedInv, RunsAtMostOnce, Permitted, config
<1>9. BudgetInv' /\ LateInv'
  BY <1>0, <1>1, <1>2 DEF BudgetInv, LateInv, config
<1> QED
  BY <1>4, <1>5, <1>6, <1>7, <1>8, <1>9 DEF SpineIInv
----------------------------------------------------------------------------
LEMMA InitInv == SpineInit => SpineIInv
<1> SUFFICES ASSUME SpineInit PROVE SpineIInv
  OBVIOUS
<1>1. SpineTypeOK
  BY InitTypeOK
<1>2. /\ state = "Ready" /\ pc = "idle" /\ turn = NewTracker(0, "Legacy") /\ index = 1
      /\ start = 0 /\ pending = NoPending /\ next_turn_id = 1 /\ log = <<>>
      /\ executed = <<>> /\ late = 0
  BY DEF SpineInit
<1>3. /\ turn.id = 0 /\ turn.round = 0 /\ turn.models = 0 /\ turn.tools = 0 /\ ~Waiting
  BY <1>2 DEF NewTracker, Waiting
<1>4. ControlInv /\ LateInv
  BY <1>2, <1>3 DEF ControlInv, LateInv
<1>5. LogInv /\ BatchInv /\ DecisionInv /\ ExecutedInv
  BY <1>2, <1>3
  DEF LogInv, TerminalIsLast, BatchInv, InBatch, DecisionInv, ExecutedInv, RunsAtMostOnce
<1>6. BudgetInv
  <2>0. RequestsIn(log, turn.id) = {}
    BY <1>2 DEF RequestsIn
  <2>1. Cardinality(RequestsIn(log, turn.id)) = 0 /\ Len(executed) = 0
    BY <1>2, <2>0, FS_EmptySet
  <2>2. budget.rounds \in Nat /\ budget.models \in Nat /\ budget.tools \in Nat
    BY <1>1, SpineAssumption DEF SpineTypeOK
  <2> QED
    BY <1>2, <1>3, <2>1, <2>2 DEF BudgetInv
<1> QED
  BY <1>1, <1>4, <1>5, <1>6 DEF SpineIInv

LEMMA NextInv == SpineIInv /\ [SpineNext]_vars => SpineIInv'
<1> SUFFICES ASSUME SpineIInv, [SpineNext]_vars PROVE SpineIInv'
  OBVIOUS
<1>1. CASE TurnStep
  BY <1>1, QuietInv, StartInv, ContextInv, RequestInv, AnswerInv, CallsInv, ChargedInv, AsksInv,
     ReturnsInv, DoneInv, SuspendInv, CompleteInv, AbandonInv DEF TurnStep
<1>2. CASE Owner
  <2>1. ASSUME NEW mode \in Modes, RunTurn(mode)
        PROVE  SpineIInv'
    BY <2>1, RunInv
  <2>2. CASE ResetConversation
    BY <2>2, ResetInv
  <2>3. CASE CancelPendingTurn
    BY <2>3, DiscardInv
  <2>4. CASE UNCHANGED vars
    BY <2>4
    DEF SpineIInv, SpineTypeOK, ControlInv, LogInv, TerminalIsLast, BatchInv, InBatch, Waiting,
        DecisionInv, ExecutedInv, RunsAtMostOnce, BudgetInv, LateInv, vars, config, cursor, history
  <2>5. ASSUME NEW round \in 1 .. budget.rounds, NEW call \in Calls, NEW approved \in BOOLEAN,
               ApprovePendingTool([round |-> round, call |-> call, approved |-> approved])
        PROVE  SpineIInv'
    <3>1. SpineTypeOK
      BY DEF SpineIInv
    <3>2. [round |-> round, call |-> call, approved |-> approved] \in Decisions
      BY <3>1, SpineAssumption DEF SpineTypeOK, Decisions
    <3>3. SpineTypeOK'
      BY <1>2, <3>1, BatchPlace, OwnerTypes
    <3> QED
      BY <2>5, <3>2, <3>3, ApproveInv
  <2> QED
    BY <1>2, <2>1, <2>2, <2>3, <2>4, <2>5 DEF Owner, MethodRefused
<1>3. CASE CancelToken
  BY <1>3, QuietInv
<1>4. CASE UNCHANGED vars
  BY <1>4
  DEF SpineIInv, SpineTypeOK, ControlInv, LogInv, TerminalIsLast, BatchInv, InBatch, Waiting,
      DecisionInv, ExecutedInv, RunsAtMostOnce, BudgetInv, LateInv, vars, config, cursor, history
<1> QED
  BY <1>1, <1>2, <1>3, <1>4 DEF SpineNext

LEMMA SpineInvariant == SpineSafetySpec => []SpineIInv
<1> QED
  BY InitInv, NextInv, PTL DEF SpineSafetySpec
----------------------------------------------------------------------------
(* Tools run as it was decided: whatever is approved, denied, cancelled,   *)
(* suspended, refused or resumed, for any policy, a call ran only as the   *)
(* policy or the user allowed it after the log asked, and at most once.    *)
THEOREM DecisionsAreKept == SpineSafetySpec => []ToolsRunAsDecided
<1>1. SpineIInv => ToolsRunAsDecided
  <2> SUFFICES ASSUME SpineIInv PROVE NothingRunsUnapproved /\ RunsAtMostOnce
    BY DEF ToolsRunAsDecided
  <2>1. ASSUME NEW i \in DOMAIN executed
        PROVE  \/ turn.mode = "Legacy" /\ ~wrapped
               \/ turn.mode = "ApprovalAware" /\ executed[i].call \in Trusted
               \/ /\ turn.mode = "ApprovalAware" /\ executed[i] \in granted
                  /\ \E e \in ToSet(log) :
                       /\ OfTurn(e, "ToolApprovalRequested", executed[i].round)
                       /\ e.calls = <<executed[i].call>>
    <3>1. Permitted(log, turn, ~wrapped, granted, executed[i])
      BY DEF SpineIInv, ExecutedInv
    <3>2. \A k \in DOMAIN log : log[k] \in ToSet(log)
      BY DEF ToSet
    <3> QED
      BY <3>1, <3>2 DEF Permitted, Of, OfTurn
  <2> QED
    BY <2>1 DEF SpineIInv, ExecutedInv, NothingRunsUnapproved
<1> QED
  BY <1>1, SpineInvariant, PTL

(* The transcript is sound: every variable is of its type, the log within  *)
(* its limit, each batch answered call by call before the model is asked   *)
(* again, nothing recorded of a turn after its end, and what the agent     *)
(* waits for is what its last record asks.                                 *)
THEOREM TranscriptStaysSound == SpineSafetySpec => []TranscriptIsSound
<1>1. SpineIInv => TranscriptIsSound
  <2> SUFFICES ASSUME SpineIInv
               PROVE  SpineTypeOK /\ AnsweredBeforeAsking /\ TerminalIsLast
                      /\ PendingIsTheRecordedRequest
    BY DEF TranscriptIsSound
  <2>0. SpineTypeOK /\ ControlInv /\ LogInv /\ BatchInv /\ DecisionInv
    BY DEF SpineIInv
  <2>1. \A r : Results(r) = ResultsIn(log, turn.id, r)
    BY DEF Results, ResultsIn, OfTurn, Of
  <2>2. AnsweredBeforeAsking
    <3> SUFFICES ASSUME pc = "model", NEW i \in DOMAIN log,
                        log[i].kind = "ModelResponded", log[i].turn = turn.id
                 PROVE  Answer(log[i].calls, Results(log[i].round))
      BY DEF AnsweredBeforeAsking
    <3>1. ~InBatch /\ ~Waiting
      BY <2>0 DEF InBatch, ControlInv, Waiting
    <3>2. Answered(log, turn.id, log[i].round, log[i].calls)
      BY <2>0, <3>1 DEF BatchInv
    <3> QED
      BY <2>1, <3>2 DEF Answered, InOrder, Answer
  <2>3. PendingIsTheRecordedRequest
    <3> SUFFICES ASSUME Waiting PROVE PendingIsTheRecordedRequest
      BY DEF PendingIsTheRecordedRequest, Waiting
    <3> DEFINE call == pending.batch[pending.index]
    <3>1. LastAsks(log, turn, call) /\ state = "AwaitingApproval" /\ pending.turn = turn
      BY <2>0 DEF DecisionInv, ControlInv
    <3>2. Last(log) = [kind |-> "ToolApprovalRequested", turn |-> pending.turn.id,
                       round |-> pending.turn.round, calls |-> <<call>>]
      BY <3>1 DEF LastAsks, EventOf, Last
    <3>3. BatchAt(log, executed, turn, pending.batch, pending.index)
      BY <2>0 DEF BatchInv
    <3>4. ASSUME [round |-> turn.round, call |-> call] \in ToSet(executed)
          PROVE  FALSE
      <4>1. PICK i \in DOMAIN executed : executed[i] = [round |-> turn.round, call |-> call]
        BY <3>4 DEF ToSet
      <4>2. PICK k \in 1 .. pending.index - 1 : executed[i].call = pending.batch[k]
        BY <3>3, <4>1 DEF BatchAt, RanBefore
      <4>3. pending.index \in 1 .. Len(pending.batch) /\ pending.batch \in Seq(Calls)
        BY BatchPlace, <2>0 DEF Waiting, SpineTypeOK, PendingTurns
      <4>4. k \in DOMAIN pending.batch /\ pending.index \in DOMAIN pending.batch
            /\ k # pending.index
        BY <4>2, <4>3
      <4> QED
        BY <3>3, <4>1, <4>2, <4>4 DEF BatchAt
    <3> QED
      BY <3>1, <3>2, <3>4 DEF PendingIsTheRecordedRequest
  <2> QED
    BY <2>0, <2>2, <2>3 DEF LogInv
<1> QED
  BY <1>1, SpineInvariant, PTL

(* A turn stays within its budgets, across its suspensions, and begins at  *)
(* most one call more once its token is cancelled.                         *)
THEOREM LimitsAlwaysHold == SpineSafetySpec => []LimitsHold
<1>1. SpineIInv => LimitsHold
  <2> SUFFICES ASSUME SpineIInv PROVE WithinBudget /\ CancellationStops
    BY DEF LimitsHold
  <2>1. BudgetInv /\ LateInv /\ SpineTypeOK
    BY DEF SpineIInv
  <2>2. Requests = RequestsIn(log, turn.id)
    BY DEF Requests, RequestsIn
  <2>3. Cardinality(RequestsIn(log, turn.id)) \in Nat
    BY <2>1, PositionsFinite DEF SpineTypeOK, RequestsIn
  <2>4. /\ Len(executed) \in Nat /\ turn.models \in Nat /\ turn.tools \in Nat
        /\ budget.models \in Nat /\ budget.tools \in Nat
    BY <2>1, SpineAssumption DEF SpineTypeOK, Trackers
  <2> QED
    BY <2>1, <2>2, <2>3, <2>4 DEF BudgetInv, LateInv, WithinBudget, CancellationStops
<1> QED
  BY <1>1, SpineInvariant, PTL
=============================================================================
