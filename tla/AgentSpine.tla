----------------------------- MODULE AgentSpine -----------------------------
(***************************************************************************)
(* The turn loop of crates/yunxi-agent-spine: Agent::run_turn (legacy) and *)
(* Agent::run_turn_with_approval, the suspension of a turn on a tool that  *)
(* needs approval, its continuation by approve_pending_tool, its discard   *)
(* by cancel_pending_turn, and the bounded session log all of them write.  *)
(*                                                                         *)
(* The methods take &mut self, so they do not overlap; what runs beside    *)
(* them is the holder of the cancellation token.  A running method is      *)
(* therefore cut into steps at the token checks and at the calls of the    *)
(* model, the tools and the log.  Texts, arguments and byte counts are     *)
(* abstracted: any append may be refused (an invalid event, an oversized   *)
(* event, the byte limit), and must be refused once max_events records     *)
(* are in the log.                                                         *)
(***************************************************************************)
EXTENDS Integers, Sequences, SequencesExt

CONSTANTS
  Calls,      \* tool calls a model can ask for (id, name and arguments as one)
  Trusted,    \* calls the approval policy lets run at once
  Forbidden,  \* calls the approval policy rejects
  Setups,     \* the TurnBudget and the kind of broker an agent may be built with
  MaxEvents,  \* SessionLimits::max_events
  MaxTurns    \* bound on next_turn_id

ASSUME SpineAssumption ==
  /\ Trusted \subseteq Calls /\ Forbidden \subseteq Calls
  /\ Trusted \cap Forbidden = {}
  /\ Setups \subseteq [budget : [rounds : Nat \ {0}, calls : Nat \ {0},
                                 tools : Nat \ {0}, models : Nat \ {0}],
                       wrapped : BOOLEAN]
  /\ MaxEvents \in Nat \ {0} /\ MaxTurns \in Nat

VARIABLES
  budget,     \* config.budget, fixed when the agent is built
  wrapped,    \* the broker is an ApprovalAwareToolBroker
  state,      \* AgentState
  pc,         \* where the running method is; "idle" between methods
  turn,       \* the TurnTracker, with the turn's id and ExecutionMode
  batch,      \* the ToolCallBatch being processed
  index,      \* the call of the batch that is next
  start,      \* start_call when a decision was supplied, otherwise 0
  approval,   \* the supplied ToolApprovalDecision
  pending,    \* pending_turn
  last_turn,  \* last_turn: id and state
  next_turn_id,
  log,        \* session.records
  cancelled,  \* the token of the running method
  executed,   \* history: the calls the broker ran in the turn on record, in order
  granted,    \* history: what the user approved in the turn on record
  late        \* history: model and tool calls begun after the cancellation

config == <<budget, wrapped>>
history == <<executed, granted, late>>
cursor == <<batch, index, start, approval>>
vars == <<config, state, pc, turn, cursor, pending, last_turn, next_turn_id,
          log, cancelled, history>>

-----------------------------------------------------------------------------
Modes == {"Legacy", "ApprovalAware"}

Trackers == [id : Nat, mode : Modes, round : Nat, models : Nat, tools : Nat]

NoDecision == [round |-> 0, call |-> {}, approved |-> FALSE]

Decisions == [round : Nat, call : Calls, approved : BOOLEAN]

RunCalls == [round : Nat, call : Calls]

NewTracker(id, mode) ==
  [id |-> id, mode |-> mode, round |-> 0, models |-> 0, tools |-> 0]

NoPending == [turn |-> NewTracker(0, "Legacy"), batch |-> <<>>, index |-> 0]

PendingTurns == [turn : Trackers, batch : Seq(Calls), index : Nat]

NoTurn == [id |-> 0, state |-> "None"]

Kinds == {"TurnStarted", "ContextBuilt", "ModelRequested", "ModelResponded",
          "ToolCallsRequested", "ToolApprovalRequested", "ToolApprovalResolved",
          "ToolResultRecorded", "TurnCompleted", "TurnFailed", "TurnCancelled"}

Terminals == {"TurnCompleted", "TurnFailed", "TurnCancelled"}

LastTurns == [id : Nat, state : Terminals \cup {"None", "AwaitingApproval"}]

(* A batch as ToolCallBatch::new and validate_with_policy accept it: not   *)
(* empty, no repeated call id, no longer than the policy allows.           *)
Batches == {b \in UNION {[1 .. n -> Calls] : n \in 1 .. budget.calls} :
              \A i, j \in DOMAIN b : b[i] = b[j] => i = j}

Record == [kind : Kinds, turn : Nat, round : Nat, calls : Seq(Calls)]

EventOf(t, kind, calls) ==
  [kind |-> kind, turn |-> t.id, round |-> t.round, calls |-> calls]

Event(kind, calls) == EventOf(turn, kind, calls)

(* SessionLog::append of several events in a row, all of them accepted ... *)
Recorded(events) ==
  /\ Len(log) + Len(events) <= MaxEvents
  /\ log' = log \o events

(* ... and one of them refused, which ends the turn with AgentError::Session. *)
RecordFails(events) ==
  \E k \in 0 .. Len(events) - 1 :
    /\ Len(log) + k <= MaxEvents
    /\ log' = log \o SubSeq(events, 1, k)
    /\ pc' = "failed"

RecordThen(events, target) ==
  \/ Recorded(events) /\ pc' = target
  \/ RecordFails(events)

-----------------------------------------------------------------------------
SpineInit ==
  /\ \E s \in Setups : budget = s.budget /\ wrapped = s.wrapped
  /\ state = "Ready" /\ pc = "idle"
  /\ turn = NewTracker(0, "Legacy")
  /\ batch = <<>> /\ index = 1 /\ start = 0 /\ approval = NoDecision
  /\ pending = NoPending /\ last_turn = NoTurn /\ next_turn_id = 1
  /\ log = <<>> /\ cancelled = FALSE
  /\ executed = <<>> /\ granted = {} /\ late = 0

(* run_turn and run_turn_with_approval up to run_turn_inner.               *)
RunTurn(mode) ==
  /\ state = "Ready" /\ next_turn_id <= MaxTurns
  /\ state' = "Running" /\ pc' = "start"
  /\ turn' = NewTracker(next_turn_id, mode)
  /\ next_turn_id' = next_turn_id + 1
  /\ batch' = <<>> /\ index' = 1 /\ start' = 0 /\ approval' = NoDecision
  /\ cancelled' = FALSE
  /\ executed' = <<>> /\ granted' = {} /\ late' = 0
  /\ UNCHANGED <<config, pending, last_turn, log>>

(* reset_conversation: a new transcript for the next turn.                 *)
ResetConversation ==
  /\ state = "Ready"
  /\ log' = <<>> /\ last_turn' = NoTurn
  /\ executed' = <<>> /\ granted' = {}
  /\ UNCHANGED <<config, state, pc, turn, cursor, pending, next_turn_id,
                 cancelled, late>>

(* Every method that needs Ready, called on a suspended agent: InvalidState. *)
MethodRefused ==
  /\ state = "AwaitingApproval"
  /\ UNCHANGED vars

Matches(d, round, call) == d.round = round /\ d.call = call

(* approve_pending_tool: a decision for anything else than the pending     *)
(* call is refused and changes nothing.                                    *)
ApprovePendingTool(d) ==
  /\ state = "AwaitingApproval" /\ pending # NoPending
  /\ Matches(d, pending.turn.round, pending.batch[pending.index])
  /\ state' = "Running" /\ pc' = "tools"
  /\ turn' = pending.turn /\ batch' = pending.batch
  /\ index' = pending.index /\ start' = pending.index
  /\ approval' = d /\ pending' = NoPending
  /\ cancelled' = FALSE /\ late' = 0
  /\ granted' = IF d.approved THEN granted \cup {[round |-> d.round, call |-> d.call]}
                ELSE granted
  /\ UNCHANGED <<config, last_turn, next_turn_id, log, executed>>

(* cancel_pending_turn: the turn is taken first; when the record of the    *)
(* cancellation is refused the method returns before it sets Ready.        *)
CancelPendingTurn ==
  /\ state = "AwaitingApproval" /\ pending # NoPending
  /\ pending' = NoPending
  /\ \/ /\ Recorded(<<EventOf(pending.turn, "TurnCancelled", <<>>)>>)
        /\ last_turn' = [id |-> pending.turn.id, state |-> "TurnCancelled"]
        /\ state' = "Ready"
     \/ UNCHANGED <<log, last_turn, state>>
  /\ UNCHANGED <<config, pc, turn, cursor, next_turn_id, cancelled, history>>

(* The other holder of the token cancels it while the method runs.         *)
CancelToken ==
  /\ state = "Running" /\ ~cancelled
  /\ cancelled' = TRUE
  /\ UNCHANGED <<config, state, pc, turn, cursor, pending, last_turn,
                 next_turn_id, log, history>>

-----------------------------------------------------------------------------
(* run_turn_inner                                                          *)
StartTurn ==
  /\ pc = "start"
  /\ RecordThen(<<Event("TurnStarted", <<>>)>>, "loop")
  /\ UNCHANGED <<config, state, turn, cursor, pending, last_turn, next_turn_id,
                 cancelled, history>>

(* The token check and the round budget at the head of the loop.           *)
LoopStops ==
  /\ pc = "loop"
  /\ cancelled \/ turn.round + 1 > budget.rounds
  /\ pc' = IF cancelled THEN "cancelled" ELSE "failed"
  /\ UNCHANGED <<config, state, turn, cursor, pending, last_turn, next_turn_id,
                 log, cancelled, history>>

(* The catalog and the context, each of which may fail.                    *)
BuildContext ==
  /\ pc = "loop"
  /\ ~cancelled /\ turn.round + 1 <= budget.rounds
  /\ turn' = [turn EXCEPT !.round = @ + 1]
  /\ RecordThen(<<EventOf(turn', "ContextBuilt", <<>>)>>, "request")
  /\ UNCHANGED <<config, state, cursor, pending, last_turn, next_turn_id,
                 cancelled, history>>

ModelBudgetStops ==
  /\ pc = "request"
  /\ turn.models >= budget.models
  /\ pc' = "failed"
  /\ UNCHANGED <<config, state, turn, cursor, pending, last_turn, next_turn_id,
                 log, cancelled, history>>

RequestModel ==
  /\ pc = "request"
  /\ turn.models < budget.models
  /\ turn' = [turn EXCEPT !.models = @ + 1]
  /\ RecordThen(<<Event("ModelRequested", <<>>)>>, "model")
  /\ late' = IF pc' = "model" /\ cancelled THEN late + 1 ELSE late
  /\ UNCHANGED <<config, state, cursor, pending, last_turn, next_turn_id,
                 cancelled, executed, granted>>

(* ModelProvider::complete failed, or its batch was not valid.             *)
ModelFails ==
  /\ pc = "model"
  /\ pc' = "failed"
  /\ UNCHANGED <<config, state, turn, cursor, pending, last_turn, next_turn_id,
                 log, cancelled, history>>

(* An answer without tool calls completes the turn, unless it is empty.    *)
ModelAnswers(empty) ==
  /\ pc = "model"
  /\ IF empty
     THEN RecordThen(<<Event("ModelResponded", <<>>)>>, "failed")
     ELSE RecordThen(<<Event("ModelResponded", <<>>), Event("TurnCompleted", <<>>)>>,
                     "completed")
  /\ UNCHANGED <<config, state, turn, cursor, pending, last_turn, next_turn_id,
                 cancelled, history>>

ModelCallsTools(b) ==
  /\ pc = "model"
  /\ RecordThen(<<Event("ModelResponded", b), Event("ToolCallsRequested", b)>>, "tools")
  /\ batch' = b /\ index' = 1 /\ start' = 0 /\ approval' = NoDecision
  /\ UNCHANGED <<config, state, turn, pending, last_turn, next_turn_id,
                 cancelled, history>>

-----------------------------------------------------------------------------
(* process_tool_batch                                                      *)
Call == batch[index]

\* Mutation: an approval, once given, holds for the rest of the batch.
OutcomeAnyApproval ==
  CASE turn.mode = "Legacy" -> IF wrapped THEN "Failed" ELSE "Executed"
    [] turn.mode = "ApprovalAware" /\ start > 0 ->
         IF approval.approved THEN "Executed" ELSE "Rejected"
    [] OTHER -> CASE Call \in Trusted -> "Executed"
                  [] Call \in Forbidden -> "Rejected"
                  [] OTHER -> "AwaitingApproval"

(* What the broker does with the call: ToolBroker::execute for a legacy    *)
(* turn (the wrapper fails closed), execute_with_approval otherwise.  The  *)
(* decision is passed on for the call the turn was resumed at only.        *)
Outcome ==
  CASE turn.mode = "Legacy" -> IF wrapped THEN "Failed" ELSE "Executed"
    [] turn.mode = "ApprovalAware" /\ index = start ->
         IF ~Matches(approval, turn.round, Call) THEN "Failed"
         ELSE IF approval.approved THEN "Executed" ELSE "Rejected"
    [] OTHER -> CASE Call \in Trusted -> "Executed"
                  [] Call \in Forbidden -> "Rejected"
                  [] OTHER -> "AwaitingApproval"

(* The token check and the tool budget before each call.                   *)
ToolStops ==
  /\ pc = "tools" /\ index <= Len(batch)
  /\ cancelled \/ turn.tools >= budget.tools
  /\ pc' = IF cancelled THEN "cancelled" ELSE "failed"
  /\ UNCHANGED <<config, state, turn, cursor, pending, last_turn, next_turn_id,
                 log, cancelled, history>>

\* Mutation: the token is not checked between two calls of a batch.
ToolUnchecked ==
  /\ pc = "tools" /\ index <= Len(batch)
  /\ turn.tools < budget.tools
  /\ turn' = [turn EXCEPT !.tools = @ + 1]
  /\ pc' = "call"
  /\ UNCHANGED <<config, state, cursor, pending, last_turn, next_turn_id,
                 log, cancelled, history>>

(* The call is counted before the broker is asked, and again on resumption. *)
ToolCharged ==
  /\ pc = "tools" /\ index <= Len(batch)
  /\ ~cancelled /\ turn.tools < budget.tools
  /\ turn' = [turn EXCEPT !.tools = @ + 1]
  /\ pc' = "call"
  /\ UNCHANGED <<config, state, cursor, pending, last_turn, next_turn_id,
                 log, cancelled, history>>

(* The policy wants the user's decision: the request is recorded first.    *)
ToolAsks ==
  /\ pc = "call"
  /\ Outcome = "AwaitingApproval"
  /\ RecordThen(<<Event("ToolApprovalRequested", <<Call>>)>>, "suspend")
  /\ UNCHANGED <<config, state, turn, cursor, pending, last_turn, next_turn_id,
                 cancelled, history>>

(* The call is over, run or not; the records of the decision and of the    *)
(* result come after it, and either may be refused.                        *)
ToolEnds(answered) ==
  /\ pc = "call"
  /\ Outcome # "AwaitingApproval"
  /\ executed' = IF Outcome = "Executed"
                 THEN Append(executed, [round |-> turn.round, call |-> Call])
                 ELSE executed
  /\ late' = IF Outcome = "Executed" /\ cancelled THEN late + 1 ELSE late
  /\ RecordThen((IF index = start THEN <<Event("ToolApprovalResolved", <<Call>>)>>
                 ELSE <<>>)
                \o (IF answered THEN <<Event("ToolResultRecorded", <<Call>>)>>
                    ELSE <<>>), "tools")
  /\ index' = index + 1
  /\ UNCHANGED <<config, state, turn, batch, start, approval, pending, last_turn,
                 next_turn_id, cancelled, granted>>

\* Mutation: a rejected call leaves no result for the model.
ToolReturnsUnanswered == ToolEnds(Outcome # "Rejected")

ToolReturns == ToolEnds(TRUE)

BatchDone ==
  /\ pc = "tools" /\ index > Len(batch)
  /\ pc' = "loop" /\ start' = 0 /\ approval' = NoDecision
  /\ UNCHANGED <<config, state, turn, batch, index, pending, last_turn,
                 next_turn_id, log, cancelled, history>>

-----------------------------------------------------------------------------
(* finish_turn_outcome, and the end of run_turn.  The method returns: its  *)
(* locals are gone, a later call passes its own token.                     *)
Returns ==
  /\ pc' = "idle"
  /\ batch' = <<>> /\ index' = 1 /\ start' = 0 /\ approval' = NoDecision
  /\ cancelled' = FALSE /\ late' = 0

Suspend ==
  /\ pc = "suspend"
  /\ state' = "AwaitingApproval" /\ Returns
  /\ pending' = [turn |-> turn, batch |-> batch, index |-> index]
  /\ last_turn' = [id |-> turn.id, state |-> "AwaitingApproval"]
  /\ UNCHANGED <<config, turn, next_turn_id, log, executed, granted>>

Complete ==
  /\ pc = "completed"
  /\ state' = "Ready" /\ Returns
  /\ last_turn' = [id |-> turn.id, state |-> "TurnCompleted"]
  /\ UNCHANGED <<config, turn, pending, next_turn_id, log, executed, granted>>

\* Mutation: the error path returns without making the agent ready again.
AbandonRunning ==
  /\ pc \in {"failed", "cancelled"}
  /\ Returns
  /\ pending' = NoPending
  /\ Recorded(<<Event("TurnFailed", <<>>)>>) \/ UNCHANGED log
  /\ last_turn' = [id |-> turn.id, state |-> "TurnFailed"]
  /\ UNCHANGED <<config, state, turn, next_turn_id, executed, granted>>

(* The error path: the result of the append is ignored.                    *)
Abandon ==
  /\ pc \in {"failed", "cancelled"}
  /\ state' = "Ready" /\ Returns
  /\ pending' = NoPending
  /\ LET kind == IF pc = "cancelled" THEN "TurnCancelled" ELSE "TurnFailed"
     IN /\ Recorded(<<Event(kind, <<>>)>>) \/ UNCHANGED log
        /\ last_turn' = [id |-> turn.id, state |-> kind]
  /\ UNCHANGED <<config, turn, next_turn_id, executed, granted>>

-----------------------------------------------------------------------------
TurnStep ==
  \/ StartTurn \/ LoopStops \/ BuildContext \/ ModelBudgetStops \/ RequestModel
  \/ ModelFails \/ (\E empty \in BOOLEAN : ModelAnswers(empty))
  \/ (\E b \in Batches : ModelCallsTools(b))
  \/ ToolStops \/ ToolCharged \/ ToolAsks \/ ToolReturns \/ BatchDone
  \/ Suspend \/ Complete \/ Abandon

Owner ==
  \/ \E mode \in Modes : RunTurn(mode)
  \/ ResetConversation \/ MethodRefused \/ CancelPendingTurn
  \/ \E round \in 1 .. budget.rounds, call \in Calls, approved \in BOOLEAN :
       ApprovePendingTool([round |-> round, call |-> call, approved |-> approved])

SpineNext == TurnStep \/ Owner \/ CancelToken

SpineSafetySpec == SpineInit /\ [][SpineNext]_vars

(* A method that has been called runs to its end: the model and the tools  *)
(* answer (their adapters bound every wait).                               *)
SpineSpec == SpineSafetySpec /\ WF_vars(TurnStep)

-----------------------------------------------------------------------------
(* Properties                                                              *)

(* Every variable stays in its domain, and the log within its limit.       *)
SpineTypeOK ==
  /\ [budget |-> budget, wrapped |-> wrapped] \in Setups
  /\ state \in {"Ready", "Running", "AwaitingApproval"}
  /\ pc \in {"idle", "start", "loop", "request", "model", "tools", "call",
             "suspend", "completed", "failed", "cancelled"}
  /\ turn \in Trackers
  /\ batch \in Seq(Calls) /\ index \in Nat /\ start \in Nat
  /\ approval \in Decisions \cup {NoDecision}
  /\ pending \in PendingTurns
  /\ last_turn \in LastTurns
  /\ next_turn_id \in Nat
  /\ log \in Seq(Record)
  /\ Len(log) <= MaxEvents
  /\ cancelled \in BOOLEAN
  /\ executed \in Seq(RunCalls)
  /\ granted \subseteq RunCalls
  /\ late \in Nat

OfTurn(e, kind, round) == e.kind = kind /\ e.turn = turn.id /\ e.round = round

(* agent.rs run_turn_with_approval: "no tool is executed until             *)
(* approve_pending_tool receives a matching decision".  A call ran only in *)
(* a legacy turn on a bare broker, or because the policy trusts it, or     *)
(* after the request for this very call of this turn was put in the log    *)
(* and the user approved it: never on the approval of another call, round  *)
(* or turn, and never on a denial.                                         *)
NothingRunsUnapproved ==
  \A i \in DOMAIN executed :
    \/ turn.mode = "Legacy" /\ ~wrapped
    \/ turn.mode = "ApprovalAware" /\ executed[i].call \in Trusted
    \/ /\ turn.mode = "ApprovalAware" /\ executed[i] \in granted
       /\ \E e \in ToSet(log) :
            /\ OfTurn(e, "ToolApprovalRequested", executed[i].round)
            /\ e.calls = <<executed[i].call>>

(* A call of a round is handed to the broker at most once, however often   *)
(* the turn is suspended and resumed in the middle of its batch.           *)
RunsAtMostOnce ==
  \A i, j \in DOMAIN executed : executed[i] = executed[j] => i = j

Requests == {i \in DOMAIN log : log[i].kind = "ModelRequested" /\ log[i].turn = turn.id}

(* The budgets hold for the turn as a whole, across its suspensions: the   *)
(* tools that ran, the model requests and the rounds.                      *)
WithinBudget ==
  /\ Len(executed) <= budget.tools
  /\ Cardinality(Requests) <= budget.models
  /\ turn.round <= budget.rounds

Results(round) == {i \in DOMAIN log : OfTurn(log[i], "ToolResultRecorded", round)}

(* The records at `results` answer the calls: one each, in their order.    *)
Answer(calls, results) ==
  /\ Cardinality(results) = Len(calls)
  /\ \A i \in results :
       log[i].calls = <<calls[Cardinality({k \in results : k <= i})]>>

(* When the model is asked again, every batch it returned earlier in the   *)
(* turn has been answered in the transcript: one result for each call, in  *)
(* the order of the batch (session.rs conversation builds the messages     *)
(* from these records).                                                    *)
AnsweredBeforeAsking ==
  pc = "model" =>
    \A i \in DOMAIN log :
      log[i].kind = "ModelResponded" /\ log[i].turn = turn.id =>
        Answer(log[i].calls, Results(log[i].round))

(* A terminal record closes its turn: no record of the same or of an older *)
(* turn follows it.  Completing, failing, cancelling and discarding a      *)
(* suspended turn never both happen to one turn.                           *)
TerminalIsLast ==
  \A i, j \in DOMAIN log :
    i < j /\ log[i].kind \in Terminals => log[j].turn > log[i].turn

(* What a suspended turn waits for is what the log says it asked, and that *)
(* call has not run yet.                                                   *)
PendingIsTheRecordedRequest ==
  pending # NoPending =>
    LET call == pending.batch[pending.index]
    IN /\ state = "AwaitingApproval"
       /\ Last(log) = [kind |-> "ToolApprovalRequested", turn |-> pending.turn.id,
                       round |-> pending.turn.round, calls |-> <<call>>]
       /\ [round |-> pending.turn.round, call |-> call] \notin ToSet(executed)

(* README: the token is checked "at every orchestration boundary".  Once   *)
(* it is cancelled, at most one more model or tool call is begun, the one  *)
(* whose check had already been passed.                                    *)
CancellationStops == late <= 1

(* Tools run as it was decided, each once: agent.rs process_tool_calls,    *)
(* across every suspension, denial and discarded turn.                     *)
ToolsRunAsDecided == NothingRunsUnapproved /\ RunsAtMostOnce

(* The record of a turn, from which the next model request is built, can   *)
(* always be continued and says truly what the agent waits for.            *)
TranscriptIsSound ==
  SpineTypeOK /\ AnsweredBeforeAsking /\ TerminalIsLast /\ PendingIsTheRecordedRequest

(* A turn is bounded by its budget and by its token.                       *)
LimitsHold == WithinBudget /\ CancellationStops

(* A turn that runs ends: the agent becomes ready again or waits for a     *)
(* decision, whatever fails on the way.                                    *)
TurnsEnd == state = "Running" ~> state # "Running"

(* agent.rs cancel_pending_turn "leaves the agent ready for a fresh        *)
(* conversation": an agent that waits for approval has a turn to approve   *)
(* or to cancel.                                                           *)
AwaitingHasPending == state = "AwaitingApproval" => pending # NoPending
=============================================================================
