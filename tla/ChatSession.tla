---------------------------- MODULE ChatSession ----------------------------
(***************************************************************************)
(* One chat session of the CLI (session.rs, session/stateful.rs,           *)
(* session/tool_loop.rs, session/spine_runtime.rs): the optional plugins   *)
(* it believes in, the turn it runs, the action that waits for the user.   *)
(*                                                                         *)
(* Everything runs on one thread, so a method is an operator from a host   *)
(* x to the set of hosts it may leave, each with the answer `out`.  A host *)
(* has two parts: x.c is the ChatSession, x.d what outlives it (the        *)
(* sessions the storage plugin keeps, the mailbox, and the history         *)
(* variables that record which calls were sent to a plugin).               *)
(*                                                                         *)
(* Prompts and tool calls are numbered, 0 is "none".  The agent loop of    *)
(* the default engine is AgentSpine; here it is its interface: a turn      *)
(* completes, fails, or suspends on a call that needs the user.            *)
(***************************************************************************)
EXTENDS Naturals, Sequences, FiniteSets

CONSTANTS
  Unoffered,     \* tools a model names although it is not offered them
  MaxRounds,     \* tool_loop_policy.max_rounds
  MaxCalls,      \* bound: tool calls in one reply
  MaxToolCalls   \* bound: tool calls of all turns

ASSUME SessionAssumption == MaxRounds \in Nat /\ MaxCalls \in Nat /\ MaxToolCalls \in Nat

(* The tools that wait for the user, and the plugin behind each tool.      *)
Approvable == {"shell", "patch", "mcp", "agent_spawn", "agent_message"}
ReadOnly == {"file_search", "file_read", "skill", "agent_list", "agent_interrupt"}
AgentTools == {"agent_spawn", "agent_message", "agent_list", "agent_interrupt"}
Provider(tool) ==
  CASE tool \in {"file_search", "file_read"} -> "files"
    [] tool \in AgentTools -> "multi_agent"
    [] tool = "skill" -> "skills"
    [] OTHER -> tool

requires_approval(tool) == tool \in Approvable

NoCall == [id |-> 0, tool |-> "none"]
NoAction == [kind |-> "none", call |-> NoCall]
NoContinuation == [calls |-> <<>>, next |-> 0, round |-> 0, prompt |-> 0]
NoSpineTurn == [call |-> NoCall, prompt |-> 0]

(***************************************************************************)
(* Calls to plugins.                                                       *)
(***************************************************************************)
(* A call may be answered, rejected, or lose the route to the plugin; the  *)
(* plugin host may bring the plugin back (PluginHost), so that a later     *)
(* call from another copy of the capability finds it again.                *)
Invoke(x, plugin) == {[x |-> x, r |-> r] : r \in {"ok", "rejected", "lost"}}

(* The session gives up a capability when a call lost its route.           *)
call_lost_route(i, capabilities) ==
  IF i.r = "lost" THEN [i.x EXCEPT !.c.caps = @ \ capabilities] ELSE i.x

(***************************************************************************)
(* Sessions.                                                               *)
(***************************************************************************)
reset_spine(c) == [c EXCEPT !.spine = NoSpineTurn]

BeginSession(c, id) ==
  reset_spine([c EXCEPT !.active = id, !.agent = id, !.first_turn = TRUE, !.proactive = 0,
                        !.pending = NoAction, !.continuation = NoContinuation])

FreshSession(d) == {n \in 1..d.room : n \notin DOMAIN d.sessions
                                           /\ \A k \in 1..(n - 1) : k \in DOMAIN d.sessions}

create_web_session(x) ==
  IF "storage" \notin x.c.caps THEN {[x |-> x, out |-> "unavailable"]}
  ELSE UNION {
    IF i.r # "ok" THEN {[x |-> call_lost_route(i, {"storage"}), out |-> "error"]}
    ELSE {[x |-> [c |-> BeginSession(i.x.c, n),
                  d |-> [i.x.d EXCEPT !.sessions = [k \in DOMAIN @ \cup {n} |->
                                                      IF k = n THEN <<>> ELSE @[k]]]],
           out |-> "ok"] : n \in FreshSession(i.x.d)}
    : i \in Invoke(x, "storage")}

(* load_web_session and activate_web_session, and /resume of the terminal. *)
activate_web_session(x, id) ==
  IF "storage" \notin x.c.caps THEN {[x |-> x, out |-> "unavailable"]}
  ELSE {
    CASE i.r # "ok" -> [x |-> call_lost_route(i, {"storage"}), out |-> "error"]
      [] i.r = "ok" /\ id \notin DOMAIN i.x.d.sessions -> [x |-> i.x, out |-> "not_found"]
      [] OTHER -> [x |-> [i.x EXCEPT !.c = BeginSession(@, id)], out |-> "ok"]
    : i \in Invoke(x, "storage")}

(* persist_turn: a turn is appended to the active session, or to one the   *)
(* storage plugin creates for it.                                          *)
persist_turn(x, prompt) ==
  IF "storage" \notin x.c.caps THEN {x}
  ELSE UNION {
    IF i.r # "ok" THEN {call_lost_route(i, {"storage"})}
    ELSE {[c |-> [i.x.c EXCEPT !.active = n],
           d |-> [i.x.d EXCEPT !.sessions = [k \in DOMAIN @ \cup {n} |->
                    IF k # n THEN @[k]
                    ELSE IF n \in DOMAIN @ THEN Append(@[n], prompt) ELSE <<prompt>>]]]
          : n \in IF i.x.c.active # 0 THEN {i.x.c.active} ELSE FreshSession(i.x.d)}
    : i \in Invoke(x, "storage")}

extract_turn_memories(x) ==
  IF "memory_write" \notin x.c.caps THEN {x}
  ELSE {call_lost_route(i, {"memory_write", "memory"}) : i \in Invoke(x, "memory_write")}

(* enqueue_proactive_message: the key names the session, how many messages *)
(* it has had, and the reason.                                             *)
enqueue_proactive_message(x) ==
  IF "mailbox" \notin x.c.caps THEN {[x |-> x, queued |-> FALSE]}
  ELSE {[x |-> IF i.r = "ok"
                 THEN [i.x EXCEPT !.d.letters = @ \cup {<<i.x.c.active, i.x.c.proactive>>}]
                 ELSE call_lost_route(i, {"mailbox"}),
         queued |-> i.r = "ok"] : i \in Invoke(x, "mailbox")}

(* evaluate_proactive: at most one plan; it counts when it was queued, or  *)
(* when there is no mailbox and the text itself is the notice.             *)
evaluate_proactive(x) ==
  IF "scheduler" \notin x.c.caps THEN {x}
  ELSE UNION {
    IF i.r # "ok" THEN {call_lost_route(i, {"scheduler"})}
    ELSE {i.x} \cup {
      IF e.queued \/ "mailbox" \notin e.x.c.caps
        THEN [e.x EXCEPT !.c.proactive = @ + 1] ELSE e.x
      : e \in enqueue_proactive_message(i.x)}
    : i \in Invoke(x, "scheduler")}

(* What follows every completed turn.                                      *)
FinishTurn(x, prompt) ==
  UNION {UNION {evaluate_proactive(z) : z \in extract_turn_memories(y)}
         : y \in persist_turn(x, prompt)}

(***************************************************************************)
(* Before a turn: the session id of the multi-agent state, and the context *)
(* of the model, for which each optional plugin is asked in turn.          *)
(***************************************************************************)
prepare_agent_session(x) ==
  IF "multi_agent" \notin x.c.caps THEN {x}
  ELSE IF x.c.active # 0 THEN {[x EXCEPT !.c.agent = x.c.active]}
  ELSE IF "storage" \in x.c.caps THEN {r.x : r \in create_web_session(x)}
  ELSE {x}

AskFor(x, plugin, lost) ==
  IF plugin \notin x.c.caps THEN {x}
  ELSE {call_lost_route(i, lost) : i \in Invoke(x, plugin)}

assemble_messages(x) ==
  LET Context == AskFor(x, "context", {"context"})
      Skills == UNION {AskFor(y, "skills", {"skills"}) : y \in Context}
      Memory == UNION {IF "persona" \in y.c.caps THEN AskFor(y, "memory", {"memory"}) ELSE {y}
                       : y \in Skills}
      Persona == UNION {AskFor(y, "persona", {"persona", "memory"}) : y \in Memory}
      Companion == UNION {AskFor(y, "companion", {"companion"}) : y \in Persona}
  IN {[y EXCEPT !.c.first_turn = FALSE] : y \in Companion}

(***************************************************************************)
(* Tools.                                                                  *)
(***************************************************************************)
(* decode_call_with_skills knows the agent tools only while the capability *)
(* is there, MCP and Skill tools while their bindings are; "malformed" is  *)
(* a call whose arguments do not decode.                                   *)
decode_call(capabilities, tool) ==
  /\ tool # "malformed"
  /\ tool \in AgentTools \cup {"mcp", "skill"} => Provider(tool) \in capabilities

(* A lost route takes away the copy of the capability that was used: the   *)
(* session's own, or the one the spine's broker took at launch.            *)
tool_error_outcome(i, plugin) ==
  IF i.r = "lost" THEN [i.x EXCEPT !.c.caps = @ \ {plugin}] ELSE i.x
plugin_error_outcome(i, plugin) ==
  IF i.r = "lost" THEN [i.x EXCEPT !.c.broker = @ \ {plugin}] ELSE i.x

error_outcome(copy, i, plugin) ==
  IF copy = "caps" THEN tool_error_outcome(i, plugin) ELSE plugin_error_outcome(i, plugin)

Called(x, call) == [x EXCEPT !.d.ran = @ \cup {call}]

(* shell, patch and file tools are one call; an MCP request may be refused *)
(* before it is sent.                                                      *)
execute_simple(x, call, copy) ==
  {error_outcome(copy, i, Provider(call.tool)) : i \in Invoke(Called(x, call), Provider(call.tool))}
execute_mcp(x, call, copy) == {x} \cup execute_simple(x, call, copy)

(* The turn of a child: started, then completed or reported as failed.     *)
execute_child_agent_turn(x, copy) ==
  UNION {IF i.r # "ok" THEN {error_outcome(copy, i, "multi_agent")}
         ELSE {error_outcome(copy, j, "multi_agent") : j \in Invoke(i.x, "multi_agent")}
         : i \in Invoke(x, "multi_agent")}

(* Listing and interrupting are one call, spawning and a message run the   *)
(* child's turn as well.                                                   *)
execute_agent_tool(x, call, copy) ==
  LET sent == Called(x, call) IN
  CASE call.tool = "agent_message" -> execute_child_agent_turn(sent, copy)
    [] call.tool = "agent_spawn" ->
         UNION {IF i.r = "ok" THEN execute_child_agent_turn(i.x, copy) ELSE {error_outcome(copy, i, "multi_agent")}
                : i \in Invoke(sent, "multi_agent")}
    [] OTHER -> execute_simple(x, call, copy)

(* A failed outcome without a call when the capability is gone; a Skill    *)
(* tool is metadata only.                                                  *)
Execute(x, call, copy) ==
  CASE call.tool = "skill" \/ Provider(call.tool) \notin x.c[copy] -> {x}
    [] call.tool = "mcp" /\ "mcp" \in x.c[copy] -> execute_mcp(x, call, copy)
    [] call.tool \in AgentTools /\ "multi_agent" \in x.c[copy] -> execute_agent_tool(x, call, copy)
    [] OTHER -> execute_simple(x, call, copy)

execute_model_tool(x, call) == Execute(x, call, "caps")
execute_action(x, call) == Execute(x, call, "broker")

(* The catalog the model is offered (catalog_with_skills): tools of the    *)
(* capabilities that are there.  A model may name others all the same.     *)
catalog(capabilities) == {t \in Approvable \cup ReadOnly : Provider(t) \in capabilities}
Nameable(capabilities) == catalog(capabilities) \cup Unoffered

Batches(x) ==
  {[k \in 1..n |-> [id |-> x.d.calls + k, tool |-> tools[k]]] :
      n \in {n \in 1..MaxCalls : x.d.calls + n <= MaxToolCalls},
      tools \in [1..MaxCalls -> Nameable(x.c.caps)]}

WithCalls(x, n) == [x EXCEPT !.d.calls = @ + n]

(***************************************************************************)
(* The compatibility engine: the loop of session.rs.                       *)
(***************************************************************************)
Stopped(x) == [x EXCEPT !.c.continuation = NoContinuation, !.c.pending = NoAction]
append_tool_outcome(x) == [x EXCEPT !.c.continuation.next = @ + 1]

(* A method that ends in a call of the next one answers with its name: the *)
(* session's loop (GoesOn) runs "queue" and "advance" until an answer for  *)
(* the user is reached.                                                    *)
Goes(x, method) == [x |-> x, out |-> method]

(* A reply without calls ends the turn; a model error or a batch that does *)
(* not validate drops the continuation.                                    *)
run_model_loop(x, prompt, round) ==
  {[x |-> Stopped(x), out |-> "error"]}
  \cup {[x |-> y, out |-> "reply"] : y \in FinishTurn(x, prompt)}
  \cup {Goes([WithCalls(x, Len(b)) EXCEPT !.c.continuation =
                [calls |-> b, next |-> 1, round |-> round, prompt |-> prompt]], "queue")
        : b \in Batches(x)}

(* Read-only tools run at once, a call that does not decode is answered    *)
(* with a rejection, every other one waits for the user.                   *)
queue_next_tool_approval(x) ==
  LET call == x.c.continuation.calls[x.c.continuation.next] IN
  IF ~decode_call(x.c.caps, call.tool) THEN {Goes(append_tool_outcome(x), "advance")}
  ELSE IF ~requires_approval(call.tool)
    THEN {Goes(append_tool_outcome(y), "advance") : y \in execute_model_tool(x, call)}
  ELSE {[x |-> [x EXCEPT !.c.pending = [kind |-> "model", call |-> call]],
         out |-> "approval"]}

(* The continuation is taken: put back while calls are left, else the      *)
(* results go to the model, unless that were one round too many.           *)
advance_tool_continuation(x) ==
  LET k == x.c.continuation
      taken == [x EXCEPT !.c.continuation = NoContinuation]
  IN IF k.calls = <<>> THEN {[x |-> x, out |-> "error"]}
     ELSE IF k.next <= Len(k.calls) THEN {Goes(x, "queue")}
     ELSE IF k.round + 1 > MaxRounds THEN {[x |-> taken, out |-> "error"]}
     ELSE run_model_loop(taken, k.prompt, k.round + 1)

GoesOn(r) ==
  CASE r.out = "queue" -> queue_next_tool_approval(r.x)
    [] r.out = "advance" -> advance_tool_continuation(r.x)
    [] OTHER -> {r}

(* A call is queued and answered once, in each of the rounds.              *)
LoopSteps == 2 * MaxCalls * MaxRounds + 1

ToolLoop(outcomes) ==
  LET after[n \in 0..LoopSteps] ==
        IF n = 0 THEN outcomes ELSE UNION {GoesOn(r) : r \in after[n - 1]}
  IN after[LoopSteps]

finish_model_tool_progress(x) ==
  {IF r.out = "error" THEN [r EXCEPT !.x.c.continuation = NoContinuation] ELSE r
   : r \in ToolLoop({Goes(x, "advance")})}

(***************************************************************************)
(* The default engine: SpineController over the agent of AgentSpine.       *)
(***************************************************************************)
(* The loop runs read-only tools through the broker on its way (each may   *)
(* lose the broker's copy of its capability) and ends the turn, fails it,  *)
(* or suspends it on a call the broker decodes and the user must approve.  *)
SpineLoop(x, prompt) ==
  LET Quiet == {t \in Nameable(x.c.broker) \cap ReadOnly : decode_call(x.c.broker, t) /\ x.d.calls < MaxToolCalls}
      Ran == {x} \cup UNION {execute_action(WithCalls(x, 1), [id |-> x.d.calls + 1, tool |-> t]) : t \in Quiet}
  IN UNION {
       {[x |-> [y EXCEPT !.c.spine = [call |-> NoCall, prompt |-> prompt]], out |-> "completed"],
        [x |-> [y EXCEPT !.c.spine = [call |-> NoCall, prompt |-> prompt]], out |-> "error"]}
       \cup {[x |-> [WithCalls(y, 1) EXCEPT !.c.spine =
                       [call |-> [id |-> y.d.calls + 1, tool |-> t], prompt |-> prompt]],
              out |-> "approval"]
             : t \in {t \in Nameable(y.c.broker) : requires_approval(t) /\ decode_call(y.c.broker, t)
                                        /\ y.d.calls < MaxToolCalls}}
       : y \in Ran}

(* The prompt of the turn is kept until the turn is over.                  *)
take_prompt(x) == [x EXCEPT !.c.spine = NoSpineTurn]

(* Mutant: the prompt of a suspended turn is stored as well.               *)
MutantStoresSuspended(outcomes) ==
  UNION {{[x |-> y, out |-> IF r.out = "completed" THEN "reply" ELSE r.out]
          : y \in FinishTurn(r.x, r.x.c.spine.prompt)} : r \in outcomes}

finish_spine_resolution(outcomes) ==
  UNION {CASE r.out = "completed" -> {[x |-> y, out |-> "reply"]
                                      : y \in FinishTurn(take_prompt(r.x), r.x.c.spine.prompt)}
           [] r.out = "error" -> {[x |-> take_prompt(r.x), out |-> "error"]}
           [] OTHER -> {r} : r \in outcomes}

(* resolve: the decision names the pending call; approved it runs, denied  *)
(* it is answered with the denial, and the loop goes on.                   *)
resolve_spine_approval(x, approved) ==
  LET call == x.c.spine.call
      After == IF approved THEN execute_action(x, call) ELSE {x}
  IN finish_spine_resolution(UNION {SpineLoop(y, x.c.spine.prompt) : y \in After})

(***************************************************************************)
(* The session's interface: complete, and the answers of the user.         *)
(***************************************************************************)
has_spine_pending_approval(c) == c.spine.call # NoCall
has_pending_action(c) ==
  c.pending # NoAction \/ c.continuation # NoContinuation \/ has_spine_pending_approval(c)

(* The call that waits for the user (NoCall when there is none).           *)
pending_approval(c) ==
  IF has_spine_pending_approval(c) THEN c.spine.call
  ELSE IF c.pending.kind = "model" THEN c.pending.call ELSE NoCall

complete(x, prompt) ==
  IF has_pending_action(x.c) THEN {[x |-> x, out |-> "refused"]}
  ELSE LET Ready == UNION {assemble_messages(y) : y \in prepare_agent_session(x)} IN
    UNION {
      IF y.c.engine = "legacy" THEN ToolLoop(run_model_loop(y, prompt, 1))
      ELSE UNION {IF r.out = "completed"
                    THEN {[x |-> z, out |-> "reply"] : z \in FinishTurn(r.x, prompt)} ELSE {r}
                  : r \in SpineLoop(y, prompt)}
      : y \in Ready}

(* approve, deny and cancel a model's call.  A legacy approval decodes the *)
(* call again after it was taken: when that fails now, the continuation    *)
(* stays behind.                                                           *)
approve_pending_model_tool(x) ==
  IF has_spine_pending_approval(x.c) THEN resolve_spine_approval(x, TRUE)
  ELSE IF x.c.pending.kind # "model" THEN {[x |-> [x EXCEPT !.c.pending = NoAction],
                                            out |-> "error"]}
  ELSE LET taken == [x EXCEPT !.c.pending = NoAction]
           call == x.c.pending.call
       IN IF ~decode_call(x.c.caps, call.tool) THEN {[x |-> taken, out |-> "error"]}
          ELSE UNION {finish_model_tool_progress(append_tool_outcome(y))
                      : y \in execute_model_tool(taken, call)}

(* Also cancel_pending_model_tool, which records another outcome.          *)
deny_pending_model_tool(x) ==
  IF has_spine_pending_approval(x.c) THEN resolve_spine_approval(x, FALSE)
  ELSE IF x.c.pending.kind # "model" THEN {[x |-> [x EXCEPT !.c.pending = NoAction],
                                            out |-> "error"]}
  ELSE finish_model_tool_progress(append_tool_outcome([x EXCEPT !.c.pending = NoAction]))

(* The actions the user queues at the terminal wait in the same slot.      *)
queue_action(x, kind) ==
  IF has_pending_action(x.c) \/ kind \notin x.c.caps THEN {[x |-> x, out |-> "refused"]}
  ELSE {[x |-> [WithCalls(x, 1) EXCEPT !.c.pending =
                  [kind |-> kind, call |-> [id |-> x.d.calls + 1, tool |-> kind]]],
         out |-> "approval"]}

ManagesModelTool(c) == has_spine_pending_approval(c) \/ c.pending.kind = "model"

approve_action(x) ==
  IF ManagesModelTool(x.c) THEN approve_pending_model_tool(x)
  ELSE IF x.c.pending = NoAction THEN {[x |-> x, out |-> "error"]}
  ELSE {[x |-> y, out |-> "done"]
        : y \in execute_model_tool([x EXCEPT !.c.pending = NoAction], x.c.pending.call)}

deny_action(x) ==
  IF ManagesModelTool(x.c) THEN deny_pending_model_tool(x)
  ELSE {[x |-> [x EXCEPT !.c.pending = NoAction], out |-> "done"]}

(* /new                                                                    *)
NewSession(x) == {[x |-> [x EXCEPT !.c = BeginSession(@, 0)], out |-> "ok"]}

(* /memory approve|reject, /sessions, /mailbox and /mailbox read; marking  *)
(* a letter read may lose the route without the session noticing.          *)
review_memory(x) ==
  {[x |-> y, out |-> "ok"] : y \in AskFor(x, "memory_write", {"memory_write", "memory"})}
list_sessions(x) == {[x |-> y, out |-> "ok"] : y \in AskFor(x, "storage", {"storage"})}
list_mailbox(x) == {[x |-> y, out |-> "ok"] : y \in AskFor(x, "mailbox", {"mailbox"})}
read_mailbox(x) ==
  UNION {{[x |-> i.x, out |-> "ok"] : i \in Invoke(y, "mailbox")} : y \in AskFor(x, "mailbox", {"mailbox"})}

(***************************************************************************)
(* launch: the model plugin must come up; every switched-on optional       *)
(* plugin that does not start or does not get its route is stopped and     *)
(* left out with a notice.  Memory and voice announce a second capability  *)
(* that may be missing alone; MCP and Skills must also answer a discovery. *)
(* Voice and Weixin are started, but the session keeps no capability of    *)
(* theirs.  The spine copies what is there.                                *)
(***************************************************************************)
launch_optional(plugins, switches) == SUBSET (plugins \cap switches)

optional_secondary_capability(plugin, second, switches) ==
  {{}} \cup IF plugin \in switches THEN {{plugin}, {plugin, second}} ELSE {}

Discovered(plugin, switches) ==
  {IF answered THEN up ELSE {} : up \in launch_optional({plugin}, switches), answered \in BOOLEAN}

LaunchContext(switches) == launch_optional({"context", "persona"}, switches)
LaunchMemory(switches) == optional_secondary_capability("memory", "memory_write", switches)
LaunchSessionPlugins(switches) ==
  launch_optional({"storage", "companion", "mailbox", "scheduler"}, switches)
LaunchActions(switches) == launch_optional({"shell", "patch", "files"}, switches)
LaunchMcp(switches) == Discovered("mcp", switches)
LaunchSkills(switches) == Discovered("skills", switches)
LaunchAgents(switches) == launch_optional({"multi_agent"}, switches)

ToolCapabilities == {"shell", "patch", "files", "mcp", "skills", "multi_agent"}

initialize_spine(c, engine) ==
  [c EXCEPT !.engine = engine,
            !.broker = IF engine = "spine" THEN c.caps \cap ToolCapabilities ELSE {}]

FreshSessionRecord(switches, up) ==
  [engine |-> "legacy", switches |-> switches, caps |-> up, broker |-> {},
   active |-> 0, agent |-> 0, first_turn |-> TRUE, proactive |-> 0, pending |-> NoAction,
   continuation |-> NoContinuation, spine |-> NoSpineTurn]

launch(switches, engine) ==
  {initialize_spine(FreshSessionRecord(switches, a \cup b \cup c \cup d \cup e \cup f \cup g), engine)
   : a \in LaunchContext(switches), b \in LaunchMemory(switches),
     c \in LaunchSessionPlugins(switches), d \in LaunchActions(switches),
     e \in LaunchMcp(switches), f \in LaunchSkills(switches), g \in LaunchAgents(switches)}

(* room bounds the sessions that storage creates.                          *)
NoDisk(room) == [room |-> room, sessions |-> <<>>, letters |-> {}, calls |-> 0, ran |-> {}]
=============================================================================
