------------------------------ MODULE WebProofs ------------------------------
(***************************************************************************)
(* For any ways to start the program, any bounds, and in both fronts:      *)
(* answers reach the call they were given for, a turn is stored once and   *)
(* in order, the settings agree with what runs, and the live stream is the *)
(* history.                                                                *)
(*                                                                         *)
(* The proof has two layers, as the model has.  A method of the session    *)
(* leaves a host that keeps the host invariant, and of the calls that need *)
(* the user it has run at most the one the user allowed.  A handler of the *)
(* Web host then keeps the invariant of a world.                           *)
(***************************************************************************)
EXTENDS WebHost, FiniteSetTheorems, SequenceTheorems, NaturalsInduction,
        WellFoundedInduction, TLAPS

Tools == Approvable \cup ReadOnly \cup Unoffered \cup {"none"}
Calls == [id : Nat, tool : Tools]

Capabilities == {"storage", "context", "persona", "memory", "memory_write", "companion",
                 "mailbox", "scheduler", "shell", "patch", "files", "mcp", "skills",
                 "multi_agent"}

Actions == [kind : {"none", "model", "shell", "patch"}, call : Calls]
Continuations == [calls : Seq(Calls), next : Nat, round : Nat, prompt : Nat]
SpineTurns == [call : Calls, prompt : Nat]

Chats == [engine : {"spine", "legacy"}, switches : SUBSET STRING, caps : SUBSET Capabilities,
          broker : SUBSET Capabilities, active : Nat, agent : Nat, first_turn : BOOLEAN,
          proactive : Nat, pending : Actions, continuation : Continuations,
          spine : SpineTurns]

SessionMaps == UNION {[S -> Seq(Nat)] : S \in SUBSET Nat}

Disks == [room : Nat, sessions : SessionMaps, letters : SUBSET (Nat \X Nat), calls : Nat,
          ran : SUBSET Calls]

Hosts == [c : Chats, d : Disks]

(* The turns a storage holds: at most once each, in order.                 *)
Once(stored) ==
  /\ \A s \in DOMAIN stored : \A i, j \in DOMAIN stored[s] : i < j => stored[s][i] < stored[s][j]
  /\ \A s, t \in DOMAIN stored : \A i \in DOMAIN stored[s], j \in DOMAIN stored[t] :
       stored[s][i] = stored[t][j] => s = t

(* All of them are older than turn p.                                      *)
Below(stored, p) == \A s \in DOMAIN stored : \A i \in DOMAIN stored[s] : stored[s][i] < p

(* The turn that is under way, in either engine, was not stored yet.       *)
OpenTurn(stored, p, last) == p <= last /\ Below(stored, p)

SpineOK(c, stored, last) ==
  c.spine.call # NoCall => c.engine = "spine" /\ OpenTurn(stored, c.spine.prompt, last)

ContinuationOK(c, stored, last) ==
  c.continuation # NoContinuation =>
    /\ c.engine = "legacy" /\ c.continuation.calls # <<>> /\ c.continuation.next >= 1
    /\ OpenTurn(stored, c.continuation.prompt, last)

(* What holds of a host after `last` prompts.                              *)
HostOK(x, last) ==
  /\ x \in Hosts
  /\ Once(x.d.sessions)
  /\ Below(x.d.sessions, last + 1)
  /\ SpineOK(x.c, x.d.sessions, last)
  /\ ContinuationOK(x.c, x.d.sessions, last)
  /\ x.c.pending.kind = "model" => x.c.continuation # NoContinuation

(* From x to y no call that needs the user has run, but those in `may`.    *)
RanOnly(x, y, may) ==
  \A call \in y.d.ran : call \in x.d.ran \/ call \in may \/ ~requires_approval(call.tool)

(* A call to a plugin leaves everything of the turn as it is.              *)
Quiet(x, y, may) ==
  /\ y \in Hosts
  /\ y.c.engine = x.c.engine /\ y.c.switches = x.c.switches /\ y.c.active = x.c.active
  /\ y.c.pending = x.c.pending /\ y.c.continuation = x.c.continuation
  /\ y.c.spine = x.c.spine /\ y.d.sessions = x.d.sessions
  /\ RanOnly(x, y, may)

(* A method of the session.                                                *)
Good(x, y, may, last) ==
  /\ HostOK(y, last)
  /\ y.c.engine = x.c.engine /\ y.c.switches = x.c.switches
  /\ RanOnly(x, y, may)

(* No turn is under way.                                                   *)
Idle(x) ==
  x.c.spine.call = NoCall /\ x.c.continuation = NoContinuation /\ x.c.pending.kind # "model"

(* What is announced under number n is older than the next number, and is  *)
(* the pending approval if that has the same number.                       *)
NumberOK(shownWeb, n, call) ==
  /\ n < shownWeb.next
  /\ shownWeb.pending # NoPending /\ n = shownWeb.pending.n => call = shownWeb.pending.call

Messages == [role : {"user", "assistant", "none"}, p : Nat]
Approvals == [n : Nat, session : Nat, call : Calls]
Webs == [history : Seq(Messages), session : Nat, pending : Approvals, next : Nat]
Notices == [kind : {"event", "approval"}, n : Nat, call : Calls]
Gateways == [mux : Seq(Notices), host : Seq(Notices), refused : BOOLEAN]
SettingDocs == [file : SUBSET STRING, memory : SUBSET STRING, torn : BOOLEAN]
TurnEvents == [type : {"turn/start", "user/message", "step/start", "assistant/message",
                       "step/end", "turn/end"}, seq : Nat, message : Messages]
Shown == [n : Nat, call : Calls]
Audits == [shown : SUBSET Shown, allowed : SUBSET Calls, streamed : Seq(TurnEvents)]

Worlds == [x : Hosts, web : Webs, gw : Gateways, set : SettingDocs, audit : Audits, ok : BOOLEAN]

Current(w) ==
  w.web.pending # NoPending => /\ w.web.pending.call = pending_approval(w.x.c)
                               /\ w.web.pending.session = w.web.session
                               /\ w.web.pending.call # NoCall
                               /\ w.web.pending.n < w.web.next
Numbered(w) ==
  /\ \A k \in DOMAIN w.gw.mux :
       w.gw.mux[k].kind = "approval" => NumberOK(w.web, w.gw.mux[k].n, w.gw.mux[k].call)
  /\ \A k \in DOMAIN w.gw.host : w.gw.host[k].kind # "approval"
  /\ \A a \in w.audit.shown : NumberOK(w.web, a.n, a.call)
Asked(w) == \A call \in w.x.d.ran : requires_approval(call.tool) => call \in w.audit.allowed
StreamAt(w, history) ==
  ~w.gw.refused /\ w.web.session # 0 => w.audit.streamed = session_event_values(history)
Agreed(w) == ~w.set.torn => w.set.file = w.set.memory /\ w.set.file = w.x.c.switches

(* What holds of a world of the Web host after `last` prompts, also while  *)
(* a handler runs, and what holds between two requests.                    *)
CoreOK(w, last) ==
  /\ w \in Worlds
  /\ HostOK(w.x, last)
  /\ Current(w) /\ Numbered(w) /\ Asked(w) /\ Agreed(w)
  /\ w.ok \/ w.gw.refused

WorldOK(w, last) == CoreOK(w, last) /\ StreamAt(w, w.web.history)

(* And of one of the terminal, which announces nothing.                    *)
LineOK(w, last) ==
  /\ w \in Worlds
  /\ HostOK(w.x, last)
  /\ Asked(w) /\ Agreed(w)
  /\ w.web.pending = NoPending

WebIInv ==
  /\ run \in Starts /\ prompts \in Nat /\ starts \in Nat
  /\ IF run.front = "web" THEN WorldOK(World, prompts) ELSE LineOK(World, prompts)
----------------------------------------------------------------------------
(***************************************************************************)
(* Calls to plugins leave the turn as it is.                               *)
(***************************************************************************)
LEMMA HostFields ==
  ASSUME NEW x \in Hosts
  PROVE  /\ x = [c |-> x.c, d |-> x.d] /\ x.c \in Chats /\ x.d \in Disks
         /\ x.c.caps \in SUBSET Capabilities /\ x.c.broker \in SUBSET Capabilities
         /\ x.c.engine \in {"spine", "legacy"} /\ x.c.active \in Nat /\ x.c.pending \in Actions
         /\ x.c.continuation \in Continuations /\ x.c.spine \in SpineTurns
         /\ x.c.proactive \in Nat /\ x.d.room \in Nat /\ x.d.sessions \in SessionMaps
         /\ x.d.calls \in Nat /\ x.d.ran \in SUBSET Calls
BY DEF Hosts, Chats, Disks

LEMMA QuietRefl ==
  ASSUME NEW x \in Hosts, NEW may
  PROVE  Quiet(x, x, may)
BY DEF Quiet, RanOnly

LEMMA QuietTrans ==
  ASSUME NEW x, NEW y, NEW z, NEW may, Quiet(x, y, may), Quiet(y, z, may)
  PROVE  Quiet(x, z, may)
<1>1. RanOnly(x, z, may)
  BY DEF Quiet, RanOnly
<1> QED
  BY <1>1 DEF Quiet

LEMMA QuietMore ==
  ASSUME NEW x, NEW y, NEW may, NEW more, may \subseteq more, Quiet(x, y, may)
  PROVE  Quiet(x, y, more)
<1>1. RanOnly(x, y, more)
  BY DEF Quiet, RanOnly
<1> QED
  BY <1>1 DEF Quiet

(* The fields a plugin call may change.                                    *)
LEMMA SetCaps ==
  ASSUME NEW x \in Hosts, NEW S \in SUBSET Capabilities, NEW may
  PROVE  Quiet(x, [x EXCEPT !.c.caps = S], may)
BY HostFields DEF Hosts, Chats, Quiet, RanOnly

LEMMA SetBroker ==
  ASSUME NEW x \in Hosts, NEW S \in SUBSET Capabilities, NEW may
  PROVE  Quiet(x, [x EXCEPT !.c.broker = S], may)
BY HostFields DEF Hosts, Chats, Quiet, RanOnly

LEMMA SetProactive ==
  ASSUME NEW x \in Hosts, NEW n \in Nat, NEW may
  PROVE  Quiet(x, [x EXCEPT !.c.proactive = n], may)
BY HostFields DEF Hosts, Chats, Quiet, RanOnly

LEMMA SetAgent ==
  ASSUME NEW x \in Hosts, NEW n \in Nat, NEW may
  PROVE  Quiet(x, [x EXCEPT !.c.agent = n], may)
BY HostFields DEF Hosts, Chats, Quiet, RanOnly

LEMMA SetFirstTurn ==
  ASSUME NEW x \in Hosts, NEW may
  PROVE  Quiet(x, [x EXCEPT !.c.first_turn = FALSE], may)
BY HostFields DEF Hosts, Chats, Quiet, RanOnly

LEMMA SetLetters ==
  ASSUME NEW x \in Hosts, NEW S \in SUBSET (Nat \X Nat), NEW may
  PROVE  Quiet(x, [x EXCEPT !.d.letters = S], may)
BY HostFields DEF Hosts, Disks, Quiet, RanOnly

LEMMA SetCalls ==
  ASSUME NEW x \in Hosts, NEW n \in Nat, NEW may
  PROVE  Quiet(x, [x EXCEPT !.d.calls = n], may)
BY HostFields DEF Hosts, Disks, Quiet, RanOnly

LEMMA SetRan ==
  ASSUME NEW x \in Hosts, NEW call \in Calls, NEW may,
         requires_approval(call.tool) => call \in may
  PROVE  Quiet(x, Called(x, call), may)
<1> DEFINE y == Called(x, call)
<1>1. y \in Hosts /\ y.c = x.c /\ y.d.sessions = x.d.sessions /\ y.d.ran = x.d.ran \cup {call}
  BY HostFields DEF Hosts, Disks, Called
<1>2. RanOnly(x, y, may)
  BY <1>1 DEF RanOnly
<1> QED
  BY <1>1, <1>2 DEF Quiet

(* A call that is answered, rejected or lost.                              *)
LEMMA InvokeQuiet ==
  ASSUME NEW x \in Hosts, NEW plugin, NEW i \in Invoke(x, plugin)
  PROVE  i.x = x /\ i.r \in {"ok", "rejected", "lost"}
BY DEF Invoke

LEMMA LostQuiet ==
  ASSUME NEW x \in Hosts, NEW plugin, NEW i \in Invoke(x, plugin), NEW S, NEW may
  PROVE  Quiet(x, call_lost_route(i, S), may)
<1>1. i.x = x
  BY InvokeQuiet
<1>2. x.c.caps \ S \in SUBSET Capabilities
  BY HostFields
<1>3. Quiet(x, [x EXCEPT !.c.caps = x.c.caps \ S], may)
  BY <1>2, SetCaps
<1>4. [x EXCEPT !.c.caps = x.c.caps \ S] = [x EXCEPT !.c.caps = @ \ S]
  OBVIOUS
<1> QED
  BY <1>1, <1>3, <1>4, QuietRefl DEF call_lost_route

LEMMA ErrorQuiet ==
  ASSUME NEW x \in Hosts, NEW p, NEW i \in Invoke(x, p), NEW plugin, NEW copy, NEW may
  PROVE  Quiet(x, error_outcome(copy, i, plugin), may)
<1>1. i.x = x
  BY InvokeQuiet
<1>2. x.c.caps \ {plugin} \in SUBSET Capabilities /\ x.c.broker \ {plugin} \in SUBSET Capabilities
  BY HostFields
<1>3. Quiet(x, [x EXCEPT !.c.caps = x.c.caps \ {plugin}], may)
  BY <1>2, SetCaps
<1>4. Quiet(x, [x EXCEPT !.c.broker = x.c.broker \ {plugin}], may)
  BY <1>2, SetBroker
<1>5. /\ [x EXCEPT !.c.caps = x.c.caps \ {plugin}] = [x EXCEPT !.c.caps = @ \ {plugin}]
      /\ [x EXCEPT !.c.broker = x.c.broker \ {plugin}] = [x EXCEPT !.c.broker = @ \ {plugin}]
  OBVIOUS
<1>6. Quiet(x, tool_error_outcome(i, plugin), may)
  BY <1>1, <1>3, <1>5, QuietRefl DEF tool_error_outcome
<1>7. Quiet(x, plugin_error_outcome(i, plugin), may)
  BY <1>1, <1>4, <1>5, QuietRefl DEF plugin_error_outcome
<1> QED
  BY <1>6, <1>7 DEF error_outcome

LEMMA AskForQuiet ==
  ASSUME NEW x \in Hosts, NEW plugin, NEW lost, NEW y \in AskFor(x, plugin, lost), NEW may
  PROVE  Quiet(x, y, may)
BY LostQuiet, QuietRefl DEF AskFor

LEMMA MemoriesQuiet ==
  ASSUME NEW x \in Hosts, NEW y \in extract_turn_memories(x), NEW may
  PROVE  Quiet(x, y, may)
BY LostQuiet, QuietRefl DEF extract_turn_memories

LEMMA EnqueueQuiet ==
  ASSUME NEW x \in Hosts, NEW e \in enqueue_proactive_message(x), NEW may
  PROVE  Quiet(x, e.x, may)
<1>1. CASE "mailbox" \notin x.c.caps
  BY <1>1, QuietRefl DEF enqueue_proactive_message
<1>2. CASE "mailbox" \in x.c.caps
  <2>0. PICK i \in Invoke(x, "mailbox") :
          e = [x |-> IF i.r = "ok"
                 THEN [i.x EXCEPT !.d.letters = @ \cup {<<i.x.c.active, i.x.c.proactive>>}]
                 ELSE call_lost_route(i, {"mailbox"}), queued |-> i.r = "ok"]
    BY <1>2, Zenon DEF enqueue_proactive_message
  <2>1. e.x = IF i.r = "ok" THEN [i.x EXCEPT !.d.letters = @ \cup {<<i.x.c.active, i.x.c.proactive>>}]
              ELSE call_lost_route(i, {"mailbox"})
    BY <2>0, Zenon
  <2>2. i.x = x
    BY InvokeQuiet
  <2> DEFINE S == x.d.letters \cup {<<x.c.active, x.c.proactive>>}
  <2>3. S \in SUBSET (Nat \X Nat)
    BY HostFields DEF Hosts, Disks
  <2>4. Quiet(x, [x EXCEPT !.d.letters = S], may)
    BY <2>3, SetLetters
  <2>5. [i.x EXCEPT !.d.letters = @ \cup {<<i.x.c.active, i.x.c.proactive>>}] = [x EXCEPT !.d.letters = S]
    BY <2>2
  <2> HIDE DEF S
  <2> QED
    BY <2>1, <2>4, <2>5, LostQuiet
<1> QED
  BY <1>1, <1>2

LEMMA ProactiveQuiet ==
  ASSUME NEW x \in Hosts, NEW y \in evaluate_proactive(x), NEW may
  PROVE  Quiet(x, y, may)
<1>1. CASE "scheduler" \notin x.c.caps
  BY <1>1, QuietRefl DEF evaluate_proactive
<1>2. CASE "scheduler" \in x.c.caps
  <2>1. PICK i \in Invoke(x, "scheduler") :
          y \in IF i.r # "ok" THEN {call_lost_route(i, {"scheduler"})}
                ELSE {i.x} \cup {IF e.queued \/ "mailbox" \notin e.x.c.caps
                                   THEN [e.x EXCEPT !.c.proactive = @ + 1] ELSE e.x
                                 : e \in enqueue_proactive_message(i.x)}
    BY <1>2 DEF evaluate_proactive
  <2>2. i.x = x
    BY InvokeQuiet
  <2>3. CASE i.r # "ok"
    BY <2>1, <2>3, LostQuiet
  <2>4. CASE y = x
    BY <2>4, QuietRefl
  <2>5. CASE i.r = "ok" /\ y # x
    <3>1. PICK e \in enqueue_proactive_message(x) :
            y = e.x \/ y = [e.x EXCEPT !.c.proactive = @ + 1]
      BY <2>1, <2>2, <2>5
    <3>2. Quiet(x, e.x, may)
      BY EnqueueQuiet
    <3>3. e.x \in Hosts /\ e.x.c.proactive + 1 \in Nat
      BY <3>2, HostFields DEF Quiet
    <3> DEFINE z == e.x
    <3>4. Quiet(z, [z EXCEPT !.c.proactive = z.c.proactive + 1], may)
      BY <3>3, SetProactive
    <3>5. [z EXCEPT !.c.proactive = z.c.proactive + 1] = [z EXCEPT !.c.proactive = @ + 1]
      OBVIOUS
    <3> QED
      BY <3>1, <3>2, <3>4, <3>5, QuietTrans
  <2> QED
    BY <2>3, <2>4, <2>5
<1> QED
  BY <1>1, <1>2

LEMMA WithCallsQuiet ==
  ASSUME NEW x \in Hosts, NEW n \in Nat, NEW may
  PROVE  Quiet(x, WithCalls(x, n), may)
<1>1. x.d.calls + n \in Nat
  BY HostFields
<1>2. [x EXCEPT !.d.calls = x.d.calls + n] = WithCalls(x, n)
  BY DEF WithCalls
<1> QED
  BY <1>1, <1>2, SetCalls

LEMMA AssembleQuiet ==
  ASSUME NEW x \in Hosts, NEW y \in assemble_messages(x), NEW may
  PROVE  Quiet(x, y, may)
<1>1. PICK a, b, k, p, q :
        /\ a \in AskFor(x, "context", {"context"})
        /\ b \in AskFor(a, "skills", {"skills"})
        /\ k \in IF "persona" \in b.c.caps THEN AskFor(b, "memory", {"memory"}) ELSE {b}
        /\ p \in AskFor(k, "persona", {"persona", "memory"})
        /\ q \in AskFor(p, "companion", {"companion"})
        /\ y = [q EXCEPT !.c.first_turn = FALSE]
  <2> DEFINE Context == AskFor(x, "context", {"context"})
             Skills == UNION {AskFor(g, "skills", {"skills"}) : g \in Context}
             Memory == UNION {IF "persona" \in g.c.caps THEN AskFor(g, "memory", {"memory"}) ELSE {g}
                              : g \in Skills}
             Persona == UNION {AskFor(g, "persona", {"persona", "memory"}) : g \in Memory}
             Companion == UNION {AskFor(g, "companion", {"companion"}) : g \in Persona}
  <2>1. PICK q \in Companion : y = [q EXCEPT !.c.first_turn = FALSE]
    BY Zenon DEF assemble_messages
  <2>2. PICK p \in Persona : q \in AskFor(p, "companion", {"companion"})
    BY <2>1, Zenon
  <2>3. PICK k \in Memory : p \in AskFor(k, "persona", {"persona", "memory"})
    BY <2>2, Zenon
  <2>4. PICK b \in Skills : k \in IF "persona" \in b.c.caps THEN AskFor(b, "memory", {"memory"}) ELSE {b}
    BY <2>3, Zenon
  <2>5. PICK a \in Context : b \in AskFor(a, "skills", {"skills"})
    BY <2>4, Zenon
  <2> QED
    BY <2>1, <2>2, <2>3, <2>4, <2>5, Zenon
<1>2. Quiet(x, a, may)
  BY <1>1, AskForQuiet
<1>3. Quiet(a, b, may)
  BY <1>1, <1>2, AskForQuiet DEF Quiet
<1>4. Quiet(b, k, may)
  BY <1>1, <1>3, AskForQuiet, QuietRefl DEF Quiet
<1>5. Quiet(k, p, may)
  BY <1>1, <1>4, AskForQuiet DEF Quiet
<1>6. Quiet(p, q, may)
  BY <1>1, <1>5, AskForQuiet DEF Quiet
<1>7. Quiet(q, y, may)
  BY <1>1, <1>6, SetFirstTurn DEF Quiet
<1> QED
  BY <1>2, <1>3, <1>4, <1>5, <1>6, <1>7, QuietTrans

(***************************************************************************)
(* Running a tool: at most the call itself runs.                           *)
(***************************************************************************)
LEMMA SimpleQuiet ==
  ASSUME NEW x \in Hosts, NEW call \in Calls, NEW copy, NEW may,
         requires_approval(call.tool) => call \in may,
         NEW y \in execute_simple(x, call, copy)
  PROVE  Quiet(x, y, may)
<1> DEFINE sent == Called(x, call)
<1>1. Quiet(x, sent, may)
  BY SetRan
<1>2. sent \in Hosts
  BY <1>1 DEF Quiet
<1>3. PICK i \in Invoke(sent, Provider(call.tool)) : y = error_outcome(copy, i, Provider(call.tool))
  BY DEF execute_simple
<1> HIDE DEF sent
<1>4. Quiet(sent, y, may)
  BY <1>2, <1>3, ErrorQuiet
<1> QED
  BY <1>1, <1>4, QuietTrans

LEMMA ChildTurnQuiet ==
  ASSUME NEW x \in Hosts, NEW copy, NEW may, NEW y \in execute_child_agent_turn(x, copy)
  PROVE  Quiet(x, y, may)
<1>1. PICK i \in Invoke(x, "multi_agent") :
        y \in IF i.r # "ok" THEN {error_outcome(copy, i, "multi_agent")}
              ELSE {error_outcome(copy, j, "multi_agent") : j \in Invoke(i.x, "multi_agent")}
  BY DEF execute_child_agent_turn
<1>2. i.x = x
  BY InvokeQuiet
<1> QED
  BY <1>1, <1>2, ErrorQuiet

LEMMA AgentToolQuiet ==
  ASSUME NEW x \in Hosts, NEW call \in Calls, NEW copy, NEW may,
         requires_approval(call.tool) => call \in may,
         NEW y \in execute_agent_tool(x, call, copy)
  PROVE  Quiet(x, y, may)
<1> DEFINE sent == Called(x, call)
<1>1. Quiet(x, sent, may)
  BY SetRan
<1>2. sent \in Hosts
  BY <1>1 DEF Quiet
<1>3. CASE call.tool = "agent_message"
  <2>1. y \in execute_child_agent_turn(sent, copy)
    BY <1>3 DEF execute_agent_tool
  <2> HIDE DEF sent
  <2>2. Quiet(sent, y, may)
    BY <1>2, <2>1, ChildTurnQuiet
  <2> QED
    BY <1>1, <2>2, QuietTrans
<1>4. CASE call.tool = "agent_spawn"
  <2>1. PICK i \in Invoke(sent, "multi_agent") :
          y \in IF i.r = "ok" THEN execute_child_agent_turn(i.x, copy)
                ELSE {error_outcome(copy, i, "multi_agent")}
    BY <1>4 DEF execute_agent_tool
  <2> HIDE DEF sent
  <2>2. i.x = sent
    BY <1>2, InvokeQuiet
  <2>3. Quiet(sent, y, may)
    BY <1>2, <2>1, <2>2, ChildTurnQuiet, ErrorQuiet
  <2> QED
    BY <1>1, <2>3, QuietTrans
<1>5. CASE call.tool # "agent_message" /\ call.tool # "agent_spawn"
  <2>1. y \in execute_simple(x, call, copy)
    BY <1>5 DEF execute_agent_tool
  <2> QED
    BY <2>1, SimpleQuiet
<1> QED
  BY <1>3, <1>4, <1>5

LEMMA ExecuteQuiet ==
  ASSUME NEW x \in Hosts, NEW call \in Calls, NEW copy, NEW may,
         requires_approval(call.tool) => call \in may,
         NEW y \in Execute(x, call, copy)
  PROVE  Quiet(x, y, may)
<1>1. CASE call.tool = "skill" \/ Provider(call.tool) \notin x.c[copy]
  <2>0. /\ ~(call.tool = "mcp" /\ "mcp" \in x.c[copy])
        /\ ~(call.tool \in AgentTools /\ "multi_agent" \in x.c[copy])
    BY <1>1 DEF Provider, AgentTools
  <2>1. y = x
    BY <1>1, <2>0, Zenon DEF Execute
  <2> QED
    BY <2>1, QuietRefl
<1>2. CASE call.tool # "skill" /\ Provider(call.tool) \in x.c[copy]
  <2>1. y \in execute_mcp(x, call, copy) \/ y \in execute_agent_tool(x, call, copy)
          \/ y \in execute_simple(x, call, copy)
    BY <1>2 DEF Execute
  <2>2. y = x \/ y \in execute_agent_tool(x, call, copy) \/ y \in execute_simple(x, call, copy)
    BY <2>1 DEF execute_mcp
  <2> QED
    BY <2>2, QuietRefl, SimpleQuiet, AgentToolQuiet
<1> QED
  BY <1>1, <1>2
----------------------------------------------------------------------------
(***************************************************************************)
(* Sessions.                                                               *)
(***************************************************************************)
LEMMA NothingTyped ==
  /\ NoCall \in Calls /\ NoAction \in Actions /\ NoContinuation \in Continuations
  /\ NoSpineTurn \in SpineTurns /\ NoSpineTurn.call = NoCall /\ NoAction.kind = "none"
  /\ NoAction.call = NoCall
<1>1. NoCall \in Calls
  BY DEF NoCall, Calls, Tools
<1>2. NoAction \in Actions /\ NoAction.kind = "none" /\ NoAction.call = NoCall
  BY <1>1 DEF NoAction, Actions
<1>3. NoContinuation \in Continuations
  BY DEF NoContinuation, Continuations
<1>4. NoSpineTurn \in SpineTurns /\ NoSpineTurn.call = NoCall
  BY <1>1 DEF NoSpineTurn, SpineTurns
<1> QED
  BY <1>1, <1>2, <1>3, <1>4

LEMMA IdleOK ==
  ASSUME NEW x \in Hosts, NEW last \in Nat, Once(x.d.sessions), Below(x.d.sessions, last + 1),
         Idle(x)
  PROVE  HostOK(x, last)
BY DEF HostOK, Idle, SpineOK, ContinuationOK

LEMMA QuietGood ==
  ASSUME NEW x, NEW y, NEW may, NEW last \in Nat, HostOK(x, last), Quiet(x, y, may)
  PROVE  Good(x, y, may, last)
BY DEF HostOK, Quiet, Good, SpineOK, ContinuationOK

LEMMA GoodTrans ==
  ASSUME NEW x, NEW y, NEW z, NEW may, NEW last, Good(x, y, may, last), Good(y, z, may, last)
  PROVE  Good(x, z, may, last)
<1>1. RanOnly(x, z, may)
  BY DEF Good, RanOnly
<1> QED
  BY <1>1 DEF Good

LEMMA GoodRefl ==
  ASSUME NEW x, NEW may, NEW last, HostOK(x, last)
  PROVE  Good(x, x, may, last)
BY DEF Good, RanOnly

LEMMA QuietIdle ==
  ASSUME NEW x, NEW y, NEW may, Quiet(x, y, may)
  PROVE  /\ Idle(x) => Idle(y)
         /\ \A p : Below(x.d.sessions, p) => Below(y.d.sessions, p)
         /\ pending_approval(y.c) = pending_approval(x.c)
         /\ has_pending_action(y.c) = has_pending_action(x.c)
<1>1. y.c.spine = x.c.spine /\ y.c.continuation = x.c.continuation /\ y.c.pending = x.c.pending
      /\ y.d.sessions = x.d.sessions
  BY DEF Quiet
<1>2. Idle(x) => Idle(y)
  BY <1>1 DEF Idle
<1>3. pending_approval(y.c) = pending_approval(x.c)
  BY <1>1 DEF pending_approval, has_spine_pending_approval
<1>4. has_pending_action(y.c) = has_pending_action(x.c)
  BY <1>1 DEF has_pending_action, has_spine_pending_approval
<1> QED
  BY <1>1, <1>2, <1>3, <1>4

LEMMA SessionsTyped ==
  ASSUME NEW x \in Hosts
  PROVE  /\ DOMAIN x.d.sessions \subseteq Nat
         /\ \A s \in DOMAIN x.d.sessions : x.d.sessions[s] \in Seq(Nat)
         /\ FreshSession(x.d) \subseteq Nat
<1>1. x.d.sessions \in SessionMaps /\ x.d.room \in Nat
  BY HostFields
<1>2. PICK S \in SUBSET Nat : x.d.sessions \in [S -> Seq(Nat)]
  BY <1>1 DEF SessionMaps
<1>3. FreshSession(x.d) \subseteq Nat
  BY <1>1 DEF FreshSession
<1> QED
  BY <1>2, <1>3

(* Putting the sessions, or the chat, in the place of the old.             *)
WithSessions(x, c, m) == [c |-> c, d |-> [x.d EXCEPT !.sessions = m]]

LEMMA SetSessions ==
  ASSUME NEW x \in Hosts, NEW c \in Chats, NEW m, NEW may, DOMAIN m \in SUBSET Nat,
         m \in [DOMAIN m -> Seq(Nat)]
  PROVE  LET y == WithSessions(x, c, m) IN
         /\ y \in Hosts /\ y.c = c /\ y.d.sessions = m /\ y.d.ran = x.d.ran
         /\ RanOnly(x, y, may)
<1> DEFINE y == WithSessions(x, c, m)
<1>2. m \in SessionMaps
  BY DEF SessionMaps
<1>3. x.d \in Disks
  BY HostFields
<1>4. y.d \in Disks /\ y.d.sessions = m /\ y.d.ran = x.d.ran /\ y.c = c
  BY <1>2, <1>3 DEF Disks, WithSessions
<1>5. y \in Hosts
  BY <1>4 DEF Hosts, WithSessions
<1>6. RanOnly(x, y, may)
  BY <1>4 DEF RanOnly
<1> QED
  BY <1>4, <1>5, <1>6

LEMMA SetChat ==
  ASSUME NEW x \in Hosts, NEW c \in Chats, NEW may
  PROVE  LET y == [x EXCEPT !.c = c] IN
         y \in Hosts /\ y.c = c /\ y.d = x.d /\ RanOnly(x, y, may)
BY DEF Hosts, RanOnly

LEMMA BeginOK ==
  ASSUME NEW c \in Chats, NEW id \in Nat
  PROVE  LET b == BeginSession(c, id) IN
         /\ b \in Chats /\ b.engine = c.engine /\ b.switches = c.switches /\ b.active = id
         /\ b.spine = NoSpineTurn /\ b.pending = NoAction /\ b.continuation = NoContinuation
         /\ pending_approval(b) = NoCall
<1> DEFINE b == BeginSession(c, id)
<1>1. /\ b \in Chats /\ b.engine = c.engine /\ b.switches = c.switches /\ b.active = id
      /\ b.spine = NoSpineTurn /\ b.pending = NoAction /\ b.continuation = NoContinuation
  BY NothingTyped DEF BeginSession, reset_spine, Chats
<1> HIDE DEF b
<1>2. pending_approval(b) = NoCall
  BY <1>1, NothingTyped DEF pending_approval, has_spine_pending_approval
<1> QED
  BY <1>1, <1>2 DEF b

(* A session that begins has no turn under way.                            *)
LEMMA BegunOK ==
  ASSUME NEW x \in Hosts, NEW y \in Hosts, NEW c \in Chats, NEW id \in Nat, NEW last \in Nat,
         NEW may, y.c = BeginSession(c, id), c.engine = x.c.engine, c.switches = x.c.switches,
         Once(y.d.sessions), Below(y.d.sessions, last + 1), RanOnly(x, y, may)
  PROVE  Good(x, y, may, last) /\ Idle(y) /\ pending_approval(y.c) = NoCall
<1>1. /\ y.c.engine = x.c.engine /\ y.c.switches = x.c.switches /\ pending_approval(y.c) = NoCall
      /\ y.c.spine = NoSpineTurn /\ y.c.pending = NoAction /\ y.c.continuation = NoContinuation
  BY BeginOK
<1>2. Idle(y)
  BY <1>1, NothingTyped DEF Idle
<1>3. HostOK(y, last)
  BY <1>2, IdleOK
<1> QED
  BY <1>1, <1>2, <1>3 DEF Good

LEMMA EmptySession ==
  ASSUME NEW s, NEW n \in Nat, NEW last, Once(s), Below(s, last), DOMAIN s \subseteq Nat,
         \A k \in DOMAIN s : s[k] \in Seq(Nat)
  PROVE  LET t == [k \in DOMAIN s \cup {n} |-> IF k = n THEN <<>> ELSE s[k]] IN
         /\ Once(t) /\ Below(t, last) /\ DOMAIN t \subseteq Nat
         /\ \A k \in DOMAIN t : t[k] \in Seq(Nat)
<1> DEFINE t == [k \in DOMAIN s \cup {n} |-> IF k = n THEN <<>> ELSE s[k]]
<1>1. DOMAIN t = DOMAIN s \cup {n} /\ \A k \in DOMAIN t : t[k] = IF k = n THEN <<>> ELSE s[k]
  OBVIOUS
<1>2. \A k \in DOMAIN t : t[k] \in Seq(Nat)
  BY <1>1
<1>3. \A k \in DOMAIN t : \A i \in DOMAIN t[k] : k \in DOMAIN s /\ t[k] = s[k]
  BY <1>1
<1> HIDE DEF t
<1>4. Below(t, last)
  BY <1>3 DEF Below
<1>5. Once(t)
  BY <1>3 DEF Once
<1> QED
  BY <1>1, <1>2, <1>4, <1>5 DEF t

LEMMA CreateGood ==
  ASSUME NEW x, NEW last \in Nat, NEW may, HostOK(x, last), NEW r \in create_web_session(x)
  PROVE  /\ Good(x, r.x, may, last)
         /\ Idle(x) => Idle(r.x)
         /\ \A p : Below(x.d.sessions, p) => Below(r.x.d.sessions, p)
         /\ IF r.out = "ok" THEN pending_approval(r.x.c) = NoCall ELSE Quiet(x, r.x, may)
<1>0. x \in Hosts /\ Once(x.d.sessions) /\ Below(x.d.sessions, last + 1)
  BY DEF HostOK
<1>1. CASE "storage" \notin x.c.caps
  <2>1. r = [x |-> x, out |-> "unavailable"]
    BY <1>1 DEF create_web_session
  <2>2. r.x = x /\ r.out = "unavailable"
    BY <2>1
  <2> QED
    BY <1>0, <2>2, GoodRefl, QuietRefl
<1>2. CASE "storage" \in x.c.caps
  <2>1. PICK i \in Invoke(x, "storage") :
          r \in IF i.r # "ok" THEN {[x |-> call_lost_route(i, {"storage"}), out |-> "error"]}
                ELSE {[x |-> [c |-> BeginSession(i.x.c, n),
                              d |-> [i.x.d EXCEPT !.sessions = [k \in DOMAIN @ \cup {n} |->
                                                                IF k = n THEN <<>> ELSE @[k]]]],
                       out |-> "ok"] : n \in FreshSession(i.x.d)}
    BY <1>2, Zenon DEF create_web_session
  <2>2. i.x = x
    BY <1>0, InvokeQuiet
  <2>3. CASE i.r # "ok"
    <3>1. r.x = call_lost_route(i, {"storage"}) /\ r.out = "error"
      BY <2>1, <2>3
    <3>2. Quiet(x, r.x, may)
      BY <1>0, <3>1, LostQuiet
    <3> QED
      BY <3>1, <3>2, QuietGood, QuietIdle
  <2>4. CASE i.r = "ok"
    <3> DEFINE s == x.d.sessions
    <3>1. PICK n \in FreshSession(x.d) :
            r = [x |-> [c |-> BeginSession(x.c, n),
                        d |-> [x.d EXCEPT !.sessions = [k \in DOMAIN s \cup {n} |->
                                                          IF k = n THEN <<>> ELSE s[k]]]],
                 out |-> "ok"]
      BY <2>1, <2>2, <2>4, Zenon
    <3> DEFINE t == [k \in DOMAIN s \cup {n} |-> IF k = n THEN <<>> ELSE s[k]]
               c == BeginSession(x.c, n)
               y == WithSessions(x, c, t)
    <3>2. r.x = y /\ r.out = "ok"
      BY <3>1, Zenon DEF WithSessions
    <3>3. n \in Nat /\ DOMAIN s \subseteq Nat /\ \A k \in DOMAIN s : s[k] \in Seq(Nat)
      BY <1>0, SessionsTyped
    <3>4. x.c \in Chats /\ c \in Chats
      BY <1>0, <3>3, HostFields, BeginOK
    <3>5. \A p : Below(s, p) => /\ Once(t) /\ Below(t, p) /\ DOMAIN t \subseteq Nat
                                /\ \A k \in DOMAIN t : t[k] \in Seq(Nat)
      <4> HIDE DEF s
      <4>1. Once(s)
        BY <1>0 DEF s
      <4> QED
        BY <3>3, <4>1, EmptySession
    <3>6. t = [k \in DOMAIN t |-> t[k]]
      OBVIOUS
    <3>7. /\ t \in [DOMAIN t -> Seq(Nat)] /\ DOMAIN t \in SUBSET Nat
      BY <1>0, <3>5, <3>6
    <3>7a. Once(t) /\ Below(t, last + 1)
      BY <1>0, <3>5
    <3> HIDE DEF t, c
    <3>8. y \in Hosts /\ y.c = c /\ y.d.sessions = t /\ RanOnly(x, y, may)
      BY <1>0, <3>4, <3>7, SetSessions
    <3> HIDE DEF y
    <3>9. y.c = BeginSession(x.c, n) /\ Once(y.d.sessions) /\ Below(y.d.sessions, last + 1)
      BY <3>7a, <3>8 DEF c
    <3>10. Good(x, y, may, last) /\ Idle(y) /\ pending_approval(y.c) = NoCall
      BY <1>0, <3>3, <3>4, <3>8, <3>9, BegunOK
    <3> QED
      BY <3>2, <3>5, <3>8, <3>10
  <2> QED
    BY <2>3, <2>4
<1> QED
  BY <1>1, <1>2

LEMMA ActivateGood ==
  ASSUME NEW x, NEW id \in Nat, NEW last \in Nat, NEW may, HostOK(x, last),
         NEW r \in activate_web_session(x, id)
  PROVE  /\ Good(x, r.x, may, last) /\ r.x.d = x.d
         /\ IF r.out = "ok" THEN pending_approval(r.x.c) = NoCall /\ id \in DOMAIN r.x.d.sessions
            ELSE Quiet(x, r.x, may)
<1>0. x \in Hosts /\ Once(x.d.sessions) /\ Below(x.d.sessions, last + 1)
  BY DEF HostOK
<1>1. CASE "storage" \notin x.c.caps
  <2>1. r.x = x /\ r.out = "unavailable"
    BY <1>1 DEF activate_web_session
  <2> QED
    BY <1>0, <2>1, GoodRefl, QuietRefl
<1>2. CASE "storage" \in x.c.caps
  <2>1. PICK i \in Invoke(x, "storage") :
          r = CASE i.r # "ok" -> [x |-> call_lost_route(i, {"storage"}), out |-> "error"]
                [] i.r = "ok" /\ id \notin DOMAIN i.x.d.sessions -> [x |-> i.x, out |-> "not_found"]
                [] OTHER -> [x |-> [i.x EXCEPT !.c = BeginSession(@, id)], out |-> "ok"]
    BY <1>2, Zenon DEF activate_web_session
  <2>2. i.x = x
    BY <1>0, InvokeQuiet
  <2>3. CASE i.r # "ok"
    <3>1. r.x = call_lost_route(i, {"storage"}) /\ r.out = "error"
      BY <2>1, <2>3
    <3>2. Quiet(x, r.x, may)
      BY <1>0, <3>1, LostQuiet
    <3>3. r.x.d = x.d
      BY <1>0, <2>2, <3>1 DEF call_lost_route, Hosts
    <3> QED
      BY <3>1, <3>2, <3>3, QuietGood
  <2>4. CASE i.r = "ok" /\ id \notin DOMAIN x.d.sessions
    <3>1. r.x = x /\ r.out = "not_found"
      BY <2>1, <2>2, <2>4
    <3> QED
      BY <1>0, <3>1, GoodRefl, QuietRefl
  <2>5. CASE i.r = "ok" /\ id \in DOMAIN x.d.sessions
    <3> DEFINE c == BeginSession(x.c, id)
               y == [x EXCEPT !.c = c]
    <3>1. r = [x |-> [i.x EXCEPT !.c = BeginSession(@, id)], out |-> "ok"]
      BY <2>1, <2>2, <2>5
    <3>2. r.x = y /\ r.out = "ok"
      BY <2>2, <3>1
    <3>3. x.c \in Chats /\ c \in Chats
      BY <1>0, HostFields, BeginOK
    <3> HIDE DEF c
    <3>4. y \in Hosts /\ y.c = c /\ y.d = x.d /\ RanOnly(x, y, may)
      BY <1>0, <3>3, SetChat
    <3> HIDE DEF y
    <3>5. y.c = BeginSession(x.c, id) /\ Once(y.d.sessions) /\ Below(y.d.sessions, last + 1)
      BY <1>0, <3>4 DEF c
    <3>6. Good(x, y, may, last) /\ pending_approval(y.c) = NoCall
      BY <1>0, <3>3, <3>4, <3>5, BegunOK
    <3> QED
      BY <2>5, <3>2, <3>4, <3>6
  <2> QED
    BY <2>3, <2>4, <2>5
<1> QED
  BY <1>1, <1>2

(* A turn newer than all that are stored keeps them in order.              *)
LEMMA StoreTurn ==
  ASSUME NEW s, NEW n \in Nat, NEW p \in Nat, Once(s), Below(s, p), DOMAIN s \subseteq Nat,
         \A k \in DOMAIN s : s[k] \in Seq(Nat)
  PROVE  LET t == [k \in DOMAIN s \cup {n} |->
                     IF k # n THEN s[k]
                     ELSE IF n \in DOMAIN s THEN Append(s[n], p) ELSE <<p>>] IN
         /\ Once(t) /\ Below(t, p + 1) /\ DOMAIN t \subseteq Nat
         /\ \A k \in DOMAIN t : t[k] \in Seq(Nat)
<1> DEFINE t == [k \in DOMAIN s \cup {n} |->
                   IF k # n THEN s[k] ELSE IF n \in DOMAIN s THEN Append(s[n], p) ELSE <<p>>]
<1>1. DOMAIN t = DOMAIN s \cup {n}
  OBVIOUS
<1>2. \A k \in DOMAIN t : t[k] = IF k # n THEN s[k]
                                 ELSE IF n \in DOMAIN s THEN Append(s[n], p) ELSE <<p>>
  BY <1>1, Zenon
<1> HIDE DEF t
<1>3. \A k \in DOMAIN t : t[k] \in Seq(Nat)
  <2> TAKE k \in DOMAIN t
  <2>1. CASE k # n
    BY <1>1, <1>2, <2>1
  <2>2. CASE k = n /\ n \notin DOMAIN s
    <3>1. t[k] = <<p>>
      BY <1>2, <2>2
    <3> QED
      BY <3>1
  <2>3. CASE k = n /\ n \in DOMAIN s
    <3>1. t[k] = Append(s[n], p) /\ s[n] \in Seq(Nat)
      BY <1>2, <2>3
    <3> QED
      BY <3>1
  <2> QED
    BY <2>1, <2>2, <2>3
<1>4. \A k \in DOMAIN t : \A i \in DOMAIN t[k] :
        \/ k \in DOMAIN s /\ i \in DOMAIN s[k] /\ t[k][i] = s[k][i]
        \/ k = n /\ t[k][i] = p /\ i \in Nat
             /\ \A j \in DOMAIN t[k] : j # i => j \in DOMAIN s[k] /\ k \in DOMAIN s /\ j < i
  <2> SUFFICES ASSUME NEW k \in DOMAIN t, NEW i \in DOMAIN t[k]
               PROVE  \/ k \in DOMAIN s /\ i \in DOMAIN s[k] /\ t[k][i] = s[k][i]
                      \/ k = n /\ t[k][i] = p /\ i \in Nat
                           /\ \A j \in DOMAIN t[k] : j # i => j \in DOMAIN s[k] /\ k \in DOMAIN s /\ j < i
    OBVIOUS
  <2>1. CASE k # n
    BY <1>1, <1>2, <2>1
  <2>2. CASE k = n /\ n \notin DOMAIN s
    <3>1. t[k] = <<p>>
      BY <1>2, <2>2
    <3> QED
      BY <2>2, <3>1
  <2>3. CASE k = n /\ n \in DOMAIN s
    <3>1. t[k] = Append(s[n], p) /\ s[n] \in Seq(Nat)
      BY <1>2, <2>3
    <3> QED
      BY <2>3, <3>1
  <2> QED
    BY <2>1, <2>2, <2>3
<1>5. \A k \in DOMAIN s : \A i \in DOMAIN s[k] : s[k][i] \in Nat /\ s[k][i] < p
  BY DEF Below
<1>6. Below(t, p + 1)
  BY <1>4, <1>5 DEF Below
<1>7. \A k \in DOMAIN t : \A i, j \in DOMAIN t[k] : i < j => t[k][i] < t[k][j]
  <2> SUFFICES ASSUME NEW k \in DOMAIN t, NEW i \in DOMAIN t[k], NEW j \in DOMAIN t[k], i < j
               PROVE  t[k][i] < t[k][j]
    OBVIOUS
  <2>1. t[k] \in Seq(Nat) /\ i \in Nat /\ j \in Nat /\ i # j /\ ~(j < i)
    BY <1>3
  <2>2. k \in DOMAIN s /\ i \in DOMAIN s[k] /\ t[k][i] = s[k][i]
    BY <1>4, <2>1
  <2>3. CASE j \in DOMAIN s[k] /\ t[k][j] = s[k][j]
    BY <2>2, <2>3 DEF Once
  <2>4. CASE t[k][j] = p
    BY <1>5, <2>2, <2>4
  <2> QED
    BY <1>4, <2>3, <2>4
<1>8. \A a, b \in DOMAIN t : \A i \in DOMAIN t[a], j \in DOMAIN t[b] : t[a][i] = t[b][j] => a = b
  <2> SUFFICES ASSUME NEW a \in DOMAIN t, NEW b \in DOMAIN t, NEW i \in DOMAIN t[a],
                      NEW j \in DOMAIN t[b], t[a][i] = t[b][j]
               PROVE  a = b
    OBVIOUS
  <2>1. CASE a = n /\ t[a][i] = p
    <3>1. b = n \/ (b \in DOMAIN s /\ j \in DOMAIN s[b] /\ s[b][j] = p)
      BY <1>4, <2>1
    <3> QED
      BY <1>5, <2>1, <3>1
  <2>2. CASE a \in DOMAIN s /\ i \in DOMAIN s[a] /\ t[a][i] = s[a][i]
    <3>1. t[b][j] # p
      BY <1>5, <2>2
    <3>2. b \in DOMAIN s /\ j \in DOMAIN s[b] /\ t[b][j] = s[b][j]
      BY <1>4, <3>1
    <3> QED
      BY <2>2, <3>2 DEF Once
  <2> QED
    BY <1>4, <2>1, <2>2
<1>9. Once(t)
  BY <1>7, <1>8 DEF Once
<1> QED
  BY <1>1, <1>3, <1>6, <1>9 DEF t
----------------------------------------------------------------------------
(***************************************************************************)
(* The end of a turn.                                                      *)
(***************************************************************************)
(* A host at the end of turn p: nothing else is under way, and p is new.   *)
TurnOK(x, p, last) ==
  HostOK(x, last) /\ Idle(x) /\ p \in Nat /\ OpenTurn(x.d.sessions, p, last)

LEMMA QuietTurn ==
  ASSUME NEW x, NEW y, NEW may, NEW p, NEW last \in Nat, TurnOK(x, p, last), Quiet(x, y, may)
  PROVE  TurnOK(y, p, last)
<1>1. HostOK(y, last)
  BY QuietGood DEF TurnOK, Good
<1>2. Idle(y) /\ y.d.sessions = x.d.sessions
  BY QuietIdle DEF TurnOK, Quiet
<1> QED
  BY <1>1, <1>2 DEF TurnOK

LEMMA SetActive ==
  ASSUME NEW c \in Chats, NEW n \in Nat
  PROVE  LET b == [c EXCEPT !.active = n] IN
         /\ b \in Chats /\ b.engine = c.engine /\ b.switches = c.switches
         /\ b.spine = c.spine /\ b.pending = c.pending /\ b.continuation = c.continuation
BY DEF Chats

LEMMA PersistGood ==
  ASSUME NEW x, NEW p, NEW last \in Nat, NEW may, TurnOK(x, p, last),
         NEW y \in persist_turn(x, p)
  PROVE  Good(x, y, may, last) /\ Idle(y)
<1>0. /\ x \in Hosts /\ Once(x.d.sessions) /\ HostOK(x, last) /\ Idle(x) /\ p \in Nat
      /\ p <= last /\ Below(x.d.sessions, p)
  BY DEF TurnOK, HostOK, OpenTurn
<1>1. CASE "storage" \notin x.c.caps
  <2>1. y = x
    BY <1>1 DEF persist_turn
  <2> QED
    BY <1>0, <2>1, GoodRefl
<1>2. CASE "storage" \in x.c.caps
  <2>1. PICK i \in Invoke(x, "storage") :
          y \in IF i.r # "ok" THEN {call_lost_route(i, {"storage"})}
                ELSE {[c |-> [i.x.c EXCEPT !.active = n],
                       d |-> [i.x.d EXCEPT !.sessions = [k \in DOMAIN @ \cup {n} |->
                               IF k # n THEN @[k]
                               ELSE IF n \in DOMAIN @ THEN Append(@[n], p) ELSE <<p>>]]]
                     : n \in IF i.x.c.active # 0 THEN {i.x.c.active} ELSE FreshSession(i.x.d)}
    BY <1>2, Zenon DEF persist_turn
  <2>2. i.x = x
    BY <1>0, InvokeQuiet
  <2>3. CASE i.r # "ok"
    <3>1. Quiet(x, y, may)
      BY <1>0, <2>1, <2>3, LostQuiet
    <3> QED
      BY <1>0, <3>1, QuietGood, QuietIdle
  <2>4. CASE i.r = "ok"
    <3> DEFINE s == x.d.sessions
    <3>1. PICK n \in IF x.c.active # 0 THEN {x.c.active} ELSE FreshSession(x.d) :
            y = [c |-> [x.c EXCEPT !.active = n],
                 d |-> [x.d EXCEPT !.sessions = [k \in DOMAIN s \cup {n} |->
                          IF k # n THEN s[k]
                          ELSE IF n \in DOMAIN s THEN Append(s[n], p) ELSE <<p>>]]]
      BY <2>1, <2>2, <2>4, Zenon
    <3> DEFINE t == [k \in DOMAIN s \cup {n} |->
                       IF k # n THEN s[k]
                       ELSE IF n \in DOMAIN s THEN Append(s[n], p) ELSE <<p>>]
               c == [x.c EXCEPT !.active = n]
    <3>2. y = WithSessions(x, c, t)
      BY <3>1, Zenon DEF WithSessions
    <3>3. n \in Nat /\ DOMAIN s \subseteq Nat /\ \A k \in DOMAIN s : s[k] \in Seq(Nat)
      BY <1>0, SessionsTyped, HostFields
    <3>4. /\ c \in Chats /\ c.engine = x.c.engine /\ c.switches = x.c.switches
          /\ c.spine = x.c.spine /\ c.pending = x.c.pending
          /\ c.continuation = x.c.continuation
      BY <1>0, <3>3, HostFields, SetActive
    <3>5. /\ Once(t) /\ Below(t, p + 1) /\ DOMAIN t \subseteq Nat
          /\ \A k \in DOMAIN t : t[k] \in Seq(Nat)
      <4>1. Once(s) /\ Below(s, p) /\ p \in Nat
        BY <1>0
      <4> HIDE DEF s
      <4> QED
        BY <3>3, <4>1, StoreTurn
    <3>6. t = [k \in DOMAIN t |-> t[k]]
      OBVIOUS
    <3> HIDE DEF t, c
    <3>7. t \in [DOMAIN t -> Seq(Nat)] /\ DOMAIN t \in SUBSET Nat
      BY <3>5, <3>6
    <3>8. y \in Hosts /\ y.c = c /\ y.d.sessions = t /\ RanOnly(x, y, may)
      BY <1>0, <3>2, <3>4, <3>7, SetSessions
    <3>9. Below(t, last + 1)
      <4>1. p + 1 <= last + 1
        BY <1>0
      <4>2. \A k \in DOMAIN t : \A j \in DOMAIN t[k] : t[k][j] \in Nat
        BY <3>5
      <4> QED
        BY <1>0, <3>5, <4>1, <4>2 DEF Below
    <3>10. Idle(y)
      BY <1>0, <3>4, <3>8 DEF Idle
    <3>11. HostOK(y, last)
      BY <3>5, <3>8, <3>9, <3>10, IdleOK
    <3> QED
      BY <3>4, <3>8, <3>10, <3>11 DEF Good
  <2> QED
    BY <2>3, <2>4
<1> QED
  BY <1>1, <1>2

LEMMA FinishGood ==
  ASSUME NEW x, NEW p, NEW last \in Nat, NEW may, TurnOK(x, p, last),
         NEW z \in FinishTurn(x, p)
  PROVE  Good(x, z, may, last) /\ Idle(z)
<1>0. PICK y \in persist_turn(x, p) : \E m \in extract_turn_memories(y) : z \in evaluate_proactive(m)
  <2> DEFINE After(y) == UNION {evaluate_proactive(m) : m \in extract_turn_memories(y)}
  <2>1. PICK y \in persist_turn(x, p) : z \in After(y)
    BY Zenon DEF FinishTurn
  <2> QED
    BY <2>1, Zenon
<1>1. PICK m \in extract_turn_memories(y) : z \in evaluate_proactive(m)
  BY <1>0
<1>2. Good(x, y, may, last) /\ Idle(y)
  BY <1>1, PersistGood
<1>3. HostOK(y, last) /\ y \in Hosts
  BY <1>2 DEF Good, HostOK
<1>4. Quiet(y, m, may)
  BY <1>1, <1>3, MemoriesQuiet
<1>5. Quiet(m, z, may)
  BY <1>1, <1>4, ProactiveQuiet DEF Quiet
<1>6. Quiet(y, z, may)
  BY <1>4, <1>5, QuietTrans
<1>7. Good(y, z, may, last) /\ Idle(z)
  BY <1>2, <1>3, <1>6, QuietGood, QuietIdle
<1> QED
  BY <1>2, <1>7, GoodTrans

LEMMA PrepareGood ==
  ASSUME NEW x, NEW last \in Nat, NEW may, HostOK(x, last), Idle(x),
         NEW y \in prepare_agent_session(x)
  PROVE  /\ Good(x, y, may, last) /\ Idle(y)
         /\ \A p : Below(x.d.sessions, p) => Below(y.d.sessions, p)
<1>0. x \in Hosts
  BY DEF HostOK
<1>1. CASE y = x
  BY <1>1, GoodRefl
<1>2. CASE y = [x EXCEPT !.c.agent = x.c.active]
  <2>1. Quiet(x, y, may)
    BY <1>0, <1>2, SetAgent, HostFields
  <2> QED
    BY <2>1, QuietGood, QuietIdle
<1>3. CASE \E r \in create_web_session(x) : y = r.x
  BY <1>3, CreateGood
<1> QED
  BY <1>1, <1>2, <1>3 DEF prepare_agent_session

(***************************************************************************)
(* The loop of the compatibility engine.                                   *)
(***************************************************************************)
(* An answer that another method goes on with.                             *)
Going(r) ==
  /\ r = [x |-> r.x, out |-> r.out]
  /\ r.out = "error" => r.x.c.pending.kind # "model"
  /\ r.out \in {"queue", "advance"} =>
       /\ r.x.c.pending.kind # "model" /\ r.x.c.continuation # NoContinuation
       /\ r.out = "queue" => r.x.c.continuation.next <= Len(r.x.c.continuation.calls)

LEMMA SetContinuation ==
  ASSUME NEW x \in Hosts, NEW k \in Continuations, NEW may
  PROVE  LET y == [x EXCEPT !.c.continuation = k] IN
         /\ y \in Hosts /\ y.c.engine = x.c.engine /\ y.c.switches = x.c.switches
         /\ y.c.active = x.c.active /\ y.c.pending = x.c.pending /\ y.c.continuation = k
         /\ y.c.spine = x.c.spine /\ y.d = x.d /\ RanOnly(x, y, may)
BY HostFields DEF Hosts, Chats, RanOnly

LEMMA SetPending ==
  ASSUME NEW x \in Hosts, NEW a \in Actions, NEW may
  PROVE  LET y == [x EXCEPT !.c.pending = a] IN
         /\ y \in Hosts /\ y.c.engine = x.c.engine /\ y.c.switches = x.c.switches
         /\ y.c.active = x.c.active /\ y.c.pending = a /\ y.c.continuation = x.c.continuation
         /\ y.c.spine = x.c.spine /\ y.d = x.d /\ RanOnly(x, y, may)
BY HostFields DEF Hosts, Chats, RanOnly

LEMMA SetSpine ==
  ASSUME NEW x \in Hosts, NEW s \in SpineTurns, NEW may
  PROVE  LET y == [x EXCEPT !.c.spine = s] IN
         /\ y \in Hosts /\ y.c.engine = x.c.engine /\ y.c.switches = x.c.switches
         /\ y.c.active = x.c.active /\ y.c.pending = x.c.pending
         /\ y.c.continuation = x.c.continuation
         /\ y.c.spine = s /\ y.d = x.d /\ RanOnly(x, y, may)
BY HostFields DEF Hosts, Chats, RanOnly

(* Giving up a continuation, or the pending action with it.                *)
LEMMA DropGood ==
  ASSUME NEW x, NEW last \in Nat, NEW may, HostOK(x, last), x.c.pending.kind # "model"
  PROVE  LET y == [x EXCEPT !.c.continuation = NoContinuation] IN
         /\ Good(x, y, may, last) /\ y.c.continuation = NoContinuation
         /\ y.c.pending = x.c.pending /\ y.c.spine = x.c.spine /\ y.d = x.d
<1> DEFINE y == [x EXCEPT !.c.continuation = NoContinuation]
<1>0. x \in Hosts
  BY DEF HostOK
<1>1. /\ y \in Hosts /\ y.c.engine = x.c.engine /\ y.c.switches = x.c.switches
      /\ y.c.pending = x.c.pending /\ y.c.continuation = NoContinuation
      /\ y.c.spine = x.c.spine /\ y.d = x.d /\ RanOnly(x, y, may)
  BY <1>0, NothingTyped, SetContinuation
<1> HIDE DEF y
<1>2. HostOK(y, last)
  BY <1>1 DEF HostOK, SpineOK, ContinuationOK
<1> QED
  BY <1>1, <1>2 DEF Good, y

LEMMA ClearGood ==
  ASSUME NEW x, NEW last \in Nat, NEW may, HostOK(x, last)
  PROVE  LET y == [x EXCEPT !.c.pending = NoAction] IN
         /\ Good(x, y, may, last) /\ y.c.pending = NoAction
         /\ y.c.continuation = x.c.continuation /\ y.c.spine = x.c.spine /\ y.d = x.d
<1> DEFINE y == [x EXCEPT !.c.pending = NoAction]
<1>0. x \in Hosts
  BY DEF HostOK
<1>1. /\ y \in Hosts /\ y.c.engine = x.c.engine /\ y.c.switches = x.c.switches
      /\ y.c.pending = NoAction /\ y.c.continuation = x.c.continuation
      /\ y.c.spine = x.c.spine /\ y.d = x.d /\ RanOnly(x, y, may)
  BY <1>0, NothingTyped, SetPending
<1> HIDE DEF y
<1>2. HostOK(y, last)
  BY <1>1, NothingTyped DEF HostOK, SpineOK, ContinuationOK
<1> QED
  BY <1>1, <1>2 DEF Good, y

LEMMA StoppedGood ==
  ASSUME NEW x, NEW last \in Nat, NEW may, HostOK(x, last)
  PROVE  /\ Good(x, Stopped(x), may, last)
         /\ Stopped(x).c.pending = NoAction /\ Stopped(x).c.continuation = NoContinuation
         /\ Stopped(x).c.spine = x.c.spine
<1> DEFINE y == [x EXCEPT !.c.pending = NoAction]
           z == [y EXCEPT !.c.continuation = NoContinuation]
<1>1. Stopped(x) = z
  BY DEF Stopped, HostOK, Hosts, Chats
<1>2. Good(x, y, may, last) /\ y.c.pending = NoAction /\ y.c.spine = x.c.spine
  BY ClearGood
<1>3. HostOK(y, last) /\ y.c.pending.kind # "model"
  BY <1>2, NothingTyped DEF Good
<1> HIDE DEF y
<1>4. Good(y, z, may, last) /\ z.c.continuation = NoContinuation /\ z.c.pending = y.c.pending
      /\ z.c.spine = y.c.spine
  BY <1>3, DropGood
<1> HIDE DEF z
<1>5. Good(x, z, may, last)
  BY <1>2, <1>4, GoodTrans
<1> QED
  BY <1>1, <1>2, <1>4, <1>5

LEMMA AppendGood ==
  ASSUME NEW x, NEW last \in Nat, NEW may, HostOK(x, last), x.c.continuation # NoContinuation
  PROVE  LET y == append_tool_outcome(x) IN
         /\ Good(x, y, may, last) /\ y.c.continuation # NoContinuation
         /\ y.c.pending = x.c.pending
<1> DEFINE y == append_tool_outcome(x)
           k == x.c.continuation
           m == [k EXCEPT !.next = k.next + 1]
<1>0. x \in Hosts /\ k \in Continuations /\ k.calls # <<>> /\ k.next >= 1
  BY HostFields DEF HostOK, ContinuationOK
<1>1. /\ m \in Continuations /\ m.calls = k.calls /\ m.next >= 1 /\ m.prompt = k.prompt
  BY <1>0 DEF Continuations
<1>2. m # NoContinuation
  BY <1>0, <1>1 DEF NoContinuation
<1>3. y = [x EXCEPT !.c.continuation = m]
  BY DEF append_tool_outcome
<1> HIDE DEF m, y
<1>4. /\ y \in Hosts /\ y.c.engine = x.c.engine /\ y.c.switches = x.c.switches
      /\ y.c.pending = x.c.pending /\ y.c.continuation = m
      /\ y.c.spine = x.c.spine /\ y.d = x.d /\ RanOnly(x, y, may)
  BY <1>0, <1>1, <1>3, SetContinuation
<1>5. HostOK(y, last)
  BY <1>1, <1>2, <1>4 DEF HostOK, SpineOK, ContinuationOK
<1> QED
  BY <1>2, <1>4, <1>5 DEF Good, y

LEMMA BatchTyped ==
  ASSUME NEW x \in Hosts, NEW b \in Batches(x)
  PROVE  b \in Seq(Calls) /\ Len(b) \in Nat /\ Len(b) >= 1 /\ b # <<>>
<1>1. PICK n \in 1..MaxCalls, tools \in [1..MaxCalls -> Nameable(x.c.caps)] :
        b = [k \in 1..n |-> [id |-> x.d.calls + k, tool |-> tools[k]]]
  BY DEF Batches
<1>2. n \in Nat /\ n >= 1 /\ 1..n \subseteq 1..MaxCalls /\ x.d.calls \in Nat
  BY SessionAssumption, HostFields
<1>3. Nameable(x.c.caps) \subseteq Tools
  BY DEF Nameable, catalog, Tools
<1>4. \A k \in 1..n : [id |-> x.d.calls + k, tool |-> tools[k]] \in Calls
  BY <1>2, <1>3 DEF Calls
<1>5. b \in [1..n -> Calls]
  BY <1>1, <1>4
<1>6. b \in Seq(Calls) /\ Len(b) = n
  BY <1>2, <1>5
<1> QED
  BY <1>2, <1>6

LEMMA ModelLoopGood ==
  ASSUME NEW x, NEW p, NEW round \in Nat, NEW last \in Nat, NEW may, TurnOK(x, p, last),
         x.c.engine = "legacy", x.c.pending.kind # "model", NEW r \in run_model_loop(x, p, round)
  PROVE  Good(x, r.x, may, last) /\ Going(r)
<1>0. /\ HostOK(x, last) /\ x \in Hosts /\ p \in Nat /\ OpenTurn(x.d.sessions, p, last)
      /\ x.c.spine.call = NoCall
  BY DEF TurnOK, HostOK, Idle
<1>1. CASE r = [x |-> Stopped(x), out |-> "error"]
  <2>1. r = [x |-> r.x, out |-> r.out] /\ r.x = Stopped(x) /\ r.out = "error"
    BY <1>1
  <2> QED
    BY <1>0, <2>1, StoppedGood, NothingTyped DEF Going
<1>2. CASE \E y \in FinishTurn(x, p) : r = [x |-> y, out |-> "reply"]
  <2>1. PICK y \in FinishTurn(x, p) : r = [x |-> y, out |-> "reply"]
    BY <1>2
  <2>1a. r = [x |-> r.x, out |-> r.out] /\ r.x = y /\ r.out = "reply"
    BY <2>1
  <2>2. Good(x, y, may, last)
    BY <2>1, FinishGood
  <2> QED
    BY <2>1a, <2>2 DEF Going
<1>3. CASE \E b \in Batches(x) :
             r = Goes([WithCalls(x, Len(b)) EXCEPT !.c.continuation =
                         [calls |-> b, next |-> 1, round |-> round, prompt |-> p]], "queue")
  <2> DEFINE k(b) == [calls |-> b, next |-> 1, round |-> round, prompt |-> p]
  <2>1. PICK b \in Batches(x) : r = Goes([WithCalls(x, Len(b)) EXCEPT !.c.continuation = k(b)], "queue")
    BY <1>3
  <2>2. b \in Seq(Calls) /\ Len(b) \in Nat /\ Len(b) >= 1 /\ b # <<>>
    BY <1>0, BatchTyped
  <2> DEFINE y == WithCalls(x, Len(b))
             z == [y EXCEPT !.c.continuation = k(b)]
  <2>3. r = [x |-> r.x, out |-> r.out] /\ r.x = z /\ r.out = "queue"
    BY <2>1 DEF Goes
  <2>4. Quiet(x, y, may)
    BY <1>0, <2>2, WithCallsQuiet
  <2>5. k(b) \in Continuations /\ k(b).calls = b /\ k(b).next = 1 /\ k(b).prompt = p
    BY <1>0, <2>2 DEF Continuations
  <2> HIDE DEF k, y
  <2>6. y \in Hosts /\ HostOK(y, last) /\ Good(x, y, may, last)
    BY <1>0, <2>4, QuietGood DEF Quiet, Good
  <2>7. /\ z \in Hosts /\ z.c.engine = y.c.engine /\ z.c.switches = y.c.switches
        /\ z.c.pending = y.c.pending /\ z.c.continuation = k(b)
        /\ z.c.spine = y.c.spine /\ z.d = y.d /\ RanOnly(y, z, may)
    BY <2>5, <2>6, SetContinuation
  <2> HIDE DEF z
  <2>8. k(b) # NoContinuation
    BY <2>2, <2>5 DEF NoContinuation
  <2>9. z.c.spine.call = NoCall /\ z.d.sessions = x.d.sessions /\ z.c.engine = "legacy"
        /\ z.c.pending.kind # "model"
    BY <1>0, <2>4, <2>7 DEF Quiet
  <2>10. HostOK(z, last)
    <3>1. SpineOK(z.c, z.d.sessions, last)
      BY <2>9 DEF SpineOK
    <3>2. ContinuationOK(z.c, z.d.sessions, last)
      BY <1>0, <2>2, <2>5, <2>7, <2>9 DEF ContinuationOK
    <3> QED
      BY <2>6, <2>7, <2>9, <3>1, <3>2, NothingTyped DEF HostOK
  <2>11. Good(y, z, may, last)
    BY <2>7, <2>10 DEF Good
  <2>12. Good(x, z, may, last)
    BY <2>6, <2>11, GoodTrans
  <2>13. Going(r)
    BY <2>2, <2>3, <2>5, <2>7, <2>8, <2>9 DEF Going
  <2> QED
    BY <2>3, <2>12, <2>13
<1> QED
  BY <1>1, <1>2, <1>3 DEF run_model_loop

LEMMA QueueGood ==
  ASSUME NEW x, NEW last \in Nat, NEW may, HostOK(x, last), x.c.pending.kind # "model",
         x.c.continuation # NoContinuation, x.c.continuation.next <= Len(x.c.continuation.calls),
         NEW r \in queue_next_tool_approval(x)
  PROVE  Good(x, r.x, may, last) /\ Going(r)
<1> DEFINE k == x.c.continuation
           call == k.calls[k.next]
           d == [x EXCEPT !.c.pending = [kind |-> "model", call |-> call]]
<1>0. x \in Hosts /\ k \in Continuations /\ k.next >= 1
  BY HostFields DEF HostOK, ContinuationOK
<1>1. call \in Calls
  <2>1. k.calls \in Seq(Calls) /\ k.next \in Nat
    BY <1>0 DEF Continuations
  <2>2. k.next \in 1..Len(k.calls)
    BY <1>0, <2>1
  <2> QED
    BY <2>1, <2>2
<1>2. \/ r = Goes(append_tool_outcome(x), "advance")
      \/ ~requires_approval(call.tool)
           /\ \E y \in execute_model_tool(x, call) : r = Goes(append_tool_outcome(y), "advance")
      \/ r = [x |-> d, out |-> "approval"]
  BY Zenon DEF queue_next_tool_approval
<1> HIDE DEF call
<1>3. CASE r = Goes(append_tool_outcome(x), "advance")
  <2>1. r = [x |-> r.x, out |-> r.out] /\ r.x = append_tool_outcome(x) /\ r.out = "advance"
    BY <1>3 DEF Goes
  <2> QED
    BY <2>1, AppendGood DEF Going
<1>4. CASE ~requires_approval(call.tool)
             /\ \E y \in execute_model_tool(x, call) : r = Goes(append_tool_outcome(y), "advance")
  <2>1. PICK y \in execute_model_tool(x, call) : r = Goes(append_tool_outcome(y), "advance")
    BY <1>4
  <2>2. r = [x |-> r.x, out |-> r.out] /\ r.x = append_tool_outcome(y) /\ r.out = "advance"
    BY <2>1 DEF Goes
  <2>3. Quiet(x, y, may)
    BY <1>0, <1>1, <1>4, <2>1, ExecuteQuiet DEF execute_model_tool
  <2>4. Good(x, y, may, last) /\ y.c.continuation # NoContinuation /\ y.c.pending.kind # "model"
    BY <2>3, QuietGood DEF Quiet
  <2>5. HostOK(y, last)
    BY <2>4 DEF Good
  <2>6. Good(y, r.x, may, last) /\ r.x.c.continuation # NoContinuation /\ r.x.c.pending.kind # "model"
    BY <2>2, <2>4, <2>5, AppendGood
  <2> QED
    BY <2>2, <2>4, <2>6, GoodTrans DEF Going
<1>5. CASE r = [x |-> d, out |-> "approval"]
  <2>1. r = [x |-> r.x, out |-> r.out] /\ r.x = d /\ r.out = "approval"
    BY <1>5
  <2>2. [kind |-> "model", call |-> call] \in Actions
    BY <1>1 DEF Actions
  <2>3. /\ d \in Hosts /\ d.c.engine = x.c.engine /\ d.c.switches = x.c.switches
        /\ d.c.continuation = x.c.continuation
        /\ d.c.spine = x.c.spine /\ d.d = x.d /\ RanOnly(x, d, may)
    BY <1>0, <2>2, SetPending
  <2> HIDE DEF d
  <2>4. HostOK(d, last)
    BY <2>3 DEF HostOK, SpineOK, ContinuationOK
  <2> QED
    BY <2>1, <2>3, <2>4 DEF Good, Going
<1> QED
  BY <1>2, <1>3, <1>4, <1>5

LEMMA AdvanceGood ==
  ASSUME NEW x, NEW last \in Nat, NEW may, HostOK(x, last), x.c.pending.kind # "model",
         x.c.continuation # NoContinuation, NEW r \in advance_tool_continuation(x)
  PROVE  Good(x, r.x, may, last) /\ Going(r)
<1> DEFINE k == x.c.continuation
           taken == [x EXCEPT !.c.continuation = NoContinuation]
<1>0. x \in Hosts /\ k \in Continuations /\ k.round \in Nat /\ k.prompt \in Nat
      /\ x.c.pending.kind # "model"
  BY HostFields, NothingTyped DEF HostOK, Continuations
<1>1. /\ x.c.engine = "legacy" /\ OpenTurn(x.d.sessions, k.prompt, last)
      /\ x.c.spine.call = NoCall
  BY DEF HostOK, ContinuationOK, SpineOK
<1>2. /\ Good(x, taken, may, last) /\ taken.c.continuation = NoContinuation
      /\ taken.c.pending = x.c.pending /\ taken.c.spine = x.c.spine /\ taken.d = x.d
  BY <1>0, DropGood
<1>3. \/ r = [x |-> x, out |-> "error"]
      \/ k.next <= Len(k.calls) /\ r = Goes(x, "queue")
      \/ r = [x |-> taken, out |-> "error"]
      \/ r \in run_model_loop(taken, k.prompt, k.round + 1)
  BY Zenon DEF advance_tool_continuation
<1> HIDE DEF taken
<1>4. CASE r = [x |-> x, out |-> "error"]
  <2>1. r = [x |-> r.x, out |-> r.out] /\ r.x = x /\ r.out = "error"
    BY <1>4
  <2> QED
    BY <2>1, GoodRefl DEF Going
<1>5. CASE k.next <= Len(k.calls) /\ r = Goes(x, "queue")
  <2>1. r = [x |-> r.x, out |-> r.out] /\ r.x = x /\ r.out = "queue"
    BY <1>5 DEF Goes
  <2> QED
    BY <1>5, <2>1, GoodRefl DEF Going
<1>6. CASE r = [x |-> taken, out |-> "error"]
  <2>1. r = [x |-> r.x, out |-> r.out] /\ r.x = taken /\ r.out = "error"
    BY <1>6
  <2> QED
    BY <1>2, <2>1 DEF Going
<1>7. CASE r \in run_model_loop(taken, k.prompt, k.round + 1)
  <2>1. Idle(taken)
    BY <1>0, <1>1, <1>2 DEF Idle
  <2>2. HostOK(taken, last) /\ taken.c.engine = "legacy" /\ taken.c.pending.kind # "model"
    BY <1>1, <1>2 DEF Good
  <2>3. TurnOK(taken, k.prompt, last)
    BY <1>0, <1>1, <1>2, <2>1, <2>2 DEF TurnOK
  <2>4. k.round + 1 \in Nat
    BY <1>0
  <2> HIDE DEF k
  <2>5. Good(taken, r.x, may, last) /\ Going(r)
    BY <1>7, <2>2, <2>3, <2>4, ModelLoopGood
  <2> QED
    BY <1>2, <2>5, GoodTrans
<1> QED
  BY <1>3, <1>4, <1>5, <1>6, <1>7

(* The session's loop.                                                     *)
LoopsTo(f, S, N) ==
  f = [n \in 0..N |-> IF n = 0 THEN S ELSE UNION {GoesOn(r) : r \in f[n - 1]}]

LEMMA RangeInduction ==
  ASSUME NEW N \in Nat, NEW P, 0 \in P, \A n \in 1..N : n - 1 \in P => n \in P
  PROVE  \A n \in 0..N : n \in P
<1> DEFINE Missing == {n \in 0..N : n \notin P}
           Less == OpToRel(<, Nat)
<1>1. SUFFICES ASSUME Missing # {} PROVE FALSE
  OBVIOUS
<1>2. Missing \in SUBSET Nat
  OBVIOUS
<1>3. \A m, n \in Nat : m < n => <<m, n>> \in Less
  BY DEF OpToRel
<1>4. PICK n \in Missing : \A m \in Missing : <<m, n>> \notin Less
  <2> HIDE DEF Missing
  <2> QED
    BY <1>1, <1>2, NatLessThanWellFounded, WFMin
<1> HIDE DEF Less
<1>5. n \in 1..N /\ n - 1 \in 0..N /\ n - 1 < n
  <2>1. n \in 0..N /\ n # 0
    OBVIOUS
  <2> QED
    BY <2>1
<1>6. n - 1 \notin Missing
  BY <1>2, <1>3, <1>4, <1>5
<1> QED
  BY <1>5, <1>6

LEMMA LoopExists ==
  ASSUME NEW S, NEW N \in Nat
  PROVE  \E f : LoopsTo(f, S, N)
<1> DEFINE P == {k \in 0..N : \E f : LoopsTo(f, S, k)}
<1>1. 0 \in P
  <2> DEFINE f == [n \in 0..0 |-> S]
  <2>1. f = [n \in 0..0 |-> IF n = 0 THEN S ELSE UNION {GoesOn(r) : r \in f[n - 1]}]
    <3>1. \A n \in 0..0 : n = 0
      OBVIOUS
    <3> QED
      BY <3>1, Zenon
  <2>2. LoopsTo(f, S, 0)
    BY <2>1 DEF LoopsTo
  <2> HIDE DEF f
  <2> QED
    BY <2>2
<1>2. ASSUME NEW k \in 1..N, k - 1 \in P PROVE k \in P
  <2>1. PICK f : LoopsTo(f, S, k - 1)
    BY <1>2
  <2> DEFINE g == [n \in 0..k |-> IF n = 0 THEN S ELSE UNION {GoesOn(r) : r \in f[n - 1]}]
  <2>2. \A n \in 0..k : g[n] = IF n = 0 THEN S ELSE UNION {GoesOn(r) : r \in f[n - 1]}
    BY Zenon
  <2>3. \A n \in 0..(k - 1) : f[n] = IF n = 0 THEN S ELSE UNION {GoesOn(r) : r \in f[n - 1]}
    BY <2>1, Zenon DEF LoopsTo
  <2>4. \A n \in 0..k : n # 0 => n - 1 \in 0..(k - 1) /\ n - 1 \in 0..k
    OBVIOUS
  <2>5. \A n \in 0..(k - 1) : g[n] = f[n]
    <3>1. \A n \in 0..(k - 1) : n \in 0..k
      OBVIOUS
    <3> HIDE DEF g
    <3> QED
      BY <2>2, <2>3, <3>1, Zenon
  <2>6. g = [n \in 0..k |-> IF n = 0 THEN S ELSE UNION {GoesOn(r) : r \in g[n - 1]}]
    <3> DEFINE h == [n \in 0..k |-> IF n = 0 THEN S ELSE UNION {GoesOn(r) : r \in g[n - 1]}]
    <3>1. DOMAIN g = 0..k /\ DOMAIN h = 0..k
      BY Zenon
    <3>2. \A n \in 0..k : h[n] = IF n = 0 THEN S ELSE UNION {GoesOn(r) : r \in g[n - 1]}
      BY Zenon
    <3>3. \A n \in 0..k : n # 0 => g[n - 1] = f[n - 1]
      BY <2>4, <2>5, Zenon
    <3>g. g = [n \in 0..k |-> g[n]]
      BY Zenon
    <3>h. h = [n \in 0..k |-> h[n]]
      BY Zenon
    <3> HIDE DEF g, h
    <3>4. \A n \in 0..k : g[n] = h[n]
      <4> TAKE n \in 0..k
      <4>1. CASE n = 0
        BY <2>2, <3>2, <4>1, Zenon
      <4>2. CASE n # 0
        BY <2>2, <3>2, <3>3, <4>2, Zenon
      <4> QED
        BY <4>1, <4>2
    <3>5. g = h
      BY <3>4, <3>g, <3>h, Zenon
    <3> QED
      BY <3>5 DEF h
  <2>7. LoopsTo(g, S, k)
    BY <2>6 DEF LoopsTo
  <2> HIDE DEF g
  <2> QED
    BY <2>7
<1> HIDE DEF P
<1>3. \A n \in 0..N : n \in P
  BY <1>1, <1>2, RangeInduction
<1> QED
  BY <1>3 DEF P

LEMMA LoopStepsNat == LoopSteps \in Nat
<1>1. MaxCalls \in Nat /\ MaxRounds \in Nat
  BY SessionAssumption
<1>2. 2 * MaxCalls \in Nat
  BY <1>1
<1>3. 2 * MaxCalls * MaxRounds \in Nat
  BY <1>1, <1>2
<1> QED
  BY <1>3 DEF LoopSteps

LEMMA ToolLoopSteps ==
  ASSUME NEW S
  PROVE  \E f : /\ f[0] = S /\ ToolLoop(S) = f[LoopSteps]
                /\ \A n \in 1..LoopSteps : f[n] = UNION {GoesOn(r) : r \in f[n - 1]}
<1> DEFINE after == CHOOSE f : LoopsTo(f, S, LoopSteps)
<1>1. ToolLoop(S) = after[LoopSteps]
  BY Zenon DEF ToolLoop, LoopsTo
<1>2. LoopsTo(after, S, LoopSteps)
  BY LoopStepsNat, LoopExists, Zenon
<1> HIDE DEF after
<1>3. \A n \in 0..LoopSteps : after[n] = IF n = 0 THEN S ELSE UNION {GoesOn(r) : r \in after[n - 1]}
  BY <1>2, Zenon DEF LoopsTo
<1>4. 0 \in 0..LoopSteps /\ \A n \in 1..LoopSteps : n \in 0..LoopSteps /\ n # 0
  BY LoopStepsNat
<1>5. after[0] = S
  BY <1>3, <1>4, Zenon
<1>6. \A n \in 1..LoopSteps : after[n] = UNION {GoesOn(r) : r \in after[n - 1]}
  BY <1>3, <1>4, Zenon
<1> QED
  BY <1>1, <1>5, <1>6

LEMMA GoesOnGood ==
  ASSUME NEW x, NEW last \in Nat, NEW may, NEW r, Good(x, r.x, may, last), Going(r),
         NEW g \in GoesOn(r)
  PROVE  Good(x, g.x, may, last) /\ Going(g)
<1> DEFINE y == r.x
<1>1. HostOK(y, last)
  BY DEF Good
<1>2. CASE r.out = "queue"
  <2>1. g \in queue_next_tool_approval(y)
    BY <1>2 DEF GoesOn
  <2>2. /\ y.c.pending.kind # "model" /\ y.c.continuation # NoContinuation
        /\ y.c.continuation.next <= Len(y.c.continuation.calls)
    BY <1>2 DEF Going
  <2> HIDE DEF y
  <2>3. Good(y, g.x, may, last) /\ Going(g)
    BY <1>1, <2>1, <2>2, QueueGood
  <2> QED
    BY <2>3, GoodTrans DEF y
<1>3. CASE r.out = "advance"
  <2>1. g \in advance_tool_continuation(y)
    BY <1>3 DEF GoesOn
  <2>2. y.c.pending.kind # "model" /\ y.c.continuation # NoContinuation
    BY <1>3 DEF Going
  <2> HIDE DEF y
  <2>3. Good(y, g.x, may, last) /\ Going(g)
    BY <1>1, <2>1, <2>2, AdvanceGood
  <2> QED
    BY <2>3, GoodTrans DEF y
<1>4. CASE r.out # "queue" /\ r.out # "advance"
  BY <1>4 DEF GoesOn
<1> QED
  BY <1>2, <1>3, <1>4

LEMMA ToolLoopGood ==
  ASSUME NEW x, NEW last \in Nat, NEW may, NEW S,
         \A r \in S : Good(x, r.x, may, last) /\ Going(r)
  PROVE  \A r \in ToolLoop(S) : Good(x, r.x, may, last) /\ Going(r)
<1>1. PICK f : /\ f[0] = S /\ ToolLoop(S) = f[LoopSteps]
               /\ \A n \in 1..LoopSteps : f[n] = UNION {GoesOn(r) : r \in f[n - 1]}
  BY ToolLoopSteps
<1> DEFINE P == {n \in 0..LoopSteps : \A r \in f[n] : Good(x, r.x, may, last) /\ Going(r)}
<1>2. 0 \in P
  BY <1>1, LoopStepsNat
<1>3. ASSUME NEW n \in 1..LoopSteps, n - 1 \in P PROVE n \in P
  <2> SUFFICES ASSUME NEW g \in f[n] PROVE Good(x, g.x, may, last) /\ Going(g)
    BY LoopStepsNat
  <2>0. f[n] = UNION {GoesOn(r) : r \in f[n - 1]}
    BY <1>1
  <2>1. PICK r \in f[n - 1] : g \in GoesOn(r)
    BY <2>0, Zenon
  <2>2. Good(x, r.x, may, last) /\ Going(r)
    BY <1>3, <2>1
  <2> QED
    BY <2>1, <2>2, GoesOnGood
<1> HIDE DEF P
<1>4. \A n \in 0..LoopSteps : n \in P
  BY <1>2, <1>3, LoopStepsNat, RangeInduction
<1>5. LoopSteps \in P
  BY <1>4, LoopStepsNat
<1> QED
  BY <1>1, <1>5 DEF P

(* What follows the answer to a model's call.                              *)
LEMMA ProgressGood ==
  ASSUME NEW x, NEW last \in Nat, NEW may, HostOK(x, last), x.c.pending.kind # "model",
         x.c.continuation # NoContinuation, NEW r \in finish_model_tool_progress(x)
  PROVE  Good(x, r.x, may, last)
<1> DEFINE S == {Goes(x, "advance")}
<1>1. PICK g \in ToolLoop(S) :
        r = IF g.out = "error" THEN [g EXCEPT !.x.c.continuation = NoContinuation] ELSE g
  BY Zenon DEF finish_model_tool_progress
<1>2. \A s \in S : Good(x, s.x, may, last) /\ Going(s)
  <2>1. Goes(x, "advance").x = x /\ Goes(x, "advance").out = "advance"
        /\ Goes(x, "advance") = [x |-> Goes(x, "advance").x, out |-> Goes(x, "advance").out]
    BY DEF Goes
  <2>2. Going(Goes(x, "advance"))
    BY <2>1 DEF Going
  <2> QED
    BY <2>1, <2>2, GoodRefl
<1> HIDE DEF S
<1>3. \A s \in ToolLoop(S) : Good(x, s.x, may, last) /\ Going(s)
  BY <1>2, ToolLoopGood
<1>4. Good(x, g.x, may, last) /\ Going(g)
  BY <1>1, <1>3
<1>5. CASE g.out # "error"
  BY <1>1, <1>4, <1>5
<1>6. CASE g.out = "error"
  <2> DEFINE y == g.x
             z == [y EXCEPT !.c.continuation = NoContinuation]
  <2>1. r.x = z
    BY <1>1, <1>4, <1>6 DEF Going
  <2>2. HostOK(y, last) /\ y.c.pending.kind # "model"
    BY <1>4, <1>6 DEF Good, Going
  <2>3. Good(x, y, may, last)
    BY <1>4
  <2> HIDE DEF y
  <2>4. Good(y, z, may, last)
    BY <2>2, DropGood
  <2> HIDE DEF z
  <2> QED
    BY <2>1, <2>3, <2>4, GoodTrans
<1> QED
  BY <1>5, <1>6
----------------------------------------------------------------------------
(***************************************************************************)
(* The default engine.                                                     *)
(***************************************************************************)
(* An answer of the agent's loop in turn p.                                *)
LoopAnswer(x, r, p, may, last) ==
  /\ r = [x |-> r.x, out |-> r.out]
  /\ Good(x, r.x, may, last)
  /\ r.out \in {"completed", "error", "approval"}
  /\ r.out \in {"completed", "error"} =>
       TurnOK(r.x, p, last) /\ r.x.c.spine.prompt = p

LEMMA SpineLoopGood ==
  ASSUME NEW x, NEW p \in Nat, NEW last \in Nat, NEW may, HostOK(x, last),
         x.c.engine = "spine", OpenTurn(x.d.sessions, p, last), NEW r \in SpineLoop(x, p)
  PROVE  LoopAnswer(x, r, p, may, last)
<1>0. x \in Hosts /\ x.c.continuation = NoContinuation /\ x.c.pending.kind # "model"
  BY DEF HostOK, ContinuationOK
<1> DEFINE Quieter == {t \in Nameable(x.c.broker) \cap ReadOnly :
                         decode_call(x.c.broker, t) /\ x.d.calls < MaxToolCalls}
           Ran == {x} \cup UNION {execute_action(WithCalls(x, 1), [id |-> x.d.calls + 1, tool |-> t])
                                  : t \in Quieter}
           Ended(y) == [y EXCEPT !.c.spine = [call |-> NoCall, prompt |-> p]]
           Asks(y) == {t \in Nameable(y.c.broker) : requires_approval(t) /\ decode_call(y.c.broker, t)
                                                     /\ y.d.calls < MaxToolCalls}
           Asked1(y, t) == [WithCalls(y, 1) EXCEPT !.c.spine =
                             [call |-> [id |-> y.d.calls + 1, tool |-> t], prompt |-> p]]
<1> DEFINE Answers(y) == {[x |-> Ended(y), out |-> "completed"], [x |-> Ended(y), out |-> "error"]}
                         \cup {[x |-> Asked1(y, t), out |-> "approval"] : t \in Asks(y)}
<1>a. SpineLoop(x, p) = UNION {Answers(y) : y \in Ran}
  BY Zenon DEF SpineLoop
<1>b. PICK y \in Ran : r \in Answers(y)
  BY <1>a, Zenon
<1>1. \/ r = [x |-> Ended(y), out |-> "completed"]
      \/ r = [x |-> Ended(y), out |-> "error"]
      \/ \E t \in Asks(y) : r = [x |-> Asked1(y, t), out |-> "approval"]
  BY <1>b, Zenon
<1>2. \A y1 \in Hosts : \A t \in Nameable(y1.c.broker) : [id |-> y1.d.calls + 1, tool |-> t] \in Calls
  BY HostFields DEF Nameable, catalog, Tools, Calls
<1>3. Quiet(x, y, may)
  <2>1. CASE y = x
    BY <1>0, <2>1, QuietRefl
  <2>2. CASE y # x
    <3>1. PICK t \in Quieter : y \in execute_action(WithCalls(x, 1), [id |-> x.d.calls + 1, tool |-> t])
      BY <1>b, <2>2, Zenon
    <3> DEFINE call == [id |-> x.d.calls + 1, tool |-> t]
               sent == WithCalls(x, 1)
    <3>2. call \in Calls /\ call.tool = t
      BY <1>0, <1>2, <3>1
    <3>3. ~requires_approval(call.tool)
      BY <3>1, <3>2 DEF requires_approval, ReadOnly, Approvable
    <3>4. Quiet(x, sent, may)
      BY <1>0, WithCallsQuiet
    <3>5. sent \in Hosts
      BY <3>4 DEF Quiet
    <3> HIDE DEF call, sent
    <3>6. Quiet(sent, y, may)
      BY <3>1, <3>2, <3>3, <3>5, ExecuteQuiet DEF execute_action, call, sent
    <3> QED
      BY <3>4, <3>6, QuietTrans
  <2> QED
    BY <2>1, <2>2
<1> HIDE DEF Ran
<1>4. /\ y \in Hosts /\ y.c.engine = "spine" /\ y.c.continuation = NoContinuation
      /\ y.c.pending.kind # "model" /\ y.d.sessions = x.d.sessions
  BY <1>0, <1>3 DEF Quiet
<1>5. HostOK(y, last) /\ Good(x, y, may, last)
  BY <1>3, QuietGood DEF Good
<1>6. CASE r = [x |-> Ended(y), out |-> "completed"] \/ r = [x |-> Ended(y), out |-> "error"]
  <2> DEFINE s == [call |-> NoCall, prompt |-> p]
             z == [y EXCEPT !.c.spine = s]
  <2>1. r = [x |-> r.x, out |-> r.out] /\ r.x = z /\ r.out \in {"completed", "error"}
    BY <1>6
  <2>2. s \in SpineTurns /\ s.call = NoCall /\ s.prompt = p
    BY NothingTyped DEF SpineTurns
  <2> HIDE DEF s
  <2>3. /\ z \in Hosts /\ z.c.engine = y.c.engine /\ z.c.switches = y.c.switches
        /\ z.c.pending = y.c.pending /\ z.c.continuation = y.c.continuation
        /\ z.c.spine = s /\ z.d = y.d /\ RanOnly(y, z, may)
    BY <1>4, <2>2, SetSpine
  <2> HIDE DEF z
  <2>4. Idle(z)
    BY <1>4, <2>2, <2>3 DEF Idle
  <2>5. HostOK(z, last)
    BY <1>5, <2>3, <2>4, IdleOK DEF HostOK
  <2>6. Good(y, z, may, last)
    BY <2>3, <2>5 DEF Good
  <2>7. Good(x, z, may, last)
    BY <1>5, <2>6, GoodTrans
  <2>8. TurnOK(z, p, last) /\ z.c.spine.prompt = p
    BY <1>4, <2>2, <2>3, <2>4, <2>5 DEF TurnOK
  <2> QED
    BY <2>1, <2>7, <2>8 DEF LoopAnswer
<1>7. CASE \E t \in Asks(y) : r = [x |-> Asked1(y, t), out |-> "approval"]
  <2>1. PICK t \in Asks(y) : r = [x |-> Asked1(y, t), out |-> "approval"]
    BY <1>7
  <2> DEFINE s == [call |-> [id |-> y.d.calls + 1, tool |-> t], prompt |-> p]
             m == WithCalls(y, 1)
             z == [m EXCEPT !.c.spine = s]
  <2>2. r = [x |-> r.x, out |-> r.out] /\ r.x = z /\ r.out = "approval"
    BY <2>1
  <2>3. s \in SpineTurns /\ s.prompt = p
    BY <1>2, <1>4, <2>1 DEF SpineTurns
  <2>4. Quiet(y, m, may)
    BY <1>4, WithCallsQuiet
  <2>5. HostOK(m, last) /\ Good(y, m, may, last) /\ m \in Hosts
    BY <1>5, <2>4, QuietGood DEF Good, Quiet
  <2>6. m.c.engine = "spine" /\ m.c.continuation = NoContinuation /\ m.c.pending.kind # "model"
        /\ m.d.sessions = x.d.sessions
    BY <1>4, <2>4 DEF Quiet
  <2> HIDE DEF s, m
  <2>7. /\ z \in Hosts /\ z.c.engine = m.c.engine /\ z.c.switches = m.c.switches
        /\ z.c.pending = m.c.pending /\ z.c.continuation = m.c.continuation
        /\ z.c.spine = s /\ z.d = m.d /\ RanOnly(m, z, may)
    BY <2>3, <2>5, SetSpine
  <2> HIDE DEF z
  <2>8. HostOK(z, last)
    BY <2>3, <2>5, <2>6, <2>7 DEF HostOK, SpineOK, ContinuationOK
  <2>9. Good(m, z, may, last)
    BY <2>7, <2>8 DEF Good
  <2>10. Good(x, z, may, last)
    BY <1>5, <2>5, <2>9, GoodTrans
  <2> QED
    BY <2>2, <2>10 DEF LoopAnswer
<1> QED
  BY <1>1, <1>6, <1>7

LEMMA ResolutionGood ==
  ASSUME NEW x, NEW p \in Nat, NEW last \in Nat, NEW may, NEW outcomes,
         \A s \in outcomes : LoopAnswer(x, s, p, may, last),
         NEW r \in finish_spine_resolution(outcomes)
  PROVE  Good(x, r.x, may, last)
<1>1. PICK s \in outcomes :
        r \in CASE s.out = "completed" -> {[x |-> y, out |-> "reply"]
                                           : y \in FinishTurn(take_prompt(s.x), s.x.c.spine.prompt)}
                [] s.out = "error" -> {[x |-> take_prompt(s.x), out |-> "error"]}
                [] OTHER -> {s}
  BY Zenon DEF finish_spine_resolution
<1>2. LoopAnswer(x, s, p, may, last)
  BY <1>1
<1> DEFINE y == s.x
           z == take_prompt(y)
<1>3. Good(x, y, may, last)
  BY <1>2 DEF LoopAnswer
<1>4. CASE s.out # "completed" /\ s.out # "error"
  BY <1>1, <1>3, <1>4
<1>5. CASE s.out = "completed" \/ s.out = "error"
  <2>1. TurnOK(y, p, last) /\ y.c.spine.prompt = p
    BY <1>2, <1>5 DEF LoopAnswer
  <2>2. \/ \E v \in FinishTurn(z, p) : r = [x |-> v, out |-> "reply"]
        \/ r = [x |-> z, out |-> "error"]
    BY <1>1, <1>5, <2>1
  <2> HIDE DEF y
  <2>3. HostOK(y, last) /\ Idle(y) /\ y \in Hosts
    BY <2>1 DEF TurnOK, HostOK
  <2>4. /\ z \in Hosts /\ z.c.engine = y.c.engine /\ z.c.switches = y.c.switches
        /\ z.c.pending = y.c.pending /\ z.c.continuation = y.c.continuation
        /\ z.c.spine = NoSpineTurn /\ z.d = y.d /\ RanOnly(y, z, may)
    BY <2>3, NothingTyped, SetSpine DEF take_prompt
  <2> HIDE DEF z
  <2>5. Idle(z)
    BY <2>3, <2>4, NothingTyped DEF Idle
  <2>6. HostOK(z, last)
    BY <2>3, <2>4, <2>5, IdleOK DEF HostOK
  <2>7. Good(y, z, may, last)
    BY <2>4, <2>6 DEF Good
  <2>8. Good(x, z, may, last)
    BY <1>3, <2>7, GoodTrans
  <2>9. TurnOK(z, p, last)
    BY <2>1, <2>4, <2>5, <2>6 DEF TurnOK
  <2>10. CASE r = [x |-> z, out |-> "error"]
    BY <2>8, <2>10
  <2>11. CASE \E v \in FinishTurn(z, p) : r = [x |-> v, out |-> "reply"]
    <3>1. PICK v \in FinishTurn(z, p) : r.x = v
      BY <2>11
    <3>2. Good(z, v, may, last)
      BY <2>9, FinishGood
    <3> QED
      BY <2>8, <3>1, <3>2, GoodTrans
  <2> QED
    BY <2>2, <2>10, <2>11
<1> QED
  BY <1>4, <1>5

LEMMA SpineApprovalGood ==
  ASSUME NEW x, NEW last \in Nat, NEW may, HostOK(x, last), x.c.spine.call # NoCall,
         NEW approved \in BOOLEAN, approved => x.c.spine.call \in may,
         NEW r \in resolve_spine_approval(x, approved)
  PROVE  Good(x, r.x, may, last)
<1> DEFINE call == x.c.spine.call
           p == x.c.spine.prompt
           After == IF approved THEN execute_action(x, call) ELSE {x}
           outcomes == UNION {SpineLoop(y, p) : y \in After}
<1>0. /\ x \in Hosts /\ x.c.engine = "spine" /\ OpenTurn(x.d.sessions, p, last)
      /\ call \in Calls /\ p \in Nat
  BY HostFields DEF HostOK, SpineOK, SpineTurns
<1>1. r \in finish_spine_resolution(outcomes)
  BY Zenon DEF resolve_spine_approval
<1>2. \A y \in After : Quiet(x, y, may)
  <2> TAKE y \in After
  <2>1. CASE approved
    <3>1. y \in Execute(x, call, "broker") /\ call \in may
      BY <2>1 DEF execute_action
    <3> HIDE DEF call
    <3> QED
      BY <1>0, <3>1, ExecuteQuiet
  <2>2. CASE ~approved
    BY <1>0, <2>2, QuietRefl
  <2> QED
    BY <2>1, <2>2
<1> HIDE DEF After
<1>3. ASSUME NEW s \in outcomes PROVE LoopAnswer(x, s, p, may, last)
  <2>1. PICK y \in After : s \in SpineLoop(y, p)
    BY Zenon
  <2>2. Quiet(x, y, may)
    BY <1>2
  <2>3. Good(x, y, may, last) /\ y.d.sessions = x.d.sessions /\ y.c.engine = "spine"
    BY <1>0, <2>2, QuietGood DEF Quiet
  <2>4. HostOK(y, last)
    BY <2>3 DEF Good
  <2> HIDE DEF p
  <2>5. LoopAnswer(y, s, p, may, last)
    BY <1>0, <2>1, <2>3, <2>4, SpineLoopGood
  <2>6. Good(x, s.x, may, last)
    BY <2>3, <2>5, GoodTrans DEF LoopAnswer
  <2> QED
    BY <2>5, <2>6 DEF LoopAnswer
<1> HIDE DEF outcomes, p
<1> QED
  BY <1>0, <1>1, <1>3, ResolutionGood

(***************************************************************************)
(* The session's interface.                                                *)
(***************************************************************************)
LEMMA CompleteGood ==
  ASSUME NEW x, NEW p \in Nat, NEW last \in Nat, NEW may, HostOK(x, last),
         OpenTurn(x.d.sessions, p, last), NEW r \in complete(x, p)
  PROVE  Good(x, r.x, may, last)
<1>1. CASE has_pending_action(x.c)
  <2>1. r.x = x
    BY <1>1 DEF complete
  <2> QED
    BY <2>1, GoodRefl
<1>2. CASE ~has_pending_action(x.c)
  <2> DEFINE Ready == UNION {assemble_messages(y) : y \in prepare_agent_session(x)}
             Turn(y) == IF y.c.engine = "legacy" THEN ToolLoop(run_model_loop(y, p, 1))
                        ELSE UNION {IF s.out = "completed"
                                      THEN {[x |-> z, out |-> "reply"] : z \in FinishTurn(s.x, p)}
                                      ELSE {s} : s \in SpineLoop(y, p)}
  <2>1. PICK y \in Ready : r \in Turn(y)
    BY <1>2, Zenon DEF complete
  <2>2. PICK w \in prepare_agent_session(x) : y \in assemble_messages(w)
    BY <2>1, Zenon
  <2>3. Idle(x)
    BY <1>2, NothingTyped DEF Idle, has_pending_action, has_spine_pending_approval
  <2>4. /\ Good(x, w, may, last) /\ Idle(w)
        /\ \A q : Below(x.d.sessions, q) => Below(w.d.sessions, q)
    BY <2>2, <2>3, PrepareGood
  <2>5. HostOK(w, last) /\ w \in Hosts
    BY <2>4 DEF Good, HostOK
  <2>6. Quiet(w, y, may)
    BY <2>2, <2>5, AssembleQuiet
  <2>7. TurnOK(w, p, last)
    BY <2>4, <2>5 DEF TurnOK, OpenTurn
  <2>8. TurnOK(y, p, last) /\ Good(w, y, may, last)
    BY <2>5, <2>6, <2>7, QuietTurn, QuietGood
  <2>9. Good(x, y, may, last) /\ HostOK(y, last) /\ OpenTurn(y.d.sessions, p, last) /\ y \in Hosts
        /\ y.c.pending.kind # "model"
    BY <2>4, <2>8, GoodTrans DEF TurnOK, HostOK, Idle
  <2> HIDE DEF Ready
  <2>10. CASE y.c.engine = "legacy"
    <3> DEFINE S == run_model_loop(y, p, 1)
    <3>1. r \in ToolLoop(S)
      BY <2>1, <2>10
    <3>2. \A s \in S : Good(y, s.x, may, last) /\ Going(s)
      BY <2>8, <2>9, <2>10, ModelLoopGood
    <3> HIDE DEF S
    <3>3. Good(y, r.x, may, last)
      BY <3>1, <3>2, ToolLoopGood
    <3> QED
      BY <2>9, <3>3, GoodTrans
  <2>11. CASE y.c.engine # "legacy"
    <3>0. y.c.engine = "spine"
      BY <2>9, <2>11, HostFields
    <3>1. PICK s \in SpineLoop(y, p) :
            r \in IF s.out = "completed"
                    THEN {[x |-> z, out |-> "reply"] : z \in FinishTurn(s.x, p)} ELSE {s}
      BY <2>1, <2>11, Zenon
    <3>2. LoopAnswer(y, s, p, may, last)
      BY <2>9, <3>0, <3>1, SpineLoopGood
    <3>3. Good(y, s.x, may, last)
      BY <3>2 DEF LoopAnswer
    <3>4. CASE s.out # "completed"
      BY <2>9, <3>1, <3>3, <3>4, GoodTrans
    <3>5. CASE s.out = "completed"
      <4>1. TurnOK(s.x, p, last)
        BY <3>2, <3>5 DEF LoopAnswer
      <4>2. PICK z \in FinishTurn(s.x, p) : r.x = z
        BY <3>1, <3>5
      <4>3. Good(s.x, z, may, last)
        BY <4>1, <4>2, FinishGood
      <4> QED
        BY <2>9, <3>3, <4>2, <4>3, GoodTrans
    <3> QED
      BY <3>4, <3>5
  <2> QED
    BY <2>10, <2>11
<1> QED
  BY <1>1, <1>2

(* Only the call the user is shown may run.                                *)
LEMMA ApproveGood ==
  ASSUME NEW x, NEW last \in Nat, NEW may, HostOK(x, last),
         pending_approval(x.c) # NoCall => pending_approval(x.c) \in may,
         NEW r \in approve_pending_model_tool(x)
  PROVE  Good(x, r.x, may, last)
<1> DEFINE taken == [x EXCEPT !.c.pending = NoAction]
           call == x.c.pending.call
<1>0. x \in Hosts /\ call \in Calls
  BY HostFields DEF HostOK, Actions
<1>1. /\ Good(x, taken, may, last) /\ taken.c.pending = NoAction
      /\ taken.c.continuation = x.c.continuation
  BY ClearGood
<1>2. CASE has_spine_pending_approval(x.c)
  <2>1. r \in resolve_spine_approval(x, TRUE)
    BY <1>2 DEF approve_pending_model_tool
  <2>2. x.c.spine.call # NoCall /\ pending_approval(x.c) = x.c.spine.call
    BY <1>2 DEF has_spine_pending_approval, pending_approval
  <2> QED
    BY <2>1, <2>2, SpineApprovalGood
<1>3. CASE ~has_spine_pending_approval(x.c) /\ x.c.pending.kind # "model"
  <2>1. r.x = taken
    BY <1>3 DEF approve_pending_model_tool
  <2> QED
    BY <1>1, <2>1
<1>4. CASE ~has_spine_pending_approval(x.c) /\ x.c.pending.kind = "model"
  <2>1. pending_approval(x.c) = call /\ taken.c.continuation # NoContinuation
    BY <1>1, <1>4 DEF pending_approval, HostOK
  <2>2. \/ r = [x |-> taken, out |-> "error"]
        \/ /\ decode_call(x.c.caps, call.tool)
           /\ \E y \in execute_model_tool(taken, call) :
                r \in finish_model_tool_progress(append_tool_outcome(y))
    BY <1>4, Zenon DEF approve_pending_model_tool
  <2> HIDE DEF taken, call
  <2>3. CASE r = [x |-> taken, out |-> "error"]
    BY <1>1, <2>3
  <2>4. CASE \E y \in execute_model_tool(taken, call) :
               r \in finish_model_tool_progress(append_tool_outcome(y))
    <3>1. PICK y \in execute_model_tool(taken, call) :
            r \in finish_model_tool_progress(append_tool_outcome(y))
      BY <2>4
    <3>2. HostOK(taken, last) /\ taken \in Hosts
      BY <1>1 DEF Good, HostOK
    <3>3. requires_approval(call.tool) => call \in may
      <4>1. requires_approval(NoCall.tool) = FALSE
        BY DEF requires_approval, NoCall, Approvable
      <4> QED
        BY <2>1, <4>1
    <3>4. Quiet(taken, y, may)
      BY <1>0, <3>1, <3>2, <3>3, ExecuteQuiet DEF execute_model_tool
    <3>5. Good(taken, y, may, last)
      BY <3>2, <3>4, QuietGood
    <3>6. HostOK(y, last) /\ y.c.continuation # NoContinuation /\ y.c.pending = NoAction
      BY <1>1, <2>1, <3>4, <3>5 DEF Good, Quiet
    <3> DEFINE z == append_tool_outcome(y)
    <3>7. Good(y, z, may, last) /\ z.c.continuation # NoContinuation /\ z.c.pending = NoAction
      BY <3>6, AppendGood
    <3> HIDE DEF z
    <3>8. HostOK(z, last) /\ z.c.pending.kind # "model"
      BY <3>7, NothingTyped DEF Good
    <3>9. Good(z, r.x, may, last)
      BY <3>1, <3>7, <3>8, ProgressGood DEF z
    <3>10. Good(x, y, may, last)
      BY <1>1, <3>5, GoodTrans
    <3>11. Good(x, z, may, last)
      BY <3>7, <3>10, GoodTrans
    <3> QED
      BY <3>9, <3>11, GoodTrans
  <2> QED
    BY <2>2, <2>3, <2>4
<1> QED
  BY <1>2, <1>3, <1>4

LEMMA DenyGood ==
  ASSUME NEW x, NEW last \in Nat, NEW may, HostOK(x, last), NEW r \in deny_pending_model_tool(x)
  PROVE  Good(x, r.x, may, last)
<1> DEFINE taken == [x EXCEPT !.c.pending = NoAction]
<1>1. /\ Good(x, taken, may, last) /\ taken.c.pending = NoAction
      /\ taken.c.continuation = x.c.continuation
  BY ClearGood
<1>2. CASE has_spine_pending_approval(x.c)
  <2>1. r \in resolve_spine_approval(x, FALSE) /\ x.c.spine.call # NoCall
    BY <1>2 DEF deny_pending_model_tool, has_spine_pending_approval
  <2> QED
    BY <2>1, SpineApprovalGood
<1>3. CASE ~has_spine_pending_approval(x.c) /\ x.c.pending.kind # "model"
  <2>1. r.x = taken
    BY <1>3 DEF deny_pending_model_tool
  <2> QED
    BY <1>1, <2>1
<1>4. CASE ~has_spine_pending_approval(x.c) /\ x.c.pending.kind = "model"
  <2> DEFINE z == append_tool_outcome(taken)
  <2>1. r \in finish_model_tool_progress(z)
    BY <1>4 DEF deny_pending_model_tool
  <2> HIDE DEF taken
  <2>2. HostOK(taken, last) /\ taken.c.continuation # NoContinuation
    BY <1>1, <1>4 DEF Good, HostOK
  <2>3. Good(taken, z, may, last) /\ z.c.continuation # NoContinuation /\ z.c.pending = NoAction
    BY <1>1, <2>2, AppendGood
  <2> HIDE DEF z
  <2>4. HostOK(z, last) /\ z.c.pending.kind # "model"
    BY <2>3, NothingTyped DEF Good
  <2>5. Good(z, r.x, may, last)
    BY <2>1, <2>3, <2>4, ProgressGood
  <2>6. Good(x, z, may, last)
    BY <1>1, <2>3, GoodTrans
  <2> QED
    BY <2>5, <2>6, GoodTrans
<1> QED
  BY <1>2, <1>3, <1>4

LEMMA QueueActionGood ==
  ASSUME NEW x, NEW last \in Nat, NEW may, HostOK(x, last), NEW kind \in {"shell", "patch"},
         NEW r \in queue_action(x, kind)
  PROVE  Good(x, r.x, may, last)
<1>0. x \in Hosts
  BY DEF HostOK
<1>1. CASE r.x = x
  BY <1>1, GoodRefl
<1>2. CASE r.x # x
  <2> DEFINE call == [id |-> x.d.calls + 1, tool |-> kind]
             a == [kind |-> kind, call |-> call]
             y == WithCalls(x, 1)
             z == [y EXCEPT !.c.pending = a]
  <2>1. r.x = z
    BY <1>2 DEF queue_action
  <2>2. call \in Calls
    BY <1>0, HostFields DEF Calls, Tools, Approvable
  <2>3. a \in Actions /\ a.kind # "model"
    BY <2>2 DEF Actions
  <2>4. Quiet(x, y, may)
    BY <1>0, WithCallsQuiet
  <2> HIDE DEF y, a
  <2>5. HostOK(y, last) /\ Good(x, y, may, last) /\ y \in Hosts
    BY <2>4, QuietGood DEF Good, Quiet
  <2>6. /\ z \in Hosts /\ z.c.engine = y.c.engine /\ z.c.switches = y.c.switches
        /\ z.c.pending = a /\ z.c.continuation = y.c.continuation
        /\ z.c.spine = y.c.spine /\ z.d = y.d /\ RanOnly(y, z, may)
    BY <2>3, <2>5, SetPending
  <2> HIDE DEF z
  <2>7. HostOK(z, last)
    BY <2>3, <2>5, <2>6 DEF HostOK, SpineOK, ContinuationOK
  <2>8. Good(y, z, may, last)
    BY <2>6, <2>7 DEF Good
  <2> QED
    BY <2>1, <2>5, <2>8, GoodTrans
<1> QED
  BY <1>1, <1>2

LEMMA ApproveActionGood ==
  ASSUME NEW x, NEW last \in Nat, NEW may, HostOK(x, last),
         Waiting(x.c) # NoCall => Waiting(x.c) \in may, NEW r \in approve_action(x)
  PROVE  Good(x, r.x, may, last)
<1>0. x \in Hosts
  BY DEF HostOK
<1>1. CASE ManagesModelTool(x.c)
  <2>1. r \in approve_pending_model_tool(x)
    BY <1>1 DEF approve_action
  <2>2. pending_approval(x.c) = Waiting(x.c)
    BY <1>1 DEF ManagesModelTool, pending_approval, Waiting
  <2> QED
    BY <2>1, <2>2, ApproveGood
<1>2. CASE ~ManagesModelTool(x.c)
  <2> DEFINE taken == [x EXCEPT !.c.pending = NoAction]
             call == x.c.pending.call
  <2>1. call \in Calls /\ Waiting(x.c) = call
    BY <1>0, <1>2, HostFields DEF Actions, Waiting, ManagesModelTool
  <2>2. Good(x, taken, may, last)
    BY ClearGood
  <2>3. \/ r.x = x
        \/ \E y \in execute_model_tool(taken, call) : r = [x |-> y, out |-> "done"]
    BY <1>2 DEF approve_action
  <2> HIDE DEF taken, call
  <2>4. CASE \E y \in execute_model_tool(taken, call) : r = [x |-> y, out |-> "done"]
    <3>1. PICK y \in execute_model_tool(taken, call) : r.x = y
      BY <2>4
    <3>2. requires_approval(call.tool) => call \in may
      <4>1. requires_approval(NoCall.tool) = FALSE
        BY DEF requires_approval, NoCall, Approvable
      <4> QED
        BY <2>1, <4>1
    <3>3. taken \in Hosts /\ HostOK(taken, last)
      BY <2>2 DEF Good, HostOK
    <3>4. Quiet(taken, y, may)
      BY <2>1, <3>1, <3>2, <3>3, ExecuteQuiet DEF execute_model_tool
    <3>5. Good(taken, y, may, last)
      BY <3>3, <3>4, QuietGood
    <3> QED
      BY <2>2, <3>1, <3>5, GoodTrans
  <2> QED
    BY <2>3, <2>4, GoodRefl
<1> QED
  BY <1>1, <1>2

LEMMA DenyActionGood ==
  ASSUME NEW x, NEW last \in Nat, NEW may, HostOK(x, last), NEW r \in deny_action(x)
  PROVE  Good(x, r.x, may, last)
<1>1. CASE ManagesModelTool(x.c)
  BY <1>1, DenyGood DEF deny_action
<1>2. CASE ~ManagesModelTool(x.c)
  <2> DEFINE taken == [x EXCEPT !.c.pending = NoAction]
  <2>1. r.x = taken
    BY <1>2 DEF deny_action
  <2>2. Good(x, taken, may, last)
    BY ClearGood
  <2> QED
    BY <2>1, <2>2
<1> QED
  BY <1>1, <1>2

LEMMA NewSessionGood ==
  ASSUME NEW x, NEW last \in Nat, NEW may, HostOK(x, last), NEW r \in NewSession(x)
  PROVE  Good(x, r.x, may, last)
<1> DEFINE c == BeginSession(x.c, 0)
           y == [x EXCEPT !.c = c]
<1>0. x \in Hosts /\ x.c \in Chats /\ Once(x.d.sessions) /\ Below(x.d.sessions, last + 1)
  BY HostFields DEF HostOK
<1>1. r.x = y
  BY DEF NewSession
<1>2. c \in Chats
  BY <1>0, BeginOK
<1> HIDE DEF c
<1>3. y \in Hosts /\ y.c = c /\ y.d = x.d /\ RanOnly(x, y, may)
  BY <1>0, <1>2, SetChat
<1> HIDE DEF y
<1>4. y.c = BeginSession(x.c, 0) /\ Once(y.d.sessions) /\ Below(y.d.sessions, last + 1)
  BY <1>0, <1>3 DEF c
<1>5. Good(x, y, may, last)
  BY <1>0, <1>3, <1>4, BegunOK
<1> QED
  BY <1>1, <1>5

LEMMA InspectGood ==
  ASSUME NEW x, NEW last \in Nat, NEW may, HostOK(x, last),
         NEW r \in review_memory(x) \cup list_sessions(x) \cup list_mailbox(x) \cup read_mailbox(x)
  PROVE  Good(x, r.x, may, last)
<1>0. x \in Hosts
  BY DEF HostOK
<1>1. \E plugin, lost : \E y \in AskFor(x, plugin, lost) :
        r.x = y \/ \E i \in Invoke(y, "mailbox") : r.x = i.x
  BY DEF review_memory, list_sessions, list_mailbox, read_mailbox
<1>2. PICK plugin, lost : \E y \in AskFor(x, plugin, lost) :
        r.x = y \/ \E i \in Invoke(y, "mailbox") : r.x = i.x
  BY <1>1
<1>3. PICK y \in AskFor(x, plugin, lost) : r.x = y \/ \E i \in Invoke(y, "mailbox") : r.x = i.x
  BY <1>2
<1>4. Quiet(x, y, may)
  BY <1>0, AskForQuiet
<1>5. y \in Hosts
  BY <1>4 DEF Quiet
<1>6. r.x = y
  BY <1>3, <1>5, InvokeQuiet
<1> QED
  BY <1>4, <1>6, QuietGood
----------------------------------------------------------------------------
(***************************************************************************)
(* A history and its events.                                               *)
(***************************************************************************)
EventCount(n) == 6 * (n \div 2) + 3 * (n % 2)

EventOf(history, k) ==
  LET turn == (k - 1) \div 6
      type == EventTypes[((k - 1) % 6) + 1]
  IN [type |-> type, seq |-> k - 1,
      message |-> CASE type = "user/message" -> history[2 * turn + 1]
                    [] type = "assistant/message" -> history[2 * turn + 2]
                    [] OTHER -> NoMessage]

LEMMA EventTypesAre ==
  ASSUME NEW i \in 1..6
  PROVE  /\ EventTypes[i] \in {"turn/start", "user/message", "step/start", "assistant/message",
                               "step/end", "turn/end"}
         /\ EventTypes[i] = "user/message" => i = 2
         /\ EventTypes[i] = "assistant/message" => i = 4
<1>1. i = 1 \/ i = 2 \/ i = 3 \/ i = 4 \/ i = 5 \/ i = 6
  OBVIOUS
<1> QED
  BY <1>1 DEF EventTypes

LEMMA EventCounts ==
  ASSUME NEW n \in Nat
  PROVE  /\ EventCount(n) \in Nat
         /\ \A m \in Nat : m <= n => EventCount(m) <= EventCount(n)
         /\ \A k \in 1..EventCount(n) :
              /\ ((k - 1) % 6) + 1 \in 1..6 /\ (k - 1) \div 6 \in Nat
              /\ ((k - 1) % 6) + 1 = 2 => 2 * ((k - 1) \div 6) + 1 \in 1..n
              /\ ((k - 1) % 6) + 1 = 4 => 2 * ((k - 1) \div 6) + 2 \in 1..n
<1>1. EventCount(n) \in Nat
  BY DEF EventCount
<1>2. \A m \in Nat : m <= n => EventCount(m) <= EventCount(n)
  BY DEF EventCount
<1>3. ASSUME NEW k \in 1..EventCount(n)
      PROVE  /\ ((k - 1) % 6) + 1 \in 1..6 /\ (k - 1) \div 6 \in Nat
             /\ ((k - 1) % 6) + 1 = 2 => 2 * ((k - 1) \div 6) + 1 \in 1..n
             /\ ((k - 1) % 6) + 1 = 4 => 2 * ((k - 1) \div 6) + 2 \in 1..n
  <2>1. k - 1 \in Nat /\ k - 1 < 6 * (n \div 2) + 3 * (n % 2)
    BY <1>1 DEF EventCount
  <2> QED
    BY <2>1
<1> QED
  BY <1>1, <1>2, <1>3

LEMMA EventsAre ==
  ASSUME NEW history \in Seq(Messages)
  PROVE  /\ session_event_values(history) = [k \in 1..EventCount(Len(history)) |-> EventOf(history, k)]
         /\ session_event_values(history) \in Seq(TurnEvents)
         /\ Len(session_event_values(history)) = EventCount(Len(history))
         /\ \A k \in 1..EventCount(Len(history)) :
              session_event_values(history)[k] = EventOf(history, k)
<1> DEFINE N == EventCount(Len(history))
           e == session_event_values(history)
<1>1. e = [k \in 1..N |-> EventOf(history, k)]
  BY Zenon DEF session_event_values, EventCount, EventOf
<1>2. N \in Nat /\ Len(history) \in Nat
  BY EventCounts
<1>3. ASSUME NEW k \in 1..N PROVE EventOf(history, k) \in TurnEvents
  <2> DEFINE turn == (k - 1) \div 6
             i == ((k - 1) % 6) + 1
             message == CASE EventTypes[i] = "user/message" -> history[2 * turn + 1]
                          [] EventTypes[i] = "assistant/message" -> history[2 * turn + 2]
                          [] OTHER -> NoMessage
  <2>1. /\ i \in 1..6 /\ turn \in Nat
        /\ i = 2 => 2 * turn + 1 \in 1..Len(history)
        /\ i = 4 => 2 * turn + 2 \in 1..Len(history)
    BY <1>2, EventCounts
  <2>2. EventOf(history, k) = [type |-> EventTypes[i], seq |-> k - 1, message |-> message]
    BY Zenon DEF EventOf
  <2>0. k - 1 \in Nat
    BY <1>2
  <2> HIDE DEF i, turn
  <2>3. /\ EventTypes[i] \in {"turn/start", "user/message", "step/start", "assistant/message",
                              "step/end", "turn/end"}
        /\ EventTypes[i] = "user/message" => i = 2
        /\ EventTypes[i] = "assistant/message" => i = 4
    BY <2>1, EventTypesAre
  <2>4. NoMessage \in Messages
    BY DEF NoMessage, Message, Messages
  <2>5. /\ i = 2 => history[2 * turn + 1] \in Messages
        /\ i = 4 => history[2 * turn + 2] \in Messages
    BY <2>1
  <2>6. message \in Messages
    <3>1. CASE EventTypes[i] = "user/message"
      BY <2>3, <2>5, <3>1
    <3>2. CASE EventTypes[i] = "assistant/message"
      BY <2>3, <2>5, <3>2
    <3>3. CASE EventTypes[i] # "user/message" /\ EventTypes[i] # "assistant/message"
      BY <2>4, <3>3
    <3> QED
      BY <3>1, <3>2, <3>3
  <2> HIDE DEF message
  <2> QED
    BY <2>0, <2>2, <2>3, <2>6 DEF TurnEvents
<1> HIDE DEF N, e
<1>4. e \in [1..N -> TurnEvents]
  BY <1>1, <1>3
<1>5. e \in Seq(TurnEvents) /\ Len(e) = N
  BY <1>2, <1>4
<1>6. \A k \in 1..N : e[k] = EventOf(history, k)
  BY <1>1
<1> QED
  BY <1>1, <1>5, <1>6 DEF e, N

LEMMA NoEvents == session_event_values(<<>>) = <<>>
<1>1. <<>> \in Seq(Messages) /\ Len(<<>>) = 0
  OBVIOUS
<1>2. EventCount(0) = 0
  BY DEF EventCount
<1>3. session_event_values(<<>>) \in Seq(TurnEvents) /\ Len(session_event_values(<<>>)) = 0
  BY <1>1, <1>2, EventsAre
<1> QED
  BY <1>3

(* The events of the first messages are the first events.                  *)
LEMMA EventsOfPrefix ==
  ASSUME NEW history \in Seq(Messages), NEW g \in Seq(Messages), Len(g) <= Len(history),
         \A j \in 1..Len(g) : g[j] = history[j]
  PROVE  \A k \in 1..EventCount(Len(g)) : EventOf(g, k) = EventOf(history, k)
<1> TAKE k \in 1..EventCount(Len(g))
<1> DEFINE turn == (k - 1) \div 6
           i == ((k - 1) % 6) + 1
           message(h) == CASE EventTypes[i] = "user/message" -> h[2 * turn + 1]
                           [] EventTypes[i] = "assistant/message" -> h[2 * turn + 2]
                           [] OTHER -> NoMessage
<1>1. /\ i \in 1..6 /\ turn \in Nat
      /\ i = 2 => 2 * turn + 1 \in 1..Len(g)
      /\ i = 4 => 2 * turn + 2 \in 1..Len(g)
  <2>1. Len(g) \in Nat
    OBVIOUS
  <2> QED
    BY <2>1, EventCounts
<1>2. /\ EventOf(g, k) = [type |-> EventTypes[i], seq |-> k - 1, message |-> message(g)]
      /\ EventOf(history, k) = [type |-> EventTypes[i], seq |-> k - 1, message |-> message(history)]
  BY Zenon DEF EventOf
<1> HIDE DEF i, turn
<1>3. /\ EventTypes[i] = "user/message" => i = 2
      /\ EventTypes[i] = "assistant/message" => i = 4
  BY <1>1, EventTypesAre
<1>4. message(g) = message(history)
  <2>1. CASE EventTypes[i] = "user/message"
    BY <1>1, <1>3, <2>1
  <2>2. CASE EventTypes[i] = "assistant/message"
    BY <1>1, <1>3, <2>2
  <2>3. CASE EventTypes[i] # "user/message" /\ EventTypes[i] # "assistant/message"
    BY <2>3
  <2> QED
    BY <2>1, <2>2, <2>3
<1> HIDE DEF message
<1> QED
  BY <1>2, <1>4

LEMMA Continued ==
  ASSUME NEW S, NEW all \in Seq(S), NEW old \in Seq(S), NEW n \in Nat, n = Len(old),
         n <= Len(all), \A k \in 1..n : old[k] = all[k]
  PROVE  /\ SubSeq(all, n + 1, Len(all)) \in Seq(S)
         /\ old \o SubSeq(all, n + 1, Len(all)) = all
<1> DEFINE fresh == SubSeq(all, n + 1, Len(all))
<1>1. /\ fresh \in Seq(S) /\ Len(fresh) = Len(all) - n
      /\ \A k \in 1..(Len(all) - n) : fresh[k] = all[n + k]
  OBVIOUS
<1> HIDE DEF fresh
<1>2. /\ old \o fresh \in Seq(S) /\ Len(old \o fresh) = Len(all)
  BY <1>1
<1>3. ASSUME NEW k \in 1..Len(all) PROVE (old \o fresh)[k] = all[k]
  <2>1. CASE k <= n
    BY <1>1, <2>1
  <2>2. CASE ~(k <= n)
    <3>1. k - n \in 1..Len(fresh) /\ k = Len(old) + (k - n) /\ k - n \in 1..(Len(all) - n)
          /\ k = n + (k - n)
      BY <1>1, <2>2
    <3>2. (old \o fresh)[k] = fresh[k - n]
      BY <1>1, <3>1
    <3>3. fresh[k - n] = all[n + (k - n)]
      BY <1>1, <3>1
    <3> QED
      BY <3>1, <3>2, <3>3
  <2> QED
    BY <2>1, <2>2
<1>4. old \o fresh = all
  BY <1>2, <1>3, SeqEqual
<1> QED
  BY <1>1, <1>4 DEF fresh

(* The events of the rest continue those of the first messages.            *)
LEMMA EventsContinue ==
  ASSUME NEW history \in Seq(Messages), NEW g \in Seq(Messages), Len(g) <= Len(history),
         \A j \in 1..Len(g) : g[j] = history[j]
  PROVE  LET all == session_event_values(history)
             fresh == SubSeq(all, first_event_seq_for_message(Len(g)) + 1, Len(all))
         IN /\ fresh \in Seq(TurnEvents)
            /\ session_event_values(g) \o fresh = all
<1> DEFINE all == session_event_values(history)
           old == session_event_values(g)
           n == EventCount(Len(g))
           fresh == SubSeq(all, n + 1, Len(all))
<1>1. first_event_seq_for_message(Len(g)) = n
  BY DEF first_event_seq_for_message, EventCount
<1>2. /\ all \in Seq(TurnEvents) /\ old \in Seq(TurnEvents)
      /\ Len(all) = EventCount(Len(history)) /\ Len(old) = n
      /\ \A k \in 1..Len(all) : all[k] = EventOf(history, k)
      /\ \A k \in 1..n : old[k] = EventOf(g, k)
  BY EventsAre
<1>3. n \in Nat /\ Len(all) \in Nat /\ n <= Len(all)
  BY <1>2, EventCounts
<1>4. \A k \in 1..n : EventOf(g, k) = EventOf(history, k)
  BY EventsOfPrefix
<1>4a. 1..n \subseteq 1..Len(all)
  BY <1>3
<1>5. \A k \in 1..n : old[k] = all[k]
  BY <1>2, <1>4, <1>4a
<1>6. fresh \in Seq(TurnEvents) /\ old \o fresh = all
  <2> HIDE DEF all, old, n
  <2>1. all \in Seq(TurnEvents) /\ old \in Seq(TurnEvents) /\ n \in Nat /\ n = Len(old)
        /\ n <= Len(all)
    BY <1>2, <1>3
  <2> QED
    BY <1>5, <2>1, Continued
<1> QED
  BY <1>1, <1>6
----------------------------------------------------------------------------
(***************************************************************************)
(* Worlds, and the queues of the gateway.                                  *)
(***************************************************************************)
LEMMA WorldFields ==
  ASSUME NEW w \in Worlds
  PROVE  /\ w.x \in Hosts /\ w.web \in Webs /\ w.gw \in Gateways /\ w.set \in SettingDocs
         /\ w.audit \in Audits /\ w.ok \in BOOLEAN
         /\ w.web.history \in Seq(Messages) /\ w.web.session \in Nat
         /\ w.web.pending \in Approvals /\ w.web.next \in Nat
         /\ w.gw.mux \in Seq(Notices) /\ w.gw.host \in Seq(Notices) /\ w.gw.refused \in BOOLEAN
         /\ w.set.file \in SUBSET STRING /\ w.set.memory \in SUBSET STRING
         /\ w.set.torn \in BOOLEAN
         /\ w.audit.shown \in SUBSET Shown /\ w.audit.allowed \in SUBSET Calls
         /\ w.audit.streamed \in Seq(TurnEvents)
BY DEF Worlds, Webs, Gateways, SettingDocs, Audits

LEMMA PlainTyped == Plain \in Notices /\ Plain.kind = "event" /\ NoPending \in Approvals
                    /\ NoPending.call = NoCall
BY NothingTyped DEF Plain, Notices, NoPending, Approvals

(* What reaches a queue: nothing but the queue and w.ok changes.           *)
Reported(w, y) ==
  /\ y \in Worlds /\ y.x = w.x /\ y.web = w.web /\ y.set = w.set /\ y.audit = w.audit
  /\ w.gw.refused => y.gw.refused
  /\ y.ok => w.ok
  /\ w.ok => y.ok \/ y.gw.refused

ComesFrom(e, q, events) ==
  (\E j \in DOMAIN q : e = q[j]) \/ (\E j \in DOMAIN events : e = events[j])

LEMMA Fits ==
  ASSUME NEW S, NEW events \in Seq(S), NEW q \in Seq(S), NEW n \in Int, n <= Len(events),
         NEW z, z = q \o SubSeq(events, 1, n)
  PROVE  z \in Seq(S) /\ \A k \in DOMAIN z : ComesFrom(z[k], q, events)
<1> DEFINE s == SubSeq(events, 1, n)
<1>1. s \in Seq(S) /\ \A k \in DOMAIN s : k \in DOMAIN events /\ s[k] = events[k]
  <2>1. CASE n < 1
    <3>1. s = <<>>
      BY <2>1
    <3> QED
      BY <3>1
  <2>2. CASE n >= 1
    BY <2>2
  <2> QED
    BY <2>1, <2>2
<1> HIDE DEF s
<1>2. q \o s \in Seq(S) /\ Len(q \o s) = Len(q) + Len(s)
  BY <1>1
<1>3. ASSUME NEW k \in DOMAIN (q \o s)
      PROVE  \/ \E j \in DOMAIN q : (q \o s)[k] = q[j]
             \/ \E j \in DOMAIN events : (q \o s)[k] = events[j]
  <2>0. k \in 1..(Len(q) + Len(s)) /\ Len(q) \in Nat /\ Len(s) \in Nat
    BY <1>1, <1>2
  <2>1. CASE k <= Len(q)
    <3>1. k \in DOMAIN q /\ (q \o s)[k] = q[k]
      BY <1>1, <2>0, <2>1
    <3> QED
      BY <3>1
  <2>2. CASE ~(k <= Len(q))
    <3>1. k - Len(q) \in DOMAIN s /\ (q \o s)[k] = s[k - Len(q)]
      BY <1>1, <2>0, <2>2
    <3> QED
      BY <1>1, <3>1
  <2> QED
    BY <2>1, <2>2
<1>4. z = q \o s
  BY DEF s
<1> HIDE DEF s
<1>5. ASSUME NEW k \in DOMAIN z
      PROVE  (\E j \in DOMAIN q : z[k] = q[j]) \/ (\E j \in DOMAIN events : z[k] = events[j])
  <2>1. k \in DOMAIN (q \o s) /\ z[k] = (q \o s)[k]
    BY <1>4
  <2> QED
    BY <1>3, <2>1
<1> QED
  BY <1>2, <1>4, <1>5 DEF ComesFrom

LEMMA PublishMux ==
  ASSUME NEW w \in Worlds, NEW events \in Seq(Notices)
  PROVE  LET y == publish(w, "mux", events) IN
         /\ Reported(w, y) /\ y.gw.host = w.gw.host
         /\ \A k \in DOMAIN y.gw.mux : ComesFrom(y.gw.mux[k], w.gw.mux, events)
<1> DEFINE room == MAX_PENDING_EVENTS - Len(w.gw.mux)
           fit == IF Len(events) <= room THEN Len(events) ELSE room
           q == w.gw.mux \o SubSeq(events, 1, fit)
           refused == w.gw.refused \/ fit < Len(events)
           gw == [w.gw EXCEPT !.mux = q, !.refused = refused]
           y == [w EXCEPT !.gw = gw, !.ok = fit = Len(events)]
<1>1. CASE ~w.ok
  <2>1. publish(w, "mux", events) = w
    BY <1>1 DEF publish
  <2> QED
    BY <1>1, <2>1, WorldFields DEF Reported, ComesFrom
<1>2. CASE w.ok
  <2>1. publish(w, "mux", events) = y
    <3>1. publish(w, "mux", events) =
            [w EXCEPT !.gw.mux = q, !.ok = fit = Len(events), !.gw.refused = refused]
      BY <1>2 DEF publish
    <3>2. DOMAIN w = {"x", "web", "gw", "set", "audit", "ok"}
          /\ DOMAIN w.gw = {"mux", "host", "refused"}
      BY DEF Worlds, Gateways
    <3> HIDE DEF q, fit
    <3> QED
      BY <3>1, <3>2
  <2>2. w.gw.mux \in Seq(Notices) /\ w.gw \in Gateways /\ Len(w.gw.mux) \in Nat /\ Len(events) \in Nat
    BY WorldFields
  <2>3. fit \in Int /\ fit <= Len(events)
    BY <2>2, CapacityAssumption
  <2>4. /\ q \in Seq(Notices)
        /\ \A k \in DOMAIN q : ComesFrom(q[k], w.gw.mux, events)
    <3> HIDE DEF fit
    <3>1. w.gw.mux \in Seq(Notices) /\ fit \in Int /\ fit <= Len(events)
      BY <2>2, <2>3
    <3>2. q = w.gw.mux \o SubSeq(events, 1, fit)
      OBVIOUS
    <3> HIDE DEF q
    <3>3. q \in Seq(Notices)
      BY <3>1, <3>2, Fits
    <3>4. \A k \in DOMAIN q : ComesFrom(q[k], w.gw.mux, events)
      BY <3>1, <3>2, Fits
    <3> QED
      BY <3>3, <3>4
  <2> HIDE DEF q
  <2>5. refused \in BOOLEAN /\ (w.gw.refused => refused) /\ (fit # Len(events) => refused)
    BY <2>2, <2>3, WorldFields
  <2> HIDE DEF fit, refused
  <2>6. gw \in Gateways /\ gw.mux = q /\ gw.host = w.gw.host /\ gw.refused = refused
    BY <2>2, <2>4, <2>5 DEF Gateways
  <2> HIDE DEF gw
  <2>7. /\ y \in Worlds /\ y.x = w.x /\ y.web = w.web /\ y.set = w.set /\ y.audit = w.audit
        /\ y.gw = gw /\ y.ok = (fit = Len(events))
    BY <2>6 DEF Worlds
  <2> HIDE DEF y
  <2> QED
    BY <1>2, <2>1, <2>4, <2>5, <2>6, <2>7 DEF Reported
<1> QED
  BY <1>1, <1>2, WorldFields

LEMMA PublishHost ==
  ASSUME NEW w \in Worlds, NEW events \in Seq(Notices)
  PROVE  LET y == publish(w, "host", events) IN
         /\ Reported(w, y) /\ y.gw.mux = w.gw.mux
         /\ \A k \in DOMAIN y.gw.host : ComesFrom(y.gw.host[k], w.gw.host, events)
<1> DEFINE room == MAX_PENDING_EVENTS - Len(w.gw.host)
           fit == IF Len(events) <= room THEN Len(events) ELSE room
           q == w.gw.host \o SubSeq(events, 1, fit)
           refused == w.gw.refused \/ fit < Len(events)
           gw == [w.gw EXCEPT !.host = q, !.refused = refused]
           y == [w EXCEPT !.gw = gw, !.ok = fit = Len(events)]
<1>1. CASE ~w.ok
  <2>1. publish(w, "host", events) = w
    BY <1>1 DEF publish
  <2> QED
    BY <1>1, <2>1, WorldFields DEF Reported, ComesFrom
<1>2. CASE w.ok
  <2>1. publish(w, "host", events) = y
    <3>1. publish(w, "host", events) =
            [w EXCEPT !.gw.host = q, !.ok = fit = Len(events), !.gw.refused = refused]
      BY <1>2 DEF publish
    <3>2. DOMAIN w = {"x", "web", "gw", "set", "audit", "ok"}
          /\ DOMAIN w.gw = {"mux", "host", "refused"}
      BY DEF Worlds, Gateways
    <3> HIDE DEF q, fit
    <3> QED
      BY <3>1, <3>2
  <2>2. w.gw.host \in Seq(Notices) /\ w.gw \in Gateways /\ Len(w.gw.host) \in Nat /\ Len(events) \in Nat
    BY WorldFields
  <2>3. fit \in Int /\ fit <= Len(events)
    BY <2>2, CapacityAssumption
  <2>4. /\ q \in Seq(Notices)
        /\ \A k \in DOMAIN q : ComesFrom(q[k], w.gw.host, events)
    <3> HIDE DEF fit
    <3>1. w.gw.host \in Seq(Notices) /\ fit \in Int /\ fit <= Len(events)
      BY <2>2, <2>3
    <3>2. q = w.gw.host \o SubSeq(events, 1, fit)
      OBVIOUS
    <3> HIDE DEF q
    <3>3. q \in Seq(Notices)
      BY <3>1, <3>2, Fits
    <3>4. \A k \in DOMAIN q : ComesFrom(q[k], w.gw.host, events)
      BY <3>1, <3>2, Fits
    <3> QED
      BY <3>3, <3>4
  <2> HIDE DEF q
  <2>5. refused \in BOOLEAN /\ (w.gw.refused => refused) /\ (fit # Len(events) => refused)
    BY <2>2, <2>3, WorldFields
  <2> HIDE DEF fit, refused
  <2>6. gw \in Gateways /\ gw.host = q /\ gw.mux = w.gw.mux /\ gw.refused = refused
    BY <2>2, <2>4, <2>5 DEF Gateways
  <2> HIDE DEF gw
  <2>7. /\ y \in Worlds /\ y.x = w.x /\ y.web = w.web /\ y.set = w.set /\ y.audit = w.audit
        /\ y.gw = gw /\ y.ok = (fit = Len(events))
    BY <2>6 DEF Worlds
  <2> HIDE DEF y
  <2> QED
    BY <1>2, <2>1, <2>4, <2>5, <2>6, <2>7 DEF Reported
<1> QED
  BY <1>1, <1>2, WorldFields

(* A report of plain events keeps everything.                              *)
LEMMA ReportedStream ==
  ASSUME NEW w, NEW y, Reported(w, y), NEW h, StreamAt(w, h)
  PROVE  StreamAt(y, h)
BY DEF Reported, StreamAt

LEMMA PlainMux ==
  ASSUME NEW w, NEW last, CoreOK(w, last), NEW events \in Seq(Notices),
         \A j \in DOMAIN events : events[j].kind = "event"
  PROVE  Reported(w, publish(w, "mux", events)) /\ CoreOK(publish(w, "mux", events), last)
<1> DEFINE y == publish(w, "mux", events)
<1>0. w \in Worlds
  BY DEF CoreOK
<1>1. /\ Reported(w, y) /\ y.gw.host = w.gw.host
      /\ \A k \in DOMAIN y.gw.mux : ComesFrom(y.gw.mux[k], w.gw.mux, events)
  BY <1>0, PublishMux
<1> HIDE DEF y
<1>2. Numbered(y)
  <2>1. ASSUME NEW k \in DOMAIN y.gw.mux, y.gw.mux[k].kind = "approval"
        PROVE  NumberOK(y.web, y.gw.mux[k].n, y.gw.mux[k].call)
    <3>1. PICK j \in DOMAIN w.gw.mux : y.gw.mux[k] = w.gw.mux[j]
      BY <1>1, <2>1 DEF ComesFrom
    <3> QED
      BY <1>1, <2>1, <3>1 DEF CoreOK, Numbered, Reported
  <2> QED
    BY <1>1, <2>1 DEF CoreOK, Numbered, Reported
<1>3. Current(y) /\ Asked(y) /\ Agreed(y)
  BY <1>1 DEF CoreOK, Reported, Current, Asked, Agreed
<1> QED
  BY <1>1, <1>2, <1>3 DEF CoreOK, Reported, y

LEMMA PlainHost ==
  ASSUME NEW w, NEW last, CoreOK(w, last)
  PROVE  Reported(w, publish(w, "host", <<Plain>>)) /\ CoreOK(publish(w, "host", <<Plain>>), last)
<1> DEFINE events == <<Plain>>
           y == publish(w, "host", events)
<1>0. w \in Worlds /\ events \in Seq(Notices) /\ \A j \in DOMAIN events : events[j].kind = "event"
  BY PlainTyped DEF CoreOK
<1> HIDE DEF events
<1>1. /\ Reported(w, y) /\ y.gw.mux = w.gw.mux
      /\ \A k \in DOMAIN y.gw.host : ComesFrom(y.gw.host[k], w.gw.host, events)
  BY <1>0, PublishHost
<1> HIDE DEF y
<1>2. \A k \in DOMAIN y.gw.host : y.gw.host[k].kind # "approval"
  BY <1>0, <1>1 DEF CoreOK, Numbered, ComesFrom
<1>3. Numbered(y)
  BY <1>1, <1>2 DEF CoreOK, Numbered, Reported
<1>4. Current(y) /\ Asked(y) /\ Agreed(y)
  BY <1>1 DEF CoreOK, Reported, Current, Asked, Agreed
<1> QED
  BY <1>1, <1>3, <1>4 DEF CoreOK, Reported, y, events

LEMMA PlainOne ==
  <<Plain>> \in Seq(Notices) /\ \A j \in DOMAIN <<Plain>> : <<Plain>>[j].kind = "event"
BY PlainTyped
----------------------------------------------------------------------------
(***************************************************************************)
(* Steps of a world.                                                       *)
(***************************************************************************)
LEMMA HostLater ==
  ASSUME NEW x, NEW last \in Nat, HostOK(x, last)
  PROVE  HostOK(x, last + 1)
<1>0. x \in Hosts
  BY DEF HostOK
<1>1. \A s \in DOMAIN x.d.sessions : \A i \in DOMAIN x.d.sessions[s] : x.d.sessions[s][i] \in Nat
  BY <1>0, SessionsTyped
<1>2. Below(x.d.sessions, last + 1 + 1)
  BY <1>1 DEF HostOK, Below
<1>3. x.c.spine.prompt \in Nat /\ x.c.continuation.prompt \in Nat
  BY <1>0, HostFields DEF SpineTurns, Continuations
<1>4. SpineOK(x.c, x.d.sessions, last + 1)
  BY <1>3 DEF HostOK, SpineOK, OpenTurn
<1>5. ContinuationOK(x.c, x.d.sessions, last + 1)
  BY <1>3 DEF HostOK, ContinuationOK, OpenTurn
<1> QED
  BY <1>2, <1>4, <1>5 DEF HostOK

LEMMA SetHost ==
  ASSUME NEW w \in Worlds, NEW y \in Hosts
  PROVE  LET z == [w EXCEPT !.x = y] IN
         /\ z \in Worlds /\ z.x = y /\ z.web = w.web /\ z.gw = w.gw /\ z.set = w.set
         /\ z.audit = w.audit /\ z.ok = w.ok
BY DEF Worlds

LEMMA AskedStep ==
  ASSUME NEW w, NEW z, NEW may, Asked(w), RanOnly(w.x, z.x, may), may \subseteq z.audit.allowed,
         w.audit.allowed \subseteq z.audit.allowed
  PROVE  Asked(z)
BY DEF Asked, RanOnly

LEMMA QuietStep ==
  ASSUME NEW w, NEW last \in Nat, CoreOK(w, last), NEW y, Quiet(w.x, y, {})
  PROVE  LET z == [w EXCEPT !.x = y] IN
         /\ CoreOK(z, last) /\ z.x = y /\ z.web = w.web /\ z.gw = w.gw /\ z.set = w.set
         /\ z.audit = w.audit /\ z.ok = w.ok
         /\ \A h : StreamAt(w, h) => StreamAt(z, h)
<1> DEFINE z == [w EXCEPT !.x = y]
<1>0. w \in Worlds /\ y \in Hosts /\ HostOK(w.x, last)
  BY DEF CoreOK, Quiet
<1>1. /\ z \in Worlds /\ z.x = y /\ z.web = w.web /\ z.gw = w.gw /\ z.set = w.set
      /\ z.audit = w.audit /\ z.ok = w.ok
  BY <1>0, SetHost
<1> HIDE DEF z
<1>2. /\ HostOK(y, last) /\ y.c.switches = w.x.c.switches
      /\ pending_approval(y.c) = pending_approval(w.x.c)
  BY <1>0, QuietGood, QuietIdle DEF Good
<1>3. Asked(z)
  BY <1>1, AskedStep DEF CoreOK, Quiet
<1>4. Current(z) /\ Numbered(z) /\ Agreed(z)
  BY <1>1, <1>2 DEF CoreOK, Current, Numbered, Agreed
<1>5. \A h : StreamAt(w, h) => StreamAt(z, h)
  BY <1>1 DEF StreamAt
<1> QED
  BY <1>1, <1>2, <1>3, <1>4, <1>5 DEF CoreOK, z

LEMMA GoodStep ==
  ASSUME NEW w, NEW last \in Nat, CoreOK(w, last), w.web.pending = NoPending,
         NEW y, NEW may, Good(w.x, y, may, last), may \subseteq w.audit.allowed
  PROVE  LET z == [w EXCEPT !.x = y] IN
         /\ CoreOK(z, last) /\ z.x = y /\ z.web = w.web /\ z.gw = w.gw /\ z.set = w.set
         /\ z.audit = w.audit /\ z.ok = w.ok
         /\ \A h : StreamAt(w, h) => StreamAt(z, h)
<1> DEFINE z == [w EXCEPT !.x = y]
<1>0. w \in Worlds /\ y \in Hosts /\ HostOK(y, last)
  BY DEF CoreOK, Good, HostOK
<1>1. /\ z \in Worlds /\ z.x = y /\ z.web = w.web /\ z.gw = w.gw /\ z.set = w.set
      /\ z.audit = w.audit /\ z.ok = w.ok
  BY <1>0, SetHost
<1> HIDE DEF z
<1>3. Asked(z)
  BY <1>1, AskedStep DEF CoreOK, Good
<1>4. Current(z) /\ Numbered(z) /\ Agreed(z)
  BY <1>1 DEF CoreOK, Current, Numbered, Agreed, Good
<1>5. \A h : StreamAt(w, h) => StreamAt(z, h)
  BY <1>1 DEF StreamAt
<1> QED
  BY <1>0, <1>1, <1>3, <1>4, <1>5 DEF CoreOK, z

LEMMA SetHistory ==
  ASSUME NEW w, NEW last, CoreOK(w, last), NEW h \in Seq(Messages)
  PROVE  LET z == [w EXCEPT !.web.history = h] IN
         /\ CoreOK(z, last) /\ z.x = w.x /\ z.web.history = h /\ z.web.session = w.web.session
         /\ z.web.pending = w.web.pending /\ z.web.next = w.web.next
         /\ z.gw = w.gw /\ z.set = w.set /\ z.audit = w.audit /\ z.ok = w.ok
         /\ \A g : StreamAt(w, g) => StreamAt(z, g)
<1> DEFINE z == [w EXCEPT !.web.history = h]
<1>0. w \in Worlds
  BY DEF CoreOK
<1>1. /\ z \in Worlds /\ z.x = w.x /\ z.web.history = h /\ z.web.session = w.web.session
      /\ z.web.pending = w.web.pending /\ z.web.next = w.web.next
      /\ z.gw = w.gw /\ z.set = w.set /\ z.audit = w.audit /\ z.ok = w.ok
  BY <1>0, WorldFields DEF Worlds, Webs
<1> HIDE DEF z
<1>2. Numbered(z) /\ Current(z) /\ Asked(z) /\ Agreed(z)
  BY <1>1 DEF CoreOK, Numbered, NumberOK, Current, Asked, Agreed
<1>3. \A g : StreamAt(w, g) => StreamAt(z, g)
  BY <1>1 DEF StreamAt
<1> QED
  BY <1>1, <1>2, <1>3 DEF CoreOK, z

(* A session is opened: its history is what the client has been sent.      *)
OpenSession(w, y, h, id, streamed) ==
  [w EXCEPT !.x = y,
            !.web = [@ EXCEPT !.history = h, !.session = id, !.pending = NoPending],
            !.audit.streamed = streamed]

LEMMA OpenGood ==
  ASSUME NEW w, NEW last \in Nat, CoreOK(w, last), w.web.pending = NoPending,
         NEW y, Good(w.x, y, {}, last), NEW h \in Seq(Messages), NEW id \in Nat
  PROVE  LET z == OpenSession(w, y, h, id, session_event_values(h)) IN
         CoreOK(z, last) /\ StreamAt(z, h) /\ z.web.history = h /\ z.web.pending = NoPending
<1> DEFINE e == session_event_values(h)
           v == [w.web EXCEPT !.history = h, !.session = id, !.pending = NoPending]
           a == [w.audit EXCEPT !.streamed = e]
           z == [w EXCEPT !.x = y, !.web = v, !.audit = a]
<1>0. w \in Worlds /\ y \in Hosts /\ HostOK(y, last) /\ NoPending \in Approvals
      /\ e \in Seq(TurnEvents) /\ w.web \in Webs /\ w.audit \in Audits
  BY PlainTyped, EventsAre, WorldFields DEF CoreOK, Good, HostOK
<1>1. OpenSession(w, y, h, id, e) = z
  BY <1>0 DEF OpenSession, Worlds, Audits
<1> HIDE DEF e
<1>2. /\ v \in Webs /\ v.history = h /\ v.session = id /\ v.pending = NoPending
      /\ v.next = w.web.next
  BY <1>0 DEF Webs
<1>3. a \in Audits /\ a.streamed = e /\ a.shown = w.audit.shown /\ a.allowed = w.audit.allowed
  BY <1>0 DEF Audits
<1> HIDE DEF v, a
<1>4. /\ z \in Worlds /\ z.x = y /\ z.web = v /\ z.gw = w.gw /\ z.set = w.set /\ z.audit = a
      /\ z.ok = w.ok
  BY <1>0, <1>2, <1>3 DEF Worlds
<1> HIDE DEF z
<1>5. Asked(z)
  <2>1. Asked(w) /\ RanOnly(w.x, y, {})
    BY DEF CoreOK, Good
  <2> QED
    BY <1>3, <1>4, <2>1 DEF Asked, RanOnly
<1>6. Current(z) /\ Numbered(z) /\ Agreed(z)
  BY <1>2, <1>3, <1>4 DEF CoreOK, Current, Numbered, NumberOK, Agreed, Good
<1>7. StreamAt(z, h)
  BY <1>3, <1>4 DEF StreamAt, e
<1>8. CoreOK(z, last)
  BY <1>0, <1>4, <1>5, <1>6 DEF CoreOK
<1> QED
  BY <1>1, <1>2, <1>4, <1>7, <1>8 DEF e

(* The events since `start` are sent; the client has been sent the others. *)
LEMMA PublishTurn ==
  ASSUME NEW w, NEW last, CoreOK(w, last), NEW g \in Seq(Messages), StreamAt(w, g),
         Len(g) <= Len(w.web.history), \A j \in 1..Len(g) : g[j] = w.web.history[j]
  PROVE  LET z == publish_turn_events(w, Len(g)) IN
         /\ CoreOK(z, last) /\ StreamAt(z, w.web.history) /\ z.x = w.x /\ z.web = w.web
<1> DEFINE all == session_event_values(w.web.history)
           fresh == SubSeq(all, first_event_seq_for_message(Len(g)) + 1, Len(all))
           events == [k \in DOMAIN fresh |-> Plain]
           after == publish(w, "mux", events)
           a == [after.audit EXCEPT !.streamed = after.audit.streamed \o fresh]
           z == [after EXCEPT !.audit = a]
<1>0. w \in Worlds /\ w.web.history \in Seq(Messages) /\ w.ok \in BOOLEAN
  BY WorldFields DEF CoreOK
<1>1. fresh \in Seq(TurnEvents) /\ session_event_values(g) \o fresh = all
  BY <1>0, EventsContinue
<1>2. publish_turn_events(w, Len(g)) = IF w.ok THEN z ELSE after
  BY Zenon DEF publish_turn_events
<1> HIDE DEF all, fresh
<1>3. events \in Seq(Notices) /\ \A j \in DOMAIN events : events[j].kind = "event"
  <2>1. DOMAIN fresh = 1..Len(fresh) /\ Len(fresh) \in Nat
    BY <1>1
  <2> QED
    BY <2>1, PlainTyped
<1> HIDE DEF events
<1>4. Reported(w, after) /\ CoreOK(after, last)
  BY <1>3, PlainMux
<1> HIDE DEF after
<1>5. CASE ~w.ok
  <2>1. after.gw.refused
    BY <1>4, <1>5 DEF Reported, CoreOK
  <2>2. StreamAt(after, w.web.history)
    BY <2>1 DEF StreamAt
  <2> QED
    BY <1>2, <1>4, <1>5, <2>2 DEF Reported
<1>6. CASE w.ok
  <2>1. after \in Worlds /\ after.audit \in Audits /\ after.audit.streamed \in Seq(TurnEvents)
        /\ after.audit.streamed = w.audit.streamed /\ after.web = w.web
    BY <1>4, WorldFields DEF Reported
  <2>2. after.audit.streamed \o fresh \in Seq(TurnEvents)
    BY <1>1, <2>1
  <2>3. /\ a \in Audits /\ a.streamed = after.audit.streamed \o fresh
        /\ a.shown = after.audit.shown /\ a.allowed = after.audit.allowed
    BY <2>1, <2>2 DEF Audits
  <2> HIDE DEF a
  <2>4. /\ z \in Worlds /\ z.x = after.x /\ z.web = after.web /\ z.gw = after.gw
        /\ z.set = after.set /\ z.audit = a /\ z.ok = after.ok
    BY <2>1, <2>3 DEF Worlds
  <2> HIDE DEF z
  <2>5. CoreOK(z, last)
    BY <1>4, <2>3, <2>4 DEF CoreOK, Current, Numbered, Asked, Agreed
  <2>6. StreamAt(z, w.web.history)
    <3> SUFFICES ASSUME ~z.gw.refused, z.web.session # 0
                 PROVE  z.audit.streamed = session_event_values(w.web.history)
      BY DEF StreamAt
    <3>1. ~w.gw.refused /\ w.web.session # 0
      BY <1>4, <2>1, <2>4 DEF Reported
    <3>2. w.audit.streamed = session_event_values(g)
      BY <3>1 DEF StreamAt
    <3> QED
      BY <1>1, <2>1, <2>3, <2>4, <3>2 DEF all
  <2> QED
    BY <1>2, <1>4, <1>6, <2>4, <2>5, <2>6 DEF Reported
<1> QED
  BY <1>0, <1>5, <1>6

(* An approval is announced, or announced again.                           *)
LEMMA PublishApproval ==
  ASSUME NEW w, NEW last, CoreOK(w, last), NEW session,
         w.web.pending = NoPending => session = w.web.session
  PROVE  LET z == publish_pending_approval(w, session) IN
         /\ CoreOK(z, last) /\ z.x = w.x /\ z.web.history = w.web.history
         /\ \A h : StreamAt(w, h) => StreamAt(z, h)
<1> DEFINE call == pending_approval(w.x.c)
           fresh == [n |-> w.web.next, session |-> session, call |-> call]
           shown == IF w.web.pending = NoPending THEN fresh ELSE w.web.pending
           v == [w.web EXCEPT !.pending = fresh, !.next = w.web.next + 1]
           noted == IF w.web.pending = NoPending THEN [w EXCEPT !.web = v] ELSE w
           event == [kind |-> "approval", n |-> shown.n, call |-> shown.call]
           z == publish(noted, "mux", <<event>>)
<1>0. w \in Worlds /\ w.web \in Webs /\ w.web.next \in Nat /\ w.web.session \in Nat
      /\ w.web.pending \in Approvals /\ w.x \in Hosts
  BY WorldFields DEF CoreOK
<1>1. CASE ~w.ok \/ call = NoCall
  <2>1. publish_pending_approval(w, session) = w
    BY <1>1, Zenon DEF publish_pending_approval
  <2> QED
    BY <2>1
<1>2. CASE w.ok /\ call # NoCall
  <2>1. publish_pending_approval(w, session) = z
    <3>1. w.web.pending = NoPending =>
            [w EXCEPT !.web.pending = fresh, !.web.next = @ + 1] = [w EXCEPT !.web = v]
      BY <1>0 DEF Worlds, Webs
    <3>2. publish_pending_approval(w, session) =
            publish(IF w.web.pending = NoPending
                      THEN [w EXCEPT !.web.pending = fresh, !.web.next = @ + 1] ELSE w,
                    "mux", <<event>>)
      BY <1>2, Zenon DEF publish_pending_approval
    <3> QED
      BY <3>1, <3>2, Zenon
  <2>2. call \in Calls
    BY <1>0, HostFields, NothingTyped DEF pending_approval, SpineTurns, Actions
  <2> HIDE DEF call
  <2>3. w.web.pending = NoPending =>
          /\ fresh \in Approvals /\ fresh.n = w.web.next /\ fresh.session = w.web.session
          /\ fresh.call = call /\ fresh # NoPending
    BY <1>0, <1>2, <2>2 DEF Approvals, NoPending
  <2> HIDE DEF fresh
  <2>4. w.web.pending = NoPending =>
          /\ v \in Webs /\ v.pending = fresh /\ v.next = w.web.next + 1
          /\ v.history = w.web.history /\ v.session = w.web.session
    <3>1. w.web.next + 1 \in Nat
      BY <1>0
    <3> QED
      BY <1>0, <2>3, <3>1 DEF Webs
  <2> HIDE DEF v
  <2>5. /\ noted \in Worlds /\ noted.x = w.x /\ noted.gw = w.gw /\ noted.set = w.set
        /\ noted.audit = w.audit /\ noted.ok = w.ok
        /\ noted.web = IF w.web.pending = NoPending THEN v ELSE w.web
    BY <1>0, <2>4 DEF Worlds
  <2> HIDE DEF noted
  <2>6. /\ noted.web.pending = shown /\ shown # NoPending /\ shown.call = call
        /\ noted.web.session = w.web.session /\ shown.session = w.web.session
        /\ shown.n < noted.web.next /\ shown \in Approvals
        /\ noted.web.history = w.web.history
    <3>1. CASE w.web.pending = NoPending
      BY <1>0, <2>3, <2>4, <2>5, <3>1
    <3>2. CASE w.web.pending # NoPending
      BY <1>0, <2>5, <3>2 DEF CoreOK, Current, call
    <3> QED
      BY <3>1, <3>2
  <2>7. \A n, c : NumberOK(w.web, n, c) /\ n \in Nat => NumberOK(noted.web, n, c)
    <3>1. CASE w.web.pending = NoPending
      BY <1>0, <2>3, <2>4, <2>5, <3>1 DEF NumberOK
    <3>2. CASE w.web.pending # NoPending
      BY <2>5, <3>2
    <3> QED
      BY <3>1, <3>2
  <2>8. event \in Notices /\ NumberOK(noted.web, event.n, event.call)
    BY <2>6 DEF Notices, Approvals, NumberOK
  <2> HIDE DEF event, shown
  <2>9. <<event>> \in Seq(Notices)
    BY <2>8
  <2>10. /\ Reported(noted, z) /\ z.gw.host = noted.gw.host
         /\ \A k \in DOMAIN z.gw.mux : ComesFrom(z.gw.mux[k], noted.gw.mux, <<event>>)
    BY <2>5, <2>9, PublishMux
  <2> HIDE DEF z
  <2>11. ASSUME NEW k \in DOMAIN z.gw.mux, z.gw.mux[k].kind = "approval"
         PROVE  NumberOK(z.web, z.gw.mux[k].n, z.gw.mux[k].call)
    <3>1. ComesFrom(z.gw.mux[k], noted.gw.mux, <<event>>) /\ z.web = noted.web
      BY <2>10 DEF Reported
    <3>2. CASE \E j \in DOMAIN noted.gw.mux : z.gw.mux[k] = noted.gw.mux[j]
      <4>1. PICK j \in DOMAIN w.gw.mux : z.gw.mux[k] = w.gw.mux[j]
        BY <2>5, <3>2
      <4>2. w.gw.mux[j].n \in Nat
        <5>1. w.gw.mux \in Seq(Notices)
          BY <1>0, WorldFields
        <5>2. w.gw.mux[j] \in Notices
          BY <5>1
        <5> QED
          BY <5>2 DEF Notices
      <4>3. NumberOK(w.web, w.gw.mux[j].n, w.gw.mux[j].call)
        BY <2>11, <4>1 DEF CoreOK, Numbered
      <4> QED
        BY <2>7, <3>1, <4>1, <4>2, <4>3
    <3>3. CASE \E j \in DOMAIN <<event>> : z.gw.mux[k] = <<event>>[j]
      <4>1. z.gw.mux[k] = event
        BY <3>3
      <4> QED
        BY <2>8, <3>1, <4>1
    <3> QED
      BY <3>1, <3>2, <3>3 DEF ComesFrom
  <2>12. ASSUME NEW s \in z.audit.shown PROVE NumberOK(z.web, s.n, s.call)
    <3>1. s \in w.audit.shown /\ z.web = noted.web
      BY <2>5, <2>10 DEF Reported
    <3>2. s.n \in Nat
      BY <1>0, <3>1, WorldFields DEF Shown
    <3>3. NumberOK(w.web, s.n, s.call)
      BY <3>1 DEF CoreOK, Numbered
    <3> QED
      BY <2>7, <3>1, <3>2, <3>3
  <2>13. Numbered(z)
    BY <2>5, <2>10, <2>11, <2>12 DEF Numbered, CoreOK
  <2>14. Current(z)
    BY <1>2, <2>5, <2>6, <2>10 DEF Current, Reported, call
  <2>15. Asked(z) /\ Agreed(z)
    BY <2>5, <2>10 DEF CoreOK, Reported, Asked, Agreed
  <2>16. CoreOK(z, last)
    BY <1>2, <2>5, <2>10, <2>13, <2>14, <2>15 DEF CoreOK, Reported
  <2>17. \A h : StreamAt(w, h) => StreamAt(z, h)
    BY <2>5, <2>6, <2>10 DEF Reported, StreamAt
  <2> QED
    BY <2>1, <2>5, <2>6, <2>10, <2>16, <2>17 DEF Reported
<1> QED
  BY <1>0, <1>1, <1>2
----------------------------------------------------------------------------
(***************************************************************************)
(* Requests: the refresh, sessions and prompts.                            *)
(***************************************************************************)
LEMMA SummariesQuiet ==
  ASSUME NEW x \in Hosts, NEW y \in web_session_summaries(x)
  PROVE  Quiet(x, y, {})
<1>1. CASE "storage" \notin x.c.caps
  <2>1. y = x
    BY <1>1 DEF web_session_summaries
  <2> QED
    BY <2>1, QuietRefl
<1>2. CASE "storage" \in x.c.caps
  <2> DEFINE F(i) == IF i.r = "ok" /\ i.x.c.active # 0 THEN AskFor(i.x, "multi_agent", {"multi_agent"})
                     ELSE {call_lost_route(i, {"storage"})}
  <2>1. web_session_summaries(x) = UNION {F(i) : i \in Invoke(x, "storage")}
    BY <1>2, Zenon DEF web_session_summaries
  <2>2. PICK i \in Invoke(x, "storage") : y \in F(i)
    BY <2>1, Zenon
  <2>3. i.x = x
    BY InvokeQuiet
  <2>4. CASE i.r = "ok" /\ i.x.c.active # 0
    <3>1. y \in AskFor(x, "multi_agent", {"multi_agent"})
      BY <2>2, <2>3, <2>4
    <3> QED
      BY <3>1, AskForQuiet
  <2>5. CASE ~(i.r = "ok" /\ i.x.c.active # 0)
    <3>1. y = call_lost_route(i, {"storage"})
      BY <2>2, <2>5
    <3> QED
      BY <3>1, LostQuiet
  <2> QED
    BY <2>4, <2>5
<1> QED
  BY <1>1, <1>2

LEMMA RefreshGood ==
  ASSUME NEW w, NEW last \in Nat, WorldOK(w, last), NEW z \in refresh(w)
  PROVE  /\ WorldOK(z, last) /\ z.web = w.web /\ z.gw = w.gw /\ z.set = w.set
         /\ z.audit = w.audit /\ z.ok = w.ok
<1>1. PICK y \in web_session_summaries(w.x) : z = [w EXCEPT !.x = y]
  BY DEF refresh
<1>2. w.x \in Hosts /\ CoreOK(w, last)
  BY WorldFields DEF WorldOK, CoreOK
<1>3. Quiet(w.x, y, {})
  BY <1>2, SummariesQuiet
<1>4. /\ CoreOK(z, last) /\ z.web = w.web /\ z.gw = w.gw /\ z.set = w.set
      /\ z.audit = w.audit /\ z.ok = w.ok /\ \A h : StreamAt(w, h) => StreamAt(z, h)
  BY <1>1, <1>2, <1>3, QuietStep
<1> QED
  BY <1>4 DEF WorldOK

LEMMA StoredTyped ==
  ASSUME NEW x \in Hosts, NEW id \in DOMAIN x.d.sessions
  PROVE  Stored(x.d, id) \in Seq(Messages)
<1> DEFINE s == x.d.sessions[id]
           m(k) == Message(IF k % 2 = 1 THEN "user" ELSE "assistant", s[(k + 1) \div 2])
<1>1. s \in Seq(Nat) /\ Len(s) \in Nat
  BY SessionsTyped
<1>2. Stored(x.d, id) = [k \in 1..(2 * Len(s)) |-> m(k)]
  BY Zenon DEF Stored
<1> HIDE DEF s
<1>3. ASSUME NEW k \in 1..(2 * Len(s)) PROVE m(k) \in Messages
  <2>1. (k + 1) \div 2 \in 1..Len(s)
    BY <1>1
  <2>2. s[(k + 1) \div 2] \in Nat
    BY <1>1, <2>1
  <2> QED
    BY <2>2 DEF Message, Messages
<1> HIDE DEF m
<1>4. 2 * Len(s) \in Nat
  BY <1>1
<1> QED
  BY <1>2, <1>3, <1>4

LEMMA NotOkStreams ==
  ASSUME NEW w, NEW last, CoreOK(w, last), ~w.ok
  PROVE  \A h : StreamAt(w, h)
BY DEF CoreOK, StreamAt

LEMMA CoreLater ==
  ASSUME NEW w, NEW last \in Nat, CoreOK(w, last)
  PROVE  CoreOK(w, last + 1)
<1>1. HostOK(w.x, last + 1)
  BY HostLater DEF CoreOK
<1> QED
  BY <1>1 DEF CoreOK

LEMMA EnsureGood ==
  ASSUME NEW w, NEW id \in Nat, NEW last \in Nat, WorldOK(w, last), ~SwitchesAway(w, id),
         NEW e \in ensure_web_session(w, id)
  PROVE  WorldOK(e.w, last)
<1>1. CASE w.web.session = id
  <2>1. e.w = w
    BY <1>1 DEF ensure_web_session
  <2> QED
    BY <2>1
<1>2. CASE w.web.session # id
  <2> DEFINE opened(r) == [w EXCEPT !.x = r.x,
                                !.web = [@ EXCEPT !.history = Stored(r.x.d, id),
                                                  !.session = id, !.pending = NoPending],
                                !.audit.streamed = session_event_values(Stored(r.x.d, id))]
             F(r) == IF r.out = "ok" THEN [w |-> opened(r), done |-> TRUE]
                     ELSE [w |-> [w EXCEPT !.x = r.x], done |-> FALSE]
  <2>1. ensure_web_session(w, id) = {F(r) : r \in activate_web_session(w.x, id)}
    BY <1>2, Zenon DEF ensure_web_session
  <2>2. PICK r \in activate_web_session(w.x, id) : e = F(r)
    BY <2>1, Zenon
  <2>3. w.web.pending = NoPending /\ CoreOK(w, last) /\ HostOK(w.x, last)
    BY <1>2 DEF SwitchesAway, WorldOK, CoreOK
  <2>4. /\ Good(w.x, r.x, {}, last)
        /\ r.out = "ok" => id \in DOMAIN r.x.d.sessions
        /\ r.out # "ok" => Quiet(w.x, r.x, {})
    BY <2>3, ActivateGood
  <2>5. CASE r.out = "ok"
    <3> DEFINE h == Stored(r.x.d, id)
    <3>1. r.x \in Hosts
      BY <2>4 DEF Good, HostOK
    <3>2. h \in Seq(Messages)
      BY <2>4, <2>5, <3>1, StoredTyped
    <3>3. opened(r) = OpenSession(w, r.x, h, id, session_event_values(h))
      BY Zenon DEF OpenSession
    <3>4. e.w = opened(r)
      BY <2>2, <2>5
    <3> HIDE DEF h, opened
    <3>5. LET z == OpenSession(w, r.x, h, id, session_event_values(h)) IN
          CoreOK(z, last) /\ StreamAt(z, h) /\ z.web.history = h
      BY <2>3, <2>4, <3>2, OpenGood
    <3> QED
      BY <3>3, <3>4, <3>5 DEF WorldOK
  <2>6. CASE r.out # "ok"
    <3>1. e.w = [w EXCEPT !.x = r.x]
      BY <2>2, <2>6
    <3>2. /\ CoreOK(e.w, last) /\ e.w.web = w.web /\ \A h : StreamAt(w, h) => StreamAt(e.w, h)
      BY <2>3, <2>4, <2>6, <3>1, QuietStep
    <3> QED
      BY <3>2 DEF WorldOK
  <2> QED
    BY <2>5, <2>6
<1> QED
  BY <1>1, <1>2

LEMMA WebCreateGood ==
  ASSUME NEW w, NEW last \in Nat, WorldOK(w, last), NEW z \in dispatch_session_create(w)
  PROVE  WorldOK(z, last)
<1>1. CASE w.web.pending # NoPending
  <2>1. z = w
    BY <1>1 DEF dispatch_session_create
  <2> QED
    BY <2>1
<1>2. CASE w.web.pending = NoPending
  <2> DEFINE opened(r) == [w EXCEPT !.x = r.x,
                                       !.web = [@ EXCEPT !.history = <<>>, !.session = r.x.c.active,
                                                         !.pending = NoPending],
                                       !.audit.streamed = <<>>]
             F(r) == IF r.out # "ok" THEN [w EXCEPT !.x = r.x]
                     ELSE publish(publish(opened(r), "host", <<Plain>>), "mux", <<Plain>>)
  <2>1. dispatch_session_create(w) = {F(r) : r \in create_web_session(w.x)}
    BY <1>2, Zenon DEF dispatch_session_create
  <2>2. PICK r \in create_web_session(w.x) : z = F(r)
    BY <2>1, Zenon
  <2>3. CoreOK(w, last) /\ HostOK(w.x, last)
    BY DEF WorldOK, CoreOK
  <2>4. Good(w.x, r.x, {}, last) /\ (r.out # "ok" => Quiet(w.x, r.x, {}))
    BY <2>3, CreateGood
  <2>5. CASE r.out = "ok"
    <3> DEFINE o == opened(r)
               p == publish(o, "host", <<Plain>>)
    <3>1. r.x.c.active \in Nat
      BY <2>4, HostFields DEF Good, HostOK
    <3>2. o = OpenSession(w, r.x, <<>>, r.x.c.active, <<>>)
      BY Zenon DEF OpenSession
    <3>3. z = publish(p, "mux", <<Plain>>)
      BY <2>2, <2>5
    <3> HIDE DEF o, p
    <3>4. <<>> \in Seq(Messages)
      OBVIOUS
    <3>5. CoreOK(o, last) /\ StreamAt(o, <<>>) /\ o.web.history = <<>>
      <4> DEFINE h == <<>>
      <4>1. h \in Seq(Messages) /\ session_event_values(h) = h
        BY <3>4, NoEvents
      <4>2. o = OpenSession(w, r.x, h, r.x.c.active, session_event_values(h))
        BY <3>2, <4>1
      <4> HIDE DEF h
      <4>3. CoreOK(o, last) /\ StreamAt(o, h) /\ o.web.history = h
        BY <1>2, <2>3, <2>4, <3>1, <4>1, <4>2, OpenGood
      <4> QED
        BY <4>3 DEF h
    <3>6. CoreOK(p, last) /\ Reported(o, p)
      BY <3>5, PlainHost DEF p
    <3>7. CoreOK(z, last) /\ Reported(p, z)
      BY <3>3, <3>6, PlainMux, PlainOne
    <3>8. StreamAt(z, <<>>)
      BY <3>5, <3>6, <3>7, ReportedStream
    <3>9. z.web.history = <<>>
      BY <3>5, <3>6, <3>7 DEF Reported
    <3> QED
      BY <3>7, <3>8, <3>9 DEF WorldOK
  <2>6. CASE r.out # "ok"
    <3>1. z = [w EXCEPT !.x = r.x]
      BY <2>2, <2>6
    <3>2. /\ CoreOK(z, last) /\ z.web = w.web /\ \A h : StreamAt(w, h) => StreamAt(z, h)
      BY <2>3, <2>4, <2>6, <3>1, QuietStep
    <3> QED
      BY <3>2 DEF WorldOK
  <2> QED
    BY <2>5, <2>6
<1> QED
  BY <1>1, <1>2

LEMMA WebHistoryGood ==
  ASSUME NEW w, NEW id \in Nat, NEW last \in Nat, WorldOK(w, last),
         NEW z \in dispatch_session_history(w, id)
  PROVE  WorldOK(z, last)
<1>1. CASE SwitchesAway(w, id)
  BY <1>1 DEF dispatch_session_history
<1>2. CASE ~SwitchesAway(w, id)
  <2>1. PICK e \in ensure_web_session(w, id) : z = e.w
    BY <1>2 DEF dispatch_session_history
  <2> QED
    BY <1>2, <2>1, EnsureGood
<1> QED
  BY <1>1, <1>2

(* The turn has run, and only its prompt is not yet known to the client.   *)
LEMMA AnsweredGood ==
  ASSUME NEW w, NEW last \in Nat, CoreOK(w, last), w.web.pending = NoPending,
         NEW r, Good(w.x, r.x, {}, last), NEW p \in Nat, NEW old \in Seq(Messages),
         Len(old) <= Len(w.web.history), \A j \in 1..Len(old) : old[j] = w.web.history[j],
         StreamAt(w, old)
  PROVE  WorldOK(PromptAnswered(w, r, Len(old), p), last)
<1> DEFINE y == [w EXCEPT !.x = r.x]
           ran == publish_session_status(y)
           h == ran.web.history
           h2 == Append(h, Message("assistant", p))
           replied == [ran EXCEPT !.web.history = h2]
           cut == SubSeq(h, 1, Len(old))
           dropped == [ran EXCEPT !.web.history = cut]
           told == publish_turn_events(ran, Len(old))
           z == PromptAnswered(w, r, Len(old), p)
<1>1. CoreOK(y, last) /\ y.web = w.web /\ StreamAt(y, old)
  <2> DEFINE none == {}
  <2>1. none \subseteq w.audit.allowed /\ Good(w.x, r.x, none, last)
    OBVIOUS
  <2> HIDE DEF none
  <2> DEFINE x2 == r.x
  <2>2. Good(w.x, x2, none, last)
    BY <2>1
  <2> HIDE DEF x2
  <2>3. CoreOK([w EXCEPT !.x = x2], last)
    BY <2>1, <2>2, GoodStep
  <2>4. [w EXCEPT !.x = x2].web = w.web
    BY <2>1, <2>2, GoodStep
  <2>5. \A g : StreamAt(w, g) => StreamAt([w EXCEPT !.x = x2], g)
    BY <2>1, <2>2, GoodStep
  <2> QED
    BY <2>3, <2>4, <2>5 DEF x2
<1>2. z = IF ~ran.ok THEN ran
          ELSE IF r.out = "reply" THEN publish_turn_events(replied, Len(old))
          ELSE IF pending_approval(r.x.c) # NoCall THEN publish_pending_approval(told, ran.web.session)
          ELSE dropped
  BY Zenon DEF PromptAnswered
<1> HIDE DEF y, z
<1>3. CoreOK(ran, last) /\ Reported(y, ran)
  BY <1>1, PlainHost DEF publish_session_status
<1>4. StreamAt(ran, old) /\ ran.web = w.web
  BY <1>1, <1>3, ReportedStream DEF Reported
<1> HIDE DEF ran
<1>5. h \in Seq(Messages) /\ Len(h) \in Nat /\ Len(old) \in Nat
  BY <1>3, WorldFields DEF CoreOK
<1>6. Len(old) <= Len(h) /\ \A j \in 1..Len(old) : old[j] = h[j]
  BY <1>4
<1>7. CASE ~ran.ok
  <2>1. z = ran
    BY <1>2, <1>7
  <2> QED
    BY <1>3, <1>7, <2>1, NotOkStreams DEF WorldOK, z
<1>8. CASE ran.ok /\ r.out = "reply"
  <2>0. z = publish_turn_events(replied, Len(old))
    BY <1>2, <1>8
  <2>1. Message("assistant", p) \in Messages
    BY DEF Message, Messages
  <2>2. h2 \in Seq(Messages) /\ Len(h2) = Len(h) + 1 /\ \A j \in 1..Len(h) : h2[j] = h[j]
    BY <1>5, <2>1
  <2> HIDE DEF h2
  <2>3. CoreOK(replied, last) /\ replied.web.history = h2 /\ StreamAt(replied, old)
    BY <1>3, <1>4, <2>2, SetHistory
  <2> HIDE DEF replied
  <2>4. Len(old) <= Len(replied.web.history) /\ \A j \in 1..Len(old) : old[j] = replied.web.history[j]
    BY <1>5, <1>6, <2>2, <2>3
  <2>5. CoreOK(z, last) /\ StreamAt(z, replied.web.history) /\ z.web = replied.web
    BY <2>0, <2>3, <2>4, PublishTurn
  <2> QED
    BY <2>5 DEF WorldOK, z
<1>9. CASE ran.ok /\ r.out # "reply" /\ pending_approval(r.x.c) # NoCall
  <2>0. z = publish_pending_approval(told, ran.web.session)
    BY <1>2, <1>9
  <2>1. CoreOK(told, last) /\ StreamAt(told, h) /\ told.web = ran.web
    BY <1>3, <1>4, <1>6, PublishTurn
  <2> HIDE DEF told
  <2>2. CoreOK(z, last) /\ z.web.history = told.web.history /\ \A g : StreamAt(told, g) => StreamAt(z, g)
    BY <2>0, <2>1, PublishApproval
  <2> QED
    BY <2>1, <2>2 DEF WorldOK, z
<1>10. CASE ran.ok /\ r.out # "reply" /\ pending_approval(r.x.c) = NoCall
  <2>0. z = dropped
    BY <1>2, <1>10
  <2>1. /\ cut \in Seq(Messages) /\ Len(cut) = Len(old) /\ \A j \in 1..Len(old) : cut[j] = h[j]
    BY <1>5, <1>6
  <2>2. cut = old
    <3> HIDE DEF cut
    <3>1. \A j \in 1..Len(cut) : cut[j] = old[j]
      BY <1>6, <2>1
    <3> QED
      BY <2>1, <3>1, SeqEqual
  <2> HIDE DEF cut
  <2>3. CoreOK(dropped, last) /\ dropped.web.history = cut /\ StreamAt(dropped, old)
    BY <1>3, <1>4, <2>1, SetHistory
  <2> QED
    BY <2>0, <2>2, <2>3 DEF WorldOK, z
<1> QED
  BY <1>7, <1>8, <1>9, <1>10 DEF z

LEMMA SubmitGood ==
  ASSUME NEW w, NEW last \in Nat, WorldOK(w, last), w.web.pending = NoPending,
         NEW z \in SubmitPrompt(w, last + 1)
  PROVE  WorldOK(z, last + 1)
<1> DEFINE p == last + 1
           old == w.web.history
           h == Append(old, Message("user", p))
           a == [w EXCEPT !.web.history = h]
           sent == publish_session_status(a)
<1>0. p \in Nat /\ old \in Seq(Messages) /\ CoreOK(w, p) /\ StreamAt(w, old)
  BY CoreLater, WorldFields DEF WorldOK, CoreOK
<1>1. Message("user", p) \in Messages
  BY <1>0 DEF Message, Messages
<1>2. SubmitPrompt(w, p) = IF ~sent.ok THEN {sent}
        ELSE {PromptAnswered(sent, r, Len(old), p) : r \in complete(sent.x, p)}
  BY Zenon DEF SubmitPrompt
<1>3. h \in Seq(Messages) /\ Len(h) = Len(old) + 1 /\ Len(old) \in Nat
      /\ \A j \in 1..Len(old) : old[j] = h[j]
  <2> HIDE DEF p, old
  <2> QED
    BY <1>0, <1>1
<1>4. OpenTurn(w.x.d.sessions, p, p)
  BY DEF WorldOK, CoreOK, HostOK, OpenTurn
<1> HIDE DEF p, h
<1>5. CoreOK(a, p) /\ a.x = w.x /\ a.web.history = h /\ StreamAt(a, old)
      /\ a.web.pending = NoPending
  <2>1. h \in Seq(Messages) /\ CoreOK(w, p)
    BY <1>0, <1>3
  <2>2. CoreOK(a, p) /\ a.x = w.x /\ a.web.history = h /\ a.web.pending = w.web.pending
        /\ \A g : StreamAt(w, g) => StreamAt(a, g)
    BY <2>1, SetHistory
  <2> QED
    BY <1>0, <2>2
<1> HIDE DEF a, old
<1>6. CoreOK(sent, p) /\ Reported(a, sent)
  BY <1>5, PlainHost DEF publish_session_status
<1>7. StreamAt(sent, old) /\ sent.web = a.web /\ sent.x = w.x
  BY <1>5, <1>6, ReportedStream DEF Reported
<1> HIDE DEF sent
<1>8. CASE ~sent.ok
  <2>1. z = sent
    BY <1>2, <1>8 DEF p
  <2> QED
    BY <1>6, <1>8, <2>1, NotOkStreams DEF WorldOK, p
<1>9. CASE sent.ok
  <2>1. PICK r \in complete(sent.x, p) : z = PromptAnswered(sent, r, Len(old), p)
    <3>1. z \in {PromptAnswered(sent, r, Len(old), p) : r \in complete(sent.x, p)}
      BY <1>2, <1>9 DEF p
    <3> QED
      BY <3>1, Zenon
  <2>2. HostOK(sent.x, p) /\ OpenTurn(sent.x.d.sessions, p, p)
    BY <1>4, <1>6, <1>7 DEF CoreOK
  <2>3. Good(sent.x, r.x, {}, p)
    BY <1>0, <2>2, CompleteGood
  <2>4. Len(old) <= Len(sent.web.history) /\ \A j \in 1..Len(old) : old[j] = sent.web.history[j]
    BY <1>3, <1>5, <1>7
  <2>5. sent.web.pending = NoPending /\ old \in Seq(Messages)
    BY <1>0, <1>5, <1>7
  <2>6. WorldOK(PromptAnswered(sent, r, Len(old), p), p)
    BY <1>0, <1>6, <1>7, <2>3, <2>4, <2>5, AnsweredGood
  <2> QED
    BY <2>1, <2>6 DEF p
<1> QED
  BY <1>8, <1>9

LEMMA WorldLater ==
  ASSUME NEW w, NEW last \in Nat, WorldOK(w, last)
  PROVE  WorldOK(w, last + 1)
BY CoreLater DEF WorldOK

LEMMA WebPromptGood ==
  ASSUME NEW w, NEW id \in Nat, NEW last \in Nat, WorldOK(w, last),
         NEW z \in dispatch_session_prompt(w, id, last + 1)
  PROVE  WorldOK(z, last + 1)
<1>1. CASE SwitchesAway(w, id)
  <2>1. z = w
    BY <1>1 DEF dispatch_session_prompt
  <2> QED
    BY <2>1, WorldLater
<1>2. CASE ~SwitchesAway(w, id)
  <2> DEFINE F(e) == IF e.done /\ e.w.web.pending = NoPending THEN SubmitPrompt(e.w, last + 1) ELSE {e.w}
  <2>1. dispatch_session_prompt(w, id, last + 1) = UNION {F(e) : e \in ensure_web_session(w, id)}
    BY <1>2, Zenon DEF dispatch_session_prompt
  <2>2. PICK e \in ensure_web_session(w, id) : z \in F(e)
    BY <2>1, Zenon
  <2>3. WorldOK(e.w, last)
    BY <1>2, EnsureGood
  <2>4. CASE e.done /\ e.w.web.pending = NoPending
    <3>1. z \in SubmitPrompt(e.w, last + 1)
      BY <2>2, <2>4
    <3> QED
      BY <2>3, <2>4, <3>1, SubmitGood
  <2>5. CASE ~(e.done /\ e.w.web.pending = NoPending)
    <3>1. z = e.w
      BY <2>2, <2>5
    <3> QED
      BY <2>3, <3>1, WorldLater
  <2> QED
    BY <2>4, <2>5
<1> QED
  BY <1>1, <1>2
----------------------------------------------------------------------------
(***************************************************************************)
(* Requests: children, answers, and polls.                                 *)
(***************************************************************************)
LEMMA WebSubagentsGood ==
  ASSUME NEW w, NEW last \in Nat, WorldOK(w, last), NEW z \in subagent_context(w)
  PROVE  WorldOK(z, last)
<1>1. CASE "multi_agent" \notin w.x.c.caps \/ w.web.session = 0
  BY <1>1 DEF subagent_context
<1>2. CASE ~("multi_agent" \notin w.x.c.caps \/ w.web.session = 0)
  <2> DEFINE A(x) == AskFor(x, "multi_agent", {"multi_agent"})
             F(y) == {[w EXCEPT !.x = v] : v \in A(y)}
  <2>1. subagent_context(w) = UNION {F(y) : y \in A(w.x)}
    BY <1>2, Zenon DEF subagent_context
  <2>2. PICK y \in A(w.x) : z \in F(y)
    BY <2>1, Zenon
  <2>3. PICK v \in A(y) : z = [w EXCEPT !.x = v]
    BY <2>2, Zenon
  <2>4. w.x \in Hosts /\ CoreOK(w, last)
    BY WorldFields DEF WorldOK, CoreOK
  <2>5. Quiet(w.x, y, {})
    BY <2>4, AskForQuiet
  <2>6. y \in Hosts
    BY <2>5 DEF Quiet
  <2>7. Quiet(y, v, {})
    BY <2>6, AskForQuiet
  <2>8. Quiet(w.x, v, {})
    BY <2>5, <2>7, QuietTrans
  <2>9. CoreOK(z, last) /\ z.web = w.web /\ \A h : StreamAt(w, h) => StreamAt(z, h)
    BY <2>3, <2>4, <2>8, QuietStep
  <2> QED
    BY <2>9 DEF WorldOK
<1> QED
  BY <1>1, <1>2

(* The answered turn goes on: it is done, or waits again, or has failed.   *)
LEMMA ResolvedGood ==
  ASSUME NEW w, NEW last \in Nat, WorldOK(w, last), w.web.pending = NoPending,
         NEW r, NEW may, Good(w.x, r.x, may, last), may \subseteq w.audit.allowed,
         NEW p \in Nat
  PROVE  WorldOK(Resolved(w, r, p), last)
<1> DEFINE y == [w EXCEPT !.x = r.x]
           told == publish(y, "mux", <<Plain>>)
           start == Len(w.web.history)
           h == told.web.history
           h2 == Append(h, Message("assistant", p))
           noted == [told EXCEPT !.web.history = h2]
           sent == publish_turn_events(noted, start)
           replied == IF r.out = "reply" THEN sent ELSE told
           z == Resolved(w, r, p)
<1>0. CoreOK(w, last) /\ StreamAt(w, w.web.history) /\ w.web.history \in Seq(Messages)
      /\ start \in Nat
  BY WorldFields DEF WorldOK, CoreOK
<1>1. CoreOK(y, last) /\ y.web = w.web /\ StreamAt(y, w.web.history)
  <2> DEFINE x2 == r.x
  <2>1. Good(w.x, x2, may, last)
    OBVIOUS
  <2> HIDE DEF x2
  <2>3. CoreOK([w EXCEPT !.x = x2], last)
    BY <1>0, <2>1, GoodStep
  <2>4. [w EXCEPT !.x = x2].web = w.web
    BY <1>0, <2>1, GoodStep
  <2>5. \A g : StreamAt(w, g) => StreamAt([w EXCEPT !.x = x2], g)
    BY <1>0, <2>1, GoodStep
  <2> QED
    BY <1>0, <2>3, <2>4, <2>5 DEF x2
<1>2. z = IF ~told.ok THEN told
          ELSE IF r.out = "error" THEN publish(told, "mux", <<Plain>>)
          ELSE publish_pending_approval(replied, w.web.session)
  BY Zenon DEF Resolved
<1> HIDE DEF y, z
<1>3. CoreOK(told, last) /\ Reported(y, told)
  BY <1>1, PlainMux, PlainOne
<1>4. StreamAt(told, w.web.history) /\ told.web = w.web
  BY <1>1, <1>3, ReportedStream DEF Reported
<1> HIDE DEF told
<1>5. CASE ~told.ok
  <2>1. z = told
    BY <1>2, <1>5
  <2> QED
    BY <1>3, <1>5, <2>1, NotOkStreams DEF WorldOK, z
<1>6. CASE told.ok /\ r.out = "error"
  <2>1. z = publish(told, "mux", <<Plain>>)
    BY <1>2, <1>6
  <2>2. CoreOK(z, last) /\ Reported(told, z)
    BY <1>3, <2>1, PlainMux, PlainOne
  <2>3. StreamAt(z, w.web.history) /\ z.web = w.web
    BY <1>4, <2>2, ReportedStream DEF Reported
  <2> QED
    BY <2>2, <2>3 DEF WorldOK, z
<1>7. CASE told.ok /\ r.out # "error"
  <2>0. z = publish_pending_approval(replied, w.web.session)
    BY <1>2, <1>7
  <2>1. CoreOK(replied, last) /\ StreamAt(replied, replied.web.history)
        /\ replied.web.session = w.web.session
    <3>1. CASE r.out # "reply"
      BY <1>3, <1>4, <3>1
    <3>2. CASE r.out = "reply"
      <4>1. Message("assistant", p) \in Messages
        BY DEF Message, Messages
      <4>2. h2 \in Seq(Messages) /\ Len(h2) = start + 1 /\ \A j \in 1..start : h2[j] = w.web.history[j]
        BY <1>0, <1>4, <4>1
      <4> HIDE DEF h2
      <4>3. /\ CoreOK(noted, last) /\ noted.web.history = h2
            /\ noted.web.session = told.web.session /\ StreamAt(noted, w.web.history)
        <5>1. h2 \in Seq(Messages)
          BY <4>2
        <5>2. /\ CoreOK(noted, last) /\ noted.web.history = h2
              /\ noted.web.session = told.web.session
              /\ \A g : StreamAt(told, g) => StreamAt(noted, g)
          BY <1>3, <5>1, SetHistory
        <5> QED
          BY <1>4, <5>2
      <4> HIDE DEF noted
      <4>4. /\ start <= Len(noted.web.history)
            /\ \A j \in 1..start : w.web.history[j] = noted.web.history[j]
        BY <1>0, <4>2, <4>3
      <4>5. CoreOK(sent, last) /\ StreamAt(sent, noted.web.history) /\ sent.web = noted.web
        BY <1>0, <4>3, <4>4, PublishTurn
      <4>6. replied = sent
        BY <3>2
      <4> HIDE DEF sent, replied
      <4> QED
        BY <1>4, <4>3, <4>5, <4>6
    <3> QED
      BY <3>1, <3>2
  <2> HIDE DEF replied
  <2>2. CoreOK(z, last) /\ z.web.history = replied.web.history
        /\ \A g : StreamAt(replied, g) => StreamAt(z, g)
    BY <2>0, <2>1, PublishApproval
  <2> QED
    BY <2>1, <2>2 DEF WorldOK, z
<1> QED
  BY <1>5, <1>6, <1>7

(* An answer that names the pending approval names its call as well, so    *)
(* it is the call the user allowed that runs.                              *)
LEMMA TakenGood ==
  ASSUME NEW w, NEW last \in Nat, WorldOK(w, last), NEW answer \in w.audit.shown,
         w.web.pending # NoPending, w.web.pending.n = answer.n, NEW allow \in BOOLEAN
  PROVE  LET z == [w EXCEPT !.web.pending = NoPending,
                            !.audit.allowed = IF allow THEN @ \cup {answer.call} ELSE @]
         IN /\ WorldOK(z, last) /\ z.web.pending = NoPending /\ z.x = w.x
            /\ allow => answer.call \in z.audit.allowed
            /\ answer.call = pending_approval(z.x.c)
<1> DEFINE more == IF allow THEN w.audit.allowed \cup {answer.call} ELSE w.audit.allowed
           v == [w.web EXCEPT !.pending = NoPending]
           a == [w.audit EXCEPT !.allowed = more]
           z == [w EXCEPT !.web = v, !.audit = a]
<1>0. w \in Worlds /\ w.web \in Webs /\ w.audit \in Audits /\ NoPending \in Approvals
      /\ w.audit.shown \in SUBSET Shown /\ w.audit.allowed \in SUBSET Calls
  BY WorldFields, PlainTyped DEF WorldOK, CoreOK
<1>1. answer.call = w.web.pending.call /\ answer.call = pending_approval(w.x.c)
  <2>1. NumberOK(w.web, answer.n, answer.call)
    BY DEF WorldOK, CoreOK, Numbered
  <2> QED
    BY <2>1 DEF NumberOK, WorldOK, CoreOK, Current
<1>2. answer.call \in Calls
  BY <1>0 DEF Shown
<1>3. more \in SUBSET Calls /\ w.audit.allowed \subseteq more /\ (allow => answer.call \in more)
  BY <1>0, <1>2
<1>4. [w EXCEPT !.web.pending = NoPending,
                !.audit.allowed = IF allow THEN @ \cup {answer.call} ELSE @] = z
  BY <1>0 DEF Worlds, Webs, Audits
<1> HIDE DEF more
<1>5. /\ v \in Webs /\ v.pending = NoPending /\ v.next = w.web.next
      /\ v.history = w.web.history /\ v.session = w.web.session
  BY <1>0 DEF Webs
<1>6. a \in Audits /\ a.allowed = more /\ a.shown = w.audit.shown /\ a.streamed = w.audit.streamed
  BY <1>0, <1>3 DEF Audits
<1> HIDE DEF v, a
<1>7. /\ z \in Worlds /\ z.x = w.x /\ z.web = v /\ z.gw = w.gw /\ z.set = w.set /\ z.audit = a
      /\ z.ok = w.ok
  BY <1>0, <1>5, <1>6 DEF Worlds
<1> HIDE DEF z
<1>8. Current(z) /\ Numbered(z) /\ Agreed(z)
  BY <1>5, <1>6, <1>7 DEF WorldOK, CoreOK, Current, Numbered, NumberOK, Agreed
<1>9. Asked(z)
  BY <1>3, <1>6, <1>7 DEF WorldOK, CoreOK, Asked
<1>10. StreamAt(z, z.web.history)
  BY <1>5, <1>6, <1>7 DEF WorldOK, StreamAt
<1>11. WorldOK(z, last)
  BY <1>7, <1>8, <1>9, <1>10 DEF WorldOK, CoreOK
<1> QED
  BY <1>1, <1>3, <1>4, <1>5, <1>6, <1>7, <1>11

LEMMA WebRespondGood ==
  ASSUME NEW w, NEW last \in Nat, WorldOK(w, last), NEW answer \in w.audit.shown,
         NEW allow \in BOOLEAN, NEW z \in respond(w, answer, allow)
  PROVE  WorldOK(z, last)
<1>1. CASE w.web.pending = NoPending \/ w.web.pending.n # answer.n
  <2>1. z = w
    BY <1>1, Zenon DEF respond
  <2> QED
    BY <2>1
<1>2. CASE ~(w.web.pending = NoPending \/ w.web.pending.n # answer.n)
  <2> DEFINE taken == [w EXCEPT !.web.pending = NoPending,
                                !.audit.allowed = IF allow THEN @ \cup {answer.call} ELSE @]
             prompt == IF has_spine_pending_approval(w.x.c) THEN w.x.c.spine.prompt
                       ELSE w.x.c.continuation.prompt
             S == IF allow THEN approve_pending_model_tool(taken.x)
                  ELSE deny_pending_model_tool(taken.x)
  <2>1. respond(w, answer, allow) = {Resolved(taken, r, prompt) : r \in S}
    BY <1>2, Zenon DEF respond
  <2>2. PICK r \in S : z = Resolved(taken, r, prompt)
    BY <2>1, Zenon
  <2>3. /\ WorldOK(taken, last) /\ taken.web.pending = NoPending /\ taken.x = w.x
        /\ allow => answer.call \in taken.audit.allowed
        /\ answer.call = pending_approval(taken.x.c)
    BY <1>2, TakenGood
  <2> HIDE DEF taken
  <2>4. HostOK(taken.x, last) /\ w.x \in Hosts
    BY <2>3, WorldFields DEF WorldOK, CoreOK
  <2>5. prompt \in Nat
    BY <2>4, HostFields DEF SpineTurns, Continuations
  <2> HIDE DEF prompt
  <2>6. CASE allow
    <3> DEFINE may == {answer.call}
    <3>1. may \subseteq taken.audit.allowed /\ pending_approval(taken.x.c) \in may
      BY <2>3, <2>6
    <3> HIDE DEF may
    <3>2. r \in approve_pending_model_tool(taken.x)
      BY <2>6
    <3>3. Good(taken.x, r.x, may, last)
      BY <2>4, <3>1, <3>2, ApproveGood
    <3>4. WorldOK(Resolved(taken, r, prompt), last)
      BY <2>3, <2>5, <3>1, <3>3, ResolvedGood
    <3> QED
      BY <2>2, <3>4
  <2>7. CASE ~allow
    <3> DEFINE may == {}
    <3>1. may \subseteq taken.audit.allowed
      OBVIOUS
    <3> HIDE DEF may
    <3>2. r \in deny_pending_model_tool(taken.x)
      BY <2>7
    <3>3. Good(taken.x, r.x, may, last)
      BY <2>4, <3>2, DenyGood
    <3>4. WorldOK(Resolved(taken, r, prompt), last)
      BY <2>3, <2>5, <3>1, <3>3, ResolvedGood
    <3> QED
      BY <2>2, <3>4
  <2> QED
    BY <2>6, <2>7
<1> QED
  BY <1>1, <1>2

LEMMA AnnounceGood ==
  ASSUME NEW w, NEW last \in Nat, WorldOK(w, last)
  PROVE  WorldOK(Announce(w), last)
<1>1. CASE ~(w.gw.mux = <<>> /\ w.web.pending # NoPending)
  BY <1>1 DEF Announce
<1>2. CASE w.gw.mux = <<>> /\ w.web.pending # NoPending
  <2> DEFINE z == publish_pending_approval(w, w.web.pending.session)
  <2>1. Announce(w) = z
    BY <1>2 DEF Announce
  <2>2. CoreOK(z, last) /\ z.web.history = w.web.history /\ \A h : StreamAt(w, h) => StreamAt(z, h)
    BY <1>2, PublishApproval DEF WorldOK
  <2> HIDE DEF z
  <2> QED
    BY <2>1, <2>2 DEF WorldOK
<1> QED
  BY <1>1, <1>2

ShownBy(q) == {[n |-> q[k].n, call |-> q[k].call] : k \in {k \in DOMAIN q : q[k].kind = "approval"}}

LEMMA EmptyRest ==
  ASSUME NEW q \in Seq(Notices)
  PROVE  SubSeq(q, 1, Len(q)) = q /\ SubSeq(q, Len(q) + 1, Len(q)) = <<>>
<1>1. Len(q) \in Nat
  OBVIOUS
<1>2. SubSeq(q, 1, Len(q)) \in Seq(Notices) /\ Len(SubSeq(q, 1, Len(q))) = Len(q)
      /\ \A k \in 1..Len(q) : SubSeq(q, 1, Len(q))[k] = q[k]
  BY <1>1
<1>3. SubSeq(q, 1, Len(q)) = q
  BY <1>2, SeqEqual
<1>4. SubSeq(q, Len(q) + 1, Len(q)) = <<>>
  BY <1>1
<1> QED
  BY <1>3, <1>4

LEMMA TakeMuxGood ==
  ASSUME NEW w, NEW last \in Nat, WorldOK(w, last), NEW received \in BOOLEAN
  PROVE  LET z == take_events(w, "mux", Len(w.gw.mux), received) IN
         /\ WorldOK(z, last)
         /\ received => ShownBy(w.gw.mux) \subseteq z.audit.shown
<1> DEFINE q == w.gw.mux
           more == IF received THEN w.audit.shown \cup ShownBy(q) ELSE w.audit.shown
           gw == [w.gw EXCEPT !.mux = <<>>]
           a == [w.audit EXCEPT !.shown = more]
           z == [w EXCEPT !.gw = gw, !.audit = a]
<1>0. /\ w \in Worlds /\ w.gw \in Gateways /\ w.audit \in Audits /\ q \in Seq(Notices)
      /\ w.audit.shown \in SUBSET Shown /\ <<>> \in Seq(Notices)
  BY WorldFields DEF WorldOK, CoreOK
<1>1. take_events(w, "mux", Len(w.gw.mux), received) = z
  <2>1. take_events(w, "mux", Len(q), received) =
          [w EXCEPT !.gw.mux = SubSeq(q, Len(q) + 1, Len(q)),
                    !.audit.shown = IF received THEN w.audit.shown \cup ShownBy(SubSeq(q, 1, Len(q)))
                                    ELSE w.audit.shown]
    BY Zenon DEF take_events, ShownBy
  <2>2. SubSeq(q, 1, Len(q)) = q /\ SubSeq(q, Len(q) + 1, Len(q)) = <<>>
    BY <1>0, EmptyRest
  <2>3. take_events(w, "mux", Len(q), received) = [w EXCEPT !.gw.mux = <<>>, !.audit.shown = more]
    BY <2>1, <2>2
  <2> HIDE DEF more
  <2>4. [w EXCEPT !.gw.mux = <<>>, !.audit.shown = more] = z
    BY <1>0 DEF Worlds, Gateways, Audits
  <2> QED
    BY <2>3, <2>4
<1>2. \A s \in more : s \in Shown /\ NumberOK(w.web, s.n, s.call)
  <2> SUFFICES ASSUME NEW s \in more PROVE s \in Shown /\ NumberOK(w.web, s.n, s.call)
    OBVIOUS
  <2>1. CASE s \in w.audit.shown
    BY <1>0, <2>1 DEF WorldOK, CoreOK, Numbered
  <2>2. CASE s \notin w.audit.shown
    <3>1. s \in ShownBy(q)
      BY <2>2
    <3>2. PICK k \in DOMAIN q : q[k].kind = "approval" /\ s = [n |-> q[k].n, call |-> q[k].call]
      BY <3>1 DEF ShownBy
    <3>3. q[k] \in Notices
      BY <1>0
    <3>4. q[k].n \in Nat /\ q[k].call \in Calls
      BY <3>3 DEF Notices
    <3>5. NumberOK(w.web, q[k].n, q[k].call)
      BY <3>2 DEF WorldOK, CoreOK, Numbered
    <3> QED
      BY <3>2, <3>4, <3>5 DEF Shown
  <2> QED
    BY <2>1, <2>2
<1>3. more \in SUBSET Shown /\ (received => ShownBy(q) \subseteq more)
  BY <1>2
<1> HIDE DEF more, q
<1>4. gw \in Gateways /\ gw.mux = <<>> /\ gw.host = w.gw.host /\ gw.refused = w.gw.refused
  BY <1>0 DEF Gateways
<1>5. a \in Audits /\ a.shown = more /\ a.allowed = w.audit.allowed /\ a.streamed = w.audit.streamed
  BY <1>0, <1>3 DEF Audits
<1> HIDE DEF gw, a
<1>6. /\ z \in Worlds /\ z.x = w.x /\ z.web = w.web /\ z.gw = gw /\ z.set = w.set /\ z.audit = a
      /\ z.ok = w.ok
  BY <1>0, <1>4, <1>5 DEF Worlds
<1> HIDE DEF z
<1>7. Numbered(z)
  <2>1. DOMAIN gw.mux = {}
    BY <1>4
  <2>2. \A k \in DOMAIN z.gw.mux :
          z.gw.mux[k].kind = "approval" => NumberOK(z.web, z.gw.mux[k].n, z.gw.mux[k].call)
    BY <1>6, <2>1
  <2>3. \A k \in DOMAIN z.gw.host : z.gw.host[k].kind # "approval"
    BY <1>4, <1>6 DEF WorldOK, CoreOK, Numbered
  <2>4. \A s \in z.audit.shown : NumberOK(z.web, s.n, s.call)
    BY <1>2, <1>5, <1>6
  <2> QED
    BY <2>2, <2>3, <2>4 DEF Numbered
<1>8. Current(z) /\ Asked(z) /\ Agreed(z)
  BY <1>5, <1>6 DEF WorldOK, CoreOK, Current, Asked, Agreed
<1>9. StreamAt(z, z.web.history)
  BY <1>4, <1>5, <1>6 DEF WorldOK, StreamAt
<1>10. WorldOK(z, last)
  BY <1>4, <1>6, <1>7, <1>8, <1>9 DEF WorldOK, CoreOK
<1> QED
  BY <1>1, <1>3, <1>5, <1>6, <1>10 DEF q

LEMMA TakeHostGood ==
  ASSUME NEW w, NEW last \in Nat, WorldOK(w, last)
  PROVE  WorldOK(take_events(w, "host", Len(w.gw.host), TRUE), last)
<1> DEFINE q == w.gw.host
           gw == [w.gw EXCEPT !.host = <<>>]
           z == [w EXCEPT !.gw = gw]
<1>0. /\ w \in Worlds /\ w.gw \in Gateways /\ w.audit \in Audits /\ q \in Seq(Notices)
      /\ <<>> \in Seq(Notices)
  BY WorldFields DEF WorldOK, CoreOK
<1>1. take_events(w, "host", Len(w.gw.host), TRUE) = z
  <2>1. take_events(w, "host", Len(q), TRUE) =
          [w EXCEPT !.gw.host = SubSeq(q, Len(q) + 1, Len(q)),
                    !.audit.shown = w.audit.shown \cup ShownBy(SubSeq(q, 1, Len(q)))]
    BY Zenon DEF take_events, ShownBy
  <2>2. SubSeq(q, 1, Len(q)) = q /\ SubSeq(q, Len(q) + 1, Len(q)) = <<>>
    BY <1>0, EmptyRest
  <2>3. ShownBy(q) = {}
    BY DEF ShownBy, WorldOK, CoreOK, Numbered
  <2>4. take_events(w, "host", Len(q), TRUE) = [w EXCEPT !.gw.host = <<>>, !.audit.shown = w.audit.shown]
    BY <2>1, <2>2, <2>3
  <2>5. [w EXCEPT !.gw.host = <<>>, !.audit.shown = w.audit.shown] = z
    BY <1>0 DEF Worlds, Gateways, Audits
  <2> QED
    BY <2>4, <2>5
<1> HIDE DEF q
<1>4. gw \in Gateways /\ gw.host = <<>> /\ gw.mux = w.gw.mux /\ gw.refused = w.gw.refused
  BY <1>0 DEF Gateways
<1> HIDE DEF gw
<1>6. /\ z \in Worlds /\ z.x = w.x /\ z.web = w.web /\ z.gw = gw /\ z.set = w.set
      /\ z.audit = w.audit /\ z.ok = w.ok
  BY <1>0, <1>4 DEF Worlds
<1> HIDE DEF z
<1>7. Numbered(z)
  <2>1. DOMAIN gw.host = {}
    BY <1>4
  <2>2. \A k \in DOMAIN z.gw.host : z.gw.host[k].kind # "approval"
    BY <1>6, <2>1
  <2> QED
    BY <1>4, <1>6, <2>2 DEF WorldOK, CoreOK, Numbered
<1>8. Current(z) /\ Asked(z) /\ Agreed(z)
  BY <1>6 DEF WorldOK, CoreOK, Current, Asked, Agreed
<1>9. StreamAt(z, z.web.history)
  BY <1>4, <1>6 DEF WorldOK, StreamAt
<1>10. WorldOK(z, last)
  BY <1>4, <1>6, <1>7, <1>8, <1>9 DEF WorldOK, CoreOK
<1> QED
  BY <1>1, <1>10
----------------------------------------------------------------------------
(***************************************************************************)
(* Launching a session, and the requests that write the settings.          *)
(***************************************************************************)
LEMMA Answered ==
  ASSUME NEW plugin, NEW switches, NEW a \in Discovered(plugin, switches)
  PROVE  a \subseteq {plugin}
<1>1. PICK up \in launch_optional({plugin}, switches), answered \in BOOLEAN :
        a = IF answered THEN up ELSE {}
  BY DEF Discovered
<1>2. up \subseteq {plugin}
  BY DEF launch_optional
<1> QED
  BY <1>1, <1>2

LEMMA LaunchedPlugins ==
  ASSUME NEW switches
  PROVE  /\ \A a \in LaunchContext(switches) : a \subseteq Capabilities
         /\ \A a \in LaunchMemory(switches) : a \subseteq Capabilities
         /\ \A a \in LaunchSessionPlugins(switches) : a \subseteq Capabilities
         /\ \A a \in LaunchActions(switches) : a \subseteq Capabilities
         /\ \A a \in LaunchMcp(switches) : a \subseteq Capabilities
         /\ \A a \in LaunchSkills(switches) : a \subseteq Capabilities
         /\ \A a \in LaunchAgents(switches) : a \subseteq Capabilities
<1>1. \A a \in LaunchContext(switches) : a \subseteq Capabilities
  BY DEF LaunchContext, launch_optional, Capabilities
<1>2. \A a \in LaunchMemory(switches) : a \subseteq Capabilities
  <2>1. "memory" \in Capabilities /\ "memory_write" \in Capabilities
    BY DEF Capabilities
  <2>2. LaunchMemory(switches) \subseteq {{}, {"memory"}, {"memory", "memory_write"}}
    BY DEF LaunchMemory, optional_secondary_capability
  <2> QED
    BY <2>1, <2>2
<1>3. \A a \in LaunchSessionPlugins(switches) : a \subseteq Capabilities
  BY DEF LaunchSessionPlugins, launch_optional, Capabilities
<1>4. \A a \in LaunchActions(switches) : a \subseteq Capabilities
  BY DEF LaunchActions, launch_optional, Capabilities
<1>5. \A a \in LaunchMcp(switches) : a \subseteq Capabilities
  BY Answered DEF LaunchMcp, Capabilities
<1>6. \A a \in LaunchSkills(switches) : a \subseteq Capabilities
  BY Answered DEF LaunchSkills, Capabilities
<1>7. \A a \in LaunchAgents(switches) : a \subseteq Capabilities
  BY DEF LaunchAgents, launch_optional, Capabilities
<1> QED
  BY <1>1, <1>2, <1>3, <1>4, <1>5, <1>6, <1>7

LEMMA LaunchTyped ==
  ASSUME NEW switches \in SUBSET STRING, NEW engine \in {"spine", "legacy"},
         NEW chat \in launch(switches, engine)
  PROVE  /\ chat \in Chats /\ chat.engine = engine /\ chat.switches = switches
         /\ chat.spine = NoSpineTurn /\ chat.pending = NoAction
         /\ chat.continuation = NoContinuation
<1> DEFINE New(up) == initialize_spine(FreshSessionRecord(switches, up), engine)
<1>1. \E up : up \subseteq Capabilities /\ chat = New(up)
  <2>1. \E a \in LaunchContext(switches), b \in LaunchMemory(switches),
           c \in LaunchSessionPlugins(switches), d \in LaunchActions(switches),
           e \in LaunchMcp(switches), f \in LaunchSkills(switches), g \in LaunchAgents(switches) :
             chat = New(a \cup b \cup c \cup d \cup e \cup f \cup g)
    BY DEF launch
  <2> HIDE DEF New
  <2>2. PICK a \in LaunchContext(switches), b \in LaunchMemory(switches),
             c \in LaunchSessionPlugins(switches), d \in LaunchActions(switches),
             e \in LaunchMcp(switches), f \in LaunchSkills(switches), g \in LaunchAgents(switches) :
               chat = New(a \cup b \cup c \cup d \cup e \cup f \cup g)
    BY <2>1
  <2>3. /\ a \subseteq Capabilities /\ b \subseteq Capabilities /\ c \subseteq Capabilities
        /\ d \subseteq Capabilities /\ e \subseteq Capabilities /\ f \subseteq Capabilities
        /\ g \subseteq Capabilities
    BY LaunchedPlugins
  <2>4. (a \cup b \cup c \cup d \cup e \cup f \cup g) \subseteq Capabilities
    BY <2>3
  <2> QED
    BY <2>2, <2>4
<1>2. PICK up : up \subseteq Capabilities /\ chat = New(up)
  BY <1>1
<1>3. /\ NoAction \in Actions /\ NoContinuation \in Continuations /\ NoSpineTurn \in SpineTurns
  BY NothingTyped
<1> DEFINE s == FreshSessionRecord(switches, up)
           broker == IF engine = "spine" THEN s.caps \cap ToolCapabilities ELSE {}
<1>4. /\ s \in Chats /\ s.caps = up /\ s.switches = switches /\ s.spine = NoSpineTurn
      /\ s.pending = NoAction /\ s.continuation = NoContinuation
  BY <1>2, <1>3 DEF FreshSessionRecord, Chats
<1> HIDE DEF s
<1>5. broker \in SUBSET Capabilities
  BY <1>2, <1>4
<1>6. chat = [s EXCEPT !.engine = engine, !.broker = broker]
  BY <1>2, Zenon DEF initialize_spine, s
<1> HIDE DEF broker
<1> QED
  BY <1>4, <1>5, <1>6 DEF Chats

(* A launched session takes over what outlives the one before.             *)
LEMMA LaunchGood ==
  ASSUME NEW x, NEW last \in Nat, HostOK(x, last), NEW switches \in SUBSET STRING,
         NEW engine \in {"spine", "legacy"}, NEW c \in launch(switches, engine),
         NEW y, y = [c |-> c, d |-> x.d]
  PROVE  /\ y \in Hosts /\ HostOK(y, last) /\ y.d = x.d /\ y.c = c /\ y.c.switches = switches
         /\ pending_approval(y.c) = NoCall
<1>1. /\ c \in Chats /\ c.engine = engine /\ c.switches = switches
      /\ c.spine = NoSpineTurn /\ c.pending = NoAction /\ c.continuation = NoContinuation
  BY LaunchTyped
<1>2. x.d \in Disks /\ Once(x.d.sessions) /\ Below(x.d.sessions, last + 1)
  BY HostFields DEF HostOK
<1>3. y \in Hosts /\ y.c = c /\ y.d = x.d
  BY <1>1, <1>2 DEF Hosts
<1>4. Idle(y)
  BY <1>1, <1>3, NothingTyped DEF Idle
<1>5. HostOK(y, last)
  BY <1>2, <1>3, <1>4, IdleOK
<1>6. pending_approval(y.c) = NoCall
  BY <1>1, <1>3, NothingTyped DEF pending_approval, has_spine_pending_approval
<1> QED
  BY <1>1, <1>3, <1>5, <1>6

(* The settings change, and perhaps the session that runs on them.         *)
Settled(w, y, s) == [w EXCEPT !.x = y, !.set = s]

LEMMA SettledGood ==
  ASSUME NEW w, NEW last \in Nat, WorldOK(w, last), w.web.pending = NoPending,
         NEW y, HostOK(y, last), y.d = w.x.d, NEW s \in SettingDocs,
         ~s.torn => s.file = s.memory /\ s.file = y.c.switches
  PROVE  LET z == Settled(w, y, s) IN
         WorldOK(z, last) /\ z.web = w.web
<1> DEFINE z == Settled(w, y, s)
<1>0. w \in Worlds /\ y \in Hosts
  BY DEF WorldOK, CoreOK, HostOK
<1>1. /\ z \in Worlds /\ z.x = y /\ z.web = w.web /\ z.gw = w.gw /\ z.set = s
      /\ z.audit = w.audit /\ z.ok = w.ok
  BY <1>0 DEF Worlds, Settled
<1> HIDE DEF z
<1>2. Current(z) /\ Numbered(z) /\ Agreed(z)
  BY <1>1 DEF WorldOK, CoreOK, Current, Numbered, Agreed
<1>3. Asked(z) /\ StreamAt(z, z.web.history)
  BY <1>1 DEF WorldOK, CoreOK, Asked, StreamAt
<1> QED
  BY <1>1, <1>2, <1>3 DEF WorldOK, CoreOK, z

LEMMA RolledBackGood ==
  ASSUME NEW w, NEW last \in Nat, WorldOK(w, last), w.web.pending = NoPending,
         NEW s \in SettingDocs, NEW u, u = Settled(w, w.x, s),
         NEW z \in settings_apply_failure(u, w.set)
  PROVE  WorldOK(z, last)
<1> DEFINE back == [file |-> w.set.file, memory |-> w.set.memory, torn |-> w.set.torn]
           torn == [file |-> s.file, memory |-> w.set.memory, torn |-> TRUE]
<1>0. w \in Worlds /\ w.x \in Hosts /\ HostOK(w.x, last) /\ w.set \in SettingDocs
      /\ (~w.set.torn => w.set.file = w.set.memory /\ w.set.file = w.x.c.switches)
  BY WorldFields DEF WorldOK, CoreOK, HostOK, Agreed
<1>1. u \in Worlds /\ u.x = w.x /\ u.set = s /\ u.web = w.web /\ u.gw = w.gw /\ u.audit = w.audit
      /\ u.ok = w.ok
  BY <1>0 DEF Settled, Worlds
<1>2. z \in {[u EXCEPT !.set = back], [u EXCEPT !.set = torn]}
  <2>1. settings_apply_failure(u, w.set) =
          {[u EXCEPT !.set = back], [u EXCEPT !.set = [file |-> @.file, memory |-> w.set.memory, torn |-> TRUE]]}
    BY Zenon DEF settings_apply_failure
  <2>2. [u EXCEPT !.set = [file |-> @.file, memory |-> w.set.memory, torn |-> TRUE]] = [u EXCEPT !.set = torn]
    BY <1>1
  <2> QED
    BY <2>1, <2>2
<1>3. back \in SettingDocs /\ back.file = w.set.file /\ back.memory = w.set.memory
      /\ back.torn = w.set.torn
  BY <1>0 DEF SettingDocs
<1>4. torn \in SettingDocs /\ torn.torn
  BY <1>0 DEF SettingDocs
<1> HIDE DEF back, torn
<1>5. [u EXCEPT !.set = back] = Settled(w, w.x, back) /\ [u EXCEPT !.set = torn] = Settled(w, w.x, torn)
  BY <1>0 DEF Settled, Worlds
<1>6. CASE z = [u EXCEPT !.set = back]
  <2>1. z = Settled(w, w.x, back)
    BY <1>5, <1>6
  <2>2. ~back.torn => back.file = back.memory /\ back.file = w.x.c.switches
    BY <1>0, <1>3
  <2> QED
    BY <1>0, <1>3, <2>1, <2>2, SettledGood
<1>7. CASE z = [u EXCEPT !.set = torn]
  <2>1. z = Settled(w, w.x, torn)
    BY <1>5, <1>7
  <2> QED
    BY <1>0, <1>4, <2>1, SettledGood
<1> QED
  BY <1>2, <1>6, <1>7

LEMMA WebSettingsGood ==
  ASSUME NEW w, NEW last \in Nat, WorldOK(w, last), NEW switches \in SUBSET STRING,
         NEW z \in dispatch_settings_write(w, switches)
  PROVE  WorldOK(z, last)
<1> DEFINE u == [w EXCEPT !.set.file = switches, !.set.memory = switches]
           s == [w.set EXCEPT !.file = switches, !.memory = switches]
           New(c) == [c |-> c, d |-> w.x.d]
           Ready(c) == IF u.web.session = 0 THEN {[x |-> [c |-> c, d |-> u.x.d], out |-> "ok"]}
                       ELSE activate_web_session([c |-> c, d |-> u.x.d], u.web.session)
           F(r) == IF r.out = "ok" THEN {publish([u EXCEPT !.x = r.x], "host", <<Plain>>)}
                   ELSE settings_apply_failure([u EXCEPT !.x.d = r.x.d], w.set)
           G(c) == UNION {F(r) : r \in Ready(c)}
<1>0. /\ w \in Worlds /\ w.x \in Hosts /\ HostOK(w.x, last) /\ w.set \in SettingDocs
      /\ w.x.c.engine \in {"spine", "legacy"} /\ w.web.session \in Nat
  BY WorldFields, HostFields DEF WorldOK, CoreOK
<1>1. CASE z = w
  BY <1>1
<1>2. CASE z # w
  <2>1. validate_settings_change_allowed(w)
        /\ z \in rebuild_after_settings_change(u, w.set)
    <3>1. validate_settings_change_allowed(w)
      BY <1>2 DEF dispatch_settings_write
    <3>2. dispatch_settings_write(w, switches) = {w} \cup
            IF switches = w.set.memory THEN {} ELSE rebuild_after_settings_change(u, w.set)
      BY <3>1, Zenon DEF dispatch_settings_write
    <3> QED
      BY <1>2, <3>1, <3>2
  <2>2. w.web.pending = NoPending
    BY <2>1 DEF validate_settings_change_allowed
  <2>3. s \in SettingDocs /\ s.file = switches /\ s.memory = switches /\ s.torn = w.set.torn
    BY <1>0 DEF SettingDocs
  <2>4. u = Settled(w, w.x, s)
    BY <1>0 DEF Worlds, SettingDocs, Settled
  <2>5. rebuild_after_settings_change(u, w.set) =
          settings_apply_failure(u, w.set) \cup UNION {G(c) : c \in launch(u.set.file, u.x.c.engine)}
    BY Zenon DEF rebuild_after_settings_change
  <2> HIDE DEF u, s
  <2>6. /\ u \in Worlds /\ u.x = w.x /\ u.set = s /\ u.web = w.web /\ u.gw = w.gw
        /\ u.audit = w.audit /\ u.ok = w.ok
    BY <1>0, <2>3, <2>4 DEF Settled, Worlds
  <2>7. CASE z \in settings_apply_failure(u, w.set)
    BY <2>2, <2>3, <2>4, <2>7, RolledBackGood
  <2>8. CASE z \notin settings_apply_failure(u, w.set)
    <3>1. z \in UNION {G(c) : c \in launch(u.set.file, u.x.c.engine)}
      BY <2>1, <2>5, <2>8
    <3>2. PICK c \in launch(u.set.file, u.x.c.engine) : z \in G(c)
      BY <3>1, Zenon
    <3>3. PICK r \in Ready(c) : z \in F(r)
      BY <3>2, Zenon
    <3>4. c \in launch(switches, w.x.c.engine)
      BY <2>3, <2>6
    <3> DEFINE y == New(c)
    <3>5. /\ y \in Hosts /\ HostOK(y, last) /\ y.d = w.x.d /\ y.c.switches = switches
      BY <1>0, <3>4, LaunchGood
    <3>6. r \in IF w.web.session = 0 THEN {[x |-> y, out |-> "ok"]}
                ELSE activate_web_session(y, w.web.session)
      BY <2>6
    <3> HIDE DEF y
    <3>7. HostOK(r.x, last) /\ r.x.d = w.x.d /\ r.x.c.switches = switches
      <4>1. CASE w.web.session = 0
        <5>1. r.x = y
          BY <3>6, <4>1
        <5> QED
          BY <3>5, <5>1
      <4>2. CASE w.web.session # 0
        <5>1. r \in activate_web_session(y, w.web.session)
          BY <3>6, <4>2
        <5>2. Good(y, r.x, {}, last) /\ r.x.d = y.d
          BY <1>0, <3>5, <5>1, ActivateGood
        <5> QED
          BY <3>5, <5>2 DEF Good
      <4> QED
        BY <4>1, <4>2
    <3> HIDE DEF Ready
    <3>8. CASE r.out = "ok"
      <4> DEFINE v == Settled(w, r.x, s)
      <4>1. [u EXCEPT !.x = r.x] = v
        BY <1>0, <2>4 DEF Settled, Worlds
      <4>2. WorldOK(v, last)
        BY <2>2, <2>3, <3>7, SettledGood
      <4>3. z = publish(v, "host", <<Plain>>)
        BY <3>3, <3>8, <4>1
      <4> HIDE DEF v
      <4>4. CoreOK(z, last) /\ Reported(v, z)
        BY <4>2, <4>3, PlainHost DEF WorldOK
      <4>5. StreamAt(z, v.web.history) /\ z.web = v.web
        BY <4>2, <4>4, ReportedStream DEF Reported, WorldOK
      <4> QED
        BY <4>4, <4>5 DEF WorldOK
    <3>9. CASE r.out # "ok"
      <4>1. [u EXCEPT !.x.d = r.x.d] = u
        <5>1. u.x = [c |-> u.x.c, d |-> u.x.d] /\ r.x.d = u.x.d
          BY <1>0, <2>6, <3>7, HostFields
        <5>2. [u.x EXCEPT !.d = r.x.d] = u.x
          BY <5>1
        <5> QED
          BY <2>6, <5>2 DEF Worlds
      <4>2. z \in settings_apply_failure(u, w.set)
        BY <3>3, <3>9, <4>1
      <4> QED
        BY <2>8, <4>2
    <3> QED
      BY <3>8, <3>9
  <2> QED
    BY <2>7, <2>8
<1> QED
  BY <1>1, <1>2
----------------------------------------------------------------------------
(***************************************************************************)
(* The lines of the terminal.                                              *)
(***************************************************************************)
LEMMA TrimTyped ==
  ASSUME NEW h \in Seq(Messages)
  PROVE  trim_history(h) \in Seq(Messages)
<1> DEFINE n == IF Len(h) > MAX_HISTORY_MESSAGES THEN Len(h) - MAX_HISTORY_MESSAGES ELSE 0
<1>1. Len(h) \in Nat /\ n \in Nat
  BY CapacityAssumption
<1>2. trim_history(h) = SubSeq(h, 1 + n, Len(h))
  BY Zenon DEF trim_history
<1> HIDE DEF n
<1> QED
  BY <1>1, <1>2

(* The history a command leaves.                                           *)
HistoryAfter(out, history, p) ==
  IF out = "reply"
    THEN trim_history(history \o <<Message("user", p), Message("assistant", p)>>) ELSE history

LEMMA HistoryTyped ==
  ASSUME NEW h \in Seq(Messages), NEW p \in Nat, NEW out
  PROVE  HistoryAfter(out, h, p) \in Seq(Messages)
<1> DEFINE turn == <<Message("user", p), Message("assistant", p)>>
           more == h \o turn
<1>1. Message("user", p) \in Messages /\ Message("assistant", p) \in Messages
  BY DEF Message, Messages
<1>2. turn \in Seq(Messages)
  BY <1>1
<1> HIDE DEF turn
<1>3. more \in Seq(Messages)
  BY <1>2
<1>4. HistoryAfter(out, h, p) = IF out = "reply" THEN trim_history(more) ELSE h
  BY Zenon DEF HistoryAfter, turn
<1> HIDE DEF more
<1>5. trim_history(more) \in Seq(Messages)
  BY <1>3, TrimTyped
<1> QED
  BY <1>4, <1>5

LEMMA LineGood ==
  ASSUME NEW w, NEW last \in Nat, LineOK(w, last), NEW y, NEW may, Good(w.x, y, may, last),
         NEW allowed \in SUBSET Calls, may \subseteq allowed, w.audit.allowed \subseteq allowed,
         NEW h \in Seq(Messages),
         NEW z, z = [x |-> y, web |-> [w.web EXCEPT !.history = h], gw |-> w.gw, set |-> w.set,
                     audit |-> [w.audit EXCEPT !.allowed = allowed], ok |-> TRUE]
  PROVE  LineOK(z, last)
<1> DEFINE v == [w.web EXCEPT !.history = h]
           a == [w.audit EXCEPT !.allowed = allowed]
<1>0. w \in Worlds /\ w.web \in Webs /\ w.audit \in Audits /\ w.gw \in Gateways
      /\ w.set \in SettingDocs /\ y \in Hosts /\ HostOK(y, last)
  BY WorldFields DEF LineOK, Good, HostOK
<1>1. v \in Webs /\ v.pending = w.web.pending
  BY <1>0 DEF Webs
<1>2. a \in Audits /\ a.allowed = allowed
  BY <1>0 DEF Audits
<1>3. z = [x |-> y, web |-> v, gw |-> w.gw, set |-> w.set, audit |-> a, ok |-> TRUE]
  OBVIOUS
<1> HIDE DEF v, a
<1>4. z \in Worlds /\ z.x = y /\ z.web = v /\ z.set = w.set /\ z.audit = a
  BY <1>0, <1>1, <1>2, <1>3 DEF Worlds
<1>5. Asked(z)
  <2>1. Asked(w) /\ RanOnly(w.x, y, may)
    BY DEF LineOK, Good
  <2> QED
    BY <1>2, <1>4, <2>1 DEF Asked, RanOnly
<1>6. Agreed(z)
  BY <1>4 DEF LineOK, Agreed, Good
<1> QED
  BY <1>0, <1>1, <1>4, <1>5, <1>6 DEF LineOK

LEMMA LineLater ==
  ASSUME NEW w, NEW last \in Nat, LineOK(w, last)
  PROVE  LineOK(w, last + 1)
<1>1. HostOK(w.x, last + 1)
  BY HostLater DEF LineOK
<1> QED
  BY <1>1 DEF LineOK

(***************************************************************************)
(* The program starts, and every step keeps the invariant.                 *)
(***************************************************************************)
LEMMA WorldOf ==
  ASSUME NEW y \in Hosts, NEW v \in Webs, NEW g \in Gateways, NEW s \in SettingDocs,
         NEW a \in Audits
  PROVE  [x |-> y, web |-> v, gw |-> g, set |-> s, audit |-> a, ok |-> TRUE] \in Worlds
BY DEF Worlds

LEMMA FreshGood ==
  ASSUME NEW y, NEW last \in Nat, HostOK(y, last), NEW switches \in SUBSET STRING,
         y.c.switches = switches, NEW a \in Audits, a.shown = {}, a.streamed = <<>>,
         \A call \in y.d.ran : requires_approval(call.tool) => call \in a.allowed,
         NEW s, s = [file |-> switches, memory |-> switches, torn |-> FALSE],
         NEW z, z = [x |-> y, web |-> FreshWeb, gw |-> FreshGateway, set |-> s, audit |-> a,
                     ok |-> TRUE]
  PROVE  WorldOK(z, last) /\ LineOK(z, last)
<1>1. y \in Hosts
  BY DEF HostOK
<1>2. /\ FreshWeb \in Webs /\ FreshWeb.history = <<>> /\ FreshWeb.session = 0
      /\ FreshWeb.pending = NoPending
  <2>1. <<>> \in Seq(Messages) /\ NoPending \in Approvals
    BY PlainTyped
  <2> QED
    BY <2>1 DEF FreshWeb, Webs
<1>3. /\ FreshGateway \in Gateways /\ FreshGateway.mux = <<>> /\ FreshGateway.host = <<>>
  <2>1. <<>> \in Seq(Notices)
    OBVIOUS
  <2> QED
    BY <2>1 DEF FreshGateway, Gateways
<1>4. s \in SettingDocs /\ s.file = switches /\ s.memory = switches
  BY DEF SettingDocs
<1>6. z \in Worlds /\ z.x = y /\ z.web = FreshWeb /\ z.gw = FreshGateway /\ z.set = s
      /\ z.audit = a /\ z.ok = TRUE
  <2>0. a \in Audits /\ FreshWeb \in Webs /\ FreshGateway \in Gateways /\ s \in SettingDocs
    BY <1>2, <1>3, <1>4
  <2>1. z \in Worlds
    BY <1>1, <2>0, WorldOf
  <2>2. z.x = y /\ z.web = FreshWeb /\ z.gw = FreshGateway
    BY <1>1, <2>0, WorldOf
  <2>3. z.set = s /\ z.audit = a /\ z.ok = TRUE
    BY <1>1, <2>0, WorldOf
  <2> QED
    BY <2>1, <2>2, <2>3
<1>7. Current(z) /\ StreamAt(z, z.web.history)
  BY <1>2, <1>6 DEF Current, StreamAt
<1>8. Numbered(z)
  <2>1. DOMAIN z.gw.mux = {} /\ DOMAIN z.gw.host = {}
    BY <1>3, <1>6
  <2> QED
    BY <1>6, <2>1 DEF Numbered
<1>9. Asked(z) /\ Agreed(z)
  BY <1>4, <1>6 DEF Asked, Agreed
<1> QED
  BY <1>2, <1>6, <1>7, <1>8, <1>9 DEF WorldOK, CoreOK, LineOK

LEMMA StartFields ==
  ASSUME NEW r \in Starts
  PROVE  /\ r.front \in {"web", "repl"} /\ r.engine \in {"spine", "legacy"}
         /\ r.switches \in SUBSET STRING /\ r.choices \subseteq SUBSET STRING
         /\ r.sessions \in Nat
<1>1. r \in [front : {"web", "repl"}, engine : {"spine", "legacy"},
             switches : SUBSET STRING, choices : SUBSET (SUBSET STRING),
             sessions : Nat, starts : Nat]
  BY StartsAssumption
<1> QED
  BY <1>1

LEMMA NoDiskTyped ==
  ASSUME NEW room \in Nat
  PROVE  NoDisk(room) \in Disks /\ NoDisk(room).sessions = <<>> /\ NoDisk(room).ran = {}
<1>1. <<>> \in SessionMaps
  <2>1. <<>> \in [{} -> Seq(Nat)]
    OBVIOUS
  <2> QED
    BY <2>1 DEF SessionMaps
<1> QED
  BY <1>1 DEF NoDisk, Disks

LEMMA InitHolds == Init => WebIInv
<1> SUFFICES ASSUME Init PROVE WebIInv
  OBVIOUS
<1>1. /\ run \in Starts /\ prompts = 0 /\ starts = 1 /\ web = FreshWeb /\ gateway = FreshGateway
      /\ settings = [file |-> run.switches, memory |-> run.switches, torn |-> FALSE]
      /\ audit = [shown |-> {}, allowed |-> {}, streamed |-> <<>>]
  BY DEF Init
<1>2. PICK c \in launch(run.switches, run.engine) : host = [c |-> c, d |-> NoDisk(run.sessions)]
  BY DEF Init
<1>3. /\ run.engine \in {"spine", "legacy"} /\ run.switches \in SUBSET STRING /\ run.sessions \in Nat
  BY <1>1, StartFields
<1>4. /\ c \in Chats /\ c.switches = run.switches
      /\ c.spine = NoSpineTurn /\ c.pending = NoAction /\ c.continuation = NoContinuation
  BY <1>2, <1>3, LaunchTyped
<1>5. /\ NoDisk(run.sessions) \in Disks /\ NoDisk(run.sessions).sessions = <<>>
      /\ NoDisk(run.sessions).ran = {}
  BY <1>3, NoDiskTyped
<1>6. /\ host \in Hosts /\ host.c = c /\ host.d.sessions = <<>> /\ host.d.ran = {}
  BY <1>2, <1>4, <1>5 DEF Hosts
<1>7. Idle(host)
  BY <1>4, <1>6, NothingTyped DEF Idle
<1>8. DOMAIN host.d.sessions = {}
  BY <1>6
<1>9. Once(host.d.sessions) /\ Below(host.d.sessions, 0 + 1)
  BY <1>8 DEF Once, Below
<1>10. HostOK(host, 0)
  BY <1>6, <1>7, <1>9, IdleOK
<1>11. audit \in Audits /\ audit.shown = {} /\ audit.streamed = <<>>
  BY <1>1 DEF Audits
<1>12. World = [x |-> host, web |-> FreshWeb, gw |-> FreshGateway, set |-> settings,
                audit |-> audit, ok |-> TRUE]
  BY <1>1 DEF World
<1>13. host.c.switches = run.switches
       /\ \A call \in host.d.ran : requires_approval(call.tool) => call \in audit.allowed
  BY <1>4, <1>6
<1>14. WorldOK(World, 0) /\ LineOK(World, 0)
  BY <1>1, <1>3, <1>10, <1>11, <1>12, <1>13, FreshGood
<1> QED
  BY <1>1, <1>14 DEF WebIInv

LEMMA RestartKeeps == WebIInv /\ Restart => WebIInv'
<1> SUFFICES ASSUME WebIInv, Restart PROVE WebIInv'
  OBVIOUS
<1>1. /\ run \in Starts /\ prompts \in Nat /\ starts \in Nat /\ World \in Worlds
      /\ HostOK(World.x, prompts) /\ Asked(World)
  BY DEF WebIInv, WorldOK, CoreOK, LineOK
<1>2. World.x = host /\ World.audit = audit /\ World.set = settings
  BY DEF World
<1>3. /\ host \in Hosts /\ audit \in Audits /\ settings.file \in SUBSET STRING
      /\ run.engine \in {"spine", "legacy"}
  BY <1>1, <1>2, WorldFields, StartFields
<1>4. PICK c \in launch(settings.file, run.engine) : host' = [host EXCEPT !.c = c]
  BY DEF Restart
<1>5. host' = [c |-> c, d |-> host.d]
  <2>1. host = [c |-> host.c, d |-> host.d]
    BY <1>3, HostFields
  <2> QED
    BY <1>4, <2>1
<1>6. /\ HostOK(host', prompts) /\ host'.d = host.d /\ host'.c.switches = settings.file
  BY <1>1, <1>2, <1>3, <1>5, LaunchGood
<1>7. audit' = [audit EXCEPT !.shown = {}, !.streamed = <<>>]
  BY DEF Restart
<1>8. audit' \in Audits /\ audit'.shown = {} /\ audit'.streamed = <<>>
      /\ audit'.allowed = audit.allowed
  <2>1. <<>> \in Seq(TurnEvents) /\ {} \in SUBSET Shown
    OBVIOUS
  <2> QED
    BY <1>3, <1>7, <2>1 DEF Audits
<1>9. /\ World' = [x |-> host', web |-> FreshWeb, gw |-> FreshGateway, set |-> settings',
                    audit |-> audit', ok |-> TRUE]
      /\ settings' = [file |-> settings.file, memory |-> settings.file, torn |-> FALSE]
  BY DEF World, Restart
<1>10. \A call \in host'.d.ran : requires_approval(call.tool) => call \in audit'.allowed
  BY <1>1, <1>2, <1>6, <1>8 DEF Asked
<1>11. WorldOK(World', prompts) /\ LineOK(World', prompts)
  <2> DEFINE z == World'
             y == host'
             a == audit'
             f == settings.file
             s == settings'
             last == prompts
  <2>1. /\ HostOK(y, last) /\ last \in Nat /\ f \in SUBSET STRING /\ y.c.switches = f
        /\ a \in Audits /\ a.shown = {} /\ a.streamed = <<>>
        /\ \A call \in y.d.ran : requires_approval(call.tool) => call \in a.allowed
        /\ s = [file |-> f, memory |-> f, torn |-> FALSE]
        /\ z = [x |-> y, web |-> FreshWeb, gw |-> FreshGateway, set |-> s, audit |-> a, ok |-> TRUE]
    BY <1>1, <1>3, <1>6, <1>8, <1>9, <1>10
  <2> HIDE DEF z, y, a, f, s, last
  <2>2. WorldOK(z, last) /\ LineOK(z, last)
    BY <2>1, FreshGood
  <2> QED
    BY <2>2 DEF z, last
<1>12. starts' \in Nat /\ run' = run /\ prompts' = prompts
  BY <1>1 DEF Restart
<1> QED
  BY <1>1, <1>11, <1>12 DEF WebIInv
LEMMA NoFault ==
  ASSUME NEW w, NEW last \in Nat, WorldOK(w, last),
         NEW z, z = [x |-> w.x, web |-> w.web, gw |-> w.gw, set |-> w.set, audit |-> w.audit,
                     ok |-> TRUE]
  PROVE  WorldOK(z, last)
<1>1. w \in Worlds
  BY DEF WorldOK, CoreOK
<1>2. /\ w.x \in Hosts /\ w.web \in Webs /\ w.gw \in Gateways /\ w.set \in SettingDocs
      /\ w.audit \in Audits
  BY <1>1, WorldFields
<1>3. z \in Worlds
  BY <1>2, WorldOf
<1>4. z.x = w.x /\ z.web = w.web /\ z.gw = w.gw /\ z.set = w.set /\ z.audit = w.audit
  OBVIOUS
<1>5. z.ok = TRUE
  OBVIOUS
<1>6. Current(z) /\ Numbered(z) /\ Asked(z) /\ Agreed(z)
  BY <1>4 DEF WorldOK, CoreOK, Current, Numbered, Asked, Agreed
<1>7. StreamAt(z, z.web.history)
  BY <1>4 DEF WorldOK, StreamAt
<1> QED
  BY <1>3, <1>4, <1>5, <1>6, <1>7 DEF WorldOK, CoreOK

(* A request of the Web front leaves one of the worlds of its handler.     *)
LEMMA RequestKeeps ==
  ASSUME WebIInv, Request, prompts' \in Nat,
         NEW w, WorldOK(w, prompts'),
         host' = w.x, web' = w.web, gateway' = w.gw, settings' = w.set, audit' = w.audit
  PROVE  WebIInv'
<1> DEFINE z == World'
           last == prompts'
<1>1. z = [x |-> w.x, web |-> w.web, gw |-> w.gw, set |-> w.set, audit |-> w.audit, ok |-> TRUE]
  BY DEF World
<1>2. last \in Nat /\ WorldOK(w, last)
  OBVIOUS
<1> HIDE DEF z, last
<1>3. WorldOK(z, last)
  BY <1>1, <1>2, NoFault
<1>4. run' = run /\ starts' = starts /\ run.front = "web"
  BY DEF Request
<1>5. WorldOK(World', prompts')
  BY <1>3 DEF z, last
<1> QED
  BY <1>4, <1>5 DEF WebIInv

LEMMA RefreshedGood ==
  ASSUME WebIInv, run.front = "web", NEW w \in Refreshed
  PROVE  /\ prompts \in Nat /\ WorldOK(w, prompts) /\ w.web = web /\ w.gw = gateway
         /\ w.set = settings /\ w.audit = audit /\ w.ok = TRUE
<1> DEFINE v == World
           last == prompts
<1>1. last \in Nat /\ WorldOK(v, last)
  BY DEF WebIInv
<1>2. /\ v.web = web /\ v.gw = gateway /\ v.set = settings /\ v.audit = audit
  BY DEF World
<1>3. v.ok = TRUE
  BY DEF World
<1>4. w \in refresh(v)
  BY DEF Refreshed
<1> HIDE DEF v, last
<1>5. WorldOK(w, last) /\ w.web = v.web /\ w.gw = v.gw /\ w.set = v.set /\ w.audit = v.audit
  BY <1>1, <1>4, RefreshGood
<1>6. w.ok = v.ok
  BY <1>1, <1>4, RefreshGood
<1> QED
  BY <1>1, <1>2, <1>3, <1>5, <1>6 DEF last

LEMMA WebCreateKeeps == WebIInv /\ WebCreate => WebIInv'
<1> SUFFICES ASSUME WebIInv, WebCreate PROVE WebIInv'
  OBVIOUS
<1>1. Request /\ run.front = "web" /\ prompts' = prompts
  BY DEF WebCreate, Request
<1>2. PICK z \in UNION {dispatch_session_create(w) : w \in Refreshed} :
        host' = z.x /\ web' = z.web /\ gateway' = z.gw /\ settings' = z.set /\ audit' = z.audit
  BY DEF WebCreate, Becomes
<1>3. PICK w \in Refreshed : z \in dispatch_session_create(w)
  BY Zenon
<1>4. prompts \in Nat /\ WorldOK(w, prompts)
  BY <1>1, RefreshedGood
<1>5. WorldOK(z, prompts)
  BY <1>3, <1>4, WebCreateGood
<1> QED
  BY <1>1, <1>2, <1>4, <1>5, RequestKeeps

LEMMA WebHistoryKeeps == WebIInv /\ WebHistory => WebIInv'
<1> SUFFICES ASSUME WebIInv, WebHistory PROVE WebIInv'
  OBVIOUS
<1>1. Request /\ run.front = "web" /\ prompts' = prompts
  BY DEF WebHistory, Request
<1>2. PICK id \in 1..run.sessions : Becomes(UNION {dispatch_session_history(w, id) : w \in Refreshed})
  BY DEF WebHistory
<1>3. PICK z \in UNION {dispatch_session_history(w, id) : w \in Refreshed} :
        host' = z.x /\ web' = z.web /\ gateway' = z.gw /\ settings' = z.set /\ audit' = z.audit
  BY <1>2 DEF Becomes
<1>4. PICK w \in Refreshed : z \in dispatch_session_history(w, id)
  BY Zenon
<1>5. prompts \in Nat /\ WorldOK(w, prompts)
  BY <1>1, RefreshedGood
<1>6. run.sessions \in Nat
  BY StartFields DEF WebIInv
<1>7. id \in Nat
  BY <1>6
<1>8. WorldOK(z, prompts)
  BY <1>4, <1>5, <1>7, WebHistoryGood
<1> QED
  BY <1>1, <1>3, <1>5, <1>8, RequestKeeps

LEMMA WebPromptKeeps == WebIInv /\ WebPrompt => WebIInv'
<1> SUFFICES ASSUME WebIInv, WebPrompt PROVE WebIInv'
  OBVIOUS
<1>1. Request /\ run.front = "web" /\ prompts' = prompts + 1
  BY DEF WebPrompt, Request
<1>2. PICK id \in 1..run.sessions :
        Becomes(UNION {dispatch_session_prompt(w, id, prompts + 1) : w \in Refreshed})
  BY DEF WebPrompt
<1>3. PICK z \in UNION {dispatch_session_prompt(w, id, prompts + 1) : w \in Refreshed} :
        host' = z.x /\ web' = z.web /\ gateway' = z.gw /\ settings' = z.set /\ audit' = z.audit
  BY <1>2 DEF Becomes
<1>4. PICK w \in Refreshed : z \in dispatch_session_prompt(w, id, prompts + 1)
  BY Zenon
<1>5. prompts \in Nat /\ WorldOK(w, prompts)
  BY <1>1, RefreshedGood
<1>6. run.sessions \in Nat
  BY StartFields DEF WebIInv
<1>7. id \in Nat /\ prompts + 1 \in Nat
  BY <1>5, <1>6
<1>8. WorldOK(z, prompts + 1)
  BY <1>4, <1>5, <1>7, WebPromptGood
<1> QED
  BY <1>1, <1>3, <1>7, <1>8, RequestKeeps

LEMMA WebSubagentsKeeps == WebIInv /\ WebSubagents => WebIInv'
<1> SUFFICES ASSUME WebIInv, WebSubagents PROVE WebIInv'
  OBVIOUS
<1>1. Request /\ run.front = "web" /\ prompts' = prompts
  BY DEF WebSubagents, Request
<1>2. PICK z \in UNION {subagent_context(w) : w \in Refreshed} :
        host' = z.x /\ web' = z.web /\ gateway' = z.gw /\ settings' = z.set /\ audit' = z.audit
  BY DEF WebSubagents, Becomes
<1>3. PICK w \in Refreshed : z \in subagent_context(w)
  BY Zenon
<1>4. prompts \in Nat /\ WorldOK(w, prompts)
  BY <1>1, RefreshedGood
<1>5. WorldOK(z, prompts)
  BY <1>3, <1>4, WebSubagentsGood
<1> QED
  BY <1>1, <1>2, <1>4, <1>5, RequestKeeps

LEMMA WebRespondKeeps == WebIInv /\ WebRespond => WebIInv'
<1> SUFFICES ASSUME WebIInv, WebRespond PROVE WebIInv'
  OBVIOUS
<1>1. Request /\ run.front = "web" /\ prompts' = prompts
  BY DEF WebRespond, Request
<1>2. PICK answer \in audit.shown, allow \in BOOLEAN :
        Becomes(UNION {respond(w, answer, allow) : w \in Refreshed})
  BY DEF WebRespond
<1>3. PICK z \in UNION {respond(w, answer, allow) : w \in Refreshed} :
        host' = z.x /\ web' = z.web /\ gateway' = z.gw /\ settings' = z.set /\ audit' = z.audit
  BY <1>2 DEF Becomes
<1>4. PICK w \in Refreshed : z \in respond(w, answer, allow)
  BY Zenon
<1>5. prompts \in Nat /\ WorldOK(w, prompts) /\ w.audit = audit
  BY <1>1, RefreshedGood
<1>6. answer \in w.audit.shown
  BY <1>5
<1>7. WorldOK(z, prompts)
  BY <1>4, <1>5, <1>6, WebRespondGood
<1> QED
  BY <1>1, <1>3, <1>5, <1>7, RequestKeeps

LEMMA WebSettingsKeeps == WebIInv /\ WebSettings => WebIInv'
<1> SUFFICES ASSUME WebIInv, WebSettings PROVE WebIInv'
  OBVIOUS
<1>1. Request /\ run.front = "web" /\ prompts' = prompts
  BY DEF WebSettings, Request
<1>2. PICK switches \in run.choices :
        Becomes(UNION {dispatch_settings_write(w, switches) : w \in Refreshed})
  BY DEF WebSettings
<1>3. PICK z \in UNION {dispatch_settings_write(w, switches) : w \in Refreshed} :
        host' = z.x /\ web' = z.web /\ gateway' = z.gw /\ settings' = z.set /\ audit' = z.audit
  BY <1>2 DEF Becomes
<1>4. PICK w \in Refreshed : z \in dispatch_settings_write(w, switches)
  BY Zenon
<1>5. prompts \in Nat /\ WorldOK(w, prompts)
  BY <1>1, RefreshedGood
<1>6. switches \in SUBSET STRING
  BY StartFields DEF WebIInv
<1>7. WorldOK(z, prompts)
  BY <1>4, <1>5, <1>6, WebSettingsGood
<1> QED
  BY <1>1, <1>3, <1>5, <1>7, RequestKeeps

LEMMA WebPollMuxKeeps == WebIInv /\ WebPollMux => WebIInv'
<1> SUFFICES ASSUME WebIInv, NEW received \in BOOLEAN, PollMux(received) PROVE WebIInv'
  BY DEF WebPollMux
<1>1. Request /\ run.front = "web" /\ prompts' = prompts
  BY DEF PollMux, Request
<1>2. PICK w \in Refreshed :
        Becomes({take_events(Announce(w), "mux", Len(Announce(w).gw.mux), received)})
  BY DEF PollMux
<1>3. prompts \in Nat /\ WorldOK(w, prompts)
  BY <1>1, RefreshedGood
<1> DEFINE a == Announce(w)
           z == take_events(a, "mux", Len(a.gw.mux), received)
<1>4. WorldOK(a, prompts)
  BY <1>3, AnnounceGood
<1> HIDE DEF a
<1>5. WorldOK(z, prompts)
  BY <1>3, <1>4, TakeMuxGood
<1>6. host' = z.x /\ web' = z.web /\ gateway' = z.gw /\ settings' = z.set /\ audit' = z.audit
  BY <1>2 DEF Becomes, a
<1> HIDE DEF z
<1> QED
  BY <1>1, <1>3, <1>5, <1>6, RequestKeeps

LEMMA WebPollHostKeeps == WebIInv /\ WebPollHost => WebIInv'
<1> SUFFICES ASSUME WebIInv, WebPollHost PROVE WebIInv'
  OBVIOUS
<1>1. Request /\ run.front = "web" /\ prompts' = prompts
  BY DEF WebPollHost, Request
<1>2. PICK w \in Refreshed : Becomes({take_events(w, "host", Len(w.gw.host), TRUE)})
  BY DEF WebPollHost
<1>3. prompts \in Nat /\ WorldOK(w, prompts)
  BY <1>1, RefreshedGood
<1> DEFINE z == take_events(w, "host", Len(w.gw.host), TRUE)
<1>5. WorldOK(z, prompts)
  BY <1>3, TakeHostGood
<1>6. host' = z.x /\ web' = z.web /\ gateway' = z.gw /\ settings' = z.set /\ audit' = z.audit
  BY <1>2 DEF Becomes
<1> HIDE DEF z
<1> QED
  BY <1>1, <1>3, <1>5, <1>6, RequestKeeps

(* A line of the terminal shows what its command leaves.                   *)
LEMMA ShownKeeps ==
  ASSUME WebIInv, Line, prompts' \in Nat, NEW last \in Nat, last = prompts',
         LineOK(World, last), NEW r, NEW may, Good(host, r.x, may, last),
         NEW h \in Seq(Messages), NEW p \in Nat, Shows(r, h, p),
         NEW allowed \in SUBSET Calls, may \subseteq allowed, audit.allowed \subseteq allowed,
         audit' = [audit EXCEPT !.allowed = allowed]
  PROVE  WebIInv'
<1> DEFINE w == World
           z == World'
           more == HistoryAfter(r.out, h, p)
           y == r.x
<1>1. /\ run.front = "repl" /\ run' = run /\ starts' = starts /\ gateway' = gateway
      /\ settings' = settings
  BY DEF Line
<1>2. /\ w.x = host /\ w.web = web /\ w.gw = gateway /\ w.set = settings /\ w.audit = audit
  BY DEF World
<1>3. host' = r.x /\ web' = [web EXCEPT !.history = more]
  BY Zenon DEF Shows, HistoryAfter
<1>4. more \in Seq(Messages)
  BY HistoryTyped
<1> HIDE DEF more
<1>5. z = [x |-> y, web |-> [w.web EXCEPT !.history = more], gw |-> w.gw, set |-> w.set,
           audit |-> [w.audit EXCEPT !.allowed = allowed], ok |-> TRUE]
  <2>1. z = [x |-> host', web |-> web', gw |-> gateway', set |-> settings', audit |-> audit', ok |-> TRUE]
    BY DEF World
  <2> HIDE DEF z, w
  <2> QED
    BY <1>1, <1>2, <1>3, <2>1
<1>6. LineOK(w, last) /\ Good(w.x, y, may, last) /\ w.audit.allowed \subseteq allowed
  BY <1>2
<1> HIDE DEF w, z, y
<1>7. LineOK(z, last)
  BY <1>4, <1>5, <1>6, LineGood
<1>8. LineOK(World', prompts')
  BY <1>7 DEF z
<1> QED
  BY <1>1, <1>8 DEF WebIInv

LEMMA LineFields ==
  ASSUME WebIInv, Line
  PROVE  /\ LineOK(World, prompts) /\ prompts \in Nat /\ starts \in Nat /\ run \in Starts
         /\ HostOK(host, prompts) /\ host \in Hosts /\ web.history \in Seq(Messages)
         /\ audit \in Audits /\ audit.allowed \in SUBSET Calls
         /\ audit = [audit EXCEPT !.allowed = audit.allowed]
<1>1. LineOK(World, prompts) /\ prompts \in Nat /\ starts \in Nat /\ run \in Starts
  BY DEF WebIInv, Line
<1>2. World \in Worlds /\ World.x = host /\ World.web = web /\ World.audit = audit
  BY <1>1 DEF LineOK, World
<1>3. HostOK(host, prompts) /\ host \in Hosts /\ web.history \in Seq(Messages)
      /\ audit \in Audits /\ audit.allowed \in SUBSET Calls
  BY <1>1, <1>2, WorldFields DEF LineOK
<1>4. audit = [audit EXCEPT !.allowed = audit.allowed]
  BY <1>3 DEF Audits
<1> QED
  BY <1>1, <1>3, <1>4

LEMMA ReplPromptKeeps == WebIInv /\ ReplPrompt => WebIInv'
<1> SUFFICES ASSUME WebIInv, ReplPrompt PROVE WebIInv'
  OBVIOUS
<1>1. Line /\ prompts' = prompts + 1 /\ audit' = audit
  BY DEF ReplPrompt
<1>2. PICK r \in complete(host, prompts + 1) : Shows(r, web.history, prompts + 1)
  BY DEF ReplPrompt
<1> DEFINE last == prompts + 1
           may == {}
<1>3. prompts \in Nat /\ HostOK(host, prompts) /\ LineOK(World, prompts)
      /\ web.history \in Seq(Messages) /\ audit.allowed \in SUBSET Calls
      /\ audit = [audit EXCEPT !.allowed = audit.allowed]
  BY <1>1, LineFields
<1>4. HostOK(host, last) /\ LineOK(World, last) /\ last \in Nat
  BY <1>3, HostLater, LineLater
<1>5. OpenTurn(host.d.sessions, last, last)
  BY <1>3 DEF HostOK, OpenTurn
<1>6. may \subseteq audit.allowed /\ last = prompts' /\ prompts' \in Nat
  BY <1>1, <1>4
<1>7. r \in complete(host, last) /\ Shows(r, web.history, last)
  BY <1>2
<1> HIDE DEF last, may
<1>8. Good(host, r.x, may, last)
  BY <1>4, <1>5, <1>7, CompleteGood
<1>9. audit' = [audit EXCEPT !.allowed = audit.allowed] /\ audit.allowed \subseteq audit.allowed
  BY <1>1, <1>3
<1> QED
  BY <1>1, <1>3, <1>4, <1>6, <1>7, <1>8, <1>9, ShownKeeps

LEMMA ReplQueueKeeps == WebIInv /\ ReplQueue => WebIInv'
<1> SUFFICES ASSUME WebIInv, ReplQueue PROVE WebIInv'
  OBVIOUS
<1>1. Line /\ prompts' = prompts + 1 /\ audit' = audit
  BY DEF ReplQueue
<1>2. PICK kind \in {"shell", "patch"} : \E r \in queue_action(host, kind) : Shows(r, web.history, 0)
  BY DEF ReplQueue
<1>2a. PICK r \in queue_action(host, kind) : Shows(r, web.history, 0)
  BY <1>2
<1> DEFINE last == prompts + 1
           may == {}
<1>3. prompts \in Nat /\ HostOK(host, prompts) /\ LineOK(World, prompts)
      /\ web.history \in Seq(Messages) /\ audit.allowed \in SUBSET Calls
      /\ audit = [audit EXCEPT !.allowed = audit.allowed]
  BY <1>1, LineFields
<1>4. HostOK(host, last) /\ LineOK(World, last) /\ last \in Nat
  BY <1>3, HostLater, LineLater
<1>6. may \subseteq audit.allowed /\ last = prompts' /\ prompts' \in Nat
  BY <1>1, <1>4
<1> HIDE DEF last, may
<1>8. Good(host, r.x, may, last)
  BY <1>4, <1>2a, QueueActionGood
<1>9. audit' = [audit EXCEPT !.allowed = audit.allowed] /\ audit.allowed \subseteq audit.allowed
      /\ 0 \in Nat
  BY <1>1, <1>3
<1> QED
  BY <1>1, <1>2a, <1>3, <1>4, <1>6, <1>8, <1>9, ShownKeeps

(* The call that waits at the terminal is a call the user now allows.      *)
LEMMA ReplApproveKeeps == WebIInv /\ ReplApprove => WebIInv'
<1> SUFFICES ASSUME WebIInv, ReplApprove PROVE WebIInv'
  OBVIOUS
<1>1. Line /\ prompts' = prompts
      /\ audit' = [audit EXCEPT !.allowed = audit.allowed \cup ({Waiting(host.c)} \ {NoCall})]
  BY DEF ReplApprove
<1>2. PICK r \in approve_action(host) : Shows(r, web.history, TurnPrompt(host.c))
  BY DEF ReplApprove
<1> DEFINE last == prompts
           may == {Waiting(host.c)} \ {NoCall}
           allowed == audit.allowed \cup may
           p == TurnPrompt(host.c)
<1>3. last \in Nat /\ HostOK(host, last) /\ LineOK(World, last) /\ host \in Hosts
      /\ web.history \in Seq(Messages) /\ audit.allowed \in SUBSET Calls
  BY <1>1, LineFields
<1>4. Waiting(host.c) \in Calls /\ p \in Nat
  BY <1>3, HostFields DEF Waiting, TurnPrompt, Actions, SpineTurns, Continuations
<1>5. allowed \in SUBSET Calls /\ may \subseteq allowed /\ audit.allowed \subseteq allowed
  BY <1>3, <1>4
<1>6. Waiting(host.c) # NoCall => Waiting(host.c) \in may
  OBVIOUS
<1>7. last = prompts' /\ prompts' \in Nat /\ audit' = [audit EXCEPT !.allowed = allowed]
  BY <1>1, <1>3
<1>8. Shows(r, web.history, p)
  BY <1>2
<1> HIDE DEF last, may, allowed, p
<1>9. Good(host, r.x, may, last)
  BY <1>2, <1>3, <1>6, ApproveActionGood
<1>10. Line /\ prompts' \in Nat /\ last \in Nat /\ last = prompts' /\ LineOK(World, last)
  BY <1>1, <1>3, <1>7
<1>11. web.history \in Seq(Messages) /\ p \in Nat
  BY <1>3, <1>4
<1> QED
  BY <1>5, <1>7, <1>8, <1>9, <1>10, <1>11, ShownKeeps

(* The other commands allow nothing.                                       *)
LEMMA CommandKeeps ==
  ASSUME WebIInv, Line, prompts' = prompts, audit' = audit,
         NEW r, Good(host, r.x, {}, prompts), NEW h \in Seq(Messages), NEW p \in Nat,
         Shows(r, h, p)
  PROVE  WebIInv'
<1> DEFINE last == prompts
           may == {}
<1>1. last \in Nat /\ LineOK(World, last) /\ audit.allowed \in SUBSET Calls
      /\ audit' = [audit EXCEPT !.allowed = audit.allowed]
  BY LineFields
<1>2. may \subseteq audit.allowed /\ last = prompts' /\ prompts' \in Nat
      /\ audit.allowed \subseteq audit.allowed
  BY <1>1
<1>3. Good(host, r.x, may, last)
  OBVIOUS
<1> HIDE DEF last, may
<1> QED
  BY <1>1, <1>2, <1>3, ShownKeeps

LEMMA ReplDenyKeeps == WebIInv /\ ReplDeny => WebIInv'
<1> SUFFICES ASSUME WebIInv, ReplDeny PROVE WebIInv'
  OBVIOUS
<1>1. Line /\ prompts' = prompts /\ audit' = audit
  BY DEF ReplDeny
<1>2. PICK r \in deny_action(host) : Shows(r, web.history, TurnPrompt(host.c))
  BY DEF ReplDeny
<1>3. prompts \in Nat /\ HostOK(host, prompts) /\ host \in Hosts /\ web.history \in Seq(Messages)
  BY <1>1, LineFields
<1>4. TurnPrompt(host.c) \in Nat
  BY <1>3, HostFields DEF TurnPrompt, SpineTurns, Continuations
<1>5. Good(host, r.x, {}, prompts)
  BY <1>2, <1>3, DenyActionGood
<1> QED
  BY <1>1, <1>2, <1>3, <1>4, <1>5, CommandKeeps

LEMMA ReplNewKeeps == WebIInv /\ ReplNew => WebIInv'
<1> SUFFICES ASSUME WebIInv, ReplNew PROVE WebIInv'
  OBVIOUS
<1>1. Line /\ prompts' = prompts /\ audit' = audit
  BY DEF ReplNew
<1>2. PICK r \in NewSession(host) : Shows(r, <<>>, 0)
  BY DEF ReplNew
<1>3. prompts \in Nat /\ HostOK(host, prompts)
  BY <1>1, LineFields
<1>4. Good(host, r.x, {}, prompts)
  BY <1>2, <1>3, NewSessionGood
<1>5. <<>> \in Seq(Messages) /\ 0 \in Nat
  OBVIOUS
<1> QED
  BY <1>1, <1>2, <1>4, <1>5, CommandKeeps

LEMMA ReplResumeKeeps == WebIInv /\ ReplResume => WebIInv'
<1> SUFFICES ASSUME WebIInv, ReplResume PROVE WebIInv'
  OBVIOUS
<1>1. Line /\ prompts' = prompts /\ audit' = audit
  BY DEF ReplResume
<1>2. PICK id \in 1..run.sessions : \E r \in activate_web_session(host, id) :
        Shows(r, IF r.out = "ok" THEN trim_history(Stored(r.x.d, id)) ELSE web.history, 0)
  BY DEF ReplResume
<1>3. PICK r \in activate_web_session(host, id) :
        Shows(r, IF r.out = "ok" THEN trim_history(Stored(r.x.d, id)) ELSE web.history, 0)
  BY <1>2
<1>4. prompts \in Nat /\ HostOK(host, prompts) /\ web.history \in Seq(Messages) /\ run \in Starts
  BY <1>1, LineFields
<1>5. id \in Nat
  BY <1>4, StartFields
<1>6. Good(host, r.x, {}, prompts) /\ (r.out = "ok" => id \in DOMAIN r.x.d.sessions)
  BY <1>3, <1>4, <1>5, ActivateGood
<1> DEFINE h == IF r.out = "ok" THEN trim_history(Stored(r.x.d, id)) ELSE web.history
<1>7. h \in Seq(Messages)
  <2>1. CASE r.out = "ok"
    <3>1. r.x \in Hosts
      BY <1>6 DEF Good, HostOK
    <3>2. Stored(r.x.d, id) \in Seq(Messages)
      BY <1>6, <2>1, <3>1, StoredTyped
    <3> QED
      BY <2>1, <3>2, TrimTyped
  <2>2. CASE r.out # "ok"
    BY <1>4, <2>2
  <2> QED
    BY <2>1, <2>2
<1>8. Shows(r, h, 0) /\ 0 \in Nat
  BY <1>3
<1> HIDE DEF h
<1> QED
  BY <1>1, <1>6, <1>7, <1>8, CommandKeeps

LEMMA ReplInspectKeeps == WebIInv /\ ReplInspect => WebIInv'
<1> SUFFICES ASSUME WebIInv, ReplInspect PROVE WebIInv'
  OBVIOUS
<1>1. Line /\ prompts' = prompts /\ audit' = audit
  BY DEF ReplInspect
<1>2. PICK r \in review_memory(host) \cup list_sessions(host) \cup list_mailbox(host)
              \cup read_mailbox(host) : Shows(r, web.history, 0)
  BY DEF ReplInspect
<1>3. prompts \in Nat /\ HostOK(host, prompts) /\ web.history \in Seq(Messages)
  BY <1>1, LineFields
<1>4. Good(host, r.x, {}, prompts)
  BY <1>2, <1>3, InspectGood
<1>5. 0 \in Nat
  OBVIOUS
<1> QED
  BY <1>1, <1>2, <1>3, <1>4, <1>5, CommandKeeps

LEMMA ReplClearKeeps == WebIInv /\ ReplClear => WebIInv'
<1> SUFFICES ASSUME WebIInv, ReplClear PROVE WebIInv'
  OBVIOUS
<1>1. Line /\ prompts' = prompts /\ audit' = audit /\ host' = host
      /\ web' = [web EXCEPT !.history = <<>>]
  BY DEF ReplClear
<1> DEFINE r == [x |-> host, out |-> "ok"]
<1>2. prompts \in Nat /\ HostOK(host, prompts)
  BY <1>1, LineFields
<1>3. Good(host, host, {}, prompts)
  BY <1>2, GoodRefl
<1>4. r.x = host /\ r.out # "reply"
  OBVIOUS
<1> HIDE DEF r
<1>5. Shows(r, <<>>, 0)
  BY <1>1, <1>4 DEF Shows
<1>6. <<>> \in Seq(Messages) /\ 0 \in Nat /\ Good(host, r.x, {}, prompts)
  BY <1>3, <1>4
<1> QED
  BY <1>1, <1>5, <1>6, CommandKeeps

LEMMA NextKeeps == WebIInv /\ [Next]_vars => WebIInv'
<1> SUFFICES ASSUME WebIInv, [Next]_vars PROVE WebIInv'
  OBVIOUS
<1>1. CASE WebNext
  BY <1>1, WebCreateKeeps, WebHistoryKeeps, WebPromptKeeps, WebSubagentsKeeps, WebRespondKeeps,
     WebSettingsKeeps, WebPollMuxKeeps, WebPollHostKeeps DEF WebNext
<1>2. CASE ReplNext
  BY <1>2, ReplPromptKeeps, ReplQueueKeeps, ReplApproveKeeps, ReplDenyKeeps, ReplNewKeeps,
     ReplResumeKeeps, ReplInspectKeeps, ReplClearKeeps DEF ReplNext
<1>3. CASE Restart
  BY <1>3, RestartKeeps
<1>4. CASE UNCHANGED vars
  BY <1>4 DEF vars, WebIInv, World
<1> QED
  BY <1>1, <1>2, <1>3, <1>4 DEF Next

(* The invariant of the program: what both fronts keep between two         *)
(* requests or two lines (web.rs, repl.rs, session.rs).                    *)
THEOREM WebInvariant == Spec => []WebIInv
<1>1. Init => WebIInv
  BY InitHolds
<1>2. WebIInv /\ [Next]_vars => WebIInv'
  BY NextKeeps
<1> QED
  BY <1>1, <1>2, PTL DEF Spec

(***************************************************************************)
(* What it means for the user.                                             *)
(***************************************************************************)
LEMMA InvariantMeans ==
  WebIInv => AnswersReachTheirCall /\ SettingsAgree /\ StoredOnce /\ LiveStreamIsHistory
<1> SUFFICES ASSUME WebIInv
             PROVE  AnswersReachTheirCall /\ SettingsAgree /\ StoredOnce /\ LiveStreamIsHistory
  OBVIOUS
<1>1. World.x = host /\ World.web = web /\ World.gw = gateway /\ World.set = settings
      /\ World.audit = audit
  BY DEF World
<1>2. HostOK(World.x, prompts) /\ Asked(World) /\ Agreed(World)
  BY DEF WebIInv, WorldOK, CoreOK, LineOK
<1>3. WebApprovalIsCurrent
  BY <1>1 DEF WebIInv, WorldOK, CoreOK, LineOK, Current, WebApprovalIsCurrent
<1>4. NothingRunsUnasked
  BY <1>1, <1>2 DEF Asked, NothingRunsUnasked
<1>5. SettingsAgree
  BY <1>1, <1>2 DEF Agreed, SettingsAgree
<1>6. StoredOnce
  BY <1>1, <1>2 DEF HostOK, Once, StoredOnce
<1>7. LiveStreamIsHistory
  BY <1>1 DEF WebIInv, WorldOK, StreamAt, LiveStreamIsHistory
<1> QED
  BY <1>3, <1>4, <1>5, <1>6, <1>7 DEF AnswersReachTheirCall

(* An answer of the user reaches the call it was given for: the approval   *)
(* the Web host announced is the one the session waits for, and a tool     *)
(* that needs the user never runs on an answer that was given for another  *)
(* call, whatever is lost, switched, restarted or answered twice in        *)
(* between (respond, approve_pending_model_tool, resolve_spine_approval).  *)
THEOREM AnswersAreSafe == Spec => []AnswersReachTheirCall
BY WebInvariant, InvariantMeans, PTL

(* The settings document, the session's copy of it and the plugins that    *)
(* run agree after every write, also after one that failed half way        *)
(* (rebuild_after_settings_change, settings_apply_failure).                *)
THEOREM SettingsStayTogether == Spec => []SettingsAgree
BY WebInvariant, InvariantMeans, PTL

(* A turn reaches the storage plugin at most once, and after every turn    *)
(* that was asked before it (persist_turn, in both engines).               *)
THEOREM TurnsAreStoredOnce == Spec => []StoredOnce
BY WebInvariant, InvariantMeans, PTL

(* Unless a queue was full, the events that were sent one after the other  *)
(* are those of the history, also across approvals, failed turns and       *)
(* switches of the session (publish_turn_events, session_event_values).    *)
THEOREM LiveStreamMatches == Spec => []LiveStreamIsHistory
BY WebInvariant, InvariantMeans, PTL

LEMMA OneEvent ==
  ASSUME NEW e
  PROVE  SubSeq(<<e>>, 1, 1) = <<e>> /\ <<>> \o <<e>> = <<e>>
<1> DEFINE s == <<e>>
<1>1. s \in Seq({e}) /\ Len(s) = 1
  OBVIOUS
<1> HIDE DEF s
<1>2. SubSeq(s, 1, 1) \in Seq({e}) /\ Len(SubSeq(s, 1, 1)) = 1 /\ SubSeq(s, 1, 1)[1] = s[1]
  BY <1>1
<1>3. SubSeq(s, 1, 1) = s
  BY <1>1, <1>2, SeqEqual
<1>4. <<>> \o s = s
  BY <1>1
<1> QED
  BY <1>3, <1>4 DEF s

(* What announces the approval again when the mux queue is empty.          *)
LEMMA AnnouncesAgain ==
  ASSUME NEW w, NEW last, WorldOK(w, last), w.ok = TRUE, w.gw.mux = <<>>,
         w.web.pending # NoPending
  PROVE  [n |-> w.web.pending.n, call |-> w.web.pending.call] \in ShownBy(Announce(w).gw.mux)
<1> DEFINE p == w.web.pending
           e == [kind |-> "approval", n |-> p.n, call |-> p.call]
           z == Announce(w)
           room == MAX_PENDING_EVENTS - Len(w.gw.mux)
           fit == IF Len(<<e>>) <= room THEN Len(<<e>>) ELSE room
<1>1. pending_approval(w.x.c) # NoCall /\ w \in Worlds /\ w.gw \in Gateways
  BY WorldFields DEF WorldOK, CoreOK, Current
<1>2. z = publish_pending_approval(w, p.session)
  BY DEF Announce
<1>3. publish_pending_approval(w, p.session) = publish(w, "mux", <<e>>)
  BY <1>1, Zenon DEF publish_pending_approval
<1>4. fit = 1
  BY CapacityAssumption
<1> DEFINE q == w.gw.mux \o SubSeq(<<e>>, 1, fit)
           refused == w.gw.refused \/ fit < Len(<<e>>)
           ok == fit = Len(<<e>>)
           y == publish(w, "mux", <<e>>)
<1>5. y = [w EXCEPT !.gw.mux = q, !.ok = ok, !.gw.refused = refused]
  BY Zenon DEF publish
<1>6. q = <<e>>
  <2> HIDE DEF e
  <2>1. SubSeq(<<e>>, 1, 1) = <<e>> /\ <<>> \o <<e>> = <<e>>
    BY OneEvent
  <2> QED
    BY <1>4, <2>1
<1>7. z.gw.mux = <<e>>
  <2>1. DOMAIN w = {"x", "web", "gw", "set", "audit", "ok"}
        /\ DOMAIN w.gw = {"mux", "host", "refused"}
    BY <1>1 DEF Worlds, Gateways
  <2> HIDE DEF q, refused, ok, y
  <2>2. y.gw.mux = q
    BY <1>5, <2>1
  <2>3. z = y
    BY <1>2, <1>3 DEF y
  <2> HIDE DEF z
  <2> QED
    BY <1>6, <2>2, <2>3
<1>8. 1 \in DOMAIN <<e>> /\ <<e>>[1] = e
  OBVIOUS
<1>9. e.kind = "approval" /\ e.n = p.n /\ e.call = p.call
  OBVIOUS
<1> HIDE DEF e, z
<1> QED
  BY <1>7, <1>8, <1>9 DEF ShownBy, z

(* A client that polls an empty stream while an approval waits is shown    *)
(* that approval, even if its first announcement was lost on the way       *)
(* (take_events of the mux channel announces it again).                    *)
THEOREM PollShowsWaiting == Spec => PollAnnounces
<1>1. WebIInv /\ [Next]_vars =>
        [PollMux(TRUE) /\ gateway.mux = <<>> /\ web.pending # NoPending
           => [n |-> web.pending.n, call |-> web.pending.call] \in audit'.shown]_vars
  <2> SUFFICES ASSUME WebIInv, PollMux(TRUE), gateway.mux = <<>>, web.pending # NoPending
               PROVE  [n |-> web.pending.n, call |-> web.pending.call] \in audit'.shown
    OBVIOUS
  <2>1. run.front = "web"
    BY DEF PollMux, Request
  <2>2. PICK w \in Refreshed :
          Becomes({take_events(Announce(w), "mux", Len(Announce(w).gw.mux), TRUE)})
    BY DEF PollMux
  <2>3. prompts \in Nat /\ WorldOK(w, prompts) /\ w.web = web /\ w.gw = gateway /\ w.ok = TRUE
    BY <2>1, RefreshedGood
  <2> DEFINE a == Announce(w)
             z == take_events(a, "mux", Len(a.gw.mux), TRUE)
             shown == [n |-> web.pending.n, call |-> web.pending.call]
  <2>4. shown \in ShownBy(a.gw.mux)
    BY <2>3, AnnouncesAgain
  <2>5. WorldOK(a, prompts)
    BY <2>3, AnnounceGood
  <2> HIDE DEF a, shown
  <2>6. ShownBy(a.gw.mux) \subseteq z.audit.shown
    BY <2>3, <2>5, TakeMuxGood
  <2>7. audit' = z.audit
    BY <2>2 DEF Becomes, a
  <2> QED
    BY <2>4, <2>6, <2>7 DEF shown
<1> QED
  BY <1>1, WebInvariant, PTL DEF Spec, PollAnnounces
=============================================================================
