------------------------------ MODULE WebHost ------------------------------
(***************************************************************************)
(* The two fronts of a chat session: the terminal (repl.rs) and the Web    *)
(* host (web.rs) behind the HTTP carrier and the bounded event queues of   *)
(* the gateway (http.rs, events.rs, dispatch.rs).                          *)
(*                                                                         *)
(* The carrier serves one connection after the other, so a request is one  *)
(* step.  A handler works on a world w of the host x, the Web state, the   *)
(* gateway's queues, the settings and the history variables; w.ok says     *)
(* that no publish has failed yet, because a publish that fails leaves the *)
(* handler in the middle.                                                  *)
(***************************************************************************)
EXTENDS ChatSession

CONSTANTS
  Starts,              \* how the program may be started: the front, the engine, the
                       \* switches, the switches a client may choose instead, and
                       \* two bounds: sessions in storage, times it is started
  MaxPrompts,          \* bound: prompts of the user
  MAX_PENDING_EVENTS,  \* capacity of each event queue
  MAX_HISTORY_MESSAGES \* messages the terminal keeps

ASSUME StartsAssumption ==
  Starts \subseteq [front : {"web", "repl"}, engine : {"spine", "legacy"},
                    switches : SUBSET STRING, choices : SUBSET (SUBSET STRING),
                    sessions : Nat, starts : Nat]
ASSUME CapacityAssumption ==
  MaxPrompts \in Nat /\ MAX_PENDING_EVENTS \in Nat \ {0} /\ MAX_HISTORY_MESSAGES \in Nat

VARIABLES
  run,        \* the member of Starts
  starts,     \* how often the program was started
  prompts,    \* prompts sent so far
  host,       \* the ChatSession and what outlives it
  web,        \* history, session, pending approval, next number
  gateway,    \* the two queues
  settings,   \* the settings document on disk and the session's copy of it
  audit       \* history variables: what the client was shown, allowed, streamed

vars == <<run, starts, prompts, host, web, gateway, settings, audit>>

NoPending == [n |-> 0, session |-> 0, call |-> NoCall]
Message(role, p) == [role |-> role, p |-> p]
NoMessage == Message("none", 0)

World == [x |-> host, web |-> web, gw |-> gateway, set |-> settings, audit |-> audit, ok |-> TRUE]

(***************************************************************************)
(* The gateway's queues.                                                   *)
(***************************************************************************)
(* publish_with_id, for a batch: what fits is queued, the first one that   *)
(* does not fit fails the handler.                                         *)
publish(w, channel, events) ==
  LET room == MAX_PENDING_EVENTS - Len(w.gw[channel])
      fit == IF Len(events) <= room THEN Len(events) ELSE room
  IN IF ~w.ok THEN w
     ELSE [w EXCEPT !.gw[channel] = @ \o SubSeq(events, 1, fit),
                    !.ok = fit = Len(events),
                    !.gw.refused = @ \/ fit < Len(events)]

Plain == [kind |-> "event", n |-> 0, call |-> NoCall]

(***************************************************************************)
(* A history as session events: six per turn, three while its reply is     *)
(* missing.  chunks(2) pairs the messages by position, not by their role.  *)
(***************************************************************************)
EventTypes == <<"turn/start", "user/message", "step/start",
                "assistant/message", "step/end", "turn/end">>

session_event_values(history) ==
  [k \in 1..(6 * (Len(history) \div 2) + 3 * (Len(history) % 2)) |->
     LET turn == (k - 1) \div 6
         type == EventTypes[((k - 1) % 6) + 1]
     IN [type |-> type, seq |-> k - 1,
         message |-> CASE type = "user/message" -> history[2 * turn + 1]
                       [] type = "assistant/message" -> history[2 * turn + 2]
                       [] OTHER -> NoMessage]]

(* Mutant: the whole turn is sent again with its reply.                    *)
MutantSendsTurnAgain(index) == 6 * (index \div 2)

first_event_seq_for_message(index) == 6 * (index \div 2) + 3 * (index % 2)

publish_turn_events(w, start) ==
  LET events == session_event_values(w.web.history)
      fresh == SubSeq(events, first_event_seq_for_message(start) + 1, Len(events))
      after == publish(w, "mux", [k \in DOMAIN fresh |-> Plain])
  IN IF w.ok THEN [after EXCEPT !.audit.streamed = @ \o fresh] ELSE after

publish_session_status(w) == publish(w, "host", <<Plain>>)

(* Mutant: the number is not used up.                                      *)
MutantReusesNumber(w, session) ==
  LET call == pending_approval(w.x.c)
      fresh == [n |-> w.web.next, session |-> session, call |-> call]
  IN IF ~w.ok \/ call = NoCall THEN w
     ELSE publish([w EXCEPT !.web.pending = fresh], "mux",
                  <<[kind |-> "approval", n |-> fresh.n, call |-> call]>>)

(* An approval is announced under a number of its own, and announced again *)
(* under the same number.                                                  *)
publish_pending_approval(w, session) ==
  LET call == pending_approval(w.x.c)
      fresh == [n |-> w.web.next, session |-> session, call |-> call]
      shown == IF w.web.pending = NoPending THEN fresh ELSE w.web.pending
      noted == IF w.web.pending = NoPending
                 THEN [w EXCEPT !.web.pending = fresh, !.web.next = @ + 1] ELSE w
  IN IF ~w.ok \/ call = NoCall THEN w
     ELSE publish(noted, "mux", <<[kind |-> "approval", n |-> shown.n, call |-> shown.call]>>)

(***************************************************************************)
(* Requests.                                                               *)
(***************************************************************************)
(* refresh, before every request: the projection asks storage for the      *)
(* sessions and the coordinator for the children of the active one.  The   *)
(* carrier and the dispatcher both do it; asking twice can lose no more.   *)
web_session_summaries(x) ==
  IF "storage" \notin x.c.caps THEN {x}
  ELSE UNION {
    IF i.r = "ok" /\ i.x.c.active # 0 THEN AskFor(i.x, "multi_agent", {"multi_agent"})
    ELSE {call_lost_route(i, {"storage"})}
    : i \in Invoke(x, "storage")}

refresh(w) == {[w EXCEPT !.x = y] : y \in web_session_summaries(w.x)}

Stored(d, id) ==
  [k \in 1..(2 * Len(d.sessions[id])) |->
     Message(IF k % 2 = 1 THEN "user" ELSE "assistant", d.sessions[id][(k + 1) \div 2])]

(* ensure_web_session: a session other than the current one is loaded and  *)
(* becomes the current one.                                                *)
ensure_web_session(w, id) ==
  IF w.web.session = id THEN {[w |-> w, done |-> TRUE]}
  ELSE {IF r.out = "ok"
          THEN [w |-> [w EXCEPT !.x = r.x,
                                !.web = [@ EXCEPT !.history = Stored(r.x.d, id),
                                                  !.session = id, !.pending = NoPending],
                                !.audit.streamed = session_event_values(Stored(r.x.d, id))],
                done |-> TRUE]
          ELSE [w |-> [w EXCEPT !.x = r.x], done |-> FALSE]
        : r \in activate_web_session(w.x, id)}

dispatch_session_create(w) ==
  IF w.web.pending # NoPending THEN {w}
  ELSE {IF r.out # "ok" THEN [w EXCEPT !.x = r.x]
        ELSE publish(publish([w EXCEPT !.x = r.x,
                                       !.web = [@ EXCEPT !.history = <<>>, !.session = r.x.c.active,
                                                         !.pending = NoPending],
                                       !.audit.streamed = <<>>],
                             "host", <<Plain>>), "mux", <<Plain>>)
        : r \in create_web_session(w.x)}

SwitchesAway(w, id) == w.web.pending # NoPending /\ w.web.session # id

dispatch_session_history(w, id) ==
  IF SwitchesAway(w, id) THEN {w}
  ELSE {e.w : e \in ensure_web_session(w, id)}

(* The turn has run; the reply, the approval or the error is reported.     *)
PromptAnswered(w, r, before, prompt) ==
  LET ran == publish_session_status([w EXCEPT !.x = r.x])
      replied == [ran EXCEPT !.web.history = Append(@, Message("assistant", prompt))]
  IN IF ~ran.ok THEN ran
     ELSE IF r.out = "reply" THEN publish_turn_events(replied, before)
     ELSE IF pending_approval(r.x.c) # NoCall
       THEN publish_pending_approval(publish_turn_events(ran, before), ran.web.session)
     ELSE [ran EXCEPT !.web.history = SubSeq(@, 1, before)]

SubmitPrompt(w, prompt) ==
  LET sent == publish_session_status(
                [w EXCEPT !.web.history = Append(@, Message("user", prompt))])
  IN IF ~sent.ok THEN {sent}
     ELSE {PromptAnswered(sent, r, Len(w.web.history), prompt) : r \in complete(sent.x, prompt)}

dispatch_session_prompt(w, id, prompt) ==
  IF SwitchesAway(w, id) THEN {w}
  ELSE UNION {IF e.done /\ e.w.web.pending = NoPending THEN SubmitPrompt(e.w, prompt) ELSE {e.w}
              : e \in ensure_web_session(w, id)}

(* Children of the session: the list, and for the history of one of them a *)
(* second call.                                                            *)
subagent_context(w) ==
  IF "multi_agent" \notin w.x.c.caps \/ w.web.session = 0 THEN {w}
  ELSE UNION {{[w EXCEPT !.x = z] : z \in AskFor(y, "multi_agent", {"multi_agent"})}
              : y \in AskFor(w.x, "multi_agent", {"multi_agent"})}

(* The client answers with the number and the call it was shown; an answer *)
(* that does not name the pending approval changes nothing.                *)
Resolved(w, r, prompt) ==
  LET told == publish([w EXCEPT !.x = r.x], "mux", <<Plain>>)
      start == Len(w.web.history)
      replied == IF r.out = "reply"
                   THEN publish_turn_events([told EXCEPT !.web.history =
                                               Append(@, Message("assistant", prompt))], start)
                   ELSE told
  IN IF ~told.ok THEN told
     ELSE IF r.out = "error" THEN publish(told, "mux", <<Plain>>)
     ELSE publish_pending_approval(replied, w.web.session)

respond(w, answer, allow) ==
  IF w.web.pending = NoPending \/ w.web.pending.n # answer.n THEN {w}
  ELSE LET taken == [w EXCEPT !.web.pending = NoPending,
                              !.audit.allowed = IF allow THEN @ \cup {answer.call} ELSE @]
           prompt == IF has_spine_pending_approval(w.x.c) THEN w.x.c.spine.prompt
                     ELSE w.x.c.continuation.prompt
       IN {Resolved(taken, r, prompt)
           : r \in IF allow THEN approve_pending_model_tool(taken.x)
                   ELSE deny_pending_model_tool(taken.x)}

(* take_events: an empty mux queue announces the pending approval again.   *)
(* The answer takes the oldest events, as many as its size allows.         *)
Announce(w) ==
  IF w.gw.mux = <<>> /\ w.web.pending # NoPending
    THEN publish_pending_approval(w, w.web.pending.session) ELSE w

take_events(w, channel, n, received) ==
  LET taken == SubSeq(w.gw[channel], 1, n)
  IN [w EXCEPT !.gw[channel] = SubSeq(@, n + 1, Len(@)),
               !.audit.shown = IF received THEN @ \cup {[n |-> taken[k].n, call |-> taken[k].call]
                                   : k \in {k \in DOMAIN taken : taken[k].kind = "approval"}}
                               ELSE @]

(***************************************************************************)
(* Settings: the document is written, a whole new session is launched from *)
(* it and takes over; when that fails, the document and the copy of the    *)
(* running session are put back.                                           *)
(***************************************************************************)
(* Mutant: only the document is put back.                                  *)
MutantKeepsCopy(w, previous) == {[w EXCEPT !.set.file = previous.file]}

settings_apply_failure(w, previous) ==
  {[w EXCEPT !.set = [file |-> previous.file, memory |-> previous.memory, torn |-> previous.torn]],
   [w EXCEPT !.set = [file |-> @.file, memory |-> previous.memory, torn |-> TRUE]]}

rebuild_after_settings_change(w, previous) ==
  settings_apply_failure(w, previous)
  \cup UNION {
    UNION {IF r.out = "ok" THEN {publish([w EXCEPT !.x = r.x], "host", <<Plain>>)}
           ELSE settings_apply_failure([w EXCEPT !.x.d = r.x.d], previous)
           : r \in IF w.web.session = 0 THEN {[x |-> [c |-> c, d |-> w.x.d], out |-> "ok"]}
                   ELSE activate_web_session([c |-> c, d |-> w.x.d], w.web.session)}
    : c \in launch(w.set.file, w.x.c.engine)}

validate_settings_change_allowed(w) ==
  w.web.pending = NoPending /\ pending_approval(w.x.c) = NoCall

(* settings.update, .replace and .mutate: refused while an approval waits, *)
(* rejected, without effect, or written and applied.                       *)
dispatch_settings_write(w, switches) ==
  IF ~validate_settings_change_allowed(w) THEN {w}
  ELSE {w} \cup
       IF switches = w.set.memory THEN {}
       ELSE rebuild_after_settings_change(
              [w EXCEPT !.set.file = switches, !.set.memory = switches], w.set)

(***************************************************************************)
(* The steps of the Web front: one request each.                           *)
(***************************************************************************)
Becomes(worlds) ==
  \E w \in worlds : /\ host' = w.x /\ web' = w.web /\ gateway' = w.gw
                    /\ settings' = w.set /\ audit' = w.audit

Request == run.front = "web" /\ UNCHANGED <<run, starts>>
Refreshed == refresh(World)

WebCreate == /\ Request /\ UNCHANGED prompts
             /\ Becomes(UNION {dispatch_session_create(w) : w \in Refreshed})

WebHistory == /\ Request /\ UNCHANGED prompts
              /\ \E id \in 1..run.sessions :
                   Becomes(UNION {dispatch_session_history(w, id) : w \in Refreshed})

WebPrompt == /\ Request /\ prompts < MaxPrompts /\ prompts' = prompts + 1
             /\ \E id \in 1..run.sessions :
                  Becomes(UNION {dispatch_session_prompt(w, id, prompts + 1) : w \in Refreshed})

WebSubagents == /\ Request /\ UNCHANGED prompts
                /\ Becomes(UNION {subagent_context(w) : w \in Refreshed})

WebRespond == /\ Request /\ UNCHANGED prompts
              /\ \E answer \in audit.shown, allow \in BOOLEAN :
                   Becomes(UNION {respond(w, answer, allow) : w \in Refreshed})

WebSettings == /\ Request /\ UNCHANGED prompts
               /\ \E switches \in run.choices :
                    Becomes(UNION {dispatch_settings_write(w, switches) : w \in Refreshed})

(* A poll of an event stream; the answer may never reach the client.       *)
PollMux(received) ==
  /\ Request /\ UNCHANGED prompts
  /\ \E w \in Refreshed :
       LET a == Announce(w)
       IN Becomes({take_events(a, "mux", Len(a.gw.mux), received)})

WebPollMux == \E received \in BOOLEAN : PollMux(received)

WebPollHost == /\ Request /\ gateway.host # <<>> /\ UNCHANGED prompts
               /\ \E w \in Refreshed :
                    Becomes({take_events(w, "host", Len(w.gw.host), TRUE)})

(***************************************************************************)
(* The steps of the terminal: one line each.  web.history is its history.  *)
(***************************************************************************)
trim_history(history) ==
  SubSeq(history, 1 + (IF Len(history) > MAX_HISTORY_MESSAGES
                         THEN Len(history) - MAX_HISTORY_MESSAGES ELSE 0), Len(history))

Line == run.front = "repl" /\ UNCHANGED <<run, starts, gateway, settings>>

(* What a command leaves: a reply adds the turn, an approval is shown.     *)
Shows(r, history, prompt) ==
  /\ host' = r.x
  /\ web' = [web EXCEPT !.history = IF r.out = "reply"
               THEN trim_history(history \o <<Message("user", prompt), Message("assistant", prompt)>>)
               ELSE history]

Waiting(c) == IF has_spine_pending_approval(c) THEN c.spine.call ELSE c.pending.call

ReplPrompt ==
  /\ Line /\ prompts < MaxPrompts /\ prompts' = prompts + 1
  /\ \E r \in complete(host, prompts + 1) : Shows(r, web.history, prompts + 1)
  /\ UNCHANGED audit

ReplQueue ==
  /\ Line /\ prompts < MaxPrompts /\ prompts' = prompts + 1
  /\ \E kind \in {"shell", "patch"} : \E r \in queue_action(host, kind) : Shows(r, web.history, 0)
  /\ UNCHANGED audit

TurnPrompt(c) == IF has_spine_pending_approval(c) THEN c.spine.prompt ELSE c.continuation.prompt

ReplApprove ==
  /\ Line /\ UNCHANGED prompts
  /\ \E r \in approve_action(host) : Shows(r, web.history, TurnPrompt(host.c))
  /\ audit' = [audit EXCEPT !.allowed = @ \cup ({Waiting(host.c)} \ {NoCall})]

ReplDeny ==
  /\ Line /\ UNCHANGED <<prompts, audit>>
  /\ \E r \in deny_action(host) : Shows(r, web.history, TurnPrompt(host.c))

(* The commands that manage sessions, memories and letters.                *)
ReplNew == /\ Line /\ UNCHANGED <<prompts, audit>>
           /\ \E r \in NewSession(host) : Shows(r, <<>>, 0)

ReplResume ==
  /\ Line /\ UNCHANGED <<prompts, audit>>
  /\ \E id \in 1..run.sessions : \E r \in activate_web_session(host, id) :
       Shows(r, IF r.out = "ok" THEN trim_history(Stored(r.x.d, id)) ELSE web.history, 0)

ReplInspect ==
  /\ Line /\ UNCHANGED <<prompts, audit>>
  /\ \E r \in review_memory(host) \cup list_sessions(host) \cup list_mailbox(host)
              \cup read_mailbox(host) : Shows(r, web.history, 0)

ReplClear == Line /\ web' = [web EXCEPT !.history = <<>>] /\ UNCHANGED <<prompts, host, audit>>

(***************************************************************************)
(* The specification.                                                      *)
(***************************************************************************)
FreshWeb == [history |-> <<>>, session |-> 0, pending |-> NoPending, next |-> 1]
FreshGateway == [mux |-> <<>>, host |-> <<>>, refused |-> FALSE]

Init ==
  /\ prompts = 0 /\ starts = 1
  /\ run \in Starts
  /\ \E c \in launch(run.switches, run.engine) : host = [c |-> c, d |-> NoDisk(run.sessions)]
  /\ settings = [file |-> run.switches, memory |-> run.switches, torn |-> FALSE]
  /\ web = FreshWeb /\ gateway = FreshGateway
  /\ audit = [shown |-> {}, allowed |-> {}, streamed |-> <<>>]

(* The program ends, at /quit, at the shutdown token, by a crash, or       *)
(* because serve_until gives up at the I/O error of any one connection,    *)
(* and is started again on what is on disk; its client connects anew.      *)
Restart ==
  /\ starts < run.starts /\ starts' = starts + 1
  /\ \E c \in launch(settings.file, run.engine) : host' = [host EXCEPT !.c = c]
  /\ settings' = [file |-> settings.file, memory |-> settings.file, torn |-> FALSE]
  /\ web' = FreshWeb /\ gateway' = FreshGateway
  /\ audit' = [audit EXCEPT !.shown = {}, !.streamed = <<>>]
  /\ UNCHANGED <<run, prompts>>

WebNext == \/ WebCreate \/ WebHistory \/ WebPrompt \/ WebSubagents \/ WebRespond
           \/ WebSettings \/ WebPollMux \/ WebPollHost

ReplNext == \/ ReplPrompt \/ ReplQueue \/ ReplApprove \/ ReplDeny \/ ReplNew
            \/ ReplResume \/ ReplInspect \/ ReplClear

Next == WebNext \/ ReplNext \/ Restart

Spec == Init /\ [][Next]_vars

(***************************************************************************)
(* Properties.                                                             *)
(***************************************************************************)
(* The approval the Web host has announced is the one its session waits    *)
(* for, in the session the client is in: an answer can never reach a call  *)
(* of another turn or of another session.                                  *)
WebApprovalIsCurrent ==
  web.pending # NoPending => /\ web.pending.call = pending_approval(host.c)
                             /\ web.pending.session = web.session

(* A tool that needs the user runs only when the user allowed that very    *)
(* call: an answer to an earlier announcement, an answer that comes twice, *)
(* a lost route or a new session never lets another call through.          *)
NothingRunsUnasked ==
  \A call \in host.d.ran : requires_approval(call.tool) => call \in audit.allowed

(* Both together: an answer reaches the call it was given for and no other. *)
AnswersReachTheirCall == WebApprovalIsCurrent /\ NothingRunsUnasked

(* A client that polls an empty stream while an approval waits is shown    *)
(* it, even if the first announcement was lost on the way.                 *)
PollAnnounces ==
  [][PollMux(TRUE) /\ gateway.mux = <<>> /\ web.pending # NoPending
       => [n |-> web.pending.n, call |-> web.pending.call] \in audit'.shown]_vars

(* The settings document, the session's copy and the plugins that really   *)
(* run agree after every write, also after one that failed half way,       *)
(* unless putting the document back failed too.                            *)
SettingsAgree ==
  ~settings.torn => settings.file = settings.memory /\ settings.file = host.c.switches

(* A turn is stored at most once, and a session holds its turns in the     *)
(* order they were asked, whatever approvals, failures, switches and       *)
(* restarts come in between.                                               *)
StoredOnce ==
  LET stored == host.d.sessions IN
  /\ \A s \in DOMAIN stored : \A i, j \in DOMAIN stored[s] : i < j => stored[s][i] < stored[s][j]
  /\ \A s, t \in DOMAIN stored : \A i \in DOMAIN stored[s], j \in DOMAIN stored[t] :
       stored[s][i] = stored[t][j] => s = t

(* The events a client was sent live are the events it would read in the   *)
(* history: none twice, none missing, in the same order, unless a queue    *)
(* was full.                                                               *)
LiveStreamIsHistory ==
  run.front = "web" /\ ~gateway.refused /\ web.session # 0
    => audit.streamed = session_event_values(web.history)

(* The messages of a turn are sent in their roles.  The code breaks this:  *)
(* a turn that fails after an approval leaves its prompt in the history,   *)
(* and from then on the messages are paired the wrong way round.           *)
MessagesKeepTheirRoles ==
  \A k \in DOMAIN audit.streamed :
    LET e == audit.streamed[k] IN
    /\ e.type = "user/message" => e.message.role = "user"
    /\ e.type = "assistant/message" => e.message.role = "assistant"
=============================================================================
