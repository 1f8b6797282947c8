------------------------------ MODULE ToolMcp -------------------------------
(***************************************************************************)
(* The MCP bridge, a plugin process that owns one MCP server: a child that *)
(* it talks JSON-RPC with over pipes, or an HTTP endpoint.  It handles one *)
(* invocation of the Host at a time and waits inside it for the server.    *)
(* Many errors end the process, and the Host kills it when it stops or has *)
(* lost it; the Host then starts another one (PluginHost), which begins    *)
(* with no client.  A process that ends kills its child and waits for it;  *)
(* one that is killed does neither, and its child may run on.              *)
(*                                                                         *)
(* The server is external.  It may answer any request it has seen, again   *)
(* and in any order, and send other frames at any time.  Over pipes what   *)
(* it sends waits for the next read; an HTTP response belongs to its       *)
(* request.  A frame carries the id it names and, as a history, the        *)
(* request it was computed for.                                            *)
(***************************************************************************)
EXTENDS Naturals, Sequences, FiniteSets, TLC

CONSTANTS
  McpTools,          \* the tool names the server may list
  McpSecrets,        \* the references that headers may name
  MaxMcpId,          \* bound on the JSON-RPC ids of one process
  MaxMcpFrames,      \* bound on the unread frames of the server
  MaxMcpStarts       \* bound on the processes of the bridge

ASSUME McpAssumption == {MaxMcpId, MaxMcpFrames, MaxMcpStarts} \subseteq Nat

VARIABLES
  mcpConfig,  \* [transport, headers, values]: what the environment says
  bridge,     \* the plugin process and its client
  server,     \* [children, asked, out]: the child servers that run, each
              \* named by the process of the bridge that started it; what the
              \* server was sent, what it sent and is not yet read
  killed,     \* history: the processes of the bridge that were killed
  reply       \* history: the last answer of the bridge to the Host

mcpVars == <<mcpConfig, bridge, server, killed, reply>>

NoRef == "plain"
Headers == [credential : BOOLEAN, ref : McpSecrets \cup {NoRef}]
McpEnvironments ==
  [transport : {"stdio"}, values : {{}}, headers : {{}}]
  \cup [transport : {"http"}, values : SUBSET McpSecrets,
       headers : {H \in SUBSET Headers : Cardinality(H) <= 1}]

(* McpConfig::validate of an HTTP configuration: a credential is a         *)
(* reference, and a reference has a value.  The spelling of names, of the  *)
(* endpoint and of the command, and their sizes, are left out.             *)
ValidConfig(c) ==
  c.transport = "http" =>
    \A h \in c.headers : /\ h.credential => h.ref # NoRef
                         /\ h.ref # NoRef => h.ref \in c.values

SecretReferences(c) == {h.ref : h \in c.headers} \ {NoRef}

(* A request to the server; stage says which part of the invocation op it  *)
(* is.  net and secrets are the grants it is sent under (HTTP).            *)
NoRequest == [stage |-> "none", id |-> 0, op |-> "none", tool |-> "none",
              net |-> FALSE, secrets |-> {}]
NewBridge(at, starts) ==
  [at |-> at, client |-> FALSE, net |-> FALSE, secrets |-> {}, tools |-> {}, next |-> 1,
   req |-> NoRequest, starts |-> starts]
NoPart == [stage |-> "none", id |-> 0, tool |-> "none"]
NewServer(children) == [children |-> children, asked |-> {}, out |-> <<>>]
NoReply == [op |-> "none", code |-> "none", id |-> 0, tool |-> "none", of |-> NoPart]

McpInit ==
  /\ mcpConfig \in McpEnvironments
  /\ bridge = NewBridge("down", 0)
  /\ server = NewServer({})
  /\ killed = {}
  /\ reply = NoReply

Http == mcpConfig.transport = "http"

----------------------------------------------------------------------------
(* run_mcp_plugin up to the handshake; the Host starts it again when it is *)
(* down.  With a configuration that is not valid it ends at once.          *)
BridgeStarts ==
  /\ bridge.at = "down"
  /\ bridge.starts < MaxMcpStarts
  /\ ValidConfig(mcpConfig)
  /\ bridge' = NewBridge("idle", bridge.starts + 1)
  /\ server' = NewServer(server.children)
  /\ reply' = NoReply
  /\ UNCHANGED <<mcpConfig, killed>>

(* The process ends with an error, or on Shutdown; the drop of the client  *)
(* kills the child and waits for it.                                       *)
BridgeEnds ==
  /\ bridge' = NewBridge("down", bridge.starts)
  /\ server' = NewServer(server.children \ {bridge.starts})
  /\ reply' = NoReply

(* The supervisor kills the process at any moment: no drop runs.           *)
BridgeKilled ==
  /\ bridge.at # "down"
  /\ bridge' = NewBridge("down", bridge.starts)
  /\ server' = NewServer(server.children)
  /\ killed' = killed \cup {bridge.starts}
  /\ reply' = NoReply
  /\ UNCHANGED mcpConfig

(* The Host gets an answer and the process goes on.                        *)
Replies(b, s, op, code, of) ==
  /\ bridge' = [b EXCEPT !.at = "idle", !.req = NoRequest]
  /\ server' = s
  /\ reply' = [op |-> op, code |-> code, id |-> b.req.id, tool |-> b.req.tool, of |-> of]

(* The grant checks of HttpTransport::request, in its order.               *)
Refusal(net, secrets) ==
  IF ~Http THEN "none"
  ELSE IF ~net THEN "network_denied"
  ELSE IF ~(SecretReferences(mcpConfig) \subseteq secrets) THEN "secret_denied"
  ELSE "none"

(* McpClient::request up to the wait, for a bridge b and a server s.       *)
Asks(b, s, stage, op, tool, net, secrets) ==
  LET r == [stage |-> stage, id |-> b.next, op |-> op, tool |-> tool,
            net |-> net, secrets |-> secrets]
  IN /\ b.next <= MaxMcpId
     /\ bridge' = [b EXCEPT !.at = "waiting", !.req = r, !.next = @ + 1]
     /\ server' = [s EXCEPT !.asked = @ \cup {[stage |-> stage, id |-> r.id, tool |-> tool]}]
     /\ reply' = NoReply

(* ensure_client without a client: spawn_stdio or HttpTransport::new, then *)
(* initialize.  Any error in it ends the process, a refused grant as well. *)
StartsClient(op, tool, net, secrets) ==
  IF Refusal(net, secrets) # "none" THEN BridgeEnds
  ELSE Asks([bridge EXCEPT !.net = net, !.secrets = secrets],
            NewServer(IF Http THEN server.children ELSE server.children \cup {bridge.starts}),
            "initialize", op, tool, net, secrets)

(* The invocation itself, with the client of a bridge b: a list or a       *)
(* status is answered from what the client holds.                          *)
Refresh(b, s) ==
  IF Refusal(b.net, b.secrets) # "none"
    THEN Replies(b, s, "refresh", Refusal(b.net, b.secrets), NoPart)
    ELSE Asks(b, s, "refresh", "refresh", "none", b.net, b.secrets)

CallTool(b, s, tool, net, secrets) ==
  IF tool \notin b.tools THEN Replies(b, s, "call", "unknown_tool", NoPart)
  ELSE IF Refusal(net, secrets) # "none"
    THEN Replies(b, s, "call", Refusal(net, secrets), NoPart)
  ELSE Asks(b, s, "call", "call", tool, net, secrets)

Perform(b, s, op, tool, net, secrets) ==
  CASE op = "refresh" -> Refresh(b, s)
    [] op = "call" -> CallTool(b, s, tool, net, secrets)
    [] OTHER -> Replies(b, s, op, "ok", NoPart)

(* One invocation of the Host.  A list brings the grants of discovery, a   *)
(* call those of the action; a call or a status that comes first starts    *)
(* the client without grants.                                              *)
Invoke(op, tool, net, secrets) ==
  /\ bridge.at = "idle"
  /\ IF bridge.client THEN Perform(bridge, server, op, tool, net, secrets)
     ELSE IF op \in {"list", "refresh"} THEN StartsClient(op, tool, net, secrets)
     ELSE StartsClient(op, tool, FALSE, {})
  /\ UNCHANGED <<mcpConfig, killed>>

(* Cancel: a notification about any id, in stdio without an answer; over   *)
(* HTTP its response is awaited as that of a request without an id.        *)
Cancel ==
  /\ bridge.at = "idle"
  /\ IF ~bridge.client \/ ~Http THEN Replies(bridge, server, "cancel", "ok", NoPart)
     ELSE IF Refusal(bridge.net, bridge.secrets) # "none"
       THEN Replies(bridge, server, "cancel", Refusal(bridge.net, bridge.secrets), NoPart)
     ELSE /\ bridge' = [bridge EXCEPT !.at = "waiting", !.req = [NoRequest EXCEPT
               !.stage = "notified", !.op = "cancel",
               !.net = bridge.net, !.secrets = bridge.secrets]]
          /\ reply' = NoReply
          /\ UNCHANGED server
  /\ UNCHANGED <<mcpConfig, killed>>

----------------------------------------------------------------------------
(* The server.                                                             *)
Frames ==
  {[id |-> r.id, body |-> b, of |-> r] : r \in server.asked, b \in {"result", "error"}}
  \cup [id : {0}, body : {"notice", "garbage"}, of : {NoPart}]

ServerSends(f) ==
  /\ bridge.at # "down"
  /\ bridge.starts \in server.children
  /\ Len(server.out) < MaxMcpFrames
  /\ f \in Frames
  /\ server' = [server EXCEPT !.out = Append(@, f)]
  /\ UNCHANGED <<mcpConfig, killed, bridge, reply>>

(* A child ends by itself, that of a killed process as well.               *)
ServerStops(n) ==
  /\ n \in server.children
  /\ server' = [server EXCEPT !.children = @ \ {n}]
  /\ UNCHANGED <<mcpConfig, killed, bridge, reply>>

----------------------------------------------------------------------------
(* A result is there: the next stage of the invocation.  `list` is what    *)
(* the result of tools/list names.                                         *)
AfterHandshake(b, s) ==
  LET r == b.req IN
  IF Refusal(r.net, r.secrets) # "none" THEN BridgeEnds
  ELSE Asks(b, s, "discover", r.op, r.tool, r.net, r.secrets)

Succeeds(f, list, s) ==
  LET r == bridge.req
      listed == [bridge EXCEPT !.tools = list, !.client = TRUE]
  IN CASE r.stage = "initialize" /\ Http ->  \* the notification is a request of its own
            /\ bridge' = [bridge EXCEPT !.req.stage = "notified", !.req.id = 0]
            /\ server' = s
            /\ reply' = NoReply
       [] r.stage = "initialize" /\ ~Http -> AfterHandshake(bridge, s)
       [] r.stage = "discover" -> Perform(listed, s, r.op, r.tool, r.net, r.secrets)
       [] r.stage = "refresh" -> Replies(listed, s, "refresh", "ok", f.of)
       [] r.stage = "call" -> Replies(bridge, s, "call", "ok", f.of)

(* An error of the server ends a process that is still starting its client *)
(* and is a failure of the invocation otherwise.                           *)
Remote(code, s) ==
  IF bridge.client THEN Replies(bridge, s, bridge.req.op, code, NoPart) ELSE BridgeEnds

\* Mutation: the id of a response is not compared.
AcceptAny(f, list, s) ==
  IF f.body \in {"garbage", "notice"} THEN BridgeEnds
  ELSE IF f.body = "error" THEN Remote("mcp_remote_error", s)
  ELSE Succeeds(f, list, s)

(* validate_response and the check of the result's shape ("garbage").      *)
Accept(f, list, s) ==
  IF f.body \in {"garbage", "notice"} \/ f.id # bridge.req.id THEN BridgeEnds
  ELSE IF f.body = "error" THEN Remote("mcp_remote_error", s)
  ELSE Succeeds(f, list, s)

(* receive_response: notifications are skipped; the end of the server's    *)
(* output, a frame that is too long or not JSON, or the deadline is fatal. *)
Receive(list) ==
  /\ ~Http
  /\ bridge.at = "waiting"
  /\ IF server.out # <<>>
       THEN LET f == Head(server.out)
                s == [server EXCEPT !.out = Tail(@)]
            IN IF f.body = "notice" THEN server' = s /\ UNCHANGED <<bridge, reply>>
               ELSE Accept(f, list, s)
       ELSE bridge.starts \notin server.children /\ BridgeEnds
  /\ UNCHANGED <<mcpConfig, killed>>

(* HttpTransport::request and parse_response: the response, JSON or the    *)
(* first event of a stream.  The session id that comes with it is sent     *)
(* from then on and changes nothing else.                                  *)
HttpAnswer(f, list) ==
  /\ Http
  /\ bridge.at = "waiting"
  /\ f \in Frames
  /\ IF bridge.req.stage # "notified" THEN Accept(f, list, server)
     ELSE IF bridge.client THEN Replies(bridge, server, "cancel", "ok", NoPart)
     ELSE AfterHandshake(bridge, server)
  /\ UNCHANGED <<mcpConfig, killed>>

(* A status that is no success, or a session id that is not valid.         *)
HttpFailure ==
  /\ Http
  /\ bridge.at = "waiting"
  /\ Remote("mcp_http_error", server)
  /\ UNCHANGED <<mcpConfig, killed>>

(* A time-out, a transport error, an answer that is too large, or 202 to a *)
(* request; after a time-out the server is told, best effort.              *)
Fatal ==
  /\ bridge.at = "waiting"
  /\ BridgeEnds
  /\ UNCHANGED <<mcpConfig, killed>>

(* An operation that the bridge does not know is refused; a payload that   *)
(* cannot be decoded, or Shutdown, ends it.                                *)
Unsupported ==
  /\ bridge.at = "idle"
  /\ Replies(bridge, server, "other", "unsupported_operation", NoPart)
  /\ UNCHANGED <<mcpConfig, killed>>

BridgeShutdown ==
  /\ bridge.at = "idle"
  /\ BridgeEnds
  /\ UNCHANGED <<mcpConfig, killed>>

McpNext ==
  \/ BridgeStarts \/ Cancel \/ Unsupported \/ BridgeShutdown
  \/ \E op \in {"list", "refresh", "call", "status"}, tool \in McpTools,
        net \in BOOLEAN, secrets \in SUBSET McpSecrets : Invoke(op, tool, net, secrets)
  \/ \E f \in Frames : ServerSends(f)
  \/ \E list \in SUBSET McpTools : Receive(list)
  \/ \E f \in Frames, list \in SUBSET McpTools : HttpAnswer(f, list)
  \/ \E n \in server.children : ServerStops(n)
  \/ HttpFailure \/ Fatal \/ BridgeKilled

----------------------------------------------------------------------------
(* receive_response, HttpTransport::request and the drop of McpClient: the *)
(* answer the Host gets for a call was computed for that very call,        *)
(* whatever else the server has sent before, twice, or late, and whichever *)
(* processes and children there were before; nothing is sent to an HTTP    *)
(* server but under grants for its endpoint and for every secret that the  *)
(* headers name; and the only children that run on behind their process    *)
(* are those of processes that were killed: one that ends, for whatever    *)
(* reason, leaves none.                                                    *)
McpExchangeIsSound ==
  /\ reply.op = "call" /\ reply.code = "ok" =>
       reply.of.stage = "call" /\ reply.of.id = reply.id /\ reply.of.tool = reply.tool
  /\ bridge.at = "waiting" /\ Http =>
       bridge.req.net /\ SecretReferences(mcpConfig) \subseteq bridge.req.secrets
  /\ \A n \in server.children \ killed : n = bridge.starts /\ bridge.at # "down"
=============================================================================
