------------------------------- MODULE Weixin -------------------------------
(***************************************************************************)
(* The Weixin channel: the delivery status that travels with a message,    *)
(* with the calls a Host makes on it, and the plugin that stores messages  *)
(* under their idempotency key.  channel.kind tells the process-isolated   *)
(* plugin from the JSON-lines loopback, which has no capacity.             *)
(*                                                                         *)
(* A call that may be refused is the set of its results: {} is a refusal.  *)
(* An optional value is a set of at most one element, a text is its length *)
(* and whether it has a control character.  Identifiers are model values.  *)
(***************************************************************************)
EXTENDS Naturals, Sequences, FiniteSets

CONSTANTS
  WeixinKeys,            \* idempotency keys
  WeixinContents,        \* contents of the messages that are sent
  WireStatuses,          \* statuses a peer writes itself
  MAX_RETRY_ATTEMPTS, MAX_BUFFER_CAPACITY_BYTES, MAX_MESSAGE_TEXT_BYTES,
  MAX_FILE_NAME_BYTES,
  MAX_MEDIA_ITEMS, MAX_MEDIA_METADATA_BYTES, MAX_DIMENSION,
  MAX_STORED_MESSAGES,
  MaxWeixinCalls         \* bound on the calls

DeliveryStates ==
  [state : {"Queued", "InFlight", "Accepted", "Delivered", "Failed", "Cancelled"},
   ack : {"Pending", "Acknowledged", "Rejected"}, ackReason : SUBSET {"reason"},
   attempt : Nat, max : Nat,
   cancellation : {"Active", "Requested", "Cancelled"}, cancelReason : SUBSET {"reason"},
   backpressure : {"Ready", "Paused", "Draining", "Closed"}, buffered : Nat, capacity : Nat]

(* A retry is allowed, a buffer has room, and a peer writes a status of    *)
(* the protocol's type: the decoder takes no other.                        *)
ASSUME WeixinAssumption ==
  /\ MAX_RETRY_ATTEMPTS \in Nat \ {0}
  /\ MAX_BUFFER_CAPACITY_BYTES \in Nat \ {0}
  /\ WireStatuses \subseteq DeliveryStates

VARIABLES
  delivery,       \* the status a Host drives
  channel,       \* [kind, messages]: key -> message, with the stored status
  told,          \* history: the answers, one per message that was answered
  weixinCalls

weixinVars == <<delivery, channel, told, weixinCalls>>

When(ok, s) == IF ok THEN {s} ELSE {}

----------------------------------------------------------------------------
(* DeliveryStatus                                                          *)
DeliveryBase(state) ==
  [state |-> state, ack |-> "Pending", ackReason |-> {}, attempt |-> 0,
   max |-> MAX_RETRY_ATTEMPTS, cancellation |-> "Active", cancelReason |-> {},
   backpressure |-> "Ready", buffered |-> 0, capacity |-> MAX_BUFFER_CAPACITY_BYTES]

NewInbound == DeliveryBase("Accepted")
NewOutbound == DeliveryBase("Queued")

RetryValid(s) == s.max \in 1..MAX_RETRY_ATTEMPTS /\ s.attempt <= s.max

DeliveryValid(s) ==
  /\ RetryValid(s)
  /\ s.capacity \in 1..MAX_BUFFER_CAPACITY_BYTES /\ s.buffered <= s.capacity
  /\ s.ack = "Rejected" <=> s.ackReason # {}
  /\ s.cancellation = "Active" <=> s.cancelReason = {}
  /\ s.state = "Cancelled" <=> s.cancellation = "Cancelled"
  /\ s.ack = "Rejected" => s.state = "Failed"

Acknowledge(s) == When(s.ack = "Pending", [s EXCEPT !.ack = "Acknowledged", !.ackReason = {}])

Reject(s) == When(s.ack = "Pending",
  [s EXCEPT !.ack = "Rejected", !.ackReason = {"reason"}, !.state = "Failed"])

MarkInFlight(s) == When(s.state = "Queued" /\ s.attempt < s.max,
  [s EXCEPT !.attempt = @ + 1, !.state = "InFlight"])

MarkAccepted(s) == When(s.state = "InFlight", [s EXCEPT !.state = "Accepted"])

MarkDelivered(s) == When(s.state \in {"Accepted", "InFlight"}, [s EXCEPT !.state = "Delivered"])

MarkFailed(s) == When(s.state \notin {"Delivered", "Cancelled"}, [s EXCEPT !.state = "Failed"])

\* Mutation: a retry begins to count anew.
ScheduleRetryFreely(s) == When(s.state = "Failed", [s EXCEPT !.state = "Queued", !.attempt = 0])

ScheduleRetry(s) == When(s.state = "Failed" /\ s.attempt < s.max, [s EXCEPT !.state = "Queued"])

RequestCancel(s) == When(s.cancellation # "Cancelled",
  [s EXCEPT !.cancellation = "Requested", !.cancelReason = {"reason"}])

MarkCancelled(s) ==
  IF s.cancellation = "Cancelled" THEN {s}
  ELSE When(s.cancellation = "Requested",
         [s EXCEPT !.cancellation = "Cancelled", !.state = "Cancelled"])

Cancelled(s) == UNION {MarkCancelled(t) : t \in RequestCancel(s)}

Pause(s) == When(s.backpressure \in {"Ready", "Paused"}, [s EXCEPT !.backpressure = "Paused"])
Resume(s) == When(s.backpressure \in {"Ready", "Paused"}, [s EXCEPT !.backpressure = "Ready"])
StartDraining(s) == When(s.backpressure # "Closed", [s EXCEPT !.backpressure = "Draining"])
CloseDelivery(s) == {[s EXCEPT !.backpressure = "Closed"]}

SetBuffered(s, n) == When(n <= s.capacity,
  [s EXCEPT !.buffered = n,
            !.backpressure = IF n = 0 /\ @ = "Draining" THEN "Ready" ELSE @])

----------------------------------------------------------------------------
(* Messages                                                                *)
TextValid(text, maximum) == text.size \in 1..maximum /\ ~text.control

DimensionValid(d) == \A n \in d : n \in 1..MAX_DIMENSION

MediaValid(m) ==
  /\ m.mime
  /\ \A name \in m.name : TextValid(name, MAX_FILE_NAME_BYTES) /\ ~name.path
  /\ ~m.oversized
  /\ DimensionValid(m.width) /\ DimensionValid(m.height)
  /\ m.width = {} <=> m.height = {}

MetadataSize[sizes \in Seq(Nat)] ==
  IF sizes = <<>> THEN 0 ELSE Head(sizes) + MetadataSize[Tail(sizes)]

ContentValid(c) ==
  /\ c.text # {} \/ c.media # <<>>
  /\ \A text \in c.text : TextValid(text, MAX_MESSAGE_TEXT_BYTES)
  /\ Len(c.media) <= MAX_MEDIA_ITEMS
  /\ MetadataSize[[i \in DOMAIN c.media |-> c.media[i].size]] <= MAX_MEDIA_METADATA_BYTES
  /\ \A i \in DOMAIN c.media : MediaValid(c.media[i])

EnvelopeValid(m) == ContentValid(m.content) /\ DeliveryValid(m.delivery)

Identity(m) == [key |-> m.key, content |-> m.content, direction |-> m.direction]

WeixinInit ==
  /\ delivery \in {NewInbound, NewOutbound}
  /\ channel \in [kind : {"plugin", "loopback"}, messages : {<<>>}]
  /\ told = {}
  /\ weixinCalls = 0

WeixinCall == weixinCalls < MaxWeixinCalls /\ weixinCalls' = weixinCalls + 1

\* The Host calls the status it holds; the message that is sent first is the
\* one that is driven, what is sent later carries a new status or a peer's.
Drive(results) ==
  /\ weixinCalls = 0
  /\ \E s \in results : delivery' = s
  /\ UNCHANGED <<channel, told, weixinCalls>>

----------------------------------------------------------------------------
(* ChannelRuntime: a message that cannot be decoded, or has the wrong      *)
(* direction, is answered with invalid_request.                            *)
Full == channel.kind = "plugin" /\ Cardinality(DOMAIN channel.messages) >= MAX_STORED_MESSAGES

RegisterMessage(m, direction) ==
  LET stored == channel.messages IN
  /\ WeixinCall
  /\ IF ~EnvelopeValid(m) \/ m.direction # direction THEN UNCHANGED <<channel, told>>
     ELSE IF m.key \in DOMAIN stored
     THEN /\ told' = IF Identity(stored[m.key]) = Identity(m)
                     THEN told \cup {[asked |-> Identity(m), stored |-> Identity(stored[m.key])]}
                     ELSE told
          /\ UNCHANGED channel
     ELSE IF Full THEN UNCHANGED <<channel, told>>
     ELSE /\ channel' = [channel EXCEPT !.messages =
               [key \in DOMAIN stored \cup {m.key} |-> IF key = m.key THEN m ELSE stored[key]]]
          /\ told' = told \cup {[asked |-> Identity(m), stored |-> Identity(m)]}
  /\ delivery' = NewOutbound

\* The changed copy is built anew, which checks it.
Adopt(m, s) == When(EnvelopeValid([m EXCEPT !.delivery = s]), [m EXCEPT !.delivery = s])

ChannelCalls == {"acknowledge", "cancel", "fail"}
Outcomes(call, s) == CASE call = "acknowledge" -> Acknowledge(s)
                       [] call = "cancel" -> Cancelled(s)
                       [] call = "fail" -> MarkFailed(s)

Mutate(key, call) ==
  /\ WeixinCall
  /\ channel' = IF key \notin DOMAIN channel.messages THEN channel
       ELSE LET m == channel.messages[key]
                changed == UNION {Adopt(m, s) : s \in Outcomes(call, m.delivery)}
            IN IF changed = {} THEN channel
               ELSE [channel EXCEPT !.messages[key] = CHOOSE n \in changed : TRUE]
  /\ UNCHANGED <<delivery, told>>

\* The plugin process is started again: nothing is stored.
RestartChannel ==
  /\ channel.messages # <<>>
  /\ WeixinCall
  /\ channel' = [channel EXCEPT !.messages = <<>>]
  /\ told' = {}
  /\ UNCHANGED delivery

WeixinMessage(key, content, direction, s) ==
  [key |-> key, content |-> content, direction |-> direction, delivery |-> s]

WeixinNext ==
  \/ Drive(Acknowledge(delivery)) \/ Drive(Reject(delivery))
  \/ Drive(MarkInFlight(delivery)) \/ Drive(MarkAccepted(delivery))
  \/ Drive(MarkDelivered(delivery)) \/ Drive(MarkFailed(delivery))
  \/ Drive(ScheduleRetry(delivery))
  \/ Drive(RequestCancel(delivery)) \/ Drive(MarkCancelled(delivery))
  \/ Drive(Pause(delivery)) \/ Drive(Resume(delivery))
  \/ Drive(StartDraining(delivery)) \/ Drive(CloseDelivery(delivery))
  \/ \E n \in 0..(MAX_BUFFER_CAPACITY_BYTES + 1) : Drive(SetBuffered(delivery, n))
  \/ \E key \in WeixinKeys, c \in WeixinContents, d, direction \in {"Inbound", "Outbound"} :
       \E s \in WireStatuses \cup {delivery} : RegisterMessage(WeixinMessage(key, c, d, s), direction)
  \/ \E key \in WeixinKeys, call \in ChannelCalls : Mutate(key, call)
  \/ RestartChannel

----------------------------------------------------------------------------
(* Legal calls keep a delivery legal: whatever a Host calls, in any order, *)
(* the status passes its own check unless it was rejected (a rejection is  *)
(* not undone by a retry, nor a cancellation by a rejection: such a status *)
(* no peer decodes any more); and everything the plugin stores passes.     *)
DeliveryStaysLegal ==
  /\ DeliveryValid(delivery) \/ delivery.ack = "Rejected"
  /\ \A key \in DOMAIN channel.messages : EnvelopeValid(channel.messages[key])
  /\ \A a, b \in told : a.asked.key = b.asked.key => a.stored = b.stored

(* What was decided stays: no step gives an attempt back, revises an       *)
(* acknowledgement, undoes a cancellation that both sides recorded, or     *)
(* changes what a key stands for while the plugin runs.                    *)
Decided(old, new) ==
  /\ new.attempt >= old.attempt
  /\ old.ack # "Pending" => new.ack = old.ack
  /\ old.state = "Cancelled" /\ old.ack # "Pending" => new.state = "Cancelled"
  /\ old.backpressure = "Closed" => new.backpressure = "Closed"

DeliveryIsDecidedOnce ==
  [][ /\ weixinCalls' = 0 => Decided(delivery, delivery')
      /\ \A key \in DOMAIN channel.messages \cap DOMAIN channel'.messages :
           /\ Decided(channel.messages[key].delivery, channel'.messages[key].delivery)
           /\ Identity(channel.messages[key]) = Identity(channel'.messages[key])
           /\ channel.messages[key].delivery.state = "Cancelled" =>
                channel'.messages[key].delivery.state = "Cancelled" ]_weixinVars

(* Both together: a delivery stays legal and what was decided stays.       *)
DeliveryIsSound == []DeliveryStaysLegal /\ DeliveryIsDecidedOnce
=============================================================================
