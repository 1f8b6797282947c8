-------------------------------- MODULE Voice --------------------------------
(***************************************************************************)
(* The voice channel: the status of a stream, the checks on transcription  *)
(* and synthesis requests, and the plugin that answers each of them with   *)
(* the events of the stream.  A Host drives the status, sends it with a    *)
(* request, and the plugin answers before it takes the next one.           *)
(*                                                                         *)
(* A call that may be refused is the set of its results.  A chunk is       *)
(* [stream, sequence, format, size, last]; a format, an identifier and a   *)
(* text are model values, BadFormat and BadText those their checks refuse. *)
(***************************************************************************)
EXTENDS Naturals, Sequences, FiniteSets, TLC

CONSTANTS
  Streams, Formats, BadFormat, Texts, BadText,
  AudioChunks,             \* chunks that requests carry
  AlienStreamStatuses,     \* statuses that a peer writes itself
  MAX_AUDIO_CHUNK_BYTES, MAX_STREAM_CHUNKS, MAX_STREAM_BUFFER,
  MaxVoiceCalls            \* bound on the requests

(* What a StreamStatus of any origin is made of.                           *)
StreamStates ==
  [cancellation : {"Active", "Requested", "Cancelled"}, reason : SUBSET Texts,
   flow : {"Ready", "Paused", "Draining", "Closed"}, buffered : Nat, capacity : Nat]

ASSUME VoiceAssumption ==
  /\ MAX_STREAM_BUFFER \in Nat \ {0}
  /\ AlienStreamStatuses \subseteq StreamStates

VARIABLES
  streamStatus,     \* the status a Host drives
  voice,            \* [up, asked, answer]: the plugin and its latest exchange
  voiceCalls

voiceVars == <<streamStatus, voice, voiceCalls>>

Only(ok, s) == IF ok THEN {s} ELSE {}

----------------------------------------------------------------------------
(* StreamStatus                                                            *)
NewStream == [cancellation |-> "Active", reason |-> {}, flow |-> "Ready",
              buffered |-> 0, capacity |-> MAX_STREAM_BUFFER]

StreamValid(s) ==
  /\ s.capacity \in 1..MAX_STREAM_BUFFER /\ s.buffered <= s.capacity
  /\ s.cancellation = "Active" <=> s.reason = {}
  /\ \A r \in s.reason : r # BadText

StreamRequestCancel(s, reason) ==
  Only(s.cancellation # "Cancelled" /\ reason # BadText,
       [s EXCEPT !.cancellation = "Requested", !.reason = {reason}])

StreamMarkCancelled(s) ==
  Only(s.cancellation # "Active", [s EXCEPT !.cancellation = "Cancelled"])

StreamPause(s) == Only(s.flow \in {"Ready", "Paused"}, [s EXCEPT !.flow = "Paused"])
StreamResume(s) == Only(s.flow \in {"Ready", "Paused"}, [s EXCEPT !.flow = "Ready"])
StreamDrain(s) == Only(s.flow # "Closed", [s EXCEPT !.flow = "Draining"])
StreamClose(s) == {[s EXCEPT !.flow = "Closed"]}

StreamSetBuffered(s, n) == Only(n <= s.capacity,
  [s EXCEPT !.buffered = n, !.flow = IF n = 0 /\ @ = "Draining" THEN "Ready" ELSE @])

VoiceInit ==
  /\ streamStatus = NewStream
  /\ voice = [up |-> TRUE, asked |-> [operation |-> "none"], answer |-> <<>>]
  /\ voiceCalls = 0

DriveStream(results) ==
  /\ \E s \in results : streamStatus' = s
  /\ UNCHANGED <<voice, voiceCalls>>

----------------------------------------------------------------------------
(* Requests                                                                *)
ChunkValid(c) ==
  /\ c.format # BadFormat
  /\ c.size <= MAX_AUDIO_CHUNK_BYTES
  /\ c.size = 0 => c.last

Contiguous(stream, format, chunks) ==
  /\ Len(chunks) <= MAX_STREAM_CHUNKS
  /\ \A i \in DOMAIN chunks :
       /\ chunks[i].stream = stream
       /\ chunks[i].format = format
       /\ chunks[i].sequence = i - 1

TranscribeValid(r) ==
  /\ r.format # BadFormat
  /\ StreamValid(r.status)
  /\ r.chunks # <<>>
  /\ \A i \in DOMAIN r.chunks : ChunkValid(r.chunks[i])
  /\ Contiguous(r.stream, r.format, r.chunks)
  /\ r.complete => r.chunks[Len(r.chunks)].last

SynthesisValid(r) == r.text # BadText /\ r.format # BadFormat /\ StreamValid(r.status)

CancelValid(r) == StreamValid(r.status) /\ r.status.cancellation # "Active"

----------------------------------------------------------------------------
(* The answers.  A stream that is not active gets its final status only.   *)
StatusEvent(s) == [type |-> "status", status |-> s]
Transcript(stream, n, k) == [type |-> "transcript", stream |-> stream, sequence |-> n, kind |-> k]
Audio(r, n, last) ==
  [type |-> "audio", stream |-> r.stream, sequence |-> n, format |-> r.format, last |-> last]

\* Mutation: only a finished cancellation stops the work.
OnlyCancelled(s) == s.cancellation = "Cancelled"

Stopped(s) == s.cancellation # "Active"

Ended(s) == {<<StatusEvent(t)>> : t \in StreamMarkCancelled(s)}

Transcribe(r) ==
  IF Stopped(r.status) THEN Ended(r.status)
  ELSE {<<StatusEvent(r.status), Transcript(r.stream, 0, "Partial")>>
        \o IF r.complete THEN <<Transcript(r.stream, 1, "Final")>> ELSE <<>>}

Synthesize(r) ==
  IF Stopped(r.status) THEN Ended(r.status)
  ELSE {<<StatusEvent(r.status), Audio(r, 0, FALSE), Audio(r, 1, TRUE)>>}

CancelStream(r) == Ended(r.status)

(* handle_request: what the plugin does not support, or cannot decode, is  *)
(* answered with a failure; an error of the work itself ends the plugin.   *)
Supported(r) ==
  CASE r.operation = "transcribe" -> r.capability = "transcribe"
    [] r.operation = "synthesize" -> r.capability = "synthesize"
    [] r.operation = "cancel" -> TRUE
    [] OTHER -> FALSE

Answer(r, valid, results) ==
  /\ voice.up
  /\ voiceCalls < MaxVoiceCalls
  /\ voiceCalls' = voiceCalls + 1
  /\ IF ~Supported(r) \/ ~valid
     THEN voice' = [up |-> TRUE, asked |-> [operation |-> "refused"], answer |-> <<>>]
     ELSE \/ \E events \in results : voice' = [up |-> TRUE, asked |-> r, answer |-> events]
          \/ results = {} /\ voice' = [up |-> FALSE, asked |-> r, answer |-> <<>>]
  /\ UNCHANGED streamStatus

(* A Host sends the status it drives, or a peer another one.               *)
StreamStatuses == {streamStatus} \cup AlienStreamStatuses

AskTranscribe ==
  \E s \in StreamStatuses, stream \in Streams, format \in Formats, n \in 0..3, complete \in BOOLEAN :
    \E chunks \in [1..n -> AudioChunks], capability \in {"transcribe", "synthesize"} :
      LET r == [operation |-> "transcribe", capability |-> capability, stream |-> stream,
                format |-> format, chunks |-> chunks, complete |-> complete, status |-> s]
      IN Answer(r, TranscribeValid(r), Transcribe(r))

AskSynthesize ==
  \E s \in StreamStatuses, stream \in Streams, format \in Formats, text \in Texts :
    LET r == [operation |-> "synthesize", capability |-> "synthesize", stream |-> stream,
              format |-> format, text |-> text, status |-> s]
    IN Answer(r, SynthesisValid(r), Synthesize(r))

AskCancel ==
  \E s \in StreamStatuses, stream \in Streams :
    LET r == [operation |-> "cancel", capability |-> "transcribe", stream |-> stream, status |-> s]
    IN Answer(r, CancelValid(r), CancelStream(r))

VoiceNext ==
  \/ \E reason \in Texts : DriveStream(StreamRequestCancel(streamStatus, reason))
  \/ DriveStream(StreamMarkCancelled(streamStatus))
  \/ DriveStream(StreamPause(streamStatus)) \/ DriveStream(StreamResume(streamStatus))
  \/ DriveStream(StreamDrain(streamStatus)) \/ DriveStream(StreamClose(streamStatus))
  \/ \E n \in 0..(MAX_STREAM_BUFFER + 1) : DriveStream(StreamSetBuffered(streamStatus, n))
  \/ AskTranscribe \/ AskSynthesize \/ AskCancel

----------------------------------------------------------------------------
(* The events of an answered request number their stream without a gap,    *)
(* and no more than one of them, the last, says that the stream is at its  *)
(* end.                                                                    *)
OneStream(r, events) ==
  /\ \A i \in DOMAIN events : i > 1 => events[i].sequence = i - 2 /\ events[i].stream = r.stream
  /\ \A i \in DOMAIN events : i > 1 =>
       (events[i].type = "audio" => (events[i].last <=> i = Len(events)))
  /\ \A i \in DOMAIN events : i > 1 =>
       (events[i].type = "transcript" /\ events[i].kind = "Final" => i = Len(events))

(* A voice request is answered as it was asked: whatever status a Host     *)
(* drove or a peer wrote, no request ends the plugin; work is done for     *)
(* active streams only and a cancellation is always confirmed; audio is    *)
(* heard from its first chunk without a gap, and a final transcript stands *)
(* for a whole stream; the status a Host drives stays one that is accepted.*)
VoiceAnswersAsAsked ==
  /\ voice.up
  /\ StreamValid(streamStatus)
  /\ voice.answer # <<>> =>
       LET r == voice.asked
           head == voice.answer[1]
           work == Len(voice.answer) > 1
       IN /\ head.type = "status" /\ StreamValid(head.status)
          /\ work <=> r.status.cancellation = "Active"
          /\ ~work => head.status.cancellation = "Cancelled"
          /\ OneStream(r, voice.answer)
          /\ r.operation = "transcribe" =>
               /\ {r.chunks[i].sequence : i \in DOMAIN r.chunks} = 0..(Len(r.chunks) - 1)
               /\ (\E i \in DOMAIN voice.answer : i > 1 /\ voice.answer[i].kind = "Final")
                    => r.chunks[Len(r.chunks)].last
=============================================================================
