------------------------- MODULE TranscriptionWorker -------------------------
(***************************************************************************)
(* A transcription session of parliant-transcribe: the ChannelSession the  *)
(* pipeline thread holds and the worker thread of the Realtime adapter     *)
(* behind it, which streams audio to the provider over a WebSocket, turns  *)
(* its messages into events and reconnects within a budget.                *)
(*                                                                         *)
(* An audio frame is its timestamp.  A final carries its times and, for    *)
(* the properties only, which of them the provider gave and on which       *)
(* connection it came; texts, ids and speakers are left out.  Messages     *)
(* without effect (other event types, empty deltas, pongs) are not         *)
(* modelled.                                                               *)
(***************************************************************************)
EXTENDS Naturals, Sequences, FiniteSetsExt

CONSTANTS
  AudioCap,         (* AUDIO_QUEUE_CAPACITY                                *)
  MaxReconnects,    (* OpenAiRealtimeConfig.max_reconnects                 *)
  ProviderTimes,    (* times the provider may put on a final               *)
  NoTime,           (* a time the provider does not give                   *)
  FrameCap,         (* bound of the model: frames pushed                   *)
  MessageCap        (* bound of the model: messages with an effect         *)

ASSUME WorkerConfig ==
  /\ AudioCap \in Nat \ {0}
  /\ MaxReconnects \in Nat
  /\ ProviderTimes \subseteq Nat
  /\ NoTime \notin ProviderTimes
  /\ FrameCap \in Nat
  /\ MessageCap \in Nat

VARIABLES
  cancelled,        (* the session's cancellation token                    *)
  held,             (* the ChannelSession has not been dropped             *)
  audio,            (* the bounded channel of frames                       *)
  worker,           (* program counter of the worker thread                *)
  attempt,
  latestAudio, lastFinalEnd,
  log,              (* every event sent, in order                          *)
  received,         (* how many of them recv_event_timeout has returned    *)
  clock,            (* timestamp of the last frame offered to push_audio   *)
  connections,      (* history: connections made                           *)
  messages          (* bound of the model: messages read                   *)

sessionVars == <<cancelled, held>>
vars == <<sessionVars, audio, worker, attempt, latestAudio, lastFinalEnd, log,
          received, clock, connections, messages>>

Partial   == [kind |-> "partial"]
Failure   == [kind |-> "error"]
Health(h) == [kind |-> "health", is |-> h]

\* The worker has left run_worker and dropped its channel ends.
Gone == worker = "returned"

\* Sends to a dropped receiver are lost.
Emit(es) == log' = IF held THEN log \o es ELSE log

Goto(pc) == worker' = pc

----------------------------------------------------------------------------
Init ==
  /\ cancelled = FALSE
  /\ held = TRUE
  /\ audio = << >>
  /\ worker = "starting"
  /\ attempt = 0
  /\ latestAudio = 0
  /\ lastFinalEnd = 0
  /\ log = << >>
  /\ received = 0
  /\ clock = 0
  /\ connections = 0
  /\ messages = 0

----------------------------------------------------------------------------
(* ChannelSession, on the pipeline's thread.                               *)

\* The outcome of push_audio.
PushResult ==
  IF cancelled \/ Gone THEN "closed"
  ELSE IF Len(audio) = AudioCap THEN "full" ELSE "ok"

(* push_audio never waits: a frame that finds the queue full is refused.   *)
PushAudio(at) ==
  /\ held
  /\ clock' = at
  /\ audio' = IF PushResult = "ok" THEN Append(audio, at) ELSE audio
  /\ UNCHANGED <<sessionVars, worker, attempt, latestAudio, lastFinalEnd, log,
                 received, connections, messages>>

(* recv_event_timeout, when it returns an event.  With nothing to return   *)
(* it yields None, or SessionClosed once the worker is Gone.               *)
RecvEvent ==
  /\ held
  /\ received < Len(log)
  /\ received' = received + 1
  /\ UNCHANGED <<sessionVars, audio, worker, attempt, latestAudio,
                 lastFinalEnd, log, clock, connections, messages>>

Cancel ==
  /\ held
  /\ cancelled' = TRUE
  /\ UNCHANGED <<held, audio, worker, attempt, latestAudio, lastFinalEnd, log,
                 received, clock, connections, messages>>

\* The session is dropped, and with it its ends of both channels.
Drop ==
  /\ held
  /\ held' = FALSE
  /\ UNCHANGED <<cancelled, audio, worker, attempt, latestAudio, lastFinalEnd,
                 log, received, clock, connections, messages>>

----------------------------------------------------------------------------
(* run_worker.  Its program counter:                                       *)
(*   starting    the thread has not built its runtime                      *)
(*   top         the head of the loop, before the cancelled check          *)
(*   connecting  run_connection up to its loop                             *)
(*   connected   the loop of run_connection                                *)
(*   sending     a frame or a pong is being written to the socket          *)
(*   closing     the socket is being closed                                *)
(*   failed      run_connection has returned an error                      *)
(*   backoff     the sleep before the next attempt                         *)
(*   returned                                                              *)

Start ==
  /\ worker = "starting"
  /\ \/ Goto("top") /\ UNCHANGED log
     \/ Goto("returned") /\ Emit(<<Failure>>)
  /\ UNCHANGED <<sessionVars, audio, attempt, latestAudio, lastFinalEnd,
                 received, clock, connections, messages>>

LoopTop ==
  /\ worker = "top"
  /\ IF cancelled
     THEN Emit(<<Health("stopped")>>) /\ Goto("returned")
     ELSE /\ Emit(<<Health(IF attempt = 0 THEN "connecting"
                                          ELSE "reconnecting")>>)
          /\ Goto("connecting")
  /\ UNCHANGED <<sessionVars, audio, attempt, latestAudio, lastFinalEnd,
                 received, clock, connections, messages>>

(* The connection is made and configured, with its own idea of the times,  *)
(* or it is not.  Neither wait looks at the token.                         *)
Connect ==
  /\ worker = "connecting"
  /\ \/ /\ Goto("connected")
        /\ Emit(<<Health("healthy")>>)
        /\ latestAudio' = 0
        /\ lastFinalEnd' = 0
        /\ connections' = connections + 1
     \/ /\ Goto("failed")
        /\ UNCHANGED <<log, latestAudio, lastFinalEnd, connections>>
  /\ UNCHANGED <<sessionVars, audio, attempt, received, clock, messages>>

Stop ==
  /\ Goto("returned")
  /\ Emit(<<Health("stopped")>>)

\* The tick of the select loop forgets to look at the token.
Tick_Fault ==
  /\ worker = "connected"
  /\ cancelled /\ ~held
  /\ Goto("closing")
  /\ UNCHANGED <<sessionVars, audio, attempt, latestAudio, lastFinalEnd, log,
                 received, clock, connections, messages>>

(* The 25 ms tick, when it finds the session cancelled.                    *)
Tick ==
  /\ worker = "connected"
  /\ cancelled
  /\ Goto("closing")
  /\ UNCHANGED <<sessionVars, audio, attempt, latestAudio, lastFinalEnd, log,
                 received, clock, connections, messages>>

(* The next frame is taken, or the sender is gone and the queue empty.     *)
TakeFrame ==
  /\ worker = "connected"
  /\ \/ /\ audio # << >>
        /\ latestAudio' = Head(audio)
        /\ audio' = Tail(audio)
        /\ Goto("sending")
     \/ /\ audio = << >> /\ ~held
        /\ Goto("closing")
        /\ UNCHANGED <<audio, latestAudio>>
  /\ UNCHANGED <<sessionVars, attempt, lastFinalEnd, log, received, clock,
                 connections, messages>>

\* write.close, whatever becomes of it; then run_worker reports the end.
Close ==
  /\ worker = "closing"
  /\ Stop
  /\ UNCHANGED <<sessionVars, audio, attempt, latestAudio, lastFinalEnd,
                 received, clock, connections, messages>>

(* What is being written is sent, or the write fails; a frame may also be  *)
(* empty or fail to be converted.  The write does not look at the token.   *)
Send ==
  /\ worker = "sending"
  /\ Goto("connected") \/ Goto("failed")
  /\ UNCHANGED <<sessionVars, audio, attempt, latestAudio, lastFinalEnd, log,
                 received, clock, connections, messages>>

\* The times of a completed transcription, each of them given or not.
GivenTimes ==
  [start : ProviderTimes \union {NoTime}, end : ProviderTimes \union {NoTime}]

Gives(given) == {field \in {"start", "end"} : given[field] # NoTime}

\* An end before the start is moved only if the provider gave both.
FinalOf_Fault(given) ==
  LET start == IF given.start # NoTime THEN given.start ELSE lastFinalEnd
      end   == IF given.end # NoTime THEN given.end ELSE latestAudio
  IN  [kind |-> "final", on |-> connections, gives |-> Gives(given),
       start |-> start,
       end |-> IF Gives(given) = {"start", "end"} THEN Max({start, end}) ELSE end]

(* parse_server_event of a completed transcription: a time the provider    *)
(* does not give is that of the previous final or of the latest audio, and *)
(* an end before the start is moved to it.                                 *)
FinalOf(given) ==
  LET start == IF given.start # NoTime THEN given.start ELSE lastFinalEnd
      end   == IF given.end # NoTime THEN given.end ELSE latestAudio
  IN  [kind |-> "final", on |-> connections, gives |-> Gives(given),
       start |-> start, end |-> Max({start, end})]

Receive(event) ==
  /\ Emit(<<event>>)
  /\ lastFinalEnd' = IF event.kind = "final" THEN event.end ELSE lastFinalEnd
  /\ UNCHANGED worker

(* A message of the provider: a delta, a completed transcription, an error *)
(* report (the connection lives on), a session update, a ping, which the   *)
(* worker answers before it does anything else, or the end of the          *)
(* connection, by a close, a read error or a message it cannot parse.      *)
ReadMessage ==
  /\ worker = "connected"
  /\ messages < MessageCap
  /\ messages' = messages + 1
  /\ \/ \E event \in {Partial, Failure, Health("healthy")} : Receive(event)
     \/ \E given \in GivenTimes : Receive(FinalOf(given))
     \/ Goto("sending") /\ UNCHANGED <<log, lastFinalEnd>>
     \/ Goto("failed") /\ UNCHANGED <<log, lastFinalEnd>>
  /\ UNCHANGED <<sessionVars, audio, attempt, latestAudio, received, clock,
                 connections>>

\* An exhausted budget is reported like a stop.
AfterFailure_Silent_Fault ==
  /\ worker = "failed"
  /\ IF cancelled \/ attempt >= MaxReconnects
     THEN Stop /\ UNCHANGED attempt
     ELSE attempt' = attempt + 1 /\ Goto("backoff") /\ UNCHANGED log
  /\ UNCHANGED <<sessionVars, audio, latestAudio, lastFinalEnd, received,
                 clock, connections, messages>>

(* The Err arm: the budget counts the failures of the whole session.       *)
AfterFailure ==
  /\ worker = "failed"
  /\ IF cancelled
     THEN Stop /\ UNCHANGED attempt
     ELSE IF attempt >= MaxReconnects
     THEN /\ Emit(<<Failure, Health("degraded")>>)
          /\ Goto("returned")
          /\ UNCHANGED attempt
     ELSE /\ attempt' = attempt + 1
          /\ Goto("backoff")
          /\ UNCHANGED log
  /\ UNCHANGED <<sessionVars, audio, latestAudio, lastFinalEnd, received,
                 clock, connections, messages>>

Backoff ==
  /\ worker = "backoff"
  /\ Goto("top")
  /\ UNCHANGED <<sessionVars, audio, attempt, latestAudio, lastFinalEnd, log,
                 received, clock, connections, messages>>

Worker ==
  \/ Start \/ LoopTop \/ Connect \/ Tick \/ TakeFrame \/ Send \/ Close
  \/ ReadMessage \/ AfterFailure \/ Backoff

----------------------------------------------------------------------------
Next ==
  \/ \E at \in (clock + 1)..FrameCap : PushAudio(at)
  \/ RecvEvent
  \/ Cancel
  \/ Drop
  \/ Worker

Spec == Init /\ [][Next]_vars

(* The worker's own steps: the select loop polls its branches in random    *)
(* order, so the tick gets its turn, and the sleep ends.  Connect, Send    *)
(* and Close wait for the network without a deadline: no fairness.         *)
FairSpec ==
  /\ Spec
  /\ WF_vars(Tick)
  /\ WF_vars(Start \/ LoopTop \/ AfterFailure \/ Backoff)

----------------------------------------------------------------------------
HealthStates == {"connecting", "reconnecting", "healthy", "degraded", "stopped"}

Events ==
  [kind : {"partial", "error"}]
    \union [kind : {"health"}, is : HealthStates]
    \union [kind : {"final"}, on : Nat, gives : SUBSET {"start", "end"},
              start : Nat, end : Nat]

TypeOK ==
  /\ cancelled \in BOOLEAN
  /\ held \in BOOLEAN
  /\ audio \in Seq(1..FrameCap) /\ Len(audio) <= AudioCap
  /\ worker \in {"starting", "top", "connecting", "connected", "sending",
                 "closing", "failed", "backoff", "returned"}
  /\ attempt \in 0..MaxReconnects
  /\ latestAudio \in 0..clock
  /\ lastFinalEnd \in Nat
  /\ log \in Seq(Events)
  /\ received \in 0..Len(log)
  /\ clock \in 0..FrameCap
  /\ connections \in 0..(MaxReconnects + 1)
  /\ messages \in 0..MessageCap

\* Entry i is the health reported last.
LastReport(i) ==
  /\ log[i].kind = "health"
  /\ \A k \in (i + 1)..Len(log) : log[k].kind # "health"

\* What the last report says is true of the worker.
TellsTheTruth(last) ==
  LET now == log[last].is
  IN  CASE worker = "returned" ->
             /\ last = Len(log)
             /\ \/ now = "stopped" /\ cancelled
                \/ /\ now = "degraded" /\ attempt = MaxReconnects
                   /\ last > 1 /\ log[last - 1] = Failure
        [] worker \in {"connected", "sending"} -> now = "healthy"
        [] worker = "connecting" -> now \in {"connecting", "reconnecting"}
        [] OTHER -> now \notin {"stopped", "degraded"}

(* A worker that ends says why, and says nothing after it: it was told to  *)
(* stop, or it used up its reconnects and reports the failure before the   *)
(* state, or it could not even start.  Up to then the health it reported   *)
(* last is the state it is in, but for an outage: that is reported when    *)
(* the backoff is over.                                                    *)
HealthTellsTheTruth ==
  held => \A i \in 1..Len(log) : LastReport(i) => TellsTheTruth(i)

Finals == {i \in 1..Len(log) : log[i].kind = "final"}

\* When the last final before entry i ended that came on connection `on`,
\* 0 if none did.
EndedAt(time, i, on) ==
  LET earlier == {j \in Finals : j < i /\ log[j].on = on}
  IN  \/ earlier = {} /\ time = 0
      \/ \E j \in earlier : (\A k \in earlier : k <= j) /\ time = log[j].end

(* The finals of one connection tile its time, whichever of their times    *)
(* the provider gives: each ends no earlier than it starts; one without a  *)
(* start begins where its predecessor ended; and one without an end does   *)
(* not reach beyond the audio handed to the session, unless its start      *)
(* already does.                                                           *)
FinalsTile ==
  \A i \in Finals :
    LET f == log[i]
    IN  /\ f.start <= f.end
        /\ "start" \notin f.gives => EndedAt(f.start, i, f.on)
        /\ "end" \notin f.gives => f.end <= Max({f.start, clock})

(* A cancelled worker returns, however busy the provider and the audio     *)
(* queue are, unless the network holds it up forever: in a connect, in the *)
(* write of a frame or of a pong, or in the close of the socket.           *)
CancelledWorkerReturns ==
  <>cancelled =>
    \/ <>(worker = "returned")
    \/ <>[](worker \in {"connecting", "sending", "closing"})
============================================================================
