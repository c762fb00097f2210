---------------------------- MODULE AudioCapture ----------------------------
(***************************************************************************)
(* The capture of parliant-audio: run_pipewire_capture on the main thread, *)
(* the callbacks of the PipeWire stream it runs in its main loop, the      *)
(* watcher thread that turns the cancellation token into a quit of that    *)
(* loop, and the bounded channel of audio frames.                          *)
(*                                                                         *)
(* PipeWire is external: the stream changes state and delivers buffers as  *)
(* it likes, once it is lost or in error it stays so.  A frame is its      *)
(* sequence number, of which its timestamp is a monotonic function; the    *)
(* negotiated format is whether there is one.  Callbacks without effect    *)
(* (an empty chunk, a foreign parameter) are left out.                     *)
(***************************************************************************)
EXTENDS Naturals, Sequences, SequencesExt, FiniteSetsExt

CONSTANTS
  BufferFrames,     (* capacity of bounded_frame_channel                   *)
  CallbackCap       (* bound of the model: callbacks with an effect        *)

ASSUME CaptureConfig ==
  /\ BufferFrames \in Nat \ {0}
  /\ CallbackCap \in Nat

VARIABLES
  token,            (* the daemon's cancellation token                     *)
  capture,          (* program counter of run_pipewire_capture             *)
  stream,           (* StreamState                                         *)
  sawStreaming,
  format,           (* a raw audio format is negotiated                    *)
  quit,             (* the main loop has been told to quit                 *)
  watcher,          (* state of the watcher thread                         *)
  reason,           (* StopReason                                          *)
  sequence,         (* frames made                                         *)
  frames,           (* the bounded channel of frames                       *)
  consumer,         (* the receiver of the frames exists                   *)
  accepted, dropped,  (* FrameStats                                        *)
  taken,            (* history: frames received, in order                  *)
  events,           (* every CaptureEvent sent, in order                   *)
  callbacks         (* bound of the model: callbacks run                   *)

streamVars == <<stream, sawStreaming, format>>
frameVars == <<sequence, frames, accepted, dropped>>
receiverVars == <<consumer, taken>>
threadVars == <<token, capture, quit, watcher, reason>>
vars == <<threadVars, streamVars, frameVars, receiverVars, events, callbacks>>

Event(kind)    == [kind |-> kind, why |-> "none"]
ErrorEvent(by) == [kind |-> "error", why |-> by]
Stopped(why)   == [kind |-> "stopped", why |-> why]

Send(es) == events' = events \o es

----------------------------------------------------------------------------
Init ==
  /\ token = FALSE
  /\ capture = "starting"
  /\ stream = "unconnected"
  /\ sawStreaming = FALSE
  /\ format = FALSE
  /\ quit = FALSE
  /\ watcher = "unborn"
  /\ reason = "none"
  /\ sequence = 0
  /\ frames = << >>
  /\ consumer = TRUE
  /\ accepted = 0
  /\ dropped = 0
  /\ taken = << >>
  /\ events = << >>
  /\ callbacks = 0

(* Everything up to mainloop.run.  Any of the calls may fail: the function *)
(* returns an error and has sent nothing but Starting.                     *)
SetUp ==
  /\ capture = "starting"
  /\ \/ /\ capture' = "looping"
        /\ stream' = "connecting"
        /\ watcher' = "watching"
        /\ Send(<<Event("starting"), Event("connecting")>>)
     \/ /\ capture' = "failed"
        /\ Send(<<Event("starting")>>)
        /\ UNCHANGED <<stream, watcher>>
  /\ UNCHANGED <<token, sawStreaming, format, quit, reason, frameVars,
                 receiverVars, callbacks>>

Callback ==
  /\ capture = "looping"
  /\ callbacks < CallbackCap
  /\ callbacks' = callbacks + 1
  /\ UNCHANGED <<token, capture, watcher, reason, receiverVars>>

\* The states PipeWire may move the stream to.
Follows(state) ==
  CASE state = "connecting" -> {"paused", "error", "unconnected"}
    [] state = "paused"     -> {"streaming", "error", "unconnected"}
    [] state = "streaming"  -> {"paused", "error", "unconnected"}
    [] OTHER                -> {}

(* state_changed: an error and the loss of a stream that has streamed end  *)
(* the loop.                                                               *)
StateChanged(new) ==
  /\ Callback
  /\ new \in Follows(stream)
  /\ stream' = new
  /\ sawStreaming' = (sawStreaming \/ new = "streaming")
  /\ LET lost == new = "unconnected" /\ sawStreaming
     IN  /\ quit' = (quit \/ new = "error" \/ lost)
         /\ Send(CASE new = "streaming" -> <<Event("streaming")>>
                   [] new = "error"     -> <<ErrorEvent("stream")>>
                   [] lost              -> <<Event("lost")>>
                   [] OTHER             -> << >>)
  /\ UNCHANGED <<format, frameVars>>

(* param_changed: a raw audio format is negotiated or withdrawn.           *)
ParamChanged ==
  /\ Callback
  /\ stream \in {"paused", "streaming"}
  /\ \/ format' = TRUE /\ Send(<<Event("format")>>)
     \/ format /\ format' = FALSE /\ UNCHANGED events
  /\ UNCHANGED <<stream, sawStreaming, quit, frameVars>>

\* A frame that finds the channel full counts as accepted.
TrySend_Fault(frame) ==
  /\ consumer
  /\ accepted' = accepted + 1
  /\ frames' = IF Len(frames) < BufferFrames THEN Append(frames, frame)
                                             ELSE frames
  /\ UNCHANGED <<dropped, events>>

(* BoundedFrameSender::try_send and what process makes of its error: the   *)
(* newest frame is dropped when the channel is full, and reported as an    *)
(* error when its receiver is gone.                                        *)
TrySend(frame) ==
  \/ /\ ~consumer
     /\ Send(<<ErrorEvent("refused")>>)
     /\ UNCHANGED <<frames, accepted, dropped>>
  \/ /\ consumer /\ Len(frames) < BufferFrames
     /\ frames' = Append(frames, frame)
     /\ accepted' = accepted + 1
     /\ UNCHANGED <<dropped, events>>
  \/ /\ consumer /\ Len(frames) >= BufferFrames
     /\ dropped' = dropped + 1
     /\ UNCHANGED <<frames, accepted, events>>

(* process, with a buffer that holds audio.  The sequence number is used   *)
(* up whatever becomes of the frame.                                       *)
Process ==
  /\ Callback
  /\ stream = "streaming"
  /\ format
  /\ sequence' = sequence + 1
  /\ TrySend(sequence + 1)
  /\ UNCHANGED <<streamVars, quit>>

(* The watcher thread: it sees the token within 20 ms and quits the loop.  *)
Watch ==
  /\ watcher = "watching"
  /\ token
  /\ watcher' = "ended"
  /\ quit' = TRUE
  /\ UNCHANGED <<token, capture, reason, streamVars, frameVars, receiverVars,
                 events, callbacks>>

(* mainloop.run returns: the token is set, for the watcher to end if it    *)
(* was not the watcher that quit the loop.                                 *)
LeaveLoop ==
  /\ capture = "looping"
  /\ quit
  /\ capture' = "joining"
  /\ token' = TRUE
  /\ UNCHANGED <<quit, watcher, reason, streamVars, frameVars, receiverVars,
                 events, callbacks>>

\* The state is looked at after the stream has been disconnected.
ReasonFor_Fault(state) == IF state = "error" THEN "failed"
                          ELSE "lost"

ReasonFor(state) ==
  CASE state = "error"       -> "failed"
    [] state = "unconnected" -> "lost"
    [] OTHER                 -> "cancelled"

\* Disconnecting a stream that has streamed may itself report a lost source.
DisconnectEvents ==
  IF stream # "unconnected" /\ sawStreaming
  THEN {<< >>, <<[kind |-> "lost", why |-> "disconnect"]>>}
  ELSE {<< >>}

(* watcher.join returns, the stream is disconnected, the end is reported,  *)
(* and with the function's return its event senders are gone.  Whether     *)
(* PipeWire runs state_changed from within disconnect is left open.        *)
Finish ==
  /\ capture = "joining"
  /\ watcher = "ended"
  /\ capture' = "done"
  /\ reason' = ReasonFor(stream)
  /\ \E last \in DisconnectEvents :
       Send(Append(last, Stopped(ReasonFor(stream))))
  /\ UNCHANGED <<token, quit, watcher, streamVars, frameVars, receiverVars,
                 callbacks>>

----------------------------------------------------------------------------
(* The rest of the program, as far as the capture sees it. *)

\* A signal, or another thread of the daemon.
Cancel ==
  /\ token' = TRUE
  /\ UNCHANGED <<capture, quit, watcher, reason, streamVars, frameVars,
                 receiverVars, events, callbacks>>

TakeFrame ==
  /\ consumer
  /\ frames # << >>
  /\ frames' = Tail(frames)
  /\ taken' = Append(taken, Head(frames))
  /\ UNCHANGED <<threadVars, streamVars, sequence, accepted, dropped, consumer,
                 events, callbacks>>

DropConsumer ==
  /\ consumer
  /\ consumer' = FALSE
  /\ UNCHANGED <<threadVars, streamVars, frameVars, taken, events, callbacks>>

Capture ==
  \/ SetUp
  \/ \E new \in {"paused", "streaming", "error", "unconnected"} :
       StateChanged(new)
  \/ ParamChanged \/ Process
  \/ Watch \/ LeaveLoop \/ Finish

Next == Capture \/ Cancel \/ TakeFrame \/ DropConsumer

Spec == Init /\ [][Next]_vars

----------------------------------------------------------------------------
EventKinds == {"starting", "connecting", "format", "streaming",
               "lost", "error", "stopped"}

TypeOK ==
  /\ token \in BOOLEAN
  /\ capture \in {"starting", "looping", "joining", "done", "failed"}
  /\ stream \in {"unconnected", "connecting", "paused", "streaming", "error"}
  /\ sawStreaming \in BOOLEAN /\ format \in BOOLEAN /\ quit \in BOOLEAN
  /\ watcher \in {"unborn", "watching", "ended"}
  /\ reason \in {"none", "cancelled", "lost", "failed"}
  /\ sequence \in Nat /\ accepted \in Nat /\ dropped \in Nat
  /\ frames \in Seq(1..sequence) /\ Len(frames) <= BufferFrames
  /\ consumer \in BOOLEAN
  /\ \A i \in 1..Len(events) : events[i].kind \in EventKinds

Reported(event) == event \in Range(events)
Refused == Cardinality({i \in 1..Len(events) : events[i].why = "refused"})

(* Every frame made is accounted for once: received, queued, counted as    *)
(* dropped or reported as refused; and frames reach the consumer in the    *)
(* order they were made.                                                   *)
FramesAccountedFor ==
  /\ accepted = Len(taken) + Len(frames)
  /\ sequence = accepted + dropped + Refused
  /\ \A i, j \in 1..Len(taken \o frames) :
       i < j => (taken \o frames)[i] < (taken \o frames)[j]

(* The reason the capture ends with, from which the daemon makes its exit  *)
(* code, is the one the observers were told: a lost source that streamed   *)
(* and a failed stream are reported before the end and are the reason for  *)
(* it, whoever quit the loop, and Stopped is the last event.               *)
StopTellsCause ==
  capture = "done" =>
    /\ Last(events) = Stopped(reason)
    /\ Reported(ErrorEvent("stream")) <=> reason = "failed"
    /\ Reported(Event("lost")) <=> reason = "lost" /\ sawStreaming
=============================================================================
