---------------------------- MODULE MeetingDaemon ----------------------------
(***************************************************************************)
(* `parliant meet` from the start of its threads to its end: the main      *)
(* thread, which runs the capture and then winds everything up; the        *)
(* pipeline thread, which moves frames to the transcription session and    *)
(* its events to the engine and takes the overlay's actions; and the       *)
(* thread that observes the capture's events.  They share one cancellation *)
(* token and the overlay server.                                           *)
(*                                                                         *)
(* Capture and transcription session are the modules of that name: the     *)
(* daemon extends the session's and instantiates the capture's.  The       *)
(* engine and the overlay server have their own modules: here the engine   *)
(* is what a call of it may publish, and `shown` is the server's snapshot. *)
(* The remote MCP bridge, started before and stopped after the threads, is *)
(* left out.                                                               *)
(***************************************************************************)
EXTENDS TranscriptionWorker

CONSTANTS
  BufferFrames, CallbackCap,                      (* see AudioCapture        *)
  EventBatch,       (* events the pipeline handles in one round            *)
  ActionBatch,      (* actions it takes in one round                       *)
  UserCap           (* bound of the model: signals and overlay actions     *)

VARIABLES
  token, capture, stream, sawStreaming, format, quit, watcher, reason,
  sequence, frames, consumer, accepted, dropped, taken, events, callbacks,
  main,             (* program counter of run_meeting                      *)
  pipeline,         (* program counter of run_pipeline                     *)
  budget,           (* rounds left in an inner loop of run_pipeline        *)
  backpressure,     (* transcribe_backpressure                             *)
  actions,          (* overlay actions on their way to the pipeline        *)
  observer,         (* state of the capture-events thread                  *)
  observed,         (* capture events it has handled                       *)
  shown,            (* the snapshot of the overlay server                  *)
  asked,            (* history: a signal came or StopListening was sent    *)
  acts              (* bound of the model: signals and actions sent        *)

Capture == INSTANCE AudioCapture
Overlay == INSTANCE OverlaySnapshot WITH MaxAnswer <- 1

ASSUME DaemonConfig ==
  /\ EventBatch \in Nat \ {0}
  /\ ActionBatch \in Nat \ {0}
  /\ Capture!CaptureConfig
  /\ WorkerConfig

captureVars == <<token, capture, quit, watcher, reason, stream, sawStreaming,
                 format, sequence, frames, accepted, dropped, consumer, taken,
                 events, callbacks>>
workerVars == <<cancelled, held, audio, worker, attempt, latestAudio,
                 lastFinalEnd, log, received, clock, connections, messages>>
pipelineVars == <<pipeline, budget, backpressure>>
overlayVars == <<actions, asked, acts>>
observerVars == <<observer, observed>>
daemonVars == <<captureVars, workerVars, main, pipelineVars, observerVars, shown,
          overlayVars>>

Publish(event) == shown' = Overlay!Apply(shown, event)

----------------------------------------------------------------------------
(* The session is started and `Listening` and `Connecting` are published   *)
(* before the first thread is.                                             *)
DaemonInit ==
  /\ Capture!Init
  /\ Init
  /\ main = "capturing"
  /\ pipeline = "top"
  /\ budget = 0
  /\ backpressure = 0
  /\ actions = << >>
  /\ observer = "running"
  /\ observed = 0
  /\ shown = [Overlay!EmptySnapshot EXCEPT !.listening = TRUE,
                                           !.transcription = "connecting"]
  /\ asked = FALSE
  /\ acts = 0

----------------------------------------------------------------------------
(* run_pipeline.                                                           *)

Enter(pc, rounds) == pipeline' = pc /\ budget' = rounds

PipelineTop ==
  /\ pipeline = "top"
  /\ Enter(IF token THEN "leaving" ELSE "receiving", 0)
  /\ UNCHANGED <<captureVars, workerVars, backpressure, main, observerVars,
                 shown, overlayVars>>

(* A frame is received and pushed; one the session has no room for is      *)
(* counted and gone.                                                       *)
PushFrame ==
  /\ pipeline = "receiving"
  /\ frames # << >>
  /\ PushResult # "closed"
  /\ Capture!TakeFrame
  /\ PushAudio(Head(frames))
  /\ backpressure' = IF PushResult = "full" THEN backpressure + 1
                                                    ELSE backpressure
  /\ Enter("events", EventBatch)
  /\ UNCHANGED <<main, observerVars, shown, overlayVars>>

\* The pipeline gives up without a word.
PushRefused_Fault ==
  /\ pipeline = "receiving"
  /\ frames # << >>
  /\ PushResult = "closed"
  /\ Capture!TakeFrame
  /\ PushAudio(Head(frames))
  /\ Enter("giving up", 0)
  /\ UNCHANGED <<backpressure, main, observerVars, shown, overlayVars>>

(* The session is closed: the whole daemon is cancelled, and events the    *)
(* session still holds are not looked at.                                  *)
PushRefused ==
  /\ pipeline = "receiving"
  /\ frames # << >>
  /\ PushResult = "closed"
  /\ Capture!TakeFrame
  /\ PushAudio(Head(frames))
  /\ Publish(Overlay!Degraded)
  /\ Enter("giving up", 0)
  /\ UNCHANGED <<backpressure, main, observerVars, overlayVars>>

GiveUp ==
  /\ pipeline = "giving up"
  /\ Capture!Cancel
  /\ Enter("leaving", 0)
  /\ UNCHANGED <<workerVars, backpressure, main, observerVars, shown,
                 overlayVars>>

(* recv_timeout ends without a frame.  It cannot be disconnected:          *)
(* run_meeting keeps a clone of the sender for its statistics.             *)
NoFrame ==
  /\ pipeline = "receiving"
  /\ frames = << >>
  /\ Enter("events", EventBatch)
  /\ UNCHANGED <<captureVars, workerVars, backpressure, main, observerVars,
                 shown, overlayVars>>

\* map_health
UiState(health) ==
  CASE health \in {"connecting", "reconnecting"} -> "connecting"
    [] health = "healthy"  -> "streaming"
    [] health = "degraded" -> "degraded"
    [] health = "stopped"  -> "idle"

(* What handle_transcription makes of an event, published: a final may be  *)
(* a question or fail, see RuntimeEngine.                                  *)
Engine(event) ==
  CASE event.kind = "partial" -> UNCHANGED shown
    [] event.kind = "health"  ->
         Publish(Overlay!Transcription(UiState(event.is)))
    [] event.kind = "error"   -> Publish(Overlay!Degraded)
    [] event.kind = "final"   ->
         \/ UNCHANGED shown
         \/ Publish(Overlay!Question(1))
         \/ Publish(Overlay!Degraded)

HandleEvent ==
  /\ pipeline = "events"
  /\ budget > 0
  /\ RecvEvent
  /\ Engine(log[received + 1])
  /\ Enter("events", budget - 1)
  /\ UNCHANGED <<captureVars, backpressure, main, observerVars, overlayVars>>

(* The batch is used up, or there is no event; without an event and with   *)
(* the worker gone the whole daemon is cancelled.                          *)
NoEvent ==
  /\ pipeline = "events"
  /\ budget = 0 \/ received = Len(log)
  /\ Enter("answers", 0)
  /\ IF budget > 0 /\ Gone
     THEN Publish(Overlay!Degraded) /\ Capture!Cancel
     ELSE UNCHANGED <<shown, captureVars>>
  /\ UNCHANGED <<workerVars, backpressure, main, observerVars, overlayVars>>

\* The answers of a question are polled: they may fail, see RuntimeEngine.
PollAnswers ==
  /\ pipeline = "answers"
  /\ Enter("actions", ActionBatch)
  /\ \/ UNCHANGED shown
     \/ shown.question # 0 /\ Publish(Overlay!Error)
  /\ UNCHANGED <<captureVars, workerVars, backpressure, main, observerVars,
                 overlayVars>>

TakeDismiss ==
  /\ pipeline = "actions"
  /\ budget > 0
  /\ actions # << >> /\ Head(actions) = "dismiss"
  /\ actions' = Tail(actions)
  /\ Publish(Overlay!Dismissed)
  /\ Enter("actions", budget - 1)
  /\ UNCHANGED <<captureVars, workerVars, backpressure, main, observerVars,
                 asked, acts>>

TakeStopListening ==
  /\ pipeline = "actions"
  /\ budget > 0
  /\ actions # << >> /\ Head(actions) = "stop"
  /\ actions' = Tail(actions)
  /\ Capture!Cancel
  /\ Enter("top", 0)
  /\ UNCHANGED <<workerVars, backpressure, main, observerVars, shown, asked,
                 acts>>

NoAction ==
  /\ pipeline = "actions"
  /\ budget = 0 \/ actions = << >>
  /\ Enter("top", 0)
  /\ UNCHANGED <<captureVars, workerVars, backpressure, main, observerVars,
                 shown, overlayVars>>

(* After the loop: transcription.cancel and engine.shutdown, then the      *)
(* return drops the session and the receiver of the frames.                *)
CancelSession ==
  /\ pipeline = "leaving"
  /\ Cancel
  /\ Enter("dropping", 0)
  /\ UNCHANGED <<captureVars, backpressure, main, observerVars, shown,
                 overlayVars>>

LeavePipeline ==
  /\ pipeline = "dropping"
  /\ Drop
  /\ Capture!DropConsumer
  /\ Enter("returned", 0)
  /\ UNCHANGED <<backpressure, main, observerVars, shown, overlayVars>>

Pipeline ==
  \/ PipelineTop \/ PushFrame \/ PushRefused \/ GiveUp \/ NoFrame
  \/ HandleEvent \/ NoEvent \/ PollAnswers
  \/ TakeDismiss \/ TakeStopListening \/ NoAction
  \/ CancelSession \/ LeavePipeline

----------------------------------------------------------------------------
(* The thread parliant-capture-events.                                     *)

ObservedEvent(event) ==
  CASE event.kind = "streaming" -> Publish(Overlay!Listening(TRUE))
    [] event.kind \in {"lost", "error"} -> Publish(Overlay!Error)
    [] event.kind = "stopped" -> Publish(Overlay!Listening(FALSE))
    [] OTHER -> UNCHANGED shown

Observe ==
  /\ observer = "running"
  /\ observed < Len(events)
  /\ observed' = observed + 1
  /\ ObservedEvent(events[observed + 1])
  /\ UNCHANGED <<captureVars, workerVars, pipelineVars, main, observer,
                 overlayVars>>

\* The senders of the events end with run_pipewire_capture.
ObserverEnds ==
  /\ observer = "running"
  /\ observed = Len(events)
  /\ capture \in {"done", "failed"}
  /\ observer' = "ended"
  /\ UNCHANGED <<captureVars, workerVars, pipelineVars, main, observed,
                 shown, overlayVars>>

----------------------------------------------------------------------------
(* run_meeting, from run_pipewire_capture on.                              *)

Enters(pc) == main' = pc

\* Only a capture that ran cancels the other threads.
CaptureReturns_Fault ==
  /\ main = "capturing"
  /\ capture \in {"done", "failed"}
  /\ Enters("joining pipeline")
  /\ UNCHANGED <<captureVars, workerVars, pipelineVars, observerVars, shown,
                 overlayVars>>

\* Whatever the capture returned, the token is set.
CaptureReturns ==
  /\ main = "capturing"
  /\ capture \in {"done", "failed"}
  /\ Capture!Cancel
  /\ Enters("joining pipeline")
  /\ UNCHANGED <<workerVars, pipelineVars, observerVars, shown, overlayVars>>

JoinPipeline ==
  /\ main = "joining pipeline"
  /\ pipeline = "returned"
  /\ Enters("joining observer")
  /\ UNCHANGED <<captureVars, workerVars, pipelineVars, observerVars, shown,
                 overlayVars>>

\* The observer of the capture's events is not waited for.
JoinObserver_Fault ==
  /\ main = "joining observer"
  /\ Publish(Overlay!Listening(FALSE))
  /\ Enters("exited")
  /\ UNCHANGED <<captureVars, workerVars, pipelineVars, observerVars,
                 overlayVars>>

\* The last thing published, before the overlay server is stopped.
JoinObserver ==
  /\ main = "joining observer"
  /\ observer = "ended"
  /\ Publish(Overlay!Listening(FALSE))
  /\ Enters("exited")
  /\ UNCHANGED <<captureVars, workerVars, pipelineVars, observerVars,
                 overlayVars>>

Main == CaptureReturns \/ JoinPipeline \/ JoinObserver

\* The capture's own threads and PipeWire.
RunCapture ==
  /\ Capture!Capture
  /\ UNCHANGED <<workerVars, pipelineVars, main, observerVars, shown,
                 overlayVars>>

\* run_pipewire_capture before and after the main loop, and its watcher.
OutsideLoop ==
  /\ Capture!SetUp \/ Capture!LeaveLoop \/ Capture!Finish
  /\ UNCHANGED <<workerVars, pipelineVars, main, observerVars, shown,
                 overlayVars>>

Watcher ==
  /\ Capture!Watch
  /\ UNCHANGED <<workerVars, pipelineVars, main, observerVars, shown,
                 overlayVars>>

\* The worker thread of the transcription session.
RunSession ==
  /\ Worker
  /\ UNCHANGED <<captureVars, pipelineVars, main, observerVars, shown,
                 overlayVars>>

----------------------------------------------------------------------------
(* The user: SIGINT or SIGTERM, and the buttons of the overlay.  A signal   *)
(* after the token is set changes nothing.  An action is first seen at the *)
(* end of the pipeline's round, and nobody but the pipeline looks at it:   *)
(* one that is sent earlier in the round is sent there, and one that the   *)
(* pipeline does not come to see is left out.                              *)

Signal ==
  /\ ~token
  /\ acts < UserCap
  /\ acts' = acts + 1
  /\ asked' = TRUE
  /\ Capture!Cancel
  /\ UNCHANGED <<workerVars, pipelineVars, main, observerVars, shown,
                 actions>>

Act(action) ==
  /\ pipeline \in {"answers", "actions"}
  /\ acts < UserCap
  /\ acts' = acts + 1
  /\ actions' = Append(actions, action)
  /\ asked' = (asked \/ action = "stop")
  /\ UNCHANGED <<captureVars, workerVars, pipelineVars, main, observerVars,
                 shown>>

DaemonNext ==
  \/ Pipeline
  \/ Observe \/ ObserverEnds
  \/ Main
  \/ RunCapture
  \/ RunSession
  \/ Signal
  \/ \E action \in {"dismiss", "stop"} : Act(action)

DaemonSpec == DaemonInit /\ [][DaemonNext]_daemonVars

(* The daemon's own threads run: every wait of theirs is on each other or  *)
(* has a timeout.  PipeWire, the provider, and with it the worker thread,  *)
(* are owed nothing.                                                       *)
DaemonFairness ==
  /\ WF_daemonVars(Pipeline)
  /\ WF_daemonVars(Observe \/ ObserverEnds)
  /\ WF_daemonVars(Main)
  /\ WF_daemonVars(OutsideLoop)
  /\ WF_daemonVars(Watcher)

FairDaemonSpec == DaemonSpec /\ DaemonFairness

----------------------------------------------------------------------------
DaemonTypeOK ==
  /\ Capture!TypeOK
  /\ TypeOK
  /\ main \in {"capturing", "joining pipeline", "joining observer", "exited"}
  /\ pipeline \in {"top", "receiving", "events", "answers", "actions",
                   "giving up", "leaving", "dropping", "returned"}
  /\ budget \in 0..Max({EventBatch, ActionBatch})
  /\ backpressure \in Nat
  /\ actions \in Seq({"dismiss", "stop"})
  /\ observer \in {"running", "ended"}
  /\ observed \in 0..Len(events)
  /\ shown \in Overlay!Snapshots
  /\ asked \in BOOLEAN

(* When the daemon has ended, the last it published is that it does not    *)
(* listen: no thread is left that could publish anything after that, and   *)
(* every event of the capture was published before.  This is about the     *)
(* snapshot of the server, not about what an overlay renders: a client     *)
(* that was evicted, or was greeted meanwhile, need not be sent it, and    *)
(* the daemon does not wait until what is queued has been written.         *)
EndIsPublished ==
  main = "exited" =>
    /\ ~shown.listening
    /\ pipeline = "returned" /\ observer = "ended"
    /\ observed = Len(events)

(* A daemon that ends with exit code 0 was asked to, or has published that *)
(* it is degraded: the transcription failed and took the daemon with it.   *)
SuccessIsExplained ==
  main = "exited" /\ reason = "cancelled" => asked \/ shown.degraded

(* Once it is cancelled, or the capture has returned, the daemon ends: no  *)
(* thread waits for one that waits for it, nor for provider or PipeWire.   *)
ShutdownCompletes ==
  [](token \/ capture \in {"done", "failed"} => <>(main = "exited"))
=============================================================================
