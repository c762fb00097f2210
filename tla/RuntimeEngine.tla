---------------------------- MODULE RuntimeEngine ----------------------------
(***************************************************************************)
(* parliant-runtime: the engine the pipeline thread drives.  It composes   *)
(* the meeting store, the question detector and the answer coordinator and *)
(* turns what happens to them into events for the overlay.  Every handler  *)
(* runs to its end on the one pipeline thread, its events included, which  *)
(* run_pipeline publishes before it calls the next handler; the answer     *)
(* threads of the provider run concurrently.                               *)
(*                                                                         *)
(* It extends the coordinator, whose variables and operators have their    *)
(* own names here, and instantiates the other two.                         *)
(*                                                                         *)
(* The engine's context assembler has no external sources, so building a   *)
(* request cannot degrade; the request itself is not modelled here.        *)
(***************************************************************************)
EXTENDS AnswerCoordinator, FiniteSetsExt

CONSTANTS
  \* the store
  ProviderIds, TextLen, MaxSegments, MaxTextBytes, DuplicateMemory, SegmentCap,
  \* the detector
  Fragments, Openers, Marked, Trailing, ToUser, ToGroup, Wording,
  MinConfidence, Cooldown, RepeatMemory,
  \* the overlay
  MaxAnswer,
  HealthStates,     (* the states map_health makes of the provider's health *)
  FinalCap          (* bound of the model: transcription events handled    *)

VARIABLES
  sessionId, recording, nextSegmentId, retainedTextBytes, segments, seenIds,
  seenOrder,
  nextQuestionId, lastTrigger, recentIds, recentOrder, pending, processed,
  emitted, manual,
  questionStarted,  (* the keys of question_started                        *)
  stats,            (* RuntimeStats, the counters                          *)
  shown,            (* the overlay snapshot after the published events     *)
  handled,          (* bound of the model: transcription events handled    *)
  running           (* shutdown has not been called                        *)

storeVars == <<sessionId, recording, nextSegmentId, retainedTextBytes,
               segments, seenIds, seenOrder>>
answerVars == <<active, overdue, begun, worker, outgoing, cancelled, channel,
                read, log, delivered>>
detectorVars == <<nextQuestionId, lastTrigger, recentIds, recentOrder,
                  pending, processed, emitted, manual>>
engineVars == <<questionStarted, stats, shown, handled, running>>
runtimeVars == <<storeVars, detectorVars, answerVars, engineVars>>

Store == INSTANCE MeetingStore WITH
  Texts <- Fragments, Mentions <- [f \in Fragments |-> {}],
  SessionCap <- 1, active <- recording

Detector == INSTANCE QuestionDetector WITH
  LastSegment <- SegmentCap, ManualCap <- 0

Overlay == INSTANCE OverlaySnapshot

ASSUME EngineConfig ==
  /\ Store!StoreConfig /\ Store!ModelBounds
  /\ Detector!DetectorConfig
  /\ CoordinatorBounds
  /\ Overlay!AnswerBound
  /\ HealthStates \subseteq Overlay!TranscriptionStates

----------------------------------------------------------------------------
Count(counter) == stats' = [stats EXCEPT ![counter] = @ + 1]

Publish(event) == shown' = Overlay!Apply(shown, event)

(* The daemon starts the session and publishes the listening state before  *)
(* it hands the store to the engine.                                       *)
EngineInit ==
  /\ sessionId = 1
  /\ recording = TRUE
  /\ nextSegmentId = 1
  /\ retainedTextBytes = 0
  /\ segments = << >>
  /\ seenIds = {}
  /\ seenOrder = << >>
  /\ Detector!Init
  /\ Init
  /\ questionStarted = {}
  /\ stats = [finalized |-> 0, duplicate |-> 0, detected |-> 0,
              deltas |-> 0, failures |-> 0, transcription |-> 0]
  /\ shown = Overlay!Apply(Overlay!Apply(Overlay!EmptySnapshot,
                 Overlay!Listening(TRUE)), Overlay!Transcription("connecting"))
  /\ handled = 0
  /\ running = TRUE

Handle ==
  /\ running
  /\ handled < FinalCap
  /\ handled' = handled + 1
  /\ UNCHANGED running

----------------------------------------------------------------------------
(* handle_transcription, TranscriptionEvent::Final.                        *)

\* A duplicate is handed to the detector like any other final.
DuplicateFinal_Fault(pid, text) ==
  /\ Handle
  /\ Store!IsDuplicate(pid)
  /\ Detector!ProcessFinalized(processed, text)
  /\ Count("duplicate")
  /\ UNCHANGED <<storeVars, answerVars, questionStarted, shown>>

DuplicateFinal(pid, text) ==
  /\ Handle
  /\ Store!IsDuplicate(pid)
  /\ Count("duplicate")
  /\ UNCHANGED <<storeVars, detectorVars, answerVars, questionStarted, shown>>

(* SegmentTooLarge is an error of the handler; run_pipeline reports it as  *)
(* degraded and goes on.                                                   *)
OversizedFinal(pid, text) ==
  /\ Handle
  /\ ~Store!IsDuplicate(pid)
  /\ Store!IsTooLarge(text)
  /\ Publish(Overlay!Degraded)
  /\ UNCHANGED <<storeVars, detectorVars, answerVars, questionStarted, stats>>

(* The segment enters the store under the write lock and, after the lock   *)
(* is released, goes to the detector.                                      *)
Ingest(pid, text) ==
  /\ Handle
  /\ Store!Accept(pid, text)
  /\ Detector!ProcessFinalized(nextSegmentId, text)

\* process_finalized returns a question in this step.
Detected == nextQuestionId' # nextQuestionId

NoQuestionFinal(pid, text) ==
  /\ Ingest(pid, text)
  /\ ~Detected
  /\ Count("finalized")
  /\ UNCHANGED <<answerVars, questionStarted, shown>>

CountQuestion ==
  stats' = [stats EXCEPT !.finalized = @ + 1, !.detected = @ + 1]

(* The request is begun before the question is shown. *)
QuestionFinal(pid, text) ==
  /\ Ingest(pid, text)
  /\ Detected
  /\ CountQuestion
  /\ Begin(nextQuestionId)
  /\ questionStarted' = questionStarted \union {nextQuestionId}
  /\ Publish(Overlay!Question(nextQuestionId))

(* When the provider cannot be started the handler fails: the previous     *)
(* answer is cancelled already, the question is counted and remembered by  *)
(* the detector but never shown, and run_pipeline reports degraded.        *)
UnansweredFinal(pid, text) ==
  /\ Ingest(pid, text)
  /\ Detected
  /\ CountQuestion
  /\ BeginFails(nextQuestionId)
  /\ Publish(Overlay!Degraded)
  /\ UNCHANGED questionStarted

Final(pid, text) ==
  \/ DuplicateFinal(pid, text)
  \/ OversizedFinal(pid, text)
  \/ NoQuestionFinal(pid, text)
  \/ QuestionFinal(pid, text)
  \/ UnansweredFinal(pid, text)

(* The other transcription events.  A partial has no effect whatever.      *)
Health(state) ==
  /\ Handle
  /\ Publish(Overlay!Transcription(state))
  /\ UNCHANGED <<storeVars, detectorVars, answerVars, questionStarted, stats>>

ProviderError ==
  /\ Handle
  /\ Count("transcription")
  /\ Publish(Overlay!Degraded)
  /\ UNCHANGED <<storeVars, detectorVars, answerVars, questionStarted>>

----------------------------------------------------------------------------
\* The update poll returns in this step, if it returns one.
Update == Last(log')
Updated == log' # log /\ Update.kind \in {"delta", "done", "error"}

PollEvent ==
  CASE Update.kind = "delta" -> Overlay!AnswerDelta(Update.question, Update.n)
    [] Update.kind = "done"  -> Overlay!AnswerDone(Update.question)
    [] Update.kind = "error" -> Overlay!Error

\* An error of the provider is counted and not shown.
PollAnswer_Fault ==
  /\ running
  /\ Poll
  /\ IF Updated /\ Update.kind # "error" THEN Publish(PollEvent)
                                         ELSE UNCHANGED shown
  /\ UNCHANGED <<storeVars, detectorVars, questionStarted, stats, handled,
                 running>>

(* poll_answer.  A failing poll is reported as degraded by run_pipeline.   *)
PollAnswer ==
  /\ running
  /\ Poll
  /\ Publish(IF Updated THEN PollEvent ELSE Overlay!Degraded)
  /\ stats' = [stats EXCEPT
       !.deltas   = IF Updated /\ Update.kind = "delta" THEN @ + 1 ELSE @,
       !.failures = IF Updated /\ Update.kind = "error" THEN @ + 1 ELSE @]
  /\ questionStarted' = IF Updated /\ Update.kind \in {"done", "error"}
                        THEN questionStarted \ {Update.question}
                        ELSE questionStarted
  /\ UNCHANGED <<storeVars, detectorVars, handled, running>>

\* The overlay is cleared and the answer goes on.
Dismiss_Fault ==
  /\ running
  /\ questionStarted' = {}
  /\ Publish(Overlay!Dismissed)
  /\ UNCHANGED <<storeVars, detectorVars, answerVars, stats, handled, running>>

(* handle_overlay_action(Dismiss).  StopListening returns None and is left *)
(* to run_pipeline.                                                        *)
Dismiss ==
  /\ running
  /\ Cancel
  /\ questionStarted' = {}
  /\ Publish(Overlay!Dismissed)
  /\ UNCHANGED <<storeVars, detectorVars, stats, handled, running>>

(* shutdown, after the loop of run_pipeline. *)
Shutdown ==
  /\ running
  /\ running' = FALSE
  /\ Cancel
  /\ questionStarted' = {}
  /\ Store!StopSession
  /\ UNCHANGED <<detectorVars, stats, shown, handled>>

(* The steps of the provider threads and of time. *)
Concurrently ==
  /\ Elapse \/ \E q \in Ids : Worker(q)
  /\ UNCHANGED <<storeVars, detectorVars, engineVars>>

EngineNext ==
  \/ \E pid \in ProviderIds, text \in Fragments : Final(pid, text)
  \/ \E state \in HealthStates : Health(state)
  \/ ProviderError
  \/ PollAnswer
  \/ Dismiss
  \/ Shutdown
  \/ Concurrently

EngineSpec == EngineInit /\ [][EngineNext]_runtimeVars

(* run_pipeline polls in every round of its loop; for the rest see         *)
(* AnswerCoordinator.                                                      *)
EngineFairness ==
  /\ WF_runtimeVars(PollAnswer)
  /\ WF_runtimeVars(Elapse /\ Concurrently)
  /\ \A q \in Ids : WF_runtimeVars(Worker(q) /\ Concurrently)

FairEngineSpec == EngineSpec /\ EngineFairness

----------------------------------------------------------------------------
Counters ==
  {"finalized", "duplicate", "detected", "deltas", "failures", "transcription"}

EngineTypeOK ==
  /\ Store!TypeOK
  /\ Detector!TypeOK
  /\ TypeOK
  /\ questionStarted \subseteq Ids
  /\ stats \in [Counters -> Nat]
  /\ shown \in Overlay!Snapshots
  /\ running \in BOOLEAN

(* The answer shown is what poll delivered for the question shown, cut at  *)
(* the bound of the overlay: never a piece of an earlier answer, never one *)
(* with a gap.                                                             *)
AnswerFitsQuestion ==
  shown.answer =
    IF shown.question = 0 THEN << >>
    ELSE LET deltas == delivered[shown.question]
         IN  IF Len(deltas) <= MaxAnswer THEN deltas
                                         ELSE SubSeq(deltas, 1, MaxAnswer)

(* The answer being generated is the one whose question is on screen, open *)
(* and with a start time for the latency counter; after a dismissal or the *)
(* end of the session nothing is generated.                                *)
ActiveIsShown ==
  active # 0 =>
    /\ running
    /\ shown.question = active
    /\ ~shown.complete
    /\ active \in questionStarted

(* An answer that stops short is not left on screen without a word: the    *)
(* overlay shows an error or the degraded state.                           *)
NoSilentStop ==
  running /\ shown.question # 0 /\ active = 0 /\ ~shown.complete =>
    shown.error \/ shown.degraded

(* The engine uses its components as they are meant to be used: the        *)
(* detector sees every accepted segment exactly once and in id order, and  *)
(* answers are begun with fresh question ids in order.                     *)
UsesComponents ==
  [][ /\ [Store!Next]_storeVars
      /\ [Detector!Next]_detectorVars
      /\ [Next]_answerVars ]_runtimeVars

(* A question on screen does not wait forever: its answer completes, an    *)
(* error or the degraded state is shown, or it makes way.                  *)
QuestionResolves ==
  \A q \in Ids :
    [](shown.question = q =>
         <>(\/ shown.question # q
            \/ shown.complete \/ shown.error \/ shown.degraded
            \/ ~running))
============================================================================
