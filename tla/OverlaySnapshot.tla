--------------------------- MODULE OverlaySnapshot ---------------------------
(***************************************************************************)
(* The state an overlay shows and the events that change it, shared by     *)
(* daemon and overlay (parliant-ipc).  Both sides run the same             *)
(* apply_daemon_event: the daemon on its snapshot when it publishes, the   *)
(* overlay on its copy when it receives.                                   *)
(*                                                                         *)
(* An answer is the sequence of the deltas it was made of; its bound is    *)
(* counted in deltas.  Messages are reduced to whether there is one, a     *)
(* question to its id, with 0 for None.                                    *)
(***************************************************************************)
EXTENDS Naturals, Sequences

CONSTANT MaxAnswer  (* MAX_ANSWER_CHARS, in deltas                         *)

ASSUME AnswerBound == MaxAnswer \in Nat \ {0}

TranscriptionStates == {"idle", "connecting", "streaming", "degraded"}

\* OverlaySnapshot::default().
EmptySnapshot ==
  [listening |-> FALSE, transcription |-> "idle", question |-> 0,
   answer |-> << >>, complete |-> FALSE, degraded |-> FALSE, error |-> FALSE]

Snapshots ==
  [listening : BOOLEAN, transcription : TranscriptionStates, question : Nat,
   answer : Seq(Nat), complete : BOOLEAN, degraded : BOOLEAN, error : BOOLEAN]

\* The daemon's events.
SnapshotOf(state)     == [kind |-> "snapshot", state |-> state]
Listening(active)     == [kind |-> "listening", active |-> active]
Transcription(next)   == [kind |-> "transcription", next |-> next]
Question(id)          == [kind |-> "question", question |-> id]
AnswerDelta(id, n)    == [kind |-> "delta", question |-> id, n |-> n]
AnswerDone(id)        == [kind |-> "done", question |-> id]
Degraded              == [kind |-> "degraded"]
Error                 == [kind |-> "error"]
Dismissed             == [kind |-> "dismissed"]

DaemonEvents ==
  [kind : {"snapshot"}, state : Snapshots]
    \union [kind : {"listening"}, active : BOOLEAN]
    \union [kind : {"transcription"}, next : TranscriptionStates]
    \union [kind : {"question", "done"}, question : Nat]
    \union [kind : {"delta"}, question : Nat, n : Nat]
    \union [kind : {"degraded", "error", "dismissed"}]

\* A delta of another question is ignored; beyond the bound it is cut off.
ApplyDelta(state, event) ==
  IF state.question # event.question THEN state
  ELSE IF Len(state.answer) < MaxAnswer
       THEN [state EXCEPT !.answer = Append(@, event.n), !.complete = FALSE]
       ELSE [state EXCEPT !.complete = FALSE]

ApplyDone(state, event) ==
  IF state.question = event.question
  THEN [state EXCEPT !.complete = TRUE]
  ELSE state

\* The answer of the previous question is not cleared.
NewQuestion_Fault(state, id) ==
  [state EXCEPT !.question = id, !.complete = FALSE, !.error = FALSE]

\* Question and Dismissed start from an empty answer without error; a
\* degraded message stays for good.
NewQuestion(state, id) ==
  [state EXCEPT !.question = id, !.answer = << >>,
                !.complete = FALSE, !.error = FALSE]

\* apply_daemon_event
Apply(state, event) ==
  CASE event.kind = "snapshot"      -> event.state
    [] event.kind = "listening"     -> [state EXCEPT !.listening = event.active]
    [] event.kind = "transcription" -> [state EXCEPT !.transcription = event.next]
    [] event.kind = "question"      -> NewQuestion(state, event.question)
    [] event.kind = "delta"         -> ApplyDelta(state, event)
    [] event.kind = "done"          -> ApplyDone(state, event)
    [] event.kind = "degraded"      -> [state EXCEPT !.degraded = TRUE]
    [] event.kind = "error"         -> [state EXCEPT !.error = TRUE]
    [] event.kind = "dismissed"     -> NewQuestion(state, 0)
============================================================================
