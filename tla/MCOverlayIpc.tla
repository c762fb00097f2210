---------------------------- MODULE MCOverlayIpc ----------------------------
(* Instances of OverlayIpc for TLC. *)
EXTENDS OverlayIpc, TLC

\* A question, its answer in two deltas (one too many for the bound), and a
\* change of the listening state by another publisher.
Stream == {Question(1), AnswerDelta(1, 1), AnswerDelta(1, 2), Listening(TRUE)}

\* Enough to tell a lost, a doubled and a reordered event.
ShortStream == {Question(1), AnswerDelta(1, 1), Dismissed}
============================================================================
