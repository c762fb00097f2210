----------------------- MODULE MCTranscriptionWorker -----------------------
(* Instances of TranscriptionWorker for TLC. *)
EXTENDS TranscriptionWorker

\* Times a provider may give: in order, out of order, beyond the audio.
MCProviderTimes == {1, 4}
============================================================================
