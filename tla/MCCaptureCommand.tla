-------------------------- MODULE MCCaptureCommand --------------------------
(* The instances of CaptureCommand for TLC need no definitions. *)
EXTENDS CaptureCommand
============================================================================
