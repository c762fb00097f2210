--------------------------- MODULE MCMeetingDaemon ---------------------------
(* The instances of MeetingDaemon for TLC need no definitions. *)
EXTENDS MeetingDaemon
============================================================================
