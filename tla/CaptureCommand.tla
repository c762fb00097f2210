--------------------------- MODULE CaptureCommand ---------------------------
(***************************************************************************)
(* The capture subcommand of parliant-daemon, run_capture: it runs a       *)
(* capture on the main thread, with a thread that consumes its frames and  *)
(* one that prints its events, and ends with a summary and an exit code.   *)
(*                                                                         *)
(* Neither thread is told to end: each ends with the last sender of its    *)
(* channel.  One sender of frames is the probe run_capture keeps for the   *)
(* statistics, after it has given the other to the capture.                *)
(***************************************************************************)
EXTENDS AudioCapture

VARIABLES
  main,      (* program counter of run_capture                             *)
  probe,     (* stats_probe exists                                         *)
  summary,   (* the statistics it read: frames accepted and dropped        *)
  printer,   (* the event printer runs                                     *)
  printed,   (* events it has printed                                      *)
  exitCode,  (* of the process, or "none"                                  *)
  asked      (* history: a signal came                                     *)

printerVars == <<printer, printed>>
mainVars == <<main, probe, summary, exitCode, asked>>
commandVars == <<vars, printerVars, mainVars>>

CommandInit ==
  /\ Init
  /\ main = "capturing"
  /\ probe = TRUE
  /\ summary = [accepted |-> 0, dropped |-> 0]
  /\ printer = TRUE
  /\ printed = 0
  /\ exitCode = "none"
  /\ asked = FALSE

CaptureReturned == capture \in {"done", "failed"}

\* The senders of frames: the capture's, dropped on its return, and the probe.
SendersGone == CaptureReturned /\ ~probe

----------------------------------------------------------------------------
(* The consumer thread: recv returns a frame, or the end of the channel.   *)

Consume == TakeFrame /\ UNCHANGED <<printerVars, mainVars>>

ConsumerEnds ==
  /\ SendersGone
  /\ frames = << >>
  /\ DropConsumer
  /\ UNCHANGED <<printerVars, mainVars>>

(* The event printer.                                                      *)

PrintEvent ==
  /\ printed < Len(events)
  /\ printed' = printed + 1
  /\ UNCHANGED <<vars, printer, mainVars>>

PrinterEnds ==
  /\ printer
  /\ CaptureReturned
  /\ printed = Len(events)
  /\ printer' = FALSE
  /\ UNCHANGED <<vars, printed, mainVars>>

----------------------------------------------------------------------------
(* run_capture, from the return of the capture on.                         *)

\* The probe lives to the end of the function.
ReadStats_Fault ==
  /\ main = "capturing"
  /\ CaptureReturned
  /\ summary' = [accepted |-> accepted, dropped |-> dropped]
  /\ main' = "joining consumer"
  /\ UNCHANGED <<vars, printerVars, probe, exitCode, asked>>

\* The statistics are read, and the probe is dropped before the join.
ReadStats ==
  /\ main = "capturing"
  /\ CaptureReturned
  /\ summary' = [accepted |-> accepted, dropped |-> dropped]
  /\ probe' = FALSE
  /\ main' = "joining consumer"
  /\ UNCHANGED <<vars, printerVars, exitCode, asked>>

JoinConsumer ==
  /\ main = "joining consumer"
  /\ ~consumer
  /\ main' = "joining printer"
  /\ UNCHANGED <<vars, printerVars, probe, summary, exitCode, asked>>

\* A setup that failed has no reason.
ExitCodeFor(why) ==
  CASE why = "cancelled"                 -> "0"
    [] why = "lost"               -> "3"
    [] why \in {"failed", "none"} -> "1"

JoinPrinter ==
  /\ main = "joining printer"
  /\ ~printer
  /\ main' = "exited"
  /\ exitCode' = ExitCodeFor(reason)
  /\ UNCHANGED <<vars, printerVars, probe, summary, asked>>

Main == ReadStats \/ JoinConsumer \/ JoinPrinter

----------------------------------------------------------------------------
\* PipeWire, and the capture in its callbacks.
InLoop ==
  /\ \/ \E new \in {"paused", "streaming", "error", "unconnected"} :
          StateChanged(new)
     \/ ParamChanged \/ Process
  /\ UNCHANGED <<printerVars, mainVars>>

\* run_pipewire_capture before and after its main loop.
OutsideLoop ==
  /\ SetUp \/ LeaveLoop \/ Finish
  /\ UNCHANGED <<printerVars, mainVars>>

Watcher == Watch /\ UNCHANGED <<printerVars, mainVars>>

\* SIGINT or SIGTERM.
Signal ==
  /\ ~token
  /\ Cancel
  /\ asked' = TRUE
  /\ UNCHANGED <<printerVars, main, probe, summary, exitCode>>

CommandNext ==
  \/ InLoop \/ OutsideLoop \/ Watcher \/ Signal
  \/ Consume \/ ConsumerEnds
  \/ PrintEvent \/ PrinterEnds
  \/ Main

CommandSpec == CommandInit /\ [][CommandNext]_commandVars

(* The threads of the program run.  PipeWire owes nothing: not a callback, *)
(* and not the end of a capture nobody cancels.                            *)
Fairness ==
  /\ WF_commandVars(OutsideLoop)
  /\ WF_commandVars(Watcher)
  /\ WF_commandVars(Consume \/ ConsumerEnds)
  /\ WF_commandVars(PrintEvent \/ PrinterEnds)
  /\ WF_commandVars(Main)

FairSpec == CommandSpec /\ Fairness

----------------------------------------------------------------------------
Told(event) == \E i \in 1..printed : events[i] = event

(* The exit code can be trusted by a script, and the summary adds up: 0    *)
(* means that a signal ended the capture, 1 that its setup failed or that  *)
(* the error of the stream was printed, 3 that its source went away, which *)
(* was printed if it had ever streamed; and every frame that was accepted  *)
(* has been consumed, although the summary was read before the consumer    *)
(* was waited for.                                                         *)
ExitTellsOutcome ==
  main = "exited" =>
    /\ printed = Len(events)
    /\ summary.accepted = Len(taken)
    /\ summary.accepted + summary.dropped = sequence
    /\ exitCode = "0" => asked
    /\ exitCode = "1" <=> capture = "failed" \/ Told(ErrorEvent("stream"))
    /\ exitCode = "3" /\ sawStreaming <=> Told(Event("lost"))

(* Once it is cancelled, or its loop is told to quit, or its setup has     *)
(* failed, the command exits: no thread waits on a channel whose last      *)
(* sender is held by a thread that waits for it.                           *)
CommandExits ==
  [](token \/ quit \/ CaptureReturned => <>(main = "exited"))
=============================================================================
