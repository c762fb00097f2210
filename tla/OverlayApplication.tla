------------------------- MODULE OverlayApplication -------------------------
(***************************************************************************)
(* The overlay application (parliant-overlay) beside daemons that come and *)
(* go: the socket file of parliant-ipc over stops, crashes and restarts,   *)
(* the application's IPC worker, which connects, reads and reconnects, and *)
(* its user interface behind a bounded queue.                              *)
(*                                                                         *)
(* What a daemon shows is a version, counted up with every event it        *)
(* publishes; an event brings a copy from the version before to its own, a *)
(* snapshot brings any copy to its version.  The threads of the server,    *)
(* its queues and what goes wrong between them are OverlayIpc: here an     *)
(* event reaches the socket of a greeted client when it is published.      *)
(***************************************************************************)
EXTENDS Naturals, Sequences, SequencesExt

CONSTANTS
  Daemons,          (* runs of the daemon, on one socket path: 1..n        *)
  UiCap,            (* the queue from worker to user interface: 32         *)
  ClickCap,         (* the queue from user interface to worker: 16         *)
  EventCap,         (* bound of the model: events the daemons publish      *)
  UserCap           (* bound of the model: clicks on Stop Listening        *)

ASSUME AppConfig ==
  /\ Daemons \subseteq Nat \ {0}
  /\ {UiCap, ClickCap} \subseteq Nat \ {0}
  /\ {EventCap, UserCap} \subseteq Nat

VARIABLES
  daemon,      (* where each daemon stands                                 *)
  path,        (* the daemon whose socket the path names, 0 for no file    *)
  version,     (* events each daemon has published                         *)
  conn,        (* the daemon the IPC worker is connected to, 0 for none    *)
  greeted,     (* the connection has been accepted and sent its snapshot   *)
  closed,      (* the daemon's handler has given the connection up         *)
  socket,      (* what is in the socket                                    *)
  buffered,    (* what IpcClient's BufReader has read ahead                *)
  updates,     (* the queue to the user interface                          *)
  clicks,      (* the queue from the user interface                        *)
  ui,          (* the connected flag and the copy that are rendered        *)
  clicked,     (* bound of the model: clicks                               *)
  overlapped,  (* history: daemons that shared the path with a living one  *)
  missed       (* history: "flag", "copy" or both, when the queue had no   *)
               (* room for an update since the last one that says all      *)

daemonVars == <<daemon, path, version, overlapped>>
connVars == <<conn, greeted, closed, socket, buffered>>
uiVars == <<updates, clicks, ui, clicked, missed>>
appVars == <<daemonVars, connVars, uiVars>>

Alive(d) == daemon[d] \notin {"unborn", "gone", "failed"}

Listeners == {d \in Daemons : daemon[d] = "serving"}

\* The daemon's end of the connection is closed.
AtEnd ==
  \/ daemon[conn] = "gone" \/ closed
  \/ ~greeted /\ daemon[conn] # "serving"

Connected(value) == [kind |-> "connected", value |-> value]
Snapshot(d, n)   == [kind |-> "snapshot", of |-> d, n |-> n]
Event(d, n)      == [kind |-> "event", of |-> d, n |-> n]

----------------------------------------------------------------------------
AppInit ==
  /\ daemon = [d \in Daemons |-> "unborn"]
  /\ path = 0
  /\ version = [d \in Daemons |-> 0]
  /\ conn = 0 /\ greeted = FALSE /\ closed = FALSE
  /\ socket = << >> /\ buffered = << >>
  /\ updates = << >> /\ clicks = << >>
  /\ ui = [connected |-> FALSE, of |-> 0, n |-> 0, whole |-> TRUE]
  /\ clicked = 0
  /\ overlapped = {}
  /\ missed = {}

----------------------------------------------------------------------------
(* A daemon: bind_with_capacities, stop and Drop of the server handle.     *)

Goes(d, state) == daemon' = [daemon EXCEPT ![d] = state]

\* A path that is a socket already is refused like any other file.
Prepare_Fault(d) ==
  /\ daemon[d] = "unborn"
  /\ \A e \in Daemons : e < d => daemon[e] # "unborn"
  /\ Goes(d, IF path = 0 THEN "prepared" ELSE "failed")
  /\ LET others == {e \in Daemons \ {d} : Alive(e)}
     IN  overlapped' = IF others = {} THEN overlapped
                       ELSE overlapped \union others \union {d}
  /\ UNCHANGED <<path, version, connVars, uiVars>>

(* prepare_socket_path removes a socket it finds, whoever bound it.  A     *)
(* path that is no socket stops the daemon before anything was done.       *)
Prepare(d) ==
  /\ daemon[d] = "unborn"
  /\ \A e \in Daemons : e < d => daemon[e] # "unborn"
  /\ Goes(d, "prepared")
  /\ path' = 0
  /\ LET others == {e \in Daemons \ {d} : Alive(e)}
     IN  overlapped' = IF others = {} THEN overlapped
                       ELSE overlapped \union others \union {d}
  /\ UNCHANGED <<version, connVars, uiVars>>

\* UnixListener::bind fails when the path has come back; spawn follows.
Bind(d) ==
  /\ daemon[d] = "prepared"
  /\ IF path = 0 THEN Goes(d, "serving") /\ path' = d
                 ELSE Goes(d, "failed") /\ UNCHANGED path
  /\ UNCHANGED <<version, overlapped, connVars, uiVars>>

\* publish, to the snapshot and to the client if it is registered.
Publish(d) ==
  /\ daemon[d] = "serving"
  /\ FoldFunction(+, 0, version) < EventCap
  /\ version' = [version EXCEPT ![d] = @ + 1]
  /\ socket' = IF conn = d /\ greeted /\ ~closed
               THEN Append(socket, Event(d, version'[d])) ELSE socket
  /\ UNCHANGED <<daemon, path, overlapped, conn, greeted,
                 closed, buffered, uiVars>>

(* The accept thread and handle_client.                                    *)
Greets ==
  /\ conn # 0 /\ ~greeted
  /\ daemon[conn] = "serving"
  /\ greeted' = TRUE
  /\ socket' = <<Snapshot(conn, version[conn])>>
  /\ UNCHANGED <<daemonVars, conn, closed, buffered, uiVars>>

(* stop: the accept thread is joined, and with it the listener closed.     *)
StopAccepting(d) ==
  /\ daemon[d] = "serving"
  /\ Goes(d, "stopping")
  /\ UNCHANGED <<path, version, overlapped, connVars, uiVars>>

\* stop removes the path, whoever bound it ...
RemovePath(d) ==
  /\ daemon[d] = "stopping"
  /\ Goes(d, "stopped")
  /\ path' = 0
  /\ UNCHANGED <<version, overlapped, connVars, uiVars>>

(* ... and Drop removes it again, when run_meeting returns; the process    *)
(* exits, which closes its connections.                                    *)
Exit(d) ==
  /\ daemon[d] = "stopped"
  /\ Goes(d, "gone")
  /\ path' = 0
  /\ UNCHANGED <<version, overlapped, connVars, uiVars>>

\* The process is killed: the file of its socket stays.
Crash(d) ==
  /\ Alive(d)
  /\ Goes(d, "gone")
  /\ UNCHANGED <<path, version, overlapped, connVars, uiVars>>

----------------------------------------------------------------------------
(* The IPC worker: spawn_ipc_worker and IpcClient.                         *)

\* What an update is about: the connected flag or the copy of the state.
About(update) == IF update.kind = "connected" THEN "flag" ELSE "copy"

\* update_tx.try_send: what does not fit is dropped.
Report(update) ==
  IF Len(updates) < UiCap
  THEN /\ updates' = Append(updates, update)
       /\ missed' = IF update.kind = "event" THEN missed
                    ELSE missed \ {About(update)}
  ELSE /\ missed' = missed \union {About(update)}
       /\ UNCHANGED updates

(* Before each attempt but the first the worker sleeps for 500 ms.  A file *)
(* without a listener behind it refuses the connection.                    *)
Connects ==
  /\ conn = 0
  /\ path \in Listeners
  /\ conn' = path /\ greeted' = FALSE /\ closed' = FALSE
  /\ socket' = << >> /\ buffered' = << >>
  /\ Report(Connected(TRUE))
  /\ UNCHANGED <<daemonVars, clicks, ui, clicked>>

\* The user interface is not told.
ConnectFails_Fault ==
  /\ conn = 0
  /\ path \notin Listeners
  /\ UNCHANGED appVars

ConnectFails ==
  /\ conn = 0
  /\ path \notin Listeners
  /\ Report(Connected(FALSE))
  /\ UNCHANGED <<daemonVars, connVars, clicks, ui, clicked>>

(* An action is sent, or lost with the connection; a failing write only    *)
(* ends the loop over the actions.  A daemon whose action channel is full  *)
(* gives the connection up (ActionBackpressure); what another one does     *)
(* about the action is MeetingDaemon, here it may stop at any time.        *)
SendAction ==
  /\ conn # 0
  /\ clicks # << >>
  /\ clicks' = Tail(clicks)
  /\ closed' \in (IF AtEnd THEN {closed} ELSE {closed, TRUE})
  /\ UNCHANGED <<daemonVars, conn, greeted, socket, buffered, updates, ui,
                 clicked, missed>>

\* Each call has a reader of its own, and what that had read ahead is lost.
Receive_Fault ==
  /\ conn # 0
  /\ socket # << >>
  /\ \E n \in 1..Len(socket) :
       /\ Report(Head(socket))
       /\ socket' = SubSeq(socket, n + 1, Len(socket))
  /\ UNCHANGED <<daemonVars, conn, greeted, closed, buffered, clicks, ui,
                 clicked>>

(* recv_event_timeout polls the socket, and only the socket; then a line   *)
(* is taken from what was read ahead or, when that is empty, from the      *)
(* socket, which is read ahead as far as the buffer goes.                  *)
Receive ==
  /\ conn # 0
  /\ socket # << >> \/ (AtEnd /\ buffered # << >>)
  /\ IF buffered # << >>
     THEN /\ Report(Head(buffered))
          /\ buffered' = Tail(buffered)
          /\ UNCHANGED socket
     ELSE \E n \in 1..Len(socket) :
            /\ Report(Head(socket))
            /\ buffered' = SubSeq(socket, 2, n)
            /\ socket' = SubSeq(socket, n + 1, Len(socket))
  /\ UNCHANGED <<daemonVars, conn, greeted, closed, clicks, ui, clicked>>

(* The read meets the end of the stream.  The user interface is told of a  *)
(* lost connection only when the next one fails.                           *)
Lost ==
  /\ conn # 0
  /\ AtEnd /\ socket = << >> /\ buffered = << >>
  /\ conn' = 0 /\ greeted' = FALSE /\ closed' = FALSE
  /\ UNCHANGED <<daemonVars, socket, buffered, uiVars>>

----------------------------------------------------------------------------
(* The user interface: the tick every 50 ms, and a button.                 *)

\* One update applied to what is rendered.
Rendered(state, update) ==
  CASE update.kind = "connected" -> [state EXCEPT !.connected = update.value]
    [] update.kind = "snapshot"  -> [state EXCEPT !.of = update.of,
                                                  !.n = update.n,
                                                  !.whole = TRUE]
    [] update.kind = "event"     ->
         [state EXCEPT !.n = update.n,
                       !.whole = @ /\ state.of = update.of
                                   /\ state.n + 1 = update.n]

\* A batch of updates, one after the other.
AllRendered(state, batch) ==
  LET after[n \in 0..Len(batch)] ==
        IF n = 0 THEN state ELSE Rendered(after[n - 1], batch[n])
  IN  after[Len(batch)]

Tick ==
  /\ updates # << >>
  /\ ui' = AllRendered(ui, updates)
  /\ updates' = << >>
  /\ UNCHANGED <<daemonVars, connVars, clicks, clicked, missed>>

ClickStop ==
  /\ clicked < UserCap
  /\ clicked' = clicked + 1
  /\ clicks' = IF Len(clicks) < ClickCap THEN Append(clicks, "stop") ELSE clicks
  /\ UNCHANGED <<daemonVars, connVars, updates, ui, missed>>

Overlay == Connects \/ ConnectFails \/ Receive \/ Lost

AppNext ==
  \/ \E d \in Daemons :
       Prepare(d) \/ Bind(d) \/ Publish(d) \/ StopAccepting(d) \/ RemovePath(d)
         \/ Exit(d) \/ Crash(d)
  \/ Greets
  \/ Overlay \/ SendAction
  \/ Tick \/ ClickStop

AppSpec == AppInit /\ [][AppNext]_appVars

\* What the main thread of a daemon has begun it goes on with.
Proceed(d) == Bind(d) \/ RemovePath(d) \/ Exit(d)

(* The overlay's two threads and the server's run; a start or a stop that  *)
(* has begun ends.  Nobody owes a start, a stop, a crash or an event.      *)
AppFairness ==
  /\ WF_appVars(Overlay) /\ WF_appVars(SendAction) /\ WF_appVars(Tick)
  /\ WF_appVars(Greets)
  /\ \A d \in Daemons : WF_appVars(Proceed(d))

FairAppSpec == AppSpec /\ AppFairness

----------------------------------------------------------------------------
(* A daemon that had the path to itself all its life got its socket and    *)
(* keeps it: neither the file a crash left nor the removals of a daemon    *)
(* before it take it away.  With two daemons alive at a time this is lost: *)
(* a start removes the socket of the other, and so does an end.            *)
AloneIsReachable ==
  \A d \in Daemons \ overlapped :
    /\ daemon[d] # "failed"
    /\ daemon[d] = "serving" => path = d

(* What the user is shown is one state of one daemon, as it was at some    *)
(* time, and never a mix of two connections, unless the queue overflowed   *)
(* since the last snapshot.                                                *)
ShownIsOneState ==
  "copy" \in missed \/ AllRendered(ui, updates).whole

\* The last events were read ahead and nothing has come since.
HeldBack == buffered # << >> /\ socket = << >>

Shows(d) ==
  /\ ui.connected /\ ui.whole
  /\ ui.of = d /\ ui.n = version[d]

(* A daemon that is left alone and stays is found, and its state shown;    *)
(* when all daemons are gone the overlay says so.  The exceptions are two  *)
(* weaknesses of the code: an update the queue had no room for is not made *)
(* up for, and the end of a burst of events waits in the reader's buffer   *)
(* until another event comes.                                              *)
OverlayCatchesUp ==
  /\ \A d \in Daemons :
       <>[](path = d /\ daemon[d] = "serving"
              /\ \A e \in Daemons \ {d} : ~Alive(e))
         => <>(Shows(d) \/ missed # {} \/ HeldBack)
  /\ <>[](\A d \in Daemons : ~Alive(d)) => <>[](~ui.connected)
============================================================================
