----------------------------- MODULE OverlayIpc -----------------------------
(***************************************************************************)
(* The Unix-socket server between the daemon and its overlays              *)
(* (parliant-ipc).  Publishers are the daemon threads that call `publish`; *)
(* every connection has a handler thread, which greets the client with a   *)
(* snapshot, registers its bounded queue and then reads actions, and a     *)
(* writer thread, which moves events from the queue to the socket.         *)
(*                                                                         *)
(* A connection is used once: an overlay that reconnects is the next one.  *)
(* The kernel's socket buffer is `wire`, with room for WireCap events; the *)
(* event a writer thread holds while it is blocked is counted there.       *)
(* Framing, versions and peer credentials are left out: a frame that is    *)
(* refused ends the connection like a client that leaves.                  *)
(***************************************************************************)
EXTENDS Naturals, Sequences, OverlaySnapshot

CONSTANTS
  Publishers,       (* threads that publish                                *)
  Conns,            (* connections                                         *)
  Published,        (* the events that may be published                    *)
  QueueCap,         (* queue_capacity of a client                          *)
  ActionCap,        (* action_capacity                                     *)
  WireCap,          (* events the socket buffer takes                      *)
  PublishCap,       (* bound of the model: events published                *)
  SendCap           (* bound of the model: actions a client sends          *)

ASSUME IpcConfig ==
  /\ QueueCap \in Nat \ {0}
  /\ ActionCap \in Nat \ {0}
  /\ WireCap \in Nat \ {0}
  /\ PublishCap \in Nat
  /\ SendCap \in Nat
  /\ Published \subseteq DaemonEvents

VARIABLES
  snapshot,         (* the server's snapshot                               *)
  fanout,           (* the event a publisher has applied but not sent out  *)
  clients,          (* the connections in the clients vector               *)
  handler,          (* program counter of each handler thread              *)
  queue,            (* the bounded channel to each writer thread           *)
  writer,           (* state of each writer thread                         *)
  wire,             (* events written to the socket and not yet read       *)
  peer,             (* the client's end of each connection                 *)
  view,             (* the client's copy of the snapshot                   *)
  uplink,           (* actions a client has sent and nobody has read       *)
  actions,          (* the daemon's action channel                         *)
  published,        (* bound of the model: events published                *)
  sent,             (* bound of the model: actions each client has sent    *)
  greeting,         (* connections between the clone of the snapshot and   *)
                    (* their registration                                  *)
  torn,             (* history: connections whose greeting overlapped a    *)
                    (* publish, or that shared a fan-out of two publishers *)
  taken,            (* history: actions the daemon took from each client   *)
  evicted           (* history: connections dropped by publish             *)

vars == <<snapshot, fanout, clients, handler, queue, writer, wire, peer, view,
          uplink, actions, published, sent, greeting, torn, taken, evicted>>
clientVars == <<peer, view, uplink, sent>>

Nothing == [kind |-> "nothing"]
Publishing == {p \in Publishers : fanout[p] # Nothing}

----------------------------------------------------------------------------
Init ==
  /\ snapshot = EmptySnapshot
  /\ fanout = [p \in Publishers |-> Nothing]
  /\ clients = {}
  /\ handler = [c \in Conns |-> "unborn"]
  /\ queue = [c \in Conns |-> << >>]
  /\ writer = [c \in Conns |-> "unborn"]
  /\ wire = [c \in Conns |-> << >>]
  /\ peer = [c \in Conns |-> "unborn"]
  /\ view = [c \in Conns |-> EmptySnapshot]
  /\ uplink = [c \in Conns |-> << >>]
  /\ actions = << >>
  /\ published = 0
  /\ sent = [c \in Conns |-> 0]
  /\ greeting = {}
  /\ torn = {}
  /\ taken = [c \in Conns |-> 0]
  /\ evicted = {}

(* publish, first half: the event is applied to the snapshot and the lock  *)
(* on the snapshot is released.                                            *)
PublishApply(p, event) ==
  /\ fanout[p] = Nothing
  /\ published < PublishCap
  /\ published' = published + 1
  /\ snapshot' = Apply(snapshot, event)
  /\ fanout' = [fanout EXCEPT ![p] = event]
  /\ torn' = torn \union greeting
                  \union (IF Publishing = {} THEN {} ELSE clients)
  /\ UNCHANGED <<clients, handler, queue, writer, wire, clientVars, actions,
                 greeting, evicted, taken>>

\* try_send fails on a full channel and on one without a receiver.
Accepts(c) == Len(queue[c]) < QueueCap /\ writer[c] # "dead"

\* A client that cannot take the event misses it and stays registered.
PublishFanout_Fault(p) ==
  /\ fanout[p] # Nothing
  /\ queue' = [c \in Conns |-> IF c \in clients /\ Accepts(c)
                               THEN Append(queue[c], fanout[p]) ELSE queue[c]]
  /\ fanout' = [fanout EXCEPT ![p] = Nothing]
  /\ UNCHANGED <<snapshot, clients, handler, writer, wire, clientVars, actions,
                 published, greeting, torn, evicted, taken>>

(* publish, second half, under the lock on the clients: each client takes  *)
(* the event or is dropped from the vector, and with it its queue's sender.*)
PublishFanout(p) ==
  LET kept == {c \in clients : Accepts(c)}
  IN  /\ fanout[p] # Nothing
      /\ queue' = [c \in Conns |-> IF c \in kept
                                   THEN Append(queue[c], fanout[p])
                                   ELSE queue[c]]
      /\ clients' = kept
      /\ evicted' = evicted \union (clients \ kept)
      /\ fanout' = [fanout EXCEPT ![p] = Nothing]
      /\ UNCHANGED <<snapshot, handler, writer, wire, clientVars, actions,
                     published, greeting, torn, taken>>

----------------------------------------------------------------------------
(* A client connects; the accept thread spawns a handler thread for it.    *)
Connect(c) ==
  /\ peer[c] = "unborn"
  /\ peer' = [peer EXCEPT ![c] = "open"]
  /\ handler' = [handler EXCEPT ![c] = "accepted"]
  /\ UNCHANGED <<snapshot, fanout, clients, queue, writer, wire, view, uplink,
                 actions, published, sent, greeting, torn, evicted, taken>>

(* handle_client clones the snapshot under its lock, releases the lock and *)
(* puts the clone first into the new queue ...                             *)
Greet(c) ==
  /\ handler[c] = "accepted"
  /\ handler' = [handler EXCEPT ![c] = "greeted"]
  /\ queue' = [queue EXCEPT ![c] = <<SnapshotOf(snapshot)>>]
  /\ greeting' = greeting \union {c}
  /\ torn' = torn \union (IF Publishing = {} THEN {} ELSE {c})
  /\ UNCHANGED <<snapshot, fanout, clients, writer, wire, clientVars, actions,
                 published, evicted, taken>>

(* ... then registers the queue and spawns the writer thread.              *)
Register(c) ==
  /\ handler[c] = "greeted"
  /\ handler' = [handler EXCEPT ![c] = "reading"]
  /\ clients' = clients \union {c}
  /\ writer' = [writer EXCEPT ![c] = "running"]
  /\ greeting' = greeting \ {c}
  /\ UNCHANGED <<snapshot, fanout, queue, wire, clientVars, actions, published,
                 torn, evicted, taken>>

\* The reader leaves the loop: the queue's sender is dropped and the thread
\* goes on to join the writer.
LeaveLoop(c) ==
  /\ handler' = [handler EXCEPT ![c] = "joining"]
  /\ clients' = clients \ {c}

\* A full action channel makes room by losing its oldest action.
ReadAction_Fault(c) ==
  /\ handler[c] = "reading"
  /\ uplink[c] # << >>
  /\ uplink' = [uplink EXCEPT ![c] = Tail(@)]
  /\ actions' = IF Len(actions) < ActionCap
                THEN Append(actions, [conn |-> c, n |-> Head(uplink[c])])
                ELSE Append(Tail(actions), [conn |-> c, n |-> Head(uplink[c])])
  /\ UNCHANGED <<snapshot, fanout, clients, handler, queue, writer, wire, peer,
                 view, published, sent, greeting, torn, evicted, taken>>

(* The read loop: an action goes to the daemon, a full action channel ends *)
(* the connection (ActionBackpressure).                                    *)
ReadAction(c) ==
  /\ handler[c] = "reading"
  /\ uplink[c] # << >>
  /\ uplink' = [uplink EXCEPT ![c] = Tail(@)]
  /\ IF Len(actions) < ActionCap
     THEN /\ actions' = Append(actions, [conn |-> c, n |-> Head(uplink[c])])
          /\ UNCHANGED <<handler, clients>>
     ELSE LeaveLoop(c) /\ UNCHANGED actions
  /\ UNCHANGED <<snapshot, fanout, queue, writer, wire, peer, view, published,
                 sent, greeting, torn, evicted, taken>>

(* The read loop meets the end of the stream.                              *)
ReadEnd(c) ==
  /\ handler[c] = "reading"
  /\ uplink[c] = << >>
  /\ peer[c] = "closed"
  /\ LeaveLoop(c)
  /\ UNCHANGED <<snapshot, fanout, queue, writer, wire, clientVars, actions,
                 published, greeting, torn, evicted, taken>>

(* writer.join returns; with the handler's end of the stream the           *)
(* connection is closed.                                                   *)
Join(c) ==
  /\ handler[c] = "joining"
  /\ writer[c] = "dead"
  /\ handler' = [handler EXCEPT ![c] = "ended"]
  /\ UNCHANGED <<snapshot, fanout, clients, queue, writer, wire, clientVars,
                 actions, published, greeting, torn, evicted, taken>>

(* The writer thread: it writes while the socket takes data, stops at the  *)
(* first failing write, and ends when the sender is gone and the queue is  *)
(* empty.                                                                  *)
WriterWrites(c) ==
  /\ writer[c] = "running"
  /\ queue[c] # << >>
  /\ peer[c] = "open" => Len(wire[c]) < WireCap
  /\ queue' = [queue EXCEPT ![c] = Tail(@)]
  /\ IF peer[c] = "open"
     THEN /\ wire' = [wire EXCEPT ![c] = Append(@, Head(queue[c]))]
          /\ UNCHANGED writer
     ELSE writer' = [writer EXCEPT ![c] = "dead"] /\ UNCHANGED wire
  /\ UNCHANGED <<snapshot, fanout, clients, handler, clientVars, actions,
                 published, greeting, torn, evicted, taken>>

\* A writer thread does not notice that its sender is gone.
WriterEnds_Fault(c) ==
  /\ writer[c] = "running"
  /\ queue[c] = << >>
  /\ c \notin clients
  /\ peer[c] = "open"
  /\ writer' = [writer EXCEPT ![c] = "dead"]
  /\ UNCHANGED <<snapshot, fanout, clients, handler, queue, wire, clientVars,
                 actions, published, greeting, torn, evicted, taken>>

WriterEnds(c) ==
  /\ writer[c] = "running"
  /\ queue[c] = << >>
  /\ c \notin clients
  /\ writer' = [writer EXCEPT ![c] = "dead"]
  /\ UNCHANGED <<snapshot, fanout, clients, handler, queue, wire, clientVars,
                 actions, published, greeting, torn, evicted, taken>>

----------------------------------------------------------------------------
(* The overlay's end of a connection (external to the server).             *)

ClientReceives(c) ==
  /\ peer[c] = "open"
  /\ wire[c] # << >>
  /\ view' = [view EXCEPT ![c] = Apply(@, Head(wire[c]))]
  /\ wire' = [wire EXCEPT ![c] = Tail(@)]
  /\ UNCHANGED <<snapshot, fanout, clients, handler, queue, writer, peer,
                 uplink, actions, published, sent, greeting, torn, evicted, taken>>

ClientSends(c) ==
  /\ peer[c] = "open"
  /\ handler[c] # "ended"
  /\ sent[c] < SendCap
  /\ sent' = [sent EXCEPT ![c] = @ + 1]
  /\ uplink' = [uplink EXCEPT ![c] = Append(@, sent[c] + 1)]
  /\ UNCHANGED <<snapshot, fanout, clients, handler, queue, writer, wire, peer,
                 view, actions, published, greeting, torn, evicted, taken>>

(* The overlay quits, or reads the end of a connection the server closed.  *)
ClientLeaves(c) ==
  /\ peer[c] = "open"
  /\ peer' = [peer EXCEPT ![c] = "closed"]
  /\ UNCHANGED <<snapshot, fanout, clients, handler, queue, writer, wire, view,
                 uplink, actions, published, sent, greeting, torn, evicted, taken>>

(* The pipeline thread takes an action (recv_action_timeout).              *)
TakeAction ==
  /\ actions # << >>
  /\ actions' = Tail(actions)
  /\ taken' = [taken EXCEPT ![Head(actions).conn] = Head(actions).n]
  /\ UNCHANGED <<snapshot, fanout, clients, handler, queue, writer, wire,
                 clientVars, published, greeting, torn, evicted>>

Server(c) ==
  Greet(c) \/ Register(c) \/ ReadAction(c) \/ ReadEnd(c) \/ Join(c)
    \/ WriterWrites(c) \/ WriterEnds(c)

Next ==
  \/ \E p \in Publishers, event \in Published : PublishApply(p, event)
  \/ \E p \in Publishers : PublishFanout(p)
  \/ \E c \in Conns :
       Connect(c) \/ Server(c) \/ ClientReceives(c) \/ ClientSends(c)
         \/ ClientLeaves(c)
  \/ TakeAction

Spec == Init /\ [][Next]_vars

(* Every server thread that can go on does, publishers finish, the         *)
(* pipeline thread takes actions and the overlay reads what it is sent.    *)
Fairness ==
  /\ \A p \in Publishers : WF_vars(PublishFanout(p))
  /\ WF_vars(TakeAction)
  /\ \A c \in Conns :
       /\ WF_vars(Greet(c) \/ Register(c) \/ ReadAction(c) \/ ReadEnd(c)
                    \/ Join(c))
       /\ WF_vars(WriterWrites(c) \/ WriterEnds(c))
       /\ WF_vars(ClientReceives(c))

FairSpec == Spec /\ Fairness

----------------------------------------------------------------------------
TypeOK ==
  /\ snapshot \in Snapshots
  /\ fanout \in [Publishers -> {Nothing} \union DaemonEvents]
  /\ clients \subseteq Conns
  /\ handler \in [Conns -> {"unborn", "accepted", "greeted", "reading",
                            "joining", "ended"}]
  /\ queue \in [Conns -> Seq(DaemonEvents)]
  /\ wire \in [Conns -> Seq(DaemonEvents)]
  /\ writer \in [Conns -> {"unborn", "running", "dead"}]
  /\ peer \in [Conns -> {"unborn", "open", "closed"}]
  /\ view \in [Conns -> Snapshots]
  /\ uplink \in [Conns -> Seq(Nat)]
  /\ actions \in Seq([conn : Conns, n : Nat])
  /\ sent \in [Conns -> Nat] /\ taken \in [Conns -> Nat]
  /\ torn \subseteq Conns /\ evicted \subseteq Conns

\* The snapshot a client that shows `state` has after more events.
Replay(state, events) ==
  LET after[n \in 0..Len(events)] ==
        IF n = 0 THEN state ELSE Apply(after[n - 1], events[n])
  IN  after[Len(events)]

(* As long as a client is registered, what it has and what is on its way,  *)
(* the event a publisher has yet to send out included, rebuild the         *)
(* server's snapshot: it misses no event and receives none twice.  The     *)
(* clients excepted are those whose greeting overlapped a publish and      *)
(* those that saw two publishers overlap.                                  *)
StreamRebuildsSnapshot ==
  \A c \in clients \ torn :
    peer[c] = "open" =>
      LET received == Replay(view[c], wire[c] \o queue[c])
      IN  /\ Publishing = {} => received = snapshot
          /\ \A p \in Publishing : Apply(received, fanout[p]) = snapshot

(* The same without the exception, for a connection at rest: the overlay   *)
(* shows what the server's snapshot says.                                  *)
RestingViewAgrees ==
  \A c \in clients :
    peer[c] = "open" /\ wire[c] = << >> /\ queue[c] = << >> /\ Publishing = {}
      => view[c] = snapshot

(* The daemon takes from each connection the actions in the order they     *)
(* were sent and without a gap: an action that finds the channel full is   *)
(* the last one of its connection.                                         *)
ActionsWithoutGap ==
  \A c \in Conns :
    LET mine == {i \in 1..Len(actions) : actions[i].conn = c}
    IN  /\ \A i, j \in mine : i < j => actions[i].n < actions[j].n
        /\ \E last \in taken[c]..sent[c] :
             /\ {actions[i].n : i \in mine} = (taken[c] + 1)..last
             /\ handler[c] = "reading" /\ uplink[c] # << >> =>
                  Head(uplink[c]) = last + 1

(* A connection the client has left, or whose reader has given up, is      *)
(* wound up: both its threads end.                                         *)
ClosingEnds ==
  \A c \in Conns :
    [](\/ handler[c] = "joining"
       \/ peer[c] = "closed" /\ handler[c] # "unborn"
       => <>(handler[c] = "ended"))

(* "disconnects slow clients": a client that publish has dropped loses its *)
(* connection, so that the overlay can reconnect and get a new snapshot.   *)
EvictedIsDisconnected ==
  \A c \in Conns :
    [](c \in evicted => <>(handler[c] = "ended" \/ peer[c] = "closed"))
============================================================================
