----------------------------- MODULE RemoteBridge -----------------------------
(***************************************************************************)
(* The loopback bridge of parliant-remote-mcp: a thread that accepts       *)
(* connections into a bounded queue, workers that share the receiving end  *)
(* of that queue under a mutex and answer one request each, and the calls  *)
(* revoke and stop, made by other threads at any moment.                   *)
(*                                                                         *)
(* What a request looks like to the bridge is RemoteRequest; how the bytes *)
(* of one are split over the reads is open.  A connection is what has      *)
(* become of it: in the end, the status of the answer.                     *)
(***************************************************************************)
EXTENDS RemoteRequest, FiniteSets

CONSTANTS
  Conns,            (* connections that clients may make                   *)
  RequestsOf,       (* the requests a client may send on each              *)
  Scratch,          (* the most bytes one read takes                       *)
  Workers,
  QueueCap          (* connection_queue                                    *)

ASSUME BridgeConfig ==
  /\ {QueueCap, Scratch} \subseteq Nat \ {0}
  /\ IsFiniteSet(Workers) /\ Workers # {}
  /\ \A c \in Conns : RequestsOf[c] \subseteq Requests

VARIABLES
  shutdown, revoked, lifecycle,      (* flags shared with the threads      *)
  accepted, rejected,                (* SharedStatus                       *)
  queue,            (* the channel between accept thread and workers       *)
  lock,             (* the worker that holds the mutex on its receiver     *)
  acceptor,         (* state of the accept thread                          *)
  worker,           (* program counters of the workers                     *)
  held,             (* the connection a worker is dealing with             *)
  got,              (* bytes of its request that it has read               *)
  request,          (* what the client sends on each connection            *)
  revoker, stopper, (* program counters of the callers of revoke and stop  *)
  phase,            (* what has become of each connection                  *)
  late              (* history: not yet checked when the token was revoked *)

flagVars == <<shutdown, revoked, lifecycle>>
connVars == <<phase, request>>
statusVars == <<accepted, rejected>>
callVars == <<revoker, stopper, late>>
workerVars == <<lock, worker, held, got>>
vars == <<flagVars, statusVars, queue, acceptor, workerVars, callVars, connVars>>

Nobody == "nobody"
Nothing == [head |-> 0, declared |-> 0, sent |-> 0, faults |-> {}]

----------------------------------------------------------------------------
Init ==
  /\ shutdown = FALSE
  /\ revoked = FALSE
  /\ lifecycle = "listening"
  /\ accepted = 0
  /\ rejected = 0
  /\ queue = << >>
  /\ lock = Nobody
  /\ acceptor = "running"
  /\ worker = [w \in Workers |-> "top"]
  /\ held = [w \in Workers |-> Nobody]
  /\ got = [w \in Workers |-> 0]
  /\ request = [c \in Conns |-> Nothing]
  /\ revoker = "idle"
  /\ stopper = "idle"
  /\ phase = [c \in Conns |-> "unborn"]
  /\ late = {}

Becomes(c, what) ==
  /\ phase' = [phase EXCEPT ![c] = what]
  /\ UNCHANGED request

\* Every connection in phase `from` is closed without an answer.
DropAll(from) ==
  /\ phase' = [c \in Conns |-> IF phase[c] = from THEN "dropped" ELSE phase[c]]
  /\ UNCHANGED request

----------------------------------------------------------------------------
(* The accept thread. *)

(* A client connects while the listener is open; the kernel holds the      *)
(* connection until it is accepted.                                        *)
Connect(c) ==
  /\ acceptor = "running"
  /\ phase[c] = "unborn"
  /\ phase' = [phase EXCEPT ![c] = "backlog"]
  /\ \E req \in RequestsOf[c] : request' = [request EXCEPT ![c] = req]
  /\ UNCHANGED <<flagVars, statusVars, queue, acceptor, workerVars, callVars>>

ReceiverGone == \A w \in Workers : worker[w] = "returned"

AcceptQueued(c) ==
  /\ acceptor = "running"
  /\ phase[c] = "backlog"
  /\ ~ReceiverGone
  /\ Len(queue) < QueueCap
  /\ queue' = Append(queue, c)
  /\ Becomes(c, "queued")
  /\ UNCHANGED <<flagVars, statusVars, acceptor, workerVars, callVars>>

\* The bridge is busy: the accept thread answers 503 itself.
AcceptFull(c) ==
  /\ acceptor = "running"
  /\ phase[c] = "backlog"
  /\ ~ReceiverGone
  /\ Len(queue) >= QueueCap
  /\ rejected' = rejected + 1
  /\ Becomes(c, "503")
  /\ UNCHANGED <<flagVars, accepted, queue, acceptor, workerVars, callVars>>

AcceptEnds ==
  /\ acceptor = "running"
  /\ acceptor' = "returned"
  /\ DropAll("backlog")
  /\ UNCHANGED <<flagVars, statusVars, queue, workerVars, callVars>>

\* accept blocks: the flag is only looked at after a connection.
AcceptStops_Fault ==
  /\ shutdown
  /\ \E c \in Conns : phase[c] = "backlog"
  /\ AcceptEnds

\* The loop finds the flag, at the latest after its sleep of 20 ms.
AcceptStops == shutdown /\ AcceptEnds

\* try_send finds no receiver, or accept fails for good: nobody is told.
AcceptGivesUp == AcceptEnds

----------------------------------------------------------------------------
(* The workers.  Their program counter:                                    *)
(*   top         the head of the loop, before the shutdown check           *)
(*   locking     waiting for the mutex on the receiver                     *)
(*   receiving   in recv_timeout, holding the mutex                        *)
(*   reading     in read_http_request                                      *)
(*   routing     in route_request, before the check of the revocation      *)
(*   serving     behind it                                                 *)
(*   counting    the answer is written, the counters are not               *)
(*   returned                                                              *)

Goto(w, pc) == worker' = [worker EXCEPT ![w] = pc]

(* The last worker to return takes the receiver with it, and the           *)
(* connections that are still queued.                                      *)
Return(w) ==
  /\ Goto(w, "returned")
  /\ IF \A v \in Workers \ {w} : worker[v] = "returned"
     THEN queue' = << >> /\ DropAll("queued")
     ELSE UNCHANGED <<queue, connVars>>

LoopTop(w) ==
  /\ worker[w] = "top"
  /\ IF shutdown THEN Return(w)
     ELSE Goto(w, "locking") /\ UNCHANGED <<queue, connVars>>
  /\ UNCHANGED <<flagVars, statusVars, acceptor, lock, held, got, callVars>>

Lock(w) ==
  /\ worker[w] = "locking"
  /\ lock = Nobody
  /\ lock' = w
  /\ Goto(w, "receiving")
  /\ UNCHANGED <<flagVars, statusVars, queue, acceptor, held, got, callVars,
                 connVars>>

(* recv_timeout returns a connection: also to a worker that waited for the *)
(* mutex when the shutdown began.                                          *)
Take(w) ==
  /\ worker[w] = "receiving"
  /\ queue # << >>
  /\ queue' = Tail(queue)
  /\ held' = [held EXCEPT ![w] = Head(queue)]
  /\ got' = [got EXCEPT ![w] = 0]
  /\ lock' = Nobody
  /\ Goto(w, "reading")
  /\ Becomes(Head(queue), "held")
  /\ UNCHANGED <<flagVars, statusVars, acceptor, callVars>>

\* 100 ms have passed, or the sender is gone and the queue empty.
TakeNothing(w) ==
  /\ worker[w] = "receiving"
  /\ queue = << >>
  /\ lock' = Nobody
  /\ IF acceptor = "returned" THEN Return(w)
     ELSE Goto(w, "top") /\ UNCHANGED <<queue, connVars>>
  /\ UNCHANGED <<flagVars, statusVars, acceptor, held, got, callVars>>

\* handle_connection writes its answer, or fails to, and returns.
Answer(w, status) ==
  /\ Becomes(held[w], status)
  /\ Goto(w, "counting")

\* A request that is refused takes its worker with it.
Read_Fault(w) ==
  LET req == request[held[w]]
  IN  /\ worker[w] = "reading"
      /\ \E n \in 1..Min({Scratch, req.sent - got[w]}) :
           got' = [got EXCEPT ![w] = @ + n]
      /\ LET verdict == Verdict(req, got'[w])
         IN  CASE verdict = "more"  -> UNCHANGED <<worker, connVars>>
               [] verdict = "whole" -> Goto(w, "routing") /\ UNCHANGED connVars
               [] OTHER -> Becomes(held[w], verdict) /\ Goto(w, "returned")
      /\ UNCHANGED <<flagVars, statusVars, queue, acceptor, lock, held,
                     callVars>>

(* One read of read_http_request returns what has arrived.                 *)
Read(w) ==
  LET req == request[held[w]]
  IN  /\ worker[w] = "reading"
      /\ \E n \in 1..Min({Scratch, req.sent - got[w]}) :
           got' = [got EXCEPT ![w] = @ + n]
      /\ LET verdict == Verdict(req, got'[w])
         IN  CASE verdict = "more"  -> UNCHANGED <<worker, connVars>>
               [] verdict = "whole" -> Goto(w, "routing") /\ UNCHANGED connVars
               [] OTHER             -> Answer(w, verdict)
      /\ UNCHANGED <<flagVars, statusVars, queue, acceptor, lock, held,
                     callVars>>

\* The client has closed the connection, or the read meets its deadline.
ReadEnds(w) ==
  /\ worker[w] = "reading"
  /\ got[w] = request[held[w]].sent
  /\ Answer(w, "400")
  /\ UNCHANGED <<flagVars, statusVars, queue, acceptor, lock, held, got,
                 callVars>>

\* The flag is set, but no request looks at it.
Route_Fault(w) ==
  LET req == request[held[w]]
  IN  /\ worker[w] = "routing"
      /\ IF ~Passes(req, AddressChecks)
         THEN Answer(w, Refusal(req, AddressChecks))
         ELSE Goto(w, "serving") /\ UNCHANGED connVars
      /\ UNCHANGED <<flagVars, statusVars, queue, acceptor, lock, held, got,
                     callVars>>

\* route_request up to the check of the revocation.
Route(w) ==
  LET req == request[held[w]]
  IN  /\ worker[w] = "routing"
      /\ IF ~Passes(req, AddressChecks)
         THEN Answer(w, Refusal(req, AddressChecks))
         ELSE IF revoked THEN Answer(w, "401")
         ELSE Goto(w, "serving") /\ UNCHANGED connVars
      /\ UNCHANGED <<flagVars, statusVars, queue, acceptor, lock, held, got,
                     callVars>>

(* The other checks, up to the meeting tools that answer (delegate) and    *)
(* fail when their response is too large.                                  *)
Serve(w) ==
  LET req == request[held[w]]
  IN  /\ worker[w] = "serving"
      /\ Answer(w, IF Passes(req, RequestChecks) THEN "200"
                   ELSE Refusal(req, RequestChecks))
      /\ UNCHANGED <<flagVars, statusVars, queue, acceptor, lock, held, got,
                     callVars>>

Count(w) ==
  /\ worker[w] = "counting"
  /\ IF phase[held[w]] = "200"
     THEN accepted' = accepted + 1 /\ UNCHANGED rejected
     ELSE rejected' = rejected + 1 /\ UNCHANGED accepted
  /\ held' = [held EXCEPT ![w] = Nobody]
  /\ got' = [got EXCEPT ![w] = 0]
  /\ Goto(w, "top")
  /\ UNCHANGED <<flagVars, queue, acceptor, lock, callVars, connVars>>

Worker(w) ==
  \/ LoopTop(w) \/ Lock(w) \/ Take(w) \/ TakeNothing(w)
  \/ Read(w) \/ ReadEnds(w) \/ Route(w) \/ Serve(w) \/ Count(w)

----------------------------------------------------------------------------
(* revoke and stop. *)

Answered(c) == phase[c] \in Statuses

\* The check of the revocation lies behind this connection.
Checked(c) ==
  \/ Answered(c)
  \/ \E w \in Workers : held[w] = c /\ worker[w] = "serving"

Revoke ==
  /\ revoker = "idle"
  /\ revoker' = "storing"
  /\ revoked' = TRUE
  /\ late' = {c \in Conns : ~Checked(c)}
  /\ UNCHANGED <<shutdown, lifecycle, statusVars, queue, acceptor, workerVars,
                 stopper, connVars>>

RevokeStores ==
  /\ revoker = "storing"
  /\ revoker' = "done"
  /\ lifecycle' = "revoked"
  /\ UNCHANGED <<shutdown, revoked, statusVars, queue, acceptor, workerVars,
                 stopper, late, connVars>>

\* stop, and the same again in Drop.
Stop ==
  /\ stopper = "idle"
  /\ stopper' = "storing"
  /\ shutdown' = TRUE
  /\ UNCHANGED <<revoked, lifecycle, statusVars, queue, acceptor, workerVars,
                 revoker, late, connVars>>

StopStores ==
  /\ stopper = "storing"
  /\ stopper' = "joining acceptor"
  /\ lifecycle' = "stopped"
  /\ UNCHANGED <<shutdown, revoked, statusVars, queue, acceptor, workerVars,
                 revoker, late, connVars>>

StopJoins ==
  /\ \/ /\ stopper = "joining acceptor"
        /\ acceptor = "returned"
        /\ stopper' = "joining workers"
     \/ /\ stopper = "joining workers"
        /\ ReceiverGone
        /\ stopper' = "done"
  /\ UNCHANGED <<flagVars, statusVars, queue, acceptor, workerVars, revoker,
                 late, connVars>>

----------------------------------------------------------------------------
Next ==
  \/ \E c \in Conns : Connect(c) \/ AcceptQueued(c) \/ AcceptFull(c)
  \/ AcceptStops \/ AcceptGivesUp
  \/ \E w \in Workers : Worker(w)
  \/ Revoke \/ RevokeStores
  \/ Stop \/ StopStores \/ StopJoins

Spec == Init /\ [][Next]_vars

(* The threads run.  A worker gets through a request: every read and write *)
(* has a deadline of three seconds and the size of a request is bounded.   *)
(* Nobody has to connect, to revoke or to stop.                            *)
Fairness ==
  /\ WF_vars(\E c \in Conns : AcceptQueued(c) \/ AcceptFull(c))
  /\ WF_vars(AcceptStops)
  /\ \A w \in Workers : WF_vars(Worker(w))
  /\ WF_vars(StopStores \/ StopJoins)

FairSpec == Spec /\ Fairness

----------------------------------------------------------------------------
TypeOK ==
  /\ shutdown \in BOOLEAN /\ revoked \in BOOLEAN
  /\ lifecycle \in {"listening", "revoked", "stopped"}
  /\ accepted \in Nat /\ rejected \in Nat
  /\ queue \in Seq(Conns) /\ Len(queue) <= QueueCap
  /\ lock \in Workers \union {Nobody}
  /\ acceptor \in {"running", "returned"}
  /\ worker \in [Workers -> {"top", "locking", "receiving", "reading",
                             "routing", "serving", "counting", "returned"}]
  /\ held \in [Workers -> Conns \union {Nobody}]
  /\ got \in [Workers -> Nat]
  /\ revoker \in {"idle", "storing", "done"}
  /\ stopper \in {"idle", "storing", "joining acceptor", "joining workers",
                  "done"}
  /\ phase \in [Conns -> {"unborn", "backlog", "queued", "held", "dropped"}
                          \union Statuses]
  /\ late \subseteq Conns

(* "Immediately revokes the current bridge token for all future requests": *)
(* a request that waits in the backlog, in the queue or half read when the *)
(* token is revoked is not served any more.                                *)
RevocationHolds == \A c \in late : phase[c] # "200"

\* The client sends one request within the limits, and nothing else.
Proper(req) ==
  /\ req.sent = Whole(req)
  /\ req.head <= MaxHeader /\ req.declared <= MaxBody
  /\ {"head", "text"} \intersect req.faults = {}

(* The answer is one that the request deserves, however its bytes were     *)
(* split over the reads.  Only a whole request that fails no check is      *)
(* served; a proper one is refused for a check that it fails, or for a     *)
(* revocation, and for nothing else; without the token nobody learns how   *)
(* the checks behind that of the token come out.  Bytes behind the body    *)
(* are the one thing that the split decides about: they are refused or     *)
(* never seen.                                                             *)
AnswerFitsRequest ==
  \A c \in Conns : LET req == request[c]
                       deserved == {StatusOf(k) : k \in req.faults}
    IN  /\ phase[c] = "200" => req.faults = {} /\ req.sent >= Whole(req)
        /\ Answered(c) /\ Proper(req) =>
             phase[c] \in deserved
                \union (IF req.faults = {} THEN {"200"} ELSE {})
                \union (IF revoked THEN {"401"} ELSE {})
                \union {"503"}
        /\ "token" \in req.faults => phase[c] \notin {"200", "403", "415", "500"}
        /\ phase[c] = "431" => req.head > MaxHeader

(* A connection that was queued is answered, also when the accept thread   *)
(* has died in the meantime: only a stop of the bridge takes it away.      *)
QueuedAreAnswered ==
  \A c \in Conns :
    [](phase[c] = "queued" =>
         <>(Answered(c) \/ (phase[c] = "dropped" /\ shutdown)))

(* stop returns: the workers hand the mutex on and find the flag, whatever *)
(* is queued and whoever is slow.                                          *)
StopCompletes == [](shutdown => <>(stopper = "done"))
============================================================================
