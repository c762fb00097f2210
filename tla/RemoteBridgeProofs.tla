------------------------- MODULE RemoteBridgeProofs -------------------------
(***************************************************************************)
(* The safety of the bridge, for any number of connections and workers,    *)
(* any requests and any split of their bytes over the reads.               *)
(*                                                                         *)
(* Both invariants are about what has become of a connection; why they     *)
(* hold is in what the worker that deals with it knows: that the token was *)
(* not revoked before its check (RevocationInv), and how much of the       *)
(* request it has read, with what verdict (AnswerInv).                     *)
(***************************************************************************)
EXTENDS RemoteBridge, FiniteSetsExt, SequenceTheorems, WellFoundedInduction,
        TLAPS

(* The least-number principle, for a set of natural numbers: it rests on   *)
(* the library's theorem that < is well-founded on them.                   *)
LEMMA LeastElement ==
  ASSUME NEW T, T \subseteq Nat, T # {}
  PROVE  \E x \in T : \A y \in T : x <= y
<1> DEFINE R == {p \in Nat \X Nat : p[1] < p[2]}
<1>1. IsWellFoundedOn(R, Nat)
  BY NatLessThanWellFounded DEF OpToRel
<1>2. PICK x \in T : \A y \in T : <<y, x>> \notin R
  <2> HIDE DEF R
  <2> QED BY <1>1, WFMin
<1>3. ASSUME NEW y \in T
      PROVE  x <= y
  <2>1. <<y, x>> \in Nat \X Nat
    OBVIOUS
  <2>2. ~(<<y, x>>[1] < <<y, x>>[2])
    BY <1>2, <2>1
  <2> QED BY <2>2
<1> QED BY <1>3

(* Min picks the least element of a set of natural numbers.                *)
LEMMA MinOfSet ==
  ASSUME NEW T, T \subseteq Nat, T # {}
  PROVE  Min(T) \in T /\ \A y \in T : Min(T) <= y
<1>1. \E x \in T : \A y \in T : x <= y
  BY LeastElement
<1> QED BY <1>1 DEF Min

(* Min of a pair, as used for the length of the shared tail.               *)
LEMMA MinOfTwo ==
  ASSUME NEW m \in Nat, NEW n \in Nat
  PROVE  Min({m, n}) = IF m <= n THEN m ELSE n
<1>1. {m, n} \subseteq Nat /\ {m, n} # {}
  OBVIOUS
<1>2. Min({m, n}) \in {m, n} /\ \A y \in {m, n} : Min({m, n}) <= y
  BY <1>1, MinOfSet
<1> QED BY <1>2

(* The status of a refusal is that of a check the request fails; when it   *)
(* fails the first check, it is the status of that one.                    *)
LEMMA RefusalStatus ==
  ASSUME NEW req, NEW checks, checks \in {AddressChecks, RequestChecks},
         ~Passes(req, checks)
  PROVE  /\ \E k \in req.faults : /\ \E i \in 1..Len(checks) : k = checks[i]
                                  /\ Refusal(req, checks) = StatusOf(k)
         /\ checks[1] \in req.faults =>
              Refusal(req, checks) = StatusOf(checks[1])
<1> DEFINE T == {i \in 1..Len(checks) : checks[i] \in req.faults}
<1>1. Len(checks) \in Nat \ {0}
  BY DEF AddressChecks, RequestChecks
<1>2. T \subseteq Nat /\ T # {}
  BY <1>1 DEF Passes
<1>3. Min(T) \in T /\ \A i \in T : Min(T) <= i
  <2> HIDE DEF T
  <2> QED BY <1>2, MinOfSet
<1>4. Refusal(req, checks) = StatusOf(checks[Min(T)])
  BY DEF Refusal
<1>5. ASSUME checks[1] \in req.faults
      PROVE  Min(T) = 1
  <2>1. 1 \in T
    BY <1>1, <1>5
  <2>2. Min(T) <= 1 /\ Min(T) \in 1..Len(checks)
    BY <1>3, <2>1
  <2> QED BY <1>1, <2>2
<1> QED BY <1>3, <1>4, <1>5

\* No check that fails lets a request through.
LEMMA RefusalRefuses ==
  ASSUME NEW req, NEW checks, checks \in {AddressChecks, RequestChecks},
         ~Passes(req, checks)
  PROVE  Refusal(req, checks) # "200"
<1>1. PICK k \in req.faults : /\ \E i \in 1..Len(checks) : k = checks[i]
                              /\ Refusal(req, checks) = StatusOf(k)
  BY RefusalStatus
<1>2. k \in {"method", "path", "token", "origins", "origin", "typed", "type",
             "protocol", "body", "exposed", "name", "tool", "response"}
  <2>1. CASE checks = AddressChecks
    BY <1>1, <2>1 DEF AddressChecks
  <2>2. CASE checks = RequestChecks
    BY <1>1, <2>2 DEF RequestChecks
  <2> QED BY <2>1, <2>2
<1> QED BY <1>1, <1>2 DEF StatusOf

----------------------------------------------------------------------------
(* The revocation. *)

RevocationInv ==
  /\ DOMAIN phase = Conns
  /\ DOMAIN worker = Workers
  /\ DOMAIN held = Workers
  /\ late \subseteq Conns
  /\ late # {} => revoked
  /\ RevocationHolds
  /\ \A w \in Workers : worker[w] = "serving" => held[w] \notin late

LEMMA RevocationWorker ==
  ASSUME RevocationInv, NEW w \in Workers, Worker(w)
  PROVE  RevocationInv'
<1> USE DEF RevocationInv, RevocationHolds, flagVars, callVars, connVars, Goto,
            Becomes, DropAll, Return, Answer
<1>1. CASE LoopTop(w)
  BY <1>1 DEF LoopTop
<1>2. CASE Lock(w)
  BY <1>2 DEF Lock
<1>3. CASE Take(w)
  BY <1>3 DEF Take
<1>4. CASE TakeNothing(w)
  BY <1>4 DEF TakeNothing
<1>5. CASE Read(w)
  <2>1. Verdict(request[held[w]], got'[w]) # "200"
    BY DEF Verdict, ReadOn
  <2> QED BY <1>5, <2>1 DEF Read
<1>6. CASE ReadEnds(w)
  BY <1>6 DEF ReadEnds
<1>7. CASE Route(w)
  <2>1. ~Passes(request[held[w]], AddressChecks) =>
          Refusal(request[held[w]], AddressChecks) # "200"
    BY RefusalRefuses
  <2> QED BY <1>7, <2>1 DEF Route
<1>8. CASE Serve(w)
  <2>1. ~Passes(request[held[w]], RequestChecks) =>
          Refusal(request[held[w]], RequestChecks) # "200"
    BY RefusalRefuses
  <2> QED BY <1>8, <2>1 DEF Serve
<1>9. CASE Count(w)
  BY <1>9 DEF Count
<1> QED BY <1>1, <1>2, <1>3, <1>4, <1>5, <1>6, <1>7, <1>8, <1>9 DEF Worker

LEMMA RevocationInvariance == Spec => []RevocationInv
<1>1. Init => RevocationInv
  BY DEF Init, RevocationInv, RevocationHolds
<1>2. RevocationInv /\ [Next]_vars => RevocationInv'
  <2> SUFFICES ASSUME RevocationInv, [Next]_vars PROVE RevocationInv'
    OBVIOUS
  <2> USE DEF RevocationInv, RevocationHolds, flagVars, callVars, connVars,
              workerVars, Becomes, DropAll
  <2>1. ASSUME NEW c \in Conns, Connect(c) \/ AcceptQueued(c) \/ AcceptFull(c)
        PROVE  RevocationInv'
    BY <2>1 DEF Connect, AcceptQueued, AcceptFull
  <2>2. CASE AcceptStops \/ AcceptGivesUp
    BY <2>2 DEF AcceptStops, AcceptGivesUp, AcceptEnds
  <2>3. ASSUME NEW w \in Workers, Worker(w)
        PROVE  RevocationInv'
    BY <2>3, RevocationWorker
  <2>4. CASE Revoke
    BY <2>4 DEF Revoke, Checked, Answered, Statuses
  <2>5. CASE RevokeStores \/ Stop \/ StopStores \/ StopJoins
    BY <2>5 DEF RevokeStores, Stop, StopStores, StopJoins
  <2>6. CASE UNCHANGED vars
    BY <2>6 DEF vars
  <2> QED BY <2>1, <2>2, <2>3, <2>4, <2>5, <2>6 DEF Next
<1> QED BY <1>1, <1>2, PTL DEF Spec

(* No request that has not passed the check of the token when it is        *)
(* revoked is served, in the backlog, the queue or the hands of a worker,  *)
(* whatever the calls of revoke and stop and the threads do meanwhile.     *)
THEOREM RevocationIsImmediate == Spec => []RevocationHolds
<1>1. RevocationInv => RevocationHolds
  BY DEF RevocationInv
<1> QED BY RevocationInvariance, <1>1, PTL

----------------------------------------------------------------------------
(* The answers. *)

\* What AnswerFitsRequest says of one connection.
Fits(status, req, rev) ==
  /\ status = "200" => req.faults = {} /\ req.sent >= Whole(req)
  /\ status \in Statuses /\ Proper(req) =>
       status \in {StatusOf(k) : k \in req.faults}
                 \union (IF req.faults = {} THEN {"200"} ELSE {})
                 \union (IF rev THEN {"401"} ELSE {})
                 \union {"503"}
  /\ "token" \in req.faults => status \notin {"200", "403", "415", "500"}
  /\ status = "431" => req.head > MaxHeader

LEMMA FitsIsTheProperty ==
  AnswerFitsRequest <=> \A c \in Conns : Fits(phase[c], request[c], revoked)
  BY DEF AnswerFitsRequest, Fits, Answered

\* A proper request is read to its end and not refused on the way.
LEMMA ProperIsRead ==
  ASSUME NEW req \in Requests, Proper(req), NEW n \in 0..req.sent
  PROVE  /\ Verdict(req, n) \in {"more", "whole"}
         /\ n = req.sent => Verdict(req, n) = "whole"
<1>1. /\ req.head \in Nat /\ req.declared \in Nat /\ req.sent \in Nat
      /\ MaxHeader \in Nat /\ MaxBody \in Nat
  BY RequestLimits DEF Requests
<1>2. Min({n, req.head}) <= MaxHeader
  <2>1. Min({n, req.head}) = IF n <= req.head THEN n ELSE req.head
    BY <1>1, MinOfTwo
  <2> QED BY <1>1, <2>1 DEF Proper
<1>3. Verdict(req, n) = ReadOn(req, n)
  <2>1. ~(Min({n, req.head}) > MaxHeader)
    <3>1. Min({n, req.head}) \in Nat
      BY <1>1, MinOfTwo
    <3> QED BY <1>1, <1>2, <3>1
  <2> QED BY <2>1 DEF Verdict
<1> QED BY <1>1, <1>3 DEF ReadOn, Proper, Whole

(* What the reading answers fits: the refusal that a verdict is ...        *)
LEMMA VerdictFits ==
  ASSUME NEW req \in Requests, NEW n \in 0..req.sent, NEW rev,
         Verdict(req, n) \notin {"more", "whole"}
  PROVE  Fits(Verdict(req, n), req, rev)
<1>1. ~Proper(req)
  BY ProperIsRead
<1>2. Verdict(req, n) \in {"400", "413", "431"}
  BY DEF Verdict, ReadOn
<1>3. Verdict(req, n) = "431" => req.head > MaxHeader
  <2>1. n \in Nat /\ req.head \in Nat /\ MaxHeader \in Nat
    BY RequestLimits DEF Requests
  <2>2. Min({n, req.head}) = IF n <= req.head THEN n ELSE req.head
    BY <2>1, MinOfTwo
  <2>3. Verdict(req, n) = "431" => Min({n, req.head}) > MaxHeader
    BY DEF Verdict, ReadOn
  <2> QED BY <2>1, <2>2, <2>3
<1> QED BY <1>1, <1>2, <1>3 DEF Fits

(* ... and the refusal of one that ends before it is whole.                *)
LEMMA EndFits ==
  ASSUME NEW req \in Requests, NEW rev,
         req.sent = 0 \/ Verdict(req, req.sent) = "more"
  PROVE  Fits("400", req, rev)
<1>1. req.sent \in 0..req.sent /\ req.head \in Nat \ {0} /\ req.declared \in Nat
  BY DEF Requests
<1>2. ~Proper(req)
  <2>1. Proper(req) => Verdict(req, req.sent) = "whole"
    BY <1>1, ProperIsRead
  <2>2. Proper(req) => req.sent # 0
    BY <1>1 DEF Proper, Whole
  <2> QED BY <2>1, <2>2
<1> QED BY <1>2 DEF Fits

\* A request that was read to its end was sent, and its head is one.
LEMMA WholeIsSent ==
  ASSUME NEW req \in Requests, NEW n \in 0..req.sent,
         Verdict(req, n) = "whole"
  PROVE  /\ req.sent >= Whole(req)
         /\ {"head", "text"} \intersect req.faults = {}
<1>1. /\ n \in Nat /\ req.sent \in Nat /\ req.head \in Nat
      /\ req.declared \in Nat
  BY DEF Requests
<1>2. ReadOn(req, n) = "whole"
  BY DEF Verdict
<1> QED BY <1>1, <1>2 DEF ReadOn, Whole

(* The refusal of a check before the one of the revocation, and of one     *)
(* behind it: the check of the token is the first of those.                *)
LEMMA RefusalFits ==
  ASSUME NEW req \in Requests, NEW rev, NEW checks,
         checks \in {AddressChecks, RequestChecks}, ~Passes(req, checks)
  PROVE  Fits(Refusal(req, checks), req, rev)
<1>1. PICK k \in req.faults : /\ \E i \in 1..Len(checks) : k = checks[i]
                              /\ Refusal(req, checks) = StatusOf(k)
  BY RefusalStatus
<1>2. k \in {"method", "path", "token", "origins", "origin", "typed", "type",
             "protocol", "body", "exposed", "name", "tool", "response"}
  BY <1>1 DEF AddressChecks, RequestChecks
<1>3. StatusOf(k) \notin {"200", "431"}
  BY <1>2 DEF StatusOf
<1>4. ASSUME "token" \in req.faults
      PROVE  Refusal(req, checks) \notin {"200", "403", "415", "500"}
  <2>1. CASE checks = AddressChecks
    <3>1. k \in {"method", "path"}
      BY <1>1, <2>1 DEF AddressChecks
    <3> QED BY <1>1, <3>1 DEF StatusOf
  <2>2. CASE checks = RequestChecks
    <3>1. RequestChecks[1] = "token"
      BY DEF RequestChecks
    <3>2. Refusal(req, checks) = StatusOf("token")
      BY <1>4, <2>2, <3>1, RefusalStatus
    <3> QED BY <3>2 DEF StatusOf
  <2> QED BY <2>1, <2>2
<1> QED BY <1>1, <1>3, <1>4 DEF Fits

(* Only a request without a fault passes every check.                      *)
LEMMA ServedFits ==
  ASSUME NEW req \in Requests, NEW n \in 0..req.sent, NEW rev,
         Verdict(req, n) = "whole",
         Passes(req, AddressChecks), Passes(req, RequestChecks)
  PROVE  Fits("200", req, rev)
<1>1. req.faults \subseteq Faults
  BY DEF Requests
<1>2. ASSUME NEW k \in req.faults
      PROVE  FALSE
  <2>1. k \notin {"head", "text"}
    BY WholeIsSent
  <2>2. k \notin Range(AddressChecks)
    BY DEF Passes, Range, AddressChecks
  <2>3. k \notin Range(RequestChecks)
    BY DEF Passes, Range, RequestChecks
  <2> QED BY <1>1, <2>1, <2>2, <2>3 DEF Faults
<1>3. req.sent >= Whole(req)
  BY WholeIsSent
<1> QED BY <1>2, <1>3 DEF Fits

----------------------------------------------------------------------------
\* What a worker that deals with a connection knows of its request.
Knows(w) ==
  LET req == request[held[w]]
  IN  /\ held[w] \in Conns
      /\ phase[held[w]] # "unborn"
      /\ worker[w] \in {"reading", "routing", "serving"} => got[w] \in 0..req.sent
      /\ worker[w] = "reading" => got[w] = 0 \/ Verdict(req, got[w]) = "more"
      /\ worker[w] \in {"routing", "serving"} => Verdict(req, got[w]) = "whole"
      /\ worker[w] = "serving" => Passes(req, AddressChecks)

Busy(w) == worker[w] \in {"reading", "routing", "serving", "counting"}

AnswerInv ==
  /\ DOMAIN phase = Conns /\ DOMAIN request = Conns
  /\ DOMAIN worker = Workers /\ DOMAIN held = Workers /\ DOMAIN got = Workers
  /\ queue \in Seq(Conns)
  /\ \A i \in 1..Len(queue) : phase[queue[i]] # "unborn"
  /\ \A c \in Conns : /\ phase[c] # "unborn" => request[c] \in Requests
                      /\ Fits(phase[c], request[c], revoked)
  /\ \A w \in Workers : Busy(w) => Knows(w)

\* A status that is none yet asks nothing of the request.
LEMMA NoAnswerFits ==
  ASSUME NEW req, NEW rev, NEW status \in {"backlog", "queued", "held", "dropped", "503"}
  PROVE  Fits(status, req, rev)
  BY DEF Fits, Statuses

(* A worker that writes an answer which fits keeps the invariant.          *)
LEMMA AnswerKeeps ==
  ASSUME AnswerInv, NEW w \in Workers, NEW status,
         Busy(w), status # "unborn",
         Fits(status, request[held[w]], revoked),
         Answer(w, status),
         UNCHANGED <<revoked, queue, held>>,
         DOMAIN got' = Workers, \A v \in Workers \ {w} : got'[v] = got[v]
  PROVE  AnswerInv'
<1>1. \A v \in Workers : Busy(v) => Knows(v)
  BY DEF AnswerInv
<1>2. held[w] \in Conns /\ request[held[w]] \in Requests
  BY <1>1 DEF AnswerInv, Knows
<1>3. /\ phase' = [phase EXCEPT ![held[w]] = status]
      /\ request' = request
      /\ worker' = [worker EXCEPT ![w] = "counting"]
  BY DEF Answer, Becomes, Goto
<1>4. \A c \in Conns : phase'[c] = IF c = held[w] THEN status ELSE phase[c]
  BY <1>2, <1>3 DEF AnswerInv
<1>5. \A v \in Workers : Busy(v)' => Knows(v)'
  <2> SUFFICES ASSUME NEW v \in Workers, Busy(v)' PROVE Knows(v)'
    OBVIOUS
  <2>1. CASE v = w
    BY <1>2, <1>3, <1>4, <2>1 DEF AnswerInv, Knows
  <2>2. CASE v # w
    <3>1. worker'[v] = worker[v] /\ got'[v] = got[v]
      BY <1>3, <2>2 DEF AnswerInv
    <3>2. Knows(v)
      BY <1>1, <3>1 DEF Busy
    <3> QED BY <1>3, <1>4, <3>1, <3>2 DEF Knows
  <2> QED BY <2>1, <2>2
<1>6. \A i \in 1..Len(queue') : phase'[queue'[i]] # "unborn"
  <2>1. \A i \in 1..Len(queue) : queue[i] \in Conns
    BY ElementOfSeq DEF AnswerInv
  <2> QED BY <1>4, <2>1 DEF AnswerInv
<1>7. \A c \in Conns : /\ phase'[c] # "unborn" => request'[c] \in Requests
                      /\ Fits(phase'[c], request'[c], revoked')
  BY <1>2, <1>3, <1>4 DEF AnswerInv
<1> QED BY <1>3, <1>5, <1>6, <1>7 DEF AnswerInv

(* Reading: the bytes that have arrived lead to the next read, on to the   *)
(* checks, or to a refusal that fits.                                      *)
LEMMA ReadKeeps ==
  ASSUME AnswerInv, NEW w \in Workers, Read(w) \/ ReadEnds(w)
  PROVE  AnswerInv'
<1> DEFINE req == request[held[w]]
<1>1. /\ worker[w] = "reading"
      /\ Busy(w) /\ Knows(w)
      /\ UNCHANGED <<revoked, queue, held>>
  BY DEF AnswerInv, Read, ReadEnds, Busy, flagVars
<1>2. req \in Requests /\ req.sent \in Nat /\ held[w] \in Conns
  BY <1>1 DEF AnswerInv, Knows, Requests
<1>3. got[w] \in 0..req.sent /\ (got[w] = 0 \/ Verdict(req, got[w]) = "more")
  BY <1>1 DEF Knows
<1>4. CASE ReadEnds(w)
  <2>1. Fits("400", req, revoked)
    BY <1>2, <1>3, <1>4, EndFits DEF ReadEnds
  <2>2. Answer(w, "400") /\ got' = got
    BY <1>4 DEF ReadEnds
  <2> QED BY <1>1, <2>1, <2>2, AnswerKeeps DEF AnswerInv
<1>5. CASE Read(w)
  <2> DEFINE most == Min({Scratch, req.sent - got[w]})
  <2>1. PICK n \in 1..most : got' = [got EXCEPT ![w] = @ + n]
    BY <1>5 DEF Read
  <2>2. most = (IF Scratch <= req.sent - got[w] THEN Scratch ELSE req.sent - got[w])
    BY <1>2, <1>3, MinOfTwo, BridgeConfig
  <2>3. got'[w] = got[w] + n /\ got'[w] \in 0..req.sent
    <3>1. Scratch \in Nat
      BY BridgeConfig
    <3>2. got'[w] = got[w] + n
      BY <2>1 DEF AnswerInv
    <3> HIDE DEF req, most
    <3> QED BY <1>2, <1>3, <2>2, <3>1, <3>2
  <2>4. /\ DOMAIN got' = Workers
        /\ \A v \in Workers \ {w} : got'[v] = got[v]
    BY <2>1 DEF AnswerInv
  <2> DEFINE verdict == Verdict(req, got'[w])
  <2>5. CASE verdict \notin {"more", "whole"}
    <3>1. Fits(verdict, req, revoked) /\ verdict # "unborn"
      <4>1. verdict # "unborn"
        BY DEF Verdict, ReadOn
      <4> QED BY <1>2, <2>3, <2>5, <4>1, VerdictFits
    <3>2. Answer(w, verdict)
      BY <1>5, <2>5 DEF Read
    <3> HIDE DEF verdict
    <3> QED BY <1>1, <2>4, <3>1, <3>2, AnswerKeeps
  <2>6. CASE verdict \in {"more", "whole"}
    <3>1. /\ DOMAIN worker' = Workers
          /\ worker'[w] = IF verdict = "more" THEN "reading" ELSE "routing"
          /\ \A v \in Workers \ {w} : worker'[v] = worker[v]
          /\ phase' = phase /\ request' = request
      <4>1. CASE verdict = "more"
        <5>1. worker' = worker /\ phase' = phase /\ request' = request
          BY <1>5, <4>1 DEF Read, connVars
        <5> QED BY <1>1, <4>1, <5>1 DEF AnswerInv
      <4>2. CASE verdict = "whole"
        <5>1. /\ worker' = [worker EXCEPT ![w] = "routing"]
              /\ phase' = phase /\ request' = request
          BY <1>5, <4>2 DEF Read, Goto, connVars
        <5> QED BY <4>2, <5>1 DEF AnswerInv
      <4> QED BY <2>6, <4>1, <4>2
    <3>2. \A v \in Workers : Busy(v)' => Knows(v)'
      <4> SUFFICES ASSUME NEW v \in Workers, Busy(v)' PROVE Knows(v)'
        OBVIOUS
      <4>1. CASE v = w
        BY <1>1, <2>3, <2>6, <3>1, <4>1 DEF AnswerInv, Knows
      <4>2. CASE v # w
        <5>1. worker'[v] = worker[v] /\ got'[v] = got[v]
          BY <2>4, <3>1, <4>2 DEF AnswerInv
        <5>2. Knows(v)
          BY <5>1 DEF AnswerInv, Busy
        <5> QED BY <1>1, <3>1, <5>1, <5>2 DEF Knows
      <4> QED BY <4>1, <4>2
    <3> QED BY <1>1, <2>4, <3>1, <3>2 DEF AnswerInv
  <2> QED BY <2>5, <2>6
<1> QED BY <1>4, <1>5

(* The checks: a request that was read whole goes on to the next of them,  *)
(* or is answered.                                                         *)
LEMMA ChecksKeep ==
  ASSUME AnswerInv, NEW w \in Workers, Route(w) \/ Serve(w)
  PROVE  AnswerInv'
<1> DEFINE req == request[held[w]]
<1>1. /\ worker[w] \in {"routing", "serving"}
      /\ Busy(w) /\ Knows(w)
      /\ UNCHANGED <<revoked, queue, held, got>>
  BY DEF AnswerInv, Route, Serve, Busy, flagVars
<1>2. req \in Requests /\ got[w] \in 0..req.sent /\ Verdict(req, got[w]) = "whole"
  BY <1>1 DEF AnswerInv, Knows
<1>3. ASSUME NEW status, status # "unborn", Answer(w, status),
             Fits(status, req, revoked)
      PROVE  AnswerInv'
  BY <1>1, <1>3, AnswerKeeps DEF AnswerInv
<1>4. ASSUME NEW checks, checks \in {AddressChecks, RequestChecks},
             ~Passes(req, checks)
      PROVE  /\ Refusal(req, checks) # "unborn"
             /\ Fits(Refusal(req, checks), req, revoked)
  <2>1. PICK k \in req.faults : /\ \E i \in 1..Len(checks) : k = checks[i]
                                /\ Refusal(req, checks) = StatusOf(k)
    BY <1>4, RefusalStatus
  <2>2. k \in {"method", "path", "token", "origins", "origin", "typed", "type",
               "protocol", "body", "exposed", "name", "tool", "response"}
    BY <1>4, <2>1 DEF AddressChecks, RequestChecks
  <2>3. Refusal(req, checks) # "unborn"
    BY <2>1, <2>2 DEF StatusOf
  <2> HIDE DEF req
  <2> QED BY <1>2, <1>4, <2>3, RefusalFits
<1>5. CASE Route(w)
  <2>1. CASE ~Passes(req, AddressChecks)
    BY <1>3, <1>4, <1>5, <2>1 DEF Route
  <2>2. CASE Passes(req, AddressChecks) /\ revoked
    <3>1. Answer(w, "401")
      BY <1>5, <2>2 DEF Route
    <3>2. Fits("401", req, revoked)
      BY <2>2 DEF Fits
    <3> HIDE DEF req
    <3> QED BY <1>3, <3>1, <3>2
  <2>3. CASE Passes(req, AddressChecks) /\ ~revoked
    <3>1. /\ worker' = [worker EXCEPT ![w] = "serving"]
          /\ phase' = phase /\ request' = request
      BY <1>5, <2>3 DEF Route, Goto, connVars
    <3>2. \A v \in Workers : Busy(v)' => Knows(v)'
      <4> SUFFICES ASSUME NEW v \in Workers, Busy(v)' PROVE Knows(v)'
        OBVIOUS
      <4>1. CASE v = w
        BY <1>1, <1>2, <2>3, <3>1, <4>1 DEF AnswerInv, Knows
      <4>2. CASE v # w
        <5>1. worker'[v] = worker[v]
          BY <3>1, <4>2 DEF AnswerInv
        <5>2. Knows(v)
          BY <5>1 DEF AnswerInv, Busy
        <5> QED BY <1>1, <3>1, <5>1, <5>2 DEF Knows
      <4> QED BY <4>1, <4>2
    <3> QED BY <1>1, <3>1, <3>2 DEF AnswerInv
  <2> QED BY <2>1, <2>2, <2>3
<1>6. CASE Serve(w)
  <2>1. Passes(req, AddressChecks)
    BY <1>1, <1>6 DEF Knows, Serve
  <2>2. CASE ~Passes(req, RequestChecks)
    <3>1. Answer(w, Refusal(req, RequestChecks))
      BY <1>6, <2>2 DEF Serve
    <3> HIDE DEF req
    <3> QED BY <1>3, <1>4, <2>2, <3>1
  <2>3. CASE Passes(req, RequestChecks)
    <3>1. Answer(w, "200")
      BY <1>6, <2>3 DEF Serve
    <3>2. Fits("200", req, revoked)
      <4> HIDE DEF req
      <4> QED BY <1>2, <2>1, <2>3, ServedFits
    <3> HIDE DEF req
    <3> QED BY <1>3, <3>1, <3>2
  <2> QED BY <2>2, <2>3
<1> QED BY <1>5, <1>6

(* Taking a connection off the queue: nothing of it is read yet.           *)
LEMMA TakeKeeps ==
  ASSUME AnswerInv, NEW w \in Workers, Take(w)
  PROVE  AnswerInv'
<1> DEFINE c == Head(queue)
<1>1. /\ queue # << >> /\ queue \in Seq(Conns)
      /\ queue' = Tail(queue)
      /\ held' = [held EXCEPT ![w] = c]
      /\ got' = [got EXCEPT ![w] = 0]
      /\ worker' = [worker EXCEPT ![w] = "reading"]
      /\ phase' = [phase EXCEPT ![c] = "held"]
      /\ request' = request /\ revoked' = revoked
  BY DEF AnswerInv, Take, Goto, Becomes, flagVars
<1>2. /\ Len(queue) \in Nat \ {0}
      /\ c = queue[1] /\ c \in Conns
      /\ queue' \in Seq(Conns)
      /\ Len(queue') = Len(queue) - 1
      /\ \A i \in 1..Len(queue') : queue'[i] = queue[i + 1]
  BY <1>1, EmptySeq, HeadTailProperties
<1>3. phase[c] # "unborn" /\ request[c] \in Requests
  BY <1>2 DEF AnswerInv
<1>4. \A b \in Conns : phase'[b] = IF b = c THEN "held" ELSE phase[b]
  BY <1>1, <1>2 DEF AnswerInv
<1>5. \A i \in 1..Len(queue') : phase'[queue'[i]] # "unborn"
  <2>1. \A i \in 1..Len(queue) : queue[i] \in Conns /\ phase[queue[i]] # "unborn"
    BY ElementOfSeq DEF AnswerInv
  <2>2. \A i \in 1..Len(queue') : i + 1 \in 1..Len(queue)
    BY <1>2
  <2> QED BY <1>2, <1>4, <2>1, <2>2
<1>6. \A v \in Workers : Busy(v)' => Knows(v)'
  <2> SUFFICES ASSUME NEW v \in Workers, Busy(v)' PROVE Knows(v)'
    OBVIOUS
  <2>1. CASE v = w
    <3>1. /\ held'[v] = c /\ got'[v] = 0 /\ worker'[v] = "reading"
          /\ phase'[c] = "held"
      BY <1>1, <1>2, <1>4, <2>1 DEF AnswerInv
    <3>2. request'[c].sent \in Nat
      BY <1>1, <1>3 DEF Requests
    <3> HIDE DEF c
    <3> QED BY <1>2, <3>1, <3>2 DEF Knows
  <2>2. CASE v # w
    <3>1. worker'[v] = worker[v] /\ got'[v] = got[v] /\ held'[v] = held[v]
      BY <1>1, <2>2 DEF AnswerInv
    <3>2. Knows(v)
      BY <3>1 DEF AnswerInv, Busy
    <3> QED BY <1>1, <1>4, <3>1, <3>2 DEF Knows
  <2> QED BY <2>1, <2>2
<1>7. \A b \in Conns : /\ phase'[b] # "unborn" => request'[b] \in Requests
                      /\ Fits(phase'[b], request'[b], revoked')
  BY <1>1, <1>3, <1>4, NoAnswerFits DEF AnswerInv
<1> QED BY <1>1, <1>2, <1>5, <1>6, <1>7 DEF AnswerInv

(* A step that writes no answer but a 503, begins no request and takes no  *)
(* worker further keeps the invariant, whatever connections it moves or    *)
(* drops.                                                                  *)
LEMMA QuietStep ==
  ASSUME AnswerInv,
         DOMAIN phase' = Conns,
         \A c \in Conns :
           \/ phase'[c] = phase[c]
           \/ phase[c] # "unborn" /\ phase'[c] \in {"queued", "dropped", "503"},
         request' = request, revoked' = revoked \/ revoked' = TRUE,
         queue' \in Seq(Conns),
         \A i \in 1..Len(queue') : phase[queue'[i]] # "unborn",
         DOMAIN worker' = Workers, DOMAIN held' = Workers, DOMAIN got' = Workers,
         \A w \in Workers :
           Busy(w)' => /\ worker'[w] = worker[w]
                       /\ held'[w] = held[w] /\ got'[w] = got[w]
  PROVE  AnswerInv'
<1>1. \A c \in Conns : phase[c] # "unborn" => phase'[c] # "unborn"
  OBVIOUS
<1>2. \A i \in 1..Len(queue') : phase'[queue'[i]] # "unborn"
  <2>1. \A i \in 1..Len(queue') : queue'[i] \in Conns
    BY ElementOfSeq
  <2> QED BY <1>1, <2>1
<1>3. ASSUME NEW w \in Workers, Busy(w)'
      PROVE  Knows(w)'
  <2>1. /\ worker'[w] = worker[w] /\ held'[w] = held[w] /\ got'[w] = got[w]
        /\ Knows(w)
    BY <1>3 DEF AnswerInv, Busy
  <2> QED BY <1>1, <2>1 DEF Knows
<1>4. ASSUME NEW c \in Conns
      PROVE  /\ phase'[c] # "unborn" => request'[c] \in Requests
             /\ Fits(phase'[c], request'[c], revoked')
  <2>1. CASE phase'[c] = phase[c]
    <3>1. Fits(phase[c], request[c], revoked)
      BY DEF AnswerInv
    <3>2. Fits(phase[c], request[c], revoked')
      BY <3>1 DEF Fits
    <3> QED BY <2>1, <3>2 DEF AnswerInv
  <2>2. CASE phase[c] # "unborn" /\ phase'[c] \in {"queued", "dropped", "503"}
    BY <2>2, NoAnswerFits DEF AnswerInv
  <2> QED BY <2>1, <2>2
<1> QED BY <1>2, <1>3, <1>4 DEF AnswerInv

LEMMA AnswerWorker ==
  ASSUME AnswerInv, NEW w \in Workers, Worker(w)
  PROVE  AnswerInv'
<1>1. /\ queue \in Seq(Conns) /\ << >> \in Seq(Conns)
      /\ Len(<< >>) = 0
      /\ \A i \in 1..Len(queue) : phase[queue[i]] # "unborn"
  BY EmptySeq DEF AnswerInv
<1>2. ASSUME UNCHANGED <<revoked, held, got>>,
             \/ Return(w)
             \/ /\ worker' = [worker EXCEPT ![w] = "top"]
                /\ UNCHANGED <<queue, connVars>>
             \/ /\ worker' = [worker EXCEPT ![w] = "locking"]
                /\ UNCHANGED <<queue, connVars>>
             \/ /\ worker' = [worker EXCEPT ![w] = "receiving"]
                /\ UNCHANGED <<queue, connVars>>
      PROVE  AnswerInv'
  <2>1. /\ DOMAIN worker' = Workers
        /\ \A v \in Workers : Busy(v)' => worker'[v] = worker[v]
    BY <1>2 DEF AnswerInv, Return, Goto, Busy
  <2>2. /\ request' = request
        /\ DOMAIN phase' = Conns
        /\ \A c \in Conns :
             \/ phase'[c] = phase[c]
             \/ phase[c] # "unborn" /\ phase'[c] = "dropped"
        /\ queue' = queue \/ queue' = << >>
    BY <1>2 DEF AnswerInv, Return, DropAll, connVars
  <2>3. /\ queue' \in Seq(Conns)
        /\ \A i \in 1..Len(queue') : phase[queue'[i]] # "unborn"
    <3>1. CASE queue' = queue
      BY <1>1, <3>1
    <3>2. CASE queue' = << >>
      <4>1. Len(queue') = 0
        BY <1>1, <3>2
      <4>2. queue' \in Seq(Conns)
        BY <1>1, <3>2
      <4>3. \A i \in 1..Len(queue') : FALSE
        BY <4>1
      <4> QED BY <4>2, <4>3
    <3> QED BY <2>2, <3>1, <3>2
  <2>4. DOMAIN held' = Workers /\ DOMAIN got' = Workers
    BY <1>2 DEF AnswerInv
  <2>5. \A v \in Workers :
          Busy(v)' => /\ worker'[v] = worker[v]
                      /\ held'[v] = held[v] /\ got'[v] = got[v]
    BY <1>2, <2>1
  <2>6. /\ revoked' = revoked
        /\ \A c \in Conns :
             \/ phase'[c] = phase[c]
             \/ phase[c] # "unborn" /\ phase'[c] \in {"queued", "dropped", "503"}
    BY <1>2, <2>2
  <2> QED BY <2>1, <2>2, <2>3, <2>4, <2>5, <2>6, QuietStep
<1>3. CASE LoopTop(w)
  BY <1>2, <1>3 DEF LoopTop, Goto, flagVars
<1>4. CASE Lock(w)
  BY <1>2, <1>4 DEF Lock, Goto, flagVars
<1>5. CASE TakeNothing(w)
  BY <1>2, <1>5 DEF TakeNothing, Goto, flagVars
<1>6. CASE Count(w)
  <2>1. /\ worker' = [worker EXCEPT ![w] = "top"]
        /\ held' = [held EXCEPT ![w] = Nobody]
        /\ got' = [got EXCEPT ![w] = 0]
        /\ UNCHANGED <<revoked, queue, phase, request>>
    BY <1>6 DEF Count, Goto, flagVars, connVars
  <2>2. /\ DOMAIN worker' = Workers /\ DOMAIN held' = Workers
        /\ DOMAIN got' = Workers
        /\ \A v \in Workers :
             Busy(v)' => /\ worker'[v] = worker[v]
                         /\ held'[v] = held[v] /\ got'[v] = got[v]
    BY <2>1 DEF AnswerInv, Busy
  <2> QED BY <1>1, <2>1, <2>2, QuietStep DEF AnswerInv
<1> QED BY <1>3, <1>4, <1>5, <1>6, TakeKeeps, ReadKeeps, ChecksKeep DEF Worker

(* A client connects with a request of its own: no worker can be dealing   *)
(* with it, and it is not in the queue.                                    *)
LEMMA ConnectKeeps ==
  ASSUME AnswerInv, NEW c \in Conns, Connect(c)
  PROVE  AnswerInv'
<1>1. PICK req \in RequestsOf[c] : request' = [request EXCEPT ![c] = req]
  BY DEF Connect
<1>2. req \in Requests
  BY BridgeConfig
<1>3. /\ phase[c] = "unborn"
      /\ phase' = [phase EXCEPT ![c] = "backlog"]
      /\ UNCHANGED <<revoked, queue, worker, held, got>>
  BY DEF Connect, flagVars, workerVars
<1>4. \A b \in Conns :
        /\ phase'[b] = IF b = c THEN "backlog" ELSE phase[b]
        /\ request'[b] = IF b = c THEN req ELSE request[b]
  BY <1>1, <1>3 DEF AnswerInv
<1>5. ASSUME NEW w \in Workers, Busy(w)'
      PROVE  Knows(w)'
  <2>1. Knows(w)
    BY <1>3, <1>5 DEF AnswerInv, Busy
  <2>2. held[w] \in Conns /\ held[w] # c
    BY <1>3, <2>1 DEF Knows
  <2> QED BY <1>3, <1>4, <2>1, <2>2 DEF Knows
<1>6. \A i \in 1..Len(queue') : phase'[queue'[i]] # "unborn"
  <2>1. \A i \in 1..Len(queue) : queue[i] \in Conns /\ phase[queue[i]] # "unborn"
    BY ElementOfSeq DEF AnswerInv
  <2> QED BY <1>3, <1>4, <2>1
<1>7. \A b \in Conns : /\ phase'[b] # "unborn" => request'[b] \in Requests
                      /\ Fits(phase'[b], request'[b], revoked')
  BY <1>2, <1>3, <1>4, NoAnswerFits DEF AnswerInv
<1> QED BY <1>1, <1>3, <1>5, <1>6, <1>7 DEF AnswerInv

(* The accept thread moves a connection to the queue, or drops those that  *)
(* wait.                                                                   *)
LEMMA AcceptKeeps ==
  ASSUME AnswerInv,
         \/ \E c \in Conns : AcceptQueued(c) \/ AcceptFull(c)
         \/ AcceptStops \/ AcceptGivesUp
  PROVE  AnswerInv'
<1>1. ASSUME NEW c \in Conns, AcceptQueued(c)
      PROVE  AnswerInv'
  <2>1. /\ phase[c] = "backlog"
        /\ phase' = [phase EXCEPT ![c] = "queued"]
        /\ queue' = Append(queue, c)
        /\ UNCHANGED <<revoked, request, worker, held, got>>
    BY <1>1 DEF AcceptQueued, Becomes, flagVars, workerVars
  <2>2. /\ queue' \in Seq(Conns)
        /\ Len(queue) \in Nat
        /\ Len(queue') = Len(queue) + 1
        /\ \A i \in 1..Len(queue) : queue'[i] = queue[i]
        /\ queue'[Len(queue) + 1] = c
    BY <2>1, AppendProperties, LenProperties DEF AnswerInv
  <2>3. \A i \in 1..Len(queue') : phase[queue'[i]] # "unborn"
    BY <2>1, <2>2 DEF AnswerInv
  <2> QED BY <2>1, <2>2, <2>3, QuietStep DEF AnswerInv
<1>2. ASSUME NEW c \in Conns, AcceptFull(c)
      PROVE  AnswerInv'
  <2>1. /\ phase[c] = "backlog"
        /\ phase' = [phase EXCEPT ![c] = "503"]
        /\ UNCHANGED <<revoked, request, queue, worker, held, got>>
    BY <1>2 DEF AcceptFull, Becomes, flagVars, workerVars
  <2> QED BY <2>1, QuietStep DEF AnswerInv
<1>3. CASE AcceptEnds
  <2>1. /\ phase' = [c \in Conns |-> IF phase[c] = "backlog" THEN "dropped"
                                                            ELSE phase[c]]
        /\ UNCHANGED <<revoked, request, queue, worker, held, got>>
    BY <1>3 DEF AcceptEnds, DropAll, flagVars, workerVars
  <2> QED BY <2>1, QuietStep DEF AnswerInv
<1> QED BY <1>1, <1>2, <1>3 DEF AcceptStops, AcceptGivesUp

LEMMA AnswerInvariance == Spec => []AnswerInv
<1>1. Init => AnswerInv
  <2> SUFFICES ASSUME Init PROVE AnswerInv
    OBVIOUS
  <2>1. queue \in Seq(Conns) /\ Len(queue) = 0
    BY EmptySeq DEF Init
  <2>2. \A c \in Conns : phase[c] = "unborn" /\ request[c] = Nothing
    BY DEF Init
  <2>3. Fits("unborn", Nothing, revoked)
    BY DEF Fits, Statuses
  <2> QED BY <2>1, <2>2, <2>3 DEF Init, AnswerInv, Busy
<1>2. AnswerInv /\ [Next]_vars => AnswerInv'
  <2> SUFFICES ASSUME AnswerInv, [Next]_vars PROVE AnswerInv'
    OBVIOUS
  <2>1. CASE \E c \in Conns : Connect(c)
    BY <2>1, ConnectKeeps
  <2>2. CASE \/ \E c \in Conns : AcceptQueued(c) \/ AcceptFull(c)
             \/ AcceptStops \/ AcceptGivesUp
    BY <2>2, AcceptKeeps
  <2>3. CASE \E w \in Workers : Worker(w)
    BY <2>3, AnswerWorker
  <2>4. CASE \/ Revoke \/ RevokeStores \/ Stop \/ StopStores \/ StopJoins
             \/ UNCHANGED vars
    <3>1. /\ UNCHANGED <<phase, request, queue, worker, held, got>>
          /\ revoked' = revoked \/ revoked' = TRUE
      BY <2>4 DEF Revoke, RevokeStores, Stop, StopStores, StopJoins, vars,
                  flagVars, connVars, workerVars
    <3> QED BY <3>1, QuietStep DEF AnswerInv
  <2> QED BY <2>1, <2>2, <2>3, <2>4 DEF Next
<1> QED BY <1>1, <1>2, PTL DEF Spec

(* Every answer is one the request deserves, for any requests, any limits  *)
(* and any split of the bytes over the reads: 200 only for a whole request *)
(* without a fault, a refusal of a proper one only for a check it fails,   *)
(* and nothing about the body to a client without the token.               *)
THEOREM AnswersAreDeserved == Spec => []AnswerFitsRequest
<1>1. AnswerInv => AnswerFitsRequest
  BY FitsIsTheProperty DEF AnswerInv
<1> QED BY AnswerInvariance, <1>1, PTL
=============================================================================
