------------------------- MODULE MeetingDaemonProofs -------------------------
(***************************************************************************)
(* Theorems about TranscriptionWorker and MeetingDaemon, for any bounds,   *)
(* budgets and batches.  Of the session: the health it reports is the one  *)
(* it is in, and the finals of a connection tile its time.  Of the daemon: *)
(* when it has ended, this was published last, after all that came before, *)
(* and an exit without an error was asked for or explained.                *)
(*                                                                         *)
(* The daemon's module extends the session's: Spec, Next and vars are the  *)
(* session's, DaemonSpec, DaemonNext and daemonVars the daemon's.          *)
(***************************************************************************)
EXTENDS MeetingDaemon, SequenceTheorems, TLAPS

----------------------------------------------------------------------------
(* The log of the session. *)

LEMMA EventTypes ==
  /\ Partial \in Events /\ Partial.kind = "partial"
  /\ Failure \in Events /\ Failure.kind = "error"
  /\ \A h \in HealthStates :
       /\ Health(h) \in Events
       /\ Health(h).kind = "health" /\ Health(h).is = h
BY DEF Partial, Failure, Health, Events

LEMMA MaxOfTwo ==
  ASSUME NEW m \in Nat, NEW n \in Nat
  PROVE  Max({m, n}) = IF m <= n THEN n ELSE m
<1> DEFINE top == IF m <= n THEN n ELSE m
<1>1. top \in {m, n} /\ \A y \in {m, n} : top >= y
  OBVIOUS
<1>2. ASSUME NEW x \in {m, n}, \A y \in {m, n} : x >= y
      PROVE  x = top
  BY <1>2
<1> QED BY <1>1, <1>2 DEF Max

\* What a sequence is with one or two elements more.
LEMMA OneMore ==
  ASSUME NEW S, NEW s \in Seq(S), NEW e \in S
  PROVE  /\ s \o <<e>> \in Seq(S)
         /\ Len(s \o <<e>>) = Len(s) + 1 /\ Len(s) \in Nat
         /\ \A i \in 1..Len(s) : (s \o <<e>>)[i] = s[i]
         /\ (s \o <<e>>)[Len(s) + 1] = e
<1>1. s \o <<e>> = Append(s, e)
  BY AppendIsConcat
<1>2. Len(s) \in Nat
  BY LenProperties
<1> QED BY <1>1, <1>2, AppendProperties

LEMMA TwoMore ==
  ASSUME NEW S, NEW s \in Seq(S), NEW d \in S, NEW e \in S
  PROVE  s \o <<d, e>> = (s \o <<d>>) \o <<e>>
<1>1. <<d>> \in Seq(S) /\ <<e>> \in Seq(S) /\ <<d, e>> \in Seq(S)
  OBVIOUS
<1>2. <<d>> \o <<e>> = <<d, e>>
  <2>1. /\ <<d>> \o <<e>> \in Seq(S) /\ Len(<<d>> \o <<e>>) = 2
        /\ (<<d>> \o <<e>>)[1] = d /\ (<<d>> \o <<e>>)[2] = e
    BY <1>1, OneMore
  <2>2. Len(<<d, e>>) = 2 /\ <<d, e>>[1] = d /\ <<d, e>>[2] = e
    OBVIOUS
  <2>3. \A i \in 1..2 : (<<d>> \o <<e>>)[i] = <<d, e>>[i]
    BY <2>1, <2>2
  <2> DEFINE u == <<d>> \o <<e>>
             v == <<d, e>>
  <2>4. /\ u \in Seq(S) /\ v \in Seq(S) /\ Len(u) = 2 /\ Len(v) = 2
        /\ \A i \in 1..2 : u[i] = v[i]
    BY <1>1, <2>1, <2>2, <2>3
  <2> HIDE DEF u, v
  <2>5. u = v
    BY <2>4, SeqEqual
  <2> QED BY <2>5 DEF u, v
<1>3. s \o (<<d>> \o <<e>>) = (s \o <<d>>) \o <<e>>
  BY <1>1, ConcatAssociative
<1> QED BY <1>2, <1>3

----------------------------------------------------------------------------
(* The types of the session, and that no time of it runs ahead of the      *)
(* audio it was handed.                                                    *)

SessionTypes ==
  /\ audio \in Seq(Nat)
  /\ latestAudio \in Nat /\ lastFinalEnd \in Nat /\ connections \in Nat
  /\ clock \in Nat
  /\ log \in Seq(Events)

LEMMA FinalType ==
  ASSUME SessionTypes,
         NEW given \in GivenTimes
  PROVE  /\ FinalOf(given) \in Events
         /\ FinalOf(given).kind = "final"
         /\ FinalOf(given).on = connections
         /\ FinalOf(given).start \in Nat
         /\ FinalOf(given).end \in Nat
         /\ FinalOf(given).start <= FinalOf(given).end
         /\ FinalOf(given).gives \subseteq {"start", "end"}
         /\ "start" \notin FinalOf(given).gives =>
              FinalOf(given).start = lastFinalEnd
         /\ "end" \notin FinalOf(given).gives =>
              FinalOf(given).end = Max({FinalOf(given).start, latestAudio})
<1> DEFINE start == IF given.start # NoTime THEN given.start ELSE lastFinalEnd
           end   == IF given.end # NoTime THEN given.end ELSE latestAudio
           gives == Gives(given)
<1>1. start \in Nat /\ end \in Nat
  BY DaemonConfig DEF SessionTypes, WorkerConfig, GivenTimes
<1>2. /\ gives \subseteq {"start", "end"}
      /\ "start" \notin gives => start = lastFinalEnd
      /\ "end" \notin gives => end = latestAudio
  BY DEF Gives
<1>3. FinalOf(given) =
        [kind |-> "final", on |-> connections, gives |-> gives,
         start |-> start, end |-> Max({start, end})]
  BY DEF FinalOf
<1> HIDE DEF start, end, gives
<1>4. Max({start, end}) \in Nat /\ start <= Max({start, end})
  BY <1>1, MaxOfTwo
<1> DEFINE f == FinalOf(given)
<1>5. /\ f.kind = "final" /\ f.on = connections /\ f.gives = gives
      /\ f.start = start /\ f.end = Max({start, end})
  BY <1>3
<1>6. f \in [kind : {"final"}, on : Nat, gives : SUBSET {"start", "end"},
            start : Nat, end : Nat]
  BY <1>1, <1>2, <1>3, <1>4 DEF SessionTypes
<1>7. f \in Events
  BY <1>6 DEF Events
<1> HIDE DEF f
<1>8. /\ "start" \notin f.gives => f.start = lastFinalEnd
      /\ "end" \notin f.gives => f.end = Max({f.start, latestAudio})
  BY <1>2, <1>5
<1>9. /\ f \in Events /\ f.kind = "final" /\ f.on = connections
      /\ f.start \in Nat /\ f.end \in Nat /\ f.start <= f.end
      /\ f.gives \subseteq {"start", "end"}
  BY <1>1, <1>2, <1>4, <1>5, <1>7
<1> QED BY <1>8, <1>9 DEF f

\* The pipeline's part leaves the log alone.
LEMMA PushKeepsTypes ==
  ASSUME SessionTypes, NEW at \in Nat, PushAudio(at)
  PROVE  SessionTypes'
<1>1. Append(audio, at) \in Seq(Nat)
  BY AppendProperties DEF SessionTypes
<1> QED BY <1>1 DEF PushAudio, SessionTypes

LEMMA WorkerKeepsTypes ==
  ASSUME SessionTypes, Worker
  PROVE  SessionTypes'
<1>1. CASE Start
  <2>1. log \o <<Failure>> \in Seq(Events)
    BY EventTypes, OneMore DEF SessionTypes
  <2> QED BY <1>1, <2>1 DEF Start, Emit, SessionTypes
<1>2. CASE LoopTop
  <2>1. \A h \in HealthStates :
          log \o <<Health(h)>> \in Seq(Events)
    BY EventTypes, OneMore DEF SessionTypes
  <2> QED BY <1>2, <2>1 DEF LoopTop, Emit, SessionTypes, HealthStates
<1>3. CASE Connect
  <2>1. log \o <<Health("healthy")>> \in Seq(Events)
    BY EventTypes, OneMore DEF SessionTypes, HealthStates
  <2>2. log' \in Seq(Events)
    BY <1>3, <2>1 DEF Connect, Emit, SessionTypes
  <2>3. latestAudio' \in Nat /\ lastFinalEnd' \in Nat /\ connections' \in Nat
    BY <1>3 DEF Connect, SessionTypes
  <2> QED BY <1>3, <2>2, <2>3 DEF Connect, SessionTypes
<1>4. CASE Tick
  BY <1>4 DEF Tick, SessionTypes
<1>5. CASE TakeFrame
  <2>1. audio # << >> => Head(audio) \in Nat /\ Tail(audio) \in Seq(Nat)
    BY HeadTailProperties DEF SessionTypes
  <2> QED BY <1>5, <2>1 DEF TakeFrame, SessionTypes
<1>6. CASE Send
  BY <1>6 DEF Send, SessionTypes
<1>7. CASE Close
  <2>1. log \o <<Health("stopped")>> \in Seq(Events)
    BY EventTypes, OneMore DEF SessionTypes, HealthStates
  <2> QED BY <1>7, <2>1 DEF Close, Stop, Emit, SessionTypes
<1>8. CASE ReadMessage
  <2>1. ASSUME NEW event \in {Partial, Failure,
                             Health("healthy")},
               Receive(event)
        PROVE  log' \in Seq(Events) /\ lastFinalEnd' \in Nat
    <3>1. event \in Events /\ event.kind # "final"
      BY EventTypes DEF HealthStates
    <3>2. log \o <<event>> \in Seq(Events)
      BY <3>1, OneMore DEF SessionTypes
    <3> QED BY <2>1, <3>1, <3>2 DEF Receive, Emit, SessionTypes
  <2>2. ASSUME NEW given \in GivenTimes,
               Receive(FinalOf(given))
        PROVE  log' \in Seq(Events) /\ lastFinalEnd' \in Nat
    <3>1. log \o <<FinalOf(given)>> \in Seq(Events)
      BY FinalType, OneMore DEF SessionTypes
    <3> QED BY <2>2, <3>1, FinalType DEF Receive, Emit, SessionTypes
  <2>3. log' \in Seq(Events) /\ lastFinalEnd' \in Nat
    BY <1>8, <2>1, <2>2 DEF ReadMessage, SessionTypes
  <2> QED BY <1>8, <2>3 DEF ReadMessage, SessionTypes
<1>9. CASE AfterFailure
  <2>1. log \o <<Health("stopped")>> \in Seq(Events)
    BY EventTypes, OneMore DEF SessionTypes, HealthStates
  <2>2. log \o <<Failure, Health("degraded")>>
          \in Seq(Events)
    <3>1. /\ Failure \in Events
          /\ Health("degraded") \in Events
      BY EventTypes DEF HealthStates
    <3> QED BY <3>1, OneMore, TwoMore DEF SessionTypes
  <2> QED BY <1>9, <2>1, <2>2 DEF AfterFailure, Stop, Emit, SessionTypes
<1>10. CASE Backoff
  BY <1>10 DEF Backoff, SessionTypes
<1> QED
  BY <1>1, <1>2, <1>3, <1>4, <1>5, <1>6, <1>7, <1>8, <1>9, <1>10
     DEF Worker

----------------------------------------------------------------------------
(* The health that is reported. *)

(* That a worker closes its connection because it was cancelled, and that  *)
(* one that could not start has reported nothing, has to be known with it. *)
HealthInv ==
  /\ HealthTellsTheTruth
  /\ worker = "starting" => log = << >>
  /\ held /\ worker = "closing" => cancelled
  /\ attempt \in Nat /\ attempt <= MaxReconnects

\* A report becomes the last; anything else leaves the last report where it is.
LEMMA ReportIsLast ==
  ASSUME SessionTypes, NEW CONSTANT e \in Events, log' = log \o <<e>>
  PROVE  /\ Len(log') = Len(log) + 1 /\ Len(log) \in Nat
         /\ log'[Len(log')] = e
         /\ \A i \in 1..Len(log) : log'[i] = log[i]
         /\ e.kind = "health" =>
              \A i \in 1..Len(log') :
                LastReport(i)' => i = Len(log')
         /\ e.kind # "health" =>
              \A i \in 1..Len(log') : LastReport(i)' =>
                i \in 1..Len(log) /\ LastReport(i)
<1>1. /\ Len(log') = Len(log) + 1 /\ Len(log) \in Nat
      /\ log'[Len(log) + 1] = e
      /\ \A i \in 1..Len(log) : log'[i] = log[i]
  BY OneMore DEF SessionTypes
<1>2. ASSUME e.kind = "health", NEW i \in 1..Len(log'), LastReport(i)'
      PROVE  i = Len(log')
  <2>1. \A k \in (i + 1)..Len(log') : log'[k].kind # "health"
    BY <1>2 DEF LastReport
  <2> QED BY <1>1, <1>2, <2>1
<1>3. ASSUME e.kind # "health", NEW i \in 1..Len(log'), LastReport(i)'
      PROVE  i \in 1..Len(log) /\ LastReport(i)
  <2>1. /\ log'[i].kind = "health"
        /\ \A k \in (i + 1)..Len(log') : log'[k].kind # "health"
    BY <1>3 DEF LastReport
  <2>2. i \in 1..Len(log)
    BY <1>1, <1>3, <2>1
  <2>3. \A k \in (i + 1)..Len(log) : log[k].kind # "health"
    <3>1. \A k \in (i + 1)..Len(log) :
            k \in 1..Len(log) /\ k \in (i + 1)..Len(log')
      BY <1>1, <2>2
    <3> QED BY <1>1, <2>1, <3>1
  <2> QED BY <1>1, <2>1, <2>2, <2>3 DEF LastReport
<1> QED BY <1>1, <1>2, <1>3

\* A step that says nothing and moves within what the last report says.
LEMMA SilentKeepsHealth ==
  ASSUME HealthInv, log' = log, held' => held, UNCHANGED attempt,
         cancelled => cancelled', worker' = "starting" => worker = "starting",
         held /\ worker' = "closing" => cancelled',
         \/ worker' = worker
         \/ /\ worker # "returned"
            /\ worker' \in {"closing", "failed", "backoff", "top"}
         \/ {worker, worker'} = {"connected", "sending"}
  PROVE  HealthInv'
<1>1. ASSUME held', NEW i \in 1..Len(log'), LastReport(i)'
      PROVE  TellsTheTruth(i)'
  <2>1. held /\ i \in 1..Len(log) /\ LastReport(i)
    BY <1>1 DEF LastReport
  <2>2. TellsTheTruth(i)
    BY <2>1 DEF HealthInv, HealthTellsTheTruth
  <2>3. CASE worker' = worker
    BY <2>2, <2>3 DEF TellsTheTruth
  <2>4. CASE /\ worker # "returned"
             /\ worker' \in {"closing", "failed", "backoff", "top"}
    BY <2>2, <2>4 DEF TellsTheTruth
  <2>5. CASE {worker, worker'} = {"connected", "sending"}
    <3>1. /\ worker \in {"connected", "sending"}
          /\ worker' \in {"connected", "sending"}
      BY <2>5
    <3> QED BY <2>2, <3>1 DEF TellsTheTruth
  <2> QED BY <2>3, <2>4, <2>5
<1>2. HealthTellsTheTruth'
  BY <1>1 DEF HealthTellsTheTruth
<1> QED BY <1>2 DEF HealthInv

\* A report that is true when it is made.
LEMMA ReportKeepsHealth ==
  ASSUME HealthInv, SessionTypes, UNCHANGED held,
         NEW CONSTANT h \in HealthStates,
         Emit(<<Health(h)>>),
         attempt' \in Nat, attempt' <= MaxReconnects,
         \/ worker' = "returned" /\ h = "stopped" /\ (held => cancelled')
         \/ worker' = "connected" /\ h = "healthy"
         \/ worker' = "connecting" /\ h \in {"connecting", "reconnecting"}
  PROVE  HealthInv'
<1> DEFINE e == Health(h)
<1>1. e \in Events /\ e.kind = "health" /\ e.is = h
  BY EventTypes
<1> HIDE DEF e
<1>2. CASE held
  <2>1. log' = log \o <<e>>
    BY <1>2 DEF Emit, e
  <2>2. ASSUME NEW i \in 1..Len(log'), LastReport(i)'
        PROVE  TellsTheTruth(i)'
    <3>1. i = Len(log') /\ log'[i].is = h
      BY <1>1, <2>1, <2>2, ReportIsLast
    <3> QED BY <1>2, <3>1 DEF TellsTheTruth
  <2> QED BY <1>2, <2>2 DEF HealthInv, HealthTellsTheTruth
<1>3. CASE ~held
  BY <1>3 DEF HealthInv, HealthTellsTheTruth
<1> QED BY <1>2, <1>3

\* Something else is said by a worker that stays where it is.
LEMMA OtherKeepsHealth ==
  ASSUME HealthInv, SessionTypes, UNCHANGED <<held, attempt, cancelled, worker>>,
         NEW CONSTANT e \in Events, e.kind # "health",
         Emit(<<e>>), worker = "connected"
  PROVE  HealthInv'
<1>1. CASE held
  <2>1. log' = log \o <<e>>
    BY <1>1 DEF Emit
  <2>2. ASSUME NEW i \in 1..Len(log'), LastReport(i)'
        PROVE  TellsTheTruth(i)'
    <3>1. /\ i \in 1..Len(log) /\ LastReport(i)
          /\ log'[i] = log[i]
      BY <2>1, <2>2, ReportIsLast
    <3>2. TellsTheTruth(i)
      BY <1>1, <3>1 DEF HealthInv, HealthTellsTheTruth
    <3> QED BY <3>1, <3>2 DEF TellsTheTruth
  <2> QED BY <1>1, <2>2 DEF HealthInv, HealthTellsTheTruth
<1>2. CASE ~held
  BY <1>2 DEF HealthInv, HealthTellsTheTruth
<1> QED BY <1>1, <1>2

LEMMA FinalReadKeepsHealth ==
  ASSUME HealthInv, SessionTypes,
         UNCHANGED <<held, attempt, cancelled, worker>>, worker = "connected",
         NEW given \in GivenTimes,
         Emit(<<FinalOf(given)>>)
  PROVE  HealthInv'
<1>1. /\ FinalOf(given) \in Events
      /\ FinalOf(given).kind = "final"
  BY FinalType
<1>2. PICK e \in Events : e = FinalOf(given)
  BY <1>1
<1>3. Emit(<<e>>) /\ e.kind # "health"
  BY <1>1, <1>2 DEF Emit
<1> QED BY <1>3, OtherKeepsHealth

LEMMA ReadKeepsHealth ==
  ASSUME HealthInv, SessionTypes, ReadMessage
  PROVE  HealthInv'
<1>1. UNCHANGED <<held, attempt, cancelled>> /\ worker = "connected"
  BY DEF ReadMessage, sessionVars
<1>2. CASE Receive(Health("healthy"))
  <2>1. Emit(<<Health("healthy")>>) /\ worker' = worker
    BY <1>2 DEF Receive
  <2>2. "healthy" \in HealthStates
    BY DEF HealthStates
  <2>3. attempt' \in Nat /\ attempt' <= MaxReconnects
    BY <1>1 DEF HealthInv
  <2> QED BY <1>1, <2>1, <2>2, <2>3, ReportKeepsHealth
<1>3. ASSUME NEW event \in {Partial, Failure},
             Receive(event)
      PROVE  HealthInv'
  <2>1. event \in Events /\ event.kind # "health"
    BY EventTypes
  <2>2. Emit(<<event>>) /\ worker' = worker
    BY <1>3 DEF Receive
  <2> QED BY <1>1, <2>1, <2>2, OtherKeepsHealth
<1>4. ASSUME NEW given \in GivenTimes,
             Receive(FinalOf(given))
      PROVE  HealthInv'
  <2>1. Emit(<<FinalOf(given)>>) /\ worker' = worker
    BY <1>4 DEF Receive
  <2> QED BY <1>1, <2>1, FinalReadKeepsHealth
<1>5. CASE worker' \in {"sending", "failed"} /\ log' = log
  BY <1>1, <1>5, SilentKeepsHealth
<1>6. \/ \E event \in {Partial, Failure,
                       Health("healthy")} : Receive(event)
      \/ \E given \in GivenTimes :
           Receive(FinalOf(given))
      \/ worker' \in {"sending", "failed"} /\ log' = log
  BY DEF ReadMessage, Goto
<1> QED BY <1>2, <1>3, <1>4, <1>5, <1>6

\* The budget is used up: the failure is reported, and the state after it.
LEMMA LastFailureKeepsHealth ==
  ASSUME HealthInv, SessionTypes, UNCHANGED <<held, attempt>>,
         attempt = MaxReconnects, worker' = "returned",
         Emit(<<Failure, Health("degraded")>>)
  PROVE  HealthInv'
<1> DEFINE f == Failure
           e == Health("degraded")
<1>1. /\ f \in Events /\ f.kind = "error"
      /\ e \in Events /\ e.kind = "health" /\ e.is = "degraded"
  BY EventTypes DEF HealthStates
<1>2. CASE held
  <2>1. log' = log \o <<f, e>>
    BY <1>2 DEF Emit
  <2> HIDE DEF f, e
  <2>2. log' = (log \o <<f>>) \o <<e>> /\ log \o <<f>> \in Seq(Events)
    <3>1. log \in Seq(Events) /\ f \in Events /\ e \in Events
      BY <1>1 DEF SessionTypes
    <3>2. log \o <<f, e>> = (log \o <<f>>) \o <<e>>
      BY <3>1, TwoMore
    <3>3. log \o <<f>> \in Seq(Events)
      BY <3>1, OneMore
    <3> QED BY <2>1, <3>2, <3>3
  <2> DEFINE failed == log \o <<f>>
  <2>3. /\ Len(failed) = Len(log) + 1 /\ Len(log) \in Nat
        /\ failed[Len(log) + 1] = f
    BY <1>1, OneMore DEF SessionTypes
  <2>4. failed \in Seq(Events) /\ log' = failed \o <<e>>
    BY <2>2
  <2> HIDE DEF failed
  <2>5. /\ Len(log') = Len(failed) + 1
        /\ \A i \in 1..Len(failed) : log'[i] = failed[i]
        /\ log'[Len(failed) + 1] = e
    BY <1>1, <2>4, OneMore
  <2>6. /\ Len(log') = Len(log) + 2 /\ log'[Len(log')] = e
        /\ log'[Len(log') - 1] = f
    BY <2>3, <2>5
  <2>7. ASSUME NEW i \in 1..Len(log'), LastReport(i)'
        PROVE  TellsTheTruth(i)'
    <3>1. \A k \in (i + 1)..Len(log') : log'[k].kind # "health"
      BY <2>7 DEF LastReport
    <3>2. i = Len(log')
      BY <1>1, <2>3, <2>6, <3>1
    <3>3. /\ log'[i].is = "degraded" /\ log'[i - 1] = f /\ i > 1
      BY <1>1, <2>3, <2>6, <3>2
    <3> QED BY <3>2, <3>3 DEF TellsTheTruth, f, Failure
  <2> QED BY <1>2, <2>7 DEF HealthInv, HealthTellsTheTruth
<1>3. CASE ~held
  BY <1>3 DEF HealthInv, HealthTellsTheTruth
<1> QED BY <1>2, <1>3

LEMMA WorkerKeepsHealth ==
  ASSUME HealthInv, SessionTypes, Worker
  PROVE  HealthInv'
<1>1. CASE Start
  <2>1. /\ log = << >> /\ UNCHANGED <<held, attempt, cancelled>>
        /\ worker = "starting"
    BY <1>1 DEF HealthInv, Start, sessionVars
  <2>2. CASE worker' = "top" /\ log' = log
    BY <2>1, <2>2, SilentKeepsHealth
  <2>3. CASE worker' = "returned" /\ Emit(<<Failure>>)
    <3>1. held => log' = log \o <<Failure>>
      BY <2>3 DEF Emit
    <3>2. /\ log \in Seq(Events) /\ Failure \in Events
          /\ Failure.kind = "error"
      BY EventTypes DEF SessionTypes
    <3>3. held => Len(log') = 1 /\ log'[1].kind = "error"
      BY <2>1, <3>1, <3>2, OneMore
    <3>4. ASSUME held, NEW i \in 1..Len(log') PROVE ~LastReport(i)'
      <4>1. Len(log') = 1 /\ log'[1].kind = "error"
        BY <3>3, <3>4
      <4>2. i = 1
        BY <3>4, <4>1
      <4> QED BY <4>1, <4>2 DEF LastReport
    <3> QED BY <2>1, <2>3, <3>4 DEF HealthInv, HealthTellsTheTruth
  <2> QED BY <1>1, <2>2, <2>3 DEF Start, Goto
<1>2. CASE LoopTop
  <2>1. UNCHANGED <<held, attempt, cancelled>>
    BY <1>2 DEF LoopTop, sessionVars
  <2>2. {"stopped", "connecting", "reconnecting"} \subseteq HealthStates
    BY DEF HealthStates
  <2>3. attempt' \in Nat /\ attempt' <= MaxReconnects
    BY <2>1 DEF HealthInv
  <2>4. CASE cancelled
    <3>1. Emit(<<Health("stopped")>>) /\ worker' = "returned"
      BY <1>2, <2>4 DEF LoopTop, Goto
    <3> QED BY <2>1, <2>2, <2>3, <2>4, <3>1, ReportKeepsHealth
  <2>5. CASE ~cancelled
    <3> DEFINE h == IF attempt = 0 THEN "connecting" ELSE "reconnecting"
    <3>1. Emit(<<Health(h)>>) /\ worker' = "connecting"
      BY <1>2, <2>5 DEF LoopTop, Goto
    <3>2. PICK g \in {"connecting", "reconnecting"} : g = h
      OBVIOUS
    <3>3. Emit(<<Health(g)>>) /\ g \in HealthStates
      BY <2>2, <3>1, <3>2
    <3> QED BY <2>1, <2>3, <3>1, <3>3, ReportKeepsHealth
  <2> QED BY <2>4, <2>5
<1>3. CASE Connect
  <2>1. UNCHANGED <<held, attempt, cancelled>> /\ worker = "connecting"
    BY <1>3 DEF Connect, sessionVars
  <2>2. CASE worker' = "failed" /\ log' = log
    BY <2>1, <2>2, SilentKeepsHealth
  <2>3. CASE worker' = "connected" /\ Emit(<<Health("healthy")>>)
    <3>1. "healthy" \in HealthStates
      BY DEF HealthStates
    <3>2. attempt' \in Nat /\ attempt' <= MaxReconnects
      BY <2>1 DEF HealthInv
    <3> QED BY <2>1, <2>3, <3>1, <3>2, ReportKeepsHealth
  <2> QED BY <1>3, <2>2, <2>3 DEF Connect, Goto
<1>4. CASE Tick
  <2>1. /\ log' = log /\ UNCHANGED <<held, attempt, cancelled>> /\ cancelled
        /\ worker = "connected" /\ worker' = "closing"
    BY <1>4 DEF Tick, Goto, sessionVars
  <2> QED BY <2>1, SilentKeepsHealth
<1>5. CASE TakeFrame
  <2>1. /\ log' = log /\ UNCHANGED <<held, attempt, cancelled>>
        /\ worker = "connected"
        /\ worker' = "sending" \/ (worker' = "closing" /\ ~held)
    BY <1>5 DEF TakeFrame, Goto, sessionVars
  <2> QED BY <2>1, SilentKeepsHealth
<1>6. CASE Send
  <2>1. /\ log' = log /\ UNCHANGED <<held, attempt, cancelled>>
        /\ worker = "sending" /\ worker' \in {"connected", "failed"}
    BY <1>6 DEF Send, Goto, sessionVars
  <2> QED BY <2>1, SilentKeepsHealth
<1>7. CASE Close
  <2>1. /\ UNCHANGED <<held, attempt, cancelled>> /\ worker' = "returned"
        /\ Emit(<<Health("stopped")>>)
        /\ held => cancelled'
    BY <1>7 DEF Close, Stop, Goto, sessionVars, HealthInv
  <2>2. attempt' \in Nat /\ attempt' <= MaxReconnects
    BY <2>1 DEF HealthInv
  <2> QED BY <2>1, <2>2, ReportKeepsHealth DEF HealthStates
<1>8. CASE ReadMessage
  BY <1>8, ReadKeepsHealth
<1>9. CASE AfterFailure
  <2>1. UNCHANGED <<held, cancelled>> /\ worker = "failed"
    BY <1>9 DEF AfterFailure, sessionVars
  <2>2. CASE cancelled
    <3>1. /\ Emit(<<Health("stopped")>>)
          /\ worker' = "returned" /\ attempt' = attempt
      BY <1>9, <2>2 DEF AfterFailure, Stop, Goto
    <3>2. attempt' \in Nat /\ attempt' <= MaxReconnects
      BY <3>1 DEF HealthInv
    <3> QED BY <2>1, <2>2, <3>1, <3>2, ReportKeepsHealth
            DEF HealthStates
  <2>3. CASE ~cancelled /\ attempt >= MaxReconnects
    <3>1. attempt = MaxReconnects
      BY <2>3, DaemonConfig DEF HealthInv, WorkerConfig
    <3>2. /\ Emit(<<Failure, Health("degraded")>>)
          /\ worker' = "returned" /\ attempt' = attempt
      BY <1>9, <2>3 DEF AfterFailure, Goto
    <3> QED BY <2>1, <3>1, <3>2, LastFailureKeepsHealth
  <2>4. CASE ~cancelled /\ ~(attempt >= MaxReconnects)
    <3>1. /\ attempt' = attempt + 1 /\ worker' = "backoff" /\ log' = log
      BY <1>9, <2>4 DEF AfterFailure, Goto
    <3>2. attempt' \in Nat /\ attempt' <= MaxReconnects
      BY <2>4, <3>1, DaemonConfig DEF HealthInv, WorkerConfig
    <3>3. HealthTellsTheTruth'
      BY <2>1, <3>1 DEF HealthInv, HealthTellsTheTruth, LastReport,
           TellsTheTruth
    <3> QED BY <3>1, <3>2, <3>3 DEF HealthInv
  <2> QED BY <2>2, <2>3, <2>4
<1>10. CASE Backoff
  <2>1. /\ log' = log /\ UNCHANGED <<held, attempt, cancelled>>
        /\ worker = "backoff" /\ worker' = "top"
    BY <1>10 DEF Backoff, Goto, sessionVars
  <2> QED BY <2>1, SilentKeepsHealth
<1> QED
  BY <1>1, <1>2, <1>3, <1>4, <1>5, <1>6, <1>7, <1>8, <1>9, <1>10
     DEF Worker

LEMMA OwnerKeepsHealth ==
  ASSUME HealthInv, \/ \E at \in Nat : PushAudio(at)
                    \/ RecvEvent \/ Cancel \/ Drop
  PROVE  HealthInv'
<1>1. /\ log' = log /\ worker' = worker /\ UNCHANGED attempt
      /\ held' => held
      /\ cancelled => cancelled'
  BY DEF PushAudio, RecvEvent, Cancel, Drop, sessionVars
<1>2. held /\ worker' = "closing" => cancelled'
  BY <1>1 DEF HealthInv
<1> QED BY <1>1, <1>2, SilentKeepsHealth

----------------------------------------------------------------------------
(* The times of the finals. *)

(* The worker's lastFinalEnd is when the last final of its connection      *)
(* ended, as long as the log records them; no connection has finals before *)
(* it is made; and the audio it has or is yet to take is not newer than    *)
(* the last frame handed over.                                             *)
TimesInv ==
  /\ FinalsTile
  /\ held => EndedAt(lastFinalEnd, Len(log) + 1, connections)
  /\ \A i \in Finals : log[i].on <= connections
  /\ latestAudio <= clock
  /\ \A i \in 1..Len(audio) : audio[i] <= clock

(* The log is extended, and quietly if by nothing that is a final.         *)
Extends ==
  /\ Len(log) <= Len(log')
  /\ \A k \in 1..Len(log) : log'[k] = log[k]

Quietly == Extends /\ \A k \in (Len(log) + 1)..Len(log') : log'[k].kind # "final"

LEMMA SilentIsQuiet ==
  ASSUME SessionTypes, log' = log
  PROVE  Quietly
<1>1. Len(log) \in Nat
  BY LenProperties DEF SessionTypes
<1> QED BY <1>1 DEF Quietly, Extends

LEMMA OneMoreExtends ==
  ASSUME SessionTypes, NEW e \in Events, log' = log \o <<e>>
  PROVE  Extends /\ (e.kind # "final" => Quietly)
<1>1. /\ Len(log') = Len(log) + 1 /\ Len(log) \in Nat
      /\ \A k \in 1..Len(log) : log'[k] = log[k]
      /\ log'[Len(log) + 1] = e
  BY OneMore DEF SessionTypes
<1>2. Extends
  BY <1>1 DEF Extends
<1>3. \A k \in (Len(log) + 1)..Len(log') : k = Len(log) + 1
  BY <1>1
<1> QED BY <1>1, <1>2, <1>3 DEF Quietly

LEMMA EmitIsQuiet ==
  ASSUME SessionTypes, NEW e \in Events, e.kind # "final",
         Emit(<<e>>)
  PROVE  Quietly
BY SilentIsQuiet, OneMoreExtends DEF Emit

LEMMA LastFailureIsQuiet ==
  ASSUME SessionTypes,
         Emit(<<Failure, Health("degraded")>>)
  PROVE  Quietly
<1>1. PICK f \in Events : f = Failure /\ f.kind # "final"
  BY EventTypes
<1>2. PICK e \in Events : e = Health("degraded")
                                  /\ e.kind # "final"
  BY EventTypes DEF HealthStates
<1>3. CASE held
  <2>1. log' = log \o <<f, e>>
    BY <1>1, <1>2, <1>3 DEF Emit
  <2>2. log' = (log \o <<f>>) \o <<e>>
    BY <2>1, TwoMore DEF SessionTypes
  <2> DEFINE failed == log \o <<f>>
  <2>3. /\ failed \in Seq(Events)
        /\ Len(failed) = Len(log) + 1 /\ Len(log) \in Nat
        /\ \A k \in 1..Len(log) : failed[k] = log[k]
        /\ failed[Len(log) + 1] = f
    BY OneMore DEF SessionTypes
  <2>4. log' = failed \o <<e>>
    BY <2>2
  <2> HIDE DEF failed
  <2>5. /\ Len(log') = Len(failed) + 1
        /\ \A k \in 1..Len(failed) : log'[k] = failed[k]
        /\ log'[Len(failed) + 1] = e
    BY <2>3, <2>4, OneMore
  <2>6. /\ Len(log') = Len(log) + 2
        /\ \A k \in 1..Len(log) : log'[k] = log[k]
        /\ log'[Len(log) + 1] = f /\ log'[Len(log) + 2] = e
    BY <2>3, <2>5
  <2>7. \A k \in (Len(log) + 1)..Len(log') : k \in {Len(log) + 1, Len(log) + 2}
    BY <2>3, <2>6
  <2>8. Len(log) <= Len(log')
    BY <2>3, <2>6
  <2> QED BY <1>1, <1>2, <2>6, <2>7, <2>8 DEF Quietly, Extends
<1>4. CASE ~held
  BY <1>4, SilentIsQuiet DEF Emit
<1> QED BY <1>3, <1>4

\* The times and connections of finals are numbers.
LEMMA FinalFields ==
  ASSUME SessionTypes, NEW i \in Finals
  PROVE  /\ i \in 1..Len(log)
         /\ log[i].on \in Nat /\ log[i].start \in Nat /\ log[i].end \in Nat
<1>1. i \in 1..Len(log) /\ log[i].kind = "final"
  BY DEF Finals
<1>2. log[i] \in Events
  BY <1>1, ElementOfSeq DEF SessionTypes
<1> QED BY <1>1, <1>2 DEF Events

\* A log that is extended keeps its finals.
LEMMA FinalsStay ==
  ASSUME SessionTypes, SessionTypes', Extends
  PROVE  /\ Len(log) \in Nat /\ Len(log') \in Nat
         /\ \A k \in 1..Len(log) : k \in Finals' <=> k \in Finals
         /\ Quietly => Finals' = Finals
<1>1. Len(log) \in Nat /\ Len(log') \in Nat
  BY LenProperties DEF SessionTypes
<1>2. \A k \in 1..Len(log) : k \in Finals' <=> k \in Finals
  BY <1>1 DEF Extends, Finals
<1>3. ASSUME Quietly PROVE Finals' = Finals
  <2>1. \A k \in Finals' : k \in 1..Len(log') /\ log'[k].kind = "final"
    BY DEF Finals
  <2>2. \A k \in Finals' : k \in 1..Len(log)
    BY <1>1, <1>3, <2>1 DEF Quietly
  <2>3. \A k \in Finals : k \in 1..Len(log)
    BY DEF Finals
  <2> QED BY <1>2, <2>2, <2>3
<1> QED BY <1>1, <1>2, <1>3

\* What is appended to the log does not change what came before it.
LEMMA EndedStays ==
  ASSUME SessionTypes, SessionTypes', Extends,
         NEW CONSTANT time, NEW CONSTANT on,
         NEW CONSTANT i \in 1..(Len(log) + 1), EndedAt(time, i, on)
  PROVE  EndedAt(time, i, on)'
<1> DEFINE earlier == {j \in Finals : j < i /\ log[j].on = on}
           later   == {j \in Finals' : j < i /\ log'[j].on = on}
<1>1. \A k \in 1..Len(log) : log'[k] = log[k]
  BY DEF Extends
<1>2. later = earlier /\ \A j \in earlier : j \in 1..Len(log)
  <2>1. Len(log) \in Nat /\ i <= Len(log) + 1 /\ i \in Nat
    BY FinalsStay
  <2>2. \A j \in Finals : j \in 1..Len(log)
    BY DEF Finals
  <2>3. \A j \in Finals' : j \in Nat
    BY DEF Finals
  <2>4. \A j \in Finals' : j < i => j \in 1..Len(log)
    BY <2>1, FinalsStay DEF Finals
  <2> QED BY <1>1, <2>2, <2>4, FinalsStay
<1>3. \/ earlier = {} /\ time = 0
      \/ \E j \in earlier : (\A k \in earlier : k <= j) /\ time = log[j].end
  BY DEF EndedAt
<1>4. \/ later = {} /\ time = 0
      \/ \E j \in later : (\A k \in later : k <= j) /\ time = log'[j].end
  BY <1>1, <1>2, <1>3
<1> QED BY <1>4 DEF EndedAt

\* The finals there were keep what FinalsTile says of them.
LEMMA OldFinalsTile ==
  ASSUME SessionTypes, SessionTypes', TimesInv, Extends, clock <= clock',
         NEW CONSTANT i \in Finals
  PROVE  /\ log'[i].start <= log'[i].end
         /\ "start" \notin log'[i].gives => EndedAt(log[i].start, i, log[i].on)'
         /\ "end" \notin log'[i].gives =>
              log'[i].end <= Max({log'[i].start, clock'})
<1>1. i \in 1..Len(log) /\ log'[i] = log[i] /\ Len(log) \in Nat
  BY FinalFields, FinalsStay DEF Extends
<1>2. /\ log[i].start <= log[i].end
      /\ "start" \notin log[i].gives => EndedAt(log[i].start, i, log[i].on)
      /\ "end" \notin log[i].gives =>
           log[i].end <= Max({log[i].start, clock})
  BY DEF TimesInv, FinalsTile
<1>3. ASSUME "start" \notin log[i].gives
      PROVE  EndedAt(log[i].start, i, log[i].on)'
  <2>1. PICK time : time = log[i].start
    OBVIOUS
  <2>2. PICK on : on = log[i].on
    OBVIOUS
  <2>3. EndedAt(time, i, on)
    BY <1>2, <1>3, <2>1, <2>2
  <2>4. i \in 1..(Len(log) + 1)
    BY <1>1
  <2>5. EndedAt(time, i, on)'
    BY <2>3, <2>4, EndedStays
  <2>6. time = log'[i].start /\ on = log'[i].on
    BY <1>1, <2>1, <2>2
  <2> QED BY <2>5, <2>6 DEF EndedAt
<1>4. ASSUME "end" \notin log[i].gives
      PROVE  log[i].end <= Max({log[i].start, clock'})
  <2>1. log[i].start \in Nat /\ log[i].end \in Nat
    BY FinalFields
  <2>2. /\ Max({log[i].start, clock}) =
             IF log[i].start <= clock THEN clock ELSE log[i].start
        /\ Max({log[i].start, clock'}) =
             IF log[i].start <= clock' THEN clock' ELSE log[i].start
    BY <2>1, MaxOfTwo DEF SessionTypes
  <2>3. log[i].end <= Max({log[i].start, clock})
    BY <1>2, <1>4
  <2>4. clock \in Nat /\ clock' \in Nat
    BY DEF SessionTypes
  <2>5. /\ Max({log[i].start, clock}) <= Max({log[i].start, clock'})
        /\ Max({log[i].start, clock}) \in Nat
        /\ Max({log[i].start, clock'}) \in Nat
    BY <2>1, <2>2, <2>4
  <2> QED BY <2>1, <2>3, <2>5
<1> QED BY <1>1, <1>2, <1>3, <1>4

\* A step that tells no final.
LEMMA QuietKeepsTimes ==
  ASSUME SessionTypes, SessionTypes', TimesInv, Quietly, held' => held,
         clock <= clock', latestAudio' <= clock',
         \A i \in 1..Len(audio') : audio'[i] <= clock',
         \/ UNCHANGED <<lastFinalEnd, connections>>
         \/ connections' = connections + 1 /\ lastFinalEnd' = 0
  PROVE  TimesInv'
<1>1. Extends
  BY DEF Quietly
<1>2. Finals' = Finals
  BY <1>1, FinalsStay
<1>3. \A i \in Finals' :
        /\ i \in 1..Len(log)
        /\ log'[i].on \in Nat /\ log'[i].on <= connections
  BY <1>1, <1>2, FinalFields DEF TimesInv, Extends
<1>4. FinalsTile'
  <2>1. ASSUME NEW i \in Finals'
        PROVE  /\ log'[i].start <= log'[i].end
               /\ "start" \notin log'[i].gives =>
                    EndedAt(log[i].start, i, log[i].on)'
               /\ "end" \notin log'[i].gives =>
                    log'[i].end <= Max({log'[i].start, clock'})
    BY <1>1, <1>2, OldFinalsTile
  <2> QED BY <2>1 DEF FinalsTile
<1>5. ASSUME held'
      PROVE  EndedAt(lastFinalEnd, Len(log) + 1, connections)'
  <2>1. CASE UNCHANGED <<lastFinalEnd, connections>>
    <3>1. PICK time : time = lastFinalEnd
      OBVIOUS
    <3>2. PICK on : on = connections
      OBVIOUS
    <3>3. PICK i \in 1..(Len(log) + 1) : i = Len(log) + 1
      BY <1>1, FinalsStay
    <3>4. EndedAt(time, i, on)
      BY <1>5, <3>1, <3>2, <3>3 DEF TimesInv
    <3>5. EndedAt(time, i, on)'
      BY <1>1, <3>4, EndedStays
    <3>6. \A j \in Finals' : j < i /\ j < Len(log') + 1
      BY <1>1, <1>3, <3>3, FinalsStay DEF Extends
    <3>7. \A j \in Finals' :
            j < i /\ log'[j].on = on <=>
              j < Len(log') + 1 /\ log'[j].on = connections'
      BY <2>1, <3>2, <3>6
    <3>8. {j \in Finals' : j < i /\ log'[j].on = on} =
            {j \in Finals' : j < Len(log') + 1
                                     /\ log'[j].on = connections'}
      BY <3>7
    <3> QED BY <2>1, <3>1, <3>5, <3>8 DEF EndedAt
  <2>2. CASE connections' = connections + 1 /\ lastFinalEnd' = 0
    <3>1. {j \in Finals' : j < Len(log') + 1
                                   /\ log'[j].on = connections'} = {}
      BY <1>3, <2>2 DEF SessionTypes
    <3> QED BY <2>2, <3>1 DEF EndedAt
  <2> QED BY <2>1, <2>2
<1>6. \A i \in Finals' : log'[i].on <= connections'
  BY <1>3 DEF SessionTypes
<1> QED BY <1>4, <1>5, <1>6 DEF TimesInv

\* A final is told, with the times it is given or those of the worker.
LEMMA FinalKeepsTimes ==
  ASSUME SessionTypes, SessionTypes', TimesInv,
         UNCHANGED <<held, clock, audio, latestAudio, connections>>,
         NEW given \in GivenTimes,
         Emit(<<FinalOf(given)>>),
         lastFinalEnd' = FinalOf(given).end
  PROVE  TimesInv'
<1>1. CASE held
  <2>1. PICK e \in Events : e = FinalOf(given)
    BY FinalType
  <2>2. /\ e.kind = "final" /\ e.on = connections
        /\ e.start \in Nat /\ e.end \in Nat /\ e.start <= e.end
        /\ "start" \notin e.gives => e.start = lastFinalEnd
        /\ "end" \notin e.gives => e.end = Max({e.start, latestAudio})
    BY <2>1, FinalType
  <2>3. log' = log \o <<e>> /\ lastFinalEnd' = e.end
    BY <1>1, <2>1 DEF Emit
  <2>4. Extends
    BY <2>3, OneMoreExtends
  <2>5. /\ Len(log') = Len(log) + 1 /\ Len(log) \in Nat
        /\ \A k \in 1..Len(log) : log'[k] = log[k]
        /\ log'[Len(log) + 1] = e
    BY <2>3, OneMore DEF SessionTypes
  <2>6. /\ \A i \in Finals' : i \in Finals \/ i = Len(log) + 1
        /\ \A i \in Finals : i \in 1..Len(log)
        /\ Len(log) + 1 \in Finals'
    BY <2>2, <2>4, <2>5, FinalsStay DEF Finals
  <2>7. ASSUME "start" \notin e.gives
        PROVE  EndedAt(log[Len(log)].start, Len(log), log[Len(log)].on)'
    <3>1. PICK time : time = lastFinalEnd
      OBVIOUS
    <3>2. PICK on : on = connections
      OBVIOUS
    <3>3. PICK i \in 1..(Len(log) + 1) : i = Len(log) + 1
      BY <2>5
    <3>4. EndedAt(time, i, on)
      BY <1>1, <3>1, <3>2, <3>3 DEF TimesInv
    <3>5. EndedAt(time, i, on)'
      BY <2>4, <3>4, EndedStays
    <3>6. /\ i = Len(log') /\ time = log'[Len(log')].start
          /\ on = log'[Len(log')].on
      BY <2>2, <2>5, <2>7, <3>1, <3>2, <3>3
    <3> QED BY <3>5, <3>6 DEF EndedAt
  <2>8. ASSUME "end" \notin e.gives
         PROVE  e.end <= Max({e.start, clock})
    <3>1. /\ latestAudio <= clock
          /\ e.start \in Nat /\ latestAudio \in Nat /\ clock \in Nat
      BY <2>2 DEF TimesInv, SessionTypes
    <3>2. e.end = Max({e.start, latestAudio})
      BY <2>2, <2>8
    <3>3. /\ e.end = IF e.start <= latestAudio THEN latestAudio ELSE e.start
          /\ Max({e.start, clock}) =
               IF e.start <= clock THEN clock ELSE e.start
      BY <3>1, <3>2, MaxOfTwo
    <3> QED BY <3>1, <3>3
  <2>9. ASSUME NEW i \in Finals'
        PROVE  /\ log'[i].start <= log'[i].end
               /\ "start" \notin log'[i].gives =>
                    EndedAt(log[i].start, i, log[i].on)'
               /\ "end" \notin log'[i].gives =>
                    log'[i].end <= Max({log'[i].start, clock'})
    <3>1. CASE i \in Finals
      <4>1. clock <= clock'
        BY DEF SessionTypes
      <4> QED BY <2>4, <3>1, <4>1, OldFinalsTile
    <3>2. CASE i = Len(log) + 1
      <4>1. log'[i] = e /\ i = Len(log')
        BY <2>5, <3>2
      <4>2. ASSUME "start" \notin e.gives
            PROVE  EndedAt(log[i].start, i, log[i].on)'
        BY <2>7, <4>1, <4>2 DEF EndedAt
      <4>3. clock' = clock
        OBVIOUS
      <4> QED BY <2>2, <2>8, <4>1, <4>2, <4>3
    <3> QED BY <2>6, <3>1, <3>2
  <2>10. FinalsTile'
    BY <2>9 DEF FinalsTile
  <2>11. \A i \in Finals' : log'[i].on <= connections'
    <3>1. \A i \in Finals : log'[i].on <= connections
      BY <2>5, <2>6 DEF TimesInv
    <3>2. e.on <= connections
      BY <2>2 DEF SessionTypes
    <3>3. connections' = connections
      OBVIOUS
    <3> QED BY <2>5, <2>6, <3>1, <3>2, <3>3
  <2>12. EndedAt(lastFinalEnd, Len(log) + 1, connections)'
    <3> DEFINE last == Len(log) + 1
               later == {j \in Finals' : j < Len(log') + 1
                                                /\ log'[j].on = connections'}
    <3>1. last \in Finals' /\ last < Len(log') + 1 /\ log'[last] = e
      BY <2>5, <2>6
    <3>2. last \in later /\ lastFinalEnd' = log'[last].end
      BY <2>2, <2>3, <3>1
    <3>3. \A k \in later : k <= last
      BY <2>5, <2>6
    <3> QED BY <3>2, <3>3 DEF EndedAt
  <2> QED BY <2>10, <2>11, <2>12 DEF TimesInv
<1>2. CASE ~held
  <2>1. log' = log /\ ~held'
    BY <1>2 DEF Emit
  <2>2. \A i \in Finals' : log'[i].on <= connections'
    BY <2>1 DEF TimesInv, Finals
  <2>3. Finals' = Finals
    BY <2>1 DEF Finals
  <2>4. ASSUME NEW i \in Finals
        PROVE  EndedAt(log[i].start, i, log[i].on)
                 => EndedAt(log[i].start, i, log[i].on)'
    BY <2>1, <2>3 DEF EndedAt
  <2>5. clock' = clock
    OBVIOUS
  <2>6. FinalsTile'
    BY <2>1, <2>3, <2>4, <2>5 DEF TimesInv, FinalsTile
  <2> QED BY <2>1, <2>2, <2>6 DEF TimesInv
<1> QED BY <1>1, <1>2

LEMMA WorkerKeepsTimes ==
  ASSUME SessionTypes, TimesInv, Worker
  PROVE  TimesInv'
<1> SessionTypes'
  BY WorkerKeepsTypes
<1> USE DEF Goto, sessionVars
<1>0. /\ latestAudio <= clock /\ 0 <= clock /\ clock <= clock
      /\ \A i \in 1..Len(audio) : audio[i] <= clock
  BY DEF TimesInv, SessionTypes
<1>1. CASE Start
  <2>1. UNCHANGED <<held, clock, audio, latestAudio, lastFinalEnd, connections>>
    BY <1>1 DEF Start
  <2>2. CASE log' = log
    BY <1>0, <2>1, <2>2, SilentIsQuiet, QuietKeepsTimes
  <2>3. CASE Emit(<<Failure>>)
    BY <1>0, <2>1, <2>3, EmitIsQuiet, QuietKeepsTimes, EventTypes
  <2> QED BY <1>1, <2>2, <2>3 DEF Start
<1>2. CASE LoopTop
  <2>1. UNCHANGED <<held, clock, audio, latestAudio, lastFinalEnd, connections>>
    BY <1>2 DEF LoopTop
  <2>2. PICK h \in HealthStates : Emit(<<Health(h)>>)
    BY <1>2 DEF LoopTop, HealthStates
  <2> QED BY <1>0, <2>1, <2>2, EmitIsQuiet, QuietKeepsTimes, EventTypes
<1>3. CASE Connect
  <2>1. UNCHANGED <<held, clock, audio>>
    BY <1>3 DEF Connect
  <2>2. CASE UNCHANGED <<log, latestAudio, lastFinalEnd, connections>>
    BY <1>0, <2>1, <2>2, SilentIsQuiet, QuietKeepsTimes
  <2>3. CASE /\ Emit(<<Health("healthy")>>)
             /\ latestAudio' = 0 /\ lastFinalEnd' = 0
             /\ connections' = connections + 1
    BY <1>0, <2>1, <2>3, EmitIsQuiet, QuietKeepsTimes, EventTypes
        DEF HealthStates
  <2> QED BY <1>3, <2>2, <2>3 DEF Connect
<1>4. CASE TakeFrame
  <2>1. UNCHANGED <<held, clock, log, lastFinalEnd, connections>>
    BY <1>4 DEF TakeFrame
  <2>2. CASE UNCHANGED <<audio, latestAudio>>
    BY <1>0, <2>1, <2>2, SilentIsQuiet, QuietKeepsTimes
  <2>3. CASE audio # << >> /\ latestAudio' = Head(audio) /\ audio' = Tail(audio)
    <3>1. /\ audio \in Seq(Nat) /\ Len(audio) \in Nat /\ Len(audio) # 0
      BY <2>3, EmptySeq, LenProperties DEF SessionTypes
    <3>2. /\ Head(audio) = audio[1] /\ Len(Tail(audio)) = Len(audio) - 1
          /\ \A i \in 1..Len(Tail(audio)) : Tail(audio)[i] = audio[i + 1]
      BY <2>3, <3>1, HeadTailProperties
    <3>3. latestAudio' <= clock
      BY <1>0, <2>3, <3>1, <3>2
    <3>4. \A i \in 1..Len(audio') : audio'[i] <= clock
      BY <1>0, <2>3, <3>1, <3>2
    <3> QED BY <1>0, <2>1, <3>3, <3>4, SilentIsQuiet, QuietKeepsTimes
  <2> QED BY <1>4, <2>2, <2>3 DEF TakeFrame
<1>5. CASE Tick \/ Send \/ Backoff
  <2>1. UNCHANGED <<held, clock, audio, log, latestAudio, lastFinalEnd,
                    connections>>
    BY <1>5 DEF Tick, Send, Backoff
  <2> QED BY <1>0, <2>1, SilentIsQuiet, QuietKeepsTimes
<1>6. CASE Close
  <2>1. /\ UNCHANGED <<held, clock, audio, latestAudio, lastFinalEnd, connections>>
        /\ Emit(<<Health("stopped")>>)
    BY <1>6 DEF Close, Stop
  <2> QED BY <1>0, <2>1, EmitIsQuiet, QuietKeepsTimes, EventTypes
      DEF HealthStates
<1>7. CASE ReadMessage
  <2>1. UNCHANGED <<held, clock, audio, latestAudio, connections>>
    BY <1>7 DEF ReadMessage
  <2>2. ASSUME NEW event \in {Partial, Failure,
                              Health("healthy")},
               Receive(event)
        PROVE  TimesInv'
    <3>1. event \in Events /\ event.kind # "final"
      BY EventTypes DEF HealthStates
    <3>2. Emit(<<event>>) /\ lastFinalEnd' = lastFinalEnd
      BY <2>2, <3>1 DEF Receive
    <3> QED BY <1>0, <2>1, <3>1, <3>2, EmitIsQuiet, QuietKeepsTimes
  <2>3. ASSUME NEW given \in GivenTimes,
               Receive(FinalOf(given))
        PROVE  TimesInv'
    <3>1. /\ Emit(<<FinalOf(given)>>)
          /\ lastFinalEnd' = FinalOf(given).end
      BY <2>3, FinalType DEF Receive
    <3> QED BY <2>1, <3>1, FinalKeepsTimes
  <2>4. CASE UNCHANGED <<log, lastFinalEnd>>
    BY <1>0, <2>1, <2>4, SilentIsQuiet, QuietKeepsTimes
  <2> QED BY <1>7, <2>2, <2>3, <2>4 DEF ReadMessage
<1>8. CASE AfterFailure
  <2>1. UNCHANGED <<held, clock, audio, latestAudio, lastFinalEnd, connections>>
    BY <1>8 DEF AfterFailure
  <2>2. CASE Emit(<<Health("stopped")>>)
    BY <1>0, <2>1, <2>2, EmitIsQuiet, QuietKeepsTimes, EventTypes
        DEF HealthStates
  <2>3. CASE Emit(<<Failure, Health("degraded")>>)
    BY <1>0, <2>1, <2>3, LastFailureIsQuiet, QuietKeepsTimes
  <2>4. CASE log' = log
    BY <1>0, <2>1, <2>4, SilentIsQuiet, QuietKeepsTimes
  <2> QED BY <1>8, <2>2, <2>3, <2>4 DEF AfterFailure, Stop
<1> QED
  BY <1>1, <1>2, <1>3, <1>4, <1>5, <1>6, <1>7, <1>8 DEF Worker

LEMMA OwnerKeepsTimes ==
  ASSUME SessionTypes, SessionTypes', TimesInv,
         \/ \E at \in Nat : at > clock /\ PushAudio(at)
         \/ RecvEvent \/ Cancel \/ Drop
  PROVE  TimesInv'
<1>1. /\ UNCHANGED <<log, latestAudio, lastFinalEnd, connections>>
      /\ held' => held
  BY DEF PushAudio, RecvEvent, Cancel, Drop, sessionVars
<1>2. /\ latestAudio <= clock /\ clock \in Nat /\ latestAudio \in Nat
      /\ \A i \in 1..Len(audio) : audio[i] <= clock /\ audio[i] \in Nat
  BY ElementOfSeq DEF TimesInv, SessionTypes
<1>3. CASE UNCHANGED <<audio, clock>>
  BY <1>1, <1>2, <1>3, SilentIsQuiet, QuietKeepsTimes
<1>4. ASSUME NEW at \in Nat, at > clock, PushAudio(at)
      PROVE  TimesInv'
  <2>1. clock' = at /\ (audio' = audio \/ audio' = Append(audio, at))
    BY <1>4 DEF PushAudio
  <2>2. /\ Len(audio) \in Nat /\ Len(Append(audio, at)) = Len(audio) + 1
        /\ \A i \in 1..Len(audio) : Append(audio, at)[i] = audio[i]
        /\ Append(audio, at)[Len(audio) + 1] = at
    BY AppendProperties, LenProperties DEF SessionTypes
  <2>3. \A i \in 1..Len(audio') : audio'[i] <= clock'
    BY <1>2, <1>4, <2>1, <2>2
  <2>4. clock <= clock' /\ latestAudio' <= clock'
    BY <1>1, <1>2, <1>4, <2>1
  <2> QED BY <1>1, <2>3, <2>4, SilentIsQuiet, QuietKeepsTimes
<1>5. \/ UNCHANGED <<audio, clock>>
      \/ \E at \in Nat : at > clock /\ PushAudio(at)
  BY DEF RecvEvent, Cancel, Drop
<1> QED BY <1>3, <1>4, <1>5

----------------------------------------------------------------------------
SessionInv == SessionTypes /\ HealthInv /\ TimesInv

LEMMA SessionInit ==
  ASSUME Init
  PROVE  SessionInv
<1> USE DEF Init
<1>1. SessionTypes
  BY EmptySeq DEF SessionTypes
<1>2. log = << >> /\ Len(log) = 0 /\ Len(audio) = 0
  BY EmptySeq
<1>3. HealthInv
  BY <1>2, DaemonConfig DEF HealthInv, HealthTellsTheTruth, WorkerConfig
<1>4. Finals = {}
  BY <1>2 DEF Finals
<1>5. TimesInv
  BY <1>2, <1>4 DEF TimesInv, FinalsTile, EndedAt
<1> QED BY <1>1, <1>3, <1>5 DEF SessionInv

\* What the thread that holds the session does with it.
Owner ==
  \/ \E at \in Nat : at > clock /\ PushAudio(at)
  \/ RecvEvent \/ Cancel \/ Drop

LEMMA SessionStep ==
  ASSUME SessionInv,
         Owner \/ Worker \/ UNCHANGED vars
  PROVE  SessionInv'
<1>1. CASE Owner
  <2>1. SessionTypes'
    BY <1>1, PushKeepsTypes DEF Owner, SessionInv, SessionTypes, RecvEvent,
         Cancel, Drop
  <2> QED BY <1>1, <2>1, OwnerKeepsHealth, OwnerKeepsTimes DEF SessionInv, Owner
<1>2. CASE Worker
  BY <1>2, WorkerKeepsTypes, WorkerKeepsHealth, WorkerKeepsTimes DEF SessionInv
<1>3. CASE UNCHANGED vars
  <2>1. UNCHANGED <<cancelled, held, audio, worker, attempt, latestAudio,
                    lastFinalEnd, log, received, clock, connections>>
    BY <1>3 DEF vars, sessionVars
  <2>2. SessionTypes'
    BY <2>1 DEF SessionInv, SessionTypes
  <2>3. HealthInv'
    BY <2>1, SilentKeepsHealth DEF SessionInv, HealthInv
  <2>4. TimesInv'
    BY <2>1, <2>2, SilentIsQuiet, QuietKeepsTimes
       DEF SessionInv, TimesInv, SessionTypes
  <2> QED BY <2>2, <2>3, <2>4 DEF SessionInv
<1> QED BY <1>1, <1>2, <1>3

(* The state a session reported last is the one it is in, whatever the     *)
(* budget, and one that ends says why: TranscriptionWorker                 *)
(* HealthTellsTheTruth.                                                    *)
THEOREM SessionTellsTheTruth == Spec => []HealthTellsTheTruth
<1>1. Init => SessionInv
  BY SessionInit
<1>2. SessionInv /\ [Next]_(vars) => SessionInv'
  <2> SUFFICES ASSUME SessionInv, [Next]_(vars)
               PROVE  SessionInv'
    OBVIOUS
  <2>1. clock \in Nat /\ FrameCap \in Nat
    BY DaemonConfig DEF SessionInv, SessionTypes, WorkerConfig
  <2>2. Owner \/ Worker \/ UNCHANGED vars
    BY <2>1 DEF Next, Owner
  <2> QED BY <2>2, SessionStep
<1>3. SessionInv => HealthTellsTheTruth
  BY DEF SessionInv, HealthInv
<1> QED BY <1>1, <1>2, <1>3, PTL DEF Spec

(* The finals of one connection tile its time, whatever the provider gives *)
(* and however the queue fills: TranscriptionWorker FinalsTile.            *)
THEOREM FinalsTileTheirConnection == Spec => []FinalsTile
<1>1. Init => SessionInv
  BY SessionInit
<1>2. SessionInv /\ [Next]_(vars) => SessionInv'
  <2> SUFFICES ASSUME SessionInv, [Next]_(vars)
               PROVE  SessionInv'
    OBVIOUS
  <2>1. clock \in Nat /\ FrameCap \in Nat
    BY DaemonConfig DEF SessionInv, SessionTypes, WorkerConfig
  <2>2. Owner \/ Worker \/ UNCHANGED vars
    BY <2>1 DEF Next, Owner
  <2> QED BY <2>2, SessionStep
<1>3. SessionInv => FinalsTile
  BY DEF SessionInv, TimesInv
<1> QED BY <1>1, <1>2, <1>3, PTL DEF Spec

----------------------------------------------------------------------------
(* The parts of a step of the daemon. *)

\* What a step does to the capture is a step of the capture, or nothing.
LEMMA CapturePart ==
  ASSUME [DaemonNext]_daemonVars
  PROVE  Capture!Next \/ UNCHANGED captureVars
<1>1. CASE Pipeline
  BY <1>1 DEF Pipeline, PipelineTop, PushFrame, PushRefused, GiveUp, NoFrame,
       HandleEvent, NoEvent, PollAnswers, TakeDismiss, TakeStopListening,
       NoAction, CancelSession, LeavePipeline, Capture!Next
<1>2. CASE Observe \/ ObserverEnds
  BY <1>2 DEF Observe, ObserverEnds
<1>3. CASE Main
  BY <1>3 DEF Main, CaptureReturns, JoinPipeline, JoinObserver, Capture!Next
<1>4. CASE RunCapture
  BY <1>4 DEF RunCapture, Capture!Next
<1>5. CASE RunSession
  BY <1>5 DEF RunSession
<1>6. CASE Signal
  BY <1>6 DEF Signal, Capture!Next
<1>7. CASE \E action \in {"dismiss", "stop"} : Act(action)
  BY <1>7 DEF Act
<1>8. CASE UNCHANGED daemonVars
  BY <1>8 DEF daemonVars
<1> QED BY <1>1, <1>2, <1>3, <1>4, <1>5, <1>6, <1>7, <1>8 DEF DaemonNext

LEMMA SessionPart ==
  ASSUME [DaemonNext]_daemonVars
  PROVE  \/ UNCHANGED workerVars
         \/ Worker
         \/ frames # << >> /\ PushAudio(Head(frames))
         \/ RecvEvent \/ Cancel \/ Drop
<1>1. CASE Pipeline
  BY <1>1 DEF Pipeline, PipelineTop, PushFrame, PushRefused, GiveUp, NoFrame,
       HandleEvent, NoEvent, PollAnswers, TakeDismiss, TakeStopListening,
       NoAction, CancelSession, LeavePipeline
<1>2. CASE Observe \/ ObserverEnds
  BY <1>2 DEF Observe, ObserverEnds
<1>3. CASE Main
  BY <1>3 DEF Main, CaptureReturns, JoinPipeline, JoinObserver
<1>4. CASE RunCapture
  BY <1>4 DEF RunCapture
<1>5. CASE RunSession
  BY <1>5 DEF RunSession
<1>6. CASE Signal
  BY <1>6 DEF Signal
<1>7. CASE \E action \in {"dismiss", "stop"} : Act(action)
  BY <1>7 DEF Act
<1>8. CASE UNCHANGED daemonVars
  BY <1>8 DEF daemonVars
<1> QED BY <1>1, <1>2, <1>3, <1>4, <1>5, <1>6, <1>7, <1>8 DEF DaemonNext

(* Within a meeting the capture behaves as it does alone: what AudioCapture *)
(* says of it holds in the daemon.                                         *)
THEOREM CaptureInTheDaemon == DaemonSpec => Capture!Spec
<1>1. DaemonInit => Capture!Init
  BY DEF DaemonInit
<1>2. [DaemonNext]_daemonVars => [Capture!Next]_(Capture!vars)
  <2> SUFFICES ASSUME [DaemonNext]_daemonVars PROVE [Capture!Next]_(Capture!vars)
    OBVIOUS
  <2>1. CASE UNCHANGED captureVars
    BY <2>1 DEF captureVars, Capture!vars, Capture!threadVars,
         Capture!streamVars, Capture!frameVars, Capture!receiverVars
  <2> QED BY <2>1, CapturePart
<1> QED BY <1>1, <1>2, PTL DEF DaemonSpec, Capture!Spec

----------------------------------------------------------------------------
(* What is published. *)

Published ==
  {Overlay!Degraded, Overlay!Error, Overlay!Question(1), Overlay!Dismissed}
    \union {Overlay!Listening(active) : active \in BOOLEAN}
    \union {Overlay!Transcription(next) : next \in Overlay!TranscriptionStates}

LEMMA PublishedOnly ==
  ASSUME NEW s \in Overlay!Snapshots, NEW event \in Published
  PROVE  /\ Overlay!Apply(s, event) \in Overlay!Snapshots
         /\ s.degraded => Overlay!Apply(s, event).degraded
<1> USE DEF Overlay!Snapshots
<1>1. /\ Overlay!Apply(s, Overlay!Degraded) = [s EXCEPT !.degraded = TRUE]
      /\ Overlay!Apply(s, Overlay!Error) = [s EXCEPT !.error = TRUE]
  BY DEF Overlay!Apply, Overlay!Degraded, Overlay!Error
<1>2. /\ Overlay!Apply(s, Overlay!Question(1)) = Overlay!NewQuestion(s, 1)
      /\ Overlay!Apply(s, Overlay!Dismissed) = Overlay!NewQuestion(s, 0)
  BY DEF Overlay!Apply, Overlay!Question, Overlay!Dismissed
<1>3. \A id \in Nat : /\ Overlay!NewQuestion(s, id) \in Overlay!Snapshots
                      /\ Overlay!NewQuestion(s, id).degraded = s.degraded
  BY EmptySeq DEF Overlay!NewQuestion
<1>4. CASE event \in {Overlay!Degraded, Overlay!Error}
  <2>1. /\ [s EXCEPT !.degraded = TRUE] \in Overlay!Snapshots
        /\ [s EXCEPT !.degraded = TRUE].degraded
    OBVIOUS
  <2>2. /\ [s EXCEPT !.error = TRUE] \in Overlay!Snapshots
        /\ [s EXCEPT !.error = TRUE].degraded = s.degraded
    OBVIOUS
  <2> HIDE DEF Overlay!Snapshots
  <2> QED BY <1>1, <1>4, <2>1, <2>2
<1>5. CASE event \in {Overlay!Question(1), Overlay!Dismissed}
  BY <1>2, <1>3, <1>5
<1>6. ASSUME NEW active \in BOOLEAN, event = Overlay!Listening(active)
      PROVE  /\ Overlay!Apply(s, event) \in Overlay!Snapshots
             /\ s.degraded => Overlay!Apply(s, event).degraded
  BY <1>6 DEF Overlay!Apply, Overlay!Listening
<1>7. ASSUME NEW next \in Overlay!TranscriptionStates,
             event = Overlay!Transcription(next)
      PROVE  /\ Overlay!Apply(s, event) \in Overlay!Snapshots
             /\ s.degraded => Overlay!Apply(s, event).degraded
  BY <1>7 DEF Overlay!Apply, Overlay!Transcription
<1> QED BY <1>4, <1>5, <1>6, <1>7 DEF Published

LEMMA LastPublished ==
  ASSUME NEW s \in Overlay!Snapshots
  PROVE  /\ ~Overlay!Apply(s, Overlay!Listening(FALSE)).listening
         /\ Overlay!Apply(s, Overlay!Degraded).degraded
BY DEF Overlay!Snapshots, Overlay!Apply, Overlay!Listening, Overlay!Degraded

DaemonTypes ==
  /\ SessionTypes
  /\ received \in Nat
  /\ frames \in Seq(Nat) /\ sequence \in Nat
  /\ shown \in Overlay!Snapshots

\* What the engine makes of an event of the session.
LEMMA EngineShows ==
  ASSUME DaemonTypes, received < Len(log), Engine(log[received + 1])
  PROVE  shown' = shown \/ \E e \in Published : Publish(e)
<1>1. log[received + 1] \in Events
  BY LenProperties, ElementOfSeq DEF DaemonTypes, SessionTypes
<1>2. PICK event \in Events : event = log[received + 1]
  BY <1>1
<1>3. Engine(event)
  BY <1>2
<1>4. CASE event.kind = "partial"
  BY <1>3, <1>4 DEF Engine
<1>5. CASE event.kind = "health"
  <2>1. event.is \in HealthStates
    BY <1>5 DEF Events
  <2>2. UiState(event.is) \in Overlay!TranscriptionStates
    BY <2>1 DEF UiState, HealthStates, Overlay!TranscriptionStates
  <2>3. Publish(Overlay!Transcription(UiState(event.is)))
    BY <1>3, <1>5 DEF Engine
  <2> QED BY <2>2, <2>3 DEF Published
<1>6. CASE event.kind = "error"
  BY <1>3, <1>6 DEF Engine, Published
<1>7. CASE event.kind = "final"
  BY <1>3, <1>7 DEF Engine, Published
<1> QED BY <1>4, <1>5, <1>6, <1>7 DEF Events

LEMMA ShownPart ==
  ASSUME DaemonTypes, [DaemonNext]_daemonVars
  PROVE  shown' = shown \/ \E e \in Published : Publish(e)
<1>1. CASE HandleEvent
  BY <1>1, EngineShows DEF HandleEvent, RecvEvent
<1>2. CASE PushRefused \/ NoEvent \/ PollAnswers \/ TakeDismiss
  BY <1>2 DEF PushRefused, NoEvent, PollAnswers, TakeDismiss, Published
<1>3. CASE \/ PipelineTop \/ PushFrame \/ GiveUp \/ NoFrame \/ TakeStopListening
           \/ NoAction \/ CancelSession \/ LeavePipeline
  BY <1>3 DEF PipelineTop, PushFrame, GiveUp, NoFrame, TakeStopListening,
       NoAction, CancelSession, LeavePipeline
<1>4. CASE Observe
  BY <1>4 DEF Observe, ObservedEvent, Published
<1>5. CASE Main
  BY <1>5 DEF Main, CaptureReturns, JoinPipeline, JoinObserver, Published
<1>6. CASE \/ ObserverEnds \/ RunCapture \/ RunSession \/ Signal
           \/ \E action \in {"dismiss", "stop"} : Act(action)
           \/ UNCHANGED daemonVars
  BY <1>6 DEF ObserverEnds, RunCapture, RunSession, Signal, Act, daemonVars
<1> QED BY <1>1, <1>2, <1>3, <1>4, <1>5, <1>6 DEF DaemonNext, Pipeline

----------------------------------------------------------------------------
LEMMA DaemonTypesStep ==
  ASSUME DaemonTypes, [DaemonNext]_daemonVars
  PROVE  DaemonTypes'
<1>1. SessionTypes'
  <2>1. CASE UNCHANGED workerVars
    BY <2>1 DEF workerVars, DaemonTypes, SessionTypes
  <2>2. CASE Worker
    BY <2>2, WorkerKeepsTypes DEF DaemonTypes
  <2>3. CASE frames # << >> /\ PushAudio(Head(frames))
    <3>1. PICK at \in Nat : at = Head(frames)
      BY <2>3, HeadTailProperties DEF DaemonTypes
    <3>2. PushAudio(at)
      BY <2>3, <3>1
    <3> QED BY <3>2, PushKeepsTypes DEF DaemonTypes
  <2>4. CASE RecvEvent \/ Cancel \/ Drop
    BY <2>4 DEF RecvEvent, Cancel, Drop, DaemonTypes, SessionTypes
  <2> QED BY <2>1, <2>2, <2>3, <2>4, SessionPart
<1>2. received' \in Nat
  <2>1. received' = received \/ received' = received + 1
    <3>1. CASE Worker
      BY <3>1 DEF Worker, Start, LoopTop, Connect, Tick, TakeFrame, Send,
           Close, ReadMessage, AfterFailure, Backoff
    <3>2. CASE \/ UNCHANGED workerVars \/ PushAudio(Head(frames))
               \/ RecvEvent \/ Cancel \/ Drop
      BY <3>2 DEF workerVars, PushAudio, RecvEvent, Cancel, Drop
    <3> QED BY <3>1, <3>2, SessionPart
  <2> QED BY <2>1 DEF DaemonTypes
<1>3. frames' \in Seq(Nat) /\ sequence' \in Nat
  <2>1. frames \in Seq(Nat) /\ sequence \in Nat
    BY DEF DaemonTypes
  <2>2. CASE Capture!Process
    <3>1. Append(frames, sequence + 1) \in Seq(Nat)
      BY <2>1, AppendProperties
    <3>2. sequence' = sequence + 1
      BY <2>2 DEF Capture!Process
    <3>3. frames' = frames \/ frames' = Append(frames, sequence + 1)
      BY <2>2 DEF Capture!Process, Capture!TrySend
    <3> QED BY <2>1, <3>1, <3>2, <3>3
  <2>3. CASE Capture!TakeFrame
    <3>1. frames # << >> /\ frames' = Tail(frames) /\ sequence' = sequence
      BY <2>3 DEF Capture!TakeFrame
    <3> QED BY <2>1, <3>1, HeadTailProperties
  <2>4. CASE UNCHANGED <<frames, sequence>>
    BY <2>1, <2>4
  <2>5. \/ Capture!Process \/ Capture!TakeFrame \/ UNCHANGED <<frames, sequence>>
    BY CapturePart DEF captureVars, Capture!Next, Capture!Capture,
         Capture!SetUp, Capture!StateChanged, Capture!ParamChanged,
         Capture!Watch, Capture!LeaveLoop, Capture!Finish, Capture!Cancel,
         Capture!DropConsumer, Capture!frameVars
  <2> QED BY <2>2, <2>3, <2>4, <2>5
<1>4. shown' \in Overlay!Snapshots
  BY ShownPart, PublishedOnly DEF Publish, DaemonTypes
<1> QED BY <1>1, <1>2, <1>3, <1>4 DEF DaemonTypes

LEMMA DaemonTypesInit ==
  ASSUME DaemonInit
  PROVE  DaemonTypes
<1>1. SessionTypes
  BY SessionInit DEF DaemonInit, SessionInv
<1>2. Overlay!EmptySnapshot \in Overlay!Snapshots
  BY EmptySeq DEF Overlay!EmptySnapshot, Overlay!Snapshots,
       Overlay!TranscriptionStates
<1>3. shown \in Overlay!Snapshots
  <2>1. "connecting" \in Overlay!TranscriptionStates
    BY DEF Overlay!TranscriptionStates
  <2> QED BY <1>2, <2>1 DEF DaemonInit, Overlay!Snapshots
<1>4. received \in Nat /\ frames \in Seq(Nat) /\ sequence \in Nat
  BY EmptySeq DEF DaemonInit, Init, Capture!Init
<1> QED BY <1>1, <1>3, <1>4 DEF DaemonTypes

----------------------------------------------------------------------------
(* The end of a meeting. *)

(* What each wait of the main thread has brought about, and that a capture *)
(* that has returned sends no more events.                                 *)
EndInv ==
  /\ observer = "ended" => /\ capture \in {"done", "failed"}
                           /\ observed = Len(events)
  /\ main = "joining observer" => pipeline = "returned"
  /\ main = "exited" => /\ pipeline = "returned" /\ observer = "ended"
                        /\ ~shown.listening

\* A capture that has returned sends no more events.
LEMMA CaptureIsOver ==
  ASSUME capture \in {"done", "failed"}, [DaemonNext]_daemonVars
  PROVE  capture' = capture /\ events' = events
<1>1. CASE Capture!Capture
  BY <1>1 DEF Capture!Capture, Capture!SetUp, Capture!StateChanged,
       Capture!ParamChanged, Capture!Process, Capture!Callback, Capture!Watch,
       Capture!LeaveLoop, Capture!Finish
<1>2. CASE Capture!Cancel \/ Capture!TakeFrame \/ Capture!DropConsumer
  BY <1>2 DEF Capture!Cancel, Capture!TakeFrame, Capture!DropConsumer,
       Capture!threadVars
<1>3. CASE UNCHANGED captureVars
  BY <1>3 DEF captureVars
<1> QED BY <1>1, <1>2, <1>3, CapturePart DEF Capture!Next

LEMMA EndStep ==
  ASSUME DaemonTypes, EndInv, [DaemonNext]_daemonVars
  PROVE  EndInv'
<1>1. CASE Pipeline
  <2>1. /\ UNCHANGED <<main, observer, observed>>
        /\ pipeline # "returned"
    BY <1>1 DEF Pipeline, PipelineTop, PushFrame, PushRefused, GiveUp, NoFrame,
         HandleEvent, NoEvent, PollAnswers, TakeDismiss, TakeStopListening,
         NoAction, CancelSession, LeavePipeline, observerVars
  <2> QED BY <2>1, CaptureIsOver DEF EndInv
<1>2. CASE Observe
  <2>1. UNCHANGED <<main, observer, pipeline>> /\ observer = "running"
    BY <1>2 DEF Observe, pipelineVars
  <2> QED BY <2>1 DEF EndInv
<1>3. CASE ObserverEnds
  <2>1. /\ UNCHANGED <<main, observed, pipeline, shown>>
        /\ capture \in {"done", "failed"} /\ observed = Len(events)
    BY <1>3 DEF ObserverEnds, pipelineVars
  <2> QED BY <1>3, <2>1, CaptureIsOver DEF EndInv, ObserverEnds
<1>4. CASE CaptureReturns \/ JoinPipeline
  <2>1. /\ UNCHANGED <<observer, observed, pipeline, shown>>
        /\ main' = "joining pipeline"
             \/ (main' = "joining observer" /\ pipeline = "returned")
    BY <1>4 DEF CaptureReturns, JoinPipeline, pipelineVars, observerVars, Enters
  <2> QED BY <2>1, CaptureIsOver DEF EndInv
<1>5. CASE JoinObserver
  <2>1. /\ UNCHANGED <<observer, observed, pipeline>>
        /\ main = "joining observer" /\ main' = "exited"
        /\ observer = "ended" /\ Publish(Overlay!Listening(FALSE))
    BY <1>5 DEF JoinObserver, pipelineVars, observerVars, Enters
  <2>2. ~shown'.listening
    BY <2>1, LastPublished DEF Publish, DaemonTypes
  <2> QED BY <2>1, <2>2, CaptureIsOver DEF EndInv
<1>6. CASE \/ RunCapture \/ RunSession \/ Signal
           \/ \E action \in {"dismiss", "stop"} : Act(action)
           \/ UNCHANGED daemonVars
  <2>1. UNCHANGED <<main, observer, observed, pipeline, shown>>
    BY <1>6 DEF RunCapture, RunSession, Signal, Act, daemonVars, pipelineVars,
         observerVars
  <2> QED BY <2>1, CaptureIsOver DEF EndInv
<1> QED BY <1>1, <1>2, <1>3, <1>4, <1>5, <1>6 DEF DaemonNext, Main

(* The last a daemon publishes before it exits is that it does not listen: *)
(* nobody is left who could publish after it, and every capture event was  *)
(* published before it: MeetingDaemon EndIsPublished.                      *)
THEOREM EndIsPublishedLast == DaemonSpec => []EndIsPublished
<1>1. DaemonInit => DaemonTypes /\ EndInv
  <2> SUFFICES ASSUME DaemonInit PROVE DaemonTypes /\ EndInv
    OBVIOUS
  <2> QED BY DaemonTypesInit DEF DaemonInit, EndInv
<1>2. DaemonTypes /\ EndInv /\ [DaemonNext]_daemonVars => (DaemonTypes /\ EndInv)'
  BY DaemonTypesStep, EndStep
<1>3. EndInv => EndIsPublished
  BY DEF EndInv, EndIsPublished
<1> QED BY <1>1, <1>2, <1>3, PTL DEF DaemonSpec

----------------------------------------------------------------------------
(* An exit without an error. *)

Explained == asked \/ shown.degraded

(* Nobody sets the token, and nobody quits the capture's loop, without a   *)
(* reason that is explained or a stream that has ended; and a stream that  *)
(* has ended stays so, from which the capture makes its reason.            *)
CauseInv ==
  /\ token => Explained \/ capture \in {"joining", "done", "failed"}
  /\ quit => Explained \/ stream \in {"error", "unconnected"}
  /\ capture = "starting" => ~quit
  /\ capture \in {"starting", "failed"} => watcher = "unborn"
  /\ capture \in {"joining", "done"} => quit
  /\ reason = "cancelled" => Explained

\* Each StopListening on its way to the pipeline was asked for.
ActionsInv ==
  /\ actions \in Seq({"dismiss", "stop"})
  /\ \A i \in 1..Len(actions) : actions[i] = "stop" => asked

ExplainedInv ==
  /\ CauseInv
  /\ ActionsInv
  /\ pipeline = "giving up" => shown.degraded

\* What has been explained stays so.
LEMMA ExplainedStays ==
  ASSUME DaemonTypes, [DaemonNext]_daemonVars
  PROVE  /\ asked => asked'
         /\ shown.degraded => shown'.degraded
         /\ Explained => Explained'
<1>1. asked => asked'
  BY DEF DaemonNext, Pipeline, PipelineTop, PushFrame, PushRefused, GiveUp,
       NoFrame, HandleEvent, NoEvent, PollAnswers, TakeDismiss,
       TakeStopListening, NoAction, CancelSession, LeavePipeline, Observe,
       ObserverEnds, Main, CaptureReturns, JoinPipeline, JoinObserver,
       RunCapture, RunSession, Signal, Act, daemonVars, overlayVars
<1>2. shown.degraded => shown'.degraded
  BY ShownPart, PublishedOnly DEF Publish, DaemonTypes
<1> QED BY <1>1, <1>2 DEF Explained

LEMMA GiveUpStep ==
  ASSUME DaemonTypes, ExplainedInv, [DaemonNext]_daemonVars
  PROVE  pipeline' = "giving up" => shown'.degraded
<1>1. CASE PushRefused
  BY <1>1, LastPublished DEF PushRefused, Publish, DaemonTypes
<1>2. CASE UNCHANGED pipeline
  BY <1>2, ExplainedStays DEF ExplainedInv
<1>3. PushRefused \/ UNCHANGED pipeline \/ pipeline' # "giving up"
  BY DEF DaemonNext, Pipeline, PipelineTop, PushFrame, GiveUp, NoFrame,
       HandleEvent, NoEvent, PollAnswers, TakeDismiss, TakeStopListening,
       NoAction, CancelSession, LeavePipeline, Observe, ObserverEnds, Main,
       CaptureReturns, JoinPipeline, JoinObserver, RunCapture, RunSession,
       Signal, Act, daemonVars, pipelineVars, Enter
<1> QED BY <1>1, <1>2, <1>3

LEMMA ActionsStep ==
  ASSUME DaemonTypes, ActionsInv, [DaemonNext]_daemonVars
  PROVE  ActionsInv'
<1>1. /\ actions \in Seq({"dismiss", "stop"})
      /\ \A i \in 1..Len(actions) : actions[i] = "stop" => asked
      /\ asked => asked'
  BY ExplainedStays DEF ActionsInv
<1>2. CASE actions' = actions
  BY <1>1, <1>2 DEF ActionsInv
<1>3. CASE actions # << >> /\ actions' = Tail(actions)
  <2>1. /\ Tail(actions) \in Seq({"dismiss", "stop"})
        /\ Len(Tail(actions)) = Len(actions) - 1 /\ Len(actions) \in Nat
        /\ \A i \in 1..Len(Tail(actions)) : Tail(actions)[i] = actions[i + 1]
    BY <1>1, <1>3, HeadTailProperties, LenProperties
  <2>2. \A i \in 1..Len(actions') : actions'[i] = "stop" => asked'
    BY <1>1, <1>3, <2>1
  <2> QED BY <1>3, <2>1, <2>2 DEF ActionsInv
<1>4. ASSUME NEW action \in {"dismiss", "stop"}, Act(action)
      PROVE  ActionsInv'
  <2>1. actions' = Append(actions, action) /\ (action = "stop" => asked')
    BY <1>4 DEF Act
  <2>2. /\ Append(actions, action) \in Seq({"dismiss", "stop"})
        /\ Len(Append(actions, action)) = Len(actions) + 1 /\ Len(actions) \in Nat
        /\ \A i \in 1..Len(actions) : Append(actions, action)[i] = actions[i]
        /\ Append(actions, action)[Len(actions) + 1] = action
    BY <1>1, AppendProperties, LenProperties
  <2>3. \A i \in 1..Len(actions') : i \in 1..Len(actions) \/ i = Len(actions) + 1
    BY <2>1, <2>2
  <2>4. \A i \in 1..Len(actions') : actions'[i] = "stop" => asked'
    BY <1>1, <2>1, <2>2, <2>3
  <2> QED BY <2>1, <2>2, <2>4 DEF ActionsInv
<1>5. \/ actions' = actions
      \/ actions # << >> /\ actions' = Tail(actions)
      \/ \E action \in {"dismiss", "stop"} : Act(action)
  BY DEF DaemonNext, Pipeline, PipelineTop, PushFrame, PushRefused, GiveUp,
       NoFrame, HandleEvent, NoEvent, PollAnswers, TakeDismiss,
       TakeStopListening, NoAction, CancelSession, LeavePipeline, Observe,
       ObserverEnds, Main, CaptureReturns, JoinPipeline, JoinObserver,
       RunCapture, RunSession, Signal, daemonVars, overlayVars
<1> QED BY <1>2, <1>3, <1>4, <1>5

\* Who sets the token, apart from the end of the capture's loop.
LEMMA CancelIsExplained ==
  ASSUME DaemonTypes, ExplainedInv, [DaemonNext]_daemonVars, Capture!Cancel
  PROVE  \/ Explained' \/ capture \in {"joining", "done", "failed"}
         \/ token' = token
<1>1. CASE GiveUp
  BY <1>1, ExplainedStays DEF GiveUp, ExplainedInv, Explained
<1>2. CASE NoEvent
  <2>1. CASE Publish(Overlay!Degraded)
    BY <2>1, LastPublished DEF Publish, DaemonTypes, Explained
  <2>2. CASE UNCHANGED captureVars
    BY <2>2 DEF captureVars
  <2> QED BY <1>2, <2>1, <2>2 DEF NoEvent
<1>3. CASE TakeStopListening
  <2>1. actions # << >> /\ Head(actions) = "stop" /\ UNCHANGED asked
    BY <1>3 DEF TakeStopListening
  <2>2. /\ actions \in Seq({"dismiss", "stop"})
        /\ \A i \in 1..Len(actions) : actions[i] = "stop" => asked
    BY DEF ExplainedInv, ActionsInv
  <2>3. /\ Head(actions) = actions[1]
        /\ Len(actions) \in Nat /\ Len(actions) # 0
    BY <2>1, <2>2, HeadTailProperties, EmptySeq, LenProperties
  <2>4. 1 \in 1..Len(actions)
    BY <2>3
  <2>5. asked
    BY <2>1, <2>2, <2>3, <2>4
  <2> QED BY <2>1, <2>5 DEF Explained
<1>4. CASE CaptureReturns
  BY <1>4 DEF CaptureReturns
<1>5. CASE Signal
  BY <1>5 DEF Signal, Explained
<1>6. CASE PushFrame \/ PushRefused \/ LeavePipeline
  BY <1>6 DEF PushFrame, PushRefused, LeavePipeline, Capture!TakeFrame,
       Capture!DropConsumer, Capture!threadVars
<1>7. CASE \/ PipelineTop \/ NoFrame \/ HandleEvent \/ PollAnswers \/ TakeDismiss
           \/ NoAction \/ CancelSession
  BY <1>7 DEF PipelineTop, NoFrame, HandleEvent, PollAnswers, TakeDismiss,
       NoAction, CancelSession, captureVars
<1>8. CASE \/ Observe \/ ObserverEnds \/ JoinPipeline \/ JoinObserver
           \/ RunSession \/ \E action \in {"dismiss", "stop"} : Act(action)
           \/ UNCHANGED daemonVars
  BY <1>8 DEF Observe, ObserverEnds, JoinPipeline, JoinObserver, RunSession,
       Act, daemonVars, captureVars
<1>9. CASE RunCapture
  <2>1. capture' = capture /\ stream' = stream
    BY DEF Capture!Cancel, Capture!streamVars
  <2> QED BY <1>9, <2>1 DEF RunCapture, Capture!Capture, Capture!SetUp,
       Capture!StateChanged, Capture!ParamChanged, Capture!Process,
       Capture!Callback, Capture!Watch, Capture!LeaveLoop, Capture!Finish
<1> QED BY <1>1, <1>2, <1>3, <1>4, <1>5, <1>6, <1>7, <1>8, <1>9
        DEF DaemonNext, Pipeline, Main

LEMMA CauseStep ==
  ASSUME DaemonTypes, ExplainedInv, [DaemonNext]_daemonVars
  PROVE  CauseInv'
<1>1. CauseInv /\ (Explained => Explained')
  BY ExplainedStays DEF ExplainedInv
<1>2. CASE Capture!SetUp
  BY <1>1, <1>2 DEF CauseInv, Capture!SetUp
<1>3. ASSUME NEW new \in {"paused", "streaming", "error", "unconnected"},
             Capture!StateChanged(new)
      PROVE  CauseInv'
  <2>1. new \in Capture!Follows(stream)
    BY <1>3 DEF Capture!StateChanged
  <2>2. stream \notin {"error", "unconnected"}
    BY <2>1 DEF Capture!Follows
  <2>3. /\ quit' => quit \/ new \in {"error", "unconnected"}
        /\ quit => quit'
    BY <1>3 DEF Capture!StateChanged
  <2>4. /\ stream' = new /\ capture = "looping"
        /\ UNCHANGED <<token, capture, watcher, reason>>
    BY <1>3 DEF Capture!StateChanged, Capture!Callback
  <2> QED BY <1>1, <2>2, <2>3, <2>4 DEF CauseInv
<1>4. CASE Capture!ParamChanged \/ Capture!Process
  BY <1>1, <1>4 DEF CauseInv, Capture!ParamChanged, Capture!Process,
       Capture!Callback, Capture!streamVars
<1>5. CASE Capture!Watch
  BY <1>1, <1>5 DEF CauseInv, Capture!Watch, Capture!streamVars
<1>6. CASE Capture!LeaveLoop
  BY <1>1, <1>6 DEF CauseInv, Capture!LeaveLoop, Capture!streamVars
<1>7. CASE Capture!Finish
  BY <1>1, <1>7 DEF CauseInv, Capture!Finish, Capture!ReasonFor,
       Capture!streamVars
<1>8. CASE Capture!Cancel
  <2>1. UNCHANGED <<capture, quit, watcher, reason, stream>>
    BY <1>8 DEF Capture!Cancel, Capture!streamVars
  <2> QED BY <1>1, <1>8, <2>1, CancelIsExplained DEF CauseInv
<1>9. CASE \/ Capture!TakeFrame \/ Capture!DropConsumer \/ UNCHANGED captureVars
  <2>1. UNCHANGED <<token, capture, quit, watcher, reason, stream>>
    BY <1>9 DEF Capture!TakeFrame, Capture!DropConsumer, captureVars,
         Capture!threadVars, Capture!streamVars
  <2> QED BY <1>1, <2>1 DEF CauseInv
<1> QED BY <1>2, <1>3, <1>4, <1>5, <1>6, <1>7, <1>8, <1>9, CapturePart
        DEF Capture!Next, Capture!Capture

(* A daemon that exits without an error was asked to, or shows that it is  *)
(* degraded, whoever cancelled it and in whichever order its threads came  *)
(* to see it: MeetingDaemon SuccessIsExplained.                            *)
THEOREM ExitIsExplained == DaemonSpec => []SuccessIsExplained
<1>1. DaemonInit => DaemonTypes /\ ExplainedInv
  <2> SUFFICES ASSUME DaemonInit PROVE DaemonTypes /\ ExplainedInv
    OBVIOUS
  <2>1. Len(actions) = 0 /\ actions \in Seq({"dismiss", "stop"})
    BY EmptySeq DEF DaemonInit
  <2>2. CauseInv /\ pipeline # "giving up"
    BY DEF DaemonInit, Capture!Init, CauseInv
  <2>3. ActionsInv
    BY <2>1 DEF ActionsInv
  <2> QED BY <2>2, <2>3, DaemonTypesInit DEF ExplainedInv
<1>2. DaemonTypes /\ ExplainedInv /\ [DaemonNext]_daemonVars
        => (DaemonTypes /\ ExplainedInv)'
  BY DaemonTypesStep, CauseStep, ActionsStep, GiveUpStep DEF ExplainedInv
<1>3. ExplainedInv => SuccessIsExplained
  BY DEF ExplainedInv, CauseInv, SuccessIsExplained, Explained
<1> QED BY <1>1, <1>2, <1>3, PTL DEF DaemonSpec
=============================================================================
