------------------------- MODULE RuntimeEngineProofs -------------------------
(***************************************************************************)
(* Theorems about RuntimeEngine and its AnswerCoordinator, for every       *)
(* configuration of the components.                                        *)
(*                                                                         *)
(* The engine's module extends the coordinator's: Spec, Next and vars are  *)
(* the coordinator's, EngineSpec, EngineNext and runtimeVars the engine's. *)
(* The first half is about the coordinator alone.  The proofs about store  *)
(* and detector are in modules of their own, which are instantiated like   *)
(* the components themselves: what they show of a step of a component is   *)
(* used for the steps the engine makes of it.                              *)
(*                                                                         *)
(* The engine adds what the components cannot know of each other: that     *)
(* the detector has seen every segment of the store, that the next         *)
(* question has the next answer, and that the overlay shows the question   *)
(* whose answer is active.                                                 *)
(***************************************************************************)
EXTENDS RuntimeEngine, SequenceTheorems, TLAPS

StoreProofs == INSTANCE MeetingStoreProofs WITH
  Texts <- Fragments, Mentions <- [f \in Fragments |-> {}],
  SessionCap <- 1, active <- recording

DetectorProofs == INSTANCE QuestionDetectorProofs WITH
  LastSegment <- SegmentCap, ManualCap <- 0

----------------------------------------------------------------------------
(* The instances of the proof modules are those of the engine. *)

LEMMA ComponentConfig ==
  /\ StoreProofs!StoreConfig /\ StoreProofs!ModelBounds
  /\ DetectorProofs!DetectorConfig
  /\ CoordinatorBounds
BY EngineConfig DEF StoreProofs!StoreConfig, StoreProofs!ModelBounds,
     DetectorProofs!DetectorConfig, Store!StoreConfig, Store!ModelBounds,
     Detector!DetectorConfig, CoordinatorBounds

LEMMA SameDetector ==
  /\ Detector!Next <=> DetectorProofs!Next
  /\ Detector!Init <=> DetectorProofs!Init
  /\ UNCHANGED detectorVars <=> UNCHANGED DetectorProofs!vars
<1>1. ASSUME NEW id, NEW f
      PROVE  Detector!Considered(id, f) = DetectorProofs!Considered(id, f)
  BY DEF Detector!Considered, DetectorProofs!Considered
<1>2. ASSUME NEW text
      PROVE  /\ Detector!Normalize(text) = DetectorProofs!Normalize(text)
             /\ Detector!Confidence(text) = DetectorProofs!Confidence(text)
             /\ Detector!IsQuestion(text) <=> DetectorProofs!IsQuestion(text)
             /\ Detector!IsCandidate(text) <=> DetectorProofs!IsCandidate(text)
             /\ Detector!IsComplete(text) <=> DetectorProofs!IsComplete(text)
  BY DEF Detector!Normalize, Detector!Confidence, Detector!IsQuestion,
       Detector!IsCandidate, Detector!IsComplete, Detector!Last,
       Detector!Range, Detector!FlattenSeq, DetectorProofs!Normalize,
       DetectorProofs!Confidence, DetectorProofs!IsQuestion,
       DetectorProofs!IsCandidate, DetectorProofs!IsComplete,
       DetectorProofs!Last, DetectorProofs!Range, DetectorProofs!FlattenSeq
<1>3. ASSUME NEW q
      PROVE  Detector!Holds(q) <=> DetectorProofs!Holds(q)
  BY <1>2 DEF Detector!Holds, Detector!Passes, Detector!Joining,
       DetectorProofs!Holds, DetectorProofs!Passes, DetectorProofs!Joining
<1>4. ASSUME NEW q, NEW id
      PROVE  Detector!Triggers(q, id) <=> DetectorProofs!Triggers(q, id)
  BY <1>2 DEF Detector!Triggers, Detector!Passes, Detector!Joining,
       Detector!CoolingDown, Detector!SaturatingSub, DetectorProofs!Triggers,
       DetectorProofs!Passes, DetectorProofs!Joining,
       DetectorProofs!CoolingDown, DetectorProofs!SaturatingSub
<1>5. ASSUME NEW w
      PROVE  Detector!RememberWording(w) <=> DetectorProofs!RememberWording(w)
  BY DEF Detector!RememberWording, DetectorProofs!RememberWording,
       Detector!SaturatingSub, DetectorProofs!SaturatingSub
<1>6. ASSUME NEW q, NEW id
      PROVE  /\ Detector!Hold(q) <=> DetectorProofs!Hold(q)
             /\ Detector!Trigger(q, id) <=> DetectorProofs!Trigger(q, id)
             /\ Detector!Drop(q, id) <=> DetectorProofs!Drop(q, id)
  BY <1>2, <1>3, <1>4, <1>5
     DEF Detector!Hold, Detector!Trigger, Detector!Drop, Detector!Emit,
         Detector!NoQuestion, DetectorProofs!Hold, DetectorProofs!Trigger,
         DetectorProofs!Drop, DetectorProofs!Emit, DetectorProofs!NoQuestion
<1>7. ASSUME NEW id, NEW f
      PROVE  Detector!ProcessFinalized(id, f)
               <=> DetectorProofs!ProcessFinalized(id, f)
  BY <1>1, <1>6
     DEF Detector!ProcessFinalized, DetectorProofs!ProcessFinalized
<1>8. Detector!Next <=> DetectorProofs!Next
  BY <1>7
     DEF Detector!Next, Detector!ManualTrigger, Detector!Reset,
         Detector!NoQuestion, DetectorProofs!Next, DetectorProofs!Reset,
         DetectorProofs!ManualTrigger, DetectorProofs!NoQuestion
<1>9. Detector!Init <=> DetectorProofs!Init
  BY DEF Detector!Init, DetectorProofs!Init, Detector!NoQuestion,
       DetectorProofs!NoQuestion
<1>10. UNCHANGED detectorVars <=> UNCHANGED DetectorProofs!vars
  BY DEF detectorVars, DetectorProofs!vars
<1> QED BY <1>8, <1>9, <1>10

LEMMA SameStore ==
  /\ Store!Next <=> StoreProofs!Next
  /\ UNCHANGED storeVars <=> UNCHANGED StoreProofs!vars
<1>1. ASSUME NEW s, NEW n
      PROVE  /\ Store!DropFirst(s, n) = StoreProofs!DropFirst(s, n)
             /\ Store!PrefixBytes(s) = StoreProofs!PrefixBytes(s)
             /\ Store!SaturatingSub(s, n) = StoreProofs!SaturatingSub(s, n)
             /\ Store!Min(s) = StoreProofs!Min(s)
  BY DEF Store!DropFirst, StoreProofs!DropFirst, Store!PrefixBytes,
       StoreProofs!PrefixBytes, Store!SaturatingSub, StoreProofs!SaturatingSub,
       Store!Min, StoreProofs!Min
<1>2. ASSUME NEW s, NEW bytes
      PROVE  Store!EnforceBounds(s, bytes) <=> StoreProofs!EnforceBounds(s, bytes)
  BY <1>1 DEF Store!EnforceBounds, Store!Evictions, StoreProofs!EnforceBounds,
       StoreProofs!Evictions
<1>3. ASSUME NEW pid
      PROVE  Store!Remember(pid) <=> StoreProofs!Remember(pid)
  BY <1>1 DEF Store!Remember, StoreProofs!Remember
<1>4. ASSUME NEW pid, NEW text
      PROVE  /\ Store!Accept(pid, text) <=> StoreProofs!Accept(pid, text)
             /\ Store!IsAccepted(pid, text) <=> StoreProofs!IsAccepted(pid, text)
  BY <1>2, <1>3
     DEF Store!Accept, Store!IsAccepted, Store!IsDuplicate, Store!IsTooLarge,
         StoreProofs!Accept, StoreProofs!IsAccepted, StoreProofs!IsDuplicate,
         StoreProofs!IsTooLarge
<1>5. Store!Next <=> StoreProofs!Next
  BY <1>4
     DEF Store!Next, Store!StartSession, Store!StopSession, Store!Reset,
         Store!ClearSessionState, Store!IngestFinal, Store!Refuse, Store!vars,
         StoreProofs!Next, StoreProofs!StartSession, StoreProofs!StopSession,
         StoreProofs!Reset, StoreProofs!ClearSessionState,
         StoreProofs!IngestFinal, StoreProofs!Refuse, StoreProofs!vars
<1>6. UNCHANGED storeVars <=> UNCHANGED StoreProofs!vars
  BY DEF storeVars, StoreProofs!vars
<1> QED BY <1>5, <1>6

----------------------------------------------------------------------------
(* The coordinator, for any number of questions and of deltas.  The first  *)
(* two theorems go together: were a session ever found closed, the log of  *)
(* its answer would be interrupted, and were a stale update returned, the  *)
(* thread of another question could have ended the session.  The third     *)
(* adds what was delivered of an answer: its deltas from the first on, and *)
(* behind them those that wait in its channel.                             *)

LEMMA AnswerBounds == LastQuestion \in Nat /\ MaxDeltas \in Nat
BY ComponentConfig DEF CoordinatorBounds

(* What the log says before position i of the answer to q: it was begun,   *)
(* and since then nothing but its deltas was recorded.                     *)
Streams(q, i) ==
  \E b \in 1..(i - 1) :
    /\ log[b].kind = "begin" /\ log[b].question = q
    /\ \A k \in (b + 1)..(i - 1) :
         log[k].kind = "delta" /\ log[k].question = q

\* The active answer is the one the log ends with.
ActiveStreams == active # 0 => Streams(active, Len(log) + 1)

(* The flag of an answer is set when it is no longer active, and not before *)
(* it was begun.                                                           *)
FlagInv ==
  /\ active <= begun
  /\ active # 0 => ~cancelled[active]
  /\ \A q \in Ids : q > begun => ~cancelled[q]

AnswerInv ==
  /\ TypeOK
  /\ FlagInv
  /\ NeverClosed
  /\ ActiveStreams
  /\ NoStaleUpdate

----------------------------------------------------------------------------
(* Lemmas about events and about the log. *)

LEMMA EventFacts ==
  /\ Done \in Events /\ IsTerminal(Done)
  /\ Error \in Events /\ IsTerminal(Error)
  /\ \A n \in 1..MaxDeltas : Delta(n) \in Events /\ ~IsTerminal(Delta(n))
  /\ \A e \in Events : /\ e.kind \in {"delta", "done", "error"}
                       /\ e.n \in 0..MaxDeltas
                       /\ \/ IsTerminal(e) /\ e.kind # "delta"
                          \/ /\ e.kind = "delta" /\ e.n \in 1..MaxDeltas
                             /\ e = Delta(e.n)
<1>1. /\ Done \in Events /\ Done.kind = "done" /\ Done.n = 0
      /\ Error \in Events /\ Error.kind = "error" /\ Error.n = 0
  BY DEF Events, Done, Error
<1>2. ASSUME NEW n \in 1..MaxDeltas
      PROVE  Delta(n) \in Events /\ Delta(n).kind = "delta" /\ Delta(n).n = n
  BY DEF Events, Delta
<1>3. ASSUME NEW e \in Events
      PROVE  e \in {Done, Error} \/ \E n \in 1..MaxDeltas : e = Delta(n)
  BY DEF Events
<1>4. 0 \in 0..MaxDeltas /\ 1..MaxDeltas \subseteq 0..MaxDeltas
  BY AnswerBounds
<1>5. ASSUME NEW e \in Events
      PROVE  e.kind \in {"delta", "done", "error"} /\ e.n \in 0..MaxDeltas
  BY <1>1, <1>2, <1>3, <1>4
<1>6. ASSUME NEW e \in Events
      PROVE  \/ IsTerminal(e) /\ e.kind # "delta"
             \/ /\ e.kind = "delta" /\ e.n \in 1..MaxDeltas
                /\ e = Delta(e.n)
  BY <1>1, <1>2, <1>3 DEF IsTerminal
<1>. QED BY <1>1, <1>2, <1>5, <1>6 DEF IsTerminal

LEMMA LogGrows ==
  ASSUME NEW s \in Seq(Entries), NEW e \in Entries
  PROVE  /\ Append(s, e) \in Seq(Entries)
         /\ Len(s) \in Nat
         /\ Len(Append(s, e)) = Len(s) + 1
         /\ \A i \in 1..Len(s) : Append(s, e)[i] = s[i]
         /\ Append(s, e)[Len(s) + 1] = e
OBVIOUS

\* A longer log says the same about the positions it had before.
LEMMA StreamsStays ==
  ASSUME log \in Seq(Entries), NEW e \in Entries, log' = Append(log, e),
         NEW q, NEW i \in 1..(Len(log) + 1), Streams(q, i)
  PROVE  Streams(q, i)'
<1>1. PICK b \in 1..(i - 1) :
        /\ log[b].kind = "begin" /\ log[b].question = q
        /\ \A k \in (b + 1)..(i - 1) :
             log[k].kind = "delta" /\ log[k].question = q
  BY DEF Streams
<1>2. /\ Len(log) \in Nat
      /\ \A k \in 1..Len(log) : log'[k] = log[k]
  BY LogGrows
<1>3. \A k \in 1..(i - 1) : log'[k] = log[k]
  BY <1>2
<1>4. log'[b].kind = "begin" /\ log'[b].question = q
  BY <1>1, <1>3
<1>5. ASSUME NEW k \in (b + 1)..(i - 1)
      PROVE  log'[k].kind = "delta" /\ log'[k].question = q
  BY <1>1, <1>2, <1>3
<1>. QED BY <1>4, <1>5 DEF Streams

\* A delta goes on with the stream, and a begin starts one.
LEMMA StreamsOn ==
  ASSUME log \in Seq(Entries), NEW e \in Entries, log' = Append(log, e),
         \/ e.kind = "begin"
         \/ e.kind = "delta" /\ Streams(e.question, Len(log) + 1)
  PROVE  Streams(e.question, Len(log) + 1)'
<1>1. /\ Len(log) \in Nat /\ Len(log') = Len(log) + 1
      /\ \A k \in 1..Len(log) : log'[k] = log[k]
      /\ log'[Len(log) + 1] = e
  BY LogGrows
<1>2. CASE e.kind = "begin"
  <2>1. /\ Len(log) + 1 \in 1..(Len(log') + 1 - 1)
        /\ (Len(log) + 1 + 1)..(Len(log') + 1 - 1) = {}
    BY <1>1
  <2>. QED BY <1>1, <1>2, <2>1 DEF Streams
<1>3. CASE e.kind = "delta" /\ Streams(e.question, Len(log) + 1)
  <2>1. PICK b \in 1..(Len(log) + 1 - 1) :
          /\ log[b].kind = "begin" /\ log[b].question = e.question
          /\ \A k \in (b + 1)..(Len(log) + 1 - 1) :
               log[k].kind = "delta" /\ log[k].question = e.question
    BY <1>3 DEF Streams
  <2>2. b \in 1..Len(log) /\ b \in 1..(Len(log') + 1 - 1)
    BY <1>1, <2>1
  <2>3. ASSUME NEW k \in (b + 1)..(Len(log') + 1 - 1)
        PROVE  log'[k].kind = "delta" /\ log'[k].question = e.question
    <3>1. CASE k = Len(log) + 1
      BY <1>1, <1>3, <3>1
    <3>2. CASE k # Len(log) + 1
      <4>1. k \in (b + 1)..(Len(log) + 1 - 1) /\ k \in 1..Len(log)
        BY <1>1, <2>2, <3>2
      <4>. QED BY <1>1, <2>1, <4>1
    <3>. QED BY <3>1, <3>2
  <2>4. log'[b].kind = "begin" /\ log'[b].question = e.question
    BY <1>1, <2>1, <2>2
  <2>. QED BY <2>2, <2>3, <2>4, SMTT(30) DEF Streams
<1>. QED BY <1>2, <1>3

\* An update is added to the log only by the answer that streams.
LEMMA HistoryStays ==
  ASSUME log \in Seq(Entries), NoStaleUpdate,
         NEW e \in Entries, log' = Append(log, e),
         e.kind \in {"delta", "done", "error"}
           => Streams(e.question, Len(log) + 1)
  PROVE  NoStaleUpdate'
<1>1. /\ Len(log) \in Nat /\ Len(log') = Len(log) + 1
      /\ \A k \in 1..Len(log) : log'[k] = log[k]
      /\ log'[Len(log) + 1] = e
  BY LogGrows
<1>2. \A i \in UpdateAt : Streams(log[i].question, i)
  BY DEF NoStaleUpdate, Streams
<1>3. ASSUME NEW i \in UpdateAt'
      PROVE  Streams(log[i].question, i)'
  <2>1. i \in 1..(Len(log) + 1) /\ log'[i].kind \in {"delta", "done", "error"}
    BY <1>1 DEF UpdateAt
  <2>2. Streams(log'[i].question, i)
    <3>1. CASE i = Len(log) + 1
      BY <1>1, <2>1, <3>1
    <3>2. CASE i # Len(log) + 1
      <4>1. i \in 1..Len(log)
        BY <1>1, <2>1, <3>2
      <4>2. i \in UpdateAt
        BY <1>1, <2>1, <4>1 DEF UpdateAt
      <4>. QED BY <1>1, <1>2, <4>1, <4>2
    <3>. QED BY <3>1, <3>2
  <2>. QED BY <2>1, <2>2, StreamsStays
<1>. QED BY <1>3 DEF NoStaleUpdate, Streams

----------------------------------------------------------------------------
(* The provider threads. *)

\* No step of a provider thread touches what the coordinator knows.
LEMMA CoordinatorKept ==
  ASSUME FlagInv, ActiveStreams, NoStaleUpdate,
         UNCHANGED <<coordinatorVars, cancelled>>
  PROVE  FlagInv' /\ ActiveStreams' /\ NoStaleUpdate'
BY DEF FlagInv, ActiveStreams, NoStaleUpdate, UpdateAt, Streams,
     coordinatorVars, history

\* The end of a channel after one more event.
LEMMA SentIsLast ==
  ASSUME NEW c \in Seq(Events), NEW e \in Events
  PROVE  /\ Append(c, e) \in Seq(Events)
         /\ Append(c, e) # << >>
         /\ Last(Append(c, e)) = e
<1>1. /\ Append(c, e) \in Seq(Events)
      /\ Len(c) \in Nat /\ Len(Append(c, e)) = Len(c) + 1
      /\ Append(c, e)[Len(c) + 1] = e
  OBVIOUS
<1>. QED BY <1>1 DEF Last

LEMMA WorkerKeepsTypes ==
  ASSUME TypeOK, NEW q \in Ids, Worker(q)
  PROVE  TypeOK'
<1>. USE DEF TypeOK, Goto, Offer, coordinatorVars, history
<1>1. CASE Connect(q)
  <2>1. CASE Goto(q, "top") /\ UNCHANGED outgoing
    BY <1>1, <2>1 DEF Connect
  <2>2. CASE Offer(q, Error)
    <3>1. Error \in Events
      BY EventFacts
    <3>. QED BY <1>1, <2>2, <3>1 DEF Connect
  <2>. QED BY <1>1, <2>1, <2>2 DEF Connect
<1>2. CASE LoopTop(q)
  BY <1>2 DEF LoopTop
<1>3. CASE ReadLine(q)
  <2>1. CASE read[q] < MaxDeltas /\ read' = [read EXCEPT ![q] = @ + 1]
             /\ Offer(q, Delta(read[q] + 1))
    <3>1. read[q] + 1 \in 1..MaxDeltas
      BY <2>1, AnswerBounds
    <3>2. Delta(read[q] + 1) \in Events /\ read[q] + 1 \in 0..MaxDeltas
      BY <3>1, EventFacts
    <3>. QED BY <1>3, <2>1, <3>2 DEF ReadLine
  <2>2. CASE (\E e \in {Done, Error} : Offer(q, e)) /\ UNCHANGED <<read>>
    BY <1>3, <2>2, EventFacts DEF ReadLine
  <2>3. CASE Goto(q, "top") /\ UNCHANGED <<read, outgoing>>
    BY <1>3, <2>3 DEF ReadLine
  <2>. QED BY <1>3, <2>1, <2>2, <2>3 DEF ReadLine
<1>4. CASE CheckFlag(q)
  BY <1>4 DEF CheckFlag, AfterSend
<1>5. CASE Send(q)
  <2>1. /\ channel' \in [Ids -> Seq(Events)]
    BY <1>5 DEF Send
  <2>. QED BY <1>5, <2>1 DEF Send, AfterSend
<1>. QED BY <1>1, <1>2, <1>3, <1>4, <1>5 DEF Worker

(* A thread whose answer is active is not told to stop, so it returns only *)
(* by sending its final event.                                             *)
LEMMA WorkerSendsTheEnd ==
  ASSUME TypeOK, FlagInv, NeverClosed, NEW q \in Ids, Worker(q)
  PROVE  NeverClosed'
<1>. SUFFICES ASSUME NEW p \in Ids, active' = p, worker'[p] = "returned"
              PROVE  channel'[p] # << >> /\ IsTerminal(Last(channel'[p]))
  BY DEF NeverClosed, IsTerminal
<1>1. active = p /\ p # 0 /\ ~cancelled[p]
  BY DEF Worker, Connect, LoopTop, ReadLine, CheckFlag, Send, coordinatorVars,
       history, Ids, FlagInv
<1>2. CASE p # q
  <2>1. worker[p] = "returned" /\ channel'[p] = channel[p]
    BY <1>2 DEF Worker, Connect, LoopTop, ReadLine, CheckFlag, Send, Goto,
         Offer, TypeOK
  <2>. QED BY <1>1, <2>1 DEF NeverClosed
<1>3. CASE p = q
  <2>. USE <1>3 DEF TypeOK, Goto, Offer
  <2>1. ~Connect(q) /\ ~ReadLine(q)
    BY DEF Connect, ReadLine
  <2>2. ~LoopTop(q)
    BY <1>1 DEF LoopTop
  <2>3. ~CheckFlag(q)
    BY <1>1 DEF CheckFlag
  <2>4. Send(q)
    BY <2>1, <2>2, <2>3 DEF Worker
  <2>5. channel'[q] = Append(channel[q], outgoing[q]) /\ IsTerminal(outgoing[q])
    BY <1>1, <2>4 DEF Send, AfterSend
  <2>6. channel[q] \in Seq(Events) /\ outgoing[q] \in Events
    OBVIOUS
  <2>7. channel'[q] # << >> /\ Last(channel'[q]) = outgoing[q]
    BY <2>5, <2>6, SentIsLast
  <2>. QED BY <2>5, <2>7
<1>. QED BY <1>2, <1>3

----------------------------------------------------------------------------
(* The coordinator. *)

\* Every call that ends an answer sets the flag of that answer only.
LEMMA OnlyTheActiveIsCancelled ==
  ASSUME TypeOK, FlagInv, CancelActive
  PROVE  /\ cancelled' \in [Ids -> BOOLEAN]
         /\ \A q \in Ids : q > begun => ~cancelled'[q]
<1>1. CASE active = 0
  BY <1>1 DEF CancelActive, TypeOK, FlagInv
<1>2. CASE active # 0
  <2>1. active \in Ids /\ cancelled' = [cancelled EXCEPT ![active] = TRUE]
    BY <1>2 DEF CancelActive, TypeOK
  <2>2. ASSUME NEW q \in Ids, q > begun
        PROVE  ~cancelled'[q]
    <3>1. q # active
      BY <2>1, <2>2 DEF FlagInv, TypeOK, Ids
    <3>. QED BY <2>1, <2>2, <3>1 DEF FlagInv, TypeOK
  <2>. QED BY <2>1, <2>2 DEF TypeOK
<1>. QED BY <1>1, <1>2

LEMMA RecordedIsEntry ==
  ASSUME NEW q \in Ids, NEW n \in 0..MaxDeltas,
         NEW kind \in {"begin", "cancel", "delta", "done", "error", "closed"}
  PROVE  [kind |-> kind, question |-> q, n |-> n] \in Entries
BY DEF Entries

\* A new question supersedes the active answer, and starts its own stream.
LEMMA BeginKeeps ==
  ASSUME AnswerInv, Begin(begun + 1)
  PROVE  AnswerInv'
<1>. DEFINE q == begun + 1
<1>. USE DEF AnswerInv
<1>1. /\ q \in Ids /\ q > begun /\ q # 0
      /\ active' = q /\ begun' = q /\ overdue' = FALSE
      /\ worker' = [worker EXCEPT ![q] = "connecting"]
      /\ log' = Append(log, [kind |-> "begin", question |-> q, n |-> 0])
      /\ UNCHANGED <<outgoing, channel, read, delivered>>
  BY DEF Begin, Record, Ids, TypeOK
<1>2. PICK e \in Entries : /\ log' = Append(log, e)
                           /\ e.kind = "begin" /\ e.question = q
  <2>1. 0 \in 0..MaxDeltas
    BY AnswerBounds
  <2>2. [kind |-> "begin", question |-> q, n |-> 0] \in Entries
    BY <1>1, <2>1, RecordedIsEntry
  <2>. QED BY <1>1, <2>2
<1>3. log \in Seq(Entries) /\ log' \in Seq(Entries)
  BY <1>2, LogGrows DEF TypeOK
<1>4. /\ cancelled' \in [Ids -> BOOLEAN]
      /\ \A p \in Ids : p > begun => ~cancelled'[p]
  BY OnlyTheActiveIsCancelled DEF Begin
<1>5. TypeOK'
  BY <1>1, <1>3, <1>4 DEF TypeOK
<1>6. FlagInv'
  BY <1>1, <1>4 DEF FlagInv, Ids, TypeOK
<1>7. NeverClosed'
  BY <1>1 DEF NeverClosed, TypeOK
<1>8. ActiveStreams'
  <2>1. Streams(e.question, Len(log) + 1)'
    BY <1>2, <1>3, StreamsOn
  <2>2. active' = e.question
    BY <1>1, <1>2
  <2>. QED BY <2>1, <2>2 DEF ActiveStreams, Streams
<1>9. NoStaleUpdate'
  BY <1>2, <1>3, HistoryStays
<1>. QED BY <1>5, <1>6, <1>7, <1>8, <1>9

(* An answer that ends: nothing is active, and what is recorded, if        *)
(* anything, is an update of the answer that was active or no update.      *)
LEMMA EndKeeps ==
  ASSUME AnswerInv,
         active' = 0, overdue' = FALSE,
         begun' \in {0} \union Ids, begun <= begun',
         worker' \in [Ids -> {"unborn", "connecting", "top", "reading",
                                      "checking", "sending", "returned"}],
         channel' \in [Ids -> Seq(Events)],
         delivered' \in [Ids -> Seq(1..MaxDeltas)],
         cancelled' \in [Ids -> BOOLEAN],
         \A q \in Ids : q > begun' => ~cancelled'[q],
         UNCHANGED <<outgoing, read>>,
         \/ UNCHANGED log
         \/ \E e \in Entries :
              /\ log' = Append(log, e)
              /\ e.kind \in {"delta", "done", "error"}
                   => active # 0 /\ e.question = active
  PROVE  AnswerInv'
<1>. USE DEF AnswerInv
<1>1. log' \in Seq(Entries)
  <2>1. log \in Seq(Entries)
    BY DEF TypeOK
  <2>2. ASSUME NEW e \in Entries, log' = Append(log, e)
        PROVE  log' \in Seq(Entries)
    BY <2>1, <2>2, LogGrows
  <2>. QED BY <2>1, <2>2
<1>2. TypeOK'
  BY <1>1 DEF TypeOK
<1>3. FlagInv'
  <2>1. active' <= begun'
    BY DEF Ids
  <2>. QED BY <2>1 DEF FlagInv
<1>4. NeverClosed'
  BY DEF NeverClosed, Ids
<1>5. ActiveStreams'
  BY DEF ActiveStreams
<1>6. NoStaleUpdate'
  <2>1. CASE UNCHANGED log
    <3>1. UpdateAt' = UpdateAt
      BY <2>1 DEF UpdateAt
    <3>. QED BY <2>1, <3>1 DEF NoStaleUpdate
  <2>2. ASSUME NEW e \in Entries, log' = Append(log, e),
               e.kind \in {"delta", "done", "error"}
                 => active # 0 /\ e.question = active
        PROVE  NoStaleUpdate'
    <3>1. e.kind \in {"delta", "done", "error"}
            => Streams(e.question, Len(log) + 1)
      BY <2>2 DEF ActiveStreams
    <3>. QED BY <2>2, <3>1, HistoryStays DEF TypeOK
  <2>. QED BY <2>1, <2>2
<1>. QED BY <1>2, <1>3, <1>4, <1>5, <1>6

\* What is left of a channel of several events ends as it did.
LEMMA TailKeepsLast ==
  ASSUME NEW c \in Seq(Events), c # << >>, Len(c) # 1
  PROVE  /\ Tail(c) # << >>
         /\ Last(Tail(c)) = Last(c)
<1>1. Len(c) \in Nat /\ Len(c) > 1
  <2>1. Len(c) \in Nat
    BY LenProperties
  <2>2. Len(c) # 0
    BY EmptySeq
  <2>3. \A n \in Nat : n # 0 /\ n # 1 => n > 1
    OBVIOUS
  <2>. QED BY <2>1, <2>2, <2>3
<1>2. /\ Len(Tail(c)) = Len(c) - 1
      /\ \A i \in 1..Len(Tail(c)) : Tail(c)[i] = c[i + 1]
  BY <1>1, HeadTailProperties
<1>3. Len(Tail(c)) \in 1..Len(Tail(c)) /\ Len(Tail(c)) + 1 = Len(c)
  BY <1>1, <1>2
<1>4. Tail(c)[Len(Tail(c))] = c[Len(c)]
  BY <1>2, <1>3
<1>5. Tail(c) # << >>
  BY <1>1, <1>2, EmptySeq
<1>. QED BY <1>4, <1>5 DEF Last

(* poll receives an event of the active answer, which goes on or ends with *)
(* it; it never finds the session closed.                                  *)
LEMMA PollSessionKeeps ==
  ASSUME AnswerInv, PollSession
  PROVE  AnswerInv'
<1>. USE DEF AnswerInv
<1>1. PICK q \in Ids : q = active /\ q # 0
  BY DEF PollSession, TypeOK
<1>2. channel[q] # << >> /\ channel[q] \in Seq(Events)
  BY <1>1 DEF PollSession, NeverClosed, TypeOK
<1>3. PICK m \in Events : m = Head(channel[q])
  BY <1>2
<1>4. /\ log' = Append(log, [kind |-> m.kind, question |-> q, n |-> m.n])
      /\ active' = IF IsTerminal(m) THEN 0 ELSE q
      /\ channel' = [channel EXCEPT ![q] = Tail(@)]
      /\ UNCHANGED <<overdue, begun, worker, outgoing, read, cancelled>>
      /\ overdue = FALSE
  BY <1>1, <1>2, <1>3 DEF PollSession, Return, TypeOK
<1>5. m.kind \in {"delta", "done", "error"} /\ m.n \in 0..MaxDeltas
      /\ (m.kind = "delta" => m.n \in 1..MaxDeltas)
  BY EventFacts
<1>6. PICK e \in Entries :
        /\ log' = Append(log, e)
        /\ e.kind = m.kind /\ e.question = q
  BY <1>4, <1>5, RecordedIsEntry
<1>7. channel' \in [Ids -> Seq(Events)]
  <2>1. Tail(channel[q]) \in Seq(Events)
    BY <1>2
  <2>. QED BY <1>4, <2>1 DEF TypeOK
<1>8. delivered' \in [Ids -> Seq(1..MaxDeltas)]
  <2>1. delivered' = IF m.kind = "delta"
                     THEN [delivered EXCEPT ![q] = Append(@, m.n)]
                     ELSE delivered
    BY <1>1, <1>2, <1>3 DEF PollSession, Return
  <2>2. delivered \in [Ids -> Seq(1..MaxDeltas)]
    BY DEF TypeOK
  <2>3. CASE m.kind = "delta"
    <3>1. Append(delivered[q], m.n) \in Seq(1..MaxDeltas)
      BY <1>5, <2>2, <2>3
    <3>. QED BY <2>1, <2>2, <2>3, <3>1
  <2>4. CASE m.kind # "delta"
    BY <2>1, <2>2, <2>4
  <2>. QED BY <2>3, <2>4
<1>9. CASE IsTerminal(m)
  <2>1. active' = 0
    BY <1>4, <1>9
  <2>2. active # 0 /\ e.question = active
    BY <1>1, <1>6
  <2>3. /\ overdue' = FALSE /\ UNCHANGED <<outgoing, read>>
        /\ begun' \in {0} \union Ids /\ begun <= begun'
    BY <1>4 DEF TypeOK, Ids
  <2>4. /\ worker' \in [Ids -> {"unborn", "connecting", "top", "reading",
                                        "checking", "sending", "returned"}]
        /\ cancelled' \in [Ids -> BOOLEAN]
    BY <1>4 DEF TypeOK
  <2>5. \A p \in Ids : p > begun' => ~cancelled'[p]
    BY <1>4 DEF FlagInv
  <2>. QED BY <1>6, <1>7, <1>8, <2>1, <2>2, <2>3, <2>4, <2>5, EndKeeps
<1>10. CASE ~IsTerminal(m)
  <2>1. active' = q /\ active' = active /\ e.kind = "delta"
    BY <1>1, <1>4, <1>5, <1>6, <1>10 DEF IsTerminal
  <2>2. log \in Seq(Entries) /\ log' \in Seq(Entries)
    BY <1>6, LogGrows DEF TypeOK
  <2>3. Streams(q, Len(log) + 1)
    BY <1>1 DEF ActiveStreams
  <2>4. TypeOK'
    BY <1>4, <1>7, <1>8, <2>1, <2>2 DEF TypeOK
  <2>5. FlagInv'
    BY <1>4, <2>1 DEF FlagInv
  <2>6. NeverClosed'
    <3>. SUFFICES ASSUME worker'[q] = "returned"
                  PROVE  channel'[q] # << >> /\ IsTerminal(Last(channel'[q]))
      BY <1>1, <2>1 DEF NeverClosed, IsTerminal
    <3>1. IsTerminal(Last(channel[q]))
      BY <1>1, <1>4 DEF NeverClosed
    <3>2. Len(channel[q]) # 1
      BY <1>2, <1>3, <1>10, <3>1 DEF Last
    <3>3. /\ Tail(channel[q]) # << >>
          /\ Last(Tail(channel[q])) = Last(channel[q])
      BY <1>2, <3>2, TailKeepsLast
    <3>. QED BY <1>4, <3>1, <3>3 DEF TypeOK
  <2>7. ActiveStreams'
    <3>1. Streams(e.question, Len(log) + 1)'
      BY <1>6, <2>1, <2>2, <2>3, StreamsOn
    <3>2. active' = e.question
      BY <1>6, <2>1
    <3>. QED BY <3>1, <3>2 DEF ActiveStreams, Streams
  <2>8. NoStaleUpdate'
    BY <1>6, <2>2, <2>3, HistoryStays
  <2>. QED BY <2>4, <2>5, <2>6, <2>7, <2>8
<1>. QED BY <1>9, <1>10

(* The calls that end the active answer without reading its session. *)
LEMMA CancelKeeps ==
  ASSUME AnswerInv, BeginFails(begun + 1) \/ Cancel \/ PollTimesOut
  PROVE  AnswerInv'
<1>. USE DEF AnswerInv
<1>1. /\ active' = 0 /\ overdue' = FALSE
      /\ CancelActive
      /\ begun' \in {0} \union Ids /\ begun <= begun'
      /\ UNCHANGED workerVars
      /\ UNCHANGED delivered
  BY DEF BeginFails, Cancel, PollTimesOut, Record, history, TypeOK, Ids
<1>2. /\ worker' \in [Ids -> {"unborn", "connecting", "top", "reading",
                                      "checking", "sending", "returned"}]
      /\ channel' \in [Ids -> Seq(Events)]
      /\ UNCHANGED <<outgoing, read>>
      /\ delivered' \in [Ids -> Seq(1..MaxDeltas)]
  BY <1>1 DEF workerVars, TypeOK
<1>3. /\ cancelled' \in [Ids -> BOOLEAN]
      /\ \A q \in Ids : q > begun' => ~cancelled'[q]
  <2>1. /\ cancelled' \in [Ids -> BOOLEAN]
        /\ \A q \in Ids : q > begun => ~cancelled'[q]
    BY <1>1, OnlyTheActiveIsCancelled
  <2>. QED BY <1>1, <2>1 DEF Ids, TypeOK
<1>4. \/ UNCHANGED log
      \/ \E e \in Entries :
           /\ log' = Append(log, e)
           /\ e.kind \in {"delta", "done", "error"}
                => active # 0 /\ e.question = active
  <2>1. 0 \in 0..MaxDeltas
    BY AnswerBounds
  <2>2. CASE BeginFails(begun + 1)
    <3>1. begun + 1 \in Ids
          /\ log' = Append(log, [kind |-> "cancel", question |-> begun + 1, n |-> 0])
      BY <2>2 DEF BeginFails, Record
    <3>2. [kind |-> "cancel", question |-> begun + 1, n |-> 0] \in Entries
      BY <2>1, <3>1, RecordedIsEntry
    <3>. QED BY <3>1, <3>2
  <2>3. CASE Cancel
    <3>1. CASE active = 0
      BY <2>3, <3>1 DEF Cancel, history
    <3>2. CASE active # 0
      <4>1. active \in Ids
            /\ log' = Append(log, [kind |-> "cancel", question |-> active, n |-> 0])
        BY <2>3, <3>2 DEF Cancel, Record, TypeOK
      <4>2. [kind |-> "cancel", question |-> active, n |-> 0] \in Entries
        BY <2>1, <4>1, RecordedIsEntry
      <4>. QED BY <4>1, <4>2
    <3>. QED BY <3>1, <3>2
  <2>4. CASE PollTimesOut
    <3>1. active \in Ids /\ active # 0
          /\ log' = Append(log, [kind |-> "error", question |-> active, n |-> 0])
      BY <2>4 DEF PollTimesOut, Record, TypeOK
    <3>2. [kind |-> "error", question |-> active, n |-> 0] \in Entries
      BY <2>1, <3>1, RecordedIsEntry
    <3>. QED BY <3>1, <3>2
  <2>. QED BY <2>2, <2>3, <2>4
<1>. QED BY <1>1, <1>2, <1>3, <1>4, EndKeeps

----------------------------------------------------------------------------
LEMMA AnswerInvInit ==
  ASSUME Init
  PROVE  AnswerInv
<1>1. TypeOK
  <2>1. << >> \in Seq(Events) /\ << >> \in Seq(Entries) /\ 0 \in 0..MaxDeltas
    BY AnswerBounds
  <2>2. Done \in Events /\ << >> \in Seq(1..MaxDeltas)
    BY EventFacts
  <2>. QED BY <2>1, <2>2 DEF Init, TypeOK
<1>2. FlagInv /\ NeverClosed /\ ActiveStreams
  BY DEF Init, FlagInv, NeverClosed, ActiveStreams, Ids
<1>3. NoStaleUpdate
  <2>1. UpdateAt = {}
    BY DEF Init, UpdateAt
  <2>. QED BY <2>1 DEF NoStaleUpdate
<1>. QED BY <1>1, <1>2, <1>3 DEF AnswerInv

LEMMA AnswerInvStep ==
  ASSUME AnswerInv, [Next]_(vars)
  PROVE  AnswerInv'
<1>1. CASE Begin(begun + 1)
  BY <1>1, BeginKeeps
<1>2. CASE BeginFails(begun + 1) \/ Cancel \/ PollTimesOut
  BY <1>2, CancelKeeps
<1>3. CASE Elapse
  <2>1. /\ active # 0 /\ overdue' = TRUE
        /\ UNCHANGED <<active, begun, log, delivered, workerVars, cancelled>>
    BY <1>3 DEF Elapse, history
  <2>2. TypeOK'
    BY <2>1 DEF AnswerInv, TypeOK, workerVars
  <2>3. FlagInv' /\ NeverClosed'
    BY <2>1 DEF AnswerInv, FlagInv, NeverClosed, workerVars, IsTerminal
  <2>4. ActiveStreams' /\ NoStaleUpdate'
    BY <2>1 DEF AnswerInv, ActiveStreams, NoStaleUpdate, UpdateAt, Streams
  <2>. QED BY <2>2, <2>3, <2>4 DEF AnswerInv
<1>4. CASE PollSession
  BY <1>4, PollSessionKeeps
<1>5. ASSUME NEW q \in Ids, Worker(q)
      PROVE  AnswerInv'
  <2>1. UNCHANGED <<coordinatorVars, cancelled>>
    BY <1>5 DEF Worker, Connect, LoopTop, ReadLine, CheckFlag, Send
  <2>. QED BY <1>5, <2>1, CoordinatorKept, WorkerKeepsTypes, WorkerSendsTheEnd
           DEF AnswerInv
<1>6. CASE UNCHANGED vars
  <2>1. /\ UNCHANGED <<coordinatorVars, cancelled>>
        /\ UNCHANGED <<worker, outgoing, channel, read>>
    BY <1>6 DEF vars, workerVars
  <2>2. TypeOK' /\ NeverClosed'
    BY <2>1 DEF AnswerInv, TypeOK, NeverClosed, coordinatorVars, history,
         IsTerminal
  <2>. QED BY <2>1, <2>2, CoordinatorKept DEF AnswerInv
<1>. QED BY <1>1, <1>2, <1>3, <1>4, <1>5, <1>6 DEF Next, Poll

LEMMA AnswersStayCurrent == Spec => []AnswerInv
<1>. QED BY AnswerInvInit, AnswerInvStep, PTL DEF Spec

(* An update that poll returns belongs to the answer that was begun last,  *)
(* with nothing but deltas of that answer since: superseding, dismissal    *)
(* and timeout are final, however late the provider threads notice.        *)
THEOREM UpdatesAreCurrent == Spec => []NoStaleUpdate
<1>1. AnswerInv => NoStaleUpdate
  BY DEF AnswerInv
<1>. QED BY <1>1, AnswersStayCurrent, PTL

(* poll never finds the session of the active answer closed: a provider    *)
(* thread that returns was cancelled, or has sent its final event and it   *)
(* is still the last in the channel.                                       *)
THEOREM SessionIsNeverClosed == Spec => []NeverClosed
<1>1. AnswerInv => NeverClosed
  BY DEF AnswerInv
<1>. QED BY <1>1, AnswersStayCurrent, PTL

----------------------------------------------------------------------------
(* Delivery. *)

(* What has left the provider thread of q for the coordinator.             *)
Sent(q) == Len(delivered[q]) + Len(channel[q])

(* The channel of an answer holds the deltas that follow those delivered;  *)
(* a final event can only be its last.                                     *)
ChannelFollows(q) ==
  \A k \in 1..Len(channel[q]) :
    \/ channel[q][k] = Delta(Len(delivered[q]) + k)
    \/ /\ k = Len(channel[q]) /\ IsTerminal(channel[q][k])
       /\ worker[q] = "returned"

(* While its answer is active a provider thread has sent all it read, but  *)
(* for the delta it is about to send.                                      *)
WorkerSends(q) ==
  /\ worker[q] \in {"connecting", "top", "reading"} => read[q] = Sent(q)
  /\ worker[q] \in {"checking", "sending"} /\ IsTerminal(outgoing[q])
       => read[q] = Sent(q)
  /\ worker[q] \in {"checking", "sending"} /\ ~IsTerminal(outgoing[q])
       => outgoing[q] = Delta(read[q]) /\ read[q] = Sent(q) + 1
  /\ worker[q] = "returned" => read[q] + 1 = Sent(q)

Streaming(q) == worker[q] # "unborn" /\ ChannelFollows(q) /\ WorkerSends(q)

Untouched(q) ==
  /\ worker[q] = "unborn" /\ read[q] = 0
  /\ channel[q] = << >> /\ delivered[q] = << >>

ReportedDone(q) ==
  \E i \in 1..Len(log) : log[i].kind = "done" /\ log[i].question = q

InOrder(q) == \A k \in 1..Len(delivered[q]) : delivered[q][k] = k

Finished(q) ==
  ReportedDone(q) =>
    /\ active # q
    /\ worker[q] = "returned"
    /\ Len(delivered[q]) = read[q]

Fits(q) ==
  /\ InOrder(q)
  /\ Finished(q)
  /\ q > begun => Untouched(q)
  /\ active = q => Streaming(q)

DeliveryInv == AnswerInv /\ \A q \in Ids : Fits(q)

(* The log is extended: what it reports as done is what it reported        *)
(* before, but for the new entry.                                          *)
LEMMA ReportGrows ==
  ASSUME log \in Seq(Entries), NEW e \in Entries, log' = Append(log, e),
         NEW p, ReportedDone(p)'
  PROVE  ReportedDone(p) \/ (e.kind = "done" /\ e.question = p)
<1>1. /\ Len(log) \in Nat /\ Len(log') = Len(log) + 1
      /\ \A k \in 1..Len(log) : log'[k] = log[k]
      /\ log'[Len(log) + 1] = e
  BY LogGrows
<1>2. PICK i \in 1..Len(log') : log'[i].kind = "done" /\ log'[i].question = p
  BY DEF ReportedDone
<1>3. CASE i = Len(log) + 1
  BY <1>1, <1>2, <1>3
<1>4. CASE i # Len(log) + 1
  <2>1. i \in 1..Len(log)
    BY <1>1, <1>4
  <2>. QED BY <1>1, <1>2, <2>1 DEF ReportedDone
<1>. QED BY <1>3, <1>4

\* An answer that is not active is left as it is.
LEMMA InactiveFits ==
  ASSUME NEW p \in Ids, Fits(p), begun \in Nat, begun' \in Nat, begun <= begun',
         worker'[p] = worker[p], read'[p] = read[p],
         channel'[p] = channel[p], delivered'[p] = delivered[p],
         active' # p, ReportedDone(p)' => ReportedDone(p)
  PROVE  Fits(p)'
<1>1. InOrder(p)'
  BY DEF Fits, InOrder
<1>2. Finished(p)'
  BY DEF Fits, Finished
<1>3. p > begun' => Untouched(p)'
  BY DEF Fits, Untouched, Ids
<1>. QED BY <1>1, <1>2, <1>3 DEF Fits

\* What a provider thread does to the answer it works for.
LEMMA WorkerStreams ==
  ASSUME DeliveryInv, NEW q \in Ids, Worker(q), active = q
  PROVE  Streaming(q)'
<1>. USE DEF Goto, Offer, Sent
<1>1. TypeOK /\ Streaming(q) /\ ~cancelled[q] /\ delivered' = delivered
  BY DEF DeliveryInv, Fits, AnswerInv, FlagInv, Worker, Connect, LoopTop,
       ReadLine, CheckFlag, Send, coordinatorVars, history, Ids
<1>2. /\ Len(delivered[q]) \in Nat /\ channel[q] \in Seq(Events)
      /\ Len(channel[q]) \in Nat /\ read[q] \in Nat /\ outgoing[q] \in Events
  BY <1>1, AnswerBounds DEF TypeOK
<1>3. PICK a \in Nat, b \in Nat :
        /\ a = Len(delivered[q]) /\ b = Len(channel[q]) /\ Sent(q) = a + b
  BY <1>2
<1>4. worker[q] # "returned"
        => \A k \in 1..Len(channel[q]) :
             channel[q][k] = Delta(Len(delivered[q]) + k)
  BY <1>1 DEF Streaming, ChannelFollows
<1>5. CASE Connect(q)
  <2>1. /\ channel' = channel /\ read' = read /\ worker[q] = "connecting"
        /\ \/ worker'[q] = "top"
           \/ worker'[q] = "checking" /\ outgoing'[q] = Error
    BY <1>1, <1>5 DEF Connect, TypeOK
  <2>2. ChannelFollows(q)'
    BY <1>1, <1>4, <2>1 DEF ChannelFollows
  <2>3. WorkerSends(q)'
    BY <1>1, <2>1, EventFacts DEF Streaming, WorkerSends
  <2>. QED BY <2>1, <2>2, <2>3 DEF Streaming
<1>6. CASE LoopTop(q)
  <2>1. /\ channel' = channel /\ read' = read /\ worker[q] = "top"
        /\ worker'[q] = "reading"
    BY <1>1, <1>6 DEF LoopTop, TypeOK
  <2>2. ChannelFollows(q)'
    BY <1>1, <1>4, <2>1 DEF ChannelFollows
  <2>3. WorkerSends(q)'
    BY <1>1, <2>1 DEF Streaming, WorkerSends
  <2>. QED BY <2>1, <2>2, <2>3 DEF Streaming
<1>7. CASE ReadLine(q)
  <2>1. channel' = channel /\ worker[q] = "reading" /\ read[q] = Sent(q)
    BY <1>1, <1>7 DEF ReadLine, Streaming, WorkerSends
  <2>2. worker'[q] \in {"checking", "top"}
    BY <1>1, <1>7 DEF ReadLine, TypeOK
  <2>3. ChannelFollows(q)'
    BY <1>1, <1>4, <2>1, <2>2 DEF ChannelFollows
  <2>4. \/ /\ read[q] < MaxDeltas /\ read'[q] = read[q] + 1
           /\ worker'[q] = "checking" /\ outgoing'[q] = Delta(read[q] + 1)
        \/ /\ read' = read /\ worker'[q] = "checking"
           /\ outgoing'[q] \in {Done, Error}
        \/ read' = read /\ worker'[q] = "top"
    BY <1>1, <1>7 DEF ReadLine, TypeOK
  <2>5. WorkerSends(q)'
    <3>1. CASE /\ read[q] < MaxDeltas /\ read'[q] = read[q] + 1
               /\ worker'[q] = "checking" /\ outgoing'[q] = Delta(read[q] + 1)
      <4>1. read[q] + 1 \in 1..MaxDeltas
        BY <1>2, <3>1, AnswerBounds
      <4>2. ~IsTerminal(outgoing'[q])
        BY <3>1, <4>1, EventFacts
      <4>3. read'[q] = Sent(q) + 1 /\ Sent(q)' = Sent(q)
        BY <1>1, <2>1, <3>1
      <4>4. ~IsTerminal(outgoing[q])'
        BY <4>2 DEF IsTerminal
      <4>. QED BY <3>1, <4>3, <4>4 DEF WorkerSends
    <3>2. CASE /\ read' = read /\ worker'[q] = "checking"
               /\ outgoing'[q] \in {Done, Error}
      <4>1. IsTerminal(outgoing[q])'
        BY <3>2, EventFacts DEF IsTerminal
      <4>. QED BY <1>1, <2>1, <3>2, <4>1 DEF WorkerSends
    <3>3. CASE read' = read /\ worker'[q] = "top"
      BY <1>1, <2>1, <3>3 DEF WorkerSends
    <3>. QED BY <2>4, <3>1, <3>2, <3>3
  <2>. QED BY <2>2, <2>3, <2>5 DEF Streaming
<1>8. CASE CheckFlag(q)
  <2>1. /\ channel' = channel /\ read' = read /\ outgoing' = outgoing
        /\ worker[q] = "checking" /\ worker'[q] = "sending"
    BY <1>1, <1>8 DEF CheckFlag, TypeOK
  <2>2. ChannelFollows(q)'
    BY <1>1, <1>4, <2>1 DEF ChannelFollows
  <2>3. WorkerSends(q)'
    BY <1>1, <2>1 DEF Streaming, WorkerSends, IsTerminal
  <2>. QED BY <2>1, <2>2, <2>3 DEF Streaming
<1>9. CASE Send(q)
  <2>1. /\ channel'[q] = Append(channel[q], outgoing[q])
        /\ read' = read /\ worker[q] = "sending"
        /\ worker'[q] = IF IsTerminal(outgoing[q]) THEN "returned" ELSE "top"
    BY <1>1, <1>9, active = q DEF Send, AfterSend, TypeOK
  <2>2. /\ Len(channel'[q]) = Len(channel[q]) + 1
        /\ \A k \in 1..Len(channel[q]) : channel'[q][k] = channel[q][k]
        /\ channel'[q][Len(channel[q]) + 1] = outgoing[q]
    BY <1>2, <2>1, AppendProperties
  <2>3. Sent(q)' = Sent(q) + 1
    <3>1. Len(delivered'[q]) = a /\ Len(channel'[q]) = b + 1
      BY <1>1, <1>3, <2>2
    <3>2. a + (b + 1) = (a + b) + 1
      OBVIOUS
    <3>. QED BY <1>3, <3>1, <3>2
  <2>4. ChannelFollows(q)'
    <3>. SUFFICES ASSUME NEW k \in 1..Len(channel'[q])
                  PROVE  \/ channel'[q][k] = Delta(Len(delivered[q]) + k)
                         \/ /\ k = Len(channel'[q]) /\ IsTerminal(channel'[q][k])
                            /\ worker'[q] = "returned"
      BY <1>1 DEF ChannelFollows, IsTerminal
    <3>1. CASE k # Len(channel[q]) + 1
      <4>1. k \in 1..Len(channel[q])
        BY <1>2, <2>2, <3>1
      <4>. QED BY <1>4, <2>1, <2>2, <4>1
    <3>2. CASE k = Len(channel[q]) + 1 /\ IsTerminal(outgoing[q])
      BY <2>1, <2>2, <3>2
    <3>3. CASE k = Len(channel[q]) + 1 /\ ~IsTerminal(outgoing[q])
      <4>1. outgoing[q] = Delta(Sent(q) + 1)
        BY <1>1, <2>1, <3>3 DEF Streaming, WorkerSends
      <4>2. Sent(q) + 1 = Len(delivered[q]) + k
        <5>1. k = b + 1
          BY <1>3, <3>3
        <5>2. a + (b + 1) = (a + b) + 1
          OBVIOUS
        <5>. QED BY <1>3, <5>1, <5>2
      <4>. QED BY <2>2, <3>3, <4>1, <4>2
    <3>. QED BY <3>1, <3>2, <3>3
  <2>5. WorkerSends(q)'
    <3>1. CASE IsTerminal(outgoing[q])
      <4>1. worker'[q] = "returned" /\ read[q] = Sent(q)
        BY <1>1, <2>1, <3>1 DEF Streaming, WorkerSends
      <4>. QED BY <2>1, <2>3, <4>1 DEF WorkerSends
    <3>2. CASE ~IsTerminal(outgoing[q])
      <4>1. worker'[q] = "top" /\ read[q] = Sent(q) + 1
        BY <1>1, <2>1, <3>2 DEF Streaming, WorkerSends
      <4>. QED BY <2>1, <2>3, <4>1 DEF WorkerSends
    <3>. QED BY <3>1, <3>2
  <2>. QED BY <2>1, <2>4, <2>5 DEF Streaming
<1>. QED BY <1>5, <1>6, <1>7, <1>8, <1>9 DEF Worker

LEMMA WorkerKeepsDelivery ==
  ASSUME DeliveryInv, NEW q \in Ids, Worker(q), NEW p \in Ids
  PROVE  Fits(p)'
<1>1. Fits(p) /\ TypeOK
  BY DEF DeliveryInv, AnswerInv
<1>2. UNCHANGED <<active, begun, log, delivered>>
  BY DEF Worker, Connect, LoopTop, ReadLine, CheckFlag, Send, coordinatorVars,
       history
<1>3. CASE p # q
  <2>1. /\ worker'[p] = worker[p] /\ read'[p] = read[p]
        /\ channel'[p] = channel[p] /\ outgoing'[p] = outgoing[p]
    BY <1>1, <1>3 DEF Worker, Connect, LoopTop, ReadLine, CheckFlag, Send,
         Goto, Offer, TypeOK
  <2>. QED BY <1>1, <1>2, <2>1
           DEF Fits, InOrder, Finished, ReportedDone, Untouched, Streaming,
               ChannelFollows, WorkerSends, Sent, IsTerminal
<1>4. CASE p = q
  <2>1. worker[q] \notin {"unborn", "returned"}
    BY DEF Worker, Connect, LoopTop, ReadLine, CheckFlag, Send
  <2>2. ~ReportedDone(q) /\ ~(q > begun)
    BY <1>1, <1>4, <2>1 DEF Fits, Finished, Untouched
  <2>3. InOrder(q)' /\ Finished(q)' /\ ~(q > begun')
    BY <1>1, <1>2, <1>4, <2>2 DEF Fits, InOrder, Finished, ReportedDone
  <2>4. active' = q => Streaming(q)'
    BY <1>2, WorkerStreams
  <2>. QED BY <1>4, <2>3, <2>4 DEF Fits
<1>. QED BY <1>3, <1>4

(* poll returns the next delta of the active answer, or its final event    *)
(* when all that was read of the response has been returned.               *)
LEMMA PollReturnsInOrder ==
  ASSUME DeliveryInv, PollSession, NEW p \in Ids
  PROVE  Fits(p)'
<1>1. /\ TypeOK /\ Fits(p) /\ log \in Seq(Entries)
      /\ begun \in Nat
  BY DEF DeliveryInv, AnswerInv, TypeOK, Ids
<1>2. PICK q \in Ids : q = active /\ q # 0 /\ Fits(q)
  BY <1>1 DEF PollSession, TypeOK, DeliveryInv
<1>3. channel[q] # << >> /\ channel[q] \in Seq(Events)
  BY <1>1, <1>2 DEF PollSession, NeverClosed, TypeOK, DeliveryInv, AnswerInv
<1>4. PICK m \in Events : m = Head(channel[q]) /\ m = channel[q][1]
  <2>1. Len(channel[q]) \in Nat \ {0}
    BY <1>3, EmptySeq, LenProperties
  <2>. QED BY <1>3, <2>1, HeadTailProperties
<1>5. /\ active' = IF IsTerminal(m) THEN 0 ELSE q
      /\ channel' = [channel EXCEPT ![q] = Tail(@)]
      /\ UNCHANGED <<begun, worker, outgoing, read>>
      /\ log' = Append(log, [kind |-> m.kind, question |-> q, n |-> m.n])
      /\ delivered' = IF m.kind = "delta"
                      THEN [delivered EXCEPT ![q] = Append(@, m.n)]
                      ELSE delivered
  BY <1>2, <1>3, <1>4 DEF PollSession, Return
<1>6. PICK e \in Entries :
        log' = Append(log, e) /\ e.kind = m.kind /\ e.question = q
  <2>1. m.kind \in {"delta", "done", "error"} /\ m.n \in 0..MaxDeltas
    BY EventFacts
  <2>. QED BY <1>5, <2>1, RecordedIsEntry
<1>7. CASE p # q
  <2>1. /\ channel'[p] = channel[p] /\ delivered'[p] = delivered[p]
        /\ active' # p
    BY <1>1, <1>2, <1>5, <1>7 DEF TypeOK, Ids
  <2>2. ReportedDone(p)' => ReportedDone(p)
    BY <1>1, <1>6, <1>7, ReportGrows
  <2>. QED BY <1>1, <1>5, <2>1, <2>2, InactiveFits
<1>8. CASE p = q
  <2>1. PICK c \in Seq(Events) : c = channel[q]
    BY <1>3
  <2>2. PICK d \in Seq(1..MaxDeltas) : d = delivered[q]
    BY <1>1 DEF TypeOK
  <2>3. /\ Len(d) \in Nat /\ Len(c) \in Nat \ {0} /\ read[q] \in Nat
        /\ channel'[q] = Tail(c) /\ Len(Tail(c)) = Len(c) - 1
        /\ \A k \in 1..Len(Tail(c)) : Tail(c)[k] = c[k + 1]
    <3>1. /\ Len(Tail(c)) = Len(c) - 1
          /\ \A k \in 1..Len(Tail(c)) : Tail(c)[k] = c[k + 1]
      BY <1>3, <2>1, HeadTailProperties
    <3>2. Len(c) \in Nat \ {0}
      BY <1>3, <2>1, EmptySeq, LenProperties
    <3>3. channel'[q] = Tail(c) /\ read[q] \in Nat
      BY <1>1, <1>5, <2>1, AnswerBounds DEF TypeOK
    <3>. QED BY <3>1, <3>2, <3>3
  <2>4. /\ worker[q] # "unborn" /\ InOrder(q) /\ ~ReportedDone(q)
        /\ ~(q > begun)
        /\ \A k \in 1..Len(c) :
             \/ c[k] = Delta(Len(d) + k)
             \/ k = Len(c) /\ IsTerminal(c[k]) /\ worker[q] = "returned"
        /\ WorkerSends(q)
    BY <1>2, <2>1, <2>2 DEF Fits, Finished, Streaming, ChannelFollows, Untouched
  <2>5. CASE IsTerminal(m)
    <3>1. m.kind # "delta" /\ delivered' = delivered /\ active' = 0
      BY <1>5, <2>5 DEF IsTerminal
    <3>2. Len(c) = 1 /\ worker[q] = "returned"
      <4>1. m # Delta(Len(d) + 1)
        BY <3>1 DEF Delta
      <4>2. 1 \in 1..Len(c) /\ c[1] = m
        BY <1>4, <2>1, <2>3
      <4>. QED BY <2>4, <4>1, <4>2
    <3>3. read[q] + 1 = Len(d) + 1
      BY <2>1, <2>2, <2>4, <3>2 DEF WorkerSends, Sent
    <3>4. read[q] = Len(d)
      BY <2>3, <3>3
    <3>5. Finished(q)'
      BY <1>2, <1>5, <2>2, <3>1, <3>2, <3>4 DEF Finished
    <3>6. InOrder(q)'
      BY <2>4, <3>1 DEF InOrder
    <3>. QED BY <1>2, <1>5, <1>8, <2>4, <3>1, <3>5, <3>6 DEF Fits
  <2>6. CASE ~IsTerminal(m)
    <3>1. m.kind = "delta" /\ m = Delta(m.n) /\ m.n \in 1..MaxDeltas
      BY <2>6, EventFacts
    <3>2. m.n = Len(d) + 1
      <4>1. m = Delta(Len(d) + 1)
        BY <1>4, <2>1, <2>3, <2>4, <2>6
      <4>. QED BY <4>1 DEF Delta
    <3>3. delivered'[q] = Append(d, m.n) /\ active' = q
      BY <1>1, <1>2, <1>5, <2>2, <2>6, <3>1 DEF TypeOK
    <3>4. /\ Len(delivered'[q]) = Len(d) + 1
          /\ \A k \in 1..Len(d) : delivered'[q][k] = d[k]
          /\ delivered'[q][Len(d) + 1] = m.n
      BY <3>1, <3>3, AppendProperties
    <3>5. InOrder(q)'
      <4>. SUFFICES ASSUME NEW k \in 1..(Len(d) + 1)
                    PROVE  delivered'[q][k] = k
        BY <3>4 DEF InOrder
      <4>1. CASE k = Len(d) + 1
        BY <3>2, <3>4, <4>1
      <4>2. CASE k # Len(d) + 1
        <5>1. k \in 1..Len(d)
          BY <2>3, <4>2
        <5>. QED BY <2>2, <2>4, <3>4, <5>1 DEF InOrder
      <4>. QED BY <4>1, <4>2
    <3>6. ~ReportedDone(q)'
      <4>1. e.kind # "done"
        BY <1>6, <3>1
      <4>. QED BY <1>1, <1>6, <2>4, <4>1, ReportGrows
    <3>7. Streaming(q)'
      <4>1. Sent(q)' = Sent(q)
        <5>1. /\ Len(delivered'[q]) + Len(channel'[q]) = (Len(d) + 1) + (Len(c) - 1)
              /\ Len(delivered[q]) + Len(channel[q]) = Len(d) + Len(c)
          BY <2>1, <2>2, <2>3, <3>4
        <5>2. (Len(d) + 1) + (Len(c) - 1) = Len(d) + Len(c)
          BY <2>3
        <5>. QED BY <5>1, <5>2 DEF Sent
      <4>2. WorkerSends(q)'
        BY <1>5, <2>4, <4>1 DEF WorkerSends, IsTerminal
      <4>3. ASSUME NEW k \in 1..Len(channel'[q])
            PROVE  \/ channel'[q][k] = Delta(Len(delivered'[q]) + k)
                   \/ /\ k = Len(channel'[q]) /\ IsTerminal(channel'[q][k])
                      /\ worker'[q] = "returned"
        <5>1. k + 1 \in 1..Len(c) /\ channel'[q][k] = c[k + 1]
          BY <2>3
        <5>2. CASE c[k + 1] = Delta(Len(d) + (k + 1))
          <6>1. Len(d) + (k + 1) = Len(delivered'[q]) + k
            BY <2>3, <3>4
          <6>. QED BY <5>1, <5>2, <6>1
        <5>3. CASE /\ k + 1 = Len(c) /\ IsTerminal(c[k + 1])
                   /\ worker[q] = "returned"
          <6>1. k = Len(channel'[q])
            <7>1. k \in Nat /\ Len(channel'[q]) = Len(c) - 1
              BY <2>3
            <7>2. Len(c) \in Nat /\ k + 1 = Len(c)
              BY <2>3, <5>3
            <7>. QED BY <7>1, <7>2
          <6>. QED BY <1>5, <5>1, <5>3, <6>1
        <5>. QED BY <2>4, <5>1, <5>2, <5>3
      <4>4. ChannelFollows(q)'
        BY <4>3 DEF ChannelFollows, IsTerminal
      <4>. QED BY <1>5, <2>4, <4>2, <4>4 DEF Streaming
    <3>. QED BY <1>5, <1>8, <2>4, <3>5, <3>6, <3>7 DEF Fits, Finished
  <2>. QED BY <2>5, <2>6
<1>. QED BY <1>7, <1>8

\* A new answer starts with nothing read and nothing sent.
LEMMA BeginStreams ==
  ASSUME DeliveryInv, Begin(begun + 1), NEW p \in Ids
  PROVE  Fits(p)'
<1>1. /\ TypeOK /\ Fits(p) /\ log \in Seq(Entries) /\ begun \in Nat
      /\ begun + 1 \in Ids
  BY DEF DeliveryInv, AnswerInv, TypeOK, Ids, Begin
<1>2. /\ active' = begun + 1 /\ begun' = begun + 1
      /\ worker' = [worker EXCEPT ![begun + 1] = "connecting"]
      /\ UNCHANGED <<outgoing, channel, read, delivered>>
      /\ log' = Append(log, [kind |-> "begin", question |-> begun + 1, n |-> 0])
  BY DEF Begin, Record
<1>3. PICK e \in Entries : log' = Append(log, e) /\ e.kind = "begin"
  <2>1. 0 \in 0..MaxDeltas
    BY AnswerBounds
  <2>. QED BY <1>1, <1>2, <2>1, RecordedIsEntry
<1>4. ReportedDone(p)' => ReportedDone(p)
  BY <1>1, <1>3, ReportGrows
<1>5. CASE p # begun + 1
  <2>1. worker'[p] = worker[p] /\ active' # p /\ begun <= begun' /\ begun' \in Nat
    BY <1>1, <1>2, <1>5 DEF TypeOK
  <2>. QED BY <1>1, <1>2, <1>4, <2>1, InactiveFits
<1>6. CASE p = begun + 1
  <2>1. Untouched(p)
    BY <1>1, <1>6 DEF Fits
  <2>2. ~ReportedDone(p)'
    BY <1>1, <1>4, <2>1 DEF Fits, Finished, Untouched
  <2>3. worker'[p] = "connecting"
    BY <1>1, <1>2, <1>6 DEF TypeOK
  <2>4. channel'[p] = << >> /\ delivered'[p] = << >> /\ read'[p] = 0
    BY <1>2, <2>1 DEF Untouched
  <2>5. Streaming(p)'
    <3>1. ChannelFollows(p)'
      BY <2>4 DEF ChannelFollows
    <3>2. WorkerSends(p)'
      BY <2>3, <2>4 DEF WorkerSends, Sent
    <3>. QED BY <2>3, <3>1, <3>2 DEF Streaming
  <2>6. InOrder(p)'
    BY <2>4 DEF InOrder
  <2>7. ~(p > begun')
    BY <1>1, <1>2, <1>6
  <2>. QED BY <2>2, <2>5, <2>6, <2>7 DEF Fits, Finished
<1>. QED BY <1>5, <1>6

\* The calls that end the active answer report no answer as done.
LEMMA EndDelivers ==
  ASSUME DeliveryInv, BeginFails(begun + 1) \/ Cancel \/ PollTimesOut,
         NEW p \in Ids
  PROVE  Fits(p)'
<1>1. /\ TypeOK /\ Fits(p) /\ log \in Seq(Entries) /\ begun \in Nat
      /\ active \in {0} \union Ids
  BY DEF DeliveryInv, AnswerInv, TypeOK, Ids
<1>2. /\ active' = 0 /\ begun' \in Nat /\ begun <= begun'
      /\ UNCHANGED <<worker, outgoing, channel, read, delivered>>
  BY <1>1 DEF BeginFails, Cancel, PollTimesOut, Record, history, workerVars
<1>3. \/ UNCHANGED log
      \/ \E kind \in {"cancel", "error"}, q \in Ids :
           log' = Append(log, [kind |-> kind, question |-> q, n |-> 0])
  BY <1>1 DEF BeginFails, Cancel, PollTimesOut, Record, history
<1>4. ReportedDone(p)' => ReportedDone(p)
  <2>1. CASE UNCHANGED log
    BY <2>1 DEF ReportedDone
  <2>2. ASSUME NEW kind \in {"cancel", "error"}, NEW q \in Ids,
               log' = Append(log, [kind |-> kind, question |-> q, n |-> 0])
        PROVE  ReportedDone(p)' => ReportedDone(p)
    <3>1. 0 \in 0..MaxDeltas
      BY AnswerBounds
    <3>2. PICK e \in Entries : log' = Append(log, e) /\ e.kind = kind
      BY <2>2, <3>1, RecordedIsEntry
    <3>. QED BY <1>1, <3>2, ReportGrows
  <2>. QED BY <1>3, <2>1, <2>2
<1>5. active' # p
  BY <1>2 DEF Ids
<1>. QED BY <1>1, <1>2, <1>4, <1>5, InactiveFits

LEMMA DeliveryInvInit ==
  ASSUME Init
  PROVE  DeliveryInv
<1>1. AnswerInv
  BY AnswerInvInit
<1>2. ASSUME NEW q \in Ids
      PROVE  Fits(q)
  <2>1. /\ worker[q] = "unborn" /\ channel[q] = << >> /\ read[q] = 0
        /\ delivered[q] = << >> /\ active # q
    BY DEF Init, Ids
  <2>2. ~ReportedDone(q)
    BY DEF Init, ReportedDone
  <2>. QED BY <2>1, <2>2 DEF Fits, InOrder, Finished, Untouched
<1>. QED BY <1>1, <1>2 DEF DeliveryInv

LEMMA DeliveryInvStep ==
  ASSUME DeliveryInv, [Next]_(vars)
  PROVE  DeliveryInv'
<1>1. AnswerInv'
  BY AnswerInvStep DEF DeliveryInv
<1>2. ASSUME NEW p \in Ids,
             UNCHANGED <<active, begun, history, workerVars>>
      PROVE  Fits(p)'
  BY <1>2 DEF DeliveryInv, Fits, InOrder, Finished, ReportedDone, Untouched,
       Streaming, ChannelFollows, WorkerSends, Sent, IsTerminal, history,
       workerVars
<1>3. ASSUME NEW p \in Ids
      PROVE  Fits(p)'
  <2>1. CASE Begin(begun + 1)
    BY <2>1, BeginStreams
  <2>2. CASE BeginFails(begun + 1) \/ Cancel \/ PollTimesOut
    BY <2>2, EndDelivers
  <2>3. CASE Elapse
    BY <1>2, <2>3 DEF Elapse
  <2>4. CASE PollSession
    BY <2>4, PollReturnsInOrder
  <2>5. ASSUME NEW q \in Ids, Worker(q)
        PROVE  Fits(p)'
    BY <2>5, WorkerKeepsDelivery
  <2>6. CASE UNCHANGED vars
    BY <1>2, <2>6 DEF vars, coordinatorVars
  <2>. QED BY <2>1, <2>2, <2>3, <2>4, <2>5, <2>6 DEF Next, Poll
<1>. QED BY <1>1, <1>3 DEF DeliveryInv

(* The deltas of an answer are returned in order and without a gap, and an *)
(* answer reported as done was returned as far as the response was read.   *)
THEOREM AnswersAreWhole == Spec => []DoneMeansComplete
<1>1. DeliveryInv => DoneMeansComplete
  BY DEF DeliveryInv, Fits, InOrder, Finished, ReportedDone, DoneMeansComplete
<1>. QED BY <1>1, DeliveryInvInit, DeliveryInvStep, PTL DEF Spec

----------------------------------------------------------------------------
(* The refinement of AnswerStream.  It needs one fact more: an answer that *)
(* was reported as failed has ended, so that what ends next is another,    *)
(* and it is not reported as done as well.                                 *)

FailedInv ==
  \A q \in Ids :
    Reported("error", q) => q <= begun /\ active # q /\ ~Reported("done", q)

Standing == [q \in Ids |-> StandingOf(q)]

LEMMA BegunType ==
  ASSUME DeliveryInv
  PROVE  begun \in Nat /\ LastQuestion \in Nat
BY AnswerBounds DEF Ids, DeliveryInv, AnswerInv, TypeOK

\* The log reports what it reported before, and the new entry.
LEMMA ReportedGrows ==
  ASSUME log \in Seq(Entries), NEW e \in Entries, log' = Append(log, e),
         NEW kind, NEW p
  PROVE  Reported(kind, p)' <=>
           Reported(kind, p) \/ (e.kind = kind /\ e.question = p)
<1>1. /\ Len(log) \in Nat /\ Len(log') = Len(log) + 1
      /\ \A k \in 1..Len(log) : log'[k] = log[k]
      /\ log'[Len(log) + 1] = e
  BY LogGrows
<1>2. \A k : k \in 1..Len(log') <=> k \in 1..Len(log) \/ k = Len(log) + 1
  BY <1>1
<1> QED BY <1>1, <1>2 DEF Reported

(* What an answer stands for follows from whether it is active, begun and  *)
(* reported as ended.                                                      *)
LEMMA StandingCases ==
  ASSUME DeliveryInv, FailedInv, NEW q \in Ids
  PROVE  /\ StandingOf(q) = "answering" <=> active = q
         /\ active = q => q <= begun /\ ~Reported("done", q) /\ ~Reported("error", q)
         /\ q > begun => /\ ~Reported("done", q) /\ ~Reported("error", q)
                         /\ StandingOf(q) = "unasked"
         /\ active # q /\ ~(q > begun) =>
              StandingOf(q) = IF Reported("done", q) THEN "done"
                              ELSE IF Reported("error", q) THEN "failed"
                              ELSE "dropped"
<1>1. begun \in Nat /\ q \in Nat
  BY BegunType DEF Ids
<1>2. /\ Reported("done", q) => active # q /\ worker[q] = "returned"
      /\ q > begun => worker[q] = "unborn"
  BY DEF DeliveryInv, Fits, Finished, ReportedDone, Reported, Untouched
<1>3. Reported("error", q) => /\ q <= begun /\ active # q
                             /\ ~Reported("done", q)
  BY DEF FailedInv
<1>4. active = q => q <= begun
  BY DEF DeliveryInv, AnswerInv, FlagInv
<1>5. q <= begun <=> ~(q > begun)
  BY <1>1
<1>6. q > begun => ~Reported("done", q) /\ ~Reported("error", q)
  BY <1>2, <1>3, <1>5
<1>7. active = q => /\ q <= begun
                    /\ ~Reported("done", q) /\ ~Reported("error", q)
  BY <1>2, <1>3, <1>4
<1>8. CASE active = q
  BY <1>5, <1>7, <1>8 DEF StandingOf
<1>9. CASE active # q /\ q > begun
  BY <1>6, <1>9 DEF StandingOf
<1>10. CASE active # q /\ ~(q > begun)
  BY <1>3, <1>10 DEF StandingOf
<1> QED BY <1>8, <1>9, <1>10

(* The standing of an answer that a step neither makes active nor ends.    *)
LEMMA StandingStays ==
  ASSUME NEW q, active = q <=> active' = q, q > begun <=> q > begun',
         Reported("done", q)' <=> Reported("done", q),
         Reported("error", q)' <=> Reported("error", q)
  PROVE  StandingOf(q)' = StandingOf(q)
BY DEF StandingOf

(* What a step of the coordinator adds to the log.                         *)
LEMMA LogStep ==
  ASSUME DeliveryInv, Next
  PROVE  \/ /\ UNCHANGED <<active, begun, log, delivered>>
            /\ \/ UNCHANGED read
               \/ \E q \in Ids : /\ worker[q] = "reading"
                                 /\ read' = [read EXCEPT ![q] = @ + 1]
         \/ \E e \in Entries :
              /\ log' = Append(log, e)
              /\ UNCHANGED read
              /\ \/ /\ begun + 1 \in Ids /\ begun' = begun + 1
                    /\ e.kind \in {"begin", "cancel"} /\ UNCHANGED delivered
                    /\ active' = IF e.kind = "begin" THEN begun + 1 ELSE 0
                 \/ /\ begun' = begun /\ active \in Ids /\ active' = 0
                    /\ e.kind \in {"cancel", "error", "done"}
                    /\ e.question = active /\ UNCHANGED delivered
                 \/ /\ begun' = begun /\ active \in Ids /\ active' = active
                    /\ e.kind = "delta" /\ e.question = active
                    /\ delivered' = [delivered EXCEPT ![active] = Append(@, e.n)]
                 \/ /\ UNCHANGED <<active, begun, delivered>>
                    /\ e.kind = "closed"
<1>1. /\ active \in {0} \union Ids /\ begun \in {0} \union Ids
      /\ log \in Seq(Entries) /\ channel \in [Ids -> Seq(Events)]
  BY DEF DeliveryInv, AnswerInv, TypeOK
<1>2. 0 \in 0..MaxDeltas
  BY AnswerBounds
<1>3. CASE Begin(begun + 1) \/ BeginFails(begun + 1)
  <2>1. PICK kind \in {"begin", "cancel"} :
          /\ log' = Append(log, [kind |-> kind, question |-> begun + 1, n |-> 0])
          /\ active' = IF kind = "begin" THEN begun + 1 ELSE 0
    BY <1>3 DEF Begin, BeginFails, Record
  <2>2. /\ begun + 1 \in Ids /\ begun' = begun + 1
        /\ UNCHANGED read /\ UNCHANGED delivered
    BY <1>3 DEF Begin, BeginFails, Record, workerVars
  <2>3. PICK e \in Entries : log' = Append(log, e) /\ e.kind = kind
    BY <1>2, <2>1, <2>2, RecordedIsEntry
  <2> QED BY <2>1, <2>2, <2>3
<1>4. CASE Cancel /\ active = 0
  <2>1. UNCHANGED <<active, begun, log, delivered, read>>
    BY <1>4 DEF Cancel, history, workerVars
  <2> QED BY <2>1
<1>5. CASE (Cancel /\ active # 0) \/ PollTimesOut
  <2>1. PICK kind \in {"cancel", "error"} :
          log' = Append(log, [kind |-> kind, question |-> active, n |-> 0])
    BY <1>5 DEF Cancel, PollTimesOut, Record
  <2>2. /\ active \in Ids /\ active' = 0 /\ begun' = begun
        /\ UNCHANGED read /\ UNCHANGED delivered
    BY <1>1, <1>5 DEF Cancel, PollTimesOut, Record, workerVars
  <2>3. PICK e \in Entries :
          log' = Append(log, e) /\ e.kind = kind /\ e.question = active
    BY <1>2, <2>1, <2>2, RecordedIsEntry
  <2> QED BY <2>1, <2>2, <2>3
<1>6. CASE PollSession
  <2>1. active \in Ids /\ begun' = begun /\ UNCHANGED read
    BY <1>1, <1>6 DEF PollSession
  <2>2. CASE channel[active] = << >>
    <3>1. /\ UNCHANGED <<active, delivered>>
          /\ log' = Append(log,
                      [kind |-> "closed", question |-> active, n |-> 0])
      BY <1>6, <2>2 DEF PollSession, Record
    <3>2. PICK e \in Entries : log' = Append(log, e) /\ e.kind = "closed"
      BY <1>2, <2>1, <3>1, RecordedIsEntry
    <3> QED BY <2>1, <3>1, <3>2
  <2>3. CASE channel[active] # << >>
    <3>1. PICK m : /\ m = Head(channel[active])
                   /\ Return(m)
                   /\ active' = IF IsTerminal(m) THEN 0 ELSE active
      BY <1>6, <2>3 DEF PollSession
    <3>2. m \in Events
      BY <1>1, <2>1, <2>3, <3>1
    <3>3. m.kind \in {"delta", "done", "error"} /\ m.n \in 0..MaxDeltas
      BY <3>2, EventFacts
    <3>4. log' = Append(log, [kind |-> m.kind, question |-> active, n |-> m.n])
      BY <3>1 DEF Return
    <3>5. PICK e \in Entries : /\ log' = Append(log, e) /\ e.kind = m.kind
                               /\ e.question = active /\ e.n = m.n
      <4>1. [kind |-> m.kind, question |-> active, n |-> m.n] \in Entries
        BY <2>1, <3>3 DEF Entries
      <4> QED BY <3>4, <4>1
    <3>6. /\ delivered' = IF m.kind = "delta"
                          THEN [delivered EXCEPT ![active] = Append(@, m.n)]
                          ELSE delivered
          /\ active' = IF m.kind = "delta" THEN active ELSE 0
      BY <3>1, <3>3 DEF Return, IsTerminal
    <3>7. CASE m.kind = "delta"
      BY <2>1, <3>5, <3>6, <3>7
    <3>8. CASE m.kind # "delta"
      BY <2>1, <3>3, <3>5, <3>6, <3>8
    <3> QED BY <3>7, <3>8
  <2> QED BY <2>2, <2>3
<1>7. CASE Elapse
  <2>1. UNCHANGED <<active, begun, log, delivered, read>>
    BY <1>7 DEF Elapse, history, workerVars
  <2> QED BY <2>1
<1>8. ASSUME NEW q \in Ids, Worker(q)
      PROVE  /\ UNCHANGED <<active, begun, log, delivered>>
             /\ \/ UNCHANGED read
                \/ /\ worker[q] = "reading"
                   /\ read' = [read EXCEPT ![q] = @ + 1]
  BY <1>8 DEF Worker, Connect, LoopTop, ReadLine, CheckFlag, Send,
       coordinatorVars, history
<1> QED BY <1>3, <1>4, <1>5, <1>6, <1>7, <1>8 DEF Next, Poll

LEMMA FailedStays ==
  ASSUME DeliveryInv, FailedInv, [Next]_(vars)
  PROVE  FailedInv'
<1>1. begun \in Nat /\ log \in Seq(Entries) /\ active \in {0} \union Ids
  BY BegunType DEF DeliveryInv, AnswerInv, TypeOK
<1>2. active <= begun
  BY DEF DeliveryInv, AnswerInv, FlagInv
<1>3. CASE UNCHANGED <<active, begun, log>>
  BY <1>3 DEF FailedInv, Reported
<1>4. ASSUME Next
      PROVE  FailedInv'
  <2>1. CASE UNCHANGED <<active, begun, log, delivered>>
    BY <1>3, <2>1
  <2>2. ASSUME NEW e \in Entries, log' = Append(log, e),
               \/ /\ begun' = begun + 1 /\ e.kind \in {"begin", "cancel"}
                  /\ active' = IF e.kind = "begin" THEN begun + 1 ELSE 0
               \/ /\ begun' = begun /\ active \in Ids /\ active' = 0
                  /\ e.question = active
               \/ /\ UNCHANGED <<active, begun>> /\ e.kind \in {"delta", "closed"}
        PROVE  FailedInv'
    <3> SUFFICES ASSUME NEW q \in Ids, Reported("error", q)'
                 PROVE  q <= begun' /\ active' # q /\ ~Reported("done", q)'
      BY DEF FailedInv
    <3>1. q \in Nat \ {0}
      BY AnswerBounds DEF Ids
    <3>2. /\ Reported("error", q) \/ (e.kind = "error" /\ e.question = q)
          /\ Reported("done", q)' =>
               Reported("done", q) \/ (e.kind = "done" /\ e.question = q)
      BY <1>1, <2>2, ReportedGrows
    <3>3. Reported("error", q) => /\ q <= begun /\ active # q
                                 /\ ~Reported("done", q)
      BY DEF FailedInv
    <3>4. active = q => ~Reported("done", q)
      BY StandingCases
    <3>5. CASE Reported("error", q)
      <4>1. q <= begun' /\ active' # q
        BY <1>1, <2>2, <3>1, <3>3, <3>5
      <4>2. ~(e.kind = "done" /\ e.question = q)
        BY <2>2, <3>3, <3>5
      <4> QED BY <3>2, <3>3, <3>5, <4>1, <4>2
    <3>6. CASE ~Reported("error", q)
      <4>1. e.kind = "error" /\ e.question = q
        BY <3>2, <3>6
      <4>2. begun' = begun /\ active = q /\ active' = 0
        BY <2>2, <4>1
      <4> QED BY <1>2, <3>1, <3>2, <3>4, <4>1, <4>2
    <3> QED BY <3>5, <3>6
  <2> QED BY <1>4, <2>1, <2>2, LogStep
<1> QED BY <1>3, <1>4 DEF vars, coordinatorVars, history

(* A question that is asked: the one before is dropped, if it was being    *)
(* answered.                                                               *)
LEMMA AskRefines ==
  ASSUME DeliveryInv, FailedInv, NEW e \in Entries, log' = Append(log, e),
         UNCHANGED <<read, delivered>>,
         begun + 1 \in Ids, begun' = begun + 1, e.kind \in {"begin", "cancel"},
         active' = IF e.kind = "begin" THEN begun + 1 ELSE 0
  PROVE  Stream!Ask
<1> DEFINE start == IF e.kind = "begin" THEN "answering" ELSE "dropped"
           dropped == [q \in Ids |-> IF Standing[q] = "answering"
                                     THEN "dropped" ELSE Standing[q]]
<1>1. begun \in Nat /\ log \in Seq(Entries) /\ active <= begun
  BY BegunType DEF DeliveryInv, AnswerInv, TypeOK, FlagInv
<1>2. ASSUME NEW q \in Ids
      PROVE  /\ Reported("done", q)' <=> Reported("done", q)
             /\ Reported("error", q)' <=> Reported("error", q)
  BY <1>1, ReportedGrows
<1>3. ASSUME NEW q \in Ids
      PROVE  StandingOf(q)' = IF q = begun + 1 THEN start
                              ELSE IF StandingOf(q) = "answering" THEN "dropped"
                              ELSE StandingOf(q)
  <2>1. q \in Nat \ {0}
    BY AnswerBounds DEF Ids
  <2>2. CASE q = begun + 1
    <3>1. ~Reported("done", q)' /\ ~Reported("error", q)' /\ ~(q > begun')
      BY <1>1, <1>2, <2>1, <2>2, StandingCases
    <3> QED BY <2>1, <2>2, <3>1 DEF StandingOf
  <2>3. CASE q # begun + 1 /\ active = q
    <3>1. /\ ~Reported("done", q)' /\ ~Reported("error", q)'
          /\ ~(q > begun') /\ active' # q
      BY <1>1, <1>2, <2>1, <2>3, StandingCases
    <3>2. StandingOf(q)' = "dropped"
      BY <3>1 DEF StandingOf
    <3> QED BY <2>3, <3>2, StandingCases
  <2>4. CASE q # begun + 1 /\ active # q
    <3>1. active' # q /\ (q > begun <=> q > begun')
      BY <1>1, <2>1, <2>4
    <3>2. StandingOf(q)' = StandingOf(q)
      BY <1>2, <2>4, <3>1, StandingStays
    <3> QED BY <2>4, <3>2, StandingCases
  <2> QED BY <2>2, <2>3, <2>4
<1>4. Standing' = [dropped EXCEPT ![begun + 1] = start]
  BY <1>3 DEF Standing
<1>5. start \in {"answering", "dropped"}
  OBVIOUS
<1> HIDE DEF start
<1>6. \E s \in {"answering", "dropped"} :
        Standing' = [dropped EXCEPT ![begun + 1] = s]
  BY <1>4, <1>5
<1> QED BY <1>6 DEF Stream!Ask, Stream!AllDropped, Standing

(* An answer that ends: done when all was told, failed or dropped.         *)
LEMMA EndRefines ==
  ASSUME DeliveryInv, DeliveryInv', FailedInv,
         NEW e \in Entries, log' = Append(log, e),
         UNCHANGED <<read, delivered, begun>>, active \in Ids, active' = 0,
         e.kind \in {"cancel", "error", "done"}, e.question = active
  PROVE  Stream!Next
<1> DEFINE standing == IF e.kind = "done" THEN "done"
                       ELSE IF e.kind = "error" THEN "failed" ELSE "dropped"
<1>1. log \in Seq(Entries)
  BY DEF DeliveryInv, AnswerInv, TypeOK
<1>2. ASSUME NEW q \in Ids
      PROVE  StandingOf(q)' = IF q = active THEN standing ELSE StandingOf(q)
  <2>1. q # 0
    BY AnswerBounds DEF Ids
  <2>2. CASE q = active
    <3>1. ~(q > begun') /\ active' # q
      BY <2>1, <2>2, BegunType, StandingCases DEF Ids
    <3>2. /\ Reported("done", q)' <=> e.kind = "done"
          /\ Reported("error", q)' <=> e.kind = "error"
      BY <1>1, <2>2, ReportedGrows, StandingCases
    <3> QED BY <2>2, <3>1, <3>2 DEF StandingOf
  <2>3. CASE q # active
    <3>1. /\ Reported("done", q)' <=> Reported("done", q)
          /\ Reported("error", q)' <=> Reported("error", q)
      BY <1>1, <2>3, ReportedGrows
    <3>2. StandingOf(q)' = StandingOf(q)
      BY <2>1, <2>3, <3>1, StandingStays
    <3> QED BY <2>3, <3>2
  <2> QED BY <2>2, <2>3
<1>3. Standing' = [Standing EXCEPT ![active] = standing]
  BY <1>2 DEF Standing
<1>4. Standing[active] = "answering"
  BY StandingCases DEF Standing
<1>5. CASE e.kind = "done"
  <2>1. PICK q \in Ids : q = active
    OBVIOUS
  <2>2. Len(delivered[active]) = read[active]
    <3>1. Reported("done", q)'
      BY <1>1, <1>5, <2>1, ReportedGrows
    <3>2. ReportedDone(q)'
      BY <3>1 DEF Reported, ReportedDone
    <3>3. Len(delivered'[q]) = read'[q]
      BY <3>2 DEF DeliveryInv, Fits, Finished
    <3> QED BY <2>1, <3>3
  <2>3. Stream!Finish(active)
    BY <1>3, <1>4, <1>5, <2>2 DEF Stream!Finish, Standing
  <2> QED BY <2>3 DEF Stream!Next
<1>6. CASE e.kind = "error"
  <2>1. Stream!Fail(active)
    BY <1>3, <1>4, <1>6 DEF Stream!Fail, Standing
  <2> QED BY <2>1 DEF Stream!Next
<1>7. CASE e.kind = "cancel"
  <2>1. ASSUME NEW q \in Ids
        PROVE  Standing[q] = "answering" <=> q = active
    BY StandingCases DEF Standing
  <2>2. Standing' = [q \in Ids |-> IF Standing[q] = "answering"
                                   THEN "dropped" ELSE Standing[q]]
    BY <1>3, <1>7, <2>1 DEF Standing
  <2>3. Stream!Drop
    BY <2>2 DEF Stream!Drop, Stream!AllDropped, Standing
  <2> QED BY <2>3 DEF Stream!Next
<1> QED BY <1>5, <1>6, <1>7

(* A piece that is told: it is the next one, and the provider has said it. *)
LEMMA TellRefines ==
  ASSUME DeliveryInv, DeliveryInv', FailedInv,
         NEW e \in Entries, log' = Append(log, e),
         UNCHANGED <<read, active, begun>>, active \in Ids,
         e.kind = "delta", e.question = active,
         delivered' = [delivered EXCEPT ![active] = Append(@, e.n)]
  PROVE  Stream!Tell(active)
<1>1. /\ log \in Seq(Entries) /\ delivered \in [Ids -> Seq(1..MaxDeltas)]
      /\ delivered' \in [Ids -> Seq(1..MaxDeltas)]
      /\ channel' \in [Ids -> Seq(Events)] /\ read[active] \in Nat
  BY AnswerBounds DEF DeliveryInv, AnswerInv, TypeOK
<1>2. PICK n \in Nat : n = Len(delivered[active])
  BY <1>1
<1>3. Len(delivered'[active]) = n + 1 /\ delivered'[active][n + 1] = e.n
  BY <1>1, <1>2
<1>4. e.n = n + 1
  <2>1. InOrder(active)'
    BY DEF DeliveryInv, Fits
  <2>2. n + 1 \in 1..Len(delivered'[active])
    BY <1>2, <1>3
  <2> QED BY <1>3, <2>1, <2>2 DEF InOrder
<1>5. n < read[active]
  <2>1. /\ Streaming(active)' /\ NeverClosed'
    BY DEF DeliveryInv, AnswerInv, Fits
  <2>2. PICK c \in Nat : c = Len(channel'[active])
    BY <1>1
  <2>3. Sent(active)' = (n + 1) + c
    BY <1>3, <2>2 DEF Sent
  <2>4. worker'[active] = "returned" => c # 0
    <3>1. worker'[active] = "returned" => channel'[active] # << >>
      BY <2>1 DEF NeverClosed
    <3> QED BY <1>1, <2>2, <3>1, EmptySeq
  <2>5. worker'[active] \in {"connecting", "top", "reading", "checking",
                             "sending", "returned"}
    BY <2>1 DEF DeliveryInv, AnswerInv, TypeOK, Streaming
  <2>6. \/ read[active] = (n + 1) + c
        \/ read[active] = (n + 1) + c + 1
        \/ read[active] + 1 = (n + 1) + c /\ c # 0
    BY <2>1, <2>3, <2>4, <2>5 DEF Streaming, WorkerSends
  <2> QED BY <1>1, <2>6
<1>6. ASSUME NEW q \in Ids
      PROVE  StandingOf(q)' = StandingOf(q)
  BY <1>1, ReportedGrows, StandingStays
<1>7. Standing' = Standing /\ Standing[active] = "answering"
  BY <1>6, StandingCases DEF Standing
<1> QED BY <1>2, <1>4, <1>5, <1>7 DEF Stream!Tell, Standing

LEMMA StreamStep ==
  ASSUME DeliveryInv, DeliveryInv', FailedInv, [Next]_(vars)
  PROVE  [Stream!Next]_(Stream!vars)
<1>1. log \in Seq(Entries)
  BY DEF DeliveryInv, AnswerInv, TypeOK
<1>2. ASSUME UNCHANGED <<active, begun, log>>
      PROVE  Standing' = Standing
  BY <1>2 DEF Standing, StandingOf, Reported
<1>3. CASE UNCHANGED <<active, begun, log, delivered, read>>
  BY <1>2, <1>3 DEF Stream!vars, Standing
<1>4. ASSUME NEW q \in Ids, worker[q] = "reading",
             UNCHANGED <<active, begun, log, delivered>>,
             read' = [read EXCEPT ![q] = @ + 1]
      PROVE  Stream!Say(q)
  <2>1. ~(q > begun) /\ ~Reported("done", q)
    BY <1>4 DEF DeliveryInv, Fits, Untouched, Finished, ReportedDone, Reported
  <2>2. Standing[q] \notin {"unasked", "done"}
    BY <2>1, StandingCases DEF Standing
  <2> QED BY <1>2, <1>4, <2>2 DEF Stream!Say, Standing
<1>5. ASSUME NEW e \in Entries, log' = Append(log, e), e.kind = "closed",
             UNCHANGED <<active, begun, delivered, read>>
      PROVE  UNCHANGED Stream!vars
  <2>1. ASSUME NEW q \in Ids
        PROVE  StandingOf(q)' = StandingOf(q)
    BY <1>1, <1>5, ReportedGrows, StandingStays
  <2> QED BY <1>5, <2>1 DEF Stream!vars
<1>6. ASSUME Next
      PROVE  [Stream!Next]_(Stream!vars)
  <2>1. CASE /\ UNCHANGED <<active, begun, log, delivered>>
             /\ \/ UNCHANGED read
                \/ \E q \in Ids : /\ worker[q] = "reading"
                                  /\ read' = [read EXCEPT ![q] = @ + 1]
    BY <1>3, <1>4, <2>1 DEF Stream!Next
  <2>2. CASE \E e \in Entries :
              /\ log' = Append(log, e)
              /\ UNCHANGED read
              /\ \/ /\ begun + 1 \in Ids /\ begun' = begun + 1
                    /\ e.kind \in {"begin", "cancel"} /\ UNCHANGED delivered
                    /\ active' = IF e.kind = "begin" THEN begun + 1 ELSE 0
                 \/ /\ begun' = begun /\ active \in Ids /\ active' = 0
                    /\ e.kind \in {"cancel", "error", "done"}
                    /\ e.question = active /\ UNCHANGED delivered
                 \/ /\ begun' = begun /\ active \in Ids /\ active' = active
                    /\ e.kind = "delta" /\ e.question = active
                    /\ delivered' = [delivered EXCEPT ![active] = Append(@, e.n)]
                 \/ /\ UNCHANGED <<active, begun, delivered>>
                    /\ e.kind = "closed"
    <3>1. PICK e \in Entries :
              /\ log' = Append(log, e)
              /\ UNCHANGED read
              /\ \/ /\ begun + 1 \in Ids /\ begun' = begun + 1
                    /\ e.kind \in {"begin", "cancel"} /\ UNCHANGED delivered
                    /\ active' = IF e.kind = "begin" THEN begun + 1 ELSE 0
                 \/ /\ begun' = begun /\ active \in Ids /\ active' = 0
                    /\ e.kind \in {"cancel", "error", "done"}
                    /\ e.question = active /\ UNCHANGED delivered
                 \/ /\ begun' = begun /\ active \in Ids /\ active' = active
                    /\ e.kind = "delta" /\ e.question = active
                    /\ delivered' = [delivered EXCEPT ![active] = Append(@, e.n)]
                 \/ /\ UNCHANGED <<active, begun, delivered>>
                    /\ e.kind = "closed"
      BY <2>2
    <3> QED BY <1>5, <3>1, AskRefines, EndRefines, TellRefines DEF Stream!Next
  <2> QED BY <1>6, <2>1, <2>2, LogStep
<1> QED BY <1>3, <1>6 DEF vars, coordinatorVars, workerVars, history

LEMMA StreamInit ==
  ASSUME Init
  PROVE  FailedInv /\ Stream!Init
<1>1. /\ log = << >> /\ active = 0 /\ begun = 0
      /\ read = [q \in Ids |-> 0] /\ delivered = [q \in Ids |-> << >>]
  BY DEF Init
<1>2. ASSUME NEW q \in Ids, NEW kind
      PROVE  ~Reported(kind, q)
  BY <1>1 DEF Reported
<1>3. FailedInv
  BY <1>2 DEF FailedInv
<1>4. ASSUME NEW q \in Ids
      PROVE  StandingOf(q) = "unasked"
  <2>1. q > 0 /\ active # q
    BY <1>1, AnswerBounds DEF Ids
  <2> QED BY <1>1, <1>2, <2>1 DEF StandingOf
<1>5. Stream!Init
  BY <1>1, <1>4 DEF Stream!Init
<1> QED BY <1>3, <1>5

(* Whatever the provider threads send, late or not, and whenever an answer *)
(* is superseded, dismissed or overdue: the pipeline sees one answer after *)
(* the other, each told in order, and done only when told in full.         *)
THEOREM AnswersAreAStream == Spec => ImplementsStream
<1>1. Init => DeliveryInv /\ FailedInv /\ Stream!Init
  BY DeliveryInvInit, StreamInit
<1>2. DeliveryInv /\ FailedInv /\ [Next]_(vars) => DeliveryInv' /\ FailedInv'
  BY DeliveryInvStep, FailedStays
<1>3. /\ DeliveryInv /\ DeliveryInv' /\ FailedInv /\ [Next]_(vars)
      => [Stream!Next]_(Stream!vars)
  BY StreamStep
<1> QED BY <1>1, <1>2, <1>3, PTL DEF Spec, ImplementsStream, Stream!Spec

----------------------------------------------------------------------------
(* What one step of the coordinator does to the answer the overlay shows.  *)

\* Begin starts from nothing delivered and takes the next number.
LEMMA BeginEffect ==
  ASSUME DeliveryInv,
         Begin(begun + 1)
  PROVE  /\ begun + 1 \in Ids
         /\ active' = begun + 1 /\ begun' = begun + 1
         /\ delivered' = delivered
         /\ delivered[begun + 1] = << >>
<1>1. begun + 1 \in Ids /\ active' = begun + 1 /\ begun' = begun + 1
      /\ delivered' = delivered
  BY DEF Begin, Record
<1>2. begun \in Nat /\ begun + 1 \in Ids
  BY <1>1, AnswerBounds
     DEF Ids, DeliveryInv, AnswerInv, TypeOK
<1>3. Untouched(begun + 1)
  BY <1>2 DEF DeliveryInv, Fits
<1> QED BY <1>1, <1>3 DEF Untouched

LEMMA BeginFailsEffect ==
  ASSUME BeginFails(begun + 1)
  PROVE  active' = 0 /\ begun' = begun + 1 /\ delivered' = delivered
BY DEF BeginFails, Record

LEMMA CancelEffect ==
  ASSUME Cancel
  PROVE  active' = 0 /\ begun' = begun /\ delivered' = delivered
BY DEF Cancel, Record, history

\* A poll extends the active answer, ends it, or returns no update.
LEMMA PollEffect ==
  ASSUME DeliveryInv, Poll
  PROVE  /\ begun' = begun /\ active # 0
         /\ \/ /\ Updated /\ Update.kind = "delta" /\ Update.question = active
               /\ Update.n \in Nat /\ active' = active
               /\ delivered' =
                    [delivered EXCEPT ![active] = Append(@, Update.n)]
            \/ /\ Updated /\ Update.kind \in {"done", "error"}
               /\ Update.question = active /\ active' = 0
               /\ delivered' = delivered
            \/ /\ ~Updated /\ active' = active /\ delivered' = delivered
<1>1. /\ log \in Seq(Entries)
      /\ channel \in [Ids -> Seq(Events)]
      /\ active \in {0} \union Ids
  BY DEF DeliveryInv, AnswerInv, TypeOK
<1>2. ASSUME NEW e, log' = Append(log, e)
      PROVE  log' # log /\ Last(log') = e
  <2>1. Len(log') = Len(log) + 1 /\ Len(log) \in Nat /\ log'[Len(log')] = e
    BY <1>1, <1>2
  <2> QED BY <2>1 DEF Last
<1>3. CASE PollTimesOut
  <2>1. /\ active # 0 /\ active' = 0 /\ begun' = begun /\ delivered' = delivered
        /\ log' = Append(log, [kind |-> "error", question |-> active, n |-> 0])
    BY <1>3 DEF PollTimesOut, Record
  <2> QED BY <1>2, <2>1 DEF Updated, Update
<1>4. CASE PollSession
  <2>1. active # 0 /\ begun' = begun
    BY <1>4 DEF PollSession
  <2>2. CASE channel[active] = << >>
    <3>1. /\ active' = active /\ delivered' = delivered
          /\ log' = Append(log,
                      [kind |-> "closed", question |-> active, n |-> 0])
      BY <1>4, <2>2 DEF PollSession, Record
    <3> QED BY <1>2, <2>1, <3>1 DEF Updated, Update
  <2>3. CASE channel[active] # << >>
    <3>1. PICK e : /\ e = Head(channel[active])
                   /\ Return(e)
                   /\ active' = IF IsTerminal(e) THEN 0 ELSE active
      BY <1>4, <2>3 DEF PollSession
    <3>2. e \in Events
      BY <1>1, <2>1, <2>3, <3>1
    <3>3. \/ e.kind \in {"done", "error"}
          \/ e.kind = "delta" /\ e.n \in 1..MaxDeltas
      BY <3>2, EventFacts DEF IsTerminal
    <3>4. log' = Append(log, [kind |-> e.kind, question |-> active, n |-> e.n])
      BY <3>1 DEF Return
    <3>5. log' # log /\ Update = [kind |-> e.kind, question |-> active, n |-> e.n]
      BY <1>2, <3>4 DEF Update
    <3>6. Update.kind = e.kind /\ Update.question = active /\ Update.n = e.n
      BY <3>5
    <3>7. Updated
      BY <3>3, <3>5, <3>6 DEF Updated
    <3>8. CASE e.kind = "delta"
      <4>1. delivered' = [delivered EXCEPT ![active] = Append(@, e.n)]
        BY <3>1, <3>8 DEF Return
      <4>2. active' = active
        BY <3>1, <3>8 DEF IsTerminal
      <4>3. e.n \in Nat
        BY <3>3, <3>8
      <4> QED BY <2>1, <3>6, <3>7, <3>8, <4>1, <4>2, <4>3
    <3>9. CASE e.kind # "delta"
      <4>1. delivered' = delivered
        BY <3>1, <3>9 DEF Return
      <4>2. active' = 0
        BY <3>1, <3>3, <3>9 DEF IsTerminal
      <4> QED BY <2>1, <3>3, <3>6, <3>7, <3>9, <4>1, <4>2
    <3> QED BY <3>8, <3>9
  <2> QED BY <2>2, <2>3
<1> QED BY <1>3, <1>4 DEF Poll

\* No worker and no clock touches what the overlay shows.
LEMMA ConcurrentlyEffect ==
  ASSUME Concurrently
  PROVE  active' = active /\ begun' = begun /\ delivered' = delivered
BY DEF Concurrently, Elapse, Worker, Connect, LoopTop, ReadLine, CheckFlag,
     Send, coordinatorVars, history

----------------------------------------------------------------------------
(* The components in step. *)

(* The detector has seen every segment the store numbered, and the next    *)
(* question is the next answer: the guards under which the components were *)
(* proved right.                                                           *)
InStep ==
  /\ nextSegmentId \in Nat \ {0}
  /\ processed = nextSegmentId - 1
  /\ nextQuestionId = begun + 1
  /\ DeliveryInv

\* A question is detected where the detector takes an id, and only there.
LEMMA DetectedTakesOneId ==
  ASSUME nextQuestionId \in Nat, NEW id, NEW f,
         Detector!ProcessFinalized(id, f)
  PROVE  /\ processed' = id
         /\ nextQuestionId' = IF Detected THEN nextQuestionId + 1
                                          ELSE nextQuestionId
BY DEF Detector!ProcessFinalized, Detector!Hold, Detector!Trigger,
     Detector!Drop, Detector!Emit, Detected

LEMMA IngestEffect ==
  ASSUME InStep, NEW pid \in ProviderIds, NEW text \in Fragments,
         Ingest(pid, text)
  PROVE  /\ Store!Next /\ Detector!Next
         /\ nextSegmentId' = nextSegmentId + 1 /\ processed' = nextSegmentId
         /\ nextQuestionId' = IF Detected THEN begun + 2 ELSE begun + 1
<1>1. Store!Accept(pid, text) /\ Detector!ProcessFinalized(nextSegmentId, text)
  BY DEF Ingest
<1>2. nextSegmentId' = nextSegmentId + 1 /\ nextSegmentId <= SegmentCap
  BY <1>1 DEF Store!Accept
<1>3. SegmentCap \in Nat
  BY EngineConfig DEF Store!ModelBounds
<1>4. processed + 1 = nextSegmentId /\ processed < SegmentCap
  BY <1>2, <1>3 DEF InStep
<1>5. Store!Next
  BY <1>1 DEF Store!Next, Store!IngestFinal
<1>6. Detector!Next
  BY <1>1, <1>4 DEF Detector!Next
<1>7. begun \in Nat /\ nextQuestionId \in Nat
  BY BegunType DEF InStep
<1>8. /\ processed' = nextSegmentId
      /\ nextQuestionId' = IF Detected THEN nextQuestionId + 1
                                       ELSE nextQuestionId
  BY <1>1, <1>7, DetectedTakesOneId
<1>9. nextQuestionId + 1 = begun + 2
  BY <1>7 DEF InStep
<1> QED BY <1>2, <1>5, <1>6, <1>8, <1>9 DEF InStep

LEMMA InStepInit ==
  ASSUME EngineInit
  PROVE  InStep
<1>1. Init
  BY DEF EngineInit
<1>2. DeliveryInv
  BY <1>1, DeliveryInvInit
<1>3. processed = 0 /\ nextQuestionId = 1 /\ begun = 0 /\ nextSegmentId = 1
  BY DEF EngineInit, Detector!Init, Init
<1> QED BY <1>2, <1>3 DEF InStep

(* Every step of the engine is a step of each component or leaves it       *)
(* alone, and keeps them in step with each other.                          *)
LEMMA ComponentsStep ==
  ASSUME InStep, [EngineNext]_runtimeVars
  PROVE  /\ [Store!Next]_storeVars
         /\ [Detector!Next]_detectorVars
         /\ [Next]_answerVars
         /\ InStep'
<1>1. ASSUME [Next]_answerVars
      PROVE  DeliveryInv'
  <2>1. [Next]_(vars)
    BY <1>1 DEF answerVars, vars, coordinatorVars, workerVars, history
  <2> QED BY <2>1, DeliveryInvStep DEF InStep
<1>2. begun \in Nat /\ nextSegmentId \in Nat \ {0} /\ nextQuestionId = begun + 1
      /\ processed = nextSegmentId - 1
  BY BegunType DEF InStep
<1>3. ASSUME UNCHANGED storeVars, UNCHANGED detectorVars,
             [Next]_answerVars, begun' = begun
      PROVE  InStep'
  BY <1>1, <1>2, <1>3 DEF InStep, storeVars, detectorVars
<1>4. ASSUME NEW pid \in ProviderIds, NEW text \in Fragments, Final(pid, text)
      PROVE  /\ [Store!Next]_storeVars
             /\ [Detector!Next]_detectorVars
             /\ [Next]_answerVars
             /\ InStep'
  <2>1. CASE DuplicateFinal(pid, text) \/ OversizedFinal(pid, text)
    <3>1. UNCHANGED storeVars /\ UNCHANGED detectorVars /\ UNCHANGED answerVars
      BY <2>1 DEF DuplicateFinal, OversizedFinal
    <3>2. begun' = begun
      BY <3>1 DEF answerVars
    <3> QED BY <1>3, <3>1, <3>2
  <2>2. ASSUME Ingest(pid, text), [Next]_answerVars,
               begun' = IF Detected THEN begun + 1 ELSE begun
        PROVE  /\ [Store!Next]_storeVars
               /\ [Detector!Next]_detectorVars
               /\ [Next]_answerVars
               /\ InStep'
    <3>1. /\ Store!Next /\ Detector!Next
          /\ nextSegmentId' = nextSegmentId + 1 /\ processed' = nextSegmentId
          /\ nextQuestionId' = IF Detected THEN begun + 2 ELSE begun + 1
      BY <2>2, IngestEffect
    <3>2. nextQuestionId' = begun' + 1
      BY <1>2, <2>2, <3>1
    <3>3. nextSegmentId' \in Nat \ {0} /\ processed' = nextSegmentId' - 1
      BY <1>2, <3>1
    <3>4. DeliveryInv'
      BY <1>1, <2>2
    <3> QED BY <2>2, <3>1, <3>2, <3>3, <3>4 DEF InStep
  <2>3. CASE NoQuestionFinal(pid, text)
    <3>1. UNCHANGED answerVars /\ Ingest(pid, text) /\ ~Detected
      BY <2>3 DEF NoQuestionFinal
    <3>2. begun' = begun
      BY <3>1 DEF answerVars
    <3> QED BY <2>2, <3>1, <3>2
  <2>4. CASE QuestionFinal(pid, text)
    <3>1. Begin(begun + 1) /\ Ingest(pid, text) /\ Detected
      BY <1>2, <2>4 DEF QuestionFinal
    <3>2. Next
      BY <3>1 DEF Next
    <3>3. begun' = begun + 1
      BY <3>1 DEF Begin
    <3> QED BY <2>2, <3>1, <3>2, <3>3
  <2>5. CASE UnansweredFinal(pid, text)
    <3>1. BeginFails(begun + 1) /\ Ingest(pid, text) /\ Detected
      BY <1>2, <2>5 DEF UnansweredFinal
    <3>2. Next
      BY <3>1 DEF Next
    <3>3. begun' = begun + 1
      BY <3>1 DEF BeginFails
    <3> QED BY <2>2, <3>1, <3>2, <3>3
  <2> QED BY <1>4, <2>1, <2>3, <2>4, <2>5 DEF Final
<1>5. CASE (\E state \in HealthStates : Health(state)) \/ ProviderError
           \/ UNCHANGED runtimeVars
  <2>1. UNCHANGED storeVars /\ UNCHANGED detectorVars /\ UNCHANGED answerVars
    BY <1>5 DEF Health, ProviderError, runtimeVars
  <2>2. begun' = begun
    BY <2>1 DEF answerVars
  <2> QED BY <1>3, <2>1, <2>2
<1>6. CASE PollAnswer
  <2>1. UNCHANGED storeVars /\ UNCHANGED detectorVars /\ Poll
    BY <1>6 DEF PollAnswer
  <2>2. begun' = begun
    BY <2>1, PollEffect DEF InStep
  <2>3. Next
    BY <2>1 DEF Next
  <2> QED BY <1>3, <2>1, <2>2, <2>3
<1>7. CASE Dismiss
  <2>1. UNCHANGED storeVars /\ UNCHANGED detectorVars /\ Cancel
    BY <1>7 DEF Dismiss
  <2>2. begun' = begun /\ Next
    BY <2>1, CancelEffect DEF Next
  <2> QED BY <1>3, <2>1, <2>2
<1>8. CASE Shutdown
  <2>1. Store!StopSession /\ UNCHANGED detectorVars /\ Cancel
    BY <1>8 DEF Shutdown
  <2>2. begun' = begun /\ Next /\ Store!Next
    BY <2>1, CancelEffect DEF Next, Store!Next
  <2>3. nextSegmentId' = nextSegmentId
    BY <2>1 DEF Store!StopSession
  <2>4. InStep'
    BY <1>1, <1>2, <2>1, <2>2, <2>3 DEF InStep, detectorVars
  <2> QED BY <2>1, <2>2, <2>4
<1>9. CASE Concurrently
  <2>1. UNCHANGED storeVars /\ Next
    BY <1>9 DEF Concurrently, Next
  <2>2. begun' = begun
    BY <1>9, ConcurrentlyEffect
  <2>3. UNCHANGED detectorVars
    BY <1>9 DEF Concurrently, engineVars
  <2> QED BY <1>3, <2>1, <2>2, <2>3
<1> QED BY <1>4, <1>5, <1>6, <1>7, <1>8, <1>9 DEF EngineNext

LEMMA StaysInStep == EngineSpec => []InStep
BY InStepInit, ComponentsStep, PTL DEF EngineSpec

(* The engine uses its components as they are meant to be used, whatever   *)
(* the transcription and the answer provider do: the detector sees every   *)
(* accepted segment once and in id order, answers are begun with fresh     *)
(* question ids in order, and nothing else touches their state.            *)
THEOREM ComponentsAreUsed == EngineSpec => UsesComponents
BY StaysInStep, ComponentsStep, PTL DEF EngineSpec, UsesComponents

(* So what was proved of a component alone holds in the engine.  The       *)
(* coordinator: no update of an answer that was superseded, cancelled or   *)
(* ended, and no answer reported as done with a piece missing.             *)
THEOREM EngineAnswersAreWhole ==
  EngineSpec => [](NoStaleUpdate /\ DoneMeansComplete)
<1>1. InStep => NoStaleUpdate /\ DoneMeansComplete
  BY DEF InStep, DeliveryInv, AnswerInv, Fits, InOrder, Finished, ReportedDone,
       DoneMeansComplete
<1> QED BY <1>1, StaysInStep, PTL

(* The engine's answers are the stream of AnswerStream, too.               *)
THEOREM EngineAnswersAreAStream == EngineSpec => ImplementsStream
<1>1. EngineInit => FailedInv /\ Stream!Init
  BY StreamInit DEF EngineInit
<1>2. InStep /\ FailedInv /\ [EngineNext]_runtimeVars
        => FailedInv' /\ [Stream!Next]_(Stream!vars)
  <2> SUFFICES ASSUME InStep, FailedInv, [EngineNext]_runtimeVars
               PROVE  FailedInv' /\ [Stream!Next]_(Stream!vars)
    OBVIOUS
  <2>1. [Next]_answerVars /\ InStep'
    BY ComponentsStep
  <2>2. [Next]_(vars)
    BY <2>1 DEF answerVars, vars, coordinatorVars, workerVars, history
  <2>3. DeliveryInv /\ DeliveryInv'
    BY <2>1 DEF InStep
  <2> QED BY <2>2, <2>3, FailedStays, StreamStep
<1> QED BY <1>1, <1>2, StaysInStep, PTL
        DEF EngineSpec, ImplementsStream, Stream!Spec

(* The detector: no wording is asked twice within its memory, and every    *)
(* question is attributed to consecutive segments of its own.              *)
THEOREM EngineAsksOnce ==
  EngineSpec => [](Detector!NoRepeatWithinMemory /\ Detector!SourcesAreConsecutive)
<1>1. EngineInit => DetectorProofs!Init
  BY SameDetector DEF EngineInit
<1>2. [Detector!Next]_detectorVars => [DetectorProofs!Next]_(DetectorProofs!vars)
  BY SameDetector
<1>3. EngineSpec => DetectorProofs!Spec
  BY <1>1, <1>2, StaysInStep, ComponentsStep, PTL
     DEF EngineSpec, DetectorProofs!Spec
<1>4. DetectorProofs!Spec => [](/\ DetectorProofs!NoRepeatWithinMemory
                                /\ DetectorProofs!SourcesAreConsecutive)
  BY DetectorProofs!NoRepeats, DetectorProofs!AttributionIsExact,
       ComponentConfig, PTL
<1>5. /\ DetectorProofs!NoRepeatWithinMemory => Detector!NoRepeatWithinMemory
      /\ DetectorProofs!SourcesAreConsecutive => Detector!SourcesAreConsecutive
  BY DEF Detector!NoRepeatWithinMemory, Detector!SourcesAreConsecutive,
       Detector!Normalize, Detector!FlattenSeq, Detector!Range,
       DetectorProofs!NoRepeatWithinMemory,
       DetectorProofs!SourcesAreConsecutive, DetectorProofs!Normalize,
       DetectorProofs!FlattenSeq, DetectorProofs!Range
<1> QED BY <1>3, <1>4, <1>5, PTL

(* The store: its memory bounds hold and its ids stay positions.           *)
THEOREM EngineKeepsStore ==
  EngineSpec => [](Store!BoundsHold /\ Store!IdsAreContiguous)
<1>1. EngineInit => StoreProofs!IInv
  <2>1. EngineInit => StoreProofs!EmptyStore
    BY DEF EngineInit, StoreProofs!EmptyStore
  <2> QED BY <2>1, StoreProofs!EmptyStoreFits, ComponentConfig
<1>2. [Store!Next]_storeVars => [StoreProofs!Next]_(StoreProofs!vars)
  BY SameStore
<1>3. StoreProofs!IInv /\ [StoreProofs!Next]_(StoreProofs!vars)
        => StoreProofs!IInv'
  BY StoreProofs!NextPreserves, ComponentConfig
<1>4. StoreProofs!IInv => Store!BoundsHold /\ Store!IdsAreContiguous
  BY DEF StoreProofs!IInv, StoreProofs!BoundsHold, StoreProofs!TextBytes,
       StoreProofs!PrefixBytes, StoreProofs!IdsAreContiguous, Store!BoundsHold,
       Store!TextBytes, Store!PrefixBytes, Store!IdsAreContiguous
<1> QED BY <1>1, <1>2, <1>3, <1>4, StaysInStep, ComponentsStep, PTL DEF EngineSpec

----------------------------------------------------------------------------
(* What is on screen. *)

\* An answer as the overlay keeps it: cut at its bound.
Cut(deltas) ==
  IF Len(deltas) <= MaxAnswer THEN deltas ELSE SubSeq(deltas, 1, MaxAnswer)

ScreenInv ==
  /\ shown \in Overlay!Snapshots
  /\ shown.question <= begun
  /\ AnswerFitsQuestion
  /\ ActiveIsShown
  /\ NoSilentStop

LEMMA DeltasAreNumbers ==
  ASSUME NEW d \in Seq(1..MaxDeltas)
  PROVE  d \in Seq(Nat)
<1>1. Len(d) \in Nat /\ d \in [1..Len(d) -> 1..MaxDeltas]
  BY LenProperties
<1>2. \A x \in 1..MaxDeltas : x \in Nat
  BY EngineConfig DEF CoordinatorBounds
<1>3. d \in [1..Len(d) -> Nat]
  BY <1>1, <1>2
<1> QED BY <1>1, <1>3

\* Cutting goes on where ApplyDelta does, and stops where it does.
LEMMA CutGrows ==
  ASSUME NEW s \in Seq(Nat), NEW n \in Nat
  PROVE  /\ Cut(s) \in Seq(Nat)
         /\ Cut(Append(s, n)) = IF Len(Cut(s)) < MaxAnswer
                                THEN Append(Cut(s), n) ELSE Cut(s)
<1>1. MaxAnswer \in Nat \ {0}
  BY EngineConfig DEF Overlay!AnswerBound
<1>2. PICK m \in Nat : m = Len(s)
  OBVIOUS
<1>3. /\ Append(s, n) \in Seq(Nat) /\ Len(Append(s, n)) = m + 1
      /\ \A i \in 1..m : Append(s, n)[i] = s[i]
  BY <1>2
<1>4. CASE m < MaxAnswer
  <2>1. Cut(s) = s /\ Cut(Append(s, n)) = Append(s, n)
    BY <1>1, <1>2, <1>3, <1>4 DEF Cut
  <2> QED BY <1>2, <1>4, <2>1
<1>5. CASE m >= MaxAnswer
  <2>1. /\ SubSeq(s, 1, MaxAnswer) \in Seq(Nat)
        /\ Len(SubSeq(s, 1, MaxAnswer)) = MaxAnswer
        /\ \A i \in 1..MaxAnswer : SubSeq(s, 1, MaxAnswer)[i] = s[i]
    BY <1>1, <1>2, <1>5
  <2>2. /\ SubSeq(Append(s, n), 1, MaxAnswer) \in Seq(Nat)
        /\ Len(SubSeq(Append(s, n), 1, MaxAnswer)) = MaxAnswer
        /\ \A i \in 1..MaxAnswer :
             SubSeq(Append(s, n), 1, MaxAnswer)[i] = Append(s, n)[i]
    BY <1>1, <1>3, <1>5
  <2>3. SubSeq(Append(s, n), 1, MaxAnswer) = SubSeq(s, 1, MaxAnswer)
    <3>1. \A i \in 1..MaxAnswer : SubSeq(Append(s, n), 1, MaxAnswer)[i]
                                    = SubSeq(s, 1, MaxAnswer)[i]
      BY <1>1, <1>3, <1>5, <2>1, <2>2
    <3> QED BY <2>1, <2>2, <3>1, SeqEqual
  <2>4. Cut(Append(s, n)) = SubSeq(Append(s, n), 1, MaxAnswer)
    BY <1>1, <1>3, <1>5 DEF Cut
  <2>5. Cut(s) = SubSeq(s, 1, MaxAnswer)
    <3>1. CASE m = MaxAnswer
      <4>1. SubSeq(s, 1, MaxAnswer) = s
        BY <1>2, <2>1, <3>1, SeqEqual
      <4> QED BY <1>2, <3>1, <4>1 DEF Cut
    <3>2. CASE m # MaxAnswer
      BY <1>1, <1>2, <1>5, <3>2 DEF Cut
    <3> QED BY <3>1, <3>2
  <2>6. PICK c \in Seq(Nat) : c = SubSeq(s, 1, MaxAnswer)
    BY <2>1
  <2>7. Cut(s) = c /\ Cut(Append(s, n)) = c /\ Len(c) = MaxAnswer
    BY <2>1, <2>3, <2>4, <2>5, <2>6
  <2> QED BY <1>1, <2>6, <2>7
<1> QED BY <1>1, <1>2, <1>4, <1>5

(* The effect of the published events on a well-formed snapshot. *)
LEMMA ApplyType ==
  ASSUME NEW s \in Overlay!Snapshots, NEW next \in Overlay!TranscriptionStates,
         NEW id \in Nat
  PROVE  /\ Overlay!Apply(s, Overlay!Degraded) \in Overlay!Snapshots
         /\ Overlay!Apply(s, Overlay!Error) \in Overlay!Snapshots
         /\ Overlay!Apply(s, Overlay!Transcription(next)) \in Overlay!Snapshots
         /\ Overlay!Apply(s, Overlay!AnswerDone(id)) \in Overlay!Snapshots
         /\ Overlay!Apply(s, Overlay!Question(id)) \in Overlay!Snapshots
         /\ Overlay!Apply(s, Overlay!Dismissed) \in Overlay!Snapshots
BY EmptySeq
   DEF Overlay!Snapshots, Overlay!Apply, Overlay!Degraded, Overlay!Error,
       Overlay!Transcription, Overlay!AnswerDone, Overlay!ApplyDone,
       Overlay!Question, Overlay!Dismissed, Overlay!NewQuestion

\* A mark on the snapshot changes nothing of question and answer.
SameAnswer(s, t) ==
  /\ t.question = s.question /\ t.answer = s.answer /\ t.complete = s.complete
  /\ s.error => t.error
  /\ s.degraded => t.degraded

LEMMA ApplyMark ==
  ASSUME NEW s \in Overlay!Snapshots, NEW next
  PROVE  /\ SameAnswer(s, Overlay!Apply(s, Overlay!Transcription(next)))
         /\ SameAnswer(s, Overlay!Apply(s, Overlay!Degraded))
         /\ SameAnswer(s, Overlay!Apply(s, Overlay!Error))
         /\ Overlay!Apply(s, Overlay!Degraded).degraded
         /\ Overlay!Apply(s, Overlay!Error).error
<1>1. /\ Overlay!Apply(s, Overlay!Transcription(next))
           = [s EXCEPT !.transcription = next]
      /\ Overlay!Apply(s, Overlay!Degraded) = [s EXCEPT !.degraded = TRUE]
      /\ Overlay!Apply(s, Overlay!Error) = [s EXCEPT !.error = TRUE]
  BY DEF Overlay!Apply, Overlay!Degraded, Overlay!Error, Overlay!Transcription
<1>2. SameAnswer(s, [s EXCEPT !.transcription = next])
  BY DEF SameAnswer, Overlay!Snapshots
<1>3. SameAnswer(s, [s EXCEPT !.degraded = TRUE])
  BY DEF SameAnswer, Overlay!Snapshots
<1>4. SameAnswer(s, [s EXCEPT !.error = TRUE])
  BY DEF SameAnswer, Overlay!Snapshots
<1>5. [s EXCEPT !.degraded = TRUE].degraded /\ [s EXCEPT !.error = TRUE].error
  BY DEF Overlay!Snapshots
<1> QED BY <1>1, <1>2, <1>3, <1>4, <1>5

LEMMA ApplyQuestion ==
  ASSUME NEW s \in Overlay!Snapshots, NEW id
  PROVE  /\ Overlay!Apply(s, Overlay!Question(id)).question = id
         /\ Overlay!Apply(s, Overlay!Question(id)).answer = << >>
         /\ ~Overlay!Apply(s, Overlay!Question(id)).complete
         /\ Overlay!Apply(s, Overlay!Dismissed).question = 0
         /\ Overlay!Apply(s, Overlay!Dismissed).answer = << >>
BY DEF Overlay!Snapshots, Overlay!Apply, Overlay!Question, Overlay!Dismissed,
     Overlay!NewQuestion

LEMMA ApplyToShown ==
  ASSUME NEW s \in Overlay!Snapshots, NEW n \in Nat
  PROVE  /\ Overlay!Apply(s, Overlay!AnswerDelta(s.question, n))
              \in Overlay!Snapshots
         /\ Overlay!Apply(s, Overlay!AnswerDelta(s.question, n)).question
              = s.question
         /\ ~Overlay!Apply(s, Overlay!AnswerDelta(s.question, n)).complete
         /\ Overlay!Apply(s, Overlay!AnswerDelta(s.question, n)).answer
              = IF Len(s.answer) < MaxAnswer THEN Append(s.answer, n)
                                             ELSE s.answer
         /\ Overlay!Apply(s, Overlay!AnswerDone(s.question)).question
              = s.question
         /\ Overlay!Apply(s, Overlay!AnswerDone(s.question)).answer = s.answer
         /\ Overlay!Apply(s, Overlay!AnswerDone(s.question)).complete
<1>1. s.answer \in Seq(Nat) /\ Append(s.answer, n) \in Seq(Nat)
  BY DEF Overlay!Snapshots
<1> QED
  BY <1>1 DEF Overlay!Snapshots, Overlay!Apply, Overlay!AnswerDelta,
       Overlay!AnswerDone, Overlay!ApplyDelta, Overlay!ApplyDone

LEMMA FitsIsCut ==
  /\ AnswerFitsQuestion <=>
       shown.answer = IF shown.question = 0 THEN << >>
                      ELSE Cut(delivered[shown.question])
  /\ AnswerFitsQuestion' <=>
       shown'.answer = IF shown'.question = 0 THEN << >>
                       ELSE Cut(delivered'[shown'.question])
BY DEF AnswerFitsQuestion, Cut

\* A step that shows the same answer, with perhaps another mark on it.
LEMMA MarkKeepsScreen ==
  ASSUME ScreenInv, shown' \in Overlay!Snapshots, SameAnswer(shown, shown'),
         UNCHANGED <<active, begun, delivered, running, questionStarted>>
  PROVE  ScreenInv'
<1>1. AnswerFitsQuestion'
  BY DEF ScreenInv, AnswerFitsQuestion, SameAnswer
<1>2. ActiveIsShown'
  BY DEF ScreenInv, ActiveIsShown, SameAnswer
<1>3. NoSilentStop'
  BY DEF ScreenInv, NoSilentStop, SameAnswer
<1> QED BY <1>1, <1>2, <1>3 DEF ScreenInv, SameAnswer

(* The active answer ends: either it is complete, or the overlay says why  *)
(* it is not.                                                              *)
LEMMA EndKeepsScreen ==
  ASSUME ScreenInv, shown' \in Overlay!Snapshots, active' = 0,
         delivered' = delivered, begun \in Nat, begun' \in Nat, begun <= begun',
         shown'.question = shown.question, shown'.answer = shown.answer,
         ~running' \/ shown'.complete \/ shown'.error \/ shown'.degraded
  PROVE  ScreenInv'
<1>1. AnswerFitsQuestion'
  BY DEF ScreenInv, AnswerFitsQuestion
<1>2. ActiveIsShown' /\ NoSilentStop'
  BY DEF ActiveIsShown, NoSilentStop
<1>3. shown'.question <= begun'
  BY DEF ScreenInv, Overlay!Snapshots
<1> QED BY <1>1, <1>2, <1>3 DEF ScreenInv

\* A new question starts from an empty answer of its own.
LEMMA QuestionKeepsScreen ==
  ASSUME InStep, ScreenInv, running, Begin(nextQuestionId),
         questionStarted' = questionStarted \union {nextQuestionId},
         Publish(Overlay!Question(nextQuestionId)), UNCHANGED running
  PROVE  ScreenInv'
<1>1. begun \in Nat /\ nextQuestionId = begun + 1
  BY BegunType DEF InStep
<1>2. /\ active' = begun + 1 /\ begun' = begun + 1
      /\ delivered' = delivered /\ delivered[begun + 1] = << >>
  BY <1>1, BeginEffect DEF InStep
<1>3. /\ shown' \in Overlay!Snapshots
      /\ shown'.question = begun + 1 /\ shown'.answer = << >>
      /\ ~shown'.complete
  <2>1. begun + 1 \in Nat /\ "idle" \in Overlay!TranscriptionStates
        /\ shown \in Overlay!Snapshots
    BY <1>1 DEF Overlay!TranscriptionStates, ScreenInv
  <2>2. shown' = Overlay!Apply(shown, Overlay!Question(begun + 1))
    BY <1>1 DEF Publish
  <2> QED BY <2>1, <2>2, ApplyType, ApplyQuestion
<1>4. Cut(<< >>) = << >>
  BY EngineConfig DEF Cut, Overlay!AnswerBound
<1>5. AnswerFitsQuestion'
  BY <1>1, <1>2, <1>3, <1>4, FitsIsCut
<1>6. ActiveIsShown'
  BY <1>1, <1>2, <1>3 DEF ActiveIsShown
<1>7. NoSilentStop'
  BY <1>1, <1>2 DEF NoSilentStop
<1> QED BY <1>1, <1>2, <1>3, <1>5, <1>6, <1>7 DEF ScreenInv

(* A poll hands the overlay the piece it returned, for the question that   *)
(* is on screen.                                                           *)
LEMMA PollKeepsScreen ==
  ASSUME InStep, ScreenInv, PollAnswer
  PROVE  ScreenInv'
<1>1. begun' = begun /\ active # 0
  BY PollEffect DEF InStep, PollAnswer
<1>2. shown.question = active /\ ~shown.complete /\ running
      /\ active \in questionStarted
  BY <1>1 DEF ScreenInv, ActiveIsShown
<1>3. running' = running /\ shown \in Overlay!Snapshots
  BY DEF PollAnswer, ScreenInv
<1>4. begun \in Nat /\ begun <= begun
  BY BegunType DEF InStep
<1>5. active \in Nat /\ "idle" \in Overlay!TranscriptionStates
  BY <1>2, <1>3 DEF Overlay!Snapshots, Overlay!TranscriptionStates
<1>6. CASE /\ Updated /\ Update.kind = "delta" /\ Update.question = active
           /\ Update.n \in Nat /\ active' = active
           /\ delivered' = [delivered EXCEPT ![active] = Append(@, Update.n)]
  <2>1. PICK n \in Nat : n = Update.n
    BY <1>6
  <2>2. shown' = Overlay!Apply(shown, Overlay!AnswerDelta(shown.question, n))
    BY <1>2, <1>6, <2>1 DEF PollAnswer, Publish, PollEvent
  <2>3. questionStarted' = questionStarted
    BY <1>6 DEF PollAnswer
  <2>4. PICK s \in Seq(Nat) :
          /\ s = delivered[active]
          /\ delivered' = [delivered EXCEPT ![active] = Append(s, n)]
          /\ delivered'[active] = Append(s, n)
    <3>1. /\ active \in Ids
          /\ delivered \in [Ids -> Seq(1..MaxDeltas)]
      BY <1>1 DEF InStep, DeliveryInv, AnswerInv, TypeOK
    <3>2. delivered[active] \in Seq(Nat)
      BY <3>1, DeltasAreNumbers
    <3> QED BY <1>6, <2>1, <3>1, <3>2
  <2>5. shown.answer = Cut(s)
    BY <1>1, <1>2, <2>4, FitsIsCut DEF ScreenInv
  <2>6. Cut(Append(s, n)) = IF Len(Cut(s)) < MaxAnswer THEN Append(Cut(s), n)
                                                       ELSE Cut(s)
    BY CutGrows
  <2>7. /\ shown' \in Overlay!Snapshots
        /\ shown'.question = active
        /\ ~shown'.complete
        /\ shown'.answer = Cut(Append(s, n))
    <3>1. PICK t : t = shown
      OBVIOUS
    <3>2. PICK u : u = Overlay!Apply(t, Overlay!AnswerDelta(t.question, n))
      OBVIOUS
    <3>3. /\ u \in Overlay!Snapshots /\ u.question = t.question /\ ~u.complete
          /\ u.answer = IF Len(t.answer) < MaxAnswer THEN Append(t.answer, n)
                                                     ELSE t.answer
      BY <1>3, <3>1, <3>2, ApplyToShown
    <3> QED BY <1>2, <2>2, <2>5, <2>6, <3>1, <3>2, <3>3
  <2>8. AnswerFitsQuestion'
    BY <1>1, <2>4, <2>7, FitsIsCut
  <2>9. ActiveIsShown'
    BY <1>2, <1>3, <1>6, <2>3, <2>7 DEF ActiveIsShown
  <2>10. NoSilentStop'
    BY <1>1, <1>6 DEF NoSilentStop
  <2>11. shown'.question <= begun'
    BY <1>1, <1>2, <2>7 DEF ScreenInv
  <2> QED BY <2>7, <2>8, <2>9, <2>10, <2>11 DEF ScreenInv
<1>7. CASE /\ Updated /\ Update.kind \in {"done", "error"}
           /\ Update.question = active /\ active' = 0
           /\ delivered' = delivered
  <2>1. /\ shown' \in Overlay!Snapshots
        /\ shown'.question = shown.question /\ shown'.answer = shown.answer
        /\ shown'.complete \/ shown'.error
    <3>1. CASE Update.kind = "done"
      <4>1. shown' = Overlay!Apply(shown, Overlay!AnswerDone(shown.question))
        BY <1>2, <1>7, <3>1 DEF PollAnswer, Publish, PollEvent
      <4> QED BY <1>2, <1>3, <1>5, <4>1, ApplyType, ApplyToShown
    <3>2. CASE Update.kind = "error"
      <4>1. shown' = Overlay!Apply(shown, Overlay!Error)
        BY <1>7, <3>2 DEF PollAnswer, Publish, PollEvent
      <4> QED BY <1>3, <1>5, <4>1, ApplyType, ApplyMark DEF SameAnswer
    <3> QED BY <1>7, <3>1, <3>2
  <2> QED BY <1>1, <1>4, <1>7, <2>1, EndKeepsScreen
<1>8. CASE ~Updated /\ active' = active /\ delivered' = delivered
  <2>1. /\ shown' = Overlay!Apply(shown, Overlay!Degraded)
        /\ questionStarted' = questionStarted
    BY <1>8 DEF PollAnswer, Publish
  <2>2. shown' \in Overlay!Snapshots /\ SameAnswer(shown, shown')
    BY <1>3, <1>5, <2>1, ApplyType, ApplyMark
  <2> QED BY <1>1, <1>3, <1>8, <2>1, <2>2, MarkKeepsScreen
<1> QED BY <1>6, <1>7, <1>8, PollEffect DEF InStep, PollAnswer

LEMMA FinalKeepsScreen ==
  ASSUME InStep, ScreenInv, NEW pid \in ProviderIds, NEW text \in Fragments,
         Final(pid, text)
  PROVE  ScreenInv'
<1>1. begun \in Nat /\ nextQuestionId = begun + 1 /\ begun <= begun + 1
  BY BegunType DEF InStep
<1>2. running /\ running' = running /\ shown \in Overlay!Snapshots
  BY DEF ScreenInv, Final, DuplicateFinal, OversizedFinal, NoQuestionFinal,
       QuestionFinal, UnansweredFinal, Ingest, Handle
<1>3. /\ Overlay!Apply(shown, Overlay!Degraded) \in Overlay!Snapshots
      /\ SameAnswer(shown, Overlay!Apply(shown, Overlay!Degraded))
      /\ Overlay!Apply(shown, Overlay!Degraded).degraded
  <2>1. "idle" \in Overlay!TranscriptionStates
    BY DEF Overlay!TranscriptionStates
  <2> QED BY <1>1, <1>2, <2>1, ApplyType, ApplyMark
<1>4. CASE DuplicateFinal(pid, text) \/ NoQuestionFinal(pid, text)
  <2>1. UNCHANGED answerVars /\ UNCHANGED <<questionStarted, shown>>
    BY <1>4 DEF DuplicateFinal, NoQuestionFinal
  <2>2. SameAnswer(shown, shown') /\ UNCHANGED <<active, begun, delivered>>
    BY <2>1 DEF SameAnswer, answerVars
  <2> QED BY <1>2, <2>1, <2>2, MarkKeepsScreen
<1>5. CASE OversizedFinal(pid, text)
  <2>1. /\ shown' = Overlay!Apply(shown, Overlay!Degraded)
        /\ UNCHANGED answerVars /\ UNCHANGED questionStarted
    BY <1>5 DEF OversizedFinal, Publish
  <2>2. UNCHANGED <<active, begun, delivered>>
    BY <2>1 DEF answerVars
  <2> QED BY <1>2, <1>3, <2>1, <2>2, MarkKeepsScreen
<1>6. CASE QuestionFinal(pid, text)
  BY <1>2, <1>6, QuestionKeepsScreen DEF QuestionFinal
<1>7. CASE UnansweredFinal(pid, text)
  <2>1. /\ shown' = Overlay!Apply(shown, Overlay!Degraded)
        /\ BeginFails(begun + 1)
    BY <1>1, <1>7 DEF UnansweredFinal, Publish
  <2>2. active' = 0 /\ begun' = begun + 1 /\ delivered' = delivered
    BY <2>1, BeginFailsEffect
  <2> QED BY <1>1, <1>3, <2>1, <2>2, EndKeepsScreen DEF SameAnswer
<1> QED BY <1>4, <1>5, <1>6, <1>7 DEF Final

LEMMA ScreenInit ==
  ASSUME EngineInit
  PROVE  ScreenInv
<1>1. /\ shown = [listening |-> TRUE, transcription |-> "connecting",
                  question |-> 0, answer |-> << >>, complete |-> FALSE,
                  degraded |-> FALSE, error |-> FALSE]
      /\ active = 0 /\ begun = 0
  BY DEF EngineInit, Init, Overlay!Apply, Overlay!Listening,
       Overlay!Transcription, Overlay!EmptySnapshot
<1>2. shown \in Overlay!Snapshots
  BY <1>1, EmptySeq DEF Overlay!Snapshots, Overlay!TranscriptionStates
<1> QED BY <1>1, <1>2
        DEF ScreenInv, AnswerFitsQuestion, ActiveIsShown, NoSilentStop

LEMMA ScreenStep ==
  ASSUME InStep, ScreenInv, [EngineNext]_runtimeVars
  PROVE  ScreenInv'
<1>1. begun \in Nat /\ shown \in Overlay!Snapshots /\ begun <= begun
  BY BegunType DEF InStep, ScreenInv
<1>2. ASSUME UNCHANGED answerVars, UNCHANGED <<questionStarted, running>>,
             shown' \in Overlay!Snapshots, SameAnswer(shown, shown')
      PROVE  ScreenInv'
  BY <1>2, MarkKeepsScreen DEF answerVars
<1>3. ASSUME NEW pid \in ProviderIds, NEW text \in Fragments, Final(pid, text)
      PROVE  ScreenInv'
  BY <1>3, FinalKeepsScreen
<1>4. ASSUME NEW state \in HealthStates, Health(state)
      PROVE  ScreenInv'
  <2>1. state \in Overlay!TranscriptionStates
    BY EngineConfig
  <2>2. shown' = Overlay!Apply(shown, Overlay!Transcription(state))
    BY <1>4 DEF Health, Publish
  <2>3. UNCHANGED answerVars /\ UNCHANGED <<questionStarted, running>>
    BY <1>4 DEF Health, Handle
  <2> QED BY <1>1, <1>2, <2>1, <2>2, <2>3, ApplyType, ApplyMark
<1>5. CASE ProviderError
  <2>1. shown' = Overlay!Apply(shown, Overlay!Degraded)
    BY <1>5 DEF ProviderError, Publish
  <2>2. UNCHANGED answerVars /\ UNCHANGED <<questionStarted, running>>
    BY <1>5 DEF ProviderError, Handle
  <2>3. "idle" \in Overlay!TranscriptionStates
    BY DEF Overlay!TranscriptionStates
  <2> QED BY <1>1, <1>2, <2>1, <2>2, <2>3, ApplyType, ApplyMark
<1>6. CASE PollAnswer
  BY <1>6, PollKeepsScreen
<1>7. CASE Dismiss
  <2>1. active' = 0 /\ begun' = begun /\ delivered' = delivered
    BY <1>7, CancelEffect DEF Dismiss
  <2>2. shown' = Overlay!Apply(shown, Overlay!Dismissed)
    BY <1>7 DEF Dismiss, Publish
  <2>3. /\ shown' \in Overlay!Snapshots
        /\ shown'.question = 0 /\ shown'.answer = << >>
    <3>1. "idle" \in Overlay!TranscriptionStates
      BY DEF Overlay!TranscriptionStates
    <3> QED BY <1>1, <2>2, <3>1, ApplyType, ApplyQuestion
  <2> QED BY <1>1, <2>1, <2>3
          DEF ScreenInv, AnswerFitsQuestion, ActiveIsShown, NoSilentStop
<1>8. CASE Shutdown
  <2>1. active' = 0 /\ begun' = begun /\ delivered' = delivered
    BY <1>8, CancelEffect DEF Shutdown
  <2>2. shown' = shown /\ ~running'
    BY <1>8 DEF Shutdown
  <2> QED BY <1>1, <2>1, <2>2, EndKeepsScreen
<1>9. CASE Concurrently
  <2>1. active' = active /\ begun' = begun /\ delivered' = delivered
    BY <1>9, ConcurrentlyEffect
  <2>2. shown' = shown /\ UNCHANGED <<questionStarted, running>>
    BY <1>9 DEF Concurrently, engineVars
  <2>3. SameAnswer(shown, shown')
    BY <2>2 DEF SameAnswer
  <2> QED BY <1>1, <2>1, <2>2, <2>3, MarkKeepsScreen
<1>10. CASE UNCHANGED runtimeVars
  <2>1. /\ shown' = shown /\ UNCHANGED answerVars
        /\ UNCHANGED <<questionStarted, running>>
    BY <1>10 DEF runtimeVars, engineVars
  <2>2. SameAnswer(shown, shown')
    BY <2>1 DEF SameAnswer
  <2> QED BY <1>1, <1>2, <2>1, <2>2
<1> QED BY <1>3, <1>4, <1>5, <1>6, <1>7, <1>8, <1>9, <1>10 DEF EngineNext

LEMMA ScreenInvariance == EngineSpec => []ScreenInv
BY StaysInStep, ScreenInit, ScreenStep, PTL DEF EngineSpec

(* The answer on screen is what poll delivered for the question on screen, *)
(* cut at the bound of the overlay, however finals, dismissals, timeouts   *)
(* and the threads of earlier answers interleave.                          *)
THEOREM ShowsTheAnswer == EngineSpec => []AnswerFitsQuestion
BY ScreenInvariance, PTL DEF ScreenInv

(* The answer being generated is the one whose question is on screen: no   *)
(* answer goes on unseen after a dismissal or the end of the session.      *)
THEOREM GeneratesWhatIsShown == EngineSpec => []ActiveIsShown
BY ScreenInvariance, PTL DEF ScreenInv

(* An answer that stops short leaves a word on screen.                     *)
THEOREM StopsAreExplained == EngineSpec => []NoSilentStop
BY ScreenInvariance, PTL DEF ScreenInv

=============================================================================
