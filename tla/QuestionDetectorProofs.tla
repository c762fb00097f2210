----------------------- MODULE QuestionDetectorProofs -----------------------
(***************************************************************************)
(* Theorems about QuestionDetector, for any fragments, any wording of them *)
(* and any configuration.                                                  *)
(*                                                                         *)
(* The set the duplicate check looks at is the memory of the latest events *)
(* (MemoryIsRecentEvents) only as long as no wording is in the queue       *)
(* twice: the one that leaves would take the other one's mark with it.     *)
(* That in turn is NoRepeatWithinMemory, so the two are proved together.   *)
(* Attribution rests on where the pending question ends: at the segment    *)
(* processed last (PendingFollows).                                        *)
(***************************************************************************)
EXTENDS QuestionDetector, SequenceTheorems, TLAPS

Wordings == {Normalize(text) : text \in Seq(Fragments)}

\* What events are remembered by.
AskedBy(events) == [i \in 1..Len(events) |-> Normalize(events[i].text)]
Asked == AskedBy(emitted)

(* The pending question ends with the segment processed last.              *)
PendingFollows ==
  /\ Len(pending.sources) = Len(pending.text)
  /\ Len(pending.text) <= processed
  /\ \A k \in 1..Len(pending.text) :
       pending.sources[k] = processed - Len(pending.text) + k

(* Every event was joined from segments before the pending question.       *)
EventsPrecede ==
  \A i \in 1..Len(emitted) :
    /\ emitted[i].text # << >>
    /\ \A k \in 1..Len(emitted[i].sources) :
         emitted[i].sources[k] \in 1..(processed - Len(pending.text))

MemoryInv == TypeOK /\ MemoryIsRecentEvents /\ NoRepeatWithinMemory

SourcesInv ==
  TypeOK /\ PendingFollows /\ EventsPrecede /\ SourcesAreConsecutive

----------------------------------------------------------------------------
(* The end of a sequence. *)

LEMMA LastOfProperties ==
  ASSUME NEW S, NEW s \in Seq(S), NEW n \in Nat
  PROVE  /\ LastOf(s, n) \in Seq(S)
         /\ Len(LastOf(s, n)) = IF Len(s) > n THEN n ELSE Len(s)
         /\ \A i \in 1..Len(LastOf(s, n)) :
              LastOf(s, n)[i] = s[SaturatingSub(Len(s), n) + i]
<1> DEFINE l == Len(s)
<1>1. l \in Nat
  OBVIOUS
<1>2. PICK d \in 0..l : /\ d = SaturatingSub(l, n)
                       /\ l - d = IF l > n THEN n ELSE l
  <2>1. CASE l > n
    BY <1>1, <2>1 DEF SaturatingSub
  <2>2. CASE ~(l > n)
    BY <1>1, <2>2 DEF SaturatingSub
  <2> QED BY <2>1, <2>2
<1>3. \A i \in (d + 1)..l : s[i] \in S
  BY <1>1, <1>2, ElementOfSeq
<1>4. d + 1 \in Int /\ l \in Int
  BY <1>1, <1>2
<1> HIDE DEF l
<1>5. /\ SubSeq(s, d + 1, l) \in Seq(S)
      /\ Len(SubSeq(s, d + 1, l))
           = IF d + 1 <= l THEN l - (d + 1) + 1 ELSE 0
      /\ \A i \in 1..(l - (d + 1) + 1) :
           SubSeq(s, d + 1, l)[i] = s[(d + 1) + i - 1]
  BY <1>3, <1>4, SubSeqProperties
<1>6. Len(SubSeq(s, d + 1, l)) = l - d
  <2>1. CASE d + 1 <= l
    BY <1>1, <1>2, <1>5, <2>1
  <2>2. CASE ~(d + 1 <= l)
    BY <1>1, <1>2, <1>5, <2>2
  <2> QED BY <2>1, <2>2
<1>7. ASSUME NEW i \in 1..(l - d)
      PROVE  SubSeq(s, d + 1, l)[i] = s[d + i]
  <2>1. i \in 1..(l - (d + 1) + 1) /\ (d + 1) + i - 1 = d + i
    BY <1>1, <1>2
  <2> QED BY <1>5, <2>1
<1> QED BY <1>2, <1>5, <1>6, <1>7 DEF LastOf, l

\* The end of a sequence is enough to know the end of a longer one.
LEMMA LastOfAppend ==
  ASSUME NEW S, NEW s \in Seq(S), NEW x \in S, NEW n \in Nat \ {0}
  PROVE  LastOf(Append(LastOf(s, n), x), n) = LastOf(Append(s, x), n)
<1> DEFINE e == LastOf(s, n)
           a == Append(e, x)
           b == Append(s, x)
<1>1. /\ e \in Seq(S) /\ Len(s) \in Nat
      /\ Len(e) = IF Len(s) > n THEN n ELSE Len(s)
      /\ \A i \in 1..Len(e) : e[i] = s[SaturatingSub(Len(s), n) + i]
  BY LastOfProperties
<1> HIDE DEF e
<1>2. /\ a \in Seq(S) /\ Len(a) = Len(e) + 1
      /\ \A i \in 1..Len(e) : a[i] = e[i]
      /\ a[Len(e) + 1] = x
  BY <1>1, AppendProperties
<1>3. /\ b \in Seq(S) /\ Len(b) = Len(s) + 1
      /\ \A i \in 1..Len(s) : b[i] = s[i]
      /\ b[Len(s) + 1] = x
  BY AppendProperties
<1> HIDE DEF a, b
<1>4. /\ LastOf(a, n) \in Seq(S)
      /\ Len(LastOf(a, n)) = IF Len(a) > n THEN n ELSE Len(a)
      /\ \A i \in 1..Len(LastOf(a, n)) :
           LastOf(a, n)[i] = a[SaturatingSub(Len(a), n) + i]
  BY <1>2, LastOfProperties
<1>5. /\ LastOf(b, n) \in Seq(S)
      /\ Len(LastOf(b, n)) = IF Len(b) > n THEN n ELSE Len(b)
      /\ \A i \in 1..Len(LastOf(b, n)) :
           LastOf(b, n)[i] = b[SaturatingSub(Len(b), n) + i]
  BY <1>3, LastOfProperties
<1>6. Len(LastOf(a, n)) = Len(LastOf(b, n))
  BY <1>1, <1>2, <1>3, <1>4, <1>5
<1>7. ASSUME NEW i \in 1..Len(LastOf(a, n))
      PROVE  LastOf(a, n)[i] = LastOf(b, n)[i]
  <2> DEFINE j == SaturatingSub(Len(a), n) + i
             k == SaturatingSub(Len(b), n) + i
  <2>1. LastOf(a, n)[i] = a[j] /\ LastOf(b, n)[i] = b[k]
    BY <1>4, <1>5, <1>6
  <2>2. CASE Len(s) > n
    <3>1. /\ Len(e) = n /\ SaturatingSub(Len(s), n) = Len(s) - n
          /\ j = i + 1 /\ k = Len(s) + 1 - n + i /\ i \in 1..n
      BY <1>1, <1>2, <1>3, <1>4, <2>2 DEF SaturatingSub
    <3>2. CASE i = n
      BY <1>2, <1>3, <2>1, <3>1, <3>2
    <3>3. CASE i # n
      <4>1. j \in 1..Len(e) /\ k \in 1..Len(s)
        BY <1>1, <2>2, <3>1, <3>3
      <4>2. a[j] = s[Len(s) - n + j]
        BY <1>1, <1>2, <3>1, <4>1
      <4>3. Len(s) - n + j = k
        BY <1>1, <3>1
      <4> QED BY <1>3, <2>1, <4>1, <4>2, <4>3
    <3> QED BY <3>2, <3>3
  <2>3. CASE Len(s) <= n
    <3>1. /\ Len(e) = Len(s) /\ SaturatingSub(Len(s), n) = 0
          /\ j = k /\ j \in 1..(Len(s) + 1)
      BY <1>1, <1>2, <1>3, <1>4, <2>3 DEF SaturatingSub
    <3>2. CASE j = Len(s) + 1
      BY <1>2, <1>3, <2>1, <3>1, <3>2
    <3>3. CASE j # Len(s) + 1
      <4>1. j \in 1..Len(e) /\ j \in 1..Len(s)
        BY <1>1, <3>1, <3>3
      <4>2. a[j] = s[j]
        BY <1>1, <1>2, <3>1, <4>1
      <4> QED BY <1>3, <2>1, <3>1, <4>1, <4>2
    <3> QED BY <3>2, <3>3
  <2> QED BY <1>1, <2>2, <2>3
<1>8. LastOf(a, n) = LastOf(b, n)
  BY <1>4, <1>5, <1>6, <1>7, SeqEqual
<1> QED BY <1>8 DEF a, b, e

----------------------------------------------------------------------------
(* The memory. *)

LEMMA AskedIsSeq ==
  ASSUME NEW s \in Seq(Events)
  PROVE  /\ AskedBy(s) \in Seq(Wordings)
         /\ Len(AskedBy(s)) = Len(s)
         /\ \A i \in 1..Len(s) : AskedBy(s)[i] = Normalize(s[i].text)
<1>1. Len(s) \in Nat
  OBVIOUS
<1>2. ASSUME NEW i \in 1..Len(s)
      PROVE  Normalize(s[i].text) \in Wordings
  <2>1. s[i] \in Events
    BY <1>2, ElementOfSeq
  <2> QED BY <2>1 DEF Events, Wordings
<1>3. AskedBy(s) \in [1..Len(s) -> Wordings]
  BY <1>2 DEF AskedBy
<1> QED BY <1>1, <1>3, IsASeq DEF AskedBy

(* No wording is in the memory twice, and the memory has its size. *)
LEMMA MemoryHasNoRepeats ==
  ASSUME MemoryInv
  PROVE  /\ recentOrder \in Seq(Wordings)
         /\ Len(recentOrder) <= RepeatMemory
         /\ \A i, j \in 1..Len(recentOrder) :
              i # j => recentOrder[i] # recentOrder[j]
<1>1. /\ Asked \in Seq(Wordings) /\ Len(Asked) \in Nat
      /\ Len(Asked) = Len(emitted)
      /\ \A i \in 1..Len(emitted) : Asked[i] = Normalize(emitted[i].text)
  BY AskedIsSeq DEF MemoryInv, TypeOK, Asked
<1>2. recentOrder = LastOf(Asked, RepeatMemory)
  BY DEF MemoryInv, MemoryIsRecentEvents, Asked, AskedBy
<1>3. RepeatMemory \in Nat
  BY DetectorConfig
<1>4. PICK d \in Nat : /\ d = SaturatingSub(Len(Asked), RepeatMemory)
                       /\ d + Len(recentOrder) = Len(Asked)
                       /\ Len(recentOrder) \in 0..RepeatMemory
  <2>1. Len(recentOrder)
          = IF Len(Asked) > RepeatMemory THEN RepeatMemory ELSE Len(Asked)
    BY <1>1, <1>2, <1>3, LastOfProperties
  <2>2. CASE Len(Asked) > RepeatMemory
    <3>1. /\ SaturatingSub(Len(Asked), RepeatMemory) = Len(Asked) - RepeatMemory
          /\ Len(recentOrder) = RepeatMemory
      BY <2>1, <2>2 DEF SaturatingSub
    <3> QED BY <1>1, <1>3, <2>2, <3>1
  <2>3. CASE ~(Len(Asked) > RepeatMemory)
    <3>1. /\ SaturatingSub(Len(Asked), RepeatMemory) = 0
          /\ Len(recentOrder) = Len(Asked)
      BY <2>1, <2>3 DEF SaturatingSub
    <3> QED BY <1>1, <1>3, <2>3, <3>1
  <2> QED BY <2>2, <2>3
<1>5. /\ recentOrder \in Seq(Wordings)
      /\ \A i \in 1..Len(recentOrder) : recentOrder[i] = Asked[d + i]
  BY <1>1, <1>2, <1>3, <1>4, LastOfProperties
<1>6. ASSUME NEW i \in 1..Len(recentOrder), NEW j \in 1..Len(recentOrder),
             i < j
      PROVE  recentOrder[i] # recentOrder[j]
  <2>1. /\ d + i \in 1..Len(emitted) /\ d + j \in 1..Len(emitted)
        /\ d + i < d + j /\ (d + j) - (d + i) <= RepeatMemory
    BY <1>1, <1>3, <1>4, <1>6
  <2>2. Normalize(emitted[d + i].text) # Normalize(emitted[d + j].text)
    BY <2>1 DEF MemoryInv, NoRepeatWithinMemory
  <2> QED BY <1>1, <1>5, <2>1, <2>2
<1>7. ASSUME NEW i \in 1..Len(recentOrder), NEW j \in 1..Len(recentOrder),
             i # j
      PROVE  recentOrder[i] # recentOrder[j]
  <2>1. i < j \/ j < i
    BY <1>4, <1>7
  <2> QED BY <1>6, <2>1
<1> QED BY <1>3, <1>4, <1>5, <1>7

(* An event enters the memory at its end, and the wording that leaves the  *)
(* queue leaves the set.                                                   *)
LEMMA RememberKeepsInStep ==
  ASSUME MemoryInv, NEW w \in Wordings, w \notin recentIds,
         RememberWording(w)
  PROVE  /\ recentIds' = Range(recentOrder')
         /\ recentOrder' = LastOf(Append(Asked, w), RepeatMemory)
<1>1. /\ recentOrder \in Seq(Wordings) /\ Len(recentOrder) \in Nat
      /\ Len(recentOrder) <= RepeatMemory
      /\ \A i, j \in 1..Len(recentOrder) :
           i # j => recentOrder[i] # recentOrder[j]
  BY MemoryHasNoRepeats
<1>2. /\ recentIds = Range(recentOrder)
      /\ recentOrder = LastOf(Asked, RepeatMemory)
      /\ Asked \in Seq(Wordings)
  BY AskedIsSeq DEF MemoryInv, TypeOK, MemoryIsRecentEvents, Asked, AskedBy
<1>3. RepeatMemory \in Nat
  BY DetectorConfig
<1>4. CASE RepeatMemory = 0
  <2>1. UNCHANGED <<recentIds, recentOrder>>
    BY <1>4 DEF RememberWording
  <2>2. Append(Asked, w) \in Seq(Wordings)
    BY <1>2
  <2>3. /\ LastOf(Append(Asked, w), 0) \in Seq(Wordings)
        /\ Len(LastOf(Append(Asked, w), 0)) = 0
    <3>1. Len(Append(Asked, w)) \in Nat /\ 0 \in Nat
      BY <2>2
    <3>2. Len(LastOf(Append(Asked, w), 0))
            = IF Len(Append(Asked, w)) > 0 THEN 0 ELSE Len(Append(Asked, w))
      BY <2>2, <3>1, LastOfProperties
    <3>3. Len(LastOf(Append(Asked, w), 0)) = 0
      BY <3>1, <3>2
    <3> QED BY <2>2, <3>1, <3>3, LastOfProperties
  <2>4. recentOrder = << >> /\ LastOf(Append(Asked, w), 0) = << >>
    BY <1>1, <1>4, <2>3, EmptySeq
  <2> QED BY <1>2, <1>4, <2>1, <2>4
<1>5. CASE RepeatMemory # 0
  <2> DEFINE order == Append(recentOrder, w)
             drop == SaturatingSub(Len(order), RepeatMemory)
  <2>1. /\ recentOrder' = SubSeq(order, drop + 1, Len(order))
        /\ recentIds' = (recentIds \union {w}) \ {order[i] : i \in 1..drop}
    BY <1>5 DEF RememberWording
  <2>2. recentOrder' = LastOf(order, RepeatMemory)
    BY <2>1 DEF LastOf
  <2>3. recentOrder' = LastOf(Append(Asked, w), RepeatMemory)
    BY <1>2, <1>3, <1>5, <2>2, LastOfAppend
  <2>4. /\ order \in Seq(Wordings) /\ Len(order) = Len(recentOrder) + 1
        /\ \A i \in 1..Len(recentOrder) : order[i] = recentOrder[i]
        /\ order[Len(recentOrder) + 1] = w
    BY <1>1, AppendProperties
  <2>5. /\ drop \in 0..1
        /\ drop = 1 => Len(recentOrder) = RepeatMemory
        /\ Len(LastOf(order, RepeatMemory)) = Len(order) - drop
        /\ \A i \in 1..(Len(order) - drop) :
             LastOf(order, RepeatMemory)[i] = order[drop + i]
    <3>1. CASE Len(order) > RepeatMemory
      <4>1. drop = 1 /\ Len(order) = RepeatMemory + 1
        BY <1>1, <1>3, <2>4, <3>1 DEF SaturatingSub
      <4> HIDE DEF order
      <4>2. /\ Len(LastOf(order, RepeatMemory))
                = IF Len(order) > RepeatMemory THEN RepeatMemory ELSE Len(order)
            /\ \A i \in 1..Len(LastOf(order, RepeatMemory)) :
                 LastOf(order, RepeatMemory)[i] = order[drop + i]
        BY <1>3, <2>4, LastOfProperties
      <4>3. Len(LastOf(order, RepeatMemory)) = Len(order) - drop
        BY <1>3, <3>1, <4>1, <4>2
      <4>4. Len(recentOrder) = RepeatMemory
        BY <1>1, <1>3, <2>4, <4>1
      <4> QED BY <4>1, <4>2, <4>3, <4>4
    <3>2. CASE ~(Len(order) > RepeatMemory)
      <4>1. drop = 0
        BY <1>1, <1>3, <2>4, <3>2 DEF SaturatingSub
      <4> HIDE DEF order
      <4> QED BY <1>1, <1>3, <2>4, <3>2, <4>1, LastOfProperties
    <3> QED BY <3>1, <3>2
  <2>6. recentOrder' \in Seq(Wordings) /\ Len(recentOrder') = Len(order) - drop
        /\ \A i \in 1..(Len(order) - drop) : recentOrder'[i] = order[drop + i]
    BY <1>3, <2>2, <2>4, <2>5, LastOfProperties
  <2> HIDE DEF drop, order
  <2>7. /\ Range(recentOrder) = {recentOrder[i] : i \in 1..Len(recentOrder)}
        /\ Range(recentOrder') = {recentOrder'[i] : i \in 1..Len(recentOrder')}
    BY <1>1, <2>6 DEF Range
  <2>8. ASSUME NEW x \in recentIds'
        PROVE  x \in Range(recentOrder')
    <3>1. x \in Range(recentOrder) \union {w} /\ x \notin {order[i] : i \in 1..drop}
      BY <1>2, <2>1, <2>8
    <3>2. PICK k \in 1..Len(order) : x = order[k]
      <4>1. CASE x = w
        BY <1>1, <2>4, <4>1
      <4>2. CASE x \in Range(recentOrder)
        <5>1. PICK k \in 1..Len(recentOrder) : x = recentOrder[k]
          BY <2>7, <4>2
        <5>2. k \in 1..Len(order)
          BY <1>1, <2>4
        <5> QED BY <2>4, <5>1, <5>2
      <4> QED BY <3>1, <4>1, <4>2
    <3>3. k \notin 1..drop
      BY <3>1, <3>2
    <3>4. k - drop \in 1..(Len(order) - drop) /\ drop + (k - drop) = k
      BY <1>1, <2>4, <2>5, <3>3
    <3>5. recentOrder'[k - drop] = x
      BY <2>6, <3>2, <3>4
    <3> QED BY <2>6, <2>7, <3>4, <3>5
  <2>9. ASSUME NEW x \in Range(recentOrder')
        PROVE  x \in recentIds'
    <3>1. PICK k \in 1..(Len(order) - drop) : x = order[drop + k]
      BY <2>6, <2>7, <2>9
    <3>2. drop + k \in 1..(Len(recentOrder) + 1) /\ drop + k > drop
      BY <1>1, <2>4, <2>5
    <3>3. CASE drop + k = Len(recentOrder) + 1
      <4>1. x = w
        BY <2>4, <3>1, <3>3
      <4>2. ASSUME NEW i \in 1..drop
            PROVE  order[i] # w
        <5>1. i = 1 /\ 1 \in 1..Len(recentOrder)
          BY <1>1, <1>3, <1>5, <2>5
        <5>2. order[i] \in Range(recentOrder)
          BY <2>4, <2>7, <5>1
        <5> QED BY <1>2, <5>2
      <4> QED BY <2>1, <4>1, <4>2
    <3>4. CASE drop + k # Len(recentOrder) + 1
      <4>1. drop + k \in 1..Len(recentOrder)
        BY <1>1, <3>2, <3>4
      <4>2. x = recentOrder[drop + k] /\ x \in recentIds
        BY <1>2, <2>4, <2>7, <3>1, <4>1
      <4>3. ASSUME NEW i \in 1..drop
            PROVE  order[i] # x
        <5>1. i \in 1..Len(recentOrder) /\ i # drop + k
          BY <1>1, <1>3, <1>5, <2>5, <3>2
        <5> QED BY <1>1, <2>4, <4>1, <4>2, <5>1
      <4> QED BY <2>1, <4>2, <4>3
    <3> QED BY <3>3, <3>4
  <2> QED BY <2>3, <2>8, <2>9
<1> QED BY <1>4, <1>5

----------------------------------------------------------------------------
(* What a segment does to the types. *)

LEMMA ConsideredType ==
  ASSUME TypeOK, NEW f \in Fragments, NEW id \in Nat
  PROVE  /\ Considered(id, f) \in Questions
         /\ Considered(id, f).text # << >>
<1>1. pending.text \in Seq(Fragments) /\ pending.sources \in Seq(Nat)
  BY DEF TypeOK, Questions
<1>2. /\ Append(pending.text, f) \in Seq(Fragments)
      /\ Append(pending.text, f) # << >>
  BY <1>1, AppendProperties
<1>3. Append(pending.sources, id) \in Seq(Nat)
  BY <1>1
<1> QED BY <1>2, <1>3 DEF Considered, Questions

LEMMA EmittedEvent ==
  ASSUME TypeOK, NEW q \in Questions, NEW id \in Nat, Trigger(q, id)
  PROVE  \E e \in Events :
           /\ e.text = q.text /\ e.sources = q.sources
           /\ emitted' = Append(emitted, e)
           /\ emitted' \in Seq(Events)
           /\ nextQuestionId' = nextQuestionId + 1
<1> DEFINE e == [id |-> nextQuestionId, text |-> q.text,
                 confidence |-> Confidence(q.text), sources |-> q.sources]
<1>1. Confidence(q.text) \in 0..100
  BY DEF Confidence
<1>2. e \in Events /\ e.text = q.text /\ e.sources = q.sources
  BY <1>1 DEF Events, Questions, TypeOK
<1>3. /\ emitted' = Append(emitted, e)
      /\ nextQuestionId' = nextQuestionId + 1
  BY DEF Trigger, Emit
<1> HIDE DEF e
<1>4. emitted' \in Seq(Events)
  BY <1>2, <1>3 DEF TypeOK
<1> QED BY <1>2, <1>3, <1>4

LEMMA NoQuestionType ==
  /\ NoQuestion \in Questions
  /\ Len(NoQuestion.text) = 0 /\ Len(NoQuestion.sources) = 0
<1>1. << >> \in Seq(Fragments) /\ << >> \in Seq(Nat) /\ Len(<< >>) = 0
  OBVIOUS
<1> QED BY <1>1 DEF NoQuestion, Questions

LEMMA TypesStep ==
  ASSUME TypeOK, Next
  PROVE  TypeOK'
<1>1. ASSUME NEW f \in Fragments, ProcessFinalized(processed + 1, f)
      PROVE  TypeOK'
  <2>1. PICK q \in Questions :
          /\ Hold(q) \/ Trigger(q, processed + 1) \/ Drop(q, processed + 1)
          /\ processed' = processed + 1
    <3>1. processed + 1 \in Nat
      BY DEF TypeOK
    <3> QED BY <1>1, <3>1, ConsideredType DEF ProcessFinalized
  <2>2. CASE Hold(q)
    BY <2>1, <2>2 DEF Hold, TypeOK
  <2>3. CASE Trigger(q, processed + 1)
    <3>1. /\ emitted' \in Seq(Events)
          /\ nextQuestionId' = nextQuestionId + 1
      BY <2>3, EmittedEvent DEF TypeOK
    <3>2. pending' \in Questions /\ lastTrigger' = processed + 1
      BY <2>3, NoQuestionType DEF Trigger
    <3> QED BY <2>1, <3>1, <3>2 DEF TypeOK
  <2>4. CASE Drop(q, processed + 1)
    BY <2>1, <2>4, NoQuestionType DEF Drop, TypeOK
  <2> QED BY <2>1, <2>2, <2>3, <2>4
<1>2. CASE ManualTrigger
  BY <1>2 DEF ManualTrigger, TypeOK
<1>3. CASE Reset
  <2>1. << >> \in Seq(Events)
    OBVIOUS
  <2> QED BY <1>3, <2>1, NoQuestionType DEF Reset, TypeOK
<1> QED BY <1>1, <1>2, <1>3 DEF Next

----------------------------------------------------------------------------
(* Memory and repeats. *)

\* An event of a wording the memory does not hold.
LEMMA TriggerKeepsMemory ==
  ASSUME MemoryInv, TypeOK', NEW q \in Questions, NEW id \in Nat,
         Trigger(q, id)
  PROVE  MemoryInv'
<1> DEFINE w == Normalize(q.text)
<1>1. w \in Wordings /\ w \notin recentIds /\ RememberWording(w)
  BY DEF Trigger, Triggers, Questions, Wordings
<1> HIDE DEF w
<1>2. PICK e \in Events : /\ e.text = q.text
                          /\ emitted' = Append(emitted, e)
  BY EmittedEvent DEF MemoryInv
<1>3. /\ Len(emitted) \in Nat
      /\ Len(emitted') = Len(emitted) + 1
      /\ \A i \in 1..Len(emitted) : emitted'[i] = emitted[i]
      /\ emitted'[Len(emitted) + 1] = e
  BY <1>2, AppendProperties DEF MemoryInv, TypeOK
<1>4. /\ Asked \in Seq(Wordings) /\ Len(Asked) = Len(emitted)
      /\ \A i \in 1..Len(emitted) : Asked[i] = Normalize(emitted[i].text)
  BY AskedIsSeq DEF MemoryInv, TypeOK, Asked
<1>5. /\ Asked' \in Seq(Wordings) /\ Len(Asked') = Len(emitted')
      /\ \A i \in 1..Len(emitted') : Asked'[i] = Normalize(emitted'[i].text)
  BY AskedIsSeq DEF TypeOK, Asked
<1>6. Asked' = Append(Asked, w)
  <2>1. /\ Append(Asked, w) \in Seq(Wordings)
        /\ Len(Append(Asked, w)) = Len(emitted) + 1
        /\ \A i \in 1..Len(emitted) : Append(Asked, w)[i] = Asked[i]
        /\ Append(Asked, w)[Len(emitted) + 1] = w
    BY <1>1, <1>4, AppendProperties
  <2>2. ASSUME NEW i \in 1..Len(Asked')
        PROVE  Asked'[i] = Append(Asked, w)[i]
    <3>1. CASE i = Len(emitted) + 1
      BY <1>2, <1>3, <1>5, <2>1, <3>1 DEF w
    <3>2. CASE i # Len(emitted) + 1
      <4>1. i \in 1..Len(emitted) /\ i \in 1..Len(emitted')
        BY <1>3, <1>5, <3>2
      <4> QED BY <1>3, <1>4, <1>5, <2>1, <4>1
    <3> QED BY <3>1, <3>2
  <2> QED BY <1>3, <1>5, <2>1, <2>2, SeqEqual
<1>7. MemoryIsRecentEvents'
  <2>1. /\ recentIds' = Range(recentOrder')
        /\ recentOrder' = LastOf(Append(Asked, w), RepeatMemory)
    BY <1>1, RememberKeepsInStep
  <2> QED BY <1>6, <2>1 DEF MemoryIsRecentEvents, Asked, AskedBy
<1>8. NoRepeatWithinMemory'
  <2>1. RepeatMemory \in Nat
    BY DetectorConfig
  <2> SUFFICES ASSUME NEW i \in 1..Len(emitted'), NEW j \in 1..Len(emitted'),
                      i < j, j - i <= RepeatMemory
               PROVE  Normalize(emitted'[i].text) # Normalize(emitted'[j].text)
    BY DEF NoRepeatWithinMemory
  <2>2. i \in 1..Len(emitted)
    BY <1>3
  <2>3. CASE j # Len(emitted) + 1
    <3>1. j \in 1..Len(emitted)
      BY <1>3, <2>3
    <3>2. Normalize(emitted[i].text) # Normalize(emitted[j].text)
      BY <2>2, <3>1 DEF MemoryInv, NoRepeatWithinMemory
    <3> QED BY <1>3, <2>2, <3>1, <3>2
  <2>4. CASE j = Len(emitted) + 1
    <3> DEFINE d == SaturatingSub(Len(Asked), RepeatMemory)
    <3>1. /\ Len(LastOf(Asked, RepeatMemory))
              = IF Len(Asked) > RepeatMemory THEN RepeatMemory ELSE Len(Asked)
          /\ \A k \in 1..Len(LastOf(Asked, RepeatMemory)) :
               LastOf(Asked, RepeatMemory)[k] = Asked[d + k]
      BY <1>4, <2>1, LastOfProperties
    <3>2. recentOrder = LastOf(Asked, RepeatMemory)
      BY DEF MemoryInv, MemoryIsRecentEvents, Asked, AskedBy
    <3>3. d \in Nat /\ i - d \in 1..Len(recentOrder) /\ d + (i - d) = i
      <4>1. CASE Len(Asked) > RepeatMemory
        <5>1. d = Len(Asked) - RepeatMemory /\ Len(recentOrder) = RepeatMemory
          BY <3>1, <3>2, <4>1 DEF SaturatingSub
        <5> QED BY <1>3, <1>4, <2>1, <2>2, <2>4, <4>1, <5>1
      <4>2. CASE ~(Len(Asked) > RepeatMemory)
        <5>1. d = 0 /\ Len(recentOrder) = Len(Asked)
          BY <3>1, <3>2, <4>2 DEF SaturatingSub
        <5> QED BY <1>3, <1>4, <2>2, <5>1
      <4> QED BY <4>1, <4>2
    <3>4. recentOrder[i - d] = Asked[i]
      BY <3>1, <3>2, <3>3
    <3>5. recentOrder[i - d] \in Range(recentOrder)
      <4>1. DOMAIN recentOrder = 1..Len(recentOrder)
        BY MemoryHasNoRepeats, LenProperties
      <4> QED BY <3>3, <4>1 DEF Range
    <3>6. Asked[i] \in recentIds
      BY <3>4, <3>5 DEF MemoryInv, MemoryIsRecentEvents
    <3>7. Normalize(emitted'[j].text) = w
      BY <1>2, <1>3, <2>4 DEF w
    <3>8. Normalize(emitted'[i].text) = Asked[i]
      BY <1>3, <1>4, <2>2
    <3> QED BY <1>1, <3>6, <3>7, <3>8
  <2> QED BY <2>3, <2>4
<1> QED BY <1>7, <1>8 DEF MemoryInv

LEMMA MemoryInvInit ==
  ASSUME Init
  PROVE  MemoryInv
<1>1. TypeOK
  <2>1. << >> \in Seq(Events)
    OBVIOUS
  <2> QED BY <2>1, NoQuestionType DEF Init, TypeOK
<1>2. Asked \in Seq(Wordings) /\ Len(Asked) = 0
  BY <1>1, AskedIsSeq DEF Init, TypeOK, Asked
<1>3. Asked = << >>
  BY <1>2, EmptySeq
<1>4. RepeatMemory \in Nat
  BY DetectorConfig
<1>5. LastOf(Asked, RepeatMemory) = << >>
  <2>1. /\ LastOf(Asked, RepeatMemory) \in Seq(Wordings)
        /\ Len(LastOf(Asked, RepeatMemory))
             = IF Len(Asked) > RepeatMemory THEN RepeatMemory ELSE Len(Asked)
    BY <1>2, <1>4, LastOfProperties
  <2>2. Len(LastOf(Asked, RepeatMemory)) = 0
    BY <1>2, <1>4, <2>1
  <2> QED BY <2>1, <2>2, EmptySeq
<1>6. Range(<< >>) = {}
  BY DEF Range
<1>7. MemoryIsRecentEvents
  BY <1>5, <1>6 DEF Init, MemoryIsRecentEvents, Asked, AskedBy
<1>8. NoRepeatWithinMemory
  BY DEF Init, NoRepeatWithinMemory
<1> QED BY <1>1, <1>7, <1>8 DEF MemoryInv

LEMMA MemoryInvStep ==
  ASSUME MemoryInv, [Next]_vars
  PROVE  MemoryInv'
<1>1. ASSUME UNCHANGED <<recentIds, recentOrder, emitted>>, TypeOK'
      PROVE  MemoryInv'
  BY <1>1 DEF MemoryInv, MemoryIsRecentEvents, NoRepeatWithinMemory
<1>2. CASE Next
  <2>1. TypeOK'
    BY <1>2, TypesStep DEF MemoryInv
  <2>2. ASSUME NEW f \in Fragments, ProcessFinalized(processed + 1, f)
        PROVE  MemoryInv'
    <3>1. processed + 1 \in Nat
      BY DEF MemoryInv, TypeOK
    <3>2. PICK q \in Questions :
            Hold(q) \/ Trigger(q, processed + 1) \/ Drop(q, processed + 1)
      BY <2>2, <3>1, ConsideredType DEF ProcessFinalized, MemoryInv
    <3>3. CASE Hold(q) \/ Drop(q, processed + 1)
      BY <1>1, <2>1, <3>3 DEF Hold, Drop
    <3>4. CASE Trigger(q, processed + 1)
      BY <2>1, <3>1, <3>4, TriggerKeepsMemory
    <3> QED BY <3>2, <3>3, <3>4
  <2>3. CASE ManualTrigger
    BY <1>1, <2>1, <2>3 DEF ManualTrigger
  <2>4. CASE Reset
    <3>1. /\ emitted' = << >> /\ recentIds' = {} /\ recentOrder' = << >>
      BY <2>4 DEF Reset
    <3>2. Asked' \in Seq(Wordings) /\ Len(Asked') = 0
      BY <2>1, <3>1, AskedIsSeq DEF TypeOK, Asked
    <3>3. RepeatMemory \in Nat
      BY DetectorConfig
    <3>4. /\ LastOf(Asked', RepeatMemory) \in Seq(Wordings)
          /\ Len(LastOf(Asked', RepeatMemory))
               = IF Len(Asked') > RepeatMemory THEN RepeatMemory ELSE Len(Asked')
      BY <3>2, <3>3, LastOfProperties
    <3>5. Len(LastOf(Asked', RepeatMemory)) = 0
      BY <3>2, <3>3, <3>4
    <3>6. LastOf(Asked', RepeatMemory) = << >>
      BY <3>4, <3>5, EmptySeq
    <3>7. Range(<< >>) = {}
      BY DEF Range
    <3>8. MemoryIsRecentEvents'
      BY <3>1, <3>6, <3>7 DEF MemoryIsRecentEvents, Asked, AskedBy
    <3>9. NoRepeatWithinMemory'
      BY <3>1 DEF NoRepeatWithinMemory
    <3> QED BY <2>1, <3>8, <3>9 DEF MemoryInv
  <2> QED BY <1>2, <2>2, <2>3, <2>4 DEF Next
<1>3. CASE UNCHANGED vars
  BY <1>3 DEF vars, MemoryInv, TypeOK, MemoryIsRecentEvents,
              NoRepeatWithinMemory
<1> QED BY <1>2, <1>3

LEMMA MemoryInvariant == Spec => []MemoryInv
<1> QED BY MemoryInvInit, MemoryInvStep, PTL DEF Spec

(* What the detector remembers is the wording of its latest automatic      *)
(* events and nothing else, and set and queue never drift apart.           *)
THEOREM RemembersWhatItAsked == Spec => []MemoryIsRecentEvents
<1>1. MemoryInv => MemoryIsRecentEvents
  BY DEF MemoryInv
<1> QED BY <1>1, MemoryInvariant, PTL

(* No automatic event repeats the wording of one of the RepeatMemory       *)
(* automatic events before it.                                             *)
THEOREM NoRepeats == Spec => []NoRepeatWithinMemory
<1>1. MemoryInv => NoRepeatWithinMemory
  BY DEF MemoryInv
<1> QED BY <1>1, MemoryInvariant, PTL

----------------------------------------------------------------------------
(* Attribution. *)

\* The text under consideration ends with the segment handed over.
LEMMA ConsideredFollows ==
  ASSUME TypeOK, PendingFollows, NEW f \in Fragments, NEW n \in Nat,
         n = Len(pending.text)
  PROVE  LET q == Considered(processed + 1, f)
         IN  /\ Len(q.text) = n + 1 /\ Len(q.sources) = n + 1
             /\ n <= processed
             /\ \A k \in 1..(n + 1) : q.sources[k] = processed - n + k
<1> DEFINE q == Considered(processed + 1, f)
<1>1. /\ pending.text \in Seq(Fragments) /\ pending.sources \in Seq(Nat)
      /\ processed \in Nat /\ processed + 1 \in Nat
  BY DEF TypeOK, Questions
<1>2. Len(q.text) = n + 1
  BY <1>1, AppendProperties DEF Considered
<1>3. q.sources = Append(pending.sources, processed + 1)
  BY DEF Considered
<1>4. Len(pending.sources) = n /\ n <= processed
  BY DEF PendingFollows
<1>5. /\ Len(q.sources) = n + 1
      /\ \A k \in 1..n : q.sources[k] = pending.sources[k]
      /\ q.sources[n + 1] = processed + 1
  <2> HIDE DEF q
  <2>1. processed + 1 \in Nat /\ pending.sources \in Seq(Nat)
    BY <1>1
  <2>2. /\ Len(q.sources) = Len(pending.sources) + 1
        /\ \A k \in 1..Len(pending.sources) : q.sources[k] = pending.sources[k]
        /\ q.sources[Len(pending.sources) + 1] = processed + 1
    BY <1>3, <2>1, AppendProperties
  <2> QED BY <1>4, <2>2
<1>6. ASSUME NEW k \in 1..(n + 1)
      PROVE  q.sources[k] = processed - n + k
  <2>1. CASE k = n + 1
    BY <1>1, <1>5, <2>1
  <2>2. CASE k # n + 1
    <3>1. k \in 1..n
      BY <2>2
    <3> QED BY <1>5, <3>1 DEF PendingFollows
  <2> QED BY <2>1, <2>2
<1> QED BY <1>2, <1>4, <1>5, <1>6

(* The events stay where they are and the pending question, if any, still  *)
(* begins after them.                                                      *)
LEMMA EventsKept ==
  ASSUME TypeOK, EventsPrecede, SourcesAreConsecutive, UNCHANGED emitted,
         processed' \in Nat, Len(pending'.text) \in Nat,
         processed - Len(pending.text) <= processed' - Len(pending'.text)
  PROVE  EventsPrecede' /\ SourcesAreConsecutive'
<1>1. Len(pending.text) \in Nat /\ processed \in Nat
  BY DEF TypeOK, Questions
<1>2. ASSUME NEW i \in 1..Len(emitted), NEW k \in 1..Len(emitted[i].sources)
      PROVE  emitted[i].sources[k] \in 1..(processed' - Len(pending'.text))
  <2>1. emitted[i].sources[k] \in 1..(processed - Len(pending.text))
    BY <1>2 DEF EventsPrecede
  <2> DEFINE s == emitted[i].sources[k]
             a == processed - Len(pending.text)
             b == processed' - Len(pending'.text)
  <2>2. a \in Int /\ b \in Int /\ a <= b /\ s \in 1..a
    BY <1>1, <2>1
  <2> HIDE DEF s, a, b
  <2>3. s \in 1..b
    BY <2>2
  <2> QED BY <2>3 DEF s, b
<1>3. EventsPrecede'
  BY <1>2 DEF EventsPrecede
<1> QED BY <1>3 DEF SourcesAreConsecutive

LEMMA TriggerAttributes ==
  ASSUME SourcesInv, TypeOK', NEW f \in Fragments,
         Trigger(Considered(processed + 1, f), processed + 1),
         processed' = processed + 1
  PROVE  SourcesInv'
<1> DEFINE q == Considered(processed + 1, f)
<1>1. PICK n \in Nat : n = Len(pending.text)
  BY DEF SourcesInv, TypeOK, Questions
<1>2. /\ Len(q.text) = n + 1 /\ Len(q.sources) = n + 1
      /\ n <= processed /\ processed \in Nat
      /\ \A k \in 1..(n + 1) : q.sources[k] = processed - n + k
  BY <1>1, ConsideredFollows DEF SourcesInv, TypeOK
<1>3. q \in Questions
  BY <1>2, ConsideredType DEF SourcesInv
<1>4. PICK e \in Events : /\ e.text = q.text /\ e.sources = q.sources
                          /\ emitted' = Append(emitted, e)
  BY <1>2, <1>3, EmittedEvent DEF SourcesInv
<1>5. pending' = NoQuestion /\ Len(pending'.text) = 0
      /\ Len(pending'.sources) = 0
  BY NoQuestionType DEF Trigger
<1>6. PendingFollows'
  BY <1>2, <1>5 DEF PendingFollows
<1>7. /\ Len(emitted) \in Nat
      /\ Len(emitted') = Len(emitted) + 1
      /\ \A i \in 1..Len(emitted) : emitted'[i] = emitted[i]
      /\ emitted'[Len(emitted) + 1] = e
  BY <1>4, AppendProperties DEF SourcesInv, TypeOK
<1> HIDE DEF q
<1>8. ASSUME NEW i \in 1..Len(emitted)
      PROVE  /\ emitted[i].text # << >>
             /\ Len(emitted[i].sources) = Len(emitted[i].text)
             /\ emitted[i].sources \in Seq(Nat)
             /\ \A k \in 1..Len(emitted[i].sources) :
                  emitted[i].sources[k] \in 1..(processed - n)
             /\ \A k \in 2..Len(emitted[i].sources) :
                  emitted[i].sources[k] = emitted[i].sources[k - 1] + 1
  <2>1. emitted[i] \in Events
    BY <1>8, ElementOfSeq DEF SourcesInv, TypeOK
  <2>2. emitted[i].sources \in Seq(Nat)
    BY <2>1 DEF Events
  <2> QED BY <1>1, <2>2 DEF SourcesInv, EventsPrecede, SourcesAreConsecutive
<1>9. /\ e.text # << >>
      /\ Len(e.sources) = Len(e.text)
      /\ e.sources \in Seq(Nat)
      /\ \A k \in 1..Len(e.sources) : e.sources[k] \in (processed - n + 1)..(processed + 1)
      /\ \A k \in 2..Len(e.sources) : e.sources[k] = e.sources[k - 1] + 1
  <2>1. e.text # << >>
    BY <1>2, <1>4, EmptySeq
  <2>2. Len(e.sources) = n + 1 /\ Len(e.text) = n + 1
    BY <1>2, <1>4
  <2>3. ASSUME NEW k \in 1..(n + 1)
        PROVE  e.sources[k] \in (processed - n + 1)..(processed + 1)
    BY <1>2, <1>4
  <2>4. ASSUME NEW k \in 2..(n + 1)
        PROVE  e.sources[k] = e.sources[k - 1] + 1
    <3>1. k \in 1..(n + 1) /\ k - 1 \in 1..(n + 1)
      OBVIOUS
    <3>2. e.sources[k] = processed - n + k /\ e.sources[k - 1] = processed - n + (k - 1)
      BY <1>2, <1>4, <3>1
    <3> QED BY <1>2, <3>2
  <2>5. e.sources \in Seq(Nat)
    BY <1>4 DEF Events
  <2> QED BY <2>1, <2>2, <2>3, <2>4, <2>5
<1>10. EventsPrecede'
  <2>1. ASSUME NEW i \in 1..Len(emitted')
        PROVE  /\ emitted'[i].text # << >>
               /\ \A k \in 1..Len(emitted'[i].sources) :
                    emitted'[i].sources[k] \in 1..(processed' - Len(pending'.text))
    <3>1. CASE i = Len(emitted) + 1
      <4>1. emitted'[i] = e
        BY <1>7, <3>1
      <4>2. (processed - n + 1)..(processed + 1) \subseteq 1..(processed' - Len(pending'.text))
        BY <1>2, <1>5
      <4> QED BY <1>9, <4>1, <4>2
    <3>2. CASE i # Len(emitted) + 1
      <4>1. i \in 1..Len(emitted) /\ emitted'[i] = emitted[i]
        BY <1>7, <3>2
      <4>2. 1..(processed - n) \subseteq 1..(processed' - Len(pending'.text))
        BY <1>2, <1>5
      <4> QED BY <1>8, <4>1, <4>2
    <3> QED BY <3>1, <3>2
  <2> QED BY <2>1 DEF EventsPrecede
<1>11. ASSUME NEW i \in 1..Len(emitted')
       PROVE  /\ Len(emitted'[i].sources) = Len(emitted'[i].text)
              /\ \A k \in 2..Len(emitted'[i].sources) :
                   emitted'[i].sources[k] = emitted'[i].sources[k - 1] + 1
  <2>1. CASE i = Len(emitted) + 1
    BY <1>7, <1>9, <2>1
  <2>2. CASE i # Len(emitted) + 1
    <3>1. i \in 1..Len(emitted) /\ emitted'[i] = emitted[i]
      BY <1>7, <2>2
    <3> QED BY <1>8, <3>1
  <2> QED BY <2>1, <2>2
<1>12. ASSUME NEW i \in 1..Len(emitted)
       PROVE  Range(emitted[i].sources) \intersect Range(e.sources) = {}
  <2>1. \A x \in Range(emitted[i].sources) : x \in 1..(processed - n)
    <3>1. DOMAIN emitted[i].sources = 1..Len(emitted[i].sources)
      BY <1>8, LenProperties
    <3> QED BY <1>8, <3>1 DEF Range
  <2>2. \A x \in Range(e.sources) : x \in (processed - n + 1)..(processed + 1)
    <3>1. DOMAIN e.sources = 1..Len(e.sources)
      BY <1>9, LenProperties
    <3> QED BY <1>9, <3>1 DEF Range
  <2>3. 1..(processed - n) \intersect (processed - n + 1)..(processed + 1) = {}
    BY <1>2
  <2> QED BY <2>1, <2>2, <2>3
<1>13. ASSUME NEW i \in 1..Len(emitted'), NEW j \in 1..Len(emitted'), i # j
       PROVE  Range(emitted'[i].sources) \intersect Range(emitted'[j].sources) = {}
  <2>1. CASE i = Len(emitted) + 1
    <3>1. j \in 1..Len(emitted) /\ emitted'[j] = emitted[j] /\ emitted'[i] = e
      BY <1>7, <1>13, <2>1
    <3> QED BY <1>12, <3>1
  <2>2. CASE j = Len(emitted) + 1
    <3>1. i \in 1..Len(emitted) /\ emitted'[i] = emitted[i] /\ emitted'[j] = e
      BY <1>7, <1>13, <2>2
    <3> QED BY <1>12, <3>1
  <2>3. CASE i # Len(emitted) + 1 /\ j # Len(emitted) + 1
    <3>1. /\ i \in 1..Len(emitted) /\ emitted'[i] = emitted[i]
          /\ j \in 1..Len(emitted) /\ emitted'[j] = emitted[j]
      BY <1>7, <2>3
    <3> QED BY <1>13, <3>1 DEF SourcesInv, SourcesAreConsecutive
  <2> QED BY <2>1, <2>2, <2>3
<1>14. SourcesAreConsecutive'
  BY <1>11, <1>13 DEF SourcesAreConsecutive
<1> QED BY <1>6, <1>10, <1>14 DEF SourcesInv

LEMMA SourcesInvStep ==
  ASSUME SourcesInv, [Next]_vars
  PROVE  SourcesInv'
<1> USE DEF SourcesInv
<1>1. CASE UNCHANGED vars
  BY <1>1 DEF vars, TypeOK, PendingFollows, EventsPrecede,
              SourcesAreConsecutive
<1>2. CASE Next
  <2>1. TypeOK'
    BY <1>2, TypesStep
  <2>2. PICK n \in Nat : n = Len(pending.text)
    BY DEF TypeOK, Questions
  <2>3. processed \in Nat
    BY DEF TypeOK
  <2>4. ASSUME NEW f \in Fragments, ProcessFinalized(processed + 1, f)
        PROVE  SourcesInv'
    <3> DEFINE q == Considered(processed + 1, f)
    <3>1. /\ Len(q.text) = n + 1 /\ Len(q.sources) = n + 1
          /\ n <= processed
          /\ \A k \in 1..(n + 1) : q.sources[k] = processed - n + k
      BY <2>2, ConsideredFollows
    <3>2. processed' = processed + 1
      BY <2>4 DEF ProcessFinalized
    <3>3. CASE Hold(q)
      <4>1. pending' = q /\ UNCHANGED emitted
        BY <3>3 DEF Hold
      <4> HIDE DEF q
      <4>2. PendingFollows'
        <5>1. /\ Len(pending'.text) = n + 1 /\ Len(pending'.sources) = n + 1
              /\ n + 1 <= processed'
          BY <2>3, <3>1, <3>2, <4>1
        <5>2. ASSUME NEW k \in 1..(n + 1)
              PROVE  pending'.sources[k] = processed' - (n + 1) + k
          <6>1. pending'.sources[k] = processed - n + k
            BY <3>1, <4>1
          <6> QED BY <2>3, <3>2, <6>1
        <5> QED BY <5>1, <5>2 DEF PendingFollows
      <4>3. EventsPrecede' /\ SourcesAreConsecutive'
        <5>1. Len(pending'.text) = n + 1
          BY <3>1, <4>1
        <5>2. /\ processed' \in Nat /\ Len(pending'.text) \in Nat
              /\ processed - Len(pending.text) <= processed' - Len(pending'.text)
          BY <2>2, <2>3, <3>2, <5>1
        <5> QED BY <4>1, <5>2, EventsKept
      <4> QED BY <2>1, <4>2, <4>3
    <3>4. CASE Drop(q, processed + 1)
      <4>1. pending' = NoQuestion /\ UNCHANGED emitted
        BY <3>4 DEF Drop
      <4>2. Len(pending'.text) = 0 /\ Len(pending'.sources) = 0
        BY <4>1, NoQuestionType
      <4>3. PendingFollows'
        BY <2>3, <3>2, <4>2 DEF PendingFollows
      <4>4. EventsPrecede' /\ SourcesAreConsecutive'
        <5>1. /\ processed' \in Nat /\ Len(pending'.text) \in Nat
              /\ processed - Len(pending.text) <= processed' - Len(pending'.text)
          <6>1. Len(pending.text) = n /\ Len(pending'.text) = 0
            BY <2>2, <4>2
          <6>2. n \in Nat /\ processed - n <= (processed + 1) - 0
            BY <2>3
          <6> QED BY <2>3, <3>2, <6>1, <6>2
        <5> QED BY <4>1, <5>1, EventsKept
      <4> QED BY <2>1, <4>3, <4>4
    <3>5. CASE Trigger(q, processed + 1)
      BY <2>1, <3>2, <3>5, TriggerAttributes
    <3> QED BY <2>4, <3>3, <3>4, <3>5 DEF ProcessFinalized
  <2>5. CASE ManualTrigger
    BY <2>1, <2>5 DEF ManualTrigger, PendingFollows, EventsPrecede,
                      SourcesAreConsecutive
  <2>6. CASE Reset
    <3>1. pending' = NoQuestion /\ emitted' = << >> /\ processed' = 0
      BY <2>6 DEF Reset
    <3>2. Len(pending'.text) = 0 /\ Len(pending'.sources) = 0
      BY <3>1, NoQuestionType
    <3>3. PendingFollows'
      BY <3>1, <3>2 DEF PendingFollows
    <3> QED BY <2>1, <3>1, <3>3 DEF EventsPrecede, SourcesAreConsecutive
  <2> QED BY <1>2, <2>4, <2>5, <2>6 DEF Next
<1> QED BY <1>1, <1>2

LEMMA SourcesInvInit ==
  ASSUME Init
  PROVE  SourcesInv
<1>1. TypeOK
  BY MemoryInvInit DEF MemoryInv
<1>2. Len(pending.text) = 0 /\ Len(pending.sources) = 0 /\ processed = 0
  BY NoQuestionType DEF Init
<1>3. PendingFollows
  BY <1>2 DEF PendingFollows
<1> QED BY <1>1, <1>3 DEF Init, SourcesInv, EventsPrecede, SourcesAreConsecutive

(* An event is attributed to consecutive segments, one for each fragment   *)
(* of its text, and no segment is the source of two events.                *)
THEOREM AttributionIsExact == Spec => []SourcesAreConsecutive
<1>1. Init => SourcesInv
  BY SourcesInvInit
<1>2. SourcesInv /\ [Next]_vars => SourcesInv'
  BY SourcesInvStep
<1>3. SourcesInv => SourcesAreConsecutive
  BY DEF SourcesInv
<1> QED BY <1>1, <1>2, <1>3, PTL DEF Spec
=============================================================================
