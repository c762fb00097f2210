---------------------------- MODULE OverlayProofs ----------------------------
(***************************************************************************)
(* The two ends of the overlay's socket, proved for any number of daemons, *)
(* publishers, connections and events and any capacities.                  *)
(*                                                                         *)
(* At the server (OverlayIpc), what a client receives and what it is asked *)
(* for: the stream rebuilds the snapshot and the actions arrive without a  *)
(* gap.  Neither property is inductive.  That the stream is whole for a    *)
(* client that registers rests on what its queue holds before it does, and *)
(* on which thread has reached what by then (ThreadsInv, StreamInv); that  *)
(* the actions have no gap rests on those still unread being the last ones *)
(* sent, up to the moment the reader gives up (ActionsInv).                *)
(*                                                                         *)
(* At the application (OverlayApplication), the socket path and what the   *)
(* user is shown: a daemon that is alone on the path keeps it, and the     *)
(* picture is one state of one daemon.  AloneIsReachable is not inductive: *)
(* that the path is free when a daemon comes to bind it, and that nobody   *)
(* removes it later, follows from there being no other daemon alive, which *)
(* `overlapped` has to be known for.  Nor is ShownIsOneState: that the     *)
(* next event fits what is shown needs all that is read ahead and in the   *)
(* socket to be numbered on from there, up to the daemon's own version     *)
(* (NumberingInv).                                                         *)
(*                                                                         *)
(* In order: induction over the natural numbers; the snapshot under one    *)
(* event and under many (Replay); the types; the stream; the actions; the  *)
(* path; what is rendered of a batch; what is shown.                       *)
(***************************************************************************)
EXTENDS OverlayIpc, OverlayApplication, SequenceTheorems,
        WellFoundedInduction, TLAPS

\* Which connections are where.
ThreadsInv ==
  /\ greeting = {c \in Conns : handler[c] = "greeted"}
  /\ \A c \in clients : handler[c] = "reading"
  /\ \A c \in Conns :
       /\ peer[c] = "unborn" => handler[c] = "unborn"
       /\ handler[c] \in {"unborn", "accepted", "greeted"} =>
            writer[c] = "unborn" /\ wire[c] = << >>

\* What a client will show when it has what is on its way.
Received(c) == Replay(view[c], wire[c] \o queue[c])

InFlight(c) ==
  /\ Publishing = {} => Received(c) = snapshot
  /\ \A p \in Publishing :
       Publishing = {p} /\ Apply(Received(c), fanout[p]) = snapshot

StreamInv ==
  /\ \A c \in greeting \ torn :
       Publishing = {} /\ queue[c] = <<SnapshotOf(snapshot)>>
  /\ \A c \in clients \ torn : peer[c] = "open" => InFlight(c)

Mine(c) == {i \in 1..Len(actions) : actions[i].conn = c}

\* The actions of c in the channel are those from the one after the last
\* that was taken; those unread, while there is a reader, follow them and
\* end with the last that was sent.
Consecutive(c) ==
  /\ \A i, j \in Mine(c) : i < j => actions[i].n < actions[j].n
  /\ \A k \in 1..Len(uplink[c]) : uplink[c][k] = sent[c] - Len(uplink[c]) + k
  /\ \E last \in taken[c]..sent[c] :
       /\ \A i \in Mine(c) : actions[i].n \in (taken[c] + 1)..last
       /\ \A n \in (taken[c] + 1)..last : \E i \in Mine(c) : actions[i].n = n
       /\ handler[c] \in {"unborn", "accepted", "greeted", "reading"} =>
            last + Len(uplink[c]) = sent[c]

ActionsInv == \A c \in Conns : Consecutive(c)

----------------------------------------------------------------------------
(* Induction over the natural numbers, with a set as the hypothesis.       *)

(* The least-number principle, for a set of natural numbers: it rests on   *)
(* the library's theorem that < is well-founded on them.                   *)
LEMMA LeastElement ==
  ASSUME NEW T, T \subseteq Nat, T # {}
  PROVE  \E x \in T : \A y \in T : x <= y
<1> DEFINE R == {p \in Nat \X Nat : p[1] < p[2]}
<1>1. IsWellFoundedOn(R, Nat)
  BY NatLessThanWellFounded DEF OpToRel
<1>2. PICK x \in T : \A y \in T : <<y, x>> \notin R
  <2> HIDE DEF R
  <2> QED BY <1>1, WFMin
<1>3. ASSUME NEW y \in T
      PROVE  x <= y
  <2>1. <<y, x>> \in Nat \X Nat
    OBVIOUS
  <2>2. ~(<<y, x>>[1] < <<y, x>>[2])
    BY <1>2, <2>1
  <2> QED BY <2>2
<1> QED BY <1>3

(* Induction over the natural numbers, with the induction hypothesis as a  *)
(* set.                                                                    *)
LEMMA SetInduction ==
  ASSUME NEW S, 0 \in S, \A n \in Nat : n \in S => n + 1 \in S
  PROVE  Nat \subseteq S
<1> DEFINE T == Nat \ S
<1>1. SUFFICES ASSUME T # {} PROVE FALSE
  OBVIOUS
<1>2. PICK x \in T : \A y \in T : x <= y
  <2> HIDE DEF T
  <2>1. T \subseteq Nat
    BY DEF T
  <2> QED BY <1>1, <2>1, LeastElement
<1>3. x - 1 \in T
  BY <1>2
<1> QED BY <1>2, <1>3

----------------------------------------------------------------------------
(* The snapshot under one event and under many.                            *)

(* No event is the mark of a publisher that has nothing to send out.       *)
LEMMA EventKinds ==
  ASSUME NEW event \in DaemonEvents
  PROVE  /\ event # Nothing
         /\ event.kind \in {"snapshot", "listening", "transcription",
                            "question", "delta", "done", "degraded", "error",
                            "dismissed"}
  BY DEF DaemonEvents, Nothing

LEMMA EmptyType == EmptySnapshot \in Snapshots
  BY DEF EmptySnapshot, Snapshots, TranscriptionStates

(* A greeting replaces whatever the client showed.                         *)
LEMMA SnapshotReplaces ==
  ASSUME NEW old \in Snapshots, NEW new \in Snapshots
  PROVE  /\ SnapshotOf(new) \in DaemonEvents
         /\ Apply(old, SnapshotOf(new)) = new
  BY DEF SnapshotOf, DaemonEvents, Apply

LEMMA NewQuestionType ==
  ASSUME NEW state \in Snapshots, NEW id \in Nat
  PROVE  NewQuestion(state, id) \in Snapshots
<1>1. << >> \in Seq(Nat)
  OBVIOUS
<1> QED BY <1>1 DEF NewQuestion, Snapshots

(* apply_daemon_event turns a snapshot into a snapshot.                    *)
LEMMA ApplyType ==
  ASSUME NEW state \in Snapshots, NEW event \in DaemonEvents
  PROVE  Apply(state, event) \in Snapshots
<1>1. CASE event.kind = "snapshot"
  BY <1>1 DEF Apply, DaemonEvents
<1>2. CASE event.kind = "listening"
  BY <1>2 DEF Apply, DaemonEvents, Snapshots
<1>3. CASE event.kind = "transcription"
  BY <1>3 DEF Apply, DaemonEvents, Snapshots
<1>4. CASE event.kind = "question"
  <2>1. event.question \in Nat
    BY <1>4 DEF DaemonEvents
  <2>2. Apply(state, event) = NewQuestion(state, event.question)
    BY <1>4 DEF Apply
  <2> QED BY <2>1, <2>2, NewQuestionType
<1>5. CASE event.kind = "delta"
  <2>1. event.n \in Nat
    BY <1>5 DEF DaemonEvents
  <2>2. Append(state.answer, event.n) \in Seq(Nat)
    BY <2>1, AppendProperties DEF Snapshots
  <2>3. Apply(state, event) = ApplyDelta(state, event)
    BY <1>5 DEF Apply
  <2>4. CASE state.question # event.question
    BY <2>3, <2>4 DEF ApplyDelta
  <2>5. CASE state.question = event.question /\ Len(state.answer) < MaxAnswer
    <3>1. Apply(state, event) = [state EXCEPT
            !.answer = Append(@, event.n), !.complete = FALSE]
      BY <2>3, <2>5 DEF ApplyDelta
    <3> QED BY <2>2, <3>1 DEF Snapshots
  <2>6. CASE state.question = event.question
                 /\ ~(Len(state.answer) < MaxAnswer)
    BY <2>3, <2>6 DEF ApplyDelta, Snapshots
  <2> QED BY <2>4, <2>5, <2>6
<1>6. CASE event.kind = "done"
  BY <1>6 DEF Apply, ApplyDone, DaemonEvents, Snapshots
<1>7. CASE event.kind = "degraded"
  BY <1>7 DEF Apply, DaemonEvents, Snapshots
<1>8. CASE event.kind = "error"
  BY <1>8 DEF Apply, DaemonEvents, Snapshots
<1>9. CASE event.kind = "dismissed"
  <2>1. Apply(state, event) = NewQuestion(state, 0)
    BY <1>9 DEF Apply
  <2> QED BY <2>1, NewQuestionType
<1> QED BY <1>1, <1>2, <1>3, <1>4, <1>5, <1>6, <1>7, <1>8, <1>9, EventKinds

(* The snapshots a client goes through as it applies one event after the   *)
(* other.                                                                  *)
IsTrace(f, state, events) ==
  /\ f \in [0..Len(events) -> Snapshots]
  /\ f[0] = state
  /\ \A n \in 1..Len(events) : f[n] = Apply(f[n - 1], events[n])

LEMMA TraceExists ==
  ASSUME NEW state \in Snapshots, NEW events \in Seq(DaemonEvents)
  PROVE  \E f : IsTrace(f, state, events)
<1> DEFINE Upto(k) ==
             {f \in [0..k -> Snapshots] :
                /\ f[0] = state
                /\ \A n \in 1..k : f[n] = Apply(f[n - 1], events[n])}
           Good == {k \in Nat : k <= Len(events) => Upto(k) # {}}
<1>1. 0 \in Good
  <2>1. [i \in 0..0 |-> state] \in Upto(0)
    OBVIOUS
  <2> QED BY <2>1
<1>2. ASSUME NEW k \in Nat, k \in Good
      PROVE  k + 1 \in Good
  <2>1. CASE k + 1 <= Len(events)
    <3>1. PICK f \in Upto(k) : TRUE
      BY <1>2, <2>1
    <3>2. Apply(f[k], events[k + 1]) \in Snapshots
      <4>1. events[k + 1] \in DaemonEvents
        BY <2>1, ElementOfSeq
      <4>2. f[k] \in Snapshots
        BY <3>1
      <4> QED BY <4>1, <4>2, ApplyType
    <3> DEFINE g == [i \in 0..(k + 1) |->
                       IF i = k + 1 THEN Apply(f[k], events[k + 1]) ELSE f[i]]
    <3>3. g \in [0..(k + 1) -> Snapshots]
      BY <3>1, <3>2
    <3>4. ASSUME NEW n \in 1..(k + 1)
          PROVE  g[n] = Apply(g[n - 1], events[n])
      <4>1. CASE n = k + 1
        BY <4>1
      <4>2. CASE n \in 1..k
        BY <3>1, <4>2
      <4> QED BY <4>1, <4>2
    <3>5. g[0] = state
      BY <3>1
    <3>6. g \in Upto(k + 1)
      BY <3>3, <3>4, <3>5
    <3>7. Upto(k + 1) # {}
      BY <3>6
    <3> HIDE DEF Upto
    <3> QED BY <3>7
  <2>2. CASE ~(k + 1 <= Len(events))
    BY <2>2
  <2> QED BY <2>1, <2>2
<1>3. Nat \subseteq Good
  <2> HIDE DEF Good
  <2> QED BY <1>1, <1>2, SetInduction
<1>4. Len(events) \in Good
  <2> HIDE DEF Good
  <2> QED BY <1>3, LenProperties
<1>5. PICK f \in Upto(Len(events)) : TRUE
  BY <1>4
<1>6. IsTrace(f, state, events)
  BY <1>5 DEF IsTrace
<1> QED BY <1>6

(* There is but one, and Replay is its end.                                *)
LEMMA ReplayEndsTrace ==
  ASSUME NEW state \in Snapshots, NEW events \in Seq(DaemonEvents),
         NEW f, IsTrace(f, state, events)
  PROVE  Replay(state, events) = f[Len(events)]
<1> DEFINE Rec(g) == [n \in 0..Len(events) |->
                        IF n = 0 THEN state ELSE Apply(g[n - 1], events[n])]
           F == CHOOSE g : g = Rec(g)
<1>1. Replay(state, events) = F[Len(events)]
  BY DEF Replay
<1>2. Len(events) \in Nat
  BY LenProperties
<1>3. f = Rec(f)
  BY <1>2 DEF IsTrace
<1>4. F = Rec(F)
  <2> HIDE DEF Rec
  <2> QED BY <1>3
<1> HIDE DEF F
<1>5. F[0] = state
  <2>1. Rec(F)[0] = state
    BY <1>2
  <2> HIDE DEF Rec
  <2> QED BY <1>4, <2>1
<1>6. \A n \in 1..Len(events) : F[n] = Apply(F[n - 1], events[n])
  <2> TAKE n \in 1..Len(events)
  <2>1. Rec(F)[n] = Apply(F[n - 1], events[n])
    BY <1>2
  <2> HIDE DEF Rec
  <2> QED BY <1>4, <2>1
<1> DEFINE Same == {n \in Nat : n <= Len(events) => F[n] = f[n]}
<1>7. 0 \in Same
  BY <1>5 DEF IsTrace
<1>8. ASSUME NEW n \in Nat, n \in Same
      PROVE  n + 1 \in Same
  <2>1. CASE n + 1 <= Len(events)
    <3>1. F[n + 1] = Apply(F[n], events[n + 1])
      BY <1>2, <1>6, <2>1
    <3>2. f[n + 1] = Apply(f[n], events[n + 1])
      BY <1>2, <2>1 DEF IsTrace
    <3>3. F[n] = f[n]
      BY <1>2, <1>8, <2>1
    <3> QED BY <3>1, <3>2, <3>3
  <2>2. CASE ~(n + 1 <= Len(events))
    BY <2>2
  <2> QED BY <2>1, <2>2
<1>9. Nat \subseteq Same
  <2> HIDE DEF Same
  <2> QED BY <1>7, <1>8, SetInduction
<1> QED BY <1>1, <1>2, <1>9

(* Nothing more to receive, one more event at the end of the stream, and   *)
(* one taken from its head.                                                *)
LEMMA ReplayEmpty ==
  ASSUME NEW state \in Snapshots
  PROVE  Replay(state, << >>) = state
<1>1. << >> \in Seq(DaemonEvents) /\ Len(<< >>) = 0
  OBVIOUS
<1>2. PICK f : IsTrace(f, state, << >>)
  BY <1>1, TraceExists
<1>3. Replay(state, << >>) = f[Len(<< >>)]
  BY <1>1, <1>2, ReplayEndsTrace
<1> QED BY <1>1, <1>2, <1>3 DEF IsTrace

LEMMA ReplayAppend ==
  ASSUME NEW state \in Snapshots, NEW events \in Seq(DaemonEvents),
         NEW event \in DaemonEvents
  PROVE  Replay(state, Append(events, event))
           = Apply(Replay(state, events), event)
<1>1. PICK f : IsTrace(f, state, events)
  BY TraceExists
<1>2. Replay(state, events) = f[Len(events)]
  BY <1>1, ReplayEndsTrace
<1> DEFINE longer == Append(events, event)
           m == Len(events)
           g == [i \in 0..Len(longer) |->
                   IF i = m + 1 THEN Apply(f[m], event) ELSE f[i]]
<1>3. /\ m \in Nat /\ longer \in Seq(DaemonEvents) /\ Len(longer) = m + 1
      /\ longer[m + 1] = event
      /\ \A n \in 1..m : longer[n] = events[n]
  BY LenProperties, AppendProperties
<1>4. IsTrace(g, state, longer)
  <2> HIDE DEF longer
  <2>1. f \in [0..m -> Snapshots] /\ f[0] = state
    BY <1>1 DEF IsTrace
  <2>2. \A n \in 1..m : f[n] = Apply(f[n - 1], events[n])
    BY <1>1 DEF IsTrace
  <2>3. Apply(f[m], event) \in Snapshots
    BY <1>3, <2>1, ApplyType
  <2> HIDE DEF m
  <2>4. g \in [0..Len(longer) -> Snapshots]
    BY <1>3, <2>1, <2>3
  <2>5. g[0] = state
    BY <1>3, <2>1
  <2>6. ASSUME NEW n \in 1..Len(longer)
        PROVE  g[n] = Apply(g[n - 1], longer[n])
    <3>1. CASE n = m + 1
      BY <1>3, <3>1
    <3>2. CASE n \in 1..m
      BY <1>3, <2>2, <3>2
    <3> QED BY <1>3, <3>1, <3>2
  <2> QED BY <2>4, <2>5, <2>6 DEF IsTrace
<1>5. Replay(state, longer) = g[Len(longer)]
  <2> HIDE DEF longer, g
  <2> QED BY <1>3, <1>4, ReplayEndsTrace
<1> QED BY <1>2, <1>3, <1>5

LEMMA ReplayHead ==
  ASSUME NEW state \in Snapshots, NEW events \in Seq(DaemonEvents),
         events # << >>
  PROVE  Replay(state, events)
           = Replay(Apply(state, Head(events)), Tail(events))
<1> DEFINE next == Apply(state, Head(events))
           rest == Tail(events)
           m == Len(rest)
<1>1. /\ m \in Nat /\ rest \in Seq(DaemonEvents) /\ Len(events) = m + 1
      /\ Head(events) = events[1] /\ Head(events) \in DaemonEvents
      /\ \A n \in 1..m : rest[n] = events[n + 1]
  BY HeadTailProperties, LenProperties
<1>2. next \in Snapshots
  BY <1>1, ApplyType
<1>3. PICK f : IsTrace(f, next, rest)
  <2> HIDE DEF next, rest
  <2> QED BY <1>1, <1>2, TraceExists
<1>4. Replay(next, rest) = f[m]
  <2> HIDE DEF next, rest
  <2> QED BY <1>1, <1>2, <1>3, ReplayEndsTrace
<1> DEFINE g == [i \in 0..Len(events) |-> IF i = 0 THEN state ELSE f[i - 1]]
<1>5. IsTrace(g, state, events)
  <2>1. f \in [0..m -> Snapshots] /\ f[0] = Apply(state, events[1])
    BY <1>1, <1>3 DEF IsTrace
  <2>2. \A n \in 1..m : f[n] = Apply(f[n - 1], rest[n])
    BY <1>3 DEF IsTrace
  <2> HIDE DEF m, rest
  <2>3. g \in [0..Len(events) -> Snapshots]
    BY <1>1, <2>1
  <2>4. g[0] = state
    BY <1>1
  <2>5. ASSUME NEW n \in 1..Len(events)
        PROVE  g[n] = Apply(g[n - 1], events[n])
    <3>1. CASE n = 1
      BY <1>1, <2>1, <3>1
    <3>2. CASE n # 1
      <4>1. PICK k \in 1..m : n = k + 1
        BY <1>1, <3>2
      <4> QED BY <1>1, <2>2, <4>1
    <3> QED BY <3>1, <3>2
  <2> QED BY <2>3, <2>4, <2>5 DEF IsTrace
<1>6. Replay(state, events) = g[Len(events)]
  <2> HIDE DEF g
  <2> QED BY <1>5, ReplayEndsTrace
<1> QED BY <1>1, <1>4, <1>6

LEMMA ReplayOfGreeting ==
  ASSUME NEW old \in Snapshots, NEW new \in Snapshots
  PROVE  Replay(old, <<SnapshotOf(new)>>) = new
<1>1. << >> \in Seq(DaemonEvents) /\ Append(<< >>, SnapshotOf(new)) = <<SnapshotOf(new)>>
  OBVIOUS
<1>2. Replay(old, Append(<< >>, SnapshotOf(new)))
        = Apply(Replay(old, << >>), SnapshotOf(new))
  BY <1>1, SnapshotReplaces, ReplayAppend
<1> QED BY <1>1, <1>2, ReplayEmpty, SnapshotReplaces

----------------------------------------------------------------------------
(* A sequence of events that goes from one queue into the next.            *)

LEMMA HeadThenTail ==
  ASSUME NEW S, NEW t \in Seq(S), t # << >>
  PROVE  <<Head(t)>> \o Tail(t) = t
<1>1. /\ Head(t) \in S /\ Tail(t) \in Seq(S) /\ Len(Tail(t)) = Len(t) - 1
      /\ Head(t) = t[1]
      /\ \A i \in 1..Len(Tail(t)) : Tail(t)[i] = t[i + 1]
  BY HeadTailProperties
<1>2. PICK n \in Nat \ {0} : n = Len(t)
  BY EmptySeq
<1> DEFINE first == <<Head(t)>>
<1>3. first \in Seq(S) /\ Len(first) = 1 /\ first[1] = t[1]
  BY <1>1
<1> HIDE DEF first
<1>4. /\ first \o Tail(t) \in Seq(S)
      /\ Len(first \o Tail(t)) = Len(first) + Len(Tail(t))
      /\ \A i \in 1..(Len(first) + Len(Tail(t))) :
           (first \o Tail(t))[i]
             = IF i <= Len(first) THEN first[i] ELSE Tail(t)[i - Len(first)]
  BY <1>1, <1>3, ConcatProperties
<1>5. Len(first) + Len(Tail(t)) = n /\ Len(Tail(t)) = n - 1
  BY <1>1, <1>2, <1>3
<1>6. ASSUME NEW i \in 1..n
      PROVE  (first \o Tail(t))[i] = t[i]
  <2>1. CASE i = 1
    BY <1>3, <1>4, <1>5, <2>1
  <2>2. CASE i # 1
    BY <1>1, <1>3, <1>4, <1>5, <2>2
  <2> QED BY <2>1, <2>2
<1>7. first \o Tail(t) = t
  BY <1>2, <1>4, <1>5, <1>6, SeqEqual
<1> QED BY <1>7 DEF first

LEMMA Moves ==
  ASSUME NEW S, NEW s \in Seq(S), NEW t \in Seq(S), t # << >>
  PROVE  Append(s, Head(t)) \o Tail(t) = s \o t
<1>1. Head(t) \in S /\ Tail(t) \in Seq(S) /\ <<Head(t)>> \in Seq(S)
  BY HeadTailProperties
<1>2. Append(s, Head(t)) = s \o <<Head(t)>>
  BY <1>1, AppendIsConcat
<1>3. (s \o <<Head(t)>>) \o Tail(t) = s \o (<<Head(t)>> \o Tail(t))
  BY <1>1, ConcatAssociative
<1> QED BY <1>2, <1>3, HeadThenTail

LEMMA Grows ==
  ASSUME NEW S, NEW s \in Seq(S), NEW t \in Seq(S), NEW e \in S
  PROVE  s \o Append(t, e) = Append(s \o t, e)
<1>1. <<e>> \in Seq(S)
  OBVIOUS
<1>2. Append(t, e) = t \o <<e>>
  BY AppendIsConcat
<1>3. s \o t \in Seq(S)
  BY ConcatProperties
<1>4. Append(s \o t, e) = (s \o t) \o <<e>>
  BY <1>3, AppendIsConcat
<1> QED BY <1>1, <1>2, <1>4, ConcatAssociative

LEMMA Shrinks ==
  ASSUME NEW S, NEW s \in Seq(S), NEW t \in Seq(S), s # << >>
  PROVE  /\ s \o t # << >>
         /\ Head(s \o t) = Head(s)
         /\ Tail(s \o t) = Tail(s) \o t
<1>1. /\ Tail(s) \in Seq(S) /\ Len(Tail(s)) = Len(s) - 1
      /\ \A i \in 1..Len(Tail(s)) : Tail(s)[i] = s[i + 1]
  BY HeadTailProperties
<1>2. PICK m \in Nat \ {0} : m = Len(s)
  BY EmptySeq
<1>3. PICK n \in Nat : n = Len(t)
  BY LenProperties
<1>4. /\ s \o t \in Seq(S) /\ Len(s \o t) = m + n
      /\ \A i \in 1..(m + n) :
           (s \o t)[i] = IF i <= m THEN s[i] ELSE t[i - m]
  BY <1>2, <1>3, ConcatProperties
<1>5. s \o t # << >>
  BY <1>2, <1>4
<1>6. Head(s \o t) = Head(s)
  BY <1>2, <1>4, <1>5
<1>7. /\ Tail(s \o t) \in Seq(S) /\ Len(Tail(s \o t)) = m + n - 1
      /\ \A i \in 1..(m + n - 1) : Tail(s \o t)[i] = (s \o t)[i + 1]
  BY <1>4, <1>5, HeadTailProperties
<1>8. /\ Tail(s) \o t \in Seq(S) /\ Len(Tail(s) \o t) = m + n - 1
      /\ \A i \in 1..(m + n - 1) :
           (Tail(s) \o t)[i]
             = IF i <= m - 1 THEN Tail(s)[i] ELSE t[i - (m - 1)]
  <2>1. Len(Tail(s)) + Len(t) = m + n - 1 /\ Len(Tail(s)) = m - 1
    BY <1>1, <1>2, <1>3
  <2> QED BY <1>1, <2>1, ConcatProperties
<1>9. ASSUME NEW i \in 1..(m + n - 1)
      PROVE  Tail(s \o t)[i] = (Tail(s) \o t)[i]
  <2>1. Tail(s \o t)[i] = IF i + 1 <= m THEN s[i + 1] ELSE t[i + 1 - m]
    BY <1>2, <1>3, <1>4, <1>7
  <2>2. CASE i <= m - 1
    BY <1>1, <1>2, <1>8, <2>1, <2>2
  <2>3. CASE ~(i <= m - 1)
    BY <1>2, <1>8, <2>1, <2>3
  <2> QED BY <2>2, <2>3
<1> QED BY <1>5, <1>6, <1>7, <1>8, <1>9, SeqEqual

----------------------------------------------------------------------------
(* Types.                                                                  *)

LEMMA InitTypes == Init => TypeOK
  BY EmptyType DEF Init, TypeOK, Nothing

LEMMA TypesStep ==
  ASSUME TypeOK, ThreadsInv, [Next]_vars
  PROVE  TypeOK'
<1>1. CASE UNCHANGED vars
  BY <1>1 DEF TypeOK, vars, clientVars
<1>2. ASSUME NEW p \in Publishers, NEW event \in Published,
             PublishApply(p, event)
      PROVE  TypeOK'
  <2>1. event \in DaemonEvents
    BY IpcConfig
  <2>2. Apply(snapshot, event) \in Snapshots
    BY <2>1, ApplyType DEF TypeOK
  <2>3. fanout' \in [Publishers -> {Nothing} \union DaemonEvents]
    BY <1>2, <2>1 DEF PublishApply, TypeOK
  <2>4. torn' \subseteq Conns
    BY <1>2 DEF PublishApply, TypeOK, ThreadsInv
  <2>5. /\ snapshot' \in Snapshots
    BY <1>2, <2>2 DEF PublishApply
  <2>6. /\ clients' = clients /\ handler' = handler /\ queue' = queue
        /\ wire' = wire /\ writer' = writer /\ actions' = actions
        /\ evicted' = evicted /\ taken' = taken
        /\ peer' = peer /\ view' = view /\ uplink' = uplink /\ sent' = sent
    BY <1>2 DEF PublishApply, clientVars
  <2> QED BY <2>3, <2>4, <2>5, <2>6 DEF TypeOK
<1>3. ASSUME NEW p \in Publishers, PublishFanout(p)
      PROVE  TypeOK'
  <2>1. fanout[p] \in DaemonEvents
    BY <1>3 DEF PublishFanout, TypeOK
  <2>2. queue' \in [Conns -> Seq(DaemonEvents)]
    <3>1. \A c \in Conns : Append(queue[c], fanout[p]) \in Seq(DaemonEvents)
      BY <2>1, AppendProperties DEF TypeOK
    <3> QED BY <1>3, <3>1 DEF PublishFanout, TypeOK
  <2>3. fanout' \in [Publishers -> {Nothing} \union DaemonEvents]
    BY <1>3 DEF PublishFanout, TypeOK
  <2>4. clients' \subseteq Conns /\ evicted' \subseteq Conns
    BY <1>3 DEF PublishFanout, TypeOK
  <2>5. /\ snapshot' = snapshot /\ handler' = handler /\ wire' = wire
        /\ writer' = writer /\ actions' = actions /\ torn' = torn
        /\ taken' = taken /\ peer' = peer /\ view' = view
        /\ uplink' = uplink /\ sent' = sent
    BY <1>3 DEF PublishFanout, clientVars
  <2> QED BY <2>2, <2>3, <2>4, <2>5 DEF TypeOK
<1>4. ASSUME NEW c \in Conns, Connect(c)
      PROVE  TypeOK'
  BY <1>4 DEF Connect, TypeOK
<1>5. ASSUME NEW c \in Conns, Greet(c)
      PROVE  TypeOK'
  <2>1. <<SnapshotOf(snapshot)>> \in Seq(DaemonEvents)
    BY SnapshotReplaces DEF TypeOK
  <2> QED BY <1>5, <2>1 DEF Greet, TypeOK, clientVars
<1>6. ASSUME NEW c \in Conns, Register(c)
      PROVE  TypeOK'
  BY <1>6 DEF Register, TypeOK, clientVars
<1>7. ASSUME NEW c \in Conns, ReadAction(c)
      PROVE  TypeOK'
  <2>1. Head(uplink[c]) \in Nat /\ Tail(uplink[c]) \in Seq(Nat)
    BY <1>7, HeadTailProperties DEF ReadAction, TypeOK
  <2>2. Append(actions, [conn |-> c, n |-> Head(uplink[c])])
          \in Seq([conn : Conns, n : Nat])
    BY <2>1, AppendProperties DEF TypeOK
  <2>3. uplink' \in [Conns -> Seq(Nat)]
    BY <1>7, <2>1 DEF ReadAction, TypeOK
  <2>4. actions' \in Seq([conn : Conns, n : Nat])
    BY <1>7, <2>2 DEF ReadAction, TypeOK
  <2> QED BY <1>7, <2>3, <2>4 DEF ReadAction, LeaveLoop, TypeOK
<1>8. ASSUME NEW c \in Conns, ReadEnd(c)
      PROVE  TypeOK'
  BY <1>8 DEF ReadEnd, LeaveLoop, TypeOK, clientVars
<1>9. ASSUME NEW c \in Conns, Join(c)
      PROVE  TypeOK'
  BY <1>9 DEF Join, TypeOK, clientVars
<1>10. ASSUME NEW c \in Conns, WriterWrites(c)
       PROVE  TypeOK'
  <2>1. Head(queue[c]) \in DaemonEvents /\ Tail(queue[c]) \in Seq(DaemonEvents)
    BY <1>10, HeadTailProperties DEF WriterWrites, TypeOK
  <2>2. Append(wire[c], Head(queue[c])) \in Seq(DaemonEvents)
    BY <2>1, AppendProperties DEF TypeOK
  <2>3. /\ queue' \in [Conns -> Seq(DaemonEvents)]
        /\ wire' \in [Conns -> Seq(DaemonEvents)]
    <3>1. queue' \in [Conns -> Seq(DaemonEvents)]
      BY <1>10, <2>1 DEF WriterWrites, TypeOK
    <3>2. CASE peer[c] = "open"
      <4>1. wire' = [wire EXCEPT ![c] = Append(wire[c], Head(queue[c]))]
        BY <1>10, <3>2 DEF WriterWrites
      <4> QED BY <2>2, <3>1, <4>1 DEF TypeOK
    <3>3. CASE peer[c] # "open"
      <4>1. wire' = wire
        BY <1>10, <3>3 DEF WriterWrites
      <4> QED BY <3>1, <4>1 DEF TypeOK
    <3> QED BY <3>1, <3>2, <3>3
  <2> QED BY <1>10, <2>3 DEF WriterWrites, TypeOK, clientVars
<1>11. ASSUME NEW c \in Conns, WriterEnds(c)
       PROVE  TypeOK'
  BY <1>11 DEF WriterEnds, TypeOK, clientVars
<1>12. ASSUME NEW c \in Conns, ClientReceives(c)
       PROVE  TypeOK'
  BY <1>12, ApplyType DEF ClientReceives, TypeOK
<1>13. ASSUME NEW c \in Conns, ClientSends(c)
       PROVE  TypeOK'
  BY <1>13 DEF ClientSends, TypeOK
<1>14. ASSUME NEW c \in Conns, ClientLeaves(c)
       PROVE  TypeOK'
  BY <1>14 DEF ClientLeaves, TypeOK
<1>15. CASE TakeAction
  <2>1. /\ Head(actions) \in [conn : Conns, n : Nat]
        /\ Tail(actions) \in Seq([conn : Conns, n : Nat])
    BY <1>15, HeadTailProperties DEF TakeAction, TypeOK
  <2> QED BY <1>15, <2>1 DEF TakeAction, TypeOK, clientVars
<1> QED
  BY <1>1, <1>2, <1>3, <1>4, <1>5, <1>6, <1>7, <1>8, <1>9, <1>10, <1>11,
     <1>12, <1>13, <1>14, <1>15
     DEF Next, Server

----------------------------------------------------------------------------
(* The threads of a connection.                                            *)

LEMMA ThreadsStep ==
  ASSUME TypeOK, ThreadsInv, [Next]_vars
  PROVE  ThreadsInv'
<1>1. CASE UNCHANGED vars
  BY <1>1 DEF ThreadsInv, vars, clientVars
<1>2. ASSUME NEW p \in Publishers, NEW event \in Published,
             PublishApply(p, event)
      PROVE  ThreadsInv'
  BY <1>2 DEF PublishApply, ThreadsInv, clientVars
<1>3. ASSUME NEW p \in Publishers, PublishFanout(p)
      PROVE  ThreadsInv'
  BY <1>3 DEF PublishFanout, ThreadsInv, clientVars
<1>4. ASSUME NEW c \in Conns, Connect(c) \/ Greet(c) \/ Register(c)
      PROVE  ThreadsInv'
  <2>1. CASE Connect(c)
    BY <2>1 DEF Connect, TypeOK, ThreadsInv
  <2>2. CASE Greet(c)
    BY <2>2 DEF Greet, TypeOK, ThreadsInv, clientVars
  <2>3. CASE Register(c)
    BY <2>3 DEF Register, TypeOK, ThreadsInv, clientVars
  <2> QED BY <1>4, <2>1, <2>2, <2>3
<1>5. ASSUME NEW c \in Conns, ReadAction(c) \/ ReadEnd(c) \/ Join(c)
      PROVE  ThreadsInv'
  <2>1. CASE ReadAction(c)
    <3>1. CASE UNCHANGED <<handler, clients>>
      BY <2>1, <3>1 DEF ReadAction, ThreadsInv
    <3>2. CASE LeaveLoop(c)
      BY <2>1, <3>2 DEF ReadAction, LeaveLoop, TypeOK, ThreadsInv
    <3> QED BY <2>1, <3>1, <3>2 DEF ReadAction
  <2>2. CASE ReadEnd(c)
    BY <2>2 DEF ReadEnd, LeaveLoop, TypeOK, ThreadsInv, clientVars
  <2>3. CASE Join(c)
    BY <2>3 DEF Join, TypeOK, ThreadsInv, clientVars
  <2> QED BY <1>5, <2>1, <2>2, <2>3
<1>6. ASSUME NEW c \in Conns, WriterWrites(c) \/ WriterEnds(c)
      PROVE  ThreadsInv'
  <2>1. CASE WriterWrites(c)
    BY <2>1 DEF WriterWrites, TypeOK, ThreadsInv, clientVars
  <2>2. CASE WriterEnds(c)
    BY <2>2 DEF WriterEnds, TypeOK, ThreadsInv, clientVars
  <2> QED BY <1>6, <2>1, <2>2
<1>7. ASSUME NEW c \in Conns,
             ClientReceives(c) \/ ClientSends(c) \/ ClientLeaves(c)
      PROVE  ThreadsInv'
  BY <1>7 DEF ClientReceives, ClientSends, ClientLeaves, TypeOK, ThreadsInv
<1>8. CASE TakeAction
  BY <1>8 DEF TakeAction, ThreadsInv, clientVars
<1> QED BY <1>1, <1>2, <1>3, <1>4, <1>5, <1>6, <1>7, <1>8 DEF Next, Server

----------------------------------------------------------------------------
(* The stream to a client.                                                 *)

LEMMA EventInHand ==
  ASSUME TypeOK, NEW p \in Publishing
  PROVE  fanout[p] \in DaemonEvents
  BY DEF TypeOK, Publishing

LEMMA InFlightKept ==
  ASSUME NEW c \in Conns, InFlight(c), UNCHANGED <<snapshot, fanout>>,
         Received(c)' = Received(c)
  PROVE  InFlight(c)'
  BY DEF InFlight, Publishing

(* A step that touches neither the snapshot nor the stream.                *)
LEMMA StreamUntouched ==
  ASSUME TypeOK, StreamInv,
         UNCHANGED <<snapshot, fanout, queue, wire, view, greeting, torn>>,
         clients' \subseteq clients,
         \A c \in clients : peer'[c] = "open" => peer[c] = "open"
  PROVE  StreamInv'
<1>1. ASSUME NEW c \in greeting' \ torn'
      PROVE  Publishing' = {} /\ queue'[c] = <<SnapshotOf(snapshot')>>
  BY <1>1 DEF StreamInv, Publishing
<1>2. ASSUME NEW c \in clients' \ torn', peer'[c] = "open"
      PROVE  InFlight(c)'
  <2>1. c \in Conns /\ InFlight(c)
    BY <1>2 DEF StreamInv, TypeOK
  <2>2. Received(c)' = Received(c)
    BY DEF Received
  <2> QED BY <2>1, <2>2, InFlightKept
<1> QED BY <1>1, <1>2 DEF StreamInv

(* The event goes into the snapshot.  A greeting that is under way becomes *)
(* torn, and so does every client when another event is on its way.        *)
LEMMA PublishApplyKeepsStream ==
  ASSUME TypeOK, ThreadsInv, StreamInv,
         NEW p \in Publishers, NEW event \in Published,
         PublishApply(p, event)
  PROVE  StreamInv'
<1>1. event \in DaemonEvents /\ event # Nothing
  BY IpcConfig, EventKinds
<1>2. Publishing' = Publishing \union {p} /\ fanout'[p] = event
  BY <1>1 DEF PublishApply, Publishing, TypeOK
<1>3. greeting' \ torn' = {}
  BY DEF PublishApply
<1>4. ASSUME NEW c \in clients' \ torn', peer'[c] = "open"
      PROVE  InFlight(c)'
  <2>1. c \in clients \ torn /\ peer[c] = "open" /\ Publishing = {}
    BY <1>4 DEF PublishApply, clientVars
  <2>2. Received(c) = snapshot
    BY <2>1 DEF StreamInv, InFlight
  <2>3. Received(c)' = snapshot
    BY <2>2 DEF PublishApply, clientVars, Received
  <2>4. snapshot' = Apply(snapshot, event)
    BY DEF PublishApply
  <2>5. Publishing' = {p}
    BY <1>2, <2>1
  <2> QED BY <1>2, <2>3, <2>4, <2>5 DEF InFlight
<1> QED BY <1>3, <1>4 DEF StreamInv

(* Every client that is kept has the event at the end of its queue.        *)
LEMMA PublishFanoutKeepsStream ==
  ASSUME TypeOK, ThreadsInv, StreamInv, NEW p \in Publishers, PublishFanout(p)
  PROVE  StreamInv'
<1>1. p \in Publishing
  BY DEF PublishFanout, Publishing
<1>2. Publishing' = Publishing \ {p}
  BY DEF PublishFanout, Publishing, TypeOK
<1>3. greeting' \ torn' = {}
  BY <1>1 DEF PublishFanout, StreamInv
<1>4. ASSUME NEW c \in clients' \ torn', peer'[c] = "open"
      PROVE  InFlight(c)'
  <2>1. /\ c \in clients \ torn /\ peer[c] = "open" /\ c \in Conns
        /\ queue'[c] = Append(queue[c], fanout[p])
    <3>1. c \in clients \ torn /\ peer[c] = "open"
      BY <1>4 DEF PublishFanout, clientVars
    <3>2. c \in Conns
      BY <3>1 DEF TypeOK
    <3> QED BY <1>4, <3>1, <3>2 DEF PublishFanout, TypeOK
  <2>2. Publishing = {p} /\ Apply(Received(c), fanout[p]) = snapshot
    BY <1>1, <2>1 DEF StreamInv, InFlight
  <2>3. /\ view[c] \in Snapshots /\ wire[c] \o queue[c] \in Seq(DaemonEvents)
        /\ fanout[p] \in DaemonEvents
    BY <1>1, <2>1, EventInHand, ConcatProperties DEF TypeOK
  <2>4. wire[c] \o queue'[c] = Append(wire[c] \o queue[c], fanout[p])
    BY <2>1, <2>3, Grows DEF TypeOK
  <2>5. Received(c)' = Replay(view[c], Append(wire[c] \o queue[c], fanout[p]))
    BY <2>4 DEF PublishFanout, clientVars, Received
  <2>6. Received(c)' = snapshot
    BY <2>2, <2>3, <2>5, ReplayAppend DEF Received
  <2>7. snapshot' = snapshot /\ Publishing' = {}
    BY <1>2, <2>2 DEF PublishFanout
  <2> QED BY <2>6, <2>7 DEF InFlight
<1> QED BY <1>3, <1>4 DEF StreamInv

(* A greeting is whole when no publisher is between its two halves.        *)
LEMMA GreetKeepsStream ==
  ASSUME TypeOK, ThreadsInv, StreamInv, NEW c \in Conns, Greet(c)
  PROVE  StreamInv'
<1>1. UNCHANGED <<snapshot, fanout, clients, wire, view, peer>>
  BY DEF Greet, clientVars
<1>2. Publishing' = Publishing
  BY <1>1 DEF Publishing
<1>3. ASSUME NEW d \in greeting' \ torn'
      PROVE  Publishing' = {} /\ queue'[d] = <<SnapshotOf(snapshot')>>
  BY <1>1, <1>2, <1>3 DEF Greet, StreamInv, TypeOK, ThreadsInv
<1>4. ASSUME NEW d \in clients' \ torn', peer'[d] = "open"
      PROVE  InFlight(d)'
  <2>1. d \in clients \ torn /\ peer[d] = "open" /\ d \in Conns /\ d # c
    BY <1>1, <1>4 DEF Greet, ThreadsInv, TypeOK
  <2>2. Received(d)' = Received(d)
    BY <1>1, <2>1 DEF Greet, Received, TypeOK
  <2> QED BY <1>1, <2>1, <2>2, InFlightKept DEF StreamInv
<1> QED BY <1>3, <1>4 DEF StreamInv

(* Only the greeting is in the queue that is registered.                   *)
LEMMA RegisterKeepsStream ==
  ASSUME TypeOK, ThreadsInv, StreamInv, NEW c \in Conns, Register(c)
  PROVE  StreamInv'
<1>1. UNCHANGED <<snapshot, fanout, queue, wire, view, peer, torn>>
  BY DEF Register, clientVars
<1>2. Publishing' = Publishing
  BY <1>1 DEF Publishing
<1>3. ASSUME NEW d \in greeting' \ torn'
      PROVE  Publishing' = {} /\ queue'[d] = <<SnapshotOf(snapshot')>>
  BY <1>1, <1>2, <1>3 DEF Register, StreamInv
<1>4. ASSUME NEW d \in clients' \ torn', peer'[d] = "open"
      PROVE  InFlight(d)'
  <2>1. d \in Conns /\ peer[d] = "open" /\ d \notin torn /\ d \in clients \union {c}
    BY <1>1, <1>4 DEF Register, TypeOK
  <2>2. Received(d)' = Received(d)
    BY <1>1 DEF Received
  <2>3. CASE d \in clients
    BY <1>1, <2>1, <2>2, <2>3, InFlightKept DEF StreamInv
  <2>4. CASE d = c
    <3>1. c \in greeting /\ wire[c] = << >>
      BY DEF Register, ThreadsInv
    <3>2. Publishing = {} /\ queue[c] = <<SnapshotOf(snapshot)>>
      BY <2>1, <2>4, <3>1 DEF StreamInv
    <3>3. wire[c] \o queue[c] = <<SnapshotOf(snapshot)>>
      BY <3>1, <3>2, ConcatEmptySeq DEF TypeOK
    <3>4. Received(c) = snapshot
      BY <3>3, ReplayOfGreeting DEF Received, TypeOK
    <3> QED BY <1>1, <1>2, <2>2, <2>4, <3>2, <3>4 DEF InFlight
  <2> QED BY <2>1, <2>3, <2>4
<1> QED BY <1>3, <1>4 DEF StreamInv

(* What leaves the queue is on the wire.                                   *)
LEMMA WriterKeepsStream ==
  ASSUME TypeOK, ThreadsInv, StreamInv, NEW c \in Conns, WriterWrites(c)
  PROVE  StreamInv'
<1>1. UNCHANGED <<snapshot, fanout, clients, view, peer, torn, greeting>>
  BY DEF WriterWrites, clientVars
<1>2. Publishing' = Publishing
  BY <1>1 DEF Publishing
<1>3. ASSUME NEW d \in greeting' \ torn'
      PROVE  Publishing' = {} /\ queue'[d] = <<SnapshotOf(snapshot')>>
  <2>1. d \in greeting \ torn /\ d # c
    BY <1>1, <1>3 DEF WriterWrites, ThreadsInv
  <2>2. queue'[d] = queue[d]
    BY <2>1 DEF WriterWrites, TypeOK, ThreadsInv
  <2> QED BY <1>1, <1>2, <2>1, <2>2 DEF StreamInv
<1>4. ASSUME NEW d \in clients' \ torn', peer'[d] = "open"
      PROVE  InFlight(d)'
  <2>1. d \in clients \ torn /\ peer[d] = "open" /\ d \in Conns
    BY <1>1, <1>4 DEF TypeOK
  <2>2. wire'[d] \o queue'[d] = wire[d] \o queue[d]
    <3>1. CASE d = c
      <4>1. /\ queue[c] # << >> /\ queue'[c] = Tail(queue[c])
            /\ wire'[c] = Append(wire[c], Head(queue[c]))
        BY <2>1, <3>1 DEF WriterWrites, TypeOK
      <4>2. wire[c] \in Seq(DaemonEvents) /\ queue[c] \in Seq(DaemonEvents)
        BY DEF TypeOK
      <4>3. Append(wire[c], Head(queue[c])) \o Tail(queue[c])
              = wire[c] \o queue[c]
        BY <4>1, <4>2, Moves
      <4> QED BY <3>1, <4>1, <4>3
    <3>2. CASE d # c
      BY <2>1, <3>2 DEF WriterWrites, TypeOK
    <3> QED BY <3>1, <3>2
  <2>3. Received(d)' = Received(d)
    BY <1>1, <2>2 DEF Received
  <2> QED BY <1>1, <2>1, <2>3, InFlightKept DEF StreamInv
<1> QED BY <1>3, <1>4 DEF StreamInv

(* What is taken from the wire is applied.                                 *)
LEMMA ReceiveKeepsStream ==
  ASSUME TypeOK, ThreadsInv, StreamInv, NEW c \in Conns, ClientReceives(c)
  PROVE  StreamInv'
<1>1. UNCHANGED <<snapshot, fanout, clients, queue, peer, torn, greeting>>
  BY DEF ClientReceives
<1>2. ASSUME NEW d \in greeting' \ torn'
      PROVE  Publishing' = {} /\ queue'[d] = <<SnapshotOf(snapshot')>>
  BY <1>1, <1>2 DEF StreamInv, Publishing
<1>3. ASSUME NEW d \in clients' \ torn', peer'[d] = "open"
      PROVE  InFlight(d)'
  <2>1. d \in clients \ torn /\ peer[d] = "open" /\ d \in Conns
    BY <1>1, <1>3 DEF TypeOK
  <2>2. Received(d)' = Received(d)
    <3>1. CASE d = c
      <4> DEFINE stream == wire[c] \o queue[c]
      <4>1. /\ wire[c] # << >> /\ wire'[c] = Tail(wire[c])
            /\ view'[c] = Apply(view[c], Head(wire[c]))
        BY DEF ClientReceives, TypeOK
      <4>2. /\ stream \in Seq(DaemonEvents) /\ stream # << >>
            /\ Head(stream) = Head(wire[c])
            /\ Tail(stream) = Tail(wire[c]) \o queue[c]
        BY <4>1, Shrinks, ConcatProperties, SMTT(30) DEF TypeOK
      <4>3. Received(c)' = Replay(Apply(view[c], Head(stream)), Tail(stream))
        BY <1>1, <4>1, <4>2 DEF Received
      <4>4. Received(c) = Replay(view[c], stream)
        BY DEF Received
      <4> HIDE DEF stream
      <4> QED BY <3>1, <4>2, <4>3, <4>4, ReplayHead DEF TypeOK
    <3>2. CASE d # c
      BY <1>1, <2>1, <3>2 DEF ClientReceives, TypeOK, Received
    <3> QED BY <3>1, <3>2
  <2> QED BY <1>1, <2>1, <2>2, InFlightKept DEF StreamInv
<1> QED BY <1>2, <1>3 DEF StreamInv

LEMMA StreamStep ==
  ASSUME TypeOK, ThreadsInv, StreamInv, [Next]_vars
  PROVE  StreamInv'
<1>1. CASE UNCHANGED vars
  BY <1>1, StreamUntouched DEF vars
<1>2. ASSUME NEW c \in Conns, Connect(c)
      PROVE  StreamInv'
  <2>1. c \notin clients
    BY <1>2 DEF Connect, ThreadsInv
  <2>2. \A d \in clients : peer'[d] = "open" => peer[d] = "open"
    BY <1>2, <2>1 DEF Connect, TypeOK
  <2> QED BY <1>2, <2>2, StreamUntouched DEF Connect
<1>3. ASSUME NEW c \in Conns, ReadAction(c) \/ ReadEnd(c) \/ Join(c)
      PROVE  StreamInv'
  BY <1>3, StreamUntouched DEF ReadAction, ReadEnd, Join, LeaveLoop, clientVars
<1>4. ASSUME NEW c \in Conns, WriterEnds(c)
      PROVE  StreamInv'
  BY <1>4, StreamUntouched DEF WriterEnds, clientVars
<1>5. ASSUME NEW c \in Conns, ClientSends(c) \/ ClientLeaves(c)
      PROVE  StreamInv'
  BY <1>5, StreamUntouched DEF ClientSends, ClientLeaves, TypeOK
<1>6. CASE TakeAction
  BY <1>6, StreamUntouched DEF TakeAction, clientVars
<1> QED
  BY <1>1, <1>2, <1>3, <1>4, <1>5, <1>6, PublishApplyKeepsStream,
     PublishFanoutKeepsStream, GreetKeepsStream, RegisterKeepsStream,
     WriterKeepsStream, ReceiveKeepsStream
     DEF Next, Server

----------------------------------------------------------------------------
(* The actions of a client.                                                *)

(* A step that is not about the actions of c.                              *)
LEMMA ConsecutiveKept ==
  ASSUME NEW c \in Conns, Consecutive(c), Mine(c)' = Mine(c),
         \A i \in Mine(c) : actions'[i] = actions[i],
         taken'[c] = taken[c], sent'[c] = sent[c], uplink'[c] = uplink[c],
         handler'[c] \in {"unborn", "accepted", "greeted", "reading"} =>
           handler[c] \in {"unborn", "accepted", "greeted", "reading"}
  PROVE  Consecutive(c)'
  BY DEF Consecutive

LEMMA ActionsUntouched ==
  ASSUME ActionsInv, UNCHANGED <<actions, taken, sent, uplink>>,
         \A c \in Conns :
           handler'[c] \in {"unborn", "accepted", "greeted", "reading"} =>
             handler[c] \in {"unborn", "accepted", "greeted", "reading"}
  PROVE  ActionsInv'
<1>1. ASSUME NEW c \in Conns
      PROVE  Consecutive(c)'
  <2>1. Mine(c)' = Mine(c) /\ Consecutive(c)
    BY DEF Mine, ActionsInv
  <2> QED BY <2>1, ConsecutiveKept
<1> QED BY <1>1 DEF ActionsInv

(* The reader takes the first unread action, which follows the last one in *)
(* the channel; when the channel is full, nothing follows any more.        *)
LEMMA ReadActionKeepsOrder ==
  ASSUME TypeOK, ActionsInv, NEW c \in Conns, ReadAction(c)
  PROVE  ActionsInv'
<1>1. UNCHANGED <<taken, sent>> /\ handler[c] = "reading"
  BY DEF ReadAction
<1>2. /\ \A d \in Conns \ {c} :
           uplink'[d] = uplink[d] /\ handler'[d] = handler[d]
      /\ uplink'[c] = Tail(uplink[c])
  BY DEF ReadAction, LeaveLoop, TypeOK
<1>3. PICK m \in Nat : m = Len(actions)
  BY LenProperties DEF TypeOK
<1>4. PICK u \in Nat \ {0} : u = Len(uplink[c])
  BY EmptySeq DEF ReadAction, TypeOK
<1>5. /\ Head(uplink[c]) = uplink[c][1] /\ Head(uplink[c]) \in Nat
      /\ Len(Tail(uplink[c])) = u - 1
      /\ \A k \in 1..(u - 1) : Tail(uplink[c])[k] = uplink[c][k + 1]
  BY <1>4, HeadTailProperties DEF ReadAction, TypeOK
<1>6. sent[c] \in Nat /\ taken[c] \in Nat
  BY DEF TypeOK
<1>7. PICK last \in taken[c]..sent[c] :
        /\ \A i \in Mine(c) : actions[i].n \in (taken[c] + 1)..last
        /\ \A n \in (taken[c] + 1)..last : \E i \in Mine(c) : actions[i].n = n
        /\ last + u = sent[c]
  BY <1>1, <1>4 DEF ActionsInv, Consecutive
<1>8. Head(uplink[c]) = last + 1
  <2>1. uplink[c][1] = sent[c] - u + 1
    BY <1>4 DEF ActionsInv, Consecutive
  <2> QED BY <1>5, <1>6, <1>7, <2>1
<1>9. \A k \in 1..Len(uplink'[c]) :
        uplink'[c][k] = sent'[c] - Len(uplink'[c]) + k
  <2>1. \A k \in 1..u : uplink[c][k] = sent[c] - u + k
    BY <1>4 DEF ActionsInv, Consecutive
  <2>2. ASSUME NEW k \in 1..(u - 1)
        PROVE  uplink'[c][k] = sent'[c] - (u - 1) + k
    <3>1. uplink'[c][k] = uplink[c][k + 1]
      BY <1>2, <1>5
    <3>2. uplink[c][k + 1] = sent[c] - u + (k + 1)
      BY <2>1
    <3>3. sent'[c] = sent[c]
      BY <1>1
    <3> QED BY <1>6, <3>1, <3>2, <3>3
  <2> QED BY <1>2, <1>5, <2>2
<1>10. CASE m < ActionCap
  <2>1. /\ actions' = Append(actions, [conn |-> c, n |-> last + 1])
        /\ handler' = handler
    BY <1>3, <1>8, <1>10 DEF ReadAction
  <2>2. /\ Len(actions') = m + 1
        /\ \A i \in 1..m : actions'[i] = actions[i]
        /\ actions'[m + 1] = [conn |-> c, n |-> last + 1]
    <3>1. [conn |-> c, n |-> last + 1] \in [conn : Conns, n : Nat]
      BY <1>5, <1>8
    <3> QED BY <1>3, <2>1, <3>1, AppendProperties DEF TypeOK
  <2>3. ASSUME NEW d \in Conns \ {c}
        PROVE  Consecutive(d)'
    <3>1. Mine(d)' = Mine(d)
      BY <1>3, <2>2 DEF Mine
    <3>2. \A i \in Mine(d) : actions'[i] = actions[i]
      BY <1>3, <2>2 DEF Mine
    <3> QED BY <1>1, <1>2, <3>1, <3>2, ConsecutiveKept DEF ActionsInv
  <2>4. Consecutive(c)'
    <3>1. Mine(c)' = Mine(c) \union {m + 1}
      BY <1>3, <2>2 DEF Mine
    <3>2. \A i \in Mine(c) : i \in 1..m /\ actions'[i] = actions[i]
      BY <1>3, <2>2 DEF Mine
    <3>3. \A i, j \in Mine(c)' : i < j => actions'[i].n < actions'[j].n
      <4>1. \A i, j \in Mine(c) : i < j => actions[i].n < actions[j].n
        BY DEF ActionsInv, Consecutive
      <4>2. \A i \in Mine(c) : actions[i].n \in Nat /\ actions[i].n < last + 1
        BY <1>6, <1>7
      <4> QED BY <2>2, <3>1, <3>2, <4>1, <4>2
    <3>4. \A i \in Mine(c)' : actions'[i].n \in (taken'[c] + 1)..(last + 1)
      BY <1>1, <1>6, <1>7, <2>2, <3>1, <3>2
    <3>5. \A n \in (taken'[c] + 1)..(last + 1) :
            \E i \in Mine(c)' : actions'[i].n = n
      <4> TAKE n \in (taken'[c] + 1)..(last + 1)
      <4>1. CASE n = last + 1
        BY <2>2, <3>1, <4>1
      <4>2. CASE n # last + 1
        <5>1. n \in (taken[c] + 1)..last
          BY <1>1, <1>6, <1>7, <4>2
        <5>2. PICK i \in Mine(c) : actions[i].n = n
          BY <1>7, <5>1
        <5> QED BY <3>1, <3>2, <5>2
      <4> QED BY <4>1, <4>2
    <3>6. /\ last + 1 \in taken'[c]..sent'[c]
          /\ last + 1 + Len(uplink'[c]) = sent'[c]
      <4>1. Len(uplink'[c]) = u - 1
        BY <1>2, <1>5
      <4>2. taken'[c] = taken[c] /\ sent'[c] = sent[c]
        BY <1>1
      <4> QED BY <1>6, <1>7, <4>1, <4>2
    <3> QED BY <1>9, <3>3, <3>4, <3>5, <3>6 DEF Consecutive
  <2> QED BY <2>3, <2>4 DEF ActionsInv
<1>11. CASE ~(m < ActionCap)
  <2>1. actions' = actions /\ handler'[c] = "joining"
    BY <1>3, <1>11 DEF ReadAction, LeaveLoop, TypeOK
  <2>2. ASSUME NEW d \in Conns \ {c}
        PROVE  Consecutive(d)'
    <3>1. Mine(d)' = Mine(d)
      BY <2>1 DEF Mine
    <3> QED BY <1>1, <1>2, <2>1, <3>1, ConsecutiveKept DEF ActionsInv
  <2>3. Consecutive(c)'
    <3>1. Mine(c)' = Mine(c)
      BY <2>1 DEF Mine
    <3>2. \A i, j \in Mine(c) : i < j => actions[i].n < actions[j].n
      BY DEF ActionsInv, Consecutive
    <3> QED BY <1>1, <1>7, <1>9, <2>1, <3>1, <3>2 DEF Consecutive
  <2> QED BY <2>2, <2>3 DEF ActionsInv
<1> QED BY <1>10, <1>11

LEMMA SendKeepsOrder ==
  ASSUME TypeOK, ActionsInv, NEW c \in Conns, ClientSends(c)
  PROVE  ActionsInv'
<1>1. /\ UNCHANGED <<taken, actions, handler>>
      /\ \A d \in Conns \ {c} : uplink'[d] = uplink[d] /\ sent'[d] = sent[d]
      /\ uplink'[c] = Append(uplink[c], sent[c] + 1) /\ sent'[c] = sent[c] + 1
  BY DEF ClientSends, TypeOK
<1>2. \A d \in Conns : Mine(d)' = Mine(d)
  BY <1>1 DEF Mine
<1>3. PICK u \in Nat : u = Len(uplink[c])
  BY LenProperties DEF TypeOK
<1>4. sent[c] \in Nat /\ taken[c] \in Nat
  BY DEF TypeOK
<1>5. /\ Len(uplink'[c]) = u + 1
      /\ \A k \in 1..u : uplink'[c][k] = uplink[c][k]
      /\ uplink'[c][u + 1] = sent[c] + 1
  BY <1>1, <1>3, <1>4, AppendProperties DEF TypeOK
<1>6. ASSUME NEW d \in Conns \ {c}
      PROVE  Consecutive(d)'
  BY <1>1, <1>2, ConsecutiveKept DEF ActionsInv
<1>7. Consecutive(c)'
  <2>1. \A k \in 1..u : uplink[c][k] = sent[c] - u + k
    BY <1>3 DEF ActionsInv, Consecutive
  <2>2. \A k \in 1..(u + 1) : uplink'[c][k] = sent'[c] - (u + 1) + k
    <3> TAKE k \in 1..(u + 1)
    <3>1. CASE k \in 1..u
      BY <1>1, <1>4, <1>5, <2>1, <3>1
    <3>2. CASE k = u + 1
      BY <1>1, <1>4, <1>5, <3>2
    <3> QED BY <3>1, <3>2
  <2>3. PICK last \in taken[c]..sent[c] :
        /\ \A i \in Mine(c) : actions[i].n \in (taken[c] + 1)..last
        /\ \A n \in (taken[c] + 1)..last : \E i \in Mine(c) : actions[i].n = n
        /\ handler[c] \in {"unborn", "accepted", "greeted", "reading"} =>
             last + u = sent[c]
    BY <1>3 DEF ActionsInv, Consecutive
  <2>4. last \in taken'[c]..sent'[c]
    BY <1>1, <1>4, <2>3
  <2>5. handler'[c] \in {"unborn", "accepted", "greeted", "reading"} =>
          last + Len(uplink'[c]) = sent'[c]
    <3>1. SUFFICES ASSUME last + u = sent[c]
                   PROVE  last + Len(uplink'[c]) = sent'[c]
      BY <1>1, <2>3
    <3>2. last \in Nat /\ Len(uplink'[c]) = u + 1 /\ sent'[c] = sent[c] + 1
      BY <1>1, <1>4, <1>5, <2>3
    <3> QED BY <1>4, <3>1, <3>2
  <2>6. \A i, j \in Mine(c) : i < j => actions[i].n < actions[j].n
    BY DEF ActionsInv, Consecutive
  <2> QED BY <1>1, <1>2, <1>5, <2>2, <2>3, <2>4, <2>5, <2>6 DEF Consecutive
<1> QED BY <1>6, <1>7 DEF ActionsInv

(* The daemon takes the first action of the channel, which is the next one *)
(* of its connection.                                                      *)
LEMMA TakeKeepsOrder ==
  ASSUME TypeOK, ActionsInv, TakeAction
  PROVE  ActionsInv'
<1>1. UNCHANGED <<sent, uplink, handler>>
  BY DEF TakeAction, clientVars
<1>2. PICK m \in Nat \ {0} : m = Len(actions)
  BY EmptySeq DEF TakeAction, TypeOK
<1>3. /\ Len(actions') = m - 1
      /\ \A i \in 1..(m - 1) : actions'[i] = actions[i + 1]
      /\ \A i \in 1..m : actions[i] \in [conn : Conns, n : Nat]
      /\ Head(actions) = actions[1]
  <2>1. /\ actions \in Seq([conn : Conns, n : Nat]) /\ actions # << >>
        /\ actions' = Tail(actions)
    BY DEF TakeAction, TypeOK
  <2>2. /\ Len(Tail(actions)) = m - 1
        /\ \A i \in 1..Len(Tail(actions)) : Tail(actions)[i] = actions[i + 1]
    BY <1>2, <2>1, HeadTailProperties
  <2>3. Head(actions) = actions[1]
    BY <2>1
  <2>4. \A i \in 1..m : actions[i] \in [conn : Conns, n : Nat]
    BY <1>2, <2>1, ElementOfSeq
  <2> QED BY <2>1, <2>2, <2>3, <2>4
<1>4. PICK c \in Conns : c = actions[1].conn
  BY <1>2, <1>3
<1>5. /\ taken'[c] = actions[1].n
      /\ \A d \in Conns \ {c} : taken'[d] = taken[d]
  BY <1>3, <1>4 DEF TakeAction, TypeOK
<1>6. \A d \in Conns : Mine(d)' = {i \in 1..(m - 1) : i + 1 \in Mine(d)}
  BY <1>2, <1>3 DEF Mine
<1>7. ASSUME NEW d \in Conns
      PROVE  Consecutive(d)'
  <2>1. /\ \A i \in Mine(d) : i \in 1..m
        /\ \A i \in Mine(d)' : i \in 1..(m - 1) /\ i + 1 \in Mine(d)
                               /\ actions'[i] = actions[i + 1]
        /\ \A i \in Mine(d) : i # 1 => i - 1 \in Mine(d)'
                                /\ actions'[i - 1] = actions[i]
    BY <1>2, <1>3, <1>6 DEF Mine
  <2>2. \A i, j \in Mine(d) : i < j => actions[i].n < actions[j].n
    BY DEF ActionsInv, Consecutive
  <2>3. \A i, j \in Mine(d)' : i < j => actions'[i].n < actions'[j].n
    BY <2>1, <2>2
  <2>4. PICK last \in taken[d]..sent[d] :
        /\ \A i \in Mine(d) : actions[i].n \in (taken[d] + 1)..last
        /\ \A n \in (taken[d] + 1)..last : \E i \in Mine(d) : actions[i].n = n
        /\ handler[d] \in {"unborn", "accepted", "greeted", "reading"} =>
             last + Len(uplink[d]) = sent[d]
    BY DEF ActionsInv, Consecutive
  <2>5. taken[d] \in Nat /\ sent[d] \in Nat
    BY DEF TypeOK
  <2>6. \A k \in 1..Len(uplink'[d]) :
          uplink'[d][k] = sent'[d] - Len(uplink'[d]) + k
    BY <1>1 DEF ActionsInv, Consecutive
  <2>7. CASE d = c
    <3>1. 1 \in Mine(c)
      BY <1>2, <1>4 DEF Mine
    <3>2. actions[1].n \in (taken[c] + 1)..last
      BY <2>4, <2>7, <3>1
    <3>3. actions[1].n = taken[c] + 1
      <4>1. taken[c] + 1 \in (taken[c] + 1)..last
        BY <2>5, <2>7, <3>2
      <4>2. PICK i \in Mine(c) : actions[i].n = taken[c] + 1
        BY <2>4, <2>7, <4>1
      <4>3. i = 1 \/ 1 < i
        BY <2>1, <2>7, <4>2
      <4>4. ~(1 < i)
        BY <2>2, <2>5, <2>7, <3>1, <3>2, <4>2
      <4> QED BY <4>2, <4>3, <4>4
    <3>4. taken'[c] = taken[c] + 1
      BY <1>5, <3>3
    <3>5. \A i \in Mine(c)' : actions'[i].n \in (taken'[c] + 1)..last
      <4> TAKE i \in Mine(c)'
      <4>1. i + 1 \in Mine(c) /\ actions'[i] = actions[i + 1] /\ 1 < i + 1
        BY <1>2, <2>1, <2>7
      <4>2. actions[1].n < actions[i + 1].n
        BY <2>2, <2>7, <3>1, <4>1
      <4>3. actions[i + 1].n \in (taken[c] + 1)..last
        BY <2>4, <2>7, <4>1
      <4> QED BY <2>5, <2>7, <3>3, <3>4, <4>1, <4>2, <4>3
    <3>6. \A n \in (taken'[c] + 1)..last :
            \E i \in Mine(c)' : actions'[i].n = n
      <4> TAKE n \in (taken'[c] + 1)..last
      <4>1. n \in (taken[c] + 1)..last /\ n # taken[c] + 1
        BY <2>5, <2>7, <3>4
      <4>2. PICK i \in Mine(c) : actions[i].n = n
        BY <2>4, <2>7, <4>1
      <4>3. i # 1
        BY <3>3, <4>1, <4>2
      <4> QED BY <2>1, <2>7, <4>2, <4>3
    <3>7. last \in taken'[c]..sent'[c]
      BY <1>1, <2>4, <2>5, <2>7, <3>2, <3>3, <3>4
    <3> QED BY <1>1, <2>3, <2>4, <2>6, <2>7, <3>5, <3>6, <3>7 DEF Consecutive
  <2>8. CASE d # c
    <3>1. 1 \notin Mine(d)
      BY <1>4, <2>8 DEF Mine
    <3>2. taken'[d] = taken[d]
      BY <1>5, <2>8
    <3>3. \A i \in Mine(d)' : actions'[i].n \in (taken'[d] + 1)..last
      BY <2>1, <2>4, <3>2
    <3>4. \A n \in (taken'[d] + 1)..last :
            \E i \in Mine(d)' : actions'[i].n = n
      <4> TAKE n \in (taken'[d] + 1)..last
      <4>1. PICK i \in Mine(d) : actions[i].n = n
        BY <2>4, <3>2
      <4> QED BY <2>1, <3>1, <4>1
    <3> QED BY <1>1, <2>3, <2>4, <2>6, <3>2, <3>3, <3>4 DEF Consecutive
  <2> QED BY <2>7, <2>8
<1> QED BY <1>7 DEF ActionsInv

----------------------------------------------------------------------------
(* The theorems.                                                           *)

IInv == TypeOK /\ ThreadsInv /\ StreamInv /\ ActionsInv

LEMMA InitIInv == Init => IInv
<1> SUFFICES ASSUME Init PROVE IInv
  OBVIOUS
<1>1. TypeOK
  BY InitTypes
<1>2. ThreadsInv
  BY DEF Init, ThreadsInv
<1>3. StreamInv
  BY DEF Init, StreamInv
<1>4. ASSUME NEW c \in Conns
      PROVE  Consecutive(c)
  <2>1. Mine(c) = {}
    BY DEF Init, Mine
  <2>2. taken[c] = 0 /\ sent[c] = 0 /\ uplink[c] = << >>
    BY DEF Init
  <2> QED BY <2>1, <2>2 DEF Consecutive
<1> QED BY <1>1, <1>2, <1>3, <1>4 DEF IInv, ActionsInv

LEMMA ActionsStep ==
  ASSUME TypeOK, ThreadsInv, ActionsInv, [Next]_vars
  PROVE  ActionsInv'
<1>1. CASE UNCHANGED vars
  BY <1>1, ActionsUntouched DEF vars, clientVars
<1>2. ASSUME NEW p \in Publishers, NEW event \in Published,
             PublishApply(p, event)
      PROVE  ActionsInv'
  BY <1>2, ActionsUntouched DEF PublishApply, clientVars
<1>3. ASSUME NEW p \in Publishers, PublishFanout(p)
      PROVE  ActionsInv'
  BY <1>3, ActionsUntouched DEF PublishFanout, clientVars
<1>4. ASSUME NEW c \in Conns, Connect(c)
      PROVE  ActionsInv'
  BY <1>4, ActionsUntouched DEF Connect, TypeOK, ThreadsInv
<1>5. ASSUME NEW c \in Conns, Greet(c)
      PROVE  ActionsInv'
  BY <1>5, ActionsUntouched DEF Greet, clientVars, TypeOK
<1>6. ASSUME NEW c \in Conns, Register(c)
      PROVE  ActionsInv'
  BY <1>6, ActionsUntouched DEF Register, clientVars, TypeOK
<1>7. ASSUME NEW c \in Conns, ReadEnd(c)
      PROVE  ActionsInv'
  BY <1>7, ActionsUntouched DEF ReadEnd, LeaveLoop, clientVars, TypeOK
<1>8. ASSUME NEW c \in Conns, Join(c)
      PROVE  ActionsInv'
  BY <1>8, ActionsUntouched DEF Join, clientVars, TypeOK
<1>9. ASSUME NEW c \in Conns, WriterWrites(c)
      PROVE  ActionsInv'
  BY <1>9, ActionsUntouched DEF WriterWrites, clientVars
<1>10. ASSUME NEW c \in Conns, WriterEnds(c)
       PROVE  ActionsInv'
  BY <1>10, ActionsUntouched DEF WriterEnds, clientVars
<1>11. ASSUME NEW c \in Conns, ClientReceives(c)
       PROVE  ActionsInv'
  BY <1>11, ActionsUntouched DEF ClientReceives
<1>12. ASSUME NEW c \in Conns, ClientLeaves(c)
       PROVE  ActionsInv'
  BY <1>12, ActionsUntouched DEF ClientLeaves
<1> QED
  BY <1>1, <1>2, <1>3, <1>4, <1>5, <1>6, <1>7, <1>8, <1>9, <1>10, <1>11,
     <1>12, ReadActionKeepsOrder, SendKeepsOrder, TakeKeepsOrder
     DEF Next, Server

LEMMA Invariance == Spec => []IInv
<1>1. Init => IInv
  BY InitIInv
<1>2. IInv /\ [Next]_vars => IInv'
  BY TypesStep, ThreadsStep, StreamStep, ActionsStep DEF IInv
<1> QED BY <1>1, <1>2, PTL DEF Spec

(* Snapshots, queues and channels hold what their types say.               *)
THEOREM TypeCorrect == Spec => []TypeOK
<1>1. IInv => TypeOK
  BY DEF IInv
<1> QED BY Invariance, <1>1, PTL

(* The bounded queues and the two locks of publish lose, double and        *)
(* reorder nothing for a registered client: what it shows, with what is on *)
(* its way, is the server's snapshot.                                      *)
THEOREM StreamIsWhole == Spec => []StreamRebuildsSnapshot
<1>1. IInv => StreamRebuildsSnapshot
  BY DEF IInv, StreamInv, InFlight, Received, StreamRebuildsSnapshot
<1> QED BY Invariance, <1>1, PTL

(* The read loop and the action channel hand the daemon a prefix of what   *)
(* each client sent, in order: a full channel ends the connection and      *)
(* skips nothing.                                                          *)
THEOREM ActionsAreAPrefix == Spec => []ActionsWithoutGap
<1>1. ASSUME IInv PROVE ActionsWithoutGap
  <2> SUFFICES ASSUME NEW c \in Conns
               PROVE  /\ \A i, j \in Mine(c) : i < j => actions[i].n < actions[j].n
                      /\ \E last \in taken[c]..sent[c] :
                           /\ {actions[i].n : i \in Mine(c)}
                                = (taken[c] + 1)..last
                           /\ handler[c] = "reading" /\ uplink[c] # << >> =>
                                Head(uplink[c]) = last + 1
    BY DEF ActionsWithoutGap, Mine
  <2>1. Consecutive(c)
    BY <1>1 DEF IInv, ActionsInv
  <2>2. PICK last \in taken[c]..sent[c] :
        /\ \A i \in Mine(c) : actions[i].n \in (taken[c] + 1)..last
        /\ \A n \in (taken[c] + 1)..last : \E i \in Mine(c) : actions[i].n = n
        /\ handler[c] \in {"unborn", "accepted", "greeted", "reading"} =>
             last + Len(uplink[c]) = sent[c]
    BY <2>1 DEF Consecutive
  <2>3. {actions[i].n : i \in Mine(c)} = (taken[c] + 1)..last
    BY <2>2
  <2>4. ASSUME handler[c] = "reading", uplink[c] # << >>
        PROVE  Head(uplink[c]) = last + 1
    <3>1. PICK u \in Nat \ {0} : u = Len(uplink[c])
      BY <1>1, <2>4, EmptySeq DEF IInv, TypeOK
    <3>2. uplink[c][1] = sent[c] - u + 1
      BY <2>1, <3>1 DEF Consecutive
    <3>3. Head(uplink[c]) = uplink[c][1]
      BY <1>1, <2>4 DEF IInv, TypeOK
    <3>4. last \in Nat /\ sent[c] \in Nat /\ last + u = sent[c]
      BY <1>1, <2>2, <2>4, <3>1 DEF IInv, TypeOK
    <3> QED BY <3>1, <3>2, <3>3, <3>4
  <2> QED BY <2>1, <2>2, <2>3, <2>4 DEF Consecutive
<1> QED BY Invariance, <1>1, PTL

----------------------------------------------------------------------------
(* The socket path.                                                        *)

PathInv ==
  /\ DOMAIN daemon = Daemons
  /\ \A d, e \in Daemons :
       d # e /\ Alive(d) /\ Alive(e) => d \in overlapped
  /\ \A d \in Daemons \ overlapped :
       /\ daemon[d] # "failed"
       /\ daemon[d] = "prepared" => path = 0
       /\ daemon[d] = "serving" => path = d

(* Every step of a daemon keeps the invariant.                             *)
LEMMA DaemonStep ==
  ASSUME PathInv, NEW d \in Daemons,
         \/ Prepare(d) \/ Bind(d) \/ StopAccepting(d) \/ RemovePath(d)
         \/ Exit(d) \/ Crash(d)
  PROVE  PathInv'
<1>1. CASE Prepare(d)
  BY <1>1, AppConfig DEF Prepare, PathInv, Goes, Alive
<1>2. CASE Bind(d)
  BY <1>2, AppConfig DEF Bind, PathInv, Goes, Alive
<1>3. CASE StopAccepting(d)
  BY <1>3 DEF StopAccepting, PathInv, Goes, Alive
<1>4. CASE RemovePath(d)
  BY <1>4 DEF RemovePath, PathInv, Goes, Alive
<1>5. CASE Exit(d)
  BY <1>5 DEF Exit, PathInv, Goes, Alive
<1>6. CASE Crash(d)
  BY <1>6 DEF Crash, PathInv, Goes, Alive
<1> QED BY <1>1, <1>2, <1>3, <1>4, <1>5, <1>6

LEMMA PathInvariance == AppSpec => []PathInv
<1>1. AppInit => PathInv
  BY DEF AppInit, PathInv, Alive
<1>2. PathInv /\ [AppNext]_appVars => PathInv'
  <2> SUFFICES ASSUME PathInv, [AppNext]_appVars PROVE PathInv'
    OBVIOUS
  <2>1. CASE UNCHANGED <<daemon, path, overlapped>>
    BY <2>1 DEF PathInv, Alive
  <2>2. ASSUME NEW d \in Daemons,
               \/ Prepare(d) \/ Bind(d) \/ StopAccepting(d) \/ RemovePath(d)
               \/ Exit(d) \/ Crash(d)
        PROVE  PathInv'
    BY <2>2, DaemonStep
  <2> QED BY <2>1, <2>2
          DEF AppNext, Publish, Greets, Overlay, Connects, ConnectFails, Receive,
              Lost, SendAction, Tick, ClickStop, appVars, daemonVars
<1> QED BY <1>1, <1>2, PTL DEF AppSpec

(* A daemon that never shared the path with a living one gets its socket   *)
(* and keeps it, whatever the daemons before it left behind, for any       *)
(* number of starts, stops and crashes.                                    *)
THEOREM AloneKeepsPath == AppSpec => []AloneIsReachable
<1>1. PathInv => AloneIsReachable
  BY DEF PathInv, AloneIsReachable
<1> QED BY PathInvariance, <1>1, PTL

----------------------------------------------------------------------------
(* What is rendered, after one update and after a batch.                   *)

Displays == [connected : BOOLEAN, of : Nat, n : Nat, whole : BOOLEAN]

Messages == [kind : {"snapshot", "event"}, of : Nat, n : Nat]
Updates == Messages \union [kind : {"connected"}, value : BOOLEAN]

LEMMA RenderedEffect ==
  ASSUME NEW state \in Displays, NEW update \in Updates
  PROVE  /\ Rendered(state, update) \in Displays
         /\ update.kind = "connected" =>
              /\ Rendered(state, update).of = state.of
              /\ Rendered(state, update).n = state.n
              /\ Rendered(state, update).whole = state.whole
         /\ update.kind = "snapshot" =>
              /\ Rendered(state, update).of = update.of
              /\ Rendered(state, update).n = update.n
              /\ Rendered(state, update).whole
         /\ update.kind = "event" =>
              /\ Rendered(state, update).of = state.of
              /\ Rendered(state, update).n = update.n
              /\ state.whole /\ state.of = update.of /\ state.n + 1 = update.n
                   => Rendered(state, update).whole
<1>1. CASE update.kind = "connected"
  BY <1>1 DEF Displays, Messages, Updates, Rendered
<1>2. CASE update.kind = "snapshot"
  BY <1>2 DEF Displays, Messages, Updates, Rendered
<1>3. CASE update.kind = "event"
  BY <1>3 DEF Displays, Messages, Updates, Rendered
<1> QED BY <1>1, <1>2, <1>3 DEF Messages, Updates

LEMMA RenderedType ==
  ASSUME NEW state \in Displays, NEW update \in Updates
  PROVE  Rendered(state, update) \in Displays
  BY RenderedEffect

(* What is rendered as a batch of updates is applied one by one.           *)
IsRendering(f, state, batch) ==
  /\ f \in [0..Len(batch) -> Displays]
  /\ f[0] = state
  /\ \A n \in 1..Len(batch) : f[n] = Rendered(f[n - 1], batch[n])

LEMMA RenderingExists ==
  ASSUME NEW state \in Displays, NEW batch \in Seq(Updates)
  PROVE  \E f : IsRendering(f, state, batch)
<1> DEFINE Upto(k) ==
             {f \in [0..k -> Displays] :
                /\ f[0] = state
                /\ \A n \in 1..k : f[n] = Rendered(f[n - 1], batch[n])}
           Good == {k \in Nat : k <= Len(batch) => Upto(k) # {}}
<1>1. 0 \in Good
  <2>1. [i \in 0..0 |-> state] \in Upto(0)
    OBVIOUS
  <2> QED BY <2>1
<1>2. ASSUME NEW k \in Nat, k \in Good
      PROVE  k + 1 \in Good
  <2>1. CASE k + 1 <= Len(batch)
    <3>1. PICK f \in Upto(k) : TRUE
      BY <1>2, <2>1
    <3>2. Rendered(f[k], batch[k + 1]) \in Displays
      <4>1. batch[k + 1] \in Updates
        BY <2>1, ElementOfSeq
      <4>2. f[k] \in Displays
        BY <3>1
      <4> QED BY <4>1, <4>2, RenderedType
    <3> DEFINE g == [i \in 0..(k + 1) |->
                       IF i = k + 1 THEN Rendered(f[k], batch[k + 1]) ELSE f[i]]
    <3>3. g \in [0..(k + 1) -> Displays]
      BY <3>1, <3>2
    <3>4. ASSUME NEW n \in 1..(k + 1)
          PROVE  g[n] = Rendered(g[n - 1], batch[n])
      <4>1. CASE n = k + 1
        BY <4>1
      <4>2. CASE n \in 1..k
        BY <3>1, <4>2
      <4> QED BY <4>1, <4>2
    <3>5. g[0] = state
      BY <3>1
    <3>6. g \in Upto(k + 1)
      BY <3>3, <3>4, <3>5
    <3>7. Upto(k + 1) # {}
      BY <3>6
    <3> HIDE DEF Upto
    <3> QED BY <3>7
  <2>2. CASE ~(k + 1 <= Len(batch))
    BY <2>2
  <2> QED BY <2>1, <2>2
<1>3. Nat \subseteq Good
  <2> HIDE DEF Good
  <2> QED BY <1>1, <1>2, SetInduction
<1>4. Len(batch) \in Good
  <2> HIDE DEF Good
  <2> QED BY <1>3, LenProperties
<1>5. PICK f \in Upto(Len(batch)) : TRUE
  BY <1>4
<1>6. IsRendering(f, state, batch)
  BY <1>5 DEF IsRendering
<1> QED BY <1>6

(* There is but one such trace, and AllRendered is its end.                *)
LEMMA RenderedEndsTrace ==
  ASSUME NEW state \in Displays, NEW batch \in Seq(Updates),
         NEW f, IsRendering(f, state, batch)
  PROVE  AllRendered(state, batch) = f[Len(batch)]
<1> DEFINE Rec(g) == [n \in 0..Len(batch) |->
                        IF n = 0 THEN state ELSE Rendered(g[n - 1], batch[n])]
           F == CHOOSE g : g = Rec(g)
<1>1. AllRendered(state, batch) = F[Len(batch)]
  BY DEF AllRendered
<1>2. Len(batch) \in Nat
  BY LenProperties
<1>3. f = Rec(f)
  BY <1>2 DEF IsRendering
<1>4. F = Rec(F)
  <2> HIDE DEF Rec
  <2> QED BY <1>3
<1> HIDE DEF F
<1>5. F[0] = state
  <2>1. Rec(F)[0] = state
    BY <1>2
  <2> HIDE DEF Rec
  <2> QED BY <1>4, <2>1
<1>6. \A n \in 1..Len(batch) : F[n] = Rendered(F[n - 1], batch[n])
  <2> TAKE n \in 1..Len(batch)
  <2>1. Rec(F)[n] = Rendered(F[n - 1], batch[n])
    BY <1>2
  <2> HIDE DEF Rec
  <2> QED BY <1>4, <2>1
<1> DEFINE Same == {n \in Nat : n <= Len(batch) => F[n] = f[n]}
<1>7. 0 \in Same
  BY <1>5 DEF IsRendering
<1>8. ASSUME NEW n \in Nat, n \in Same
      PROVE  n + 1 \in Same
  <2>1. CASE n + 1 <= Len(batch)
    <3>1. F[n + 1] = Rendered(F[n], batch[n + 1])
      BY <1>2, <1>6, <2>1
    <3>2. f[n + 1] = Rendered(f[n], batch[n + 1])
      BY <1>2, <2>1 DEF IsRendering
    <3>3. F[n] = f[n]
      BY <1>2, <1>8, <2>1
    <3> QED BY <3>1, <3>2, <3>3
  <2>2. CASE ~(n + 1 <= Len(batch))
    BY <2>2
  <2> QED BY <2>1, <2>2
<1>9. Nat \subseteq Same
  <2> HIDE DEF Same
  <2> QED BY <1>7, <1>8, SetInduction
<1> QED BY <1>1, <1>2, <1>9

LEMMA RenderedEmpty ==
  ASSUME NEW state \in Displays
  PROVE  AllRendered(state, << >>) = state
<1>1. << >> \in Seq(Updates) /\ Len(<< >>) = 0
  OBVIOUS
<1>2. PICK f : IsRendering(f, state, << >>)
  BY <1>1, RenderingExists
<1>3. AllRendered(state, << >>) = f[Len(<< >>)]
  BY <1>1, <1>2, RenderedEndsTrace
<1> QED BY <1>1, <1>2, <1>3 DEF IsRendering

LEMMA RenderedAppend ==
  ASSUME NEW state \in Displays, NEW batch \in Seq(Updates),
         NEW update \in Updates
  PROVE  AllRendered(state, Append(batch, update))
           = Rendered(AllRendered(state, batch), update)
<1>1. PICK f : IsRendering(f, state, batch)
  BY RenderingExists
<1>2. AllRendered(state, batch) = f[Len(batch)]
  BY <1>1, RenderedEndsTrace
<1> DEFINE longer == Append(batch, update)
           m == Len(batch)
           g == [i \in 0..Len(longer) |->
                   IF i = m + 1 THEN Rendered(f[m], update) ELSE f[i]]
<1>3. /\ m \in Nat /\ longer \in Seq(Updates) /\ Len(longer) = m + 1
      /\ longer[m + 1] = update
      /\ \A n \in 1..m : longer[n] = batch[n]
  BY LenProperties, AppendProperties
<1>4. IsRendering(g, state, longer)
  <2> HIDE DEF longer
  <2>1. f \in [0..m -> Displays] /\ f[0] = state
    BY <1>1 DEF IsRendering
  <2>2. \A n \in 1..m : f[n] = Rendered(f[n - 1], batch[n])
    BY <1>1 DEF IsRendering
  <2>3. Rendered(f[m], update) \in Displays
    BY <1>3, <2>1, RenderedType
  <2> HIDE DEF m
  <2>4. g \in [0..Len(longer) -> Displays]
    BY <1>3, <2>1, <2>3
  <2>5. g[0] = state
    BY <1>3, <2>1
  <2>6. ASSUME NEW n \in 1..Len(longer)
        PROVE  g[n] = Rendered(g[n - 1], longer[n])
    <3>1. CASE n = m + 1
      BY <1>3, <3>1
    <3>2. CASE n \in 1..m
      BY <1>3, <2>2, <3>2
    <3> QED BY <1>3, <3>1, <3>2
  <2> QED BY <2>4, <2>5, <2>6 DEF IsRendering
<1>5. AllRendered(state, longer) = g[Len(longer)]
  <2> HIDE DEF longer, g
  <2> QED BY <1>3, <1>4, RenderedEndsTrace
<1> QED BY <1>2, <1>3, <1>5

----------------------------------------------------------------------------
(* A sequence that grows at its end and shrinks at its front.              *)

LEMMA BatchGrows ==
  ASSUME NEW S, NEW s \in Seq(S), NEW t \in Seq(S), NEW e \in S
  PROVE  s \o Append(t, e) = Append(s \o t, e)
<1>1. <<e>> \in Seq(S)
  OBVIOUS
<1>2. Append(t, e) = t \o <<e>>
  BY AppendIsConcat
<1>3. s \o t \in Seq(S)
  BY ConcatProperties
<1>4. Append(s \o t, e) = (s \o t) \o <<e>>
  BY <1>3, AppendIsConcat
<1> QED BY <1>1, <1>2, <1>4, ConcatAssociative

LEMMA BatchShrinks ==
  ASSUME NEW S, NEW s \in Seq(S), NEW t \in Seq(S), s # << >>
  PROVE  /\ s \o t # << >>
         /\ Head(s \o t) = Head(s)
         /\ Tail(s \o t) = Tail(s) \o t
<1>1. /\ Tail(s) \in Seq(S) /\ Len(Tail(s)) = Len(s) - 1
      /\ \A i \in 1..Len(Tail(s)) : Tail(s)[i] = s[i + 1]
  BY HeadTailProperties
<1>2. PICK m \in Nat \ {0} : m = Len(s)
  BY EmptySeq
<1>3. PICK n \in Nat : n = Len(t)
  BY LenProperties
<1>4. /\ s \o t \in Seq(S) /\ Len(s \o t) = m + n
      /\ \A i \in 1..(m + n) :
           (s \o t)[i] = IF i <= m THEN s[i] ELSE t[i - m]
  BY <1>2, <1>3, ConcatProperties
<1>5. s \o t # << >>
  BY <1>2, <1>4
<1>6. Head(s \o t) = Head(s)
  BY <1>2, <1>4, <1>5
<1>7. /\ Tail(s \o t) \in Seq(S) /\ Len(Tail(s \o t)) = m + n - 1
      /\ \A i \in 1..(m + n - 1) : Tail(s \o t)[i] = (s \o t)[i + 1]
  BY <1>4, <1>5, HeadTailProperties
<1>8. /\ Tail(s) \o t \in Seq(S) /\ Len(Tail(s) \o t) = m + n - 1
      /\ \A i \in 1..(m + n - 1) :
           (Tail(s) \o t)[i]
             = IF i <= m - 1 THEN Tail(s)[i] ELSE t[i - (m - 1)]
  <2>1. Len(Tail(s)) + Len(t) = m + n - 1 /\ Len(Tail(s)) = m - 1
    BY <1>1, <1>2, <1>3
  <2> QED BY <1>1, <2>1, ConcatProperties
<1>9. ASSUME NEW i \in 1..(m + n - 1)
      PROVE  Tail(s \o t)[i] = (Tail(s) \o t)[i]
  <2>1. Tail(s \o t)[i] = IF i + 1 <= m THEN s[i + 1] ELSE t[i + 1 - m]
    BY <1>2, <1>3, <1>4, <1>7
  <2>2. CASE i <= m - 1
    BY <1>1, <1>2, <1>8, <2>1, <2>2
  <2>3. CASE ~(i <= m - 1)
    BY <1>2, <1>8, <2>1, <2>3
  <2> QED BY <2>2, <2>3
<1> QED BY <1>5, <1>6, <1>7, <1>8, <1>9, SeqEqual

----------------------------------------------------------------------------
(* What is on its way to the user interface.                               *)

Types ==
  /\ version \in [Daemons -> Nat]
  /\ conn \in Daemons \union {0}
  /\ socket \in Seq(Messages) /\ buffered \in Seq(Messages)
  /\ updates \in Seq(Updates)
  /\ ui \in Displays

\* What the user is shown when the worker's updates are in ...
Shown == AllRendered(ui, updates)

\* ... and what the worker has yet to read.
Stream == buffered \o socket

\* The stream is numbered on from `next`, the event that fits what is shown
\* unless an update was missed or a snapshot comes first.
NumberedFrom(next) ==
  /\ \A i \in 1..Len(Stream) :
       /\ Stream[i].kind = "snapshot" => i = 1
       /\ Stream[i].of = conn
       /\ Stream[i].n + 1 = next + i
  /\ ~closed => next + Len(Stream) = version[conn] + 1
  /\ \/ "copy" \in missed
     \/ Stream # << >> /\ Stream[1].kind = "snapshot"
     \/ Shown.of = conn /\ Shown.n + 1 = next

NumberingInv ==
  /\ conn = 0 => ~greeted
  /\ ~greeted => buffered = << >> /\ socket = << >>
  /\ greeted => \E next \in Nat : NumberedFrom(next)

ShowInv == Types /\ NumberingInv /\ ShownIsOneState

LEMMA ShownType ==
  ASSUME Types
  PROVE  Shown \in Displays
<1>1. PICK f : IsRendering(f, ui, updates)
  BY RenderingExists DEF Types
<1>2. Shown = f[Len(updates)]
  BY <1>1, RenderedEndsTrace DEF Shown, Types
<1>3. Len(updates) \in Nat
  BY LenProperties DEF Types
<1> QED BY <1>1, <1>2, <1>3 DEF IsRendering

LEMMA StreamType ==
  ASSUME Types
  PROVE  Stream \in Seq(Messages)
  BY ConcatProperties DEF Stream, Types

(* An update is queued and will be rendered, or it is missed.              *)
LEMMA ReportEffect ==
  ASSUME Types, NEW update \in Updates, Report(update), ui' = ui
  PROVE  /\ updates' \in Seq(Updates)
         /\ \/ /\ Shown' = Rendered(Shown, update)
               /\ update.kind = "event" => missed' = missed
               /\ update.kind = "connected" =>
                    ("copy" \in missed' <=> "copy" \in missed)
            \/ /\ Shown' = Shown
               /\ "copy" \in missed => "copy" \in missed'
               /\ update.kind # "connected" => "copy" \in missed'
<1>1. CASE Len(updates) < UiCap
  <2>1. updates' = Append(updates, update)
    BY <1>1 DEF Report
  <2>2. updates' \in Seq(Updates)
    BY <2>1, AppendProperties DEF Types
  <2>3. Shown' = AllRendered(ui, Append(updates, update))
    BY <2>1 DEF Shown
  <2>4. Shown' = Rendered(Shown, update)
    BY <2>3, RenderedAppend DEF Shown, Types
  <2> QED BY <1>1, <2>2, <2>4 DEF Report, About
<1>2. CASE ~(Len(updates) < UiCap)
  <2>1. updates' = updates /\ missed' = missed \union {About(update)}
    BY <1>2 DEF Report
  <2>2. Shown' = Shown
    BY <2>1 DEF Shown
  <2> QED BY <2>1, <2>2 DEF About, Types
<1> QED BY <1>1, <1>2

(* A step that leaves the stream and what is shown alone.                  *)
LEMMA ShownUntouched ==
  ASSUME ShowInv, Types', Shown'.of = Shown.of, Shown'.n = Shown.n,
         Shown'.whole = Shown.whole,
         "copy" \in missed => "copy" \in missed',
         UNCHANGED <<version, conn, greeted, socket, buffered>>,
         closed => closed'
  PROVE  ShowInv'
<1>1. Stream' = Stream
  BY DEF Stream
<1>2. ShownIsOneState'
  BY DEF ShowInv, ShownIsOneState, Shown
<1>3. ASSUME NEW next \in Nat, NumberedFrom(next)
      PROVE  NumberedFrom(next)'
  BY <1>1, <1>3 DEF NumberedFrom
<1> QED BY <1>2, <1>3 DEF ShowInv, NumberingInv

(* The event a daemon publishes is the next one of its stream.             *)
LEMMA PublishKeepsShown ==
  ASSUME ShowInv, NEW d \in Daemons, Publish(d)
  PROVE  ShowInv'
<1>1. /\ version' = [version EXCEPT ![d] = @ + 1]
      /\ socket' = IF conn = d /\ greeted /\ ~closed
                   THEN Append(socket, Event(d, version'[d])) ELSE socket
      /\ UNCHANGED <<conn, greeted, closed, buffered, updates, ui, missed>>
  BY DEF Publish, uiVars
<1>2. Event(d, version'[d]) \in Messages
  BY <1>1, AppConfig DEF Event, Messages, ShowInv, Types
<1>3. Types'
  <2>1. socket' \in Seq(Messages)
    BY <1>1, <1>2, AppendProperties DEF ShowInv, Types
  <2> QED BY <1>1, <2>1 DEF ShowInv, Types
<1>4. Shown' = Shown
  BY <1>1 DEF Shown
<1>5. ShownIsOneState'
  BY <1>1 DEF ShowInv, ShownIsOneState
<1>6. CASE conn = d /\ greeted /\ ~closed
  <2>1. PICK next \in Nat : NumberedFrom(next)
    BY <1>6 DEF ShowInv, NumberingInv
  <2>2. Stream' = Append(Stream, Event(d, version'[d]))
    BY <1>1, <1>2, <1>6, BatchGrows DEF Stream, ShowInv, Types
  <2>3. PICK m \in Nat : m = Len(Stream)
    BY StreamType, LenProperties DEF ShowInv
  <2>4. /\ Len(Stream') = m + 1
        /\ \A i \in 1..m : Stream'[i] = Stream[i]
        /\ Stream'[m + 1] = Event(d, version'[d])
    BY <1>2, <2>2, <2>3, StreamType, AppendProperties DEF ShowInv
  <2>5. /\ version[d] \in Nat /\ version'[d] = version[d] + 1
        /\ next + m = version[d] + 1
    BY <1>1, <1>6, <2>1, <2>3 DEF NumberedFrom, ShowInv, Types
  <2>6. ASSUME NEW i \in 1..(m + 1)
        PROVE  /\ Stream'[i].kind = "snapshot" => i = 1
               /\ Stream'[i].of = conn'
               /\ Stream'[i].n + 1 = next + i
    <3>1. CASE i \in 1..m
      BY <1>1, <2>1, <2>3, <2>4, <3>1 DEF NumberedFrom
    <3>2. CASE i = m + 1
      BY <1>1, <1>6, <2>4, <2>5, <3>2 DEF Event
    <3> QED BY <3>1, <3>2
  <2>7. next + Len(Stream') = version'[conn'] + 1
    BY <1>1, <1>6, <2>4, <2>5
  <2>8. \/ "copy" \in missed'
        \/ Stream' # << >> /\ Stream'[1].kind = "snapshot"
        \/ Shown'.of = conn' /\ Shown'.n + 1 = next
    <3>1. Stream' # << >>
      BY <2>3, <2>4, EmptySeq
    <3>2. Stream # << >> => 1 \in 1..m
      BY <2>3, StreamType, EmptySeq DEF ShowInv
    <3> QED BY <1>1, <1>4, <2>1, <2>4, <3>1, <3>2 DEF NumberedFrom
  <2>9. NumberedFrom(next)'
    BY <2>4, <2>6, <2>7, <2>8 DEF NumberedFrom
  <2>10. conn # 0
    BY <1>6, AppConfig
  <2> QED BY <1>1, <1>3, <1>5, <1>6, <2>9, <2>10 DEF ShowInv, NumberingInv
<1>7. CASE ~(conn = d /\ greeted /\ ~closed)
  <2>1. socket' = socket /\ Stream' = Stream
    BY <1>1, <1>7 DEF Stream
  <2>2. ASSUME greeted, NEW next \in Nat, NumberedFrom(next)
        PROVE  NumberedFrom(next)'
    <3>1. ~closed => conn # d
      BY <1>7, <2>2
    <3>2. ~closed => version'[conn] = version[conn]
      BY <1>1, <3>1, <2>2 DEF ShowInv, NumberingInv, Types
    <3> QED BY <1>1, <1>4, <2>1, <2>2, <3>2 DEF NumberedFrom
  <2> QED BY <1>1, <1>3, <1>5, <2>1, <2>2 DEF ShowInv, NumberingInv
<1> QED BY <1>6, <1>7

LEMMA GreetKeepsShown ==
  ASSUME ShowInv, Greets
  PROVE  ShowInv'
<1>1. /\ conn # 0 /\ ~greeted /\ greeted'
      /\ socket' = <<Snapshot(conn, version[conn])>>
      /\ UNCHANGED <<version, conn, closed, buffered, updates, ui, missed>>
  BY DEF Greets, daemonVars, uiVars
<1>2. buffered = << >> /\ conn \in Daemons /\ version[conn] \in Nat
  BY <1>1 DEF ShowInv, NumberingInv, Types
<1>3. Snapshot(conn, version[conn]) \in Messages
  BY <1>2, AppConfig DEF Snapshot, Messages
<1>4. Types'
  BY <1>1, <1>3 DEF ShowInv, Types
<1>5. ShownIsOneState'
  BY <1>1 DEF ShowInv, ShownIsOneState
<1>6. Stream' = <<Snapshot(conn, version[conn])>>
  <2>1. socket' \in Seq(Messages)
    BY <1>4 DEF Types
  <2> QED BY <1>1, <1>2, <2>1, ConcatEmptySeq DEF Stream
<1>7. /\ Len(Stream') = 1 /\ Stream' # << >>
      /\ Stream'[1].kind = "snapshot"
      /\ Stream'[1].of = conn /\ Stream'[1].n = version[conn]
  BY <1>6 DEF Snapshot
<1>8. NumberedFrom(version[conn])'
  BY <1>1, <1>2, <1>7 DEF NumberedFrom
<1> QED BY <1>1, <1>2, <1>4, <1>5, <1>8 DEF ShowInv, NumberingInv

(* Whatever has been read ahead: the worker takes the head of the stream.  *)
LEMMA ReceiveTakesHead ==
  ASSUME Types, Receive
  PROVE  Stream # << >> /\ Report(Head(Stream)) /\ Stream' = Tail(Stream)
<1>1. CASE buffered # << >>
  <2>1. Report(Head(buffered)) /\ buffered' = Tail(buffered) /\ socket' = socket
    BY <1>1 DEF Receive
  <2> QED BY <1>1, <2>1, BatchShrinks DEF Stream, Types
<1>2. CASE buffered = << >>
  <2>1. PICK n \in 1..Len(socket) :
          /\ Report(Head(socket))
          /\ buffered' = SubSeq(socket, 2, n)
          /\ socket' = SubSeq(socket, n + 1, Len(socket))
    BY <1>2 DEF Receive
  <2>2. Stream = socket
    BY <1>2, ConcatEmptySeq DEF Stream, Types
  <2>3. socket # << >>
    BY <1>2 DEF Receive
  <2>4. PICK m \in Nat \ {0} : m = Len(socket)
    BY <2>3, EmptySeq DEF Types
  <2>5. SubSeq(socket, 2, n) \o SubSeq(socket, n + 1, Len(socket))
          = SubSeq(socket, 2, Len(socket))
    <3>1. 2 \in 1..(Len(socket) + 1) /\ n \in (2 - 1)..Len(socket)
          /\ Len(socket) \in n..Len(socket)
      BY <2>1, <2>4
    <3> QED BY <3>1, ConcatAdjacentSubSeq DEF Types
  <2>6. Tail(socket) = SubSeq(socket, 2, Len(socket))
    BY <2>3, TailIsSubSeq DEF Types
  <2> QED BY <2>1, <2>2, <2>3, <2>5, <2>6 DEF Stream
<1> QED BY <1>1, <1>2

LEMMA ReceiveKeepsShown ==
  ASSUME ShowInv, Receive
  PROVE  ShowInv'
<1>1. /\ conn # 0
      /\ UNCHANGED <<version, conn, greeted, closed, ui>>
  BY DEF Receive, daemonVars
<1>2. Stream # << >> /\ Report(Head(Stream)) /\ Stream' = Tail(Stream)
  BY ReceiveTakesHead DEF ShowInv
<1>3. greeted
  <2>1. ~greeted => Stream = << >>
    BY ConcatEmptySeq DEF ShowInv, NumberingInv, Stream, Types
  <2> QED BY <1>2, <2>1
<1>4. PICK next \in Nat : NumberedFrom(next)
  BY <1>3 DEF ShowInv, NumberingInv
<1>5. PICK m \in Nat \ {0} : m = Len(Stream)
  BY <1>2, StreamType, EmptySeq DEF ShowInv
<1>6. /\ Head(Stream) = Stream[1] /\ Head(Stream) \in Messages
      /\ Len(Stream') = m - 1
      /\ \A i \in 1..(m - 1) : Stream'[i] = Stream[i + 1]
  <2>1. Stream \in Seq(Messages)
    BY StreamType DEF ShowInv
  <2> QED BY <1>2, <1>5, <2>1, HeadTailProperties
<1>7. PICK update \in Messages : update = Stream[1]
  BY <1>6
<1>8. /\ update.of = conn /\ update.n = next
      /\ update.kind \in {"snapshot", "event"}
      /\ \A i \in 2..m : /\ Stream[i].kind # "snapshot"
                         /\ Stream[i].of = conn
                         /\ Stream[i].n + 1 = next + i
  <2>1. update.n \in Nat
    BY DEF Messages
  <2> QED BY <1>4, <1>5, <1>7, <2>1 DEF NumberedFrom, Messages
<1>9. update \in Updates /\ Report(update)
  BY <1>2, <1>6, <1>7 DEF Updates
<1>10. Types'
  <2>1. updates' \in Seq(Updates)
    BY <1>1, <1>9, ReportEffect DEF ShowInv
  <2>2. socket' \in Seq(Messages) /\ buffered' \in Seq(Messages)
    <3>1. CASE buffered # << >>
      BY <3>1, HeadTailProperties DEF Receive, ShowInv, Types
    <3>2. CASE buffered = << >>
      <4>1. PICK n \in 1..Len(socket) :
              /\ buffered' = SubSeq(socket, 2, n)
              /\ socket' = SubSeq(socket, n + 1, Len(socket))
        BY <3>2 DEF Receive
      <4>2. PICK k \in Nat : k = Len(socket)
        BY LenProperties DEF ShowInv, Types
      <4>3. \A i \in 1..k : socket[i] \in Messages
        BY <4>2, ElementOfSeq DEF ShowInv, Types
      <4>4. (\A i \in 2..n : socket[i] \in Messages)
            /\ (\A i \in (n + 1)..k : socket[i] \in Messages)
        BY <4>1, <4>2, <4>3
      <4>5. 2 \in Int /\ n \in Int /\ n + 1 \in Int /\ k \in Int
        BY <4>1, <4>2
      <4>6. SubSeq(socket, 2, n) \in Seq(Messages)
        BY <4>4, <4>5, SubSeqProperties
      <4>7. SubSeq(socket, n + 1, k) \in Seq(Messages)
        BY <4>4, <4>5, SubSeqProperties
      <4> QED BY <4>1, <4>2, <4>6, <4>7
    <3> QED BY <3>1, <3>2
  <2> QED BY <1>1, <2>1, <2>2 DEF ShowInv, Types
<1>11. PICK old \in Displays : old = Shown
  BY ShownType DEF ShowInv
<1>12. \/ /\ Shown' = Rendered(old, update)
          /\ update.kind = "event" => missed' = missed
       \/ Shown' = old /\ "copy" \in missed'
  BY <1>1, <1>8, <1>9, <1>11, ReportEffect DEF ShowInv
<1>13. "copy" \in missed \/ old.whole
  BY <1>11 DEF ShowInv, ShownIsOneState, Shown
<1>14. \/ "copy" \in missed
       \/ update.kind = "snapshot"
       \/ old.of = conn /\ old.n + 1 = next
  BY <1>4, <1>7, <1>11 DEF NumberedFrom
<1>15. "copy" \in missed' \/ (Shown'.whole /\ Shown'.of = conn /\ Shown'.n = next)
  <2>1. CASE update.kind = "snapshot"
    BY <1>8, <1>9, <1>12, <2>1, RenderedEffect
  <2>2. CASE update.kind = "event"
    BY <1>8, <1>9, <1>12, <1>13, <1>14, <2>2, RenderedEffect
  <2> QED BY <1>8, <2>1, <2>2
<1>16. NumberedFrom(next + 1)'
  <2>1. ASSUME NEW i \in 1..(m - 1)
        PROVE  /\ Stream'[i].kind # "snapshot"
               /\ Stream'[i].of = conn'
               /\ Stream'[i].n + 1 = next + 1 + i
    <3>1. i + 1 \in 2..m /\ Stream'[i] = Stream[i + 1]
      BY <1>5, <1>6
    <3>2. Stream[i + 1].n + 1 = next + (i + 1)
      BY <1>8, <3>1
    <3> QED BY <1>1, <1>8, <3>1, <3>2
  <2>2. ~closed' => next + 1 + Len(Stream') = version'[conn'] + 1
    <3>1. ~closed => next + m = version[conn] + 1
      BY <1>4, <1>5 DEF NumberedFrom
    <3>2. next + 1 + (m - 1) = next + m
      BY <1>5
    <3> QED BY <1>1, <1>6, <3>1, <3>2
  <2> QED BY <1>1, <1>6, <1>15, <2>1, <2>2 DEF NumberedFrom
<1>17. ShownIsOneState'
  BY <1>15 DEF ShownIsOneState, Shown
<1>18. next + 1 \in Nat
  OBVIOUS
<1> QED BY <1>1, <1>3, <1>10, <1>16, <1>17, <1>18 DEF ShowInv, NumberingInv

(* The flag of the connection is told apart from the copy.                 *)
LEMMA FlagKeepsShown ==
  ASSUME ShowInv, NEW value \in BOOLEAN, Report(Connected(value)), ui' = ui
  PROVE  /\ updates' \in Seq(Updates)
         /\ Shown'.of = Shown.of /\ Shown'.n = Shown.n
         /\ Shown'.whole = Shown.whole
         /\ "copy" \in missed => "copy" \in missed'
<1>1. PICK update \in Updates : update = Connected(value) /\ update.kind = "connected"
  BY DEF Connected, Updates
<1>2. PICK old \in Displays : old = Shown
  BY ShownType DEF ShowInv
<1>3. /\ updates' \in Seq(Updates)
      /\ \/ /\ Shown' = Rendered(old, update)
            /\ "copy" \in missed' <=> "copy" \in missed
         \/ Shown' = old /\ ("copy" \in missed => "copy" \in missed')
  BY <1>1, <1>2, ReportEffect DEF ShowInv
<1> QED BY <1>1, <1>2, <1>3, RenderedEffect

LEMMA ConnectKeepsShown ==
  ASSUME ShowInv, Connects
  PROVE  ShowInv'
<1>1. /\ path \in Daemons /\ conn' = path /\ ~greeted'
      /\ socket' = << >> /\ buffered' = << >>
      /\ Report(Connected(TRUE))
      /\ UNCHANGED <<version, ui>>
  BY DEF Connects, Listeners, daemonVars
<1>2. /\ updates' \in Seq(Updates)
      /\ Shown'.whole = Shown.whole
      /\ "copy" \in missed => "copy" \in missed'
  BY <1>1, FlagKeepsShown
<1>3. Types'
  BY <1>1, <1>2 DEF ShowInv, Types
<1>4. ShownIsOneState'
  BY <1>2 DEF ShowInv, ShownIsOneState, Shown
<1> QED BY <1>1, <1>3, <1>4 DEF ShowInv, NumberingInv

LEMMA ShowInit == AppInit => ShowInv
<1> SUFFICES ASSUME AppInit PROVE ShowInv
  OBVIOUS
<1>1. Types
  BY DEF AppInit, Types, Displays
<1>2. Shown = ui
  BY <1>1, RenderedEmpty DEF AppInit, Shown, Types
<1>3. ShownIsOneState
  BY <1>2 DEF AppInit, ShownIsOneState, Shown
<1> QED BY <1>1, <1>3 DEF ShowInv, NumberingInv, AppInit

LEMMA ShowStep ==
  ASSUME ShowInv, [AppNext]_appVars
  PROVE  ShowInv'
<1>1. ASSUME UNCHANGED <<version, connVars, uiVars>>
      PROVE  ShowInv'
  <2>1. Types' /\ Shown' = Shown
    BY <1>1 DEF ShowInv, Types, Shown, connVars, uiVars
  <2> QED BY <1>1, <2>1, ShownUntouched DEF connVars, uiVars
<1>2. ASSUME NEW d \in Daemons,
             \/ Prepare(d) \/ Bind(d) \/ StopAccepting(d) \/ RemovePath(d)
             \/ Exit(d) \/ Crash(d)
      PROVE  ShowInv'
  BY <1>1, <1>2 DEF Prepare, Bind, StopAccepting, RemovePath, Exit, Crash
<1>3. CASE ConnectFails
  <2>1. /\ UNCHANGED <<version, conn, greeted, closed, socket, buffered, ui>>
        /\ Report(Connected(FALSE))
    BY <1>3 DEF ConnectFails, daemonVars, connVars
  <2>2. /\ updates' \in Seq(Updates)
        /\ Shown'.of = Shown.of /\ Shown'.n = Shown.n
        /\ Shown'.whole = Shown.whole
        /\ "copy" \in missed => "copy" \in missed'
    BY <2>1, FlagKeepsShown
  <2>3. Types'
    BY <2>1, <2>2 DEF ShowInv, Types
  <2> QED BY <2>1, <2>2, <2>3, ShownUntouched
<1>4. CASE Lost
  <2>1. /\ UNCHANGED <<version, socket, buffered, updates, ui, missed>>
        /\ conn' = 0 /\ ~greeted' /\ socket = << >> /\ buffered = << >>
    BY <1>4 DEF Lost, daemonVars, uiVars
  <2> QED BY <2>1 DEF ShowInv, Types, NumberingInv, ShownIsOneState
<1>5. CASE SendAction
  <2>1. /\ UNCHANGED <<version, conn, greeted, socket, buffered, updates, ui,
                       missed>>
        /\ closed => closed'
    BY <1>5 DEF SendAction, daemonVars
  <2>2. Types' /\ Shown' = Shown
    BY <2>1 DEF ShowInv, Types, Shown
  <2> QED BY <2>1, <2>2, ShownUntouched
<1>6. CASE Tick
  <2>1. /\ UNCHANGED <<version, conn, greeted, closed, socket, buffered, missed>>
        /\ ui' = Shown /\ updates' = << >>
    BY <1>6 DEF Tick, daemonVars, connVars, Shown
  <2>2. Types'
    BY <2>1, ShownType DEF ShowInv, Types
  <2>3. Shown' = Shown
    <3>1. PICK shown \in Displays : shown = Shown
      BY ShownType DEF ShowInv
    <3>2. Shown' = AllRendered(shown, << >>)
      BY <2>1, <3>1 DEF Shown
    <3> QED BY <3>1, <3>2, RenderedEmpty
  <2> QED BY <2>1, <2>2, <2>3, ShownUntouched
<1>7. CASE ClickStop
  <2>1. UNCHANGED <<version, conn, greeted, closed, socket, buffered, updates, ui,
                    missed>>
    BY <1>7 DEF ClickStop, daemonVars, connVars
  <2>2. Types' /\ Shown' = Shown
    BY <2>1 DEF ShowInv, Types, Shown
  <2> QED BY <2>1, <2>2, ShownUntouched
<1>8. CASE UNCHANGED appVars
  BY <1>1, <1>8 DEF appVars, daemonVars
<1> QED
  BY <1>2, <1>3, <1>4, <1>5, <1>6, <1>7, <1>8, PublishKeepsShown,
     GreetKeepsShown, ConnectKeepsShown, ReceiveKeepsShown
     DEF AppNext, Overlay

(* Over any number of connections, daemons, crashes and reads ahead, the   *)
(* picture is one state of one daemon, unless the worker's queue was full  *)
(* since the last snapshot.                                                *)
THEOREM ShowsOneState == AppSpec => []ShownIsOneState
<1>1. AppInit => ShowInv
  BY ShowInit
<1>2. ShowInv /\ [AppNext]_appVars => ShowInv'
  BY ShowStep
<1>3. ShowInv => ShownIsOneState
  BY DEF ShowInv
<1> QED BY <1>1, <1>2, <1>3, PTL DEF AppSpec
=============================================================================
