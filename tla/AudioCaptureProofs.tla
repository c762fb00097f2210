------------------------- MODULE AudioCaptureProofs -------------------------
(***************************************************************************)
(* Theorems about AudioCapture and CaptureCommand, for every capacity of   *)
(* the channel and any number of callbacks.  Of the capture: no frame is   *)
(* lost without a trace and the reason of the end is the one that was      *)
(* told, whatever the rest of the program does with the token and the      *)
(* receiver of the frames.  Of the command: its exit code and its summary  *)
(* tell what happened.                                                     *)
(***************************************************************************)
EXTENDS CaptureCommand, FiniteSetTheorems, SequenceTheorems, TLAPS

\* The events of a capture, as far as the proofs look into them.
Whys == {"none", "stream", "refused", "disconnect", "cancelled", "lost", "failed"}

Events == [kind : EventKinds, why : Whys]

RefusedIn(es) == {i \in 1..Len(es) : es[i].why = "refused"}

----------------------------------------------------------------------------
(* Lemmas about the sequence of events. *)

\* What short sequences hold.
LEMMA ShortSequences ==
  /\ << >> \in Seq(Events) /\ Range(<< >>) = {}
  /\ \A a \in Events : <<a>> \in Seq(Events) /\ Range(<<a>>) = {a}
  /\ \A a, b \in Events :
       <<a, b>> \in Seq(Events) /\ Range(<<a, b>>) = {a, b}
<1>1. << >> \in Seq(Events) /\ Range(<< >>) = {}
  BY DEF Range
<1>2. ASSUME NEW a \in Events
      PROVE  <<a>> \in Seq(Events) /\ Range(<<a>>) = {a}
  BY DEF Range
<1>3. ASSUME NEW a \in Events, NEW b \in Events
      PROVE  <<a, b>> \in Seq(Events) /\ Range(<<a, b>>) = {a, b}
  <2>1. DOMAIN <<a, b>> = {1, 2} /\ <<a, b>>[1] = a /\ <<a, b>>[2] = b
    OBVIOUS
  <2>. QED BY <2>1 DEF Range
<1>. QED BY <1>1, <1>2, <1>3

LEMMA AppendToOne ==
  ASSUME NEW a \in Events, NEW b \in Events
  PROVE  Append(<<a>>, b) = <<a, b>>
<1>1. /\ <<a>> \in Seq(Events) /\ Len(<<a>>) = 1 /\ <<a>>[1] = a
      /\ <<a, b>> \in Seq(Events) /\ Len(<<a, b>>) = 2
      /\ <<a, b>>[1] = a /\ <<a, b>>[2] = b
  OBVIOUS
<1>2. /\ Append(<<a>>, b) \in Seq(Events) /\ Len(Append(<<a>>, b)) = 2
      /\ Append(<<a>>, b)[1] = a /\ Append(<<a>>, b)[2] = b
  BY <1>1
<1>3. \A i \in 1..2 : Append(<<a>>, b)[i] = <<a, b>>[i]
  BY <1>1, <1>2
<1>. QED BY <1>1, <1>2, <1>3, SeqEqual

\* The events that are sent are events, and those that matter differ.
LEMMA EventKindsDiffer ==
  /\ \A kind \in EventKinds :
       /\ Event(kind) \in Events
       /\ kind # "error" => Event(kind) # ErrorEvent("stream")
       /\ kind # "lost" => Event(kind) # Event("lost")
  /\ \A why \in Whys :
       /\ ErrorEvent(why) \in Events /\ Stopped(why) \in Events
       /\ why # "stream" => ErrorEvent(why) # ErrorEvent("stream")
       /\ ErrorEvent(why) # Event("lost")
       /\ Stopped(why) # ErrorEvent("stream") /\ Stopped(why) # Event("lost")
<1>1. /\ ErrorEvent("stream").kind = "error" /\ ErrorEvent("stream").why = "stream"
      /\ Event("lost").kind = "lost"
  BY DEF Event, ErrorEvent
<1>2. ASSUME NEW kind \in EventKinds
      PROVE  Event(kind) \in Events /\ Event(kind).kind = kind
  BY DEF Event, Events, Whys
<1>3. ASSUME NEW why \in Whys
      PROVE  /\ ErrorEvent(why) \in Events /\ Stopped(why) \in Events
             /\ ErrorEvent(why).kind = "error" /\ ErrorEvent(why).why = why
             /\ Stopped(why).kind = "stopped"
  BY DEF ErrorEvent, Stopped, Events, EventKinds
<1>. QED BY <1>1, <1>2, <1>3

\* Whoever sends events adds them to those that can be found.
LEMMA SentAreFound ==
  ASSUME NEW es \in Seq(Events), NEW new \in Seq(Events)
  PROVE  /\ es \o new \in Seq(Events)
         /\ Range(es \o new) = Range(es) \union Range(new)
<1>1. es \o new \in Seq(Events)
  BY ConcatProperties
<1>2. /\ Len(es \o new) = Len(es) + Len(new)
      /\ Len(es) \in Nat /\ Len(new) \in Nat
      /\ \A i \in 1..Len(es) : (es \o new)[i] = es[i]
      /\ \A i \in 1..Len(new) : (es \o new)[Len(es) + i] = new[i]
  BY ConcatProperties, LenProperties
<1>3. Range(es \o new) \subseteq Range(es) \union Range(new)
  <2> SUFFICES ASSUME NEW i \in 1..Len(es \o new)
               PROVE  (es \o new)[i] \in Range(es) \union Range(new)
    BY <1>1, LenProperties DEF Range
  <2>1. CASE i <= Len(es)
    BY <1>2, <2>1, LenProperties DEF Range
  <2>2. CASE i > Len(es)
    <3>1. i - Len(es) \in 1..Len(new) /\ i = Len(es) + (i - Len(es))
      BY <1>2, <2>2
    <3>2. (es \o new)[i] = new[i - Len(es)]
      BY <1>2, <3>1
    <3>. QED BY <3>1, <3>2, LenProperties DEF Range
  <2>. QED BY <1>2, <2>1, <2>2
<1>4. Range(es) \subseteq Range(es \o new)
  <2> SUFFICES ASSUME NEW i \in 1..Len(es)
               PROVE  es[i] \in Range(es \o new)
    BY LenProperties DEF Range
  <2>1. i \in 1..Len(es \o new) /\ (es \o new)[i] = es[i]
    BY <1>2
  <2>. QED BY <1>1, <2>1, LenProperties DEF Range
<1>5. Range(new) \subseteq Range(es \o new)
  <2> SUFFICES ASSUME NEW i \in 1..Len(new)
               PROVE  new[i] \in Range(es \o new)
    BY LenProperties DEF Range
  <2>1. Len(es) + i \in 1..Len(es \o new) /\ (es \o new)[Len(es) + i] = new[i]
    BY <1>2
  <2>. QED BY <1>1, <2>1, LenProperties DEF Range
<1>. QED BY <1>1, <1>3, <1>4, <1>5

\* Only refusals are counted, and one by one.
LEMMA RefusalsCount ==
  ASSUME NEW es \in Seq(Events)
  PROVE  /\ Cardinality(RefusedIn(es)) \in Nat
         /\ \A new \in Seq(Events) :
              (\A i \in 1..Len(new) : new[i].why # "refused")
                => RefusedIn(es \o new) = RefusedIn(es)
         /\ Cardinality(RefusedIn(es \o <<ErrorEvent("refused")>>))
              = Cardinality(RefusedIn(es)) + 1
<1>1. Len(es) \in Nat /\ IsFiniteSet(1..Len(es))
  BY LenProperties, FS_Interval
<1>2. IsFiniteSet(RefusedIn(es))
  BY <1>1, FS_Subset DEF RefusedIn
<1>3. ASSUME NEW new \in Seq(Events), \A i \in 1..Len(new) : new[i].why # "refused"
      PROVE  RefusedIn(es \o new) = RefusedIn(es)
  <2>1. /\ Len(new) \in Nat
        /\ Len(es \o new) = Len(es) + Len(new)
        /\ \A i \in 1..Len(es) : (es \o new)[i] = es[i]
        /\ \A i \in 1..Len(es \o new) :
             i > Len(es) => (es \o new)[i] = new[i - Len(es)]
    BY <1>1, LenProperties
  <2>2. ASSUME NEW i \in 1..Len(es \o new), i > Len(es)
        PROVE  (es \o new)[i].why # "refused"
    <3>1. i - Len(es) \in 1..Len(new)
      BY <1>1, <2>1, <2>2
    <3>. QED BY <1>3, <2>1, <2>2, <3>1
  <2>. QED BY <1>1, <2>1, <2>2 DEF RefusedIn
<1>4. RefusedIn(es \o <<ErrorEvent("refused")>>)
        = RefusedIn(es) \union {Len(es) + 1}
  <2> DEFINE all == es \o <<ErrorEvent("refused")>>
  <2>1. /\ Len(all) = Len(es) + 1
        /\ \A i \in 1..Len(es) : all[i] = es[i]
        /\ all[Len(es) + 1] = ErrorEvent("refused")
    BY <1>1
  <2>2. all[Len(es) + 1].why = "refused"
    BY <2>1 DEF ErrorEvent
  <2> HIDE DEF all
  <2>3. RefusedIn(all) = RefusedIn(es) \union {Len(es) + 1}
    BY <1>1, <2>1, <2>2 DEF RefusedIn
  <2>. QED BY <2>3 DEF all
<1>5. Len(es) + 1 \notin RefusedIn(es)
  BY <1>1 DEF RefusedIn
<1>. QED BY <1>2, <1>3, <1>4, <1>5, FS_AddElement, FS_CardinalityType

----------------------------------------------------------------------------
(* The reason of the end. *)

EventsSend == events \in Seq(Events)

CaptureStates == {"starting", "looping", "joining", "done", "failed"}
StreamStates == {"unconnected", "connecting", "paused", "streaming", "error"}

(* What has been told is what has become of the stream: a failed stream    *)
(* and one that was lost stay so, and nothing is told after the end.       *)
CauseInv ==
  /\ EventsSend
  /\ capture \in CaptureStates
  /\ stream \in StreamStates
  /\ sawStreaming \in BOOLEAN
  /\ capture \in {"starting", "failed"} => stream = "unconnected" /\ ~sawStreaming
  /\ Reported(ErrorEvent("stream")) <=> stream = "error"
  /\ Reported(Event("lost")) <=> stream = "unconnected" /\ sawStreaming
  /\ capture = "done" =>
       reason = ReasonFor(stream) /\ Last(events) = Stopped(reason)

\* The invariant holds at the start, and implies the property.
LEMMA CauseInitial == Init => CauseInv
<1> SUFFICES ASSUME Init PROVE CauseInv
  OBVIOUS
<1>1. events = << >> /\ stream = "unconnected" /\ capture = "starting" /\ ~sawStreaming
  BY DEF Init
<1>2. events \in Seq(Events) /\ Range(events) = {}
  BY <1>1, ShortSequences, EventKindsDiffer
<1>. QED BY <1>1, <1>2 DEF CauseInv, EventsSend, CaptureStates, StreamStates,
                           Reported, Init

LEMMA CauseImplies == CauseInv => StopTellsCause
BY DEF CauseInv, StopTellsCause, ReasonFor, StreamStates

\* Sending adds what is sent to what was reported.
LEMMA SendReports ==
  ASSUME EventsSend, NEW CONSTANT new \in Seq(Events), Send(new)
  PROVE  EventsSend' /\ Range(events') = Range(events) \union Range(new)
BY SentAreFound DEF EventsSend, Send

\* What is neither a failed stream nor a lost one leaves the causes alone.
LEMMA SendKeepsCauses ==
  ASSUME EventsSend, NEW CONSTANT new \in Seq(Events), Send(new),
         ErrorEvent("stream") \notin Range(new), Event("lost") \notin Range(new)
  PROVE  /\ EventsSend'
         /\ Reported(ErrorEvent("stream"))' <=> Reported(ErrorEvent("stream"))
         /\ Reported(Event("lost"))' <=> Reported(Event("lost"))
<1>1. EventsSend' /\ Range(events') = Range(events) \union Range(new)
  BY SendReports
<1>. QED BY <1>1 DEF Reported, Event, ErrorEvent

\* The state of the stream, when nothing touches it.
LEMMA CauseKept ==
  ASSUME CauseInv, EventsSend',
         Reported(ErrorEvent("stream"))' <=> Reported(ErrorEvent("stream")),
         Reported(Event("lost"))' <=> Reported(Event("lost")),
         UNCHANGED streamVars, capture' = capture, capture # "done"
  PROVE  CauseInv'
BY DEF CauseInv, streamVars

LEMMA CauseStutters ==
  ASSUME CauseInv, UNCHANGED <<events, capture, reason, streamVars>>
  PROVE  CauseInv'
<1>1. EventsSend' /\ Range(events') = Range(events) /\ Last(events') = Last(events)
  BY DEF CauseInv, EventsSend
<1>. QED BY <1>1 DEF CauseInv, streamVars, Reported, Event, ErrorEvent, Stopped,
                     ReasonFor

LEMMA SetUpKeepsCause ==
  ASSUME CauseInv, SetUp
  PROVE  CauseInv'
<1>1. Event("starting") \in Events /\ Event("connecting") \in Events
  BY EventKindsDiffer DEF EventKinds
<1>2. /\ Event("starting") # ErrorEvent("stream")
      /\ Event("connecting") # ErrorEvent("stream")
      /\ Event("starting") # Event("lost") /\ Event("connecting") # Event("lost")
  BY EventKindsDiffer DEF EventKinds
<1>3. CASE Send(<<Event("starting"), Event("connecting")>>)
           /\ capture' = "looping" /\ stream' = "connecting"
  <2>1. /\ EventsSend'
        /\ Reported(ErrorEvent("stream"))' <=> Reported(ErrorEvent("stream"))
        /\ Reported(Event("lost"))' <=> Reported(Event("lost"))
    <3> DEFINE new == <<Event("starting"), Event("connecting")>>
    <3>1. new \in Seq(Events) /\ Range(new) = {Event("starting"), Event("connecting")}
      BY <1>1, ShortSequences
    <3> HIDE DEF new
    <3>2. ErrorEvent("stream") \notin Range(new) /\ Event("lost") \notin Range(new)
      BY <1>2, <3>1
    <3>3. Send(new)
      BY <1>3 DEF new
    <3>. QED BY <3>1, <3>2, <3>3, SendKeepsCauses DEF CauseInv
  <2>. QED BY <1>3, <2>1 DEF SetUp, CauseInv, CaptureStates, StreamStates
<1>4. CASE Send(<<Event("starting")>>) /\ capture' = "failed" /\ stream' = stream
  <2>1. /\ EventsSend'
        /\ Reported(ErrorEvent("stream"))' <=> Reported(ErrorEvent("stream"))
        /\ Reported(Event("lost"))' <=> Reported(Event("lost"))
    <3> DEFINE new == <<Event("starting")>>
    <3>1. new \in Seq(Events) /\ Range(new) = {Event("starting")}
      BY <1>1, ShortSequences
    <3> HIDE DEF new
    <3>2. ErrorEvent("stream") \notin Range(new) /\ Event("lost") \notin Range(new)
      BY <1>2, <3>1
    <3>3. Send(new)
      BY <1>4 DEF new
    <3>. QED BY <3>1, <3>2, <3>3, SendKeepsCauses DEF CauseInv
  <2>. QED BY <1>4, <2>1 DEF SetUp, CauseInv, CaptureStates, StreamStates
<1>. QED BY <1>3, <1>4 DEF SetUp

\* An error, or the loss of a stream that has streamed, is told when it happens.
LEMMA StateChangedKeepsCause ==
  ASSUME CauseInv, NEW new, StateChanged(new)
  PROVE  CauseInv'
<1> DEFINE told == CASE new = "streaming" -> <<Event("streaming")>>
                     [] new = "error" -> <<ErrorEvent("stream")>>
                     [] new = "unconnected" /\ sawStreaming -> <<Event("lost")>>
                     [] OTHER -> << >>
<1>1. /\ capture = "looping" /\ capture' = "looping"
      /\ new \in Follows(stream) /\ stream' = new
      /\ sawStreaming' = (sawStreaming \/ new = "streaming")
      /\ Send(told)
  BY DEF StateChanged, Callback
<1>2. /\ stream \in {"connecting", "paused", "streaming"}
      /\ new \in {"paused", "streaming", "error", "unconnected"}
  BY <1>1 DEF Follows, CauseInv, StreamStates
<1>3. ErrorEvent("stream") \in Events
  BY EventKindsDiffer DEF Whys
<1>4. Event("streaming") \in Events /\ Event("lost") \in Events
  BY EventKindsDiffer DEF EventKinds
<1>5. /\ Event("streaming") # ErrorEvent("stream")
      /\ Event("lost") # ErrorEvent("stream") /\ Event("streaming") # Event("lost")
  BY EventKindsDiffer DEF EventKinds
<1>6. /\ EventsSend'
      /\ Range(events') = Range(events) \union Range(told)
  <2>1. told \in Seq(Events)
    BY <1>2, <1>3, <1>4, ShortSequences
  <2> HIDE DEF told
  <2>. QED BY <1>1, <2>1, SendReports, SentAreFound DEF CauseInv, EventsSend, Send
<1>7. /\ ErrorEvent("stream") \in Range(told) <=> new = "error"
      /\ Event("lost") \in Range(told) <=> new = "unconnected" /\ sawStreaming
  BY <1>2, <1>3, <1>4, <1>5, ShortSequences
<1>8. /\ Reported(ErrorEvent("stream"))' <=> new = "error"
      /\ Reported(Event("lost"))' <=> new = "unconnected" /\ sawStreaming
  <2> HIDE DEF told
  <2>. QED BY <1>2, <1>6, <1>7 DEF CauseInv, Reported, Event, ErrorEvent
<1>. QED BY <1>1, <1>2, <1>6, <1>8 DEF CauseInv, CaptureStates, StreamStates

LEMMA ParamChangedKeepsCause ==
  ASSUME CauseInv, ParamChanged
  PROVE  CauseInv'
<1>1. capture = "looping" /\ UNCHANGED <<capture, reason>>
        /\ UNCHANGED <<stream, sawStreaming>>
  BY DEF ParamChanged, Callback
<1>2. CASE Send(<<Event("format")>>)
  <2>1. /\ Event("format") \in Events
        /\ Event("format") # ErrorEvent("stream") /\ Event("format") # Event("lost")
    BY EventKindsDiffer DEF EventKinds
  <2>2. /\ EventsSend'
        /\ Reported(ErrorEvent("stream"))' <=> Reported(ErrorEvent("stream"))
        /\ Reported(Event("lost"))' <=> Reported(Event("lost"))
    BY <1>2, <2>1, SendKeepsCauses, ShortSequences DEF CauseInv
  <2>. QED BY <1>1, <2>2 DEF CauseInv
<1>3. CASE UNCHANGED events
  <2>1. EventsSend' /\ Range(events') = Range(events)
    BY <1>3 DEF CauseInv, EventsSend
  <2>. QED BY <1>1, <2>1 DEF CauseInv, Reported, Event, ErrorEvent
<1>. QED BY <1>2, <1>3 DEF ParamChanged

LEMMA ProcessKeepsCause ==
  ASSUME CauseInv, Process
  PROVE  CauseInv'
<1>1. capture = "looping" /\ UNCHANGED <<capture, reason, streamVars>>
  BY DEF Process, Callback
<1>2. CASE Send(<<ErrorEvent("refused")>>)
  <2>1. /\ ErrorEvent("refused") \in Events
        /\ ErrorEvent("refused") # ErrorEvent("stream")
        /\ ErrorEvent("refused") # Event("lost")
    BY EventKindsDiffer DEF Whys
  <2>2. /\ EventsSend'
        /\ Reported(ErrorEvent("stream"))' <=> Reported(ErrorEvent("stream"))
        /\ Reported(Event("lost"))' <=> Reported(Event("lost"))
    BY <1>2, <2>1, SendKeepsCauses, ShortSequences DEF CauseInv
  <2>. QED BY <1>1, <2>2, CauseKept
<1>3. CASE UNCHANGED events
  BY <1>1, <1>3, CauseStutters
<1>. QED BY <1>2, <1>3 DEF Process, TrySend

\* The reason is read off the stream, and told last.
LEMMA FinishKeepsCause ==
  ASSUME CauseInv, Finish
  PROVE  CauseInv'
<1> DEFINE stopped == Stopped(ReasonFor(stream))
           lost == [kind |-> "lost", why |-> "disconnect"]
<1>1. /\ capture' = "done" /\ reason' = ReasonFor(stream)
      /\ UNCHANGED <<stream, sawStreaming>>
  BY DEF Finish, streamVars
<1>2. ReasonFor(stream) \in Whys
  BY DEF ReasonFor, Whys
<1>3. /\ stopped \in Events
      /\ stopped # ErrorEvent("stream") /\ stopped # Event("lost")
  BY <1>2, EventKindsDiffer
<1>4. /\ lost \in Events
      /\ lost # ErrorEvent("stream") /\ lost # Event("lost")
  BY DEF Events, EventKinds, Whys, ErrorEvent, Event
<1>5. PICK last \in {<< >>, <<lost>>} : Send(Append(last, stopped))
  BY DEF Finish, DisconnectEvents
<1> HIDE DEF stopped, lost
<1>6. /\ Append(last, stopped) \in Seq(Events)
      /\ Range(Append(last, stopped)) \subseteq {lost, stopped}
  <2>1. CASE last = << >>
    <3>1. Append(last, stopped) = <<stopped>>
      BY <2>1
    <3>. QED BY <1>3, <3>1, ShortSequences
  <2>2. CASE last = <<lost>>
    <3>1. Append(last, stopped) = <<lost, stopped>>
      BY <1>3, <1>4, <2>2, AppendToOne
    <3>. QED BY <1>3, <1>4, <3>1, ShortSequences
  <2>. QED BY <1>5, <2>1, <2>2
<1>7. Last(events') = stopped
  <2>1. events' = events \o Append(last, stopped)
    BY <1>5 DEF Send
  <2>2. last \in Seq(Events) /\ Len(last) \in Nat
    BY <1>4, <1>5, ShortSequences, LenProperties
  <2>3. events \in Seq(Events) /\ Len(events) \in Nat
    BY LenProperties DEF CauseInv, EventsSend
  <2>. QED BY <1>3, <2>1, <2>2, <2>3 DEF Last
<1>8. /\ EventsSend'
      /\ Reported(ErrorEvent("stream"))' <=> Reported(ErrorEvent("stream"))
      /\ Reported(Event("lost"))' <=> Reported(Event("lost"))
  <2>1. /\ ErrorEvent("stream") \notin Range(Append(last, stopped))
        /\ Event("lost") \notin Range(Append(last, stopped))
    BY <1>3, <1>4, <1>6
  <2>. QED BY <1>5, <1>6, <2>1, SendKeepsCauses DEF CauseInv
<1>9. (Last(events) = Stopped(reason))' /\ (reason = ReasonFor(stream))'
  BY <1>1, <1>7 DEF stopped, Stopped, ReasonFor
<1>. QED BY <1>1, <1>8, <1>9 DEF CauseInv, CaptureStates

\* Each step keeps it.
LEMMA CausePreserved == CauseInv /\ [Next]_vars => CauseInv'
<1> SUFFICES ASSUME CauseInv, [Next]_vars
             PROVE  CauseInv'
  OBVIOUS
<1>1. CASE SetUp
  BY <1>1, SetUpKeepsCause
<1>2. ASSUME NEW new \in {"paused", "streaming", "error", "unconnected"},
             StateChanged(new)
      PROVE  CauseInv'
  BY <1>2, StateChangedKeepsCause
<1>3. CASE ParamChanged
  BY <1>3, ParamChangedKeepsCause
<1>4. CASE Process
  BY <1>4, ProcessKeepsCause
<1>5. CASE Watch
  BY <1>5, CauseStutters DEF Watch
<1>6. CASE LeaveLoop
  <2>1. /\ capture = "looping" /\ capture' = "joining"
        /\ UNCHANGED <<events, stream, sawStreaming>>
    BY <1>6 DEF LeaveLoop, streamVars
  <2>2. EventsSend' /\ Range(events') = Range(events)
    BY <2>1 DEF CauseInv, EventsSend
  <2>. QED BY <2>1, <2>2 DEF CauseInv, CaptureStates, Reported, Event, ErrorEvent
<1>7. CASE Finish
  BY <1>7, FinishKeepsCause
<1>8. CASE Cancel
  BY <1>8, CauseStutters DEF Cancel
<1>9. CASE TakeFrame
  BY <1>9, CauseStutters DEF TakeFrame, threadVars
<1>10. CASE DropConsumer
  BY <1>10, CauseStutters DEF DropConsumer, threadVars
<1>11. CASE UNCHANGED vars
  BY <1>11, CauseStutters DEF vars, threadVars
<1>. QED BY <1>1, <1>2, <1>3, <1>4, <1>5, <1>6, <1>7, <1>8, <1>9, <1>10, <1>11
         DEF Next, Capture

(* The reason the capture ends with is the one its observers were told,    *)
(* whoever quit the loop and whatever PipeWire does (run_pipewire_capture).*)
THEOREM CauseIsTold == Spec => []StopTellsCause
<1>. QED BY CauseInitial, CausePreserved, CauseImplies, PTL DEF Spec

----------------------------------------------------------------------------
(* The account of the frames. *)

\* Frames in the order they are, or will be, received.
Order == taken \o frames

(* The account is exact, and the numbers of frames that were not lost on   *)
(* the way ascend, up to the last number given out.                        *)
FrameInv ==
  /\ EventsSend
  /\ sequence \in Nat /\ accepted \in Nat /\ dropped \in Nat
  /\ taken \in Seq(Nat) /\ frames \in Seq(Nat)
  /\ accepted = Len(taken) + Len(frames)
  /\ sequence = accepted + dropped + Cardinality(RefusedIn(events))
  /\ \A i \in 1..Len(Order) : Order[i] <= sequence
  /\ \A i, j \in 1..Len(Order) : i < j => Order[i] < Order[j]

LEMMA FrameInitial == Init => FrameInv
<1> SUFFICES ASSUME Init PROVE FrameInv
  OBVIOUS
<1>1. events = << >> /\ taken = << >> /\ frames = << >>
        /\ sequence = 0 /\ accepted = 0 /\ dropped = 0
  BY DEF Init
<1>2. RefusedIn(events) = {}
  BY <1>1 DEF RefusedIn
<1>3. Cardinality(RefusedIn(events)) = 0
  BY <1>2, FS_EmptySet
<1>4. Order = << >> /\ events \in Seq(Events)
  BY <1>1, ShortSequences DEF Order
<1>. QED BY <1>1, <1>3, <1>4 DEF FrameInv, EventsSend

LEMMA FrameImplies == FrameInv => FramesAccountedFor
BY DEF FrameInv, FramesAccountedFor, Refused, RefusedIn, Order

\* Events that report no refusal leave the account alone.
LEMMA SendKeepsAccount ==
  ASSUME FrameInv, UNCHANGED <<frameVars, taken>>,
         NEW CONSTANT new \in Seq(Events), Send(new),
         \A i \in 1..Len(new) : new[i].why # "refused"
  PROVE  FrameInv'
<1>1. EventsSend' /\ RefusedIn(events') = RefusedIn(events)
  BY SentAreFound, RefusalsCount DEF FrameInv, EventsSend, Send
<1>. QED BY <1>1 DEF FrameInv, frameVars, Order

LEMMA AccountStutters ==
  ASSUME FrameInv, UNCHANGED <<frameVars, taken, events>>
  PROVE  FrameInv'
BY DEF FrameInv, EventsSend, RefusedIn, frameVars, Order

\* What is put in the queue comes after all that was taken or is queued.
LEMMA QueuedLast ==
  ASSUME NEW s \in Seq(Nat), NEW t \in Seq(Nat), NEW n \in Nat
  PROVE  /\ Len(s \o t) \in Nat
         /\ Len(s \o Append(t, n)) = Len(s \o t) + 1
         /\ \A i \in 1..Len(s \o t) :
              /\ (s \o Append(t, n))[i] = (s \o t)[i]
              /\ (s \o t)[i] \in Nat
         /\ (s \o Append(t, n))[Len(s \o t) + 1] = n
<1>1. /\ Append(t, n) \in Seq(Nat) /\ Len(Append(t, n)) = Len(t) + 1
      /\ \A i \in 1..Len(t) : Append(t, n)[i] = t[i]
      /\ Append(t, n)[Len(t) + 1] = n
      /\ Len(t) \in Nat /\ Len(s) \in Nat
  BY LenProperties
<1>2. /\ s \o t \in Seq(Nat) /\ Len(s \o t) = Len(s) + Len(t)
      /\ \A i \in 1..(Len(s) + Len(t)) :
           (s \o t)[i] = IF i <= Len(s) THEN s[i] ELSE t[i - Len(s)]
  BY ConcatProperties
<1>3. /\ Len(s \o Append(t, n)) = Len(s) + Len(t) + 1
      /\ \A i \in 1..(Len(s) + Len(t) + 1) :
           (s \o Append(t, n))[i] =
             IF i <= Len(s) THEN s[i] ELSE Append(t, n)[i - Len(s)]
  <2> DEFINE u == Append(t, n)
  <2>1. u \in Seq(Nat) /\ Len(u) = Len(t) + 1
    BY <1>1
  <2> HIDE DEF u
  <2>2. /\ Len(s \o u) = Len(s) + Len(t) + 1
        /\ \A i \in 1..(Len(s) + Len(t) + 1) :
             (s \o u)[i] = IF i <= Len(s) THEN s[i] ELSE u[i - Len(s)]
    <3>1. /\ Len(s \o u) = Len(s) + Len(u)
          /\ \A i \in 1..(Len(s) + Len(u)) :
               (s \o u)[i] = IF i <= Len(s) THEN s[i] ELSE u[i - Len(s)]
      BY <2>1, ConcatProperties
    <3>2. Len(s) + Len(u) = Len(s) + Len(t) + 1
      BY <1>1, <2>1
    <3>. QED BY <3>1, <3>2
  <2>. QED BY <2>2 DEF u
<1>4. ASSUME NEW i \in 1..Len(s \o t)
      PROVE  (s \o Append(t, n))[i] = (s \o t)[i] /\ (s \o t)[i] \in Nat
  <2>1. i > Len(s) => i - Len(s) \in 1..Len(t)
    BY <1>1, <1>2
  <2>2. i \in 1..(Len(s) + Len(t))
    BY <1>2
  <2>3. CASE i <= Len(s)
    BY <1>1, <1>2, <1>3, <2>2, <2>3, ElementOfSeq
  <2>4. CASE i > Len(s)
    <3>1. /\ (s \o Append(t, n))[i] = Append(t, n)[i - Len(s)]
          /\ (s \o t)[i] = t[i - Len(s)]
      BY <1>1, <1>2, <1>3, <2>2, <2>4
    <3>. QED BY <1>1, <2>1, <2>4, <3>1, ElementOfSeq
  <2>. QED BY <1>1, <2>2, <2>3, <2>4
<1>. QED BY <1>1, <1>2, <1>3, <1>4

\* A frame is queued behind the others, dropped or refused.
LEMMA ProcessKeepsAccount ==
  ASSUME FrameInv, Process
  PROVE  FrameInv'
<1>1. /\ sequence' = sequence + 1 /\ taken' = taken
      /\ TrySend(sequence + 1)
  BY DEF Process, Callback, receiverVars
<1>2. Cardinality(RefusedIn(events)) \in Nat
  BY RefusalsCount DEF FrameInv, EventsSend
<1>0. \A i \in 1..Len(Order) : Order[i] \in Nat
  BY QueuedLast DEF FrameInv, Order
<1>3. CASE Send(<<ErrorEvent("refused")>>) /\ UNCHANGED <<frames, accepted, dropped>>
  <2>1. /\ EventsSend'
        /\ Cardinality(RefusedIn(events')) = Cardinality(RefusedIn(events)) + 1
    <3>1. ErrorEvent("refused") \in Events
      BY EventKindsDiffer DEF Whys
    <3>2. events' = events \o <<ErrorEvent("refused")>>
      BY <1>3 DEF Send
    <3>3. events \in Seq(Events) /\ <<ErrorEvent("refused")>> \in Seq(Events)
      BY <3>1, ShortSequences DEF FrameInv, EventsSend
    <3>4. EventsSend'
      BY <3>2, <3>3, SentAreFound DEF EventsSend
    <3>. QED BY <3>2, <3>3, <3>4, RefusalsCount
  <2>2. Order' = Order
    BY <1>1, <1>3 DEF Order
  <2>3. \A i \in 1..Len(Order') : Order'[i] <= sequence'
    BY <1>0, <1>1, <2>2 DEF FrameInv
  <2>4. \A i, j \in 1..Len(Order') : i < j => Order'[i] < Order'[j]
    BY <2>2 DEF FrameInv
  <2>5. /\ accepted' = Len(taken') + Len(frames')
        /\ sequence' = accepted' + dropped' + Cardinality(RefusedIn(events'))
        /\ sequence' \in Nat /\ accepted' \in Nat /\ dropped' \in Nat
        /\ taken' \in Seq(Nat) /\ frames' \in Seq(Nat)
    BY <1>1, <1>2, <1>3, <2>1 DEF FrameInv
  <2>. QED BY <2>1, <2>3, <2>4, <2>5 DEF FrameInv
<1>4. CASE /\ frames' = Append(frames, sequence + 1)
           /\ accepted' = accepted + 1
           /\ UNCHANGED <<dropped, events>>
  <2>1. /\ Len(Order') = Len(Order) + 1 /\ Len(Order) \in Nat
        /\ \A i \in 1..Len(Order) : Order'[i] = Order[i] /\ Order[i] \in Nat
        /\ Order'[Len(Order) + 1] = sequence + 1
    <3> DEFINE longer == taken \o Append(frames, sequence + 1)
    <3>1. /\ Len(longer) = Len(Order) + 1 /\ Len(Order) \in Nat
          /\ \A i \in 1..Len(Order) : longer[i] = Order[i] /\ Order[i] \in Nat
          /\ longer[Len(Order) + 1] = sequence + 1
      <4>1. sequence + 1 \in Nat /\ taken \in Seq(Nat) /\ frames \in Seq(Nat)
        BY DEF FrameInv
      <4>. QED BY <4>1, QueuedLast DEF Order
    <3>2. Order' = longer
      BY <1>1, <1>4 DEF Order
    <3> HIDE DEF longer
    <3>. QED BY <3>1, <3>2
  <2>2. EventsSend' /\ RefusedIn(events') = RefusedIn(events)
    BY <1>4 DEF FrameInv, EventsSend
  <2>3. \A i \in 1..Len(Order') : Order'[i] <= sequence'
    <3> TAKE i \in 1..Len(Order')
    <3>1. i \in 1..Len(Order) \/ i = Len(Order) + 1
      BY <2>1
    <3>2. CASE i \in 1..Len(Order)
      <4>1. Order'[i] = Order[i] /\ Order[i] \in Nat
        BY <2>1, <3>2
      <4>2. Order[i] <= sequence /\ sequence \in Nat /\ sequence' = sequence + 1
        BY <1>1, <3>2 DEF FrameInv
      <4>. QED BY <4>1, <4>2
    <3>3. CASE i = Len(Order) + 1
      <4>1. Order'[i] = sequence + 1 /\ sequence' = sequence + 1 /\ sequence \in Nat
        BY <1>1, <2>1, <3>3 DEF FrameInv
      <4>. QED BY <4>1
    <3>. QED BY <3>1, <3>2, <3>3
  <2>4. \A i, j \in 1..Len(Order') : i < j => Order'[i] < Order'[j]
    <3> TAKE i, j \in 1..Len(Order')
    <3> HAVE i < j
    <3>1. i \in 1..Len(Order) /\ (j \in 1..Len(Order) \/ j = Len(Order) + 1)
      BY <2>1
    <3>2. CASE j \in 1..Len(Order)
      <4>1. Order[i] < Order[j]
        BY <3>1, <3>2 DEF FrameInv
      <4>. QED BY <2>1, <3>1, <3>2, <4>1
    <3>3. CASE j = Len(Order) + 1
      <4>1. /\ Order'[i] = Order[i] /\ Order[i] \in Nat
            /\ Order'[j] = sequence + 1
        BY <2>1, <3>1, <3>3
      <4>2. Order[i] <= sequence /\ sequence \in Nat
        BY <3>1 DEF FrameInv
      <4>. QED BY <4>1, <4>2
    <3>. QED BY <3>1, <3>2, <3>3
  <2>5. /\ frames' \in Seq(Nat) /\ Len(frames') = Len(frames) + 1
        /\ Len(frames) \in Nat /\ Len(taken) \in Nat
    BY <1>4, LenProperties DEF FrameInv
  <2>6. accepted' = Len(taken') + Len(frames')
    BY <1>1, <1>4, <2>5 DEF FrameInv
  <2>7. sequence' = accepted' + dropped' + Cardinality(RefusedIn(events'))
    BY <1>1, <1>2, <1>4, <2>2 DEF FrameInv
  <2>8. /\ sequence' \in Nat /\ accepted' \in Nat /\ dropped' \in Nat
        /\ taken' \in Seq(Nat)
    BY <1>1, <1>4 DEF FrameInv
  <2>. QED BY <2>2, <2>3, <2>4, <2>5, <2>6, <2>7, <2>8 DEF FrameInv
<1>5. CASE dropped' = dropped + 1 /\ UNCHANGED <<frames, accepted, events>>
  <2>1. EventsSend' /\ RefusedIn(events') = RefusedIn(events) /\ Order' = Order
    BY <1>1, <1>5 DEF FrameInv, EventsSend, Order
  <2>2. \A i \in 1..Len(Order') : Order'[i] <= sequence'
    BY <1>0, <1>1, <2>1 DEF FrameInv
  <2>3. \A i, j \in 1..Len(Order') : i < j => Order'[i] < Order'[j]
    BY <2>1 DEF FrameInv
  <2>4. /\ accepted' = Len(taken') + Len(frames')
        /\ sequence' = accepted' + dropped' + Cardinality(RefusedIn(events'))
        /\ sequence' \in Nat /\ accepted' \in Nat /\ dropped' \in Nat
        /\ taken' \in Seq(Nat) /\ frames' \in Seq(Nat)
    BY <1>1, <1>2, <1>5, <2>1 DEF FrameInv
  <2>. QED BY <2>1, <2>2, <2>3, <2>4 DEF FrameInv
<1>. QED BY <1>1, <1>3, <1>4, <1>5 DEF TrySend

\* What is received was the first in the queue: it moves from the head of
\* one sequence to the end of the other.
LEMMA FirstMoves ==
  ASSUME NEW s \in Seq(Nat), NEW t \in Seq(Nat), t # << >>
  PROVE  Append(s, Head(t)) \o Tail(t) = s \o t
<1>1. /\ Head(t) = t[1] /\ Head(t) \in Nat /\ Tail(t) \in Seq(Nat)
      /\ Len(t) \in Nat \ {0} /\ Len(Tail(t)) = Len(t) - 1
      /\ \A i \in 1..Len(Tail(t)) : Tail(t)[i] = t[i + 1]
  BY HeadTailProperties, LenProperties
<1>2. /\ Append(s, Head(t)) \in Seq(Nat)
      /\ Len(s) \in Nat /\ Len(Append(s, Head(t))) = Len(s) + 1
      /\ \A i \in 1..Len(s) : Append(s, Head(t))[i] = s[i]
      /\ Append(s, Head(t))[Len(s) + 1] = Head(t)
  BY <1>1, AppendProperties, LenProperties
<1> DEFINE a == Append(s, Head(t))
           b == Tail(t)
<1>3. /\ a \in Seq(Nat) /\ b \in Seq(Nat)
      /\ Len(a) = Len(s) + 1 /\ Len(b) = Len(t) - 1
      /\ \A i \in 1..Len(s) : a[i] = s[i]
      /\ a[Len(s) + 1] = t[1]
      /\ \A i \in 1..(Len(t) - 1) : b[i] = t[i + 1]
  BY <1>1, <1>2
<1> HIDE DEF a, b
<1>4. /\ a \o b \in Seq(Nat) /\ Len(a \o b) = Len(a) + Len(b)
      /\ \A i \in 1..(Len(a) + Len(b)) :
           (a \o b)[i] = IF i <= Len(a) THEN a[i] ELSE b[i - Len(a)]
  BY <1>3, ConcatProperties
<1>5. /\ s \o t \in Seq(Nat) /\ Len(s \o t) = Len(s) + Len(t)
      /\ \A i \in 1..(Len(s) + Len(t)) :
           (s \o t)[i] = IF i <= Len(s) THEN s[i] ELSE t[i - Len(s)]
  BY ConcatProperties
<1>6. Len(a \o b) = Len(s \o t)
  BY <1>1, <1>2, <1>3, <1>4, <1>5
<1>7. ASSUME NEW i \in 1..Len(a \o b)
      PROVE  (a \o b)[i] = (s \o t)[i]
  <2>0. i \in 1..(Len(s) + Len(t)) /\ i \in 1..(Len(a) + Len(b))
    BY <1>4, <1>5, <1>6
  <2>1. CASE i <= Len(s)
    <3>1. (a \o b)[i] = a[i] /\ (s \o t)[i] = s[i] /\ i \in 1..Len(s)
      BY <1>2, <1>3, <1>4, <1>5, <2>0, <2>1
    <3>. QED BY <1>3, <3>1
  <2>2. CASE i = Len(s) + 1
    <3>1. (a \o b)[i] = a[Len(s) + 1] /\ (s \o t)[i] = t[1]
      BY <1>2, <1>3, <1>4, <1>5, <2>0, <2>2
    <3>. QED BY <1>3, <3>1
  <2>3. CASE i > Len(s) + 1
    <3>1. (a \o b)[i] = b[i - (Len(s) + 1)]
      <4>1. (a \o b)[i] = IF i <= Len(a) THEN a[i] ELSE b[i - Len(a)]
        BY <1>4, <2>0
      <4>2. ~(i <= Len(a)) /\ Len(a) = Len(s) + 1
        BY <1>2, <1>3, <2>0, <2>3
      <4>. QED BY <4>1, <4>2
    <3>2. (s \o t)[i] = t[i - Len(s)]
      BY <1>2, <1>5, <2>0, <2>3
    <3>3. i - (Len(s) + 1) \in 1..(Len(t) - 1)
      <4>1. Len(s) \in Nat /\ Len(t) \in Nat /\ i \in 1..(Len(s) + Len(t))
        BY <1>1, <1>2, <2>0
      <4>. QED BY <2>3, <4>1
    <3>4. b[i - (Len(s) + 1)] = t[(i - (Len(s) + 1)) + 1]
      BY <1>3, <3>3
    <3>5. (i - (Len(s) + 1)) + 1 = i - Len(s)
      BY <1>2, <2>0
    <3>. QED BY <3>1, <3>2, <3>4, <3>5
  <2>4. i \in Nat /\ Len(s) \in Nat
    BY <1>2, <2>0
  <2>5. i <= Len(s) \/ i = Len(s) + 1 \/ i > Len(s) + 1
    BY <2>4
  <2>. QED BY <2>1, <2>2, <2>3, <2>5
<1>8. a \o b = s \o t
  BY <1>4, <1>5, <1>6, <1>7, SeqEqual
<1>. QED BY <1>8 DEF a, b

LEMMA TakeFrameKeepsAccount ==
  ASSUME FrameInv, TakeFrame
  PROVE  FrameInv'
<1>1. /\ frames # << >>
      /\ frames' = Tail(frames) /\ taken' = Append(taken, Head(frames))
      /\ UNCHANGED <<sequence, accepted, dropped, events>>
  BY DEF TakeFrame
<1>2. /\ frames' \in Seq(Nat) /\ taken' \in Seq(Nat)
      /\ Len(frames') = Len(frames) - 1 /\ Len(taken') = Len(taken) + 1
      /\ Len(frames) \in Nat /\ Len(taken) \in Nat
  BY <1>1, HeadTailProperties, LenProperties DEF FrameInv
<1>3. Order' = Order
  <2>1. taken \in Seq(Nat) /\ frames \in Seq(Nat)
    BY DEF FrameInv
  <2>. QED BY <1>1, <2>1, FirstMoves DEF Order
<1>4. EventsSend' /\ RefusedIn(events') = RefusedIn(events)
  BY <1>1 DEF FrameInv, EventsSend
<1>. QED BY <1>1, <1>2, <1>3, <1>4 DEF FrameInv

LEMMA FramePreserved == FrameInv /\ [Next]_vars => FrameInv'
<1> SUFFICES ASSUME FrameInv, [Next]_vars
             PROVE  FrameInv'
  OBVIOUS
<1> USE DEF receiverVars
<1>1. CASE SetUp
  <2>1. Event("starting") \in Events /\ Event("connecting") \in Events
    BY EventKindsDiffer DEF EventKinds
  <2>2. Event("starting").why # "refused" /\ Event("connecting").why # "refused"
    BY DEF Event
  <2>3. CASE Send(<<Event("starting"), Event("connecting")>>)
    <3> DEFINE new == <<Event("starting"), Event("connecting")>>
    <3>1. new \in Seq(Events) /\ \A i \in 1..Len(new) : new[i].why # "refused"
      <4>1. Len(new) = 2 /\ new[1] = Event("starting") /\ new[2] = Event("connecting")
        OBVIOUS
      <4>. QED BY <2>1, <2>2, <4>1, ShortSequences
    <3> HIDE DEF new
    <3>2. Send(new)
      BY <2>3 DEF new
    <3>. QED BY <1>1, <3>1, <3>2, SendKeepsAccount DEF SetUp
  <2>4. CASE Send(<<Event("starting")>>)
    BY <1>1, <2>1, <2>2, <2>4, SendKeepsAccount, ShortSequences DEF SetUp
  <2>. QED BY <1>1, <2>3, <2>4 DEF SetUp
<1>2. ASSUME NEW new \in {"paused", "streaming", "error", "unconnected"},
             StateChanged(new)
      PROVE  FrameInv'
  <2> DEFINE told == CASE new = "streaming" -> <<Event("streaming")>>
                       [] new = "error" -> <<ErrorEvent("stream")>>
                       [] new = "unconnected" /\ sawStreaming -> <<Event("lost")>>
                       [] OTHER -> << >>
  <2>1. Send(told) /\ UNCHANGED <<frameVars, taken>>
    BY <1>2 DEF StateChanged, Callback
  <2>2. /\ Event("streaming") \in Events /\ Event("lost") \in Events
        /\ ErrorEvent("stream") \in Events
    BY EventKindsDiffer DEF EventKinds, Whys
  <2>3. /\ Event("streaming").why # "refused" /\ Event("lost").why # "refused"
        /\ ErrorEvent("stream").why # "refused"
    BY DEF Event, ErrorEvent
  <2>4. told \in Seq(Events) /\ \A i \in 1..Len(told) : told[i].why # "refused"
    BY <1>2, <2>2, <2>3, ShortSequences
  <2> HIDE DEF told
  <2>. QED BY <2>1, <2>4, SendKeepsAccount
<1>3. CASE ParamChanged
  <2>1. Event("format") \in Events /\ Event("format").why # "refused"
    <3>1. Event("format").why # "refused"
      BY DEF Event
    <3>. QED BY <3>1, EventKindsDiffer DEF EventKinds
  <2>2. CASE Send(<<Event("format")>>)
    <3>1. UNCHANGED <<frameVars, taken>>
      BY <1>3 DEF ParamChanged, Callback
    <3>2. /\ <<Event("format")>> \in Seq(Events)
          /\ Len(<<Event("format")>>) = 1 /\ <<Event("format")>>[1] = Event("format")
      BY <2>1, ShortSequences
    <3>3. \A i \in 1..Len(<<Event("format")>>) :
            <<Event("format")>>[i].why # "refused"
      BY <2>1, <3>2
    <3>. QED BY <2>2, <3>1, <3>2, <3>3, SendKeepsAccount
  <2>3. CASE UNCHANGED events
    BY <1>3, <2>3, AccountStutters DEF ParamChanged, Callback
  <2>. QED BY <1>3, <2>2, <2>3 DEF ParamChanged
<1>4. CASE Process
  BY <1>4, ProcessKeepsAccount
<1>5. CASE Watch
  BY <1>5, AccountStutters DEF Watch
<1>6. CASE LeaveLoop
  BY <1>6, AccountStutters DEF LeaveLoop
<1>7. CASE Finish
  <2> DEFINE stopped == Stopped(ReasonFor(stream))
             lost == [kind |-> "lost", why |-> "disconnect"]
  <2>1. stopped \in Events /\ stopped.why # "refused"
    BY EventKindsDiffer DEF Stopped, ReasonFor, Whys
  <2>2. lost \in Events /\ lost.why # "refused"
    BY DEF Events, EventKinds, Whys
  <2>3. PICK last \in {<< >>, <<lost>>} : Send(Append(last, stopped))
    BY <1>7 DEF Finish, DisconnectEvents
  <2> HIDE DEF stopped, lost
  <2>4. /\ Append(last, stopped) \in Seq(Events)
        /\ \A i \in 1..Len(Append(last, stopped)) :
             Append(last, stopped)[i].why # "refused"
    <3>1. last \in Seq(Events) /\ \A i \in 1..Len(last) : last[i].why # "refused"
      <4>1. CASE last = << >>
        BY <4>1, ShortSequences
      <4>2. CASE last = <<lost>>
        BY <2>2, <4>2, ShortSequences
      <4>. QED BY <2>3, <4>1, <4>2
    <3>. QED BY <2>1, <3>1
  <2>. QED BY <1>7, <2>3, <2>4, SendKeepsAccount DEF Finish
<1>8. CASE Cancel
  BY <1>8, AccountStutters DEF Cancel
<1>9. CASE TakeFrame
  BY <1>9, TakeFrameKeepsAccount
<1>10. CASE DropConsumer
  BY <1>10, AccountStutters DEF DropConsumer
<1>11. CASE UNCHANGED vars
  BY <1>11, AccountStutters DEF vars
<1>. QED BY <1>1, <1>2, <1>3, <1>4, <1>5, <1>6, <1>7, <1>8, <1>9, <1>10, <1>11
         DEF Next, Capture

(* No frame is lost without a trace: each that was made is received,       *)
(* queued, counted as dropped or reported as refused, and those that are   *)
(* received come in order (BoundedFrameSender::try_send, process).         *)
THEOREM NoFrameIsLost == Spec => []FramesAccountedFor
<1>. QED BY FrameInitial, FramePreserved, FrameImplies, PTL DEF Spec

----------------------------------------------------------------------------
(* The command. *)

(* The threads wait for each other in one order: the consumer outlives the *)
(* senders of frames, the printer outlives the capture, and main outlives  *)
(* both.                                                                   *)
ThreadsInv ==
  /\ main \in {"capturing", "joining consumer", "joining printer", "exited"}
  /\ printed \in Nat /\ printed <= Len(events)
  /\ ~printer => CaptureReturned /\ printed = Len(events)
  /\ ~probe => CaptureReturned
  /\ ~consumer => SendersGone /\ frames = << >>
  /\ main # "capturing" =>
       CaptureReturned /\ summary = [accepted |-> accepted, dropped |-> dropped]
  /\ main \in {"joining printer", "exited"} => ~consumer
  /\ main = "exited" => ~printer

\* The code is made of the reason, which is there by then.
ExitInv ==
  main = "exited" => CaptureReturned /\ exitCode = ExitCodeFor(reason)

(* The loop is quit by a signal, or for a stream that has failed or gone   *)
(* and stays so.  The token is also set at the end of the loop.            *)
QuitInv ==
  /\ token => asked \/ capture \in {"joining", "done"}
  /\ quit => asked \/ stream \in {"error", "unconnected"}
  /\ capture = "starting" => ~quit /\ watcher = "unborn"
  /\ capture \in {"joining", "done"} => quit
  /\ capture # "done" => reason = "none"

CommandInv ==
  /\ FrameInv /\ CauseInv
  /\ ThreadsInv /\ ExitInv /\ QuitInv
  /\ RefusedIn(events) = {}

LEMMA CommandStepsCapture == [CommandNext]_commandVars => [Next]_vars
BY DEF CommandNext, commandVars, InLoop, OutsideLoop, Watcher, Signal, Consume,
       ConsumerEnds, PrintEvent, PrinterEnds, Main, ReadStats, JoinConsumer,
       JoinPrinter, Next, Capture

LEMMA CommandInitial == CommandInit => CommandInv
<1> SUFFICES ASSUME CommandInit PROVE CommandInv
  OBVIOUS
<1>1. FrameInv /\ CauseInv
  BY FrameInitial, CauseInitial DEF CommandInit
<1>2. events = << >> /\ Len(events) = 0
  BY DEF CommandInit, Init
<1>3. RefusedIn(events) = {}
  BY <1>2 DEF RefusedIn
<1>4. ThreadsInv
  BY <1>2 DEF CommandInit, Init, ThreadsInv
<1>5. QuitInv /\ ExitInv
  BY DEF CommandInit, Init, QuitInv, ExitInv
<1> QED BY <1>1, <1>3, <1>4, <1>5 DEF CommandInv

(* What happens to the capture while its function runs: the threads that   *)
(* wait for its senders wait on, and the events grow.                      *)
LEMMA CaptureKeepsThreads ==
  ASSUME ThreadsInv, ~CaptureReturned, events \in Seq(Events),
         NEW CONSTANT new \in Seq(Events), Send(new),
         UNCHANGED <<consumer, printerVars, mainVars>>
  PROVE  ThreadsInv' /\ ExitInv'
<1>1. main = "capturing" /\ consumer /\ printer /\ probe
  BY DEF ThreadsInv, SendersGone
<1>2. printed <= Len(events')
  <2>1. PICK a \in Nat, b \in Nat :
          a = Len(events) /\ b = Len(new) /\ Len(events') = a + b
    BY ConcatProperties, LenProperties DEF Send
  <2>2. printed \in Nat /\ printed <= a
    BY <2>1 DEF ThreadsInv
  <2> QED BY <2>1, <2>2
<1> QED BY <1>1, <1>2 DEF ThreadsInv, ExitInv, printerVars, mainVars

\* The steps of the loop: the callbacks and what they tell.
LEMMA InLoopKeeps ==
  ASSUME CommandInv, InLoop
  PROVE  CommandInv'
<1>1. FrameInv' /\ CauseInv'
  <2>1. [Next]_vars
    BY CommandStepsCapture DEF CommandNext
  <2> QED BY <2>1, FramePreserved, CausePreserved DEF CommandInv
<1>2. /\ capture = "looping" /\ events \in Seq(Events) /\ ~CaptureReturned
      /\ UNCHANGED <<token, capture, watcher, reason, consumer, taken>>
      /\ UNCHANGED <<printerVars, mainVars>>
  BY DEF InLoop, StateChanged, ParamChanged, Process, Callback, receiverVars,
         CommandInv, FrameInv, EventsSend, CaptureReturned
<1>3. consumer
  BY <1>2 DEF CommandInv, ThreadsInv, SendersGone
<1>4. ASSUME NEW CONSTANT new \in Seq(Events), Send(new),
             \A i \in 1..Len(new) : new[i].why # "refused"
      PROVE  ThreadsInv' /\ ExitInv' /\ RefusedIn(events') = {}
  <2>1. ThreadsInv' /\ ExitInv'
    BY <1>2, <1>4, CaptureKeepsThreads DEF CommandInv
  <2>2. RefusedIn(events') = {}
    BY <1>2, <1>4, RefusalsCount DEF CommandInv, Send
  <2> QED BY <2>1, <2>2
<1>5. ASSUME events' = events
      PROVE  ThreadsInv' /\ ExitInv' /\ RefusedIn(events') = {}
  <2>1. PICK new \in Seq(Events) : new = << >>
    BY ShortSequences
  <2>2. Send(new) /\ \A i \in 1..Len(new) : new[i].why # "refused"
    BY <1>2, <1>5, <2>1 DEF Send
  <2> QED BY <1>4, <2>1, <2>2
<1>6. ASSUME NEW to \in {"paused", "streaming", "error", "unconnected"},
             StateChanged(to)
      PROVE  ThreadsInv' /\ ExitInv' /\ RefusedIn(events') = {} /\ QuitInv'
  <2>1. PICK new \in {<< >>, <<Event("streaming")>>, <<ErrorEvent("stream")>>,
                      <<Event("lost")>>} : Send(new)
    BY <1>6 DEF StateChanged
  <2>2. /\ Event("streaming") \in Events /\ Event("lost") \in Events
        /\ ErrorEvent("stream") \in Events
    BY EventKindsDiffer DEF EventKinds, Whys
  <2>3. /\ Event("streaming").why # "refused" /\ Event("lost").why # "refused"
        /\ ErrorEvent("stream").why # "refused"
    BY DEF Event, ErrorEvent
  <2>4. new \in Seq(Events) /\ \A i \in 1..Len(new) : new[i].why # "refused"
    <3>1. \A e \in Events : Len(<<e>>) = 1 /\ <<e>>[1] = e
      OBVIOUS
    <3>2. CASE new = << >>
      BY <3>2, ShortSequences
    <3>3. ASSUME NEW e \in Events, new = <<e>>, e.why # "refused"
          PROVE  new \in Seq(Events) /\ \A i \in 1..Len(new) : new[i].why # "refused"
      BY <3>1, <3>3, ShortSequences
    <3> QED BY <2>1, <2>2, <2>3, <3>2, <3>3
  <2>5. ThreadsInv' /\ ExitInv' /\ RefusedIn(events') = {}
    BY <1>4, <2>1, <2>4
  <2>6. QuitInv'
    BY <1>2, <1>6 DEF StateChanged, Follows, CommandInv, QuitInv, mainVars
  <2> QED BY <2>5, <2>6
<1>7. ASSUME ParamChanged
      PROVE  ThreadsInv' /\ ExitInv' /\ RefusedIn(events') = {} /\ QuitInv'
  <2>1. Event("format") \in Events /\ Event("format").why # "refused"
    <3>1. Event("format").why # "refused"
      BY DEF Event
    <3> QED BY <3>1, EventKindsDiffer DEF EventKinds
  <2>2. <<Event("format")>> \in Seq(Events)
        /\ \A i \in 1..Len(<<Event("format")>>) :
             <<Event("format")>>[i].why # "refused"
    BY <2>1, ShortSequences
  <2>3. ThreadsInv' /\ ExitInv' /\ RefusedIn(events') = {}
    BY <1>4, <1>5, <1>7, <2>2 DEF ParamChanged
  <2>4. QuitInv'
    BY <1>2, <1>7 DEF ParamChanged, CommandInv, QuitInv, mainVars
  <2> QED BY <2>3, <2>4
<1>8. ASSUME Process
      PROVE  ThreadsInv' /\ ExitInv' /\ RefusedIn(events') = {} /\ QuitInv'
  <2>1. events' = events
    BY <1>3, <1>8 DEF Process, TrySend
  <2>2. QuitInv'
    BY <1>2, <1>8 DEF Process, streamVars, CommandInv, QuitInv, mainVars
  <2> QED BY <1>5, <2>1, <2>2
<1> QED BY <1>1, <1>6, <1>7, <1>8 DEF InLoop, CommandInv

\* run_pipewire_capture before and after its loop.
LEMMA OutsideLoopKeeps ==
  ASSUME CommandInv, OutsideLoop
  PROVE  CommandInv'
<1>1. FrameInv' /\ CauseInv'
  <2>1. [Next]_vars
    BY CommandStepsCapture DEF CommandNext
  <2> QED BY <2>1, FramePreserved, CausePreserved DEF CommandInv
<1>2. /\ events \in Seq(Events) /\ ~CaptureReturned
      /\ UNCHANGED <<consumer, taken>> /\ UNCHANGED <<printerVars, mainVars>>
  BY DEF OutsideLoop, SetUp, LeaveLoop, Finish, receiverVars,
         CommandInv, FrameInv, EventsSend, CaptureReturned
<1>3. ASSUME NEW CONSTANT new \in Seq(Events), Send(new),
             \A i \in 1..Len(new) : new[i].why # "refused"
      PROVE  ThreadsInv' /\ ExitInv' /\ RefusedIn(events') = {}
  <2>1. ThreadsInv' /\ ExitInv'
    BY <1>2, <1>3, CaptureKeepsThreads DEF CommandInv
  <2>2. RefusedIn(events') = {}
    BY <1>2, <1>3, RefusalsCount DEF CommandInv, Send
  <2> QED BY <2>1, <2>2
<1>4. CASE SetUp
  <2>1. Event("starting") \in Events /\ Event("connecting") \in Events
    BY EventKindsDiffer DEF EventKinds
  <2>2. Event("starting").why # "refused" /\ Event("connecting").why # "refused"
    BY DEF Event
  <2>3. PICK new \in {<<Event("starting"), Event("connecting")>>,
                      <<Event("starting")>>} : Send(new)
    BY <1>4 DEF SetUp
  <2>4. new \in Seq(Events) /\ \A i \in 1..Len(new) : new[i].why # "refused"
    <3>1. CASE new = <<Event("starting"), Event("connecting")>>
      <4>1. Len(new) = 2 /\ new[1] = Event("starting")
            /\ new[2] = Event("connecting")
        BY <3>1
      <4> QED BY <2>1, <2>2, <3>1, <4>1, ShortSequences
    <3>2. CASE new = <<Event("starting")>>
      BY <2>1, <2>2, <3>2, ShortSequences
    <3> QED BY <2>3, <3>1, <3>2
  <2>5. ThreadsInv' /\ ExitInv' /\ RefusedIn(events') = {}
    BY <1>3, <2>3, <2>4
  <2>6. QuitInv'
    BY <1>2, <1>4 DEF SetUp, CommandInv, QuitInv, mainVars
  <2> QED BY <1>1, <2>5, <2>6 DEF CommandInv
<1>5. CASE LeaveLoop
  <2>0. PICK new \in Seq(Events) : new = << >>
    BY ShortSequences
  <2>1. Send(new) /\ \A i \in 1..Len(new) : new[i].why # "refused"
    BY <1>2, <1>5, <2>0 DEF Send, LeaveLoop
  <2>2. ThreadsInv' /\ ExitInv' /\ RefusedIn(events') = {}
    BY <1>3, <2>0, <2>1
  <2>3. QuitInv'
    BY <1>2, <1>5 DEF LeaveLoop, streamVars, CommandInv, QuitInv, mainVars
  <2> QED BY <1>1, <2>2, <2>3 DEF CommandInv
<1>6. CASE Finish
  <2> DEFINE stopped == Stopped(ReasonFor(stream))
             lost == [kind |-> "lost", why |-> "disconnect"]
  <2>1. stopped \in Events /\ stopped.why # "refused"
    BY EventKindsDiffer DEF Stopped, ReasonFor, Whys
  <2>2. lost \in Events /\ lost.why # "refused"
    BY DEF Events, EventKinds, Whys
  <2>3. PICK last \in {<< >>, <<lost>>} : Send(Append(last, stopped))
    BY <1>6 DEF Finish, DisconnectEvents
  <2> HIDE DEF stopped, lost
  <2>4. /\ Append(last, stopped) \in Seq(Events)
        /\ \A i \in 1..Len(Append(last, stopped)) :
             Append(last, stopped)[i].why # "refused"
    <3>1. last \in Seq(Events) /\ \A i \in 1..Len(last) : last[i].why # "refused"
      <4>1. CASE last = << >>
        BY <4>1, ShortSequences
      <4>2. CASE last = <<lost>>
        BY <2>2, <4>2, ShortSequences
      <4> QED BY <2>3, <4>1, <4>2
    <3> QED BY <2>1, <3>1
  <2>5. ThreadsInv' /\ ExitInv' /\ RefusedIn(events') = {}
    <3>1. PICK new \in Seq(Events) : /\ new = Append(last, stopped)
                                     /\ \A i \in 1..Len(new) :
                                          new[i].why # "refused"
      BY <2>4
    <3> QED BY <1>3, <2>3, <3>1
  <2>6. QuitInv'
    BY <1>2, <1>6 DEF Finish, streamVars, CommandInv, QuitInv, mainVars
  <2> QED BY <1>1, <2>5, <2>6 DEF CommandInv
<1> QED BY <1>4, <1>5, <1>6 DEF OutsideLoop

LEMMA CommandPreserved == CommandInv /\ [CommandNext]_commandVars => CommandInv'
<1> SUFFICES ASSUME CommandInv, [CommandNext]_commandVars
             PROVE  CommandInv'
  OBVIOUS
<1>1. FrameInv' /\ CauseInv'
  BY CommandStepsCapture, FramePreserved, CausePreserved DEF CommandInv
<1>2. ASSUME UNCHANGED events, ThreadsInv', ExitInv', QuitInv'
      PROVE  CommandInv'
  BY <1>1, <1>2 DEF CommandInv, RefusedIn
<1>3. ASSUME UNCHANGED vars, UNCHANGED <<asked>>
      PROVE  QuitInv' /\ UNCHANGED events
  BY <1>3 DEF CommandInv, QuitInv, vars, threadVars, streamVars
<1>11. ASSUME UNCHANGED <<main, exitCode, capture, reason>>
       PROVE  ExitInv'
  BY <1>11 DEF CommandInv, ExitInv, CaptureReturned, ExitCodeFor
<1>4. CASE InLoop
  BY <1>4, InLoopKeeps
<1>5. CASE OutsideLoop
  BY <1>5, OutsideLoopKeeps
<1>6. CASE Watcher \/ Signal
  <2>1. /\ UNCHANGED <<capture, streamVars, frameVars, receiverVars, events>>
        /\ UNCHANGED <<printerVars, main, probe, summary, exitCode, reason>>
    BY <1>6 DEF Watcher, Watch, Signal, Cancel, mainVars
  <2>2. ThreadsInv'
    BY <2>1 DEF CommandInv, ThreadsInv, CaptureReturned, SendersGone,
                streamVars, frameVars, receiverVars, printerVars
  <2>3. QuitInv'
    BY <1>6, <2>1 DEF Watcher, Watch, Signal, Cancel, mainVars, CommandInv,
                      QuitInv, streamVars
  <2>4. ExitInv'
    BY <1>11, <2>1
  <2> QED BY <1>2, <2>1, <2>2, <2>3, <2>4
<1>7. CASE Consume \/ ConsumerEnds
  <2>1. /\ UNCHANGED <<threadVars, streamVars, events, accepted, dropped>>
        /\ UNCHANGED <<printerVars, mainVars>>
    BY <1>7 DEF Consume, ConsumerEnds, TakeFrame, DropConsumer, frameVars
  <2>2. QuitInv'
    BY <2>1 DEF CommandInv, QuitInv, threadVars, streamVars, mainVars
  <2>3. ThreadsInv'
    <3>1. CASE Consume
      <4>1. ThreadsInv /\ consumer /\ consumer' = consumer
        BY <3>1 DEF CommandInv, Consume, TakeFrame
      <4>2. UNCHANGED <<capture, events, accepted, dropped, main, summary, probe,
                        printer, printed>>
        BY <2>1 DEF threadVars, printerVars, mainVars
      <4>3. (CaptureReturned' <=> CaptureReturned) /\ (SendersGone' <=> SendersGone)
        BY <4>2 DEF CaptureReturned, SendersGone
      <4> QED BY <4>1, <4>2, <4>3 DEF ThreadsInv
    <3>2. CASE ConsumerEnds
      <4>1. ThreadsInv /\ SendersGone /\ frames = << >> /\ frames' = frames
        BY <3>2 DEF CommandInv, ConsumerEnds, DropConsumer, frameVars
      <4>2. UNCHANGED <<capture, events, accepted, dropped, main, summary, probe,
                        printer, printed>>
        BY <2>1 DEF threadVars, printerVars, mainVars
      <4>3. (CaptureReturned' <=> CaptureReturned) /\ (SendersGone' <=> SendersGone)
        BY <4>2 DEF CaptureReturned, SendersGone
      <4>4. consumer' = FALSE
        BY <3>2 DEF ConsumerEnds, DropConsumer
      <4> QED BY <4>1, <4>2, <4>3, <4>4 DEF ThreadsInv
    <3> QED BY <1>7, <3>1, <3>2
  <2>4. ExitInv'
    BY <1>11, <2>1 DEF threadVars, mainVars
  <2> QED BY <1>2, <2>1, <2>2, <2>3, <2>4
<1>8. CASE PrintEvent \/ PrinterEnds
  <2>1. UNCHANGED vars /\ UNCHANGED mainVars
    BY <1>8 DEF PrintEvent, PrinterEnds
  <2>2. Len(events) \in Nat
    BY LenProperties DEF CommandInv, FrameInv, EventsSend
  <2>3. ThreadsInv'
    <3>1. UNCHANGED <<capture, events, accepted, dropped, frames, consumer, main,
                      summary, probe>>
      BY <2>1 DEF vars, threadVars, frameVars, receiverVars, mainVars
    <3>2. (CaptureReturned' <=> CaptureReturned) /\ (SendersGone' <=> SendersGone)
      BY <3>1 DEF CaptureReturned, SendersGone
    <3>3. ThreadsInv
      BY DEF CommandInv
    <3>4. CASE PrintEvent
      <4>1. printed < Len(events) /\ printed' = printed + 1 /\ printer' = printer
        BY <3>4 DEF PrintEvent
      <4>2. printer /\ printed' \in Nat /\ printed' <= Len(events')
        <5>1. PICK n \in Nat : n = Len(events) /\ n = Len(events')
          BY <2>2, <3>1
        <5>2. printed \in Nat /\ printed < n
          BY <3>3, <4>1, <5>1 DEF ThreadsInv
        <5>3. printer
          <6>1. printed # Len(events)
            BY <5>1, <5>2
          <6> QED BY <3>3, <6>1, Zenon DEF ThreadsInv
        <5> QED BY <4>1, <5>1, <5>2, <5>3
      <4> QED BY <3>1, <3>2, <3>3, <4>1, <4>2 DEF ThreadsInv
    <3>5. CASE PrinterEnds
      <4>1. /\ printer' = FALSE /\ CaptureReturned /\ printed = Len(events)
            /\ printed' = printed
        BY <3>5 DEF PrinterEnds
      <4> QED BY <3>1, <3>2, <3>3, <4>1 DEF ThreadsInv
    <3> QED BY <1>8, <3>4, <3>5
  <2>4. ExitInv'
    BY <1>11, <2>1 DEF vars, threadVars, mainVars
  <2> QED BY <1>2, <1>3, <2>1, <2>3, <2>4 DEF mainVars
<1>9. CASE Main
  <2>1. UNCHANGED vars /\ UNCHANGED printerVars /\ UNCHANGED asked
    BY <1>9 DEF Main, ReadStats, JoinConsumer, JoinPrinter
  <2>2. ThreadsInv'
    <3>1. UNCHANGED <<capture, events, accepted, dropped, frames, consumer,
                      printer, printed>>
      BY <2>1 DEF vars, threadVars, frameVars, receiverVars, printerVars
    <3>2. CaptureReturned' <=> CaptureReturned
      BY <3>1 DEF CaptureReturned
    <3>3. ThreadsInv
      BY DEF CommandInv
    <3>4. CASE ReadStats
      <4>1. /\ main = "capturing" /\ CaptureReturned /\ probe' = FALSE
            /\ main' = "joining consumer"
            /\ summary' = [accepted |-> accepted, dropped |-> dropped]
        BY <3>4 DEF ReadStats
      <4> QED BY <3>1, <3>2, <3>3, <4>1 DEF ThreadsInv, SendersGone
    <3>5. CASE JoinConsumer \/ JoinPrinter
      <4>1. probe' = probe /\ summary' = summary
        BY <3>5 DEF JoinConsumer, JoinPrinter
      <4>2. SendersGone' <=> SendersGone
        BY <3>2, <4>1 DEF SendersGone
      <4>3. \/ main = "joining consumer" /\ ~consumer /\ main' = "joining printer"
            \/ main = "joining printer" /\ ~printer /\ main' = "exited"
        BY <3>5 DEF JoinConsumer, JoinPrinter
      <4> QED BY <3>1, <3>2, <3>3, <4>1, <4>2, <4>3 DEF ThreadsInv
    <3> QED BY <1>9, <3>4, <3>5 DEF Main
  <2>3. ExitInv'
    <3>1. CASE JoinPrinter
      <4>1. CaptureReturned /\ exitCode' = ExitCodeFor(reason)
            /\ capture' = capture /\ reason' = reason
        BY <2>1, <3>1 DEF JoinPrinter, CommandInv, ThreadsInv, vars, threadVars
      <4> QED BY <4>1 DEF ExitInv, CaptureReturned, ExitCodeFor
    <3>2. CASE ReadStats \/ JoinConsumer
      BY <3>2 DEF ReadStats, JoinConsumer, ExitInv
    <3> QED BY <1>9, <3>1, <3>2 DEF Main
  <2> QED BY <1>2, <1>3, <2>1, <2>2, <2>3
<1>10. CASE UNCHANGED commandVars
  <2>1. UNCHANGED vars /\ UNCHANGED printerVars /\ UNCHANGED mainVars
    BY <1>10 DEF commandVars
  <2>2. ThreadsInv'
    BY <2>1 DEF CommandInv, ThreadsInv, CaptureReturned, SendersGone, vars,
       threadVars, frameVars, receiverVars, printerVars, mainVars
  <2>3. ExitInv'
    BY <1>11, <2>1 DEF vars, threadVars, mainVars
  <2> QED BY <1>2, <1>3, <2>1, <2>2, <2>3 DEF mainVars
<1> QED BY <1>4, <1>5, <1>6, <1>7, <1>8, <1>9, <1>10 DEF CommandNext

LEMMA CommandImplies == CommandInv => ExitTellsOutcome
<1> SUFFICES ASSUME CommandInv, main = "exited"
             PROVE  /\ printed = Len(events)
                    /\ summary.accepted = Len(taken)
                    /\ summary.accepted + summary.dropped = sequence
                    /\ exitCode = "0" => asked
                    /\ exitCode = "1" <=>
                         capture = "failed" \/ Told(ErrorEvent("stream"))
                    /\ exitCode = "3" /\ sawStreaming <=> Told(Event("lost"))
  BY DEF ExitTellsOutcome
<1>1. /\ ~consumer /\ ~printer /\ exitCode = ExitCodeFor(reason)
      /\ printed = Len(events) /\ frames = << >>
      /\ capture \in {"done", "failed"}
      /\ summary = [accepted |-> accepted, dropped |-> dropped]
  BY DEF CommandInv, ThreadsInv, ExitInv, CaptureReturned
<1>2. summary.accepted = accepted /\ summary.dropped = dropped
  BY <1>1
<1>3. accepted = Len(taken) /\ sequence = accepted + dropped
  <2>1. Len(frames) = 0 /\ Cardinality(RefusedIn(events)) = 0
    BY <1>1, FS_EmptySet DEF CommandInv
  <2>2. Len(taken) \in Nat
    BY LenProperties DEF CommandInv, FrameInv
  <2> QED BY <2>1, <2>2 DEF CommandInv, FrameInv
<1>4. \A e : Told(e) <=> Reported(e)
  <2>1. DOMAIN events = 1..printed
    BY <1>1, LenProperties DEF CommandInv, FrameInv, EventsSend
  <2> QED BY <2>1 DEF Told, Reported, Range
<1>5. CASE capture = "failed"
  <2>1. /\ reason = "none" /\ stream = "unconnected" /\ ~sawStreaming
        /\ ~Reported(Event("lost"))
    BY <1>5 DEF CommandInv, CauseInv, QuitInv
  <2>2. exitCode = "1"
    BY <1>1, <2>1 DEF ExitCodeFor
  <2> QED BY <1>1, <1>2, <1>3, <1>4, <1>5, <2>1, <2>2
<1>6. CASE capture = "done"
  <2>1. /\ reason = ReasonFor(stream) /\ stream \in StreamStates
        /\ Reported(ErrorEvent("stream")) <=> stream = "error"
        /\ Reported(Event("lost")) <=> stream = "unconnected" /\ sawStreaming
    BY <1>6 DEF CommandInv, CauseInv
  <2>2. asked \/ stream \in {"error", "unconnected"}
    BY <1>6 DEF CommandInv, QuitInv
  <2>3. /\ stream = "error" => exitCode = "1"
        /\ stream = "unconnected" => exitCode = "3"
        /\ stream \notin {"error", "unconnected"} => exitCode = "0"
    BY <1>1, <2>1 DEF ExitCodeFor, ReasonFor, StreamStates
  <2> QED BY <1>1, <1>2, <1>3, <1>4, <1>6, <2>1, <2>2, <2>3
<1> QED BY <1>1, <1>5, <1>6

(* A script can trust the exit code and the summary of the command, in     *)
(* whatever order its threads, PipeWire and a signal take their turns      *)
(* (run_capture).                                                          *)
THEOREM ExitIsTrue == CommandSpec => []ExitTellsOutcome
BY CommandInitial, CommandPreserved, CommandImplies, PTL DEF CommandSpec
=============================================================================
