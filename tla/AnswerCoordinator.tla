-------------------------- MODULE AnswerCoordinator --------------------------
(***************************************************************************)
(* Answer generation of parliant-orchestrator: the coordinator, called by  *)
(* the pipeline thread, and one provider thread per question (run_request  *)
(* of the Responses API adapter) that streams an HTTP response into a      *)
(* channel.  The coordinator keeps at most one answer active; a newer      *)
(* question, a dismissal or the timeout cancels it through a shared flag   *)
(* the provider thread polls.                                              *)
(*                                                                         *)
(* Deltas are numbered as the provider thread reads them; their text is    *)
(* irrelevant here.  Error events carry no reason: every reason is handled *)
(* alike.  Panics of a provider thread are left out.                       *)
(***************************************************************************)
EXTENDS Naturals, Sequences, SequencesExt

CONSTANTS
  LastQuestion,     (* bound of the model: questions begun                 *)
  MaxDeltas         (* bound of the model: deltas of one response          *)

ASSUME CoordinatorBounds ==
  LastQuestion \in Nat /\ MaxDeltas \in Nat

Ids == 1..LastQuestion

VARIABLES
  active,           (* the question of ActiveAnswer, 0 for None            *)
  overdue,          (* the active answer has reached answer_timeout        *)
  begun,            (* the last question begin was called for              *)
  worker,           (* program counter of each provider thread             *)
  outgoing,         (* the event a provider thread is about to send        *)
  cancelled,        (* the flag shared by session and provider thread      *)
  channel,          (* events sent and not yet received                    *)
  read,             (* deltas each provider thread has read                *)
  log,              (* history: calls and the updates poll returned        *)
  delivered         (* history: the deltas poll returned of each answer    *)

history == <<log, delivered>>
coordinatorVars == <<active, overdue, begun, history>>
workerVars == <<worker, outgoing, channel, read>>
vars == <<coordinatorVars, workerVars, cancelled>>

Delta(n)  == [kind |-> "delta", n |-> n]
Done      == [kind |-> "done",  n |-> 0]
Error     == [kind |-> "error", n |-> 0]

IsTerminal(e) == e.kind \in {"done", "error"}

\* A provider thread that has not returned from run_request.
Running(q) == worker[q] \notin {"unborn", "returned"}

\* A call, or an update without text.
Record(kind, q) ==
  /\ log' = Append(log, [kind |-> kind, question |-> q, n |-> 0])
  /\ UNCHANGED delivered

\* An event of the active answer is returned as an update.
Return(e) ==
  /\ log' = Append(log, [kind |-> e.kind, question |-> active, n |-> e.n])
  /\ delivered' = IF e.kind = "delta"
                  THEN [delivered EXCEPT ![active] = Append(@, e.n)]
                  ELSE delivered

----------------------------------------------------------------------------
Init ==
  /\ active = 0
  /\ overdue = FALSE
  /\ begun = 0
  /\ worker = [q \in Ids |-> "unborn"]
  /\ outgoing = [q \in Ids |-> Done]
  /\ cancelled = [q \in Ids |-> FALSE]
  /\ channel = [q \in Ids |-> << >>]
  /\ read = [q \in Ids |-> 0]
  /\ log = << >>
  /\ delivered = [q \in Ids |-> << >>]

\* previous.session.cancel(), if there is one.
CancelActive ==
  IF active = 0 THEN UNCHANGED cancelled
  ELSE cancelled' = [cancelled EXCEPT ![active] = TRUE]

(* begin: the previous answer is taken and cancelled before the provider   *)
(* is started; when the thread cannot be spawned nothing is active.        *)
Begin(q) ==
  /\ q \in Ids
  /\ CancelActive
  /\ active' = q
  /\ overdue' = FALSE
  /\ begun' = q
  /\ worker' = [worker EXCEPT ![q] = "connecting"]
  /\ Record("begin", q)
  /\ UNCHANGED <<outgoing, channel, read>>

BeginFails(q) ==
  /\ q \in Ids
  /\ CancelActive
  /\ active' = 0
  /\ overdue' = FALSE
  /\ begun' = q
  /\ Record("cancel", q)
  /\ UNCHANGED workerVars

Cancel ==
  /\ CancelActive
  /\ active' = 0
  /\ overdue' = FALSE
  /\ IF active = 0 THEN UNCHANGED history
                   ELSE Record("cancel", active)
  /\ UNCHANGED <<begun, workerVars>>

\* Every poll renews the start time.
Elapse_Fault ==
  /\ active # 0
  /\ ~overdue
  /\ overdue' = FALSE
  /\ UNCHANGED <<active, begun, history, workerVars, cancelled>>

\* Instant::now moves past started_at + answer_timeout.
Elapse ==
  /\ active # 0
  /\ ~overdue
  /\ overdue' = TRUE
  /\ UNCHANGED <<active, begun, history, workerVars, cancelled>>

(* poll, when the active answer has used up its time. *)
PollTimesOut ==
  /\ active # 0
  /\ overdue
  /\ CancelActive
  /\ active' = 0
  /\ overdue' = FALSE
  /\ Record("error", active)
  /\ UNCHANGED <<begun, workerVars>>

\* The coordinator forgets an answer only when it is done.
PollSession_Fault ==
  /\ active # 0
  /\ ~overdue
  /\ channel[active] # << >>
  /\ LET e == Head(channel[active])
     IN  /\ Return(e)
         /\ active' = IF e = Done THEN 0 ELSE active
  /\ channel' = [channel EXCEPT ![active] = Tail(@)]
  /\ UNCHANGED <<overdue, begun, worker, outgoing, read, cancelled>>

(* poll, when recv_timeout yields an event: a terminal one ends the answer *)
(* without touching the cancelled flag.  When the provider thread is gone  *)
(* and nothing is left to receive, poll fails with SessionClosed and the   *)
(* answer stays active.  A timeout of recv_timeout changes nothing.        *)
PollSession ==
  /\ active # 0
  /\ ~overdue
  /\ channel[active] # << >> \/ worker[active] = "returned"
  /\ IF channel[active] = << >>
     THEN Record("closed", active) /\ UNCHANGED <<active, channel>>
     ELSE LET e == Head(channel[active])
          IN  /\ Return(e)
              /\ active' = IF IsTerminal(e) THEN 0 ELSE active
              /\ channel' = [channel EXCEPT ![active] = Tail(@)]
  /\ UNCHANGED <<overdue, begun, worker, outgoing, read, cancelled>>

----------------------------------------------------------------------------
(* The provider thread.  Its program counter:                              *)
(*   connecting  client setup and the request, to the response headers     *)
(*   top         the head of the read loop, before the cancelled check     *)
(*   reading     read_line and parse_sse_line                              *)
(*   checking    send_if_active, before it loads the flag                  *)
(*   sending     send_if_active, past the check, before the send           *)
(*   returned    run_request has returned and dropped the sender           *)

Goto(q, pc) == worker' = [worker EXCEPT ![q] = pc]

Offer(q, e) ==
  /\ outgoing' = [outgoing EXCEPT ![q] = e]
  /\ Goto(q, "checking")

Connect(q) ==
  /\ worker[q] = "connecting"
  /\ \/ Goto(q, "top") /\ UNCHANGED outgoing
     \/ Offer(q, Error)
  /\ UNCHANGED <<channel, read, coordinatorVars, cancelled>>

\* The read loop never looks at the flag.
LoopTop_Fault(q) ==
  /\ worker[q] = "top"
  /\ Goto(q, "reading")
  /\ UNCHANGED <<outgoing, channel, read, coordinatorVars, cancelled>>

LoopTop(q) ==
  /\ worker[q] = "top"
  /\ Goto(q, IF cancelled[q] THEN "returned" ELSE "reading")
  /\ UNCHANGED <<outgoing, channel, read, coordinatorVars, cancelled>>

\* An end of stream without a final event returns at once.
ReadLine_Fault(q) ==
  /\ worker[q] = "reading"
  /\ \/ /\ read[q] < MaxDeltas
        /\ read' = [read EXCEPT ![q] = @ + 1]
        /\ Offer(q, Delta(read[q] + 1))
     \/ Goto(q, "returned") /\ UNCHANGED <<read, outgoing>>
  /\ UNCHANGED <<channel, coordinatorVars, cancelled>>

(* A delta, the end of the response or of the stream (Done), a failure     *)
(* (Error), or a line that carries no event.                               *)
ReadLine(q) ==
  /\ worker[q] = "reading"
  /\ \/ /\ read[q] < MaxDeltas
        /\ read' = [read EXCEPT ![q] = @ + 1]
        /\ Offer(q, Delta(read[q] + 1))
     \/ /\ \E e \in {Done, Error} : Offer(q, e)
        /\ UNCHANGED <<read>>
     \/ Goto(q, "top") /\ UNCHANGED <<read, outgoing>>
  /\ UNCHANGED <<channel, coordinatorVars, cancelled>>

AfterSend(q) == IF IsTerminal(outgoing[q]) THEN "returned" ELSE "top"

CheckFlag(q) ==
  /\ worker[q] = "checking"
  /\ Goto(q, IF cancelled[q] THEN AfterSend(q) ELSE "sending")
  /\ UNCHANGED <<outgoing, channel, read, coordinatorVars, cancelled>>

\* Every question's events go to the session that is active now.
Send_Fault(q) ==
  /\ worker[q] = "sending"
  /\ channel' = IF active = 0 THEN channel
                ELSE [channel EXCEPT ![active] = Append(@, outgoing[q])]
  /\ Goto(q, AfterSend(q))
  /\ UNCHANGED <<outgoing, read, coordinatorVars, cancelled>>

(* The flag may have been set since the check: the event is sent to a      *)
(* receiver that is gone (`let _ = tx.send`) and lost.                     *)
Send(q) ==
  /\ worker[q] = "sending"
  /\ channel' = [channel EXCEPT ![q] =
                   IF active = q THEN Append(@, outgoing[q]) ELSE @]
  /\ Goto(q, AfterSend(q))
  /\ UNCHANGED <<outgoing, read, coordinatorVars, cancelled>>

Worker(q) ==
  Connect(q) \/ LoopTop(q) \/ ReadLine(q) \/ CheckFlag(q) \/ Send(q)

Poll == PollTimesOut \/ PollSession

Next ==
  \/ Begin(begun + 1) \/ BeginFails(begun + 1)
  \/ Cancel
  \/ Elapse
  \/ Poll
  \/ \E q \in Ids : Worker(q)

Spec == Init /\ [][Next]_vars

(* The pipeline thread polls in every round of its loop, time passes, and  *)
(* the blocking HTTP client gives every connect and read a deadline.       *)
Fairness ==
  /\ WF_vars(Elapse)
  /\ WF_vars(Poll)
  /\ \A q \in Ids : WF_vars(Worker(q))

FairSpec == Spec /\ Fairness

----------------------------------------------------------------------------
Events == {Done, Error} \union {Delta(n) : n \in 1..MaxDeltas}

Entries ==
  [kind : {"begin", "cancel", "delta", "done", "error", "closed"},
   question : Ids, n : 0..MaxDeltas]

TypeOK ==
  /\ active \in {0} \union Ids
  /\ overdue \in BOOLEAN
  /\ overdue => active # 0
  /\ begun \in {0} \union Ids
  /\ worker \in [Ids -> {"unborn", "connecting", "top", "reading",
                         "checking", "sending", "returned"}]
  /\ outgoing \in [Ids -> Events]
  /\ cancelled \in [Ids -> BOOLEAN]
  /\ channel \in [Ids -> Seq(Events)]
  /\ read \in [Ids -> 0..MaxDeltas]
  /\ log \in Seq(Entries)
  /\ delivered \in [Ids -> Seq(1..MaxDeltas)]

\* The positions of the log that hold an update poll returned.
UpdateAt == {i \in 1..Len(log) : log[i].kind \in {"delta", "done", "error"}}

(* "Stale-question superseding": an update poll returns belongs to the     *)
(* answer that was begun last, and nothing ended, cancelled or superseded  *)
(* that answer in between, whatever the provider threads still send.       *)
NoStaleUpdate ==
  \A i \in UpdateAt :
    \E b \in 1..(i - 1) :
      /\ log[b].kind = "begin" /\ log[b].question = log[i].question
      /\ \A k \in (b + 1)..(i - 1) :
           log[k].kind = "delta" /\ log[k].question = log[i].question

(* The deltas of an answer reach the caller in order and without a gap;    *)
(* an answer reported as done was delivered as far as the response was     *)
(* read, although the sender may drop events.                              *)
DoneMeansComplete ==
  \A q \in Ids :
    /\ \A k \in 1..Len(delivered[q]) : delivered[q][k] = k
    /\ (\E i \in 1..Len(log) : log[i].kind = "done" /\ log[i].question = q)
         => Len(delivered[q]) = read[q]

(* poll never runs into SessionClosed, which would leave the answer active *)
(* and failing until its timeout: a provider thread that returns has first *)
(* sent a final event, unless it was told to stop.                         *)
NeverClosed ==
  \A q \in Ids :
    active = q /\ worker[q] = "returned" =>
      channel[q] # << >> /\ IsTerminal(Last(channel[q]))

(* A cancelled provider thread returns. *)
CancelledWorkersReturn ==
  \A q \in Ids : [](cancelled[q] /\ Running(q) => <>~Running(q))

----------------------------------------------------------------------------
(* The abstract specification: how the answers stand.                      *)

Reported(kind, q) ==
  \E i \in 1..Len(log) : log[i].kind = kind /\ log[i].question = q

StandingOf(q) ==
  CASE active = q           -> "answering"
    [] q > begun            -> "unasked"
    [] Reported("done", q)  -> "done"
    [] Reported("error", q) -> "failed"
    [] OTHER                -> "dropped"

Stream == INSTANCE AnswerStream WITH
  Questions <- Ids,
  asked     <- begun,
  standing  <- [q \in Ids |-> StandingOf(q)],
  said      <- read,
  told      <- delivered

(* The coordinator implements the stream: of all that provider threads     *)
(* send, late or not, the pipeline is told the pieces of one answer, each  *)
(* once and in order; an answer that is done was told in full; and one     *)
(* that has ended, however it did, stays as it is.                         *)
ImplementsStream == Stream!Spec
============================================================================
