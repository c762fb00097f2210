-------------------------- MODULE QuestionDetector --------------------------
(***************************************************************************)
(* The question gate of parliant-detect.  Every finalized segment passes a *)
(* staged filter; what gets through becomes a QuestionEvent.  A question   *)
(* that breaks off is held back and joined with the next segment.          *)
(*                                                                         *)
(* The text of a candidate is the sequence of the fragments it was joined  *)
(* from.  A fragment is a member of Fragments; the heuristics look at a    *)
(* text through the sets and functions declared below.  An incomplete      *)
(* suffix that straddles two fragments ("... can" + "you") is left out.    *)
(***************************************************************************)
EXTENDS Naturals, Sequences, SequencesExt, FiniteSetsExt

CONSTANTS
  Fragments,        (* texts of finalized segments                         *)
  Openers,          (* fragments that begin like a question ("what ...")   *)
  Marked,           (* fragments that end in a question mark               *)
  Trailing,         (* fragments that break off ("could you", "...,")      *)
  ToUser,           (* fragments with the word "you" or "your"             *)
  ToGroup,          (* fragments with the word "we" or "our"               *)
  Wording,          (* Wording[f]: the normalized words of a fragment      *)
  MinConfidence,    (* minimum_addressed_confidence                        *)
  Cooldown,         (* cooldown_segments                                   *)
  RepeatMemory,     (* duplicate_memory                                    *)
  LastSegment,      (* bound of the model: ids of the segments processed   *)
  ManualCap         (* bound of the model: manual triggers and resets      *)

ASSUME DetectorConfig ==
  /\ Openers \union Marked \union Trailing \union ToUser \union ToGroup
       \subseteq Fragments
  /\ Marked \intersect Trailing = {}
  /\ MinConfidence \in 0..100
  /\ Cooldown \in Nat
  /\ RepeatMemory \in Nat
  /\ LastSegment \in Nat
  /\ ManualCap \in Nat

VARIABLES
  nextQuestionId,
  lastTrigger,      (* last_trigger_segment, 0 for None                    *)
  recentIds,        (* recent_normalized, the hash set                     *)
  recentOrder,      (* recent_order                                        *)
  pending,          (* the held-back question; no fragments: None          *)
  processed,        (* the id of the last segment handed over              *)
  emitted,          (* history: automatic events since the last reset      *)
  manual            (* bound of the model: calls of manual_trigger, reset  *)

vars == <<nextQuestionId, lastTrigger, recentIds, recentOrder, pending,
          processed, emitted, manual>>

NoQuestion == [text |-> << >>, sources |-> << >>]

----------------------------------------------------------------------------
(* candidate_check and the heuristic classifier, on a joined text. *)

IsCandidate(text) == text[1] \in Openers \/ Last(text) \in Marked

Confidence(text) ==
  IF Range(text) \intersect ToUser # {} THEN 95
  ELSE IF Range(text) \intersect ToGroup # {} THEN 82
  ELSE IF IsCandidate(text) THEN 72 ELSE 0

IsComplete(text) == Last(text) \notin Trailing

(* normalize_question: case and punctuation are gone, only words are left. *)
Normalize(text) == FlattenSeq([i \in 1..Len(text) |-> Wording[text[i]]])

----------------------------------------------------------------------------
SaturatingSub(m, n) == IF m > n THEN m - n ELSE 0

(* The cooldown counts segments; an id below the last trigger is inside it. *)
CoolingDown(id) ==
  lastTrigger # 0 /\ SaturatingSub(id, lastTrigger) <= Cooldown

\* What leaves the queue stays in the set.
RememberWording_Fault(words) ==
  LET order == Append(recentOrder, words)
      drop  == SaturatingSub(Len(order), RepeatMemory)
  IN  /\ recentOrder' = SubSeq(order, drop + 1, Len(order))
      /\ recentIds' = recentIds \union {words}

(* remember: bounded FIFO of normalized questions, off when it has no room. *)
RememberWording(words) ==
  IF RepeatMemory = 0 THEN UNCHANGED <<recentIds, recentOrder>>
  ELSE LET order == Append(recentOrder, words)
           drop  == SaturatingSub(Len(order), RepeatMemory)
       IN  /\ recentOrder' = SubSeq(order, drop + 1, Len(order))
           /\ recentIds' = (recentIds \union {words})
                             \ {order[i] : i \in 1..drop}

(* An event takes the next question id. *)
Emit(text, confidence, sources) ==
  /\ emitted' = Append(emitted,
       [id |-> nextQuestionId, text |-> text, confidence |-> confidence,
        sources |-> sources])
  /\ nextQuestionId' = nextQuestionId + 1

(* The text under consideration: pending is taken and extended, or the     *)
(* segment stands alone.                                                   *)
Considered(id, f) ==
  [text |-> Append(pending.text, f), sources |-> Append(pending.sources, id)]

Joining == pending.text # << >>

(* The cheap check is for segments that stand alone; the heuristic         *)
(* classifier answers is_question with the same check on the whole text.   *)
IsQuestion(text) == IsCandidate(text)

Passes(q) == (Joining \/ IsCandidate(q.text)) /\ IsQuestion(q.text)

Holds(q) == Passes(q) /\ ~IsComplete(q.text)

\* No duplicate suppression.
Triggers_Fault(q, id) ==
  /\ Passes(q)
  /\ IsComplete(q.text)
  /\ Confidence(q.text) >= MinConfidence
  /\ Normalize(q.text) # << >>
  /\ ~CoolingDown(id)

Triggers(q, id) ==
  /\ Passes(q)
  /\ IsComplete(q.text)
  /\ Confidence(q.text) >= MinConfidence
  /\ Normalize(q.text) # << >>
  /\ Normalize(q.text) \notin recentIds
  /\ ~CoolingDown(id)

----------------------------------------------------------------------------
Init ==
  /\ nextQuestionId = 1
  /\ lastTrigger = 0
  /\ recentIds = {}
  /\ recentOrder = << >>
  /\ pending = NoQuestion
  /\ processed = 0
  /\ emitted = << >>
  /\ manual = 0

Hold(q) ==
  /\ Holds(q)
  /\ pending' = q
  /\ UNCHANGED <<nextQuestionId, lastTrigger, recentIds, recentOrder, emitted>>

Trigger(q, id) ==
  /\ Triggers(q, id)
  /\ pending' = NoQuestion
  /\ lastTrigger' = id
  /\ RememberWording(Normalize(q.text))
  /\ Emit(q.text, Confidence(q.text), q.sources)

\* A refused joined text leaves the pending question in place.
Drop_Fault(q, id) ==
  /\ ~Holds(q)
  /\ ~Triggers(q, id)
  /\ UNCHANGED <<nextQuestionId, lastTrigger, recentIds, recentOrder, emitted,
                 pending>>

(* Every other exit drops the text, a pending question included. *)
Drop(q, id) ==
  /\ ~Holds(q)
  /\ ~Triggers(q, id)
  /\ pending' = NoQuestion
  /\ UNCHANGED <<nextQuestionId, lastTrigger, recentIds, recentOrder, emitted>>

ProcessFinalized(id, f) ==
  /\ LET q == Considered(id, f)
     IN  Hold(q) \/ Trigger(q, id) \/ Drop(q, id)
  /\ processed' = id
  /\ UNCHANGED manual

(* manual_trigger makes an event of any non-empty text and segments of the *)
(* caller's choice.  Neither the cooldown nor the repeat memory applies or *)
(* changes: of the event only the id it takes matters to the detector.     *)
ManualTrigger ==
  /\ manual < ManualCap
  /\ manual' = manual + 1
  /\ nextQuestionId' = nextQuestionId + 1
  /\ UNCHANGED <<lastTrigger, recentIds, recentOrder, pending, processed,
                 emitted>>

(* reset forgets the conversation but goes on numbering questions.  The    *)
(* caller resets for a new session, whose segment ids restart.             *)
Reset ==
  /\ manual < ManualCap
  /\ manual' = manual + 1
  /\ lastTrigger' = 0
  /\ recentIds' = {}
  /\ recentOrder' = << >>
  /\ pending' = NoQuestion
  /\ processed' = 0
  /\ emitted' = << >>
  /\ UNCHANGED nextQuestionId

Next ==
  \/ \E f \in Fragments :
       processed < LastSegment /\ ProcessFinalized(processed + 1, f)
  \/ ManualTrigger
  \/ Reset

Spec == Init /\ [][Next]_vars

----------------------------------------------------------------------------
Questions == [text : Seq(Fragments), sources : Seq(Nat)]
Events == [id : Nat, text : Seq(Fragments), confidence : 0..100,
           sources : Seq(Nat)]

TypeOK ==
  /\ nextQuestionId \in Nat \ {0}
  /\ lastTrigger \in Nat
  /\ pending \in Questions
  /\ processed \in Nat
  /\ emitted \in Seq(Events)

\* The last `n` elements of a sequence, or all of them.
LastOf(s, n) == SubSeq(s, SaturatingSub(Len(s), n) + 1, Len(s))

(* What the detector remembers is exactly the wording of its latest        *)
(* automatic events: a text refused by the confidence, repeat or cooldown  *)
(* gate leaves no trace that would suppress it when it is asked again, and *)
(* the set and the queue never drift apart.                                *)
MemoryIsRecentEvents ==
  /\ recentIds = Range(recentOrder)
  /\ recentOrder = LastOf([i \in 1..Len(emitted) |->
                             Normalize(emitted[i].text)], RepeatMemory)

(* "Duplicate suppression": no automatic event repeats the wording of one  *)
(* of the RepeatMemory automatic events before it, however its fragments   *)
(* were split, spelled or joined.                                          *)
NoRepeatWithinMemory ==
  \A i, j \in 1..Len(emitted) :
    i < j /\ j - i <= RepeatMemory =>
      Normalize(emitted[i].text) # Normalize(emitted[j].text)

(* The sources of an automatic event are consecutive segments, one for     *)
(* each fragment of its text, and no segment is the source of two events:  *)
(* a question is never joined over a gap or out of order.                  *)
SourcesAreConsecutive ==
  /\ \A i \in 1..Len(emitted) :
       LET e == emitted[i]
       IN  /\ Len(e.sources) = Len(e.text)
           /\ \A k \in 2..Len(e.sources) : e.sources[k] = e.sources[k - 1] + 1
  /\ \A i, j \in 1..Len(emitted) :
       i # j => Range(emitted[i].sources)
                  \intersect Range(emitted[j].sources) = {}
============================================================================
