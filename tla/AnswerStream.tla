---------------------------- MODULE AnswerStream ----------------------------
(***************************************************************************)
(* What the answer coordinator promises the pipeline, with no word on      *)
(* threads, channels, flags or time: questions are answered one at a time; *)
(* an answer is told piece by piece, in the order the provider says it,    *)
(* while no newer question has been asked and nobody has dropped it; and   *)
(* it ends once: done, which it is only when all that was said has been    *)
(* told, failed, or dropped.  How an answer ended never changes, and       *)
(* nothing of it is told afterwards.                                       *)
(***************************************************************************)
EXTENDS Naturals, Sequences

CONSTANT Questions  (* their numbers, in the order they are asked in       *)

VARIABLES
  asked,            (* the last question                                   *)
  standing,         (* of each question: "unasked", "answering", "done",   *)
                    (* "failed" or "dropped"                               *)
  said,             (* how many pieces the provider has said of it         *)
  told              (* the pieces the pipeline was told                    *)

vars == <<asked, standing, said, told>>

Init ==
  /\ asked = 0
  /\ standing = [q \in Questions |-> "unasked"]
  /\ said = [q \in Questions |-> 0]
  /\ told = [q \in Questions |-> << >>]

\* Whatever is being answered is dropped.
AllDropped ==
  [q \in Questions |-> IF standing[q] = "answering" THEN "dropped" ELSE standing[q]]

(* A question supersedes the one before, also when its own answer cannot   *)
(* be started.                                                             *)
Ask ==
  /\ asked + 1 \in Questions
  /\ asked' = asked + 1
  /\ \E start \in {"answering", "dropped"} :
       standing' = [AllDropped EXCEPT ![asked + 1] = start]
  /\ UNCHANGED <<said, told>>

Drop ==
  /\ standing' = AllDropped
  /\ UNCHANGED <<asked, said, told>>

\* The provider need not know that nobody listens any more.
Say(q) ==
  /\ standing[q] \notin {"unasked", "done"}
  /\ said' = [said EXCEPT ![q] = @ + 1]
  /\ UNCHANGED <<asked, standing, told>>

Tell(q) ==
  /\ standing[q] = "answering"
  /\ Len(told[q]) < said[q]
  /\ told' = [told EXCEPT ![q] = Append(@, Len(@) + 1)]
  /\ UNCHANGED <<asked, standing, said>>

Finish(q) ==
  /\ standing[q] = "answering"
  /\ Len(told[q]) = said[q]
  /\ standing' = [standing EXCEPT ![q] = "done"]
  /\ UNCHANGED <<asked, said, told>>

Fail(q) ==
  /\ standing[q] = "answering"
  /\ standing' = [standing EXCEPT ![q] = "failed"]
  /\ UNCHANGED <<asked, said, told>>

Next ==
  \/ Ask
  \/ Drop
  \/ \E q \in Questions : Say(q) \/ Tell(q) \/ Finish(q) \/ Fail(q)

Spec == Init /\ [][Next]_vars
=============================================================================
