-------------------------- MODULE TranscriptWindow --------------------------
(***************************************************************************)
(* What parliant-context promises about the transcript of a session, with  *)
(* no word on how much is retained: finalized segments are numbered 1, 2,  *)
(* ... as they are accepted; the numbers still retained are an interval    *)
(* that ends at the newest; what a number names does not change; and the   *)
(* whole log is dropped at once when a session starts or is reset.         *)
(***************************************************************************)
EXTENDS Integers

CONSTANT Contents   (* what a segment says                                 *)

VARIABLES
  first,            (* the oldest number still retained                    *)
  next,             (* the number of the next segment                      *)
  at                (* the content of every retained number                *)

vars == <<first, next, at>>

Init ==
  /\ first = 1
  /\ next = 1
  /\ at = [n \in 1..0 |-> n]

(* A segment takes the next number; the window may leave older ones behind *)
(* but holds the new one.                                                  *)
Append(c) ==
  /\ next' = next + 1
  /\ first' \in first..next
  /\ at' = [n \in first'..next |-> IF n = next THEN c ELSE at[n]]

Restart ==
  /\ first' = 1
  /\ next' = 1
  /\ at' = [n \in 1..0 |-> n]

Next == Restart \/ \E c \in Contents : Append(c)

Spec == Init /\ [][Next]_vars
============================================================================
