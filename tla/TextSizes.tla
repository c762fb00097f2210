------------------------------ MODULE TextSizes ------------------------------
(***************************************************************************)
(* The store bounds its texts in bytes (TextLen); what is made of them for *)
(* a client of the tools or for the prompt is bounded in characters.       *)
(***************************************************************************)
EXTENDS MeetingStore

CONSTANT TextChars  (* text.chars().count() of every text                  *)

\* A character takes one to four bytes of UTF-8.
ASSUME TextSizesConfig ==
  /\ TextChars \in [Texts -> Nat]
  /\ \A text \in Texts :
       TextChars[text] <= TextLen[text] /\ TextLen[text] <= 4 * TextChars[text]
============================================================================
