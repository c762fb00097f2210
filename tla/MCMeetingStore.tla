--------------------------- MODULE MCMeetingStore ---------------------------
(* Instances of the meeting store, with the tools and the context assembler *)
(* that read it, for TLC.                                                   *)
EXTENDS MeetingTools, ContextAssembler, TLC

CONSTANTS short, long, huge, deploy, friday, the, ann

MCTexts == {short, long, huge}

\* With a text bound of 6 one `long` text can evict several `short` ones;
\* `huge` exceeds the bound by itself.
MCTextLen == short :> 1 @@ long :> 3 @@ huge :> 7

MCMentions == short :> {deploy} @@ long :> {deploy, friday} @@ huge :> {deploy}

\* `long` has one character of two bytes and one that JSON escapes, `huge`
\* three of two bytes and one of one.
MCTextChars == short :> 1 @@ long :> 2 @@ huge :> 4
MCCharBytes == short :> 1 @@ long :> 2 @@ huge :> 2
MCSpeakerOf == short :> ann @@ long :> NoSpeaker @@ huge :> ann

\* Provider ids are only compared with each other.
ProviderSymmetry == Permutations(ProviderIds)

\* One question with one term, one with two of which one is said twice, one
\* with a stop word only that fills the prompt by itself.
MCQuestions ==
  {[len |-> 1, words |-> <<the, deploy>>],
   [len |-> 2, words |-> <<friday, deploy, friday>>],
   [len |-> 16, words |-> <<the>>]}

MCSourceLists ==
  {<< >>,
   <<[readOnly |-> TRUE, result |-> "error"], [readOnly |-> TRUE, result |-> "text"]>>,
   <<[readOnly |-> FALSE, result |-> "text"], [readOnly |-> TRUE, result |-> "blank"]>>}
============================================================================
