------------------------- MODULE MCQuestionDetector -------------------------
(* Instances of QuestionDetector for TLC. *)
EXTENDS QuestionDetector, TLC

CONSTANTS
  canYouGo, canYouGoQ,   (* one question in two spellings                  *)
  couldYou,              (* breaks off                                     *)
  whyRed,                (* addressed to nobody                            *)
  mark,                  (* "?" alone: marked, no words                    *)
  fine                   (* a statement                                    *)

MCFragments == {canYouGo, canYouGoQ, couldYou, whyRed, mark, fine}

MCWording ==
  canYouGo :> <<"can", "go">> @@ canYouGoQ :> <<"can", "go">>
  @@ couldYou :> <<"could">> @@ whyRed :> <<"why", "red">>
  @@ mark :> << >> @@ fine :> <<"fine">>

MCOpeners  == {canYouGo, canYouGoQ, couldYou, whyRed}
MCMarked   == {canYouGoQ, mark}
MCTrailing == {couldYou}
MCToUser   == {canYouGo, canYouGoQ, couldYou}
MCToGroup  == {}
============================================================================
