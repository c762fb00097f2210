--------------------------- MODULE MCRuntimeEngine ---------------------------
(* Instances of RuntimeEngine for TLC. *)
EXTENDS RuntimeEngine, TLC

CONSTANTS
  ask,              (* a complete question addressed to the user           *)
  couldYou,         (* a question that breaks off                          *)
  speech            (* a statement too long for the store                  *)

MCFragments == {ask, couldYou, speech}
MCQuestions == {ask, couldYou}

MCTextLen == ask :> 2 @@ couldYou :> 1 @@ speech :> 4
MCWording ==
  ask :> <<"a">> @@ couldYou :> <<"could">>
  @@ speech :> <<"so">>
MCTrailing == {couldYou}
============================================================================
