------------------------ MODULE MCAnswerCoordinator ------------------------
(* Instances of AnswerCoordinator for TLC.  The bounds are given in the    *)
(* configuration files.                                                    *)
EXTENDS AnswerCoordinator
============================================================================
