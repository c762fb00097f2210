------------------------ MODULE MCOverlayApplication ------------------------
(* Instances of OverlayApplication for TLC. *)
EXTENDS OverlayApplication
============================================================================
