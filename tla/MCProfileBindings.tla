------------------------- MODULE MCProfileBindings -------------------------
(* ProfileBindings, for TLC. *)
EXTENDS ProfileBindings
=============================================================================
