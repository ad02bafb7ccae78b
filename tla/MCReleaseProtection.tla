------------------------ MODULE MCReleaseProtection ------------------------
(* ReleaseProtection, for TLC. *)
EXTENDS ReleaseProtection
=============================================================================
