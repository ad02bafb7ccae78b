------------------------ MODULE MCRegistryProtection ------------------------
(* RegistryProtection, for TLC. *)
EXTENDS RegistryProtection
=============================================================================
