---------------------------- MODULE MCRenderTask ----------------------------
(***************************************************************************)
(* RenderTask for TLC.  A config is published under a reference of its own *)
(* (the spec drift that recreates a release RenderTask changes the pull    *)
(* secrets, and with them the tag), so TagOf is the identity and the       *)
(* configs are symmetric.                                                  *)
(***************************************************************************)
EXTENDS RenderTask, TLC

MCTagOf == [c \in Configs |-> c]

ConfigSymmetry == Permutations(Configs)

=============================================================================
