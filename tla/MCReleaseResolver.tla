-------------------------- MODULE MCReleaseResolver --------------------------
(* Instances of ReleaseResolver for TLC. *)
EXTENDS ReleaseResolver, TLC

ResolverSymmetry == Permutations(ReleaseNames) \cup Permutations(LabelSets)

=============================================================================
