---------------------------- MODULE MCDiscovery -----------------------------
(* Discovery, for TLC: two versions of a component, the first not deployable,
   are there before the process starts; the same component in the second
   repository, of another registry, has the same names. *)
EXTENDS Discovery

CONSTANTS r1, v1, v2

MCInitial == [x \in Images |-> IF x[1] # r1 THEN None ELSE IF x[2] = v1 THEN 1 ELSE 2]
MCAnnounced == {<<r1, v2>>}
MCName == [x \in Images |-> x[2]]
MCCap == <<1, 1, 1, 2>>
=============================================================================
