---------------------------- MODULE TargetBounds ----------------------------
(***************************************************************************)
(* What the models of the Target controller have in common: the bounds on  *)
(* what users do and on what goes wrong, and how much of both there was.   *)
(***************************************************************************)
EXTENDS Naturals

CONSTANTS
    MaxChanges,  \* bound: what users do
    MaxFaults,   \* bound: failed calls, failed renderings and crashes
    None         \* an absent object

ASSUME BoundsAssumption ==
    /\ MaxChanges \in Nat
    /\ MaxFaults \in Nat

VARIABLES
    changes,
    faults

=============================================================================
