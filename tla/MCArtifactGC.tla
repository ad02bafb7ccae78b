---------------------------- MODULE MCArtifactGC ----------------------------
(* Instances of ArtifactGC for TLC. *)
EXTENDS ArtifactGC

(* A state the system is in once every Target has taken up the same chart: the
   renderings succeeded, the chart is pushed and bound, and the caches are in
   sync.  Starting here leaves the users' changes for giving it up. *)
SharedInit ==
    LET c == CHOOSE x \in Charts : TRUE
        first == CHOOSE t \in Targets : TRUE
    IN
    /\ target = [t \in Targets |-> "live"]
    /\ wants = [t \in Targets |-> [n \in Names |-> c]]
    /\ rt = [t \in Targets |-> [n \in Names |-> [chart |-> c, stage |-> "succeeded"]]]
    /\ bindings = Targets \X {c}
    /\ art = [x \in Charts |-> IF x = c THEN [fin |-> TRUE, term |-> FALSE] ELSE None]
    /\ registry = {c}
    /\ targetCache = target /\ rtCache = rt
    /\ bindingCache = bindings /\ artCache = art
    /\ tw = TIdle /\ aw = AIdle
    /\ older = {<<first, c>>}
    /\ changes = 0 /\ faults = 0

SharedFairSpec == SharedInit /\ [][Next]_vars /\ Fairness
=============================================================================
