--------------------------- MODULE ReleaseResolver ---------------------------
(***************************************************************************)
(* resolveReleaseConflicts of pkg/controller/target_controller.go: which   *)
(* of the releases bound to a Target are deployed.  First, of the releases *)
(* with the same unique name only the first in rank stays (Step A).  Then  *)
(* the rest is walked in rank order, and a release whose anti-affinity is  *)
(* in conflict with one resolved before is left out (Step B).              *)
(*                                                                         *)
(* A ReleaseBinding is its bindingKey, a number: keys are unique, and only *)
(* their order counts.  A label selector is the set of the label sets that *)
(* it matches, the empty one among them or not.                            *)
(***************************************************************************)
EXTENDS Integers, FiniteSets

CONSTANTS
    Bindings,    \* bindingKeys, "<namespace>/<name>" in ascending order
    ReleaseNames,       \* unique names and component names
    LabelSets,   \* what a Release may have as labels (all of them, or none)
    Priorities,  \* values of spec.priority
    NoName         \* no uniqueName

ASSUME DomainAssumption ==
    /\ Bindings \subseteq Int
    /\ Priorities \subseteq Int
    /\ NoName \notin ReleaseNames \cup LabelSets

VARIABLES
    releases,    \* what the Target's ReleaseBindings deploy
    names,       \* unique names whose group is still to be deduplicated
    accepted,    \* accepted by Step A and not yet walked by Step B
    resolved,    \* the result: the bindings deployed
    skipped      \* the bindings with a filter message

resolverVars == <<releases, names, accepted, resolved, skipped>>

\* A selector that LabelSelectorAsSelector refuses.
Invalid == {NoName}

\* Release.Spec, and the component of its ComponentVersion.  antiAffinity {}
\* is the absent selector, or one that matches nothing.
Release == [uniqueName: ReleaseNames \cup {NoName}, component: ReleaseNames,
            priority: Priorities, labels: LabelSets,
            antiAffinity: (SUBSET LabelSets) \cup {Invalid}]

effectiveUniqueName(r) ==
    IF r.uniqueName # NoName THEN r.uniqueName ELSE r.component

UniqueName(b) == effectiveUniqueName(releases[b])

Bound == DOMAIN releases

Group(n) == {b \in Bound : UniqueName(b) = n}

\* Rank order: higher priority, then lower key.
byPriority(a, b) ==
    \/ releases[a].priority > releases[b].priority
    \/ releases[a].priority = releases[b].priority /\ a < b

\* Mutant: priorities are ignored.
FirstByKey(b, S) == b \in S /\ \A c \in S \ {b} : b < c

FirstOf(b, S) == b \in S /\ \A c \in S \ {b} : byPriority(b, c)

\* An invalid selector matches nothing.
Matches(sel, labels) == sel # Invalid /\ labels \in sel

\* Mutant: only the own selector is considered.
conflictOneWay(b, other) ==
    Matches(releases[b].antiAffinity, releases[other].labels)

\* Either's anti-affinity matches the other's labels.
conflict(b, other) ==
    \/ Matches(releases[b].antiAffinity, releases[other].labels)
    \/ Matches(releases[other].antiAffinity, releases[b].labels)

-----------------------------------------------------------------------------

ResolverInit ==
    /\ \E B \in SUBSET Bindings : releases \in [B -> Release]
    /\ names = {UniqueName(b) : b \in Bound}
    /\ accepted = {}
    /\ resolved = {}
    /\ skipped = {}

\* Mutant: the losers get no message.
DeduplicateSilently(n) ==
    /\ n \in names
    /\ names' = names \ {n}
    /\ \E b \in Group(n) :
        /\ FirstOf(b, Group(n))
        /\ accepted' = accepted \cup {b}
    /\ UNCHANGED <<releases, resolved, skipped>>

\* Step A, for one unique name.  The code takes the names in order; the order
\* decides that of the messages alone.
Deduplicate(n) ==
    /\ n \in names
    /\ names' = names \ {n}
    /\ \E b \in Group(n) :
        /\ FirstOf(b, Group(n))
        /\ accepted' = accepted \cup {b}
        /\ skipped' = skipped \cup (Group(n) \ {b})
    /\ UNCHANGED <<releases, resolved>>

\* Step B, for one accepted release.
Walk(b) ==
    /\ names = {}
    /\ FirstOf(b, accepted)
    /\ accepted' = accepted \ {b}
    /\ \/ /\ \/ releases[b].antiAffinity = Invalid
             \/ \E other \in resolved : conflict(b, other)
          /\ skipped' = skipped \cup {b}
          /\ UNCHANGED resolved
       \/ /\ releases[b].antiAffinity # Invalid
          /\ \A other \in resolved : ~conflict(b, other)
          /\ resolved' = resolved \cup {b}
          /\ UNCHANGED skipped
    /\ UNCHANGED <<releases, names>>

Done == names = {} /\ accepted = {}

ResolverNext ==
    \/ \E n \in ReleaseNames : Deduplicate(n)
    \/ \E b \in Bindings : Walk(b)
    \/ Done /\ UNCHANGED resolverVars

ResolverSpec == ResolverInit /\ [][ResolverNext]_resolverVars

-----------------------------------------------------------------------------
(* Properties.                                                             *)

(* The releases, and the sets of bindings in hand, have their types.         *)
ResolverTypeOK ==
    /\ \E B \in SUBSET Bindings : releases \in [B -> Release]
    /\ names \subseteq ReleaseNames
    /\ accepted \subseteq Bound
    /\ resolved \subseteq Bound
    /\ skipped \subseteq Bound

(* What is deployed is compatible: no two releases with the same unique name *)
(* (the key of the bootstrap input), no anti-affinity, in either direction.  *)
ResolvedAreCompatible ==
    \A a, b \in resolved :
        a # b => UniqueName(a) # UniqueName(b) /\ ~conflict(a, b)

(* A binding is left out only for a reason of higher rank: another of its    *)
(* name, a deployed release it is in conflict with; or its own selector.     *)
FilteredForAReason ==
    \A b \in skipped :
        \/ \E c \in Group(UniqueName(b)) : byPriority(c, b)
        \/ releases[b].antiAffinity = Invalid
        \/ \E c \in resolved : byPriority(c, b) /\ conflict(b, c)

(* In the end every binding is either deployed or has its filter message,    *)
(* not both: no release is dropped in silence.                               *)
EveryBindingDecided ==
    /\ resolved \cap skipped = {}
    /\ Done => resolved \cup skipped = Bound

=============================================================================
