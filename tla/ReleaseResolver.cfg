CONSTANTS
    Bindings = {1, 2, 3}
    ReleaseNames = {n1, n2}
    LabelSets = {none, l1}
    Priorities = {0, 1}
    NoName = NoName
SPECIFICATION ResolverSpec
INVARIANT ResolvedAreCompatible
INVARIANT FilteredForAReason
INVARIANT EveryBindingDecided
SYMMETRY ResolverSymmetry
