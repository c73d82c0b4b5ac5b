SPECIFICATION Spec
CONSTANTS
    n1 = n1
    NoInput = NoInput
    Subs = {s1}
    Nodes = {n1}
    Workers = {w1, w2}
    Inputs = {i1}
    Offers <- Download
    Incremental = {}
    Ephemeral = {s1}
    MaxAttempts <- OneRefresh
    MaxPatches <- NoPatch
INVARIANT DeletedIsGone
SYMMETRY Symmetry
CHECK_DEADLOCK FALSE
