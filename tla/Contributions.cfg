SPECIFICATION Spec
CONSTANTS
    c1 = c1
    c2 = c2
    ann = ann
    bob = bob
    Ref = {"main", "feature"}
    Principal = {ann, bob}
    Client = {c1, c2}
    Settings <- MCSettings
    Required = 1
    MaxRequests = 1
    Item = {i1, i2, i3, i4}
    Original = i1
    MaxArtifacts = 3
    MaxDepth = 2
CHECK_DEADLOCK FALSE
INVARIANTS MergedOnce OpenRequestHasRefs BranchesAreFaithful
PROPERTY HeadDescends
