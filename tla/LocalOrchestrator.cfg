SPECIFICATION FairSpec
CONSTANTS
    a = a
    b = b
    c = c
    big = big
    small = small
    loop = loop
    Run = {big, small, loop}
    Node = {a, b, c}
    GraphOf <- MCGraphs
    MaxWorkers = 2
    MaxRestarts = 1
CHECK_DEADLOCK FALSE
INVARIANTS DependencyOrder CompletedMeansAllOk
PROPERTIES NoBatchAfterCancel ImplementsContract
PROPERTY EventuallyVerdict
