\* Every small flow, with a decision and a loader or without, built for a prediction
\* or for an upsert.
CONSTANTS
    n1 = n1
    n2 = n2
    n3 = n3
    n4 = n4
    n5 = n5
    Node = {n1, n2, n3, n4, n5}
    NoNode = NoNode
    MaxEdges = 5
    MaxLoop = 3
    Flows <- MCFlows

SPECIFICATION Spec
\* A build ends.
CHECK_DEADLOCK FALSE

INVARIANTS
    TwiceAtMost
    UpsertBuildsOnce
    ExecutedIsBuilt

PROPERTIES
    ImplementsBuildOrder
