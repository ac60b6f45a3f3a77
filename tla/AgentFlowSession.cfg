\* One client that waits for each answer: two requests, one crash, fair steps.
CONSTANTS
    S = S
    A = A
    B = B
    C = C
    G = G
    H = H
    J = J
    L = L
    P = P
    NoNode = NoNode
    Node <- MCNode
    Agentflows <- MCSession
    MaxRequests = 2
    MaxActive = 1
    MaxCrashes = 1
    MaxIterations = 12
    MaxLoopCount = 3
    StaleResume = FALSE
SPECIFICATION FairSpec
INVARIANTS
    TypeOK
    OnlyTakenBranchesRun
    RunsAfterItsInputs
    FinishedIsComplete
    EachNodeFinishesOnce
PROPERTY
    EveryRequestEnds
CHECK_DEADLOCK FALSE
