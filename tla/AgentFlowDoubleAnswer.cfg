\* The same stop is answered twice at the same time.
CONSTANTS
    S = S
    A = A
    B = B
    C = C
    G = G
    H = H
    J = J
    L = L
    P = P
    NoNode = NoNode
    Node <- MCNode
    Agentflows <- MCApproval
    MaxRequests = 3
    MaxActive = 2
    MaxCrashes = 0
    MaxIterations = 20
    MaxLoopCount = 3
    StaleResume = FALSE
SPECIFICATION FairSpec
PROPERTIES
    FinishedIsNotReopened
CHECK_DEADLOCK FALSE
