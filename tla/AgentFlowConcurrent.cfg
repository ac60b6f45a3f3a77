\* Two requests of the session served at the same time, answers to any stop.
CONSTANTS
    S = S
    A = A
    B = B
    C = C
    G = G
    H = H
    J = J
    L = L
    P = P
    NoNode = NoNode
    Node <- MCNode
    Agentflows <- MCApproval
    MaxRequests = 3
    MaxActive = 2
    MaxCrashes = 1
    MaxIterations = 2
    MaxLoopCount = 3
    StaleResume = TRUE
SPECIFICATION Spec
INVARIANTS
    InProgressIsServed
CHECK_DEADLOCK FALSE
