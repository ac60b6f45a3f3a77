\* The flows that stop, asked and answered by a client that waits: four requests.
CONSTANTS
    S = S
    A = A
    B = B
    C = C
    G = G
    H = H
    J = J
    L = L
    P = P
    NoNode = NoNode
    Node <- MCNode
    Agentflows <- MCApproval
    MaxRequests = 4
    MaxActive = 1
    MaxCrashes = 0
    MaxIterations = 20
    MaxLoopCount = 3
    StaleResume = FALSE
SPECIFICATION Spec
INVARIANTS
    ResumableHasAction
    FinishedIsComplete
PROPERTIES
    FinishedWorkIsKept
    ImplementsLifecycle
CHECK_DEADLOCK FALSE
