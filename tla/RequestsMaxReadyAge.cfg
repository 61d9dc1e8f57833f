SPECIFICATION Spec
CONSTANTS
    p1 = p1
    p2 = p2
    r1 = r1
    r2 = r2
    n1 = n1
    n2 = n2
    Pools <- TwoPools
    Requests <- TwoRequests
    Nodes <- TwoNodes
    Wants <- WantTwoAndOne
    MinReady <- NoMinReady
    Submitter <- NoSubmitter
    MaxServers <- Servers2
    ProviderQuota = 2
    PauseAtQuota = TRUE
    MaxReadyAge = TRUE
    MaxCrashes = 1
    MaxFailures = 1
    Zuul = Zuul
    None = None
SYMMETRY Symmetry
INVARIANT FulfilledNodesReady
CHECK_DEADLOCK FALSE
