SPECIFICATION FSpec
CONSTANTS
    p1 = p1
    p2 = p2
    r1 = r1
    r2 = r2
    n1 = n1
    n2 = n2
    n3 = n3
    Pools <- TwoPools
    Requests <- TwoRequests
    Nodes <- TwoNodes
    Wants <- WantOneEach
    MinReady <- NoMinReady
    Submitter <- NoSubmitter
    MaxServers <- Servers2
    ProviderQuota = 2
    PauseAtQuota = TRUE
    MaxReadyAge = FALSE
    MaxCrashes = 0
    MaxFailures = 1
    MaxErrors = 1
    MaxExpiries = 0
    Zuul = Zuul
    None = None
SYMMETRY Symmetry
INVARIANTS HandlerHoldsRequest NodesetHeld
CHECK_DEADLOCK FALSE
