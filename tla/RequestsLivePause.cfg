SPECIFICATION LiveSpec
CONSTANTS
    p1 = p1
    p2 = p2
    r1 = r1
    r2 = r2
    n1 = n1
    n2 = n2
    Pools <- OnePool
    Requests <- TwoRequests
    Nodes <- TwoNodes
    Wants <- WantTwoAndOne
    MinReady <- NoMinReady
    Submitter <- NoSubmitter
    MaxServers <- Servers2
    ProviderQuota = 2
    PauseAtQuota = TRUE
    MaxReadyAge = FALSE
    MaxCrashes = 0
    MaxFailures = 1
    Zuul = Zuul
    None = None
PROPERTIES RequestsResolved
CHECK_DEADLOCK FALSE
