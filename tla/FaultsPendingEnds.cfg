SPECIFICATION FLiveSpec
CONSTANTS
    p1 = p1
    p2 = p2
    r1 = r1
    r2 = r2
    n1 = n1
    n2 = n2
    n3 = n3
    Pools <- OnePool
    Requests <- OneRequest
    Nodes <- ThreeNodes
    Wants <- WantOne
    MinReady <- NoMinReady
    Submitter <- NoSubmitter
    MaxServers <- Servers2
    ProviderQuota = 2
    PauseAtQuota = TRUE
    MaxReadyAge = FALSE
    MaxCrashes = 1
    MaxFailures = 0
    MaxErrors = 0
    MaxExpiries = 1
    Zuul = Zuul
    None = None
PROPERTY PendingEnds
CHECK_DEADLOCK FALSE
