SPECIFICATION LiveSpec
CONSTANTS
    p1 = p1
    p2 = p2
    r1 = r1
    r2 = r2
    n1 = n1
    n2 = n2
    Pools <- TwoPools
    Requests <- OneRequest
    Nodes <- TwoNodes
    Wants <- WantOne
    MinReady <- NoMinReady
    Submitter <- NoSubmitter
    MaxServers <- Servers1
    ProviderQuota = 2
    PauseAtQuota = FALSE
    MaxReadyAge = TRUE
    MaxCrashes = 1
    MaxFailures = 1
    Zuul = Zuul
    None = None
PROPERTIES RequestsResolved
CHECK_DEADLOCK FALSE
