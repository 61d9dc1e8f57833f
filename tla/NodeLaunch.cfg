SPECIFICATION LiveSpec
CONSTANTS
    n1 = n1
    i1 = i1
    i2 = i2
    i3 = i3
    Nodes <- OneNode
    Instances <- ThreeInstances
    Retries = 3
    HostKeyChecking = TRUE
    MaxCrashes = 1
    MaxFaults = 2
    MaxExpiries = 1
    None = None
INVARIANTS TypeOK  OneServerPerNode 
PROPERTY InstancesReclaimed
