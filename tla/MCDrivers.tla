------------------------------ MODULE MCDrivers ------------------------------
(* The drivers that have no cloud behind them: a static host, nodes in the *)
(* slots of other nodes, and containers.  They share nothing; a behaviour  *)
(* is about one of them, and leaves the others as they were at first.      *)
EXTENDS Metastatic, Integers, Sequences

CONSTANTS
    Configs, MaxNodes, MaxEvents,           \* of the static driver
    LaunchRetries, MaxFailures, MaxMishaps  \* of the containers

\* A host is configured for any number of jobs, or not at all.
ASSUME StaticAssumption ==
    /\ Configs \in Seq(Nat) /\ Configs # <<>>
    /\ MaxNodes \in Nat /\ MaxEvents \in Nat
    /\ None \notin Int

\* None is nobody who locks a container's node; a first attempt is always made.
ASSUME ContainersAssumption ==
    /\ None \notin {"launcher", "deleter"}
    /\ LaunchRetries \in Nat \ {0} /\ MaxFailures \in Nat /\ MaxMishaps \in Nat

\* A host that runs two jobs at a time, and then one
TwoConfigs == <<2, 1>>

VARIABLES
    part,       \* the driver that the behaviour is about
    state, slot, conf, idle, table, locker, at, mgr, reachable, stMixed, events,
    driver, wantsPod, node, ext, held, step, attempts, mem, memExt, cnDeleter,
    place, lost, spoiled, cnFaults, cnMishaps

S == INSTANCE StaticNodes WITH mixed <- stMixed
C == INSTANCE ContainerNodes WITH
        MaxFaults <- MaxFailures, Nobody <- None,
        deleter <- cnDeleter, faults <- cnFaults, mishaps <- cnMishaps

svars == <<state, slot, conf, idle, table, locker, at, mgr, reachable, stMixed, events>>
cvars == <<driver, wantsPod, node, ext, held, step, attempts, mem, memExt, cnDeleter,
           place, lost, spoiled, cnFaults, cnMishaps>>
allVars == <<part, svars, vars, cvars>>

DriversInit ==
    /\ S!Init /\ Init /\ C!Init
    /\ part \in {"static", "metastatic", "containers"}
    /\ part # "containers" => driver = "kubernetes" /\ ~wantsPod

DriversNext ==
    \/ part = "static" /\ S!Next /\ UNCHANGED <<part, vars, cvars>>
    \/ part = "metastatic" /\ Next /\ UNCHANGED <<part, svars, cvars>>
    \/ part = "containers" /\ C!Next /\ UNCHANGED <<part, svars, vars>>

(* The fairness of the three, each in the behaviours that are about it *)
LiveSpec ==
    /\ DriversInit /\ [][DriversNext]_allVars
    /\ \A t \in S!Threads : WF_svars(part = "static" /\ S!ThreadStep(t))
    /\ \A n \in S!Nodes : /\ WF_svars(part = "static" /\ S!GiveBack(n))
                           /\ SF_svars(part = "static" /\ S!NotifyLocks(n))
    /\ \A g \in Gens : WF_vars(part = "metastatic" /\ PerformInit(g))
    /\ \A n \in EndNodes :
           /\ WF_vars(part = "metastatic" /\ StateMachine(n))
           /\ WF_vars(part = "metastatic" /\ ZuulUses(n))
           /\ WF_vars(part = "metastatic" /\ Deletion(n))
    /\ \A b \in Backing :
           /\ WF_vars(part = "metastatic" /\ Nodepool(b))
           /\ WF_vars(part = "metastatic" /\ ReleaseBackingNode(b))
    /\ WF_cvars(part = "containers" /\ C!LaunchStep)
    /\ WF_cvars(part = "containers" /\ C!StartDelete)
    /\ WF_cvars(part = "containers" /\ (C!CleanupNode \/ C!AwaitDeletion \/ C!DeleteNode))
    /\ WF_cvars(part = "containers" /\ C!CleanupLeaked /\ place' # place)
    /\ WF_cvars(part = "containers" /\ C!Terminated)

TypesOK == S!TypeOK /\ TypeOK /\ C!TypeOK
RegistrationFits == S!RegistrationFits
ExactlyRegistered == part = "static" => S!ExactlyRegistered
ReadyNodeUsable == C!ReadyNodeUsable
NothingLeft == part = "containers" => C!NothingLeft
=============================================================================
