---------------------------- MODULE StaticNodes ----------------------------
(***************************************************************************)
(* The static driver: one host of its configuration, which is registered   *)
(* as a READY node once per parallel job it may run (a slot).  A node that *)
(* was used is deleted and registered anew.  Threads that register and     *)
(* deregister: the periodic cleanup, the deleter of each node, and the one *)
(* that loads a new configuration and starts a new provider for it, while  *)
(* threads of the old one may go on.                                       *)
(*                                                                         *)
(* What a node takes from the configuration besides its slot is left out,  *)
(* and with it updateNodeFromConfig's work; nodes are read as they are.    *)
(***************************************************************************)
EXTENDS Integers, FiniteSets, SequencesExt

CONSTANTS
    Configs,     \* max-parallel-jobs of the host, by configuration; 0: no such host
    MaxNodes,    \* bound: nodes at a time
    MaxEvents,   \* bound: attempts to allocate a node to a request, outages of
                 \* the host and crashes of the launcher
    None

VARIABLES
    state, slot, \* of each node's znode
    conf,        \* the configuration whose provider is in use
    idle,        \* providers (by their configuration) that were told to be idle
    table,       \* _node_slots of each provider
    locker,      \* who holds the _register_lock of each provider
    at, mgr,  \* of each thread: where it is, for which provider, at which slot
    reachable,   \* of the host
    mixed,       \* history: a provider became idle while a thread of it registered
    events

vars == <<state, slot, conf, idle, table, locker, at, mgr, reachable, mixed, events>>

Nodes == 1..MaxNodes
Threads == Nodes \cup {-1, 0}   \* a node's deleter; those of the cleanup and of the configuration
cleanup == 0
config == -1
Providers == 1..Len(Configs)
New == 0        \* in a slot that has just been filled

TypeOK ==
    /\ state \in [Nodes -> {"ready", "held", "used", "deleting", "deleted", "gone"}]
    /\ slot \in [Nodes -> Nat]
    /\ conf \in Providers /\ idle \subseteq Providers
    /\ table \in [Providers -> Seq(Nodes \cup {None, New})]
    /\ locker \in [Providers -> Threads \cup {None}]
    /\ at \in [Threads -> {"rest", "start", "wait", "slots", "failed", "delete", "remove",
                           "notify", "register"}]
    /\ mgr \in [Threads -> Providers]
    /\ reachable \in BOOLEAN /\ mixed \in BOOLEAN
    /\ events \in 0..MaxEvents

(* A launcher starts, with nothing registered. *)
Init ==
    /\ state = [n \in Nodes |-> "gone"] /\ slot = [n \in Nodes |-> 0]
    /\ conf = 1 /\ idle = {}
    /\ table = [m \in Providers |-> <<>>] /\ locker = [m \in Providers |-> None]
    /\ at = [t \in Threads |-> IF t = config THEN "start" ELSE "rest"]
    /\ mgr = [t \in Threads |-> 1]
    /\ reachable = TRUE /\ mixed = FALSE
    /\ events = 0

bounds == <<reachable, mixed, events>>
Live == {n \in Nodes : state[n] \in {"ready", "held", "used"}}
----------------------------------------------------------------------------
(* What the threads have in common *)

\* How many members of X, or nodes or slots in it, are before x
Rank(x, X) == Cardinality({y \in X : y < x})

(* getRegisteredNodes: nodes in the slots they name; the others in slots   *)
(* that are free, and then beyond the last one.  BUILDING and DELETING     *)
(* nodes do not count, while DELETED ones do.                              *)
Seen == {n \in Nodes : state[n] \in {"ready", "held", "used", "deleted"}}

Slotted(m) == [s \in 1..Configs[m] |->
    LET here == {n \in Seen : slot[n] = s - 1}
    IN IF here = {} THEN None ELSE CHOOSE n \in here : \A o \in here : n <= o]

Free(m) == {s \in 1..Configs[m] : Slotted(m)[s] = None}
Others(m) == Seen \ ToSet(Slotted(m))

Registered(m) ==
    LET k == Configs[m]
        free == Cardinality(Free(m))
        others == Cardinality(Others(m))
        rank(s) == IF s > k THEN free + s - k - 1 ELSE Rank(s, Free(m))
    IN [s \in 1..(IF others > free THEN k + others - free ELSE k) |->
           IF s <= k /\ s \notin Free(m) THEN Slotted(m)[s]
           ELSE IF rank(s) >= others THEN None
           ELSE CHOOSE n \in Others(m) : Rank(n, Others(m)) = rank(s)]

(* An id that nothing refers to *)
Fresh(n) ==
    /\ state[n] = "gone" /\ at[n] = "rest"
    /\ \A m \in Providers : n \notin ToSet(table[m])

\* The host answers, and there is an id left.
MayRegister == reachable /\ \E n \in Nodes : Fresh(n)

(* registerNodeFromConfig *)
Register(s) ==
    LET n == CHOOSE x \in Nodes : Fresh(x) /\ \A y \in Nodes : Fresh(y) => x <= y
    IN state' = [state EXCEPT ![n] = "ready"] /\ slot' = [slot EXCEPT ![n] = s]

(* deregisterNode: only a READY node that nobody has locked *)
Deregistered(S) == [n \in Nodes |-> IF n \in S /\ state[n] = "ready" THEN "deleting" ELSE state[n]]

Goto(t, s) == at' = [at EXCEPT ![t] = s]

Release(t) ==
    /\ Goto(t, "rest") /\ mgr' = [mgr EXCEPT ![t] = 1]
    /\ table' = [table EXCEPT ![mgr[t]] = <<>>]
    /\ locker' = [m \in Providers |-> IF locker[m] = t THEN None ELSE locker[m]]
----------------------------------------------------------------------------
(* syncNodeCount, for the cleanup and for a provider that starts *)

\* Nothing runs until the launcher's first provider has started.
Up == at[config] = "rest" \/ mgr[config] # conf

(* cleanupLeakedResources of the provider in use *)
CleanupStarts ==
    /\ Up /\ at[cleanup] = "rest" /\ conf \notin idle /\ Configs[conf] > 0
    /\ Goto(cleanup, "wait") /\ mgr' = [mgr EXCEPT ![cleanup] = conf]
    /\ UNCHANGED <<state, slot, conf, idle, table, locker, bounds>>

CleanupLocks ==
    /\ at[cleanup] = "wait" /\ locker[mgr[cleanup]] = None
    /\ locker' = [locker EXCEPT ![mgr[cleanup]] = cleanup]
    /\ table' = [table EXCEPT ![mgr[cleanup]] = Registered(mgr[cleanup])]
    /\ Goto(cleanup, "slots")
    /\ UNCHANGED <<state, slot, conf, idle, mgr, bounds>>

(* An empty slot is filled; the check of a host that cannot be reached     *)
(* raises, which ends the pass.                                            *)
SyncSlot(t) ==
    LET m == mgr[t] IN
    /\ at[t] = "slots"
    /\ \E p \in DOMAIN table[m] :
          /\ table[m][p] = None /\ \A q \in 1..(p - 1) : table[m][q] # None
          /\ \/ /\ MayRegister /\ Register(p - 1)
                /\ table' = [table EXCEPT ![m][p] = New] /\ UNCHANGED at
             \/ ~MayRegister /\ Goto(t, "failed") /\ UNCHANGED <<state, slot, table>>
    /\ UNCHANGED <<conf, idle, locker, mgr, bounds>>

SlotsFilled(t) == at[t] = "slots" /\ None \notin ToSet(table[mgr[t]])

\* Mutant: nodes beyond the last slot stay.
Excess_Kept(m) == {}

\* Nodes beyond the last slot; they are deregistered when the slots are filled.
Excess(m) == ToSet(SubSeq(table[m], Configs[m] + 1, Len(table[m])))

CleanupEnds ==
    /\ \/ SlotsFilled(cleanup) /\ state' = Deregistered(Excess(mgr[cleanup]))
       \/ at[cleanup] = "failed" /\ UNCHANGED state
    /\ Release(cleanup)
    /\ UNCHANGED <<slot, conf, idle, bounds>>
----------------------------------------------------------------------------
(* The life of a node *)

\* Its deleter ends, and with it what is left of the node.
Forget(n) == Goto(n, "rest") /\ mgr' = [mgr EXCEPT ![n] = 1] /\ slot' = [slot EXCEPT ![n] = 0]

(* A request gets it: checkReusableNode finds the host alive. *)
Take(n) ==
    /\ Up /\ state[n] = "ready" /\ Configs[conf] > 0 /\ reachable
    /\ events < MaxEvents /\ events' = events + 1
    /\ state' = [state EXCEPT ![n] = "held"]
    /\ UNCHANGED <<slot, conf, idle, table, locker, at, mgr, reachable, mixed>>

(* checkNodeLiveness does not, and deregisters it. *)
TakeFails(n) ==
    /\ Up /\ state[n] = "ready" /\ Configs[conf] > 0 /\ ~reachable
    /\ events < MaxEvents /\ events' = events + 1
    /\ state' = Deregistered({n})
    /\ UNCHANGED <<slot, conf, idle, table, locker, at, mgr, reachable, mixed>>

(* It is given back, unused or used. *)
GiveBack(n) ==
    /\ state[n] = "held"
    /\ \E s \in {"ready", "used"} : state' = [state EXCEPT ![n] = s]
    /\ UNCHANGED <<slot, conf, idle, table, locker, at, mgr, bounds>>

(* DeletedNodeWorker, which gives the provider in use to a NodeDeleter; or *)
(* removes what a deletion has left.                                       *)
StartDelete(n) ==
    /\ Up /\ at[n] = "rest"
    /\ \/ /\ state[n] \in {"used", "deleting"} /\ state' = [state EXCEPT ![n] = "deleting"]
          /\ Goto(n, "delete") /\ mgr' = [mgr EXCEPT ![n] = conf] /\ UNCHANGED slot
       \/ state[n] = "deleted" /\ state' = [state EXCEPT ![n] = "gone"] /\ Forget(n)
    /\ UNCHANGED <<conf, idle, table, locker, bounds>>

(* deleteNode: state DELETED, then the znode goes. *)
DeleteNode(n) ==
    /\ \/ at[n] = "delete" /\ state' = [state EXCEPT ![n] = "deleted"] /\ Goto(n, "remove")
       \/ at[n] = "remove" /\ state' = [state EXCEPT ![n] = "gone"] /\ Goto(n, "notify")
    /\ UNCHANGED <<slot, conf, idle, table, locker, mgr, bounds>>

(* nodeDeletedNotification: the host is still configured. *)
Notify(n) ==
    /\ at[n] = "notify"
    /\ IF mgr[n] \in idle \/ Configs[mgr[n]] = 0
       THEN Forget(n)
       ELSE Goto(n, "wait") /\ UNCHANGED <<slot, mgr>>
    /\ UNCHANGED <<state, conf, idle, table, locker, bounds>>

\* Mutant: whether the slot has been filled meanwhile is not looked at.
NotifyLocks_Filled(n) ==
    LET m == mgr[n]  tab == Registered(m) IN
    /\ at[n] = "wait" /\ locker[m] = None
    /\ IF slot[n] < Configs[m]
       THEN /\ Goto(n, "register") /\ locker' = [locker EXCEPT ![m] = n]
            /\ table' = [table EXCEPT ![m] = tab]
            /\ UNCHANGED <<slot, mgr>>
       ELSE Forget(n) /\ UNCHANGED <<table, locker>>
    /\ UNCHANGED <<state, conf, idle, bounds>>

(* With the lock: the slot exists, and nobody has filled it meanwhile. *)
NotifyLocks(n) ==
    LET m == mgr[n]  tab == Registered(m) IN
    /\ at[n] = "wait" /\ locker[m] = None
    /\ IF slot[n] < Configs[m] /\ tab[slot[n] + 1] = None
       THEN /\ Goto(n, "register") /\ locker' = [locker EXCEPT ![m] = n]
            /\ table' = [table EXCEPT ![m] = tab]
            /\ UNCHANGED <<slot, mgr>>
       ELSE Forget(n) /\ UNCHANGED <<table, locker>>
    /\ UNCHANGED <<state, conf, idle, bounds>>

Reregister(n) ==
    /\ at[n] = "register"
    /\ IF MayRegister THEN Register(slot[n]) ELSE UNCHANGED <<state, slot>>
    /\ Release(n)
    /\ UNCHANGED <<conf, idle, bounds>>
----------------------------------------------------------------------------
(* Configuration, failures *)

(* A thread past its check of _idle *)
Working(t) == t # config /\ at[t] \in {"wait", "slots", "failed", "register"}

(* ProviderManager.reconfigure: the old provider is to be idle ... *)
Reconfigure ==
    /\ at[config] = "rest" /\ conf < Len(Configs)
    /\ Goto(config, "start") /\ mgr' = [mgr EXCEPT ![config] = conf + 1]
    /\ idle' = idle \cup {conf}
    /\ mixed' = (mixed \/ \E t \in Threads : Working(t))
    /\ UNCHANGED <<state, slot, conf, table, locker, reachable, events>>

(* ... while the new one starts ... *)
StartProvider ==
    /\ at[config] = "start"
    /\ table' = [table EXCEPT ![mgr[config]] = Registered(mgr[config])]
    /\ Goto(config, IF Configs[mgr[config]] = 0 THEN "failed" ELSE "slots")
    /\ UNCHANGED <<state, slot, conf, idle, locker, mgr, bounds>>

(* ... and takes its place.  Nodes of a host that is not configured, or    *)
(* that could not be checked, are deregistered before that.                *)
ProviderStarted ==
    LET m == mgr[config]
        known == {n \in Nodes : n \in ToSet(table[m])}
    IN
    /\ \/ SlotsFilled(config) /\ (reachable \/ known = {})
          /\ state' = Deregistered(Excess(m))
       \/ SlotsFilled(config) /\ ~reachable /\ state' = Deregistered(known)
       \/ at[config] = "failed" /\ state' = Deregistered(known)
    /\ conf' = m
    /\ Release(config)
    /\ UNCHANGED <<slot, idle, bounds>>

HostDown ==
    /\ reachable /\ events < MaxEvents
    /\ reachable' = FALSE /\ events' = events + 1
    /\ UNCHANGED <<state, slot, conf, idle, table, locker, at, mgr, mixed>>

HostUp ==
    /\ ~reachable /\ reachable' = TRUE
    /\ UNCHANGED <<state, slot, conf, idle, table, locker, at, mgr, mixed, events>>

(* The launcher dies and is started again, with the newest configuration. *)
Restart ==
    /\ events < MaxEvents /\ events' = events + 1
    /\ at' = [t \in Threads |-> IF t = config THEN "start" ELSE "rest"]
    /\ conf' = (IF at[config] = "rest" THEN conf ELSE mgr[config])
    /\ mgr' = [t \in Threads |-> IF t = config THEN conf' ELSE 1] /\ idle' = 1..(conf' - 1)
    /\ table' = [m \in Providers |-> <<>>] /\ locker' = [m \in Providers |-> None]
    /\ UNCHANGED <<state, slot, reachable, mixed>>

ThreadStep(t) ==
    IF t = cleanup THEN CleanupStarts \/ CleanupLocks \/ SyncSlot(t) \/ CleanupEnds
    ELSE IF t = config THEN StartProvider \/ SyncSlot(t) \/ ProviderStarted
    ELSE StartDelete(t) \/ DeleteNode(t) \/ Notify(t) \/ NotifyLocks(t) \/ Reregister(t)

Next ==
    \/ \E t \in Threads : ThreadStep(t)
    \/ \E n \in Nodes : Take(n) \/ TakeFails(n) \/ GiveBack(n)
    \/ Reconfigure \/ HostDown \/ HostUp \/ Restart

Spec == Init /\ [][Next]_vars

(* Threads go on, and get a lock that is free again and again; a node that *)
(* is held is given back.                                                  *)
Fairness ==
    /\ \A t \in Threads : WF_vars(ThreadStep(t))
    /\ \A n \in Nodes : WF_vars(GiveBack(n)) /\ SF_vars(NotifyLocks(n))

LiveSpec == Spec /\ Fairness
----------------------------------------------------------------------------
(* A registration never takes the host past the parallel jobs that the     *)
(* configuration in question allows, whatever has become of its slots      *)
(* meanwhile; unless threads of two providers have met, which "should      *)
(* cease to run" what is not safe on both, and may be past that check.     *)
RegistrationFits ==
    [][Live' \ Live # {} /\ ~mixed =>
        \E t \in Threads : at[t] \in {"slots", "register"}
                           /\ Cardinality(Live') <= Configs[mgr[t]]]_vars

(* In the end, when its nodes are left alone and it can be reached, the    *)
(* host is registered exactly as often as the configuration says: slots    *)
(* that a deletion, a crash, an outage or a change of configuration left   *)
(* empty are filled, and what two providers registered twice goes.         *)
ExactlyRegistered ==
    <>[](reachable => Cardinality({n \in Nodes : state[n] = "ready"}) = Configs[conf])
=============================================================================
