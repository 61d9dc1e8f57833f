------------------------------ MODULE TreeCache -------------------------------
(***************************************************************************)
(* NodepoolTreeCache and NodeCache (zk/zookeeper.py): a recursive watch of *)
(* the tree of nodes, a thread that takes each event and asks ZooKeeper    *)
(* for the data, a thread that plays the answers back into the cached      *)
(* objects, and the walk over the tree that starts the cache again after   *)
(* each connection.  The objects in the cache are the ones that launchers  *)
(* lock, and a locked object is not updated.                               *)
(*                                                                         *)
(* Of a node's data the model keeps which of its versions it is (the mzxid *)
(* of the code); a node's id is never used again.  Blank is the znode that *)
(* comes back without data when a lock is taken below a deleted node.      *)
(***************************************************************************)
EXTENDS Integers, FiniteSets, Sequences

CONSTANTS
    Ids,            \* node ids
    MaxVersions,    \* bound: writes of each node
    MaxUpsets       \* bound: locks taken and connections lost, together

VARIABLES
    (* ZooKeeper *)
    state,          \* of each node: "unborn", "data", "gone" or "blank"
    version,        \* of its data
    contender,      \* who holds its lock: "nobody", "me" or "other"
    (* the connection of this process *)
    conn,           \* "up", "suspended" or "lost"
    watch,          \* the server has the recursive watch of this session
    (* the cache *)
    start,          \* _start(): "spawned", "root", "walk" or "idle"
    todo, seen,     \* _walkTree(): ids still to visit, paths visited
    stop,           \* _stop_workers
    ready,          \* _ready
    events,         \* _event_queue
    playback,       \* _playback_queue, with what was fetched
    paths,          \* _cached_paths
    entry,          \* of each id: "unseen", "cached" or "dropped" in _cached_objects
    data, stat,     \* of the cached object: version of its contents, mzxid
    contenders,     \* lock_contenders of the cached object
    (* a thread that locks nodes it found in the cache *)
    pc,             \* for each id: "idle", "taken", "set", "held", "released", "stuck"
    own,            \* its object is the one in the cache
    upsets          \* counts up to MaxUpsets

zkVars == <<state, version, contender>>
connVars == <<conn, watch>>
startVars == <<start, todo, seen, stop, ready>>
cacheVars == <<paths, entry, data, stat, contenders>>
threadVars == <<pc, own>>
vars == <<zkVars, connVars, startVars, events, playback, cacheVars, threadVars, upsets>>

Forgotten == -1     \* as NodeView has it
Blank == 0
Missing == -1       \* NoNodeError
Failed == -2        \* any other exception of the fetch
NotFetched == -3

NodePath(n) == <<n, "node">>
LockPath(n, c) == <<n, c>>
IsNode(p) == p[2] = "node"

Event(type, path) == [type |-> type, path |-> path]

Init ==
    /\ state \in [Ids -> {"unborn", "data"}]
    /\ version = [n \in Ids |-> IF state[n] = "data" THEN 1 ELSE 0]
    /\ contender = [n \in Ids |-> "nobody"]
    /\ conn = "up" /\ watch = FALSE
    /\ start = "spawned" /\ todo = {} /\ seen = {} /\ stop = FALSE /\ ready = FALSE
    /\ events = <<>> /\ playback = <<>>
    /\ paths = {}
    /\ entry = [n \in Ids |-> "unseen"]
    /\ data = [n \in Ids |-> 0] /\ stat = [n \in Ids |-> 0]
    /\ contenders = [n \in Ids |-> {}]
    /\ pc = [n \in Ids |-> "idle"] /\ own = [n \in Ids |-> FALSE]
    /\ upsets = 0

(* _cacheListener: the server tells a session that watches *)
Notify(evs) == events' = IF watch THEN events \o evs ELSE events

(***************************************************************************)
(* Other clients: launchers, Zuul                                          *)
(***************************************************************************)
Others == UNCHANGED <<connVars, startVars, playback, cacheVars, threadVars>>

CreateNode(n) ==
    /\ state[n] = "unborn"
    /\ state' = [state EXCEPT ![n] = "data"]
    /\ version' = [version EXCEPT ![n] = 1]
    /\ Notify(<<Event("created", NodePath(n))>>)
    /\ Others /\ UNCHANGED <<contender, upsets>>

OtherLocks(n) ==
    /\ state[n] = "data" /\ contender[n] = "nobody" /\ upsets < MaxUpsets
    /\ contender' = [contender EXCEPT ![n] = "other"]
    /\ upsets' = upsets + 1
    /\ Notify(<<Event("created", LockPath(n, "other"))>>)
    /\ Others /\ UNCHANGED <<state, version>>

OtherStores(n) ==
    /\ contender[n] = "other" /\ version[n] < MaxVersions
    /\ version' = [version EXCEPT ![n] = @ + 1]
    /\ Notify(<<Event("changed", NodePath(n))>>)
    /\ Others /\ UNCHANGED <<state, contender, upsets>>

OtherUnlocks(n) ==
    /\ contender[n] = "other"
    /\ contender' = [contender EXCEPT ![n] = "nobody"]
    /\ Notify(<<Event("deleted", LockPath(n, "other"))>>)
    /\ Others /\ UNCHANGED <<state, version, upsets>>

\* deleteNode of the lock's holder; deleteRawNode of a znode without data
DeletesNode(n) ==
    /\ \/ contender[n] = "other"
       \/ state[n] = "blank" /\ contender[n] = "nobody"
    /\ state' = [state EXCEPT ![n] = "gone"]
    /\ contender' = [contender EXCEPT ![n] = "nobody"]
    /\ Notify(IF contender[n] = "other"
              THEN <<Event("deleted", LockPath(n, "other")), Event("deleted", NodePath(n))>>
              ELSE <<Event("deleted", NodePath(n))>>)
    /\ Others /\ UNCHANGED <<version, upsets>>

(***************************************************************************)
(* The connection                                                          *)
(***************************************************************************)
\* A walk that is under way raises, and is spawned again
Disconnect ==
    /\ conn = "up" /\ upsets < MaxUpsets
    /\ conn' = "suspended" /\ watch' = FALSE /\ upsets' = upsets + 1
    /\ start' = IF start = "root" \/ todo # {} THEN "spawned" ELSE start
    /\ todo' = {} /\ seen' = {}
    /\ UNCHANGED <<zkVars, stop, ready, events, playback, cacheVars, threadVars>>

\* KazooState.LOST; the locks of this session are gone with it
Expire ==
    /\ conn = "suspended"
    /\ conn' = "lost"
    /\ contender' = [n \in Ids |-> IF contender[n] = "me" THEN "nobody" ELSE contender[n]]
    /\ ready' = FALSE /\ stop' = TRUE
    /\ UNCHANGED <<state, version, watch, start, todo, seen, events, playback,
                   cacheVars, threadVars, upsets>>

Reconnect ==
    /\ conn # "up"
    /\ conn' = "up" /\ start' = "spawned"
    /\ UNCHANGED <<zkVars, watch, todo, seen, stop, ready, events, playback,
                   cacheVars, threadVars, upsets>>

(***************************************************************************)
(* _start and _walkTree                                                    *)
(***************************************************************************)
\* The workers have stopped: what they had not done yet is dropped
StartCache ==
    /\ start = "spawned" /\ conn = "up"
    /\ ready' = FALSE /\ stop' = FALSE
    /\ events' = <<>> /\ playback' = <<>>
    /\ watch' = TRUE /\ start' = "root" /\ seen' = {}
    /\ UNCHANGED <<zkVars, conn, todo, cacheVars, threadVars, upsets>>

WalkRoot ==
    /\ start = "root"
    /\ todo' = {n \in Ids : state[n] \in {"data", "blank"}}
    /\ start' = "walk"
    /\ UNCHANGED <<zkVars, connVars, seen, stop, ready, events, playback, cacheVars,
                   threadVars, upsets>>

\* The path of a node, and those of who is at its lock
WalkNode(n) ==
    /\ n \in todo
    /\ LET found == IF contender[n] = "nobody" THEN <<NodePath(n)>>
                    ELSE <<NodePath(n), LockPath(n, contender[n])>>
       IN  /\ events' = events \o [i \in DOMAIN found |-> Event("none", found[i])]
           /\ seen' = seen \cup {found[i] : i \in DOMAIN found}
    /\ todo' = todo \ {n}
    /\ UNCHANGED <<zkVars, connVars, start, stop, ready, playback, cacheVars, threadVars,
                   upsets>>

\* Mutant: paths that are gone get no event
WalkEnd_KeepsLostPaths ==
    /\ start = "walk" /\ todo = {}
    /\ ready' = TRUE /\ start' = "idle" /\ seen' = {}
    /\ UNCHANGED <<zkVars, connVars, todo, stop, events, playback, cacheVars,
                   threadVars, upsets>>

\* The orders in which a set can be gone through
Orders(S) == {s \in [1 .. Cardinality(S) -> S] : S = {s[i] : i \in 1 .. Cardinality(S)}}

\* An event for each cached path that the walk did not find.  The cache is
\* ready when these are queued, not when they are played back.
WalkEnd ==
    /\ start = "walk" /\ todo = {}
    /\ \E lost \in Orders(paths \ seen) :
           events' = events \o [i \in DOMAIN lost |-> Event("none", lost[i])]
    /\ ready' = TRUE /\ start' = "idle" /\ seen' = {}
    /\ UNCHANGED <<zkVars, connVars, todo, stop, playback, cacheVars, threadVars,
                   upsets>>

(***************************************************************************)
(* The workers                                                             *)
(***************************************************************************)
Fetched(ev) ==
    LET n == ev.path[1]
        asks == IF IsNode(ev.path) THEN ev.type # "deleted" ELSE ev.type = "none"
        there == IF IsNode(ev.path) THEN state[n] \in {"data", "blank"}
                                    ELSE contender[n] = ev.path[2]
    IN  IF ~asks THEN NotFetched
        ELSE IF conn # "up" THEN Failed
        ELSE IF ~there THEN Missing
        ELSE IF IsNode(ev.path) /\ state[n] = "data" THEN version[n] ELSE Blank

EventWorker ==
    /\ ~stop /\ events # <<>>
    /\ events' = Tail(events)
    /\ playback' = Append(playback, [event |-> Head(events), got |-> Fetched(Head(events))])
    /\ UNCHANGED <<zkVars, connVars, startVars, cacheVars, threadVars, upsets>>

\* A thread of this process has set the lock attribute of the cached object
ObjectLocked(n) == own[n] /\ pc[n] \in {"set", "held", "released", "stuck"}

\* preCacheHook: a contender appears or goes
PlayContender(n, c, exists) ==
    /\ contenders' = IF entry[n] # "cached" THEN contenders
                     ELSE [contenders EXCEPT ![n] = IF exists THEN @ \cup {c} ELSE @ \ {c}]
    /\ UNCHANGED <<entry, data, stat, own>>

\* Mutant: what was fetched before the lock is taken for news
NotNewer_Never(n, v) == FALSE

NotNewer(n, v) == v <= stat[n]

PlayNode(n, v) ==
    \/ /\ v > 0 /\ entry[n] = "cached" /\ (NotNewer(n, v) \/ ObjectLocked(n))
       /\ UNCHANGED <<entry, data, stat, contenders, own>>
    \/ /\ v > 0 /\ entry[n] = "cached" /\ ~NotNewer(n, v) /\ ~ObjectLocked(n)
       /\ data' = [data EXCEPT ![n] = v] /\ stat' = [stat EXCEPT ![n] = v]
       /\ UNCHANGED <<entry, contenders, own>>
    \/ /\ v > 0 /\ entry[n] # "cached"
       /\ entry' = [entry EXCEPT ![n] = "cached"]
       /\ data' = [data EXCEPT ![n] = v] /\ stat' = [stat EXCEPT ![n] = v]
       /\ UNCHANGED <<contenders, own>>
    \/ /\ v <= 0
       /\ entry' = [entry EXCEPT ![n] = IF @ = "cached" THEN "dropped" ELSE @]
       /\ contenders' = [contenders EXCEPT ![n] = {}]
       /\ own' = [own EXCEPT ![n] = FALSE]
       /\ UNCHANGED <<data, stat>>

PlaybackWorker ==
    /\ ~stop /\ playback # <<>>
    /\ playback' = Tail(playback)
    /\ LET ev == Head(playback).event
           got == Head(playback).got
           exists == ev.type \in {"created", "changed"} \/ (ev.type = "none" /\ got # Missing)
       IN  IF got = Failed
           THEN UNCHANGED <<cacheVars, own>>
           ELSE /\ paths' = IF exists THEN paths \cup {ev.path} ELSE paths \ {ev.path}
                /\ IF IsNode(ev.path)
                   THEN PlayNode(ev.path[1], got)
                   ELSE PlayContender(ev.path[1], ev.path[2], exists)
    /\ UNCHANGED <<zkVars, connVars, startVars, events, pc, upsets>>

(***************************************************************************)
(* lockNode, storeNode and unlockNode of a cached object                   *)
(***************************************************************************)
Thread == UNCHANGED <<connVars, startVars, playback, paths, entry, contenders>>

\* lock.acquire() makes the path of the lock, and with it that of the node
TakeLock(n) ==
    /\ pc[n] = "idle" /\ entry[n] = "cached" /\ contender[n] = "nobody"
    /\ conn = "up" /\ upsets < MaxUpsets
    /\ state' = [state EXCEPT ![n] = IF @ = "gone" THEN "blank" ELSE @]
    /\ contender' = [contender EXCEPT ![n] = "me"]
    /\ pc' = [pc EXCEPT ![n] = "taken"] /\ own' = [own EXCEPT ![n] = TRUE]
    /\ upsets' = upsets + 1
    /\ Notify(IF state[n] = "gone"
              THEN <<Event("created", NodePath(n)), Event("created", LockPath(n, "me"))>>
              ELSE <<Event("created", LockPath(n, "me"))>>)
    /\ Thread /\ UNCHANGED <<version, data, stat>>

SetLock(n) ==
    /\ pc[n] = "taken"
    /\ pc' = [pc EXCEPT ![n] = "set"]
    /\ Thread /\ UNCHANGED <<zkVars, events, data, stat, own, upsets>>

\* Without the znode get() raises, and the lock attribute stays.  What a
\* Blank znode has is no state, which every reader passes over: data keeps
\* the version that the object had before.
UpdateNode(n) ==
    /\ pc[n] = "set" /\ conn = "up"
    /\ pc' = [pc EXCEPT ![n] = IF state[n] = "gone" THEN "stuck" ELSE "held"]
    /\ IF own[n] /\ state[n] = "data"
       THEN data' = [data EXCEPT ![n] = version[n]] /\ stat' = [stat EXCEPT ![n] = version[n]]
       ELSE UNCHANGED <<data, stat>>
    /\ Thread /\ UNCHANGED <<zkVars, events, own, upsets>>

\* The object's stat stays as it was
StoreNode(n) ==
    /\ pc[n] = "held" /\ conn = "up" /\ state[n] = "data" /\ version[n] < MaxVersions
    /\ version' = [version EXCEPT ![n] = @ + 1]
    /\ data' = IF own[n] THEN [data EXCEPT ![n] = version[n] + 1] ELSE data
    /\ Notify(<<Event("changed", NodePath(n))>>)
    /\ Thread /\ UNCHANGED <<state, contender, stat, pc, own, upsets>>

\* node.lock.release(), and after it node.lock = None
ReleaseLock(n) ==
    /\ pc[n] = "held" /\ conn = "up"
    /\ contender' = [contender EXCEPT ![n] = IF @ = "me" THEN "nobody" ELSE @]
    /\ pc' = [pc EXCEPT ![n] = "released"]
    /\ Notify(IF contender[n] = "me" THEN <<Event("deleted", LockPath(n, "me"))>> ELSE <<>>)
    /\ Thread /\ UNCHANGED <<state, version, data, stat, own, upsets>>

ClearLock(n) ==
    /\ pc[n] = "released"
    /\ pc' = [pc EXCEPT ![n] = "idle"] /\ own' = [own EXCEPT ![n] = FALSE]
    /\ Thread /\ UNCHANGED <<zkVars, events, data, stat, upsets>>

ThreadGoesOn(n) == SetLock(n) \/ UpdateNode(n) \/ ReleaseLock(n) \/ ClearLock(n)

Next ==
    \/ \E n \in Ids : \/ CreateNode(n) \/ OtherLocks(n) \/ OtherStores(n) \/ OtherUnlocks(n)
                      \/ DeletesNode(n)
                      \/ WalkNode(n)
                      \/ TakeLock(n) \/ StoreNode(n) \/ ThreadGoesOn(n)
    \/ Disconnect \/ Expire \/ Reconnect
    \/ StartCache \/ WalkRoot \/ WalkEnd
    \/ EventWorker \/ PlaybackWorker

Spec == Init /\ [][Next]_vars

(* The threads of the cache run, and one that has a lock goes on *)
LiveSpec ==
    /\ Spec
    /\ WF_vars(StartCache) /\ WF_vars(WalkRoot) /\ WF_vars(WalkEnd)
    /\ WF_vars(\E n \in Ids : WalkNode(n))
    /\ WF_vars(EventWorker) /\ WF_vars(PlaybackWorker)
    /\ \A n \in Ids : WF_vars(ThreadGoesOn(n))

-----------------------------------------------------------------------------
TypeOK ==
    /\ state \in [Ids -> {"unborn", "data", "gone", "blank"}]
    /\ version \in [Ids -> 0 .. MaxVersions]
    /\ contender \in [Ids -> {"nobody", "me", "other"}]
    /\ conn \in {"up", "suspended", "lost"} /\ watch \in BOOLEAN
    /\ start \in {"spawned", "root", "walk", "idle"} /\ todo \subseteq Ids
    /\ stop \in BOOLEAN /\ ready \in BOOLEAN
    /\ entry \in [Ids -> {"unseen", "cached", "dropped"}]
    /\ data \in [Ids -> 0 .. MaxVersions] /\ stat \in [Ids -> 0 .. MaxVersions]
    /\ contenders \in [Ids -> SUBSET {"me", "other"}]
    /\ pc \in [Ids -> {"idle", "taken", "set", "held", "released", "stuck"}]
    /\ own \in [Ids -> BOOLEAN]

\* The nodes as readers of the cache are promised them
Lives == [n \in Ids |-> IF state[n] = "blank" THEN "gone" ELSE state[n]]
Shown == [n \in Ids |-> IF entry[n] = "unseen" THEN 0
                        ELSE IF entry[n] = "dropped" THEN Forgotten ELSE data[n]]

View == INSTANCE NodeView WITH state <- Lives, view <- Shown, learned <- stat

(* What the cache takes from ZooKeeper only goes forward and only to what  *)
(* was written, a node that was shown stays until it is deleted, and then  *)
(* it does not come back, whatever the workers, reconnections and locks do *)
(* (_handlePlayback).                                                      *)
ViewSpec == View!Spec

Agrees(n) ==
    IF state[n] = "data" THEN entry[n] = "cached" /\ data[n] = version[n]
                         ELSE entry[n] # "cached"

(* Once the connection stays, a node that this process has never locked is *)
(* in the cache as it is in ZooKeeper, nodes that were deleted are gone    *)
(* from it, and it knows who has the lock of each (_start, _walkTree,      *)
(* preCacheHook).                                                          *)
CatchesUp ==
    <>[](conn = "up") => \A n \in Ids :
        /\ [](pc[n] = "idle") => <>[]Agrees(n)
        /\ <>[](entry[n] = "cached" =>
                   state[n] = "data" /\ contenders[n] = {contender[n]} \ {"nobody"})
=============================================================================
