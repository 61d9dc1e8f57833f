---------------------------- MODULE TreeCacheProofs ----------------------------
(***************************************************************************)
(* That TreeCache implements NodeView, for any nodes, any number of writes,*)
(* locks and lost connections.                                             *)
(*                                                                         *)
(* The cache takes an answer that is newer than what it has, or drops the  *)
(* node for one that says it is gone.  What makes that right is what may   *)
(* be in the two queues: an answer is never ahead of ZooKeeper, an answer  *)
(* that a node is gone is not followed by one that it is there, and events *)
(* are only about nodes that have been created.                            *)
(***************************************************************************)
EXTENDS TreeCache, FiniteSetTheorems, SequenceTheorems, TLAPS

Gone == {"gone", "blank"}
Paths == Ids \X {"node", "me", "other"}
AllEvents == [type : {"none", "created", "changed", "deleted"}, path : Paths]

\* A path, an event and an answer that may be there as ZooKeeper is now
PathFits(p) == IsNode(p) => state[p[1]] # "unborn"
EventFits(ev) == PathFits(ev.path) /\ (IsNode(ev.path) /\ ev.type = "deleted" => state[ev.path[1]] \in Gone)
Says(item, n) == IsNode(item.event.path) /\ item.event.path[1] = n
SaysGone(item, n) == Says(item, n) /\ item.got <= 0 /\ item.got # Failed
AnswerFits(item) ==
    /\ EventFits(item.event)
    /\ \A n \in Ids : /\ Says(item, n) => item.got <= version[n]
                      /\ SaysGone(item, n) => state[n] \in Gone

FittingPaths == {p \in Paths : PathFits(p)}
FittingEvents == {ev \in AllEvents : EventFits(ev)}
FittingAnswers == {item \in [event : AllEvents, got : Int] : AnswerFits(item)}

NodesTyped ==
    /\ state \in [Ids -> {"unborn", "data", "gone", "blank"}]
    /\ version \in [Ids -> Nat]
    /\ contender \in [Ids -> {"nobody", "me", "other"}]
    /\ entry \in [Ids -> {"unseen", "cached", "dropped"}]
    /\ data \in [Ids -> Nat] /\ stat \in [Ids -> Nat]
    /\ pc \in [Ids -> {"idle", "taken", "set", "held", "released", "stuck"}]
    /\ own \in [Ids -> BOOLEAN]

NodesFit ==
    \A n \in Ids :
        /\ state[n] = "unborn" => version[n] = 0
        /\ state[n] = "data" => version[n] > 0
        /\ contender[n] = "other" => state[n] = "data"
        /\ entry[n] = "unseen" => stat[n] = 0
        /\ entry[n] = "cached" => stat[n] > 0 /\ stat[n] <= data[n] /\ data[n] <= version[n]
        /\ entry[n] = "dropped" => state[n] \in Gone
        /\ entry[n] # "unseen" => state[n] # "unborn"
        /\ own[n] => entry[n] = "cached"

QueuesFit ==
    /\ todo \subseteq {n \in Ids : state[n] # "unborn"}
    /\ paths \subseteq FittingPaths /\ IsFiniteSet(paths)
    /\ events \in Seq(FittingEvents)
    /\ playback \in Seq(FittingAnswers)

NoReturn ==
    \A n \in Ids, j \in 1 .. Len(playback) :
        Says(playback[j], n) =>
            /\ entry[n] = "dropped" => playback[j].got <= 0
            /\ \A i \in 1 .. j - 1 : SaysGone(playback[i], n) => playback[j].got <= 0

IInv == NodesTyped /\ NodesFit /\ QueuesFit /\ NoReturn

-----------------------------------------------------------------------------
\* What ZooKeeper keeps of a node only goes on
Forward ==
    \A n \in Ids : /\ state[n] # "unborn" => state'[n] # "unborn"
                   /\ state[n] \in Gone => state'[n] \in Gone
                   /\ version[n] <= version'[n]

(* What fits stays fitting.                                                *)
LEMMA ForwardKeeps ==
    ASSUME NodesTyped, NodesTyped', Forward
    PROVE  /\ FittingPaths \subseteq FittingPaths'
           /\ FittingEvents \subseteq FittingEvents'
           /\ FittingAnswers \subseteq FittingAnswers'
<1> USE DEF Forward, PathFits, Paths
<1>1. FittingPaths \subseteq FittingPaths'
  BY DEF FittingPaths
<1>2. ASSUME NEW ev \in AllEvents, EventFits(ev) PROVE EventFits(ev)'
  BY <1>2 DEF EventFits, AllEvents
<1>3. FittingEvents \subseteq FittingEvents'
  BY <1>2 DEF FittingEvents
<1>4. ASSUME NEW item \in [event : AllEvents, got : Int], AnswerFits(item) PROVE AnswerFits(item)'
  <2>1. EventFits(item.event)'
    BY <1>2, <1>4 DEF AnswerFits
  <2>2. ASSUME NEW n \in Ids, Says(item, n) PROVE item.got <= version'[n]
    BY <1>4, <2>2 DEF AnswerFits, NodesTyped
  <2>3. ASSUME NEW n \in Ids, SaysGone(item, n) PROVE state'[n] \in Gone
    BY <1>4, <2>3 DEF AnswerFits
  <2>4. QED
    BY <2>1, <2>2, <2>3 DEF AnswerFits, Says, SaysGone
<1>5. FittingAnswers \subseteq FittingAnswers'
  BY <1>4 DEF FittingAnswers
<1>6. QED
  BY <1>1, <1>3, <1>5

(* A step of ZooKeeper's, of other clients or of the thread that locks may *)
(* add events that fit, and leaves the rest of the queues alone.           *)
LEMMA QueuesKept ==
    ASSUME IInv, NodesTyped', Forward, NEW evs \in Seq(FittingEvents'),
           events' \in {events, events \o evs},
           todo' \subseteq todo, UNCHANGED <<paths, playback>>
    PROVE  QueuesFit'
<1> USE DEF IInv, QueuesFit
<1>1. /\ FittingPaths \subseteq FittingPaths'
      /\ FittingEvents \subseteq FittingEvents'
      /\ FittingAnswers \subseteq FittingAnswers'
  BY ForwardKeeps
<1>2. events \in Seq(FittingEvents')
  BY <1>1, SeqMonotonic
<1>3. events' \in Seq(FittingEvents')
  BY <1>2, ConcatProperties
<1>4. playback' \in Seq(FittingAnswers')
  BY <1>1, SeqMonotonic
<1>5. todo' \subseteq {n \in Ids : state'[n] # "unborn"}
  BY DEF Forward
<1>6. QED
  BY <1>1, <1>3, <1>4, <1>5

(* As long as neither the answers nor the entries change, no answer comes  *)
(* to bring a node back.                                                   *)
LEMMA NoReturnKept ==
    ASSUME NoReturn, UNCHANGED <<playback, entry>>
    PROVE  NoReturn'
  BY DEF NoReturn, Says, SaysGone, IsNode

-----------------------------------------------------------------------------
(* The invariant holds at first: the queues are empty.                     *)
LEMMA InitIInv == Init => IInv
<1> SUFFICES ASSUME Init PROVE IInv
  OBVIOUS
<1>1. NodesTyped /\ NodesFit
  BY DEF Init, NodesTyped, NodesFit, Gone
<1>2. QueuesFit
  BY FS_EmptySet, EmptySeq DEF Init, QueuesFit
<1>3. NoReturn
  BY DEF Init, NoReturn
<1>4. QED
  BY <1>1, <1>2, <1>3 DEF IInv

\* What another client or this process does to a node in ZooKeeper
NodeAction(n) ==
    \/ CreateNode(n) \/ OtherLocks(n) \/ OtherStores(n) \/ OtherUnlocks(n) \/ DeletesNode(n)
    \/ TakeLock(n) \/ SetLock(n) \/ UpdateNode(n) \/ StoreNode(n) \/ ReleaseLock(n) \/ ClearLock(n)

(* Each of them leaves the nodes fitting, and they only go forward.        *)
LEMMA NodeActionNodes ==
    ASSUME IInv, NEW n \in Ids, NodeAction(n)
    PROVE  NodesTyped' /\ NodesFit' /\ Forward
<1> USE DEF IInv, NodesTyped, NodesFit, Forward, Gone, Others, Thread,
            connVars, startVars, cacheVars, threadVars, zkVars
<1>1. CASE CreateNode(n)
  BY <1>1 DEF CreateNode
<1>2. CASE OtherLocks(n)
  BY <1>2 DEF OtherLocks
<1>3. CASE OtherStores(n)
  BY <1>3 DEF OtherStores
<1>4. CASE OtherUnlocks(n)
  BY <1>4 DEF OtherUnlocks
<1>5. CASE DeletesNode(n)
  BY <1>5 DEF DeletesNode
<1>6. CASE TakeLock(n)
  BY <1>6 DEF TakeLock
<1>7. CASE SetLock(n)
  BY <1>7 DEF SetLock
<1>8. CASE UpdateNode(n)
  BY <1>8 DEF UpdateNode
<1>9. CASE StoreNode(n)
  BY <1>9 DEF StoreNode
<1>10. CASE ReleaseLock(n)
  BY <1>10 DEF ReleaseLock
<1>11. CASE ClearLock(n)
  BY <1>11 DEF ClearLock
<1>12. QED
  BY <1>1, <1>2, <1>3, <1>4, <1>5, <1>6, <1>7, <1>8, <1>9, <1>10, <1>11 DEF NodeAction

(* The events they cause fit.                                              *)
LEMMA NodeActionEvents ==
    ASSUME IInv, NEW n \in Ids, NodeAction(n)
    PROVE  \E evs \in Seq(FittingEvents') : events' \in {events, events \o evs}
<1> DEFINE N(type) == Event(type, NodePath(n))
           K(type, c) == Event(type, LockPath(n, c))
<1>1. NodesTyped' /\ NodesFit'
  BY NodeActionNodes
<1>2. \A type \in {"none", "created", "changed", "deleted"} :
         N(type) \in AllEvents /\ \A c \in {"me", "other"} : K(type, c) \in AllEvents
  BY DEF AllEvents, Paths, Event, NodePath, LockPath
<1>3. \A type \in {"created", "changed", "deleted"}, c \in {"me", "other"} :
         K(type, c) \in FittingEvents'
  BY <1>2 DEF FittingEvents, EventFits, PathFits, IsNode, Event, LockPath
<1>4. ASSUME NEW type \in {"created", "changed"}, state'[n] # "unborn"
      PROVE  N(type) \in FittingEvents'
  BY <1>2, <1>4 DEF FittingEvents, EventFits, PathFits, IsNode, Event, NodePath
<1>5. ASSUME state'[n] \in Gone PROVE N("deleted") \in FittingEvents'
  BY <1>2, <1>5 DEF FittingEvents, EventFits, PathFits, IsNode, Event, NodePath, Gone
<1>6. ASSUME NEW evs \in Seq(FittingEvents'), Notify(evs)
      PROVE  \E e \in Seq(FittingEvents') : events' \in {events, events \o e}
  BY <1>6 DEF Notify
<1>7. <<>> \in Seq(FittingEvents')
  BY EmptySeq
<1> USE DEF IInv, NodesTyped, NodesFit, Gone
<1>8. CASE CreateNode(n)
  <2>1. <<N("created")>> \in Seq(FittingEvents')
    BY <1>4, <1>8 DEF CreateNode
  <2>2. QED
    BY <1>6, <1>8, <2>1 DEF CreateNode
<1>9. CASE OtherLocks(n)
  <2>1. <<K("created", "other")>> \in Seq(FittingEvents')
    BY <1>3
  <2>2. QED
    BY <1>6, <1>9, <2>1 DEF OtherLocks
<1>10. CASE OtherStores(n)
  <2>1. <<N("changed")>> \in Seq(FittingEvents')
    BY <1>4, <1>10 DEF OtherStores
  <2>2. QED
    BY <1>6, <1>10, <2>1 DEF OtherStores
<1>11. CASE OtherUnlocks(n)
  <2>1. <<K("deleted", "other")>> \in Seq(FittingEvents')
    BY <1>3
  <2>2. QED
    BY <1>6, <1>11, <2>1 DEF OtherUnlocks
<1>12. CASE DeletesNode(n)
  <2>1. N("deleted") \in FittingEvents'
    BY <1>5, <1>12 DEF DeletesNode
  <2>2. <<K("deleted", "other"), N("deleted")>> \in Seq(FittingEvents')
    BY <1>3, <2>1
  <2>3. <<N("deleted")>> \in Seq(FittingEvents')
    BY <2>1
  <2>4. QED
    BY <1>6, <1>12, <2>2, <2>3 DEF DeletesNode
<1>13. CASE TakeLock(n)
  <2>1. <<K("created", "me")>> \in Seq(FittingEvents')
    BY <1>3
  <2>2. CASE state[n] = "gone"
    <3>1. N("created") \in FittingEvents'
      BY <1>4, <1>13, <2>2 DEF TakeLock
    <3>2. <<N("created"), K("created", "me")>> \in Seq(FittingEvents')
      BY <1>3, <3>1
    <3>3. QED
      BY <1>6, <1>13, <2>2, <3>2 DEF TakeLock
  <2>3. CASE state[n] # "gone"
    BY <1>6, <1>13, <2>1, <2>3 DEF TakeLock
  <2>4. QED
    BY <2>2, <2>3
<1>14. CASE StoreNode(n)
  <2>1. <<N("changed")>> \in Seq(FittingEvents')
    BY <1>4, <1>14 DEF StoreNode
  <2>2. QED
    BY <1>6, <1>14, <2>1 DEF StoreNode
<1>15. CASE ReleaseLock(n)
  <2>1. <<K("deleted", "me")>> \in Seq(FittingEvents')
    BY <1>3
  <2>2. QED
    BY <1>6, <1>7, <1>15, <2>1 DEF ReleaseLock
<1>16. CASE SetLock(n) \/ UpdateNode(n) \/ ClearLock(n)
  BY <1>7, <1>16 DEF SetLock, UpdateNode, ClearLock
<1>17. QED
  BY <1>8, <1>9, <1>10, <1>11, <1>12, <1>13, <1>14, <1>15, <1>16 DEF NodeAction

LEMMA NodeActionIInv ==
    ASSUME IInv, NEW n \in Ids, NodeAction(n)
    PROVE  IInv'
<1>1. NodesTyped' /\ NodesFit' /\ Forward
  BY NodeActionNodes
<1>2. UNCHANGED <<todo, paths, playback, entry>>
  BY DEF NodeAction, CreateNode, OtherLocks, OtherStores, OtherUnlocks, DeletesNode, TakeLock,
         SetLock, UpdateNode, StoreNode, ReleaseLock, ClearLock, Others, Thread, startVars, cacheVars
<1>3. PICK evs \in Seq(FittingEvents') : events' \in {events, events \o evs}
  BY NodeActionEvents
<1>4. QueuesFit'
  BY <1>1, <1>2, <1>3, QueuesKept
<1>5. NoReturn'
  BY <1>2, NoReturnKept DEF IInv
<1>6. QED
  BY <1>1, <1>4, <1>5 DEF IInv

(* The connection and the start of the cache touch no node and no entry.   *)
LEMMA ConnectionIInv ==
    ASSUME IInv, Disconnect \/ Expire \/ Reconnect \/ WalkRoot \/ StartCache
    PROVE  IInv'
<1> USE DEF IInv
<1>1. UNCHANGED <<state, version, cacheVars, threadVars>>
  BY DEF Disconnect, Expire, Reconnect, WalkRoot, StartCache, zkVars
<1>2. NodesTyped' /\ NodesFit' /\ Forward
  BY <1>1 DEF NodesTyped, NodesFit, Forward, Gone, cacheVars, threadVars, zkVars,
              Disconnect, Expire, Reconnect, WalkRoot, StartCache
<1>3. CASE Disconnect \/ Expire \/ Reconnect
  <2>1. events' = events /\ todo' \subseteq todo /\ UNCHANGED <<paths, playback, entry>>
    BY <1>3 DEF Disconnect, Expire, Reconnect, cacheVars
  <2>2. QueuesFit'
    BY <1>2, <2>1, QueuesKept, EmptySeq
  <2>3. NoReturn'
    BY <2>1, NoReturnKept
  <2>4. QED
    BY <1>2, <2>2, <2>3
<1>4. CASE WalkRoot
  <2>1. todo' \subseteq {n \in Ids : state'[n] # "unborn"}
    BY <1>4 DEF WalkRoot, zkVars
  <2>2. /\ FittingPaths \subseteq FittingPaths'
        /\ FittingEvents \subseteq FittingEvents'
        /\ FittingAnswers \subseteq FittingAnswers'
    BY <1>2, ForwardKeeps
  <2>3. UNCHANGED <<events, playback, paths, entry>>
    BY <1>4 DEF WalkRoot, cacheVars
  <2>4. events' \in Seq(FittingEvents') /\ playback' \in Seq(FittingAnswers')
    BY <2>2, <2>3, SeqMonotonic DEF QueuesFit
  <2>5. QueuesFit'
    BY <2>1, <2>2, <2>3, <2>4 DEF QueuesFit
  <2>6. NoReturn'
    BY <2>3, NoReturnKept
  <2>7. QED
    BY <1>2, <2>5, <2>6
<1>5. CASE StartCache
  <2>1. events' = <<>> /\ playback' = <<>> /\ UNCHANGED <<todo, paths, entry>>
    BY <1>5 DEF StartCache, cacheVars
  <2>2. FittingPaths \subseteq FittingPaths'
    BY <1>2, ForwardKeeps
  <2>3. QueuesFit'
    BY <1>2, <2>1, <2>2, EmptySeq DEF QueuesFit, Forward
  <2>4. NoReturn'
    BY <2>1 DEF NoReturn
  <2>5. QED
    BY <1>2, <2>3, <2>4
<1>6. QED
  BY <1>3, <1>4, <1>5

(* The walk only finds nodes that there are, and asks for paths that there *)
(* were.                                                                   *)
LEMMA WalkIInv ==
    ASSUME IInv, WalkEnd \/ \E n \in Ids : WalkNode(n)
    PROVE  IInv'
<1> USE DEF IInv
<1>1. /\ UNCHANGED <<state, version, contender, playback, cacheVars, threadVars>>
      /\ todo' \subseteq todo
  BY DEF WalkEnd, WalkNode, zkVars
<1>2. NodesTyped' /\ NodesFit' /\ Forward
  BY <1>1 DEF NodesTyped, NodesFit, Forward, Gone, cacheVars, threadVars
<1>3. \A p \in FittingPaths : Event("none", p) \in FittingEvents
  BY DEF FittingPaths, FittingEvents, AllEvents, EventFits, Event
<1>4. FittingEvents \subseteq FittingEvents'
  BY <1>2, ForwardKeeps
<1>5. ASSUME NEW found \in Seq(FittingPaths),
             events' = events \o [i \in DOMAIN found |-> Event("none", found[i])]
      PROVE  IInv'
  <2>1. [i \in DOMAIN found |-> Event("none", found[i])] \in Seq(FittingEvents)
    BY <1>3
  <2>2. [i \in DOMAIN found |-> Event("none", found[i])] \in Seq(FittingEvents')
    BY <1>4, <2>1, SeqMonotonic
  <2>3. QueuesFit'
    BY <1>1, <1>2, <1>5, <2>2, QueuesKept DEF cacheVars
  <2>4. NoReturn'
    BY <1>1, NoReturnKept DEF cacheVars
  <2>5. QED
    BY <1>2, <2>3, <2>4
<1>6. CASE WalkEnd
  <2>1. IsFiniteSet(paths \ seen)
    BY FS_Difference DEF QueuesFit
  <2>2. Cardinality(paths \ seen) \in Nat
    BY <2>1, FS_CardinalityType
  <2>3. PICK lost \in Orders(paths \ seen) :
           events' = events \o [i \in DOMAIN lost |-> Event("none", lost[i])]
    BY <1>6 DEF WalkEnd
  <2>4. lost \in Seq(FittingPaths)
    <3>1. lost \in [1 .. Cardinality(paths \ seen) -> paths \ seen]
      BY <2>3 DEF Orders
    <3>2. lost \in [1 .. Cardinality(paths \ seen) -> FittingPaths]
      BY <3>1 DEF QueuesFit
    <3>3. \A k \in Nat : \A f \in [1 .. k -> FittingPaths] : f \in Seq(FittingPaths)
      BY SeqDef
    <3>4. QED
      BY <2>2, <3>2, <3>3
  <2>5. QED
    BY <1>5, <2>3, <2>4
<1>7. ASSUME NEW n \in Ids, WalkNode(n) PROVE IInv'
  <2>1. NodePath(n) \in FittingPaths
    BY <1>7 DEF WalkNode, QueuesFit, FittingPaths, PathFits, Paths, NodePath, IsNode
  <2>2. \A c \in {"me", "other"} : LockPath(n, c) \in FittingPaths
    BY DEF FittingPaths, PathFits, Paths, LockPath, IsNode
  <2>3. contender[n] \in {"nobody", "me", "other"}
    BY DEF NodesTyped
  <2>4. <<NodePath(n)>> \in Seq(FittingPaths)
    BY <2>1
  <2>5. contender[n] # "nobody" => <<NodePath(n), LockPath(n, contender[n])>> \in Seq(FittingPaths)
    BY <2>1, <2>2, <2>3
  <2>6. PICK found \in Seq(FittingPaths) :
           events' = events \o [i \in DOMAIN found |-> Event("none", found[i])]
    BY <1>7, <2>4, <2>5 DEF WalkNode
  <2>7. QED
    BY <1>5, <2>6
<1>8. QED
  BY <1>6, <1>7

(* An answer is as ZooKeeper is when it is fetched.                        *)
LEMMA FetchedFits ==
    ASSUME IInv, NEW ev \in FittingEvents, NEW item, item = [event |-> ev, got |-> Fetched(ev)]
    PROVE  /\ item \in FittingAnswers
           /\ \A n \in Ids : Says(item, n) /\ state[n] \in Gone => item.got <= 0
<1> USE DEF IInv, NodesTyped
<1>1. ev \in AllEvents /\ EventFits(ev) /\ ev.path[1] \in Ids
  BY DEF FittingEvents, AllEvents, Paths
<1>2. Fetched(ev) \in Int
  BY <1>1 DEF Fetched, NotFetched, Failed, Blank, Missing
<1>3. ASSUME IsNode(ev.path)
      PROVE  /\ Fetched(ev) <= version[ev.path[1]]
             /\ Fetched(ev) <= 0 /\ Fetched(ev) # Failed => state[ev.path[1]] \in Gone
             /\ state[ev.path[1]] \in Gone => Fetched(ev) <= 0
  <2>1. PICK n \in Ids : n = ev.path[1]
    BY <1>1
  <2>2. version[n] \in Nat /\ state[n] \in {"data", "gone", "blank"} /\ (state[n] = "data" => version[n] > 0)
    BY <1>1, <1>3, <2>1 DEF EventFits, PathFits, NodesFit
  <2>3. CASE ev.type = "deleted"
    <3>1. Fetched(ev) = -3
      BY <2>3 DEF Fetched, NotFetched
    <3>2. state[n] \in Gone
      BY <1>1, <1>3, <2>1, <2>3 DEF EventFits
    <3>3. QED
      BY <2>1, <2>2, <3>1, <3>2
  <2>4. CASE ev.type # "deleted" /\ conn # "up"
    <3>1. Fetched(ev) = -2
      BY <1>3, <2>4 DEF Fetched, Failed
    <3>2. QED
      BY <2>1, <2>2, <3>1 DEF Failed
  <2>5. CASE ev.type # "deleted" /\ conn = "up" /\ state[n] = "data"
    <3>1. Fetched(ev) = version[n]
      BY <1>3, <2>1, <2>5 DEF Fetched
    <3>2. QED
      BY <2>1, <2>2, <2>5, <3>1 DEF Gone
  <2>6. CASE ev.type # "deleted" /\ conn = "up" /\ state[n] # "data"
    <3>1. Fetched(ev) \in {0, -1}
      BY <1>3, <2>1, <2>6 DEF Fetched, Blank, Missing
    <3>2. QED
      BY <2>1, <2>2, <2>6, <3>1 DEF Gone
  <2>7. QED
    BY <2>3, <2>4, <2>5, <2>6
<1>4. item.event = ev /\ item.got = Fetched(ev) /\ item \in [event : AllEvents, got : Int]
  BY <1>1, <1>2
<1>5. \A n \in Ids : Says(item, n) => IsNode(ev.path) /\ n = ev.path[1]
  BY <1>4 DEF Says
<1>6. AnswerFits(item)
  BY <1>1, <1>3, <1>4, <1>5 DEF AnswerFits, SaysGone
<1>7. QED
  BY <1>3, <1>4, <1>5, <1>6 DEF FittingAnswers

LEMMA EventWorkerIInv == ASSUME IInv, EventWorker PROVE IInv'
<1> USE DEF IInv
<1> DEFINE item == [event |-> Head(events), got |-> Fetched(Head(events))]
<1>1. /\ UNCHANGED <<state, version, contender, todo, paths, entry, data, stat, pc, own>>
      /\ events # <<>> /\ events' = Tail(events) /\ playback' = Append(playback, item)
  BY DEF EventWorker, zkVars, startVars, cacheVars, threadVars
<1>2. NodesTyped' /\ NodesFit' /\ Forward
  BY <1>1 DEF NodesTyped, NodesFit, Forward, Gone
<1>3. Head(events) \in FittingEvents /\ Tail(events) \in Seq(FittingEvents)
  BY <1>1, HeadTailProperties DEF QueuesFit
<1>4. /\ item \in FittingAnswers
      /\ \A n \in Ids : Says(item, n) /\ state[n] \in Gone => item.got <= 0
  BY <1>3, FetchedFits
<1>5. /\ Append(playback, item) \in Seq(FittingAnswers)
      /\ Len(Append(playback, item)) = Len(playback) + 1
      /\ \A i \in 1 .. Len(playback) : Append(playback, item)[i] = playback[i]
      /\ Append(playback, item)[Len(playback) + 1] = item
  BY <1>4, AppendProperties DEF QueuesFit
<1>6. QueuesFit'
  <2>1. /\ FittingPaths \subseteq FittingPaths'
        /\ FittingEvents \subseteq FittingEvents'
        /\ FittingAnswers \subseteq FittingAnswers'
    BY <1>2, ForwardKeeps
  <2>2. events' \in Seq(FittingEvents') /\ playback' \in Seq(FittingAnswers')
    BY <1>1, <1>3, <1>5, <2>1, SeqMonotonic
  <2>3. QED
    BY <1>1, <2>1, <2>2 DEF QueuesFit
<1>7. NoReturn'
  <2> SUFFICES ASSUME NEW n \in Ids, NEW j \in 1 .. Len(playback'), Says(playback'[j], n)
               PROVE  /\ entry'[n] = "dropped" => playback'[j].got <= 0
                      /\ \A i \in 1 .. j - 1 : SaysGone(playback'[i], n) => playback'[j].got <= 0
    BY DEF NoReturn, Says, SaysGone
  <2>1. Len(playback) \in Nat
    BY LenProperties DEF QueuesFit
  <2>2. CASE j <= Len(playback)
    BY <1>1, <1>5, <2>1, <2>2 DEF NoReturn
  <2>3. CASE j = Len(playback) + 1
    <3>1. playback'[j] = item
      BY <1>1, <1>5, <2>3
    <3>2. ASSUME NEW i \in 1 .. j - 1, SaysGone(playback'[i], n) PROVE state[n] \in Gone
      <4>1. i \in 1 .. Len(playback) /\ playback'[i] = playback[i]
        BY <1>1, <1>5, <2>1, <2>3
      <4>2. playback[i] \in FittingAnswers
        BY <4>1, ElementOfSeq DEF QueuesFit
      <4>3. QED
        BY <3>2, <4>1, <4>2 DEF FittingAnswers, AnswerFits
    <3>3. entry'[n] = "dropped" => state[n] \in Gone
      BY <1>1 DEF NodesFit
    <3>4. QED
      BY <1>4, <3>1, <3>2, <3>3
  <2>4. QED
    BY <1>1, <1>5, <2>1, <2>2, <2>3
<1>8. QED
  BY <1>2, <1>6, <1>7

(* An answer is played back: what it says fits, and the answers after it   *)
(* do not bring back the node that it says is gone.                        *)
LEMMA PlaybackWorkerIInv == ASSUME IInv, PlaybackWorker PROVE IInv'
<1> USE DEF IInv
<1> DEFINE item == Head(playback)
           path == item.event.path
<1>1. /\ UNCHANGED <<state, version, contender, todo, events, pc>>
      /\ playback # <<>> /\ playback' = Tail(playback)
  BY DEF PlaybackWorker, zkVars, startVars
<1>2. /\ item \in FittingAnswers /\ Tail(playback) \in Seq(FittingAnswers)
      /\ Len(playback) \in Nat \ {0} /\ Len(Tail(playback)) = Len(playback) - 1
      /\ \A i \in 1 .. Len(Tail(playback)) : Tail(playback)[i] = playback[i + 1]
      /\ item = playback[1]
  BY <1>1, HeadTailProperties, EmptySeq, LenProperties DEF QueuesFit
<1>3. path \in FittingPaths /\ path[1] \in Ids /\ item.got \in Int /\ AnswerFits(item)
  BY <1>2 DEF FittingAnswers, FittingPaths, AnswerFits, EventFits, AllEvents, Paths
<1>4. PICK n \in Ids : n = path[1]
  BY <1>3
<1>5. \/ UNCHANGED <<cacheVars, own>>
      \/ /\ paths' \in {paths \cup {path}, paths \ {path}}
         /\ \/ UNCHANGED <<entry, data, stat, own>>
            \/ IsNode(path) /\ item.got # Failed /\ PlayNode(n, item.got)
  BY <1>4 DEF PlaybackWorker, PlayContender
<1>6. \/ UNCHANGED <<entry, data, stat, own>>
      \/ IsNode(path) /\ item.got # Failed /\ PlayNode(n, item.got)
  BY <1>5 DEF cacheVars
<1>7. IsNode(path) => Says(item, n) /\ state[n] # "unborn" /\ item.got <= version[n]
  BY <1>3, <1>4 DEF Says, AnswerFits, EventFits, PathFits
<1>8. IsNode(path) /\ item.got # Failed /\ item.got <= 0 => SaysGone(item, n) /\ state[n] \in Gone
  BY <1>3, <1>7 DEF SaysGone, AnswerFits
<1>9. IsNode(path) /\ entry[n] = "dropped" => item.got <= 0
  BY <1>2, <1>7 DEF NoReturn
<1>10. NodesTyped' /\ NodesFit' /\ Forward
       /\ \A m \in Ids : entry'[m] = "dropped" => entry[m] = "dropped" \/ SaysGone(item, m)
  <2> USE DEF NodesTyped, NodesFit, Forward, Gone
  <2>1. CASE UNCHANGED <<entry, data, stat, own>>
    BY <1>1, <2>1
  <2>2. CASE IsNode(path) /\ item.got # Failed /\ PlayNode(n, item.got)
    <3>1. CASE item.got > 0 /\ entry[n] = "cached"
      <4>1. \/ UNCHANGED <<entry, data, stat, own>>
            \/ /\ item.got > stat[n] /\ UNCHANGED <<entry, own>>
               /\ data' = [data EXCEPT ![n] = item.got] /\ stat' = [stat EXCEPT ![n] = item.got]
        BY <1>3, <2>2, <3>1 DEF PlayNode, NotNewer
      <4>2. item.got \in Nat /\ item.got <= version[n]
        BY <1>3, <1>7, <2>2, <3>1
      <4>3. CASE UNCHANGED <<entry, data, stat, own>>
        BY <1>1, <4>3
      <4>4. CASE /\ item.got > stat[n] /\ UNCHANGED <<entry, own>>
                 /\ data' = [data EXCEPT ![n] = item.got] /\ stat' = [stat EXCEPT ![n] = item.got]
        <5>1. NodesTyped' /\ Forward
          BY <1>1, <4>2, <4>4
        <5>2. NodesFit'
          BY <1>1, <3>1, <4>2, <4>4
        <5>3. QED
          BY <4>4, <5>1, <5>2
      <4>5. QED
        BY <4>1, <4>3, <4>4
    <3>2. CASE item.got > 0 /\ entry[n] # "cached"
      <4>1. entry[n] = "unseen"
        BY <1>3, <1>4, <1>9, <2>2, <3>2
      <4>2. /\ entry' = [entry EXCEPT ![n] = "cached"] /\ own' = own
            /\ data' = [data EXCEPT ![n] = item.got] /\ stat' = [stat EXCEPT ![n] = item.got]
        BY <1>3, <2>2, <3>2 DEF PlayNode
      <4>3. item.got \in Nat /\ item.got <= version[n] /\ state[n] # "unborn" /\ ~own[n]
        BY <1>3, <1>7, <2>2, <3>2
      <4>4. NodesTyped' /\ Forward
        BY <1>1, <4>2, <4>3
      <4>5. NodesFit'
        BY <1>1, <3>2, <4>2, <4>3
      <4>6. QED
        BY <4>2, <4>4, <4>5
    <3>3. CASE item.got <= 0
      <4>1. /\ entry' = [entry EXCEPT ![n] = IF @ = "cached" THEN "dropped" ELSE @]
            /\ own' = [own EXCEPT ![n] = FALSE] /\ UNCHANGED <<data, stat>>
        BY <1>3, <2>2, <3>3 DEF PlayNode
      <4>2. state[n] \in Gone /\ SaysGone(item, n)
        BY <1>8, <2>2, <3>3
      <4>3. QED
        BY <1>1, <4>1, <4>2
    <3>4. QED
      BY <1>3, <3>1, <3>2, <3>3
  <2>3. QED
    BY <1>6, <2>1, <2>2
<1>11. QueuesFit'
  <2>1. /\ FittingPaths \subseteq FittingPaths'
        /\ FittingEvents \subseteq FittingEvents'
        /\ FittingAnswers \subseteq FittingAnswers'
    BY <1>10, ForwardKeeps
  <2>2. events' \in Seq(FittingEvents') /\ playback' \in Seq(FittingAnswers')
    BY <1>1, <1>2, <2>1, SeqMonotonic DEF QueuesFit
  <2>3. paths' \subseteq FittingPaths /\ IsFiniteSet(paths')
    <3>1. paths' \in {paths, paths \cup {path}, paths \ {path}}
      BY <1>5 DEF cacheVars
    <3>2. IsFiniteSet(paths \cup {path}) /\ IsFiniteSet(paths \ {path})
      BY FS_AddElement, FS_RemoveElement DEF QueuesFit
    <3>3. QED
      BY <1>3, <3>1, <3>2 DEF QueuesFit
  <2>4. QED
    BY <1>1, <2>1, <2>2, <2>3 DEF QueuesFit
<1>12. NoReturn'
  <2> SUFFICES ASSUME NEW m \in Ids, NEW j \in 1 .. Len(playback'), Says(playback'[j], m)
               PROVE  /\ entry'[m] = "dropped" => playback'[j].got <= 0
                      /\ \A i \in 1 .. j - 1 : SaysGone(playback'[i], m) => playback'[j].got <= 0
    BY DEF NoReturn, Says, SaysGone
  <2>1. /\ j + 1 \in 1 .. Len(playback) /\ playback'[j] = playback[j + 1]
        /\ \A i \in 1 .. j - 1 : i + 1 \in 1 .. (j + 1) - 1 /\ playback'[i] = playback[i + 1]
    BY <1>1, <1>2
  <2>2. /\ entry[m] = "dropped" => playback'[j].got <= 0
        /\ \A i \in 1 .. (j + 1) - 1 : SaysGone(playback[i], m) => playback'[j].got <= 0
    BY <2>1 DEF NoReturn
  <2>3. 1 \in 1 .. (j + 1) - 1
    BY <2>1
  <2>4. QED
    BY <1>2, <1>10, <2>1, <2>2, <2>3
<1>13. QED
  BY <1>10, <1>11, <1>12

(* Every step keeps the invariant.                                         *)
LEMMA StepIInv == ASSUME IInv, [Next]_vars PROVE IInv'
<1>1. ASSUME UNCHANGED vars PROVE IInv'
  BY <1>1 DEF vars, zkVars, connVars, startVars, cacheVars, threadVars, IInv, NodesTyped, NodesFit,
     QueuesFit, NoReturn, FittingPaths, FittingEvents, FittingAnswers, AnswerFits, EventFits, PathFits
<1>2. ASSUME NEW n \in Ids, NodeAction(n) PROVE IInv'
  BY <1>2, NodeActionIInv
<1>3. Next => \/ \E n \in Ids : NodeAction(n)
              \/ Disconnect \/ Expire \/ Reconnect \/ WalkRoot \/ StartCache
              \/ WalkEnd \/ \E n \in Ids : WalkNode(n)
              \/ EventWorker \/ PlaybackWorker
  BY DEF Next, NodeAction, ThreadGoesOn
<1>4. QED
  BY <1>1, <1>2, <1>3, ConnectionIInv, WalkIInv, EventWorkerIInv, PlaybackWorkerIInv

(* The queues, the entries and the nodes fit together in every state       *)
(* (_handleCacheEvent, _handlePlayback).                                   *)
THEOREM CacheInvariant == Spec => []IInv
  BY InitIInv, StepIInv, PTL DEF Spec

-----------------------------------------------------------------------------
(* No version is beyond the last one that is written: an object has its    *)
(* contents and its stat from an answer or from a write.                   *)
LEMMA VersionsBounded ==
    ASSUME MaxVersions \in Nat \ {0}, IInv, TypeOK, [Next]_vars
    PROVE  \A n \in Ids : /\ version'[n] <= MaxVersions
                          /\ data'[n] <= MaxVersions /\ stat'[n] <= MaxVersions
<1> DEFINE Bounded == \A n \in Ids : /\ version'[n] <= MaxVersions
                                     /\ data'[n] <= MaxVersions /\ stat'[n] <= MaxVersions
<1>1. /\ version \in [Ids -> 0 .. MaxVersions]
      /\ data \in [Ids -> 0 .. MaxVersions] /\ stat \in [Ids -> 0 .. MaxVersions]
  BY DEF TypeOK
<1>2. CASE UNCHANGED <<version, data, stat>>
  BY <1>1, <1>2
<1>3. ASSUME NEW n \in Ids, NodeAction(n) PROVE Bounded
  <2>1. CASE CreateNode(n)
    BY <1>1, <2>1 DEF CreateNode, Others, cacheVars
  <2>2. CASE OtherStores(n)
    BY <1>1, <2>2 DEF OtherStores, Others, cacheVars
  <2>3. CASE StoreNode(n)
    BY <1>1, <2>3 DEF StoreNode
  <2>4. CASE UpdateNode(n)
    <3>1. UNCHANGED version
      BY <2>4 DEF UpdateNode, zkVars
    <3>2. UNCHANGED <<data, stat>> \/ (data' = [data EXCEPT ![n] = version[n]]
                                        /\ stat' = [stat EXCEPT ![n] = version[n]])
      BY <2>4 DEF UpdateNode
    <3> QED BY <1>1, <3>1, <3>2
  <2>5. CASE OtherLocks(n) \/ OtherUnlocks(n) \/ DeletesNode(n)
    BY <1>2, <2>5 DEF OtherLocks, OtherUnlocks, DeletesNode, Others, cacheVars
  <2>6. CASE TakeLock(n) \/ SetLock(n) \/ ReleaseLock(n) \/ ClearLock(n)
    BY <1>2, <2>6 DEF TakeLock, SetLock, ReleaseLock, ClearLock, zkVars
  <2>7. QED
    BY <1>3, <2>1, <2>2, <2>3, <2>4, <2>5, <2>6 DEF NodeAction
<1>4. CASE PlaybackWorker
  <2> DEFINE item == Head(playback)
             n == item.event.path[1]
  <2>1. UNCHANGED version
    BY <1>4 DEF PlaybackWorker, zkVars
  <2>2. UNCHANGED <<data, stat>> \/ (IsNode(item.event.path) /\ item.got > 0
            /\ data' = [data EXCEPT ![n] = item.got] /\ stat' = [stat EXCEPT ![n] = item.got])
    BY <1>4 DEF PlaybackWorker, PlayNode, PlayContender, cacheVars
  <2>3. item \in FittingAnswers
    BY <1>4, HeadTailProperties DEF PlaybackWorker, IInv, QueuesFit
  <2>4. IsNode(item.event.path) => item.got \in Int /\ n \in Ids /\ item.got <= version[n]
    BY <2>3 DEF FittingAnswers, AnswerFits, Says, AllEvents, Paths
  <2> HIDE DEF item, n
  <2>5. CASE /\ IsNode(item.event.path) /\ item.got > 0
             /\ data' = [data EXCEPT ![n] = item.got] /\ stat' = [stat EXCEPT ![n] = item.got]
    BY <1>1, <2>1, <2>4, <2>5
  <2>6. QED
    BY <1>2, <2>1, <2>2, <2>5
<1>5. CASE Disconnect \/ Expire \/ Reconnect \/ StartCache \/ WalkRoot \/ WalkEnd \/ EventWorker
           \/ (\E n \in Ids : WalkNode(n)) \/ UNCHANGED vars
  BY <1>2, <1>5 DEF Disconnect, Expire, Reconnect, StartCache, WalkRoot, WalkEnd, EventWorker,
                    WalkNode, zkVars, cacheVars, vars
<1>6. QED
  BY <1>3, <1>4, <1>5 DEF Next, NodeAction, ThreadGoesOn

(* The variables that the invariant does not speak of *)
LEMMA ControlTypes ==
    ASSUME IInv, TypeOK, [Next]_vars
    PROVE  /\ conn' \in {"up", "suspended", "lost"} /\ watch' \in BOOLEAN
           /\ start' \in {"spawned", "root", "walk", "idle"}
           /\ stop' \in BOOLEAN /\ ready' \in BOOLEAN
           /\ contenders' \in [Ids -> SUBSET {"me", "other"}]
<1> USE DEF TypeOK, connVars, startVars, cacheVars
<1>1. ASSUME NEW n \in Ids, NodeAction(n)
      PROVE  UNCHANGED <<conn, watch, start, stop, ready, contenders>>
  BY <1>1 DEF NodeAction, CreateNode, OtherLocks, OtherStores, OtherUnlocks, DeletesNode, TakeLock,
              SetLock, UpdateNode, StoreNode, ReleaseLock, ClearLock, Others, Thread
<1>2. CASE PlaybackWorker
  <2> DEFINE ev == Head(playback).event
             n == ev.path[1]
             c == ev.path[2]
  <2>1. UNCHANGED <<conn, watch, start, stop, ready>>
    BY <1>2 DEF PlaybackWorker
  <2>2. \/ UNCHANGED contenders
        \/ contenders' = [contenders EXCEPT ![n] = {}]
        \/ ~IsNode(ev.path) /\ contenders' \in {[contenders EXCEPT ![n] = @ \cup {c}],
                                                [contenders EXCEPT ![n] = @ \ {c}]}
    BY <1>2 DEF PlaybackWorker, PlayNode, PlayContender
  <2>3. ev.path \in Paths
    <3>1. Head(playback) \in FittingAnswers
      BY <1>2, HeadTailProperties DEF PlaybackWorker, IInv, QueuesFit
    <3>2. QED
      BY <3>1 DEF FittingAnswers, AllEvents
  <2>4. n \in Ids /\ (~IsNode(ev.path) => c \in {"me", "other"})
    BY <2>3 DEF Paths, IsNode
  <2> HIDE DEF n, c, ev
  <2>5. contenders' \in [Ids -> SUBSET {"me", "other"}]
    BY <2>2, <2>4
  <2>6. QED
    BY <2>1, <2>5
<1>3. CASE Disconnect \/ Expire \/ Reconnect \/ StartCache \/ WalkRoot
  BY <1>3 DEF Disconnect, Expire, Reconnect, StartCache, WalkRoot
<1>4. CASE WalkEnd \/ \E n \in Ids : WalkNode(n)
  <2>1. UNCHANGED <<conn, watch, stop, contenders>> /\ start' \in {start, "idle"}
        /\ (UNCHANGED ready \/ ready' = TRUE)
    BY <1>4 DEF WalkEnd, WalkNode
  <2>2. QED
    BY <2>1
<1>5. CASE EventWorker \/ UNCHANGED vars
  BY <1>5 DEF EventWorker, vars
<1>6. QED
  BY <1>1, <1>2, <1>3, <1>4, <1>5 DEF Next, NodeAction, ThreadGoesOn

(* The variables of the cache keep to their types, and a version that it   *)
(* shows is one that can have been written (_handlePlayback, updateNode).  *)
THEOREM TypeCorrect ==
    ASSUME MaxVersions \in Nat \ {0}
    PROVE  Spec => []TypeOK
<1>1. Init => TypeOK
  <2> SUFFICES ASSUME Init PROVE TypeOK
    OBVIOUS
  <2>1. /\ version \in [Ids -> 0 .. MaxVersions]
        /\ data \in [Ids -> 0 .. MaxVersions] /\ stat \in [Ids -> 0 .. MaxVersions]
    BY DEF Init
  <2>2. state \in [Ids -> {"unborn", "data", "gone", "blank"}]
    BY DEF Init
  <2>3. QED
    BY <2>1, <2>2 DEF Init, TypeOK
<1>2. IInv /\ IInv' /\ TypeOK /\ [Next]_vars => TypeOK'
  <2> SUFFICES ASSUME IInv, IInv', TypeOK, [Next]_vars PROVE TypeOK'
    OBVIOUS
  <2>1. NodesTyped' /\ todo' \subseteq Ids
    BY DEF IInv, QueuesFit
  <2>2. /\ version' \in [Ids -> 0 .. MaxVersions]
        /\ data' \in [Ids -> 0 .. MaxVersions] /\ stat' \in [Ids -> 0 .. MaxVersions]
    BY <2>1, VersionsBounded DEF NodesTyped
  <2>3. QED
    BY <2>1, <2>2, ControlTypes DEF NodesTyped, TypeOK
<1>3. QED
  BY <1>1, <1>2, CacheInvariant, PTL DEF Spec

-----------------------------------------------------------------------------
(* A step that leaves these alone is not seen.                             *)
LEMMA NothingSeen ==
    ASSUME UNCHANGED <<state, version, entry, data, stat>>
    PROVE  UNCHANGED View!vvars
<1>1. Lives' = Lives /\ Shown' = Shown
  BY DEF Lives, Shown
<1>2. QED
  BY <1>1 DEF View!vvars

(* A write of a node is one that the cache may not see yet.                *)
LEMMA WritesRefine ==
    ASSUME IInv, NEW n \in Ids, CreateNode(n) \/ OtherStores(n) \/ StoreNode(n)
    PROVE  View!Write(n)
<1> USE DEF IInv, NodesTyped, NodesFit
<1>1. state[n] \in {"unborn", "data"} /\ state' = [state EXCEPT ![n] = "data"]
  BY DEF CreateNode, OtherStores, StoreNode, Others, Thread
<1>2. version' = [version EXCEPT ![n] = @ + 1]
  BY DEF CreateNode, OtherStores, StoreNode
<1>3. UNCHANGED <<entry, stat>>
  BY DEF CreateNode, OtherStores, StoreNode, Others, Thread, cacheVars
<1>4. data' = data \/ (entry[n] = "cached" /\ data' = [data EXCEPT ![n] = version[n] + 1])
  BY DEF CreateNode, OtherStores, StoreNode, Others, Thread, cacheVars
<1>5. Lives[n] # "gone" /\ Lives' = [Lives EXCEPT ![n] = "data"]
  BY <1>1 DEF Lives
<1>6. \/ Shown' = Shown
      \/ Shown[n] > 0 /\ Shown' = [Shown EXCEPT ![n] = version'[n]]
  <2>1. CASE data' = data
    BY <1>3, <2>1 DEF Shown
  <2>2. CASE entry[n] = "cached" /\ data' = [data EXCEPT ![n] = version[n] + 1]
    <3>1. Shown[n] > 0
      BY <2>2 DEF Shown
    <3>2. version'[n] = version[n] + 1
      BY <1>2
    <3>3. Shown' = [Shown EXCEPT ![n] = version'[n]]
      BY <1>3, <2>2, <3>2 DEF Shown
    <3>4. QED
      BY <3>1, <3>3
  <2>3. QED
    BY <1>4, <2>1, <2>2
<1>7. QED
  BY <1>2, <1>3, <1>5, <1>6 DEF View!Write

(* Deletion by the holder of the lock removes the node; that of a blank    *)
(* znode, which no reader takes for a node, is not seen.                   *)
LEMMA DeletionRefines ==
    ASSUME IInv, NEW n \in Ids, DeletesNode(n)
    PROVE  View!Remove(n) \/ UNCHANGED View!vvars
<1> USE DEF IInv, NodesTyped, NodesFit
<1>1. /\ state[n] \in {"data", "blank"} /\ state' = [state EXCEPT ![n] = "gone"]
      /\ UNCHANGED <<version, entry, data, stat>>
  BY DEF DeletesNode, Others, cacheVars
<1>2. Shown' = Shown
  BY <1>1 DEF Shown
<1>3. CASE state[n] = "data"
  <2>1. Lives[n] = "data" /\ Lives' = [Lives EXCEPT ![n] = "gone"]
    BY <1>1, <1>3 DEF Lives
  <2>2. QED
    BY <1>1, <1>2, <2>1 DEF View!Remove
<1>4. CASE state[n] = "blank"
  <2>1. Lives' = Lives
    BY <1>1, <1>4 DEF Lives
  <2>2. QED
    BY <1>1, <1>2, <2>1 DEF View!vvars
<1>5. QED
  BY <1>1, <1>3, <1>4

(* A newer version that the cache takes is one that was written.           *)
LEMMA TakenIsLearned ==
    ASSUME IInv, NEW n \in Ids, NEW v \in Nat, stat[n] < v, v <= version[n], entry[n] # "dropped",
           entry' = [entry EXCEPT ![n] = "cached"], UNCHANGED <<state, version>>,
           data' = [data EXCEPT ![n] = v], stat' = [stat EXCEPT ![n] = v]
    PROVE  View!Learn(n)
<1> USE DEF IInv, NodesTyped
<1>1. v \in stat[n] + 1 .. version[n]
  OBVIOUS
<1>2. Lives' = Lives
  BY DEF Lives
<1>3. Shown[n] # -1
  BY DEF Shown, Forgotten
<1>4. Shown' = [Shown EXCEPT ![n] = v]
  BY DEF Shown
<1>5. QED
  BY <1>1, <1>2, <1>3, <1>4 DEF View!Learn, View!Forgotten

(* The read after locking learns what there is, if it is new.              *)
LEMMA UpdateRefines ==
    ASSUME IInv, NEW n \in Ids, UpdateNode(n)
    PROVE  View!Learn(n) \/ UNCHANGED View!vvars
<1> USE DEF IInv, NodesTyped, NodesFit
<1>1. UNCHANGED <<state, version, entry>>
  BY DEF UpdateNode, Thread, zkVars
<1>2. \/ UNCHANGED <<data, stat>>
      \/ /\ entry[n] = "cached" /\ entry' = [entry EXCEPT ![n] = "cached"]
         /\ data' = [data EXCEPT ![n] = version[n]] /\ stat' = [stat EXCEPT ![n] = version[n]]
  BY <1>1 DEF UpdateNode
<1>3. CASE UNCHANGED <<data, stat>>
  BY <1>1, <1>3, NothingSeen
<1>4. CASE /\ entry[n] = "cached" /\ entry' = [entry EXCEPT ![n] = "cached"]
           /\ data' = [data EXCEPT ![n] = version[n]] /\ stat' = [stat EXCEPT ![n] = version[n]]
  <2>1. CASE stat[n] < version[n]
    <3>1. version[n] \in Nat /\ version[n] <= version[n] /\ entry[n] # "dropped"
      BY <1>4
    <3>2. QED
      BY <1>1, <1>4, <2>1, <3>1, TakenIsLearned
  <2>2. CASE ~(stat[n] < version[n])
    <3>1. stat[n] = version[n] /\ data[n] = version[n]
      BY <1>4, <2>2
    <3>2. data' = data /\ stat' = stat
      BY <1>4, <3>1
    <3>3. QED
      BY <1>1, <3>2, NothingSeen
  <2>3. QED
    BY <2>1, <2>2
<1>5. QED
  BY <1>2, <1>3, <1>4

(* What the thread does with locks alone is not seen.                      *)
LEMMA LocksUnseen ==
    ASSUME IInv, NEW n \in Ids,
           OtherLocks(n) \/ OtherUnlocks(n) \/ TakeLock(n) \/ SetLock(n) \/ ReleaseLock(n) \/ ClearLock(n)
    PROVE  UNCHANGED View!vvars
<1>1. /\ UNCHANGED <<version, entry, data, stat>>
      /\ state' \in {state, [state EXCEPT ![n] = IF @ = "gone" THEN "blank" ELSE @]}
  BY DEF OtherLocks, OtherUnlocks, TakeLock, SetLock, ReleaseLock, ClearLock, Others, Thread, cacheVars, zkVars
<1>2. Lives' = Lives
  BY <1>1 DEF Lives, IInv, NodesTyped
<1>3. Shown' = Shown
  BY <1>1 DEF Shown
<1>4. QED
  BY <1>1, <1>2, <1>3 DEF View!vvars

(* Playing an answer back learns, forgets or changes nothing.              *)
LEMMA PlaybackRefines ==
    ASSUME IInv, PlaybackWorker
    PROVE  (\E n \in Ids : View!Learn(n) \/ View!Forget(n)) \/ UNCHANGED View!vvars
<1> USE DEF IInv, NodesTyped
<1> DEFINE item == Head(playback)
           path == item.event.path
<1>1. UNCHANGED <<state, version>> /\ playback # <<>>
  BY DEF PlaybackWorker, zkVars
<1>2. item \in FittingAnswers /\ item = playback[1] /\ Len(playback) \in Nat \ {0}
  BY <1>1, HeadTailProperties, EmptySeq, LenProperties DEF QueuesFit
<1>3. path[1] \in Ids /\ item.got \in Int /\ AnswerFits(item)
  BY <1>2 DEF FittingAnswers, AllEvents, Paths
<1>4. PICK n \in Ids : n = path[1]
  BY <1>3
<1>5. \/ UNCHANGED <<entry, data, stat>>
      \/ IsNode(path) /\ item.got # Failed /\ PlayNode(n, item.got)
  BY <1>4 DEF PlaybackWorker, PlayContender, cacheVars
<1>6. Lives' = Lives
  BY <1>1 DEF Lives
<1>7. CASE UNCHANGED <<entry, data, stat>>
  BY <1>1, <1>7, NothingSeen
<1>8. CASE IsNode(path) /\ item.got # Failed /\ PlayNode(n, item.got)
  <2>1. Says(item, n) /\ item.got <= version[n] /\ (entry[n] = "dropped" => item.got <= 0)
    <3>1. Says(item, n)
      BY <1>4, <1>8 DEF Says
    <3>2. item.got <= version[n]
      BY <1>3, <3>1 DEF AnswerFits
    <3>3. 1 \in 1 .. Len(playback)
      BY <1>2
    <3>4. entry[n] = "dropped" => item.got <= 0
      BY <1>2, <3>1, <3>3 DEF NoReturn
    <3>5. QED
      BY <3>1, <3>2, <3>4
  <2>2. CASE item.got > 0
    <3>1. \/ UNCHANGED <<entry, data, stat>>
          \/ /\ entry' = [entry EXCEPT ![n] = "cached"]
             /\ entry[n] = "cached" => item.got > stat[n]
             /\ data' = [data EXCEPT ![n] = item.got] /\ stat' = [stat EXCEPT ![n] = item.got]
      <4>1. CASE entry[n] = "cached"
        <5>1. entry' = [entry EXCEPT ![n] = "cached"]
          BY <1>3, <1>8, <2>2, <4>1 DEF PlayNode
        <5>2. QED
          BY <1>3, <1>8, <2>2, <4>1, <5>1 DEF PlayNode, NotNewer
      <4>2. CASE entry[n] # "cached"
        BY <1>3, <1>8, <2>2, <4>2 DEF PlayNode
      <4>3. QED
        BY <4>1, <4>2
    <3>2. item.got \in Nat /\ entry[n] # "dropped"
      BY <1>3, <2>1, <2>2
    <3>3. entry[n] = "cached" \/ stat[n] = 0
      BY <3>2 DEF NodesFit
    <3>4. CASE UNCHANGED <<entry, data, stat>>
      BY <1>7, <3>4
    <3>5. CASE /\ entry' = [entry EXCEPT ![n] = "cached"]
               /\ entry[n] = "cached" => item.got > stat[n]
               /\ data' = [data EXCEPT ![n] = item.got] /\ stat' = [stat EXCEPT ![n] = item.got]
      <4>1. stat[n] < item.got
        BY <2>2, <3>2, <3>3, <3>5
      <4>2. View!Learn(n)
        BY <1>1, <2>1, <3>2, <3>5, <4>1, TakenIsLearned
      <4>3. QED
        BY <4>2
    <3>6. QED
      BY <3>1, <3>4, <3>5
  <2>3. CASE ~(item.got > 0)
    <3>1. /\ entry' = [entry EXCEPT ![n] = IF @ = "cached" THEN "dropped" ELSE @]
          /\ UNCHANGED <<data, stat>>
      BY <1>3, <1>8, <2>3 DEF PlayNode
    <3>2. state[n] \in Gone
      BY <1>3, <1>8, <2>1, <2>3 DEF SaysGone, AnswerFits
    <3>3. Lives[n] = "gone"
      BY <3>2 DEF Lives, Gone
    <3>4. CASE entry[n] = "cached"
      <4>1. Shown' = [Shown EXCEPT ![n] = -1]
        BY <3>1, <3>4 DEF Shown, Forgotten
      <4>2. View!Forget(n)
        BY <1>1, <1>6, <3>1, <3>3, <4>1 DEF View!Forget, View!Forgotten
      <4>3. QED
        BY <4>2
    <3>5. CASE entry[n] # "cached"
      <4>1. entry' = entry
        BY <3>1, <3>5
      <4>2. QED
        BY <1>7, <3>1, <4>1
    <3>6. QED
      BY <3>4, <3>5
  <2>4. QED
    BY <2>2, <2>3
<1>9. QED
  BY <1>5, <1>7, <1>8

(* Every step of the cache is one of the view, or none.                    *)
LEMMA StepRefines == ASSUME IInv, [Next]_vars PROVE [View!Next]_(View!vvars)
<1>1. ASSUME NEW n \in Ids, NodeAction(n) PROVE [View!Next]_(View!vvars)
  BY <1>1, WritesRefine, DeletionRefines, UpdateRefines, LocksUnseen DEF NodeAction, View!Next
<1>2. CASE \/ UNCHANGED vars \/ Disconnect \/ Expire \/ Reconnect \/ WalkRoot \/ StartCache
           \/ WalkEnd \/ (\E n \in Ids : WalkNode(n)) \/ EventWorker
  <2>1. UNCHANGED <<state, version, entry, data, stat>>
    BY <1>2 DEF vars, Disconnect, Expire, Reconnect, WalkRoot, StartCache, WalkEnd, WalkNode,
                EventWorker, zkVars, cacheVars
  <2>2. QED
    BY <2>1, NothingSeen
<1>3. CASE PlaybackWorker
  BY <1>3, PlaybackRefines DEF View!Next
<1>4. Next => \/ \E n \in Ids : NodeAction(n)
              \/ Disconnect \/ Expire \/ Reconnect \/ WalkRoot \/ StartCache
              \/ WalkEnd \/ \E n \in Ids : WalkNode(n)
              \/ EventWorker \/ PlaybackWorker
  BY DEF Next, NodeAction, ThreadGoesOn
<1>5. QED
  BY <1>1, <1>2, <1>3, <1>4

(* The cache is an implementation of the view: it shows a reader nothing   *)
(* but what was written, keeps what it has shown as long as it exists, and *)
(* brings nothing back (_handlePlayback).                                  *)
THEOREM CacheImplementsView == Spec => ViewSpec
<1>1. Init => View!Init
  <2> SUFFICES ASSUME Init PROVE View!Init
    OBVIOUS
  <2>1. Lives = state /\ Lives \in [Ids -> {"unborn", "data"}]
    BY DEF Init, Lives
  <2>2. version = [n \in Ids |-> IF Lives[n] = "data" THEN 1 ELSE 0]
    BY <2>1 DEF Init
  <2>3. Shown = [n \in Ids |-> 0] /\ stat = [n \in Ids |-> 0]
    BY DEF Init, Shown
  <2>4. QED
    BY <2>1, <2>2, <2>3 DEF View!Init
<1>2. IInv /\ [Next]_vars => [View!Next]_(View!vvars)
  BY StepRefines
<1>3. QED
  BY <1>1, <1>2, CacheInvariant, PTL DEF Spec, ViewSpec, View!Spec
=============================================================================
