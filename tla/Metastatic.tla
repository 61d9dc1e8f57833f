----------------------------- MODULE Metastatic -----------------------------
(***************************************************************************)
(* The metastatic driver: nodes that are slots of other nodes of nodepool, *)
(* its backing nodes.  It asks for a backing node with a node request of   *)
(* its own, keeps it locked beyond its own life, and gives it back when    *)
(* nothing has been in its slots for a while.  Which slots are taken is in *)
(* the adapter's memory, and recovered from the nodes' driver_data.  One   *)
(* label; the state machines' threads take their steps in any order.       *)
(***************************************************************************)
EXTENDS Naturals, FiniteSets

CONSTANTS
    EndNodes,    \* the nodes it may be asked for
    MaxBacking,  \* bound: requests for a backing node
    Slots,       \* max-parallel-jobs
    MaxFaults,   \* bound: attempts and deletions that fail, requests that are declined,
                 \* and new configurations
    MaxUpsets,   \* bound: crashes, and new configurations
    None

ASSUME MetastaticAssumption ==
    /\ IsFiniteSet(EndNodes)
    /\ MaxBacking \in Nat /\ Slots \in Nat \ {0}
    /\ MaxFaults \in Nat /\ MaxUpsets \in Nat
    /\ None \notin EndNodes \cup ((1..MaxBacking) \X (1..Slots)) \cup {"ours", "failed"}

VARIABLES
    znode,    \* state of each node; FAILED is "used"
    data,     \* its driver_data: backing node and slot
    launch,   \* state of its create state machine
    seat,     \* the record and slot that this has
    gen,      \* the adapter that works on the node
    deleter,  \* step of its deleter
    req,      \* state of each backing request
    bnode,    \* state of the backing node that fulfils it
    locked,   \* that node has our lock
    marked,   \* its user_data: "ours", "failed" or None
    rec,      \* of each adapter: the records in its memory, by request
    inited,   \* of each adapter: performed_init
    broken,   \* _init_inner has found two nodes in a slot
    mixed,    \* history: a new adapter began before the old one had ended
    faults, upsets

vars == <<znode, data, launch, seat, gen, deleter, req, bnode, locked, marked, rec,
          inited, broken, mixed, faults, upsets>>

Backing == 1..MaxBacking
Gens == 1..(MaxUpsets + 1)
SlotIds == 1..Slots
Places == Backing \X SlotIds
cur == Cardinality({g \in Gens : inited[g] # "future"})

Absent == [list |-> "absent", known |-> FALSE, failed |-> FALSE,
           nodes |-> [s \in SlotIds |-> None]]

Records ==
    [list : {"absent", "listed", "removed"}, known : BOOLEAN, failed : BOOLEAN,
     nodes : [SlotIds -> EndNodes \cup {None}]]

TypeOK ==
    /\ znode \in [EndNodes -> {"none", "building", "ready", "used", "deleting", "gone"}]
    /\ data \in [EndNodes -> Places \cup {None}]
    /\ launch \in [EndNodes -> {"rest", "start", "requesting", "complete",
                             "failed"}]
    /\ seat \in [EndNodes -> Places \cup {None}] /\ gen \in [EndNodes -> Gens]
    /\ deleter \in [EndNodes -> {"rest", "deallocate", "remove"}]
    /\ req \in [Backing -> {"none", "requested", "fulfilled", "failed", "deleted"}]
    /\ bnode \in [Backing -> {"none", "ready", "inuse", "used", "gone"}]
    /\ locked \in [Backing -> BOOLEAN] /\ marked \in [Backing -> {"ours", "failed", None}]
    /\ rec \in [Gens -> [Backing -> Records]]
    /\ inited \in [Gens -> {"future", "no", "yes"}]
    /\ broken \in BOOLEAN /\ mixed \in BOOLEAN
    /\ faults \in 0..MaxFaults /\ upsets \in 0..MaxUpsets

Init ==
    /\ znode = [n \in EndNodes |-> "none"] /\ data = [n \in EndNodes |-> None]
    /\ launch = [n \in EndNodes |-> "rest"] /\ seat = [n \in EndNodes |-> None]
    /\ gen = [n \in EndNodes |-> 1] /\ deleter = [n \in EndNodes |-> "rest"]
    /\ req = [b \in Backing |-> "none"] /\ bnode = [b \in Backing |-> "none"]
    /\ locked = [b \in Backing |-> FALSE] /\ marked = [b \in Backing |-> None]
    /\ rec = [g \in Gens |-> [b \in Backing |-> Absent]]
    /\ inited = [g \in Gens |-> IF g = 1 THEN "no" ELSE "future"]
    /\ broken = FALSE /\ mixed = FALSE
    /\ faults = 0 /\ upsets = 0

backing == <<req, bnode, locked, marked>>
history == <<broken, mixed, upsets>>
Fault == faults < MaxFaults /\ faults' = faults + 1
----------------------------------------------------------------------------
(* The records *)

Listed(g) == {b \in Backing : rec[g][b].list = "listed"}
BacksNode(g, b, n) == \E s \in SlotIds : rec[g][b].nodes[s] = n
IsEmpty(g, b) == \A s \in SlotIds : rec[g][b].nodes[s] = None
HasAvailableSlot(r) == r.list = "listed" /\ ~r.failed /\ \E s \in SlotIds : r.nodes[s] = None
Lowest(S) == CHOOSE x \in S : \A y \in S : x <= y

\* _deallocateBackingNodeInner
Deallocated(g, n) ==
    [b \in Backing |->
        IF b \in Listed(g)
        THEN [rec[g][b] EXCEPT !.nodes = [s \in SlotIds |-> IF @[s] = n THEN None ELSE @[s]]]
        ELSE rec[g][b]]

\* Mutant: only READY nodes are recovered.
OnBackingNode_Live(n, b, s) == znode[n] = "ready" /\ data[n] = <<b, s>>

\* A node that _init_inner finds in a slot: any znode of ours that says so.
OnBackingNode(n, b, s) == znode[n] \notin {"none", "gone"} /\ data[n] = <<b, s>>

(* _init_inner: the backing nodes that have our mark and our lock, and the *)
(* nodes that name them.  Two in one slot raise, now and whenever it is    *)
(* tried again.                                                            *)
PerformInit(g) ==
    /\ inited[g] = "no" /\ ~broken
    /\ IF \E b \in Backing, s \in SlotIds :
              locked[b] /\ marked[b] # None
              /\ Cardinality({n \in EndNodes : OnBackingNode(n, b, s)}) > 1
       THEN broken' = TRUE /\ UNCHANGED <<rec, inited>>
       ELSE /\ inited' = [inited EXCEPT ![g] = "yes"]
            /\ rec' = [rec EXCEPT ![g] = [b \in Backing |->
                  IF bnode[b] \in {"inuse", "used"} /\ locked[b] /\ marked[b] # None
                  THEN [list |-> "listed", known |-> TRUE, failed |-> marked[b] = "failed",
                        nodes |-> [s \in SlotIds |->
                            LET on == {n \in EndNodes : OnBackingNode(n, b, s)}
                            IN IF on = {} THEN None ELSE CHOOSE n \in on : TRUE]]
                  ELSE @[b]]]
            /\ UNCHANGED broken
    /\ UNCHANGED <<znode, data, launch, seat, gen, deleter, backing, mixed, faults, upsets>>
----------------------------------------------------------------------------
(* A node's create state machine *)

CreateNode(n) ==
    /\ znode[n] = "none" /\ n = Lowest({m \in EndNodes : znode[m] = "none"})
    /\ znode' = [znode EXCEPT ![n] = "building"]
    /\ launch' = [launch EXCEPT ![n] = "start"] /\ gen' = [gen EXCEPT ![n] = cur]
    /\ UNCHANGED <<data, seat, deleter, backing, rec, inited, history, faults>>

(* _allocateBackingNode: a slot of a record that has one, else of a new    *)
(* record with a request.                                                  *)
AllocateBackingNode(n) ==
    LET g == gen[n]
        recs == Deallocated(g, n)
        open == {b \in Backing : HasAvailableSlot(recs[b])}
        new == {b \in Backing : req[b] = "none"}
        b == IF open # {} THEN Lowest(open) ELSE Lowest(new)
        r == IF open # {} THEN recs[b] ELSE [Absent EXCEPT !.list = "listed"]
        s == Lowest({i \in SlotIds : r.nodes[i] = None})
    IN
    /\ launch[n] = "start" /\ inited[g] = "yes" /\ open \cup new # {}
    /\ req' = (IF open # {} THEN req ELSE [req EXCEPT ![b] = "requested"])
    /\ rec' = [rec EXCEPT ![g] = [recs EXCEPT ![b] = [r EXCEPT !.nodes[s] = n]]]
    /\ seat' = [seat EXCEPT ![n] = <<b, s>>]
    /\ launch' = [launch EXCEPT ![n] = IF r.known THEN "complete" ELSE "requesting"]
    /\ UNCHANGED <<znode, data, gen, deleter, bnode, locked, marked, inited, history, faults>>

(* _checkBackingNodeRequests, of all records that wait; and what follows   *)
(* for the one of this node.                                               *)
CheckRequests(n) ==
    LET g == gen[n]
        waiting == {b \in Listed(g) : ~rec[g][b].known}
        done == {b \in waiting : req[b] = "fulfilled"}
        after == [b \in Backing |->
            IF b \in waiting /\ req[b] = "failed"
            THEN [rec[g][b] EXCEPT !.failed = TRUE, !.list = "removed"]
            ELSE [rec[g][b] EXCEPT !.known = @ \/ b \in done]]
        r == after[seat[n][1]]
    IN
    /\ launch[n] = "requesting"
    /\ rec' = [rec EXCEPT ![g] = after]
    /\ req' = [b \in Backing |-> IF b \in done THEN "deleted" ELSE req[b]]
    /\ bnode' = [b \in Backing |-> IF b \in done THEN "inuse" ELSE bnode[b]]
    /\ locked' = [b \in Backing |-> locked[b] \/ b \in done]
    /\ marked' = [b \in Backing |->
           IF b \notin done THEN marked[b] ELSE IF rec[g][b].failed THEN "failed" ELSE "ours"]
    /\ launch' = [launch EXCEPT ![n] =
           IF r.failed THEN "failed" ELSE IF r.known THEN "complete" ELSE @]
    /\ rec' # rec \/ launch' # launch
    /\ UNCHANGED <<znode, data, seat, gen, deleter, inited, history, faults>>

(* The instance is complete; the node is stored READY with its driver_data *)
(* and unlocked.                                                           *)
LaunchComplete(n) ==
    /\ launch[n] = "complete" /\ launch' = [launch EXCEPT ![n] = "rest"]
    /\ data' = [data EXCEPT ![n] = seat[n]] /\ znode' = [znode EXCEPT ![n] = "ready"]
    /\ seat' = [seat EXCEPT ![n] = None]
    /\ UNCHANGED <<gen, deleter, backing, rec, inited, history, faults>>

(* The attempt times out, or its nodescan fails, which fails the backing   *)
(* node as well.                                                           *)
AttemptFails(n) ==
    LET g == gen[n]  b == seat[n][1] IN
    /\ launch[n] \in {"requesting", "complete"} /\ Fault
    /\ launch' = [launch EXCEPT ![n] = "failed"]
    /\ \/ UNCHANGED <<rec, marked>>
       \/ /\ launch[n] = "complete" /\ b \in Listed(g) /\ BacksNode(g, b, n)
          /\ rec' = [rec EXCEPT ![g][b].failed = TRUE]
          /\ marked' = [marked EXCEPT ![b] = "failed"]
    /\ UNCHANGED <<znode, data, seat, gen, deleter, req, bnode, locked, inited, history>>

(* A delete state machine gives up the slot, and it is tried again or not. *)
AttemptEnds(n) ==
    LET g == gen[n] IN
    /\ \/ launch[n] = "failed" /\ rec' = [rec EXCEPT ![g] = Deallocated(g, n)]
       \/ launch[n] = "start" /\ inited[g] = "yes" /\ UNCHANGED rec
    /\ \/ launch[n] = "failed" /\ launch' = [launch EXCEPT ![n] = "start"] /\ UNCHANGED znode
       \/ launch' = [launch EXCEPT ![n] = "rest"] /\ znode' = [znode EXCEPT ![n] = "used"]
    /\ seat' = [seat EXCEPT ![n] = None]
    /\ UNCHANGED <<data, gen, deleter, backing, inited, history, faults>>
----------------------------------------------------------------------------
(* A node's end *)

ZuulUses(n) ==
    /\ znode[n] = "ready" /\ znode' = [znode EXCEPT ![n] = "used"]
    /\ UNCHANGED <<data, launch, seat, gen, deleter, backing, rec, inited, history, faults>>

(* An unlocked node: used, failed, or left behind by a crash *)
StartDelete(n) ==
    /\ znode[n] \in {"building", "used", "deleting"}
    /\ launch[n] = "rest" /\ deleter[n] = "rest"
    /\ znode' = [znode EXCEPT ![n] = "deleting"]
    /\ deleter' = [deleter EXCEPT ![n] = "deallocate"] /\ gen' = [gen EXCEPT ![n] = cur]
    /\ UNCHANGED <<data, launch, seat, backing, rec, inited, history, faults>>

DeallocateBackingNode(n) ==
    /\ deleter[n] = "deallocate" /\ inited[gen[n]] = "yes"
    /\ rec' = [rec EXCEPT ![gen[n]] = Deallocated(gen[n], n)]
    /\ deleter' = [deleter EXCEPT ![n] = "remove"]
    /\ UNCHANGED <<znode, data, launch, seat, gen, backing, inited, history, faults>>

\* deleteNode, which may raise; it is all done again then.
DeleteNode(n) ==
    /\ deleter[n] = "remove" /\ deleter' = [deleter EXCEPT ![n] = "rest"]
    /\ \/ /\ znode' = [znode EXCEPT ![n] = "gone"] /\ data' = [data EXCEPT ![n] = None]
          /\ UNCHANGED faults
       \/ Fault /\ UNCHANGED <<znode, data>>
    /\ UNCHANGED <<launch, seat, gen, backing, rec, inited, history>>
----------------------------------------------------------------------------
(* Backing nodes *)

(* Other launchers fulfil a request or fail it, and delete what is USED.   *)
Nodepool(b) ==
    /\ \/ /\ req[b] = "requested" /\ req' = [req EXCEPT ![b] = "fulfilled"]
          /\ bnode' = [bnode EXCEPT ![b] = "ready"] /\ UNCHANGED faults
       \/ req[b] = "requested" /\ Fault /\ req' = [req EXCEPT ![b] = "failed"] /\ UNCHANGED bnode
       \/ bnode[b] = "used" /\ ~locked[b] /\ bnode' = [bnode EXCEPT ![b] = "gone"]
          /\ UNCHANGED <<req, faults>>
    /\ UNCHANGED <<znode, data, launch, seat, gen, deleter, locked, marked, rec, inited, history>>

\* Mutant: our lock, which does not go with a session, is left on the node.
ReleaseBackingNode_Locked(b) ==
    /\ inited[cur] = "yes" /\ b \in Listed(cur) /\ IsEmpty(cur, b)
    /\ rec' = [rec EXCEPT ![cur][b].failed = TRUE, ![cur][b].list = "removed"]
    /\ bnode' = (IF rec[cur][b].known THEN [bnode EXCEPT ![b] = "used"] ELSE bnode)
    /\ UNCHANGED <<znode, data, launch, seat, gen, deleter, req, locked, marked, inited, history, faults>>

(* listResources: a record that has been empty for long enough is dropped, *)
(* its node set to USED and unlocked; a request that is pending goes on.   *)
ReleaseBackingNode(b) ==
    /\ inited[cur] = "yes" /\ b \in Listed(cur) /\ IsEmpty(cur, b)
    /\ rec' = [rec EXCEPT ![cur][b].failed = TRUE, ![cur][b].list = "removed"]
    /\ IF rec[cur][b].known
       THEN bnode' = [bnode EXCEPT ![b] = "used"] /\ locked' = [locked EXCEPT ![b] = FALSE]
       ELSE UNCHANGED <<bnode, locked>>
    /\ UNCHANGED <<znode, data, launch, seat, gen, deleter, req, marked, inited, history, faults>>

\* listResources: a backing node past its max-age takes no more nodes.
MaxAge(b) ==
    /\ inited[cur] = "yes" /\ b \in Listed(cur) /\ ~rec[cur][b].failed
    /\ Fault /\ rec' = [rec EXCEPT ![cur][b].failed = TRUE]
    /\ UNCHANGED <<znode, data, launch, seat, gen, deleter, backing, inited, history>>
----------------------------------------------------------------------------
(* The launcher dies; another starts, perhaps after a fulfilled request's  *)
(* node was locked and before it was marked, or after a backing node was   *)
(* set to USED and before it was unlocked.                                 *)
Crash ==
    /\ upsets < MaxUpsets /\ upsets' = upsets + 1
    /\ launch' = [n \in EndNodes |-> "rest"] /\ deleter' = [n \in EndNodes |-> "rest"]
    /\ seat' = [n \in EndNodes |-> None] /\ gen' = [n \in EndNodes |-> cur]
    /\ rec' = [g \in Gens |-> [b \in Backing |-> Absent]]
    /\ inited' = [g \in Gens |-> IF inited[g] = "future" THEN "future" ELSE "no"]
    /\ broken' = FALSE
    /\ \/ UNCHANGED <<locked, bnode>>
       \/ \E b \in Listed(cur) : /\ req[b] = "fulfilled" /\ UNCHANGED bnode
                                 /\ locked' = [locked EXCEPT ![b] = TRUE]
       \/ \E b \in Listed(cur) : /\ bnode[b] = "inuse" /\ IsEmpty(cur, b) /\ UNCHANGED locked
                                 /\ bnode' = [bnode EXCEPT ![b] = "used"]
    /\ UNCHANGED <<znode, data, req, marked, mixed, faults>>

(* A new configuration makes a new provider with an adapter of its own,    *)
(* while the launches and deletions of the old one go on.                  *)
Reconfigure ==
    /\ upsets < MaxUpsets /\ upsets' = upsets + 1 /\ Fault
    /\ inited' = [inited EXCEPT ![cur + 1] = "no"]
    /\ mixed' = (mixed \/ \E n \in EndNodes : launch[n] # "rest" \/ deleter[n] # "rest")
    /\ UNCHANGED <<znode, data, launch, seat, gen, deleter, backing, rec, broken>>

StateMachine(n) == AllocateBackingNode(n) \/ CheckRequests(n) \/ LaunchComplete(n)
                   \/ AttemptEnds(n)
Deletion(n) == StartDelete(n) \/ DeallocateBackingNode(n) \/ DeleteNode(n)

Next ==
    \/ \E g \in Gens : PerformInit(g)
    \/ \E n \in EndNodes : CreateNode(n) \/ StateMachine(n) \/ AttemptFails(n) \/ ZuulUses(n)
                           \/ Deletion(n)
    \/ \E b \in Backing : Nodepool(b) \/ ReleaseBackingNode(b) \/ MaxAge(b)
    \/ Crash \/ Reconfigure

Spec == Init /\ [][Next]_vars

(* Threads go on, and the cleanup is periodic; Zuul gives its nodes back.  *)
Fairness ==
    /\ \A g \in Gens : WF_vars(PerformInit(g))
    /\ \A n \in EndNodes :
           WF_vars(StateMachine(n)) /\ WF_vars(ZuulUses(n)) /\ WF_vars(Deletion(n))
    /\ \A b \in Backing : WF_vars(Nodepool(b)) /\ WF_vars(ReleaseBackingNode(b))
----------------------------------------------------------------------------
Live == {n \in EndNodes : znode[n] \in {"ready", "used"} /\ data[n] # None}

(* The backing node of a node that is READY or used is there and ours, and *)
(* no other node is in its slot, whatever attempts, releases and restarts  *)
(* came before; unless two adapters have worked at a time.                 *)
SlotHeld ==
    ~mixed => \A n \in Live : /\ bnode[data[n][1]] # "gone" /\ locked[data[n][1]]
                              /\ \A m \in Live \ {n} : data[m] # data[n]

(* A backing node that was taken into use is given back in the end, also   *)
(* when launchers die; unless a restart cannot make sense of the slots or  *)
(* two adapters have worked at a time.                                     *)
BackingNodesReleased ==
    \A b \in Backing : bnode[b] = "inuse" ~> (bnode[b] = "gone" \/ broken \/ mixed)
=============================================================================
