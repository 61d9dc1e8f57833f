---------------------------- MODULE DriversProofs ---------------------------
(***************************************************************************)
(* Of the drivers without a cloud behind them, for all values of their     *)
(* constants.  Metastatic: a node in a slot of a backing node has the slot *)
(* to itself, and the backing node stays and stays locked until the node   *)
(* is deleted, unless two adapters have worked at a time.  Containers: a   *)
(* READY node has all it needs.  The static driver: a registration fits.   *)
(***************************************************************************)
EXTENDS MCDrivers, FiniteSetTheorems, WellFoundedInduction, TLAPS

(* The adapters that have begun are the first ones, and there was a crash  *)
(* or a new configuration for each of them but the first.                  *)
GenInv == \E k \in 1..(upsets + 1) : \A g \in Gens : inited[g] = "future" <=> g > k

(* An adapter has no records before it has read its nodes. *)
FreshInv == \A g \in Gens : inited[g] # "yes" => rec[g] = [b \in Backing |-> Absent]

(* A backing node is there when its request was fulfilled, and is known to *)
(* an adapter only when the request is deleted.                            *)
BackingInv ==
    \A b \in Backing :
        /\ req[b] \in {"none", "requested", "failed"} => bnode[b] = "none"
        /\ req[b] = "fulfilled" => bnode[b] = "ready"
        /\ req[b] = "deleted" => bnode[b] \in {"inuse", "used", "gone"}
        /\ \A g \in Gens : /\ rec[g][b].known => req[b] = "deleted"
                           /\ rec[g][b].list = "removed" => rec[g][b].failed
                           /\ rec[g][b].list # "absent" => req[b] # "none"

(* A node has driver_data from when it is READY, and a slot of its own     *)
(* while its launch waits for a backing node or has it.                    *)
NodeInv ==
    \A n \in EndNodes :
        /\ znode[n] \in {"none", "building", "gone"} => data[n] = None
        /\ launch[n] # "rest" => znode[n] = "building"
        /\ deleter[n] # "rest" => znode[n] = "deleting"
        /\ launch[n] \in {"requesting", "complete"} => seat[n] \in Places

AlwaysInv == TypeOK /\ GenInv /\ FreshInv /\ BackingInv /\ NodeInv

(* What follows holds unless two adapters have worked at a time.  The      *)
(* steps of a node are those of the current adapter,                       *)
WorkInv ==
    \A n \in EndNodes : launch[n] # "rest" \/ deleter[n] # "rest" => gen[n] = cur

(* a backing node that is in use is kept,                                  *)
Kept(b) == locked[b] /\ marked[b] # None /\ bnode[b] \in {"inuse", "used"}

KnownInv ==
    \A b \in Listed(cur) : rec[cur][b].known => Kept(b)

(* and a node is in the slot that its launch was given,                    *)
Sits(g, n, p) == p[1] \in Listed(g) /\ rec[g][p[1]].nodes[p[2]] = n

SeatInv ==
    \A n \in EndNodes :
        /\ launch[n] = "complete" => Sits(cur, n, seat[n]) /\ rec[cur][seat[n][1]].known
        /\ launch[n] = "requesting" =>
              \/ rec[cur][seat[n][1]].list = "removed"
              \/ Sits(cur, n, seat[n])

(* and later in the slot that its driver_data names.                       *)
DataInv ==
    \A n \in Live :
        /\ Kept(data[n][1])
        /\ inited[cur] = "yes" => Sits(cur, n, data[n]) /\ rec[cur][data[n][1]].known
        /\ \A m \in Live \ {n} : data[m] # data[n]

SingleInv == WorkInv /\ KnownInv /\ SeatInv /\ DataInv

IInv == AlwaysInv /\ (~mixed => SingleInv)
-----------------------------------------------------------------------------
(* Numbers and adapters *)

LEMMA LowestIsLeast ==
    ASSUME NEW K \in SUBSET Nat, K # {}
    PROVE  Lowest(K) \in K /\ \A y \in K : Lowest(K) <= y
<1>1. PICK x \in K : \A y \in K : <<y, x>> \notin OpToRel(<, Nat)
  BY NatLessThanWellFounded, WFMin, Zenon
<1>2. \A y \in K : ~(y < x)
  <2> SUFFICES ASSUME NEW y \in K, y < x
               PROVE  <<y, x>> \in OpToRel(<, Nat)
    BY <1>1, Zenon
  <2>1. y \in Nat /\ x \in Nat
    OBVIOUS
  <2> QED BY <2>1, Zenon DEF OpToRel
<1>3. \A y \in K : x <= y
  BY <1>2
<1> QED BY <1>3 DEF Lowest

(* The current adapter is the last that has begun. *)
LEMMA CurIsLast ==
    ASSUME NEW k \in Gens, \A g \in Gens : inited[g] = "future" <=> g > k
    PROVE  cur = k
<1>1. {g \in Gens : inited[g] # "future"} = 1..k
  BY MetastaticAssumption DEF Gens
<1>2. Cardinality(1..k) = k
  BY MetastaticAssumption, FS_Interval DEF Gens
<1> QED BY <1>1, <1>2 DEF cur

LEMMA CurHasBegun ==
    ASSUME TypeOK, GenInv
    PROVE  /\ cur \in Gens /\ cur <= upsets + 1
           /\ \A g \in Gens : inited[g] = "future" <=> g > cur
           /\ inited[cur] # "future"
<1>1. PICK k \in 1..(upsets + 1) : \A g \in Gens : inited[g] = "future" <=> g > k
  BY DEF GenInv
<1>2. k \in Gens
  BY MetastaticAssumption DEF TypeOK, Gens
<1>3. cur = k
  BY <1>1, <1>2, CurIsLast
<1>4. ~(k > k) /\ k <= upsets + 1
  BY MetastaticAssumption DEF TypeOK
<1> QED BY <1>1, <1>2, <1>3, <1>4

(* The steps that begin an adapter, make it ready or end it *)
LEMMA AdaptersMove ==
    ASSUME [Next]_vars
    PROVE  \/ Reconfigure \/ Crash
           \/ /\ UNCHANGED <<upsets, mixed>>
              /\ \/ inited' = inited
                 \/ \E g \in Gens : PerformInit(g) /\ inited' = [inited EXCEPT ![g] = "yes"]
<1>1. ASSUME NEW g \in Gens, PerformInit(g)
      PROVE  /\ UNCHANGED <<upsets, mixed>>
             /\ inited' = inited \/ inited' = [inited EXCEPT ![g] = "yes"]
  BY <1>1 DEF PerformInit
<1>2. ASSUME \/ UNCHANGED vars
             \/ \E b \in Backing : Nodepool(b) \/ ReleaseBackingNode(b) \/ MaxAge(b)
      PROVE  UNCHANGED <<upsets, mixed, inited>>
  BY <1>2 DEF vars, history, Nodepool, ReleaseBackingNode, MaxAge
<1>3. ASSUME NEW n \in EndNodes,
             \/ CreateNode(n) \/ AllocateBackingNode(n) \/ CheckRequests(n)
             \/ LaunchComplete(n) \/ AttemptEnds(n)
      PROVE  UNCHANGED <<upsets, mixed, inited>>
  BY <1>3
     DEF history, CreateNode, AllocateBackingNode, CheckRequests, LaunchComplete, AttemptEnds
<1>4. ASSUME NEW n \in EndNodes,
             \/ AttemptFails(n) \/ ZuulUses(n) \/ StartDelete(n)
             \/ DeallocateBackingNode(n) \/ DeleteNode(n)
      PROVE  UNCHANGED <<upsets, mixed, inited>>
  BY <1>4
     DEF history, AttemptFails, ZuulUses, StartDelete, DeallocateBackingNode, DeleteNode
<1> QED BY <1>1, <1>2, <1>3, <1>4 DEF Next, StateMachine, Deletion

(* Only a new configuration makes another adapter the current one. *)
LEMMA GenStep ==
    ASSUME TypeOK, GenInv, [Next]_vars
    PROVE  /\ GenInv'
           /\ IF Reconfigure
              THEN cur' = cur + 1 /\ cur + 1 \in Gens /\ inited[cur + 1] = "future"
              ELSE cur' = cur
<1>0. /\ upsets \in 0..MaxUpsets /\ inited \in [Gens -> {"future", "no", "yes"}]
      /\ MaxUpsets \in Nat
  BY MetastaticAssumption DEF TypeOK
<1>1. CASE Reconfigure
  <2>1. cur + 1 \in Gens /\ cur + 1 \in 1..(upsets' + 1)
    BY <1>0, <1>1, CurHasBegun DEF Reconfigure, Gens
  <2>2. \A g \in Gens : inited'[g] = "future" <=> g > cur + 1
    BY <1>0, <1>1, CurHasBegun DEF Reconfigure, Gens
  <2>3. \A k \in Gens : (\A g \in Gens : inited'[g] = "future" <=> g > k) => cur' = k
    <3> SUFFICES ASSUME NEW k \in Gens, \A g \in Gens : inited'[g] = "future" <=> g > k
                 PROVE  cur' = k
      OBVIOUS
    <3>1. {g \in Gens : inited'[g] # "future"} = 1..k
      BY <1>0 DEF Gens
    <3>2. Cardinality(1..k) = k
      BY <1>0, FS_Interval DEF Gens
    <3> QED BY <3>1, <3>2 DEF cur
  <2>4. inited[cur + 1] = "future"
    BY <2>1, CurHasBegun DEF Gens
  <2> QED BY <1>1, <2>1, <2>2, <2>3, <2>4 DEF GenInv
<1>2. CASE ~Reconfigure
  <2>1. /\ \A g \in Gens : inited'[g] = "future" <=> inited[g] = "future"
        /\ upsets' = upsets \/ upsets' = upsets + 1
    <3>1. CASE Crash
      <4>1. upsets' = upsets + 1
        BY <3>1 DEF Crash
      <4>2. \A g \in Gens : inited'[g] = IF inited[g] = "future" THEN "future" ELSE "no"
        BY <3>1 DEF Crash
      <4> QED BY <4>1, <4>2
    <3>2. ASSUME NEW h \in Gens, PerformInit(h), inited' = [inited EXCEPT ![h] = "yes"]
          PROVE  \A g \in Gens : inited'[g] = "future" <=> inited[g] = "future"
      <4>1. inited[h] = "no"
        BY <3>2 DEF PerformInit
      <4> QED BY <1>0, <3>2, <4>1
    <3> QED BY <1>2, <3>1, <3>2, AdaptersMove
  <2>2. {g \in Gens : inited'[g] # "future"} = {g \in Gens : inited[g] # "future"}
    BY <2>1
  <2>3. \A k \in 1..(upsets + 1) : k \in 1..(upsets' + 1)
    BY <1>0, <2>1
  <2>4. GenInv'
    BY <2>1, <2>3 DEF GenInv
  <2> QED BY <1>2, <2>2, <2>4 DEF cur
<1> QED BY <1>1, <1>2
-----------------------------------------------------------------------------
(* Records *)

(* The fields of a record, and what the steps make of it *)
LEMMA RecordFields ==
    ASSUME NEW r \in Records
    PROVE  /\ r.list \in {"absent", "listed", "removed"} /\ r.known \in BOOLEAN
           /\ r.failed \in BOOLEAN /\ r.nodes \in [SlotIds -> EndNodes \cup {None}]
  BY DEF Records

LEMMA RecordFails ==
    ASSUME NEW r \in Records
    PROVE  /\ [r EXCEPT !.failed = TRUE] \in Records
           /\ [r EXCEPT !.failed = TRUE].failed
           /\ [r EXCEPT !.failed = TRUE].list = r.list
           /\ [r EXCEPT !.failed = TRUE].known = r.known
           /\ [r EXCEPT !.failed = TRUE].nodes = r.nodes
  BY DEF Records

LEMMA RecordRemoved ==
    ASSUME NEW r \in Records
    PROVE  /\ [r EXCEPT !.failed = TRUE, !.list = "removed"] \in Records
           /\ [r EXCEPT !.failed = TRUE, !.list = "removed"].failed
           /\ [r EXCEPT !.failed = TRUE, !.list = "removed"].list = "removed"
           /\ [r EXCEPT !.failed = TRUE, !.list = "removed"].known = r.known
           /\ [r EXCEPT !.failed = TRUE, !.list = "removed"].nodes = r.nodes
  BY DEF Records

LEMMA RecordsEqual ==
    ASSUME NEW r \in Records, NEW q \in Records,
           r.list = q.list, r.known = q.known, r.failed = q.failed, r.nodes = q.nodes
    PROVE  r = q
  BY DEF Records

LEMMA RecordKnown ==
    ASSUME NEW r \in Records, NEW k \in BOOLEAN
    PROVE  /\ [r EXCEPT !.known = k] \in Records
           /\ [r EXCEPT !.known = k].failed = r.failed
           /\ [r EXCEPT !.known = k].list = r.list
           /\ [r EXCEPT !.known = k].known = k
           /\ [r EXCEPT !.known = k].nodes = r.nodes
  BY DEF Records

LEMMA RecordNodes ==
    ASSUME NEW r \in Records, NEW f \in [SlotIds -> EndNodes \cup {None}]
    PROVE  /\ [r EXCEPT !.nodes = f] \in Records
           /\ [r EXCEPT !.nodes = f].failed = r.failed
           /\ [r EXCEPT !.nodes = f].list = r.list
           /\ [r EXCEPT !.nodes = f].known = r.known
           /\ [r EXCEPT !.nodes = f].nodes = f
  BY DEF Records

LEMMA AbsentRecord ==
    /\ Absent \in Records /\ [Absent EXCEPT !.list = "listed"] \in Records
    /\ Absent.list = "absent" /\ ~Absent.known
    /\ [Absent EXCEPT !.list = "listed"].list = "listed"
    /\ ~[Absent EXCEPT !.list = "listed"].known
    /\ \A s \in SlotIds : [Absent EXCEPT !.list = "listed"].nodes[s] = None
  BY DEF Absent, Records

LEMMA RecordsOf ==
    ASSUME TypeOK, NEW g \in Gens
    PROVE  /\ rec[g] \in [Backing -> Records] /\ \A b \in Backing : rec[g][b] \in Records
           /\ Listed(g) \subseteq Backing
  BY DEF TypeOK, Listed

(* A node that gives up its slots leaves those of the others alone. *)
LEMMA DeallocatedRecords ==
    ASSUME TypeOK, NEW g \in Gens, NEW n \in EndNodes
    PROVE  /\ Deallocated(g, n) \in [Backing -> Records]
           /\ \A b \in Backing :
                 /\ Deallocated(g, n)[b].list = rec[g][b].list
                 /\ Deallocated(g, n)[b].known = rec[g][b].known
                 /\ Deallocated(g, n)[b].failed = rec[g][b].failed
                 /\ b \notin Listed(g) => Deallocated(g, n)[b] = rec[g][b]
                 /\ \A s \in SlotIds, m \in EndNodes \ {n} :
                       rec[g][b].nodes[s] = m => Deallocated(g, n)[b].nodes[s] = m
<1> SUFFICES ASSUME NEW b \in Backing
             PROVE  /\ Deallocated(g, n)[b] \in Records
                    /\ Deallocated(g, n)[b].list = rec[g][b].list
                    /\ Deallocated(g, n)[b].known = rec[g][b].known
                    /\ Deallocated(g, n)[b].failed = rec[g][b].failed
                    /\ b \notin Listed(g) => Deallocated(g, n)[b] = rec[g][b]
                    /\ \A s \in SlotIds, m \in EndNodes \ {n} :
                          rec[g][b].nodes[s] = m => Deallocated(g, n)[b].nodes[s] = m
  BY DEF Deallocated
<1>1. rec[g][b] \in Records
  BY RecordsOf
<1>2. CASE b \notin Listed(g)
  <2>1. Deallocated(g, n)[b] = rec[g][b]
    BY <1>2 DEF Deallocated
  <2> QED BY <1>1, <2>1
<1>3. CASE b \in Listed(g)
  <2> DEFINE f == [s \in SlotIds |-> IF rec[g][b].nodes[s] = n THEN None
                                     ELSE rec[g][b].nodes[s]]
  <2>1. Deallocated(g, n)[b] = [rec[g][b] EXCEPT !.nodes = f]
    BY <1>3 DEF Deallocated
  <2>2. f \in [SlotIds -> EndNodes \cup {None}]
    BY <1>1, RecordFields
  <2>3. \A s \in SlotIds, m \in EndNodes \ {n} : rec[g][b].nodes[s] = m => f[s] = m
    OBVIOUS
  <2> HIDE DEF f
  <2> QED BY <1>1, <1>3, <2>1, <2>2, <2>3, RecordNodes
<1> QED BY <1>2, <1>3

(* A launch is given an empty slot of a record that is listed. *)
LEMMA AllocateGives ==
    ASSUME TypeOK, NEW n \in EndNodes, AllocateBackingNode(n)
    PROVE  \E b \in Backing, s \in SlotIds, r \in Records :
              /\ r.list = "listed" /\ r.nodes[s] = None
              /\ \/ /\ req[b] = "none" /\ req' = [req EXCEPT ![b] = "requested"]
                    /\ r = [Absent EXCEPT !.list = "listed"]
                 \/ req' = req /\ r = Deallocated(gen[n], n)[b]
              /\ rec' = [rec EXCEPT ![gen[n]] =
                            [Deallocated(gen[n], n) EXCEPT ![b] = [r EXCEPT !.nodes[s] = n]]]
              /\ seat' = [seat EXCEPT ![n] = <<b, s>>]
              /\ launch' = [launch EXCEPT ![n] = IF r.known THEN "complete" ELSE "requesting"]
<1> DEFINE g == gen[n]
           recs == Deallocated(g, n)
           open == {c \in Backing : HasAvailableSlot(recs[c])}
           new == {c \in Backing : req[c] = "none"}
           b == IF open # {} THEN Lowest(open) ELSE Lowest(new)
           r == IF open # {} THEN recs[b] ELSE [Absent EXCEPT !.list = "listed"]
           s == Lowest({i \in SlotIds : r.nodes[i] = None})
<1>0. g \in Gens /\ Backing \in SUBSET Nat /\ SlotIds \in SUBSET Nat /\ 1 \in SlotIds
  BY MetastaticAssumption DEF TypeOK, Backing, SlotIds
<1>1. /\ open \cup new # {}
      /\ req' = (IF open # {} THEN req ELSE [req EXCEPT ![b] = "requested"])
      /\ rec' = [rec EXCEPT ![g] = [recs EXCEPT ![b] = [r EXCEPT !.nodes[s] = n]]]
      /\ seat' = [seat EXCEPT ![n] = <<b, s>>]
      /\ launch' = [launch EXCEPT ![n] = IF r.known THEN "complete" ELSE "requesting"]
  BY DEF AllocateBackingNode
<1>2. recs \in [Backing -> Records]
  BY <1>0, DeallocatedRecords
<1>3. CASE open # {}
  <2>1. b \in open
    BY <1>0, <1>3, LowestIsLeast
  <2>2. r = recs[b] /\ r \in Records /\ b \in Backing /\ HasAvailableSlot(r)
    BY <1>2, <1>3, <2>1
  <2> HIDE DEF b, r, recs
  <2>3. {i \in SlotIds : r.nodes[i] = None} # {} /\ r.list = "listed"
    BY <2>2 DEF HasAvailableSlot
  <2>4. s \in {i \in SlotIds : r.nodes[i] = None}
    BY <1>0, <2>3, LowestIsLeast
  <2> QED BY <1>1, <1>3, <2>2, <2>3, <2>4 DEF recs
<1>4. CASE open = {}
  <2>1. b \in new
    BY <1>0, <1>1, <1>4, LowestIsLeast
  <2>2. r = [Absent EXCEPT !.list = "listed"] /\ b \in Backing /\ req[b] = "none"
    BY <1>4, <2>1
  <2> HIDE DEF b, r, recs
  <2>3. {i \in SlotIds : r.nodes[i] = None} # {} /\ r.list = "listed" /\ r \in Records
    BY <1>0, <2>2, AbsentRecord
  <2>4. s \in {i \in SlotIds : r.nodes[i] = None}
    BY <1>0, <2>3, LowestIsLeast
  <2> QED BY <1>1, <1>4, <2>2, <2>3, <2>4 DEF recs
<1> QED BY <1>3, <1>4

LEMMA AllocateChanges ==
    ASSUME TypeOK, NEW n \in EndNodes, AllocateBackingNode(n)
    PROVE  /\ \/ req' = req
              \/ \E b \in Backing : req[b] = "none" /\ req' = [req EXCEPT ![b] = "requested"]
           /\ \E b \in Backing, s \in SlotIds : seat' = [seat EXCEPT ![n] = <<b, s>>]
<1>1. PICK b \in Backing, s \in SlotIds, r \in Records :
         /\ r.list = "listed" /\ r.nodes[s] = None
         /\ \/ /\ req[b] = "none" /\ req' = [req EXCEPT ![b] = "requested"]
               /\ r = [Absent EXCEPT !.list = "listed"]
            \/ req' = req /\ r = Deallocated(gen[n], n)[b]
         /\ rec' = [rec EXCEPT ![gen[n]] =
                       [Deallocated(gen[n], n) EXCEPT ![b] = [r EXCEPT !.nodes[s] = n]]]
         /\ seat' = [seat EXCEPT ![n] = <<b, s>>]
         /\ launch' = [launch EXCEPT ![n] = IF r.known THEN "complete" ELSE "requesting"]
  BY AllocateGives
<1> QED BY <1>1

(* An empty record is dropped. *)
LEMMA ReleaseGives ==
    ASSUME TypeOK, cur \in Gens, NEW b \in Backing, ReleaseBackingNode(b)
    PROVE  /\ b \in Listed(cur) /\ IsEmpty(cur, b)
           /\ rec' = [rec EXCEPT ![cur] = rec'[cur]]
           /\ rec'[cur] = [rec[cur] EXCEPT ![b] = rec'[cur][b]]
           /\ rec'[cur][b] = [rec[cur][b] EXCEPT !.failed = TRUE, !.list = "removed"]
           /\ rec'[cur][b] \in Records /\ rec'[cur][b].list = "removed"
<1> DEFINE r == rec[cur][b]
           once == [rec EXCEPT ![cur] = [rec[cur] EXCEPT ![b] = [r EXCEPT !.failed = TRUE]]]
           twice == [once EXCEPT ![cur] = [once[cur] EXCEPT ![b] =
                        [once[cur][b] EXCEPT !.list = "removed"]]]
<1>1. b \in Listed(cur) /\ IsEmpty(cur, b) /\ rec' = twice
  BY DEF ReleaseBackingNode
<1>2. rec[cur] \in [Backing -> Records] /\ rec \in [Gens -> [Backing -> Records]]
  BY DEF TypeOK
<1>3. /\ once[cur] = [rec[cur] EXCEPT ![b] = [r EXCEPT !.failed = TRUE]]
      /\ once[cur][b] = [r EXCEPT !.failed = TRUE]
  BY <1>2
<1>4. /\ twice[cur] = [once[cur] EXCEPT ![b] = [once[cur][b] EXCEPT !.list = "removed"]]
      /\ twice[cur][b] = [once[cur][b] EXCEPT !.list = "removed"]
      /\ twice = [rec EXCEPT ![cur] = twice[cur]]
  BY <1>2, <1>3
<1> HIDE DEF once, twice
<1>5. twice[cur] = [rec[cur] EXCEPT ![b] = twice[cur][b]]
  BY <1>2, <1>3, <1>4
<1>6. r \in Records
  BY <1>2
<1>7. twice[cur][b] = [r EXCEPT !.failed = TRUE, !.list = "removed"]
  BY <1>3, <1>4
<1>8. twice[cur][b] \in Records /\ twice[cur][b].list = "removed"
  BY <1>6, <1>7, RecordRemoved
<1> HIDE DEF r
<1> QED BY <1>1, <1>4, <1>5, <1>7, <1>8 DEF r
(* The requests that a check finds fulfilled *)
Done(g) == {b \in Listed(g) : ~rec[g][b].known /\ req[b] = "fulfilled"}

(* A check learns which requests were fulfilled, and drops the records of  *)
(* those that failed.                                                      *)
LEMMA CheckGives ==
    ASSUME TypeOK, NEW n \in EndNodes, CheckRequests(n), NEW g, g = gen[n]
    PROVE  /\ rec'[g] \in [Backing -> Records] /\ rec' = [rec EXCEPT ![g] = rec'[g]]
           /\ \A b \in Backing :
                 /\ rec'[g][b].nodes = rec[g][b].nodes
                 /\ \/ /\ rec'[g][b].list = rec[g][b].list
                       /\ rec'[g][b].failed = rec[g][b].failed
                       /\ rec'[g][b].known = (rec[g][b].known \/ b \in Done(g))
                    \/ /\ b \in Listed(g) \ Done(g) /\ ~rec[g][b].known
                       /\ rec'[g][b].list = "removed" /\ rec'[g][b].failed
                       /\ ~rec'[g][b].known
           /\ req' = [b \in Backing |-> IF b \in Done(g) THEN "deleted" ELSE req[b]]
           /\ bnode' = [b \in Backing |-> IF b \in Done(g) THEN "inuse" ELSE bnode[b]]
           /\ locked' = [b \in Backing |-> locked[b] \/ b \in Done(g)]
           /\ \A b \in Backing : IF b \in Done(g) THEN marked'[b] \in {"failed", "ours"}
                                 ELSE marked'[b] = marked[b]
           /\ marked' \in [Backing -> {"ours", "failed", None}]
           /\ launch[n] = "requesting"
           /\ launch' = [launch EXCEPT ![n] =
                 IF rec'[g][seat[n][1]].failed THEN "failed"
                 ELSE IF rec'[g][seat[n][1]].known THEN "complete" ELSE "requesting"]
<1> DEFINE waiting == {b \in Listed(g) : ~rec[g][b].known}
           done == {b \in waiting : req[b] = "fulfilled"}
           after == [b \in Backing |->
               IF b \in waiting /\ req[b] = "failed"
               THEN [rec[g][b] EXCEPT !.failed = TRUE, !.list = "removed"]
               ELSE [rec[g][b] EXCEPT !.known = @ \/ b \in done]]
<1>1. done = Done(g)
  BY DEF Done
<1>2. /\ rec' = [rec EXCEPT ![g] = after]
      /\ req' = [b \in Backing |-> IF b \in done THEN "deleted" ELSE req[b]]
      /\ bnode' = [b \in Backing |-> IF b \in done THEN "inuse" ELSE bnode[b]]
      /\ locked' = [b \in Backing |-> locked[b] \/ b \in done]
      /\ marked' = [b \in Backing |->
             IF b \notin done THEN marked[b] ELSE IF rec[g][b].failed THEN "failed" ELSE "ours"]
      /\ launch[n] = "requesting"
      /\ launch' = [launch EXCEPT ![n] =
             IF after[seat[n][1]].failed THEN "failed"
             ELSE IF after[seat[n][1]].known THEN "complete" ELSE @]
  BY DEF CheckRequests
<1>3. ASSUME NEW b \in Backing
      PROVE  /\ after[b] \in Records /\ after[b].nodes = rec[g][b].nodes
             /\ \/ /\ after[b].list = rec[g][b].list
                   /\ after[b].failed = rec[g][b].failed
                   /\ after[b].known = (rec[g][b].known \/ b \in done)
                \/ /\ b \in Listed(g) \ done /\ ~rec[g][b].known
                   /\ after[b].list = "removed" /\ after[b].failed
                   /\ ~after[b].known
  <2>1. rec[g][b] \in Records
    BY RecordsOf DEF TypeOK
  <2>2. CASE b \in waiting /\ req[b] = "failed"
    <3>1. after[b] = [rec[g][b] EXCEPT !.failed = TRUE, !.list = "removed"]
      BY <2>2
    <3>2. b \in Listed(g) \ done /\ ~rec[g][b].known
      BY <2>2
    <3> QED BY <2>1, <3>1, <3>2, RecordRemoved
  <2>3. CASE ~(b \in waiting /\ req[b] = "failed")
    <3> DEFINE k == rec[g][b].known \/ b \in done
    <3>1. after[b] = [rec[g][b] EXCEPT !.known = k]
      BY <2>3
    <3>2. k \in BOOLEAN
      BY <2>1, RecordFields
    <3>3. k = (rec[g][b].known \/ b \in done)
      OBVIOUS
    <3> HIDE DEF k, after
    <3>4. /\ after[b] \in Records /\ after[b].nodes = rec[g][b].nodes
          /\ after[b].list = rec[g][b].list /\ after[b].failed = rec[g][b].failed
          /\ after[b].known = k
      BY <2>1, <3>1, <3>2, RecordKnown
    <3> QED BY <3>3, <3>4, Zenon
  <2> QED BY <2>2, <2>3
<1>4. after \in [Backing -> Records]
  BY <1>3
<1>5. rec'[g] = after
  BY <1>2 DEF TypeOK
<1> HIDE DEF after, done, waiting
<1>6. /\ \A b \in Backing : IF b \in done THEN marked'[b] \in {"failed", "ours"}
                            ELSE marked'[b] = marked[b]
      /\ marked' \in [Backing -> {"ours", "failed", None}]
  BY <1>2 DEF TypeOK
<1>7. launch' = [launch EXCEPT ![n] =
                    IF rec'[g][seat[n][1]].failed THEN "failed"
                    ELSE IF rec'[g][seat[n][1]].known THEN "complete" ELSE "requesting"]
  BY <1>2, <1>5
<1>8. /\ rec'[g] \in [Backing -> Records] /\ rec' = [rec EXCEPT ![g] = rec'[g]]
      /\ launch[n] = "requesting"
  BY <1>2, <1>4, <1>5
<1>9. ASSUME NEW b \in Backing
      PROVE  /\ rec'[g][b].nodes = rec[g][b].nodes
             /\ \/ /\ rec'[g][b].list = rec[g][b].list
                   /\ rec'[g][b].failed = rec[g][b].failed
                   /\ rec'[g][b].known = (rec[g][b].known \/ b \in Done(g))
                \/ /\ b \in Listed(g) \ Done(g) /\ ~rec[g][b].known
                   /\ rec'[g][b].list = "removed" /\ rec'[g][b].failed
                   /\ ~rec'[g][b].known
  BY <1>1, <1>3, <1>5, Zenon
<1> QED BY <1>1, <1>2, <1>6, <1>7, <1>8, <1>9, Zenon

(* A new adapter lists the backing nodes that are kept, and finds in each  *)
(* slot the one node that names it.                                        *)
LEMMA InitGives ==
    ASSUME TypeOK, NEW g \in Gens, PerformInit(g)
    PROVE  /\ inited[g] = "no"
           /\ \/ UNCHANGED <<rec, inited>>
              \/ /\ inited' = [inited EXCEPT ![g] = "yes"]
                 /\ rec'[g] \in [Backing -> Records] /\ rec' = [rec EXCEPT ![g] = rec'[g]]
                 /\ \A b \in Backing :
                       IF Kept(b)
                       THEN /\ rec'[g][b].list = "listed" /\ rec'[g][b].known
                            /\ \A s \in SlotIds, n \in EndNodes :
                                  OnBackingNode(n, b, s) => rec'[g][b].nodes[s] = n
                       ELSE rec'[g][b] = rec[g][b]
<1> DEFINE on(b, s) == {n \in EndNodes : OnBackingNode(n, b, s)}
           after == [b \in Backing |->
               IF bnode[b] \in {"inuse", "used"} /\ locked[b] /\ marked[b] # None
               THEN [list |-> "listed", known |-> TRUE, failed |-> marked[b] = "failed",
                     nodes |-> [s \in SlotIds |->
                         IF on(b, s) = {} THEN None ELSE CHOOSE n \in on(b, s) : TRUE]]
               ELSE rec[g][b]]
<1>1. inited[g] = "no"
  BY DEF PerformInit
<1>2. CASE \E b \in Backing, s \in SlotIds :
              locked[b] /\ marked[b] # None /\ Cardinality(on(b, s)) > 1
  BY <1>1, <1>2 DEF PerformInit
<1>3. CASE ~\E b \in Backing, s \in SlotIds :
              locked[b] /\ marked[b] # None /\ Cardinality(on(b, s)) > 1
  <2>1. inited' = [inited EXCEPT ![g] = "yes"] /\ rec' = [rec EXCEPT ![g] = after]
    BY <1>3 DEF PerformInit
  <2>2. ASSUME NEW b \in Backing
        PROVE  /\ after[b] \in Records
               /\ IF Kept(b)
                  THEN /\ after[b].list = "listed" /\ after[b].known
                       /\ \A s \in SlotIds, n \in EndNodes :
                             OnBackingNode(n, b, s) => after[b].nodes[s] = n
                  ELSE after[b] = rec[g][b]
    <3>1. CASE ~Kept(b)
      BY <3>1, RecordsOf DEF Kept
    <3>2. CASE Kept(b)
      <4> DEFINE f == [s \in SlotIds |->
                          IF on(b, s) = {} THEN None ELSE CHOOSE n \in on(b, s) : TRUE]
             t == marked[b] = "failed"
      <4>1. after[b] = [list |-> "listed", known |-> TRUE, failed |-> t, nodes |-> f]
        BY <3>2 DEF Kept
      <4>2. f \in [SlotIds -> EndNodes \cup {None}]
        OBVIOUS
      <4>3. ASSUME NEW s \in SlotIds, NEW n \in on(b, s)
            PROVE  f[s] = n
        <5>1. Cardinality(on(b, s)) <= 1
          <6>1. IsFiniteSet(on(b, s))
            BY MetastaticAssumption, FS_Subset
          <6>2. Cardinality(on(b, s)) \in Nat
            BY <6>1, FS_CardinalityType
          <6> HIDE DEF on
          <6> QED BY <1>3, <3>2, <6>2 DEF Kept
        <5>2. on(b, s) = {n}
          <6>1. IsFiniteSet({n}) /\ Cardinality({n}) = 1 /\ {n} \in SUBSET on(b, s)
            BY FS_Singleton
          <6>2. IsFiniteSet(on(b, s))
            BY MetastaticAssumption, FS_Subset
          <6>3. Cardinality({n}) <= Cardinality(on(b, s)) /\ Cardinality(on(b, s)) \in Nat
            BY <6>1, <6>2, FS_Subset, FS_CardinalityType
          <6>4. Cardinality({n}) = Cardinality(on(b, s))
            BY <5>1, <6>1, <6>3
          <6> QED BY <6>1, <6>2, <6>4, FS_Subset
        <5> HIDE DEF on
        <5> QED BY <5>2
      <4>4. after[b] \in Records
        <5>1. t \in BOOLEAN
          OBVIOUS
        <5> HIDE DEF t, f, after
        <5> QED BY <4>1, <4>2, <5>1 DEF Records
      <4> HIDE DEF f, t, after
      <4> QED BY <3>2, <4>1, <4>3, <4>4
    <3> QED BY <3>1, <3>2
  <2>3. rec'[g] = after /\ after \in [Backing -> Records]
    BY <2>1, <2>2 DEF TypeOK
  <2> HIDE DEF after
  <2> QED BY <1>1, <2>1, <2>2, <2>3
<1> QED BY <1>2, <1>3
-----------------------------------------------------------------------------
(* Type correctness *)

LEMMA TypeStep ==
    ASSUME TypeOK, GenInv, [Next]_vars
    PROVE  TypeOK'
<1> USE MetastaticAssumption DEF backing, history, Fault
<1>0. /\ cur \in Gens
      /\ \A g \in Gens : rec[g] \in [Backing -> Records]
      /\ \A g \in Gens, b \in Backing : rec[g][b] \in Records
  BY CurHasBegun, RecordsOf
<1>Q. /\ req \in [Backing -> {"none", "requested", "fulfilled", "failed", "deleted"}]
      /\ \A b \in Backing : \A s \in {"requested", "fulfilled", "failed"} :
            [req EXCEPT ![b] = s] \in
                [Backing -> {"none", "requested", "fulfilled", "failed", "deleted"}]
  BY DEF TypeOK
<1>T. /\ znode \in [EndNodes -> {"none", "building", "ready", "used", "deleting", "gone"}]
      /\ deleter \in [EndNodes -> {"rest", "deallocate", "remove"}]
      /\ gen \in [EndNodes -> Gens]
      /\ bnode \in [Backing -> {"none", "ready", "inuse", "used", "gone"}]
      /\ locked \in [Backing -> BOOLEAN]
  BY DEF TypeOK
<1>R. ASSUME NEW g \in Gens, NEW f \in [Backing -> Records], rec' = [rec EXCEPT ![g] = f]
      PROVE  rec' \in [Gens -> [Backing -> Records]]
  BY <1>R DEF TypeOK
<1>F. ASSUME NEW g \in Gens, NEW b \in Backing, NEW r \in Records,
             rec' = [rec EXCEPT ![g] = [rec[g] EXCEPT ![b] = r]]
      PROVE  rec' \in [Gens -> [Backing -> Records]]
  <2>1. [rec[g] EXCEPT ![b] = r] \in [Backing -> Records]
    BY <1>0
  <2> QED BY <1>F, <1>R, <2>1
<1>1. CASE UNCHANGED vars
  BY <1>1 DEF vars, TypeOK
<1>2. ASSUME NEW g \in Gens, PerformInit(g)
      PROVE  TypeOK'
  <2>1. rec' \in [Gens -> [Backing -> Records]]
        /\ inited' \in [Gens -> {"future", "no", "yes"}]
    <3>0. /\ rec \in [Gens -> [Backing -> Records]]
          /\ inited \in [Gens -> {"future", "no", "yes"}]
      BY DEF TypeOK
    <3>1. \/ UNCHANGED <<rec, inited>>
          \/ /\ inited' = [inited EXCEPT ![g] = "yes"]
             /\ rec'[g] \in [Backing -> Records] /\ rec' = [rec EXCEPT ![g] = rec'[g]]
      BY <1>2, InitGives
    <3> QED BY <1>R, <3>0, <3>1
  <2>2. broken' \in BOOLEAN
    BY <1>2 DEF PerformInit, TypeOK
  <2> QED BY <1>2, <2>1, <2>2 DEF PerformInit, TypeOK
<1>3. ASSUME NEW n \in EndNodes, CreateNode(n)
      PROVE  TypeOK'
  BY <1>0, <1>3 DEF CreateNode, TypeOK
<1>4. ASSUME NEW n \in EndNodes, AllocateBackingNode(n)
      PROVE  TypeOK'
  <2>1. PICK b \in Backing, s \in SlotIds, r \in Records :
              /\ r.list = "listed" /\ r.nodes[s] = None
              /\ \/ /\ req[b] = "none" /\ req' = [req EXCEPT ![b] = "requested"]
                    /\ r = [Absent EXCEPT !.list = "listed"]
                 \/ req' = req /\ r = Deallocated(gen[n], n)[b]
              /\ rec' = [rec EXCEPT ![gen[n]] =
                            [Deallocated(gen[n], n) EXCEPT ![b] = [r EXCEPT !.nodes[s] = n]]]
              /\ seat' = [seat EXCEPT ![n] = <<b, s>>]
              /\ launch' = [launch EXCEPT ![n] = IF r.known THEN "complete" ELSE "requesting"]
    BY <1>4, AllocateGives
  <2>2. gen[n] \in Gens
    BY DEF TypeOK
  <2>3. [r EXCEPT !.nodes[s] = n] \in Records
    BY DEF Records
  <2>4. [Deallocated(gen[n], n) EXCEPT ![b] = [r EXCEPT !.nodes[s] = n]] \in [Backing -> Records]
    BY <2>2, <2>3, DeallocatedRecords
  <2>5. rec' \in [Gens -> [Backing -> Records]]
    BY <1>R, <2>1, <2>2, <2>4
  <2>6. req' \in [Backing -> {"none", "requested", "fulfilled", "failed", "deleted"}]
    <3>1. req' = req \/ req' = [req EXCEPT ![b] = "requested"]
      BY <2>1
    <3> QED BY <1>Q, <3>1
  <2>7. seat' \in [EndNodes -> Places \cup {None}]
        /\ launch' \in [EndNodes -> {"rest", "start", "requesting", "complete", "failed"}]
    BY <2>1 DEF TypeOK, Places
  <2> QED BY <1>4, <2>5, <2>6, <2>7 DEF AllocateBackingNode, TypeOK
<1>5. ASSUME NEW n \in EndNodes, CheckRequests(n)
      PROVE  TypeOK'
  <2>1. PICK g \in Gens : g = gen[n]
    BY DEF TypeOK
  <2>2. rec' \in [Gens -> [Backing -> Records]]
    BY <1>5, <1>R, <2>1, CheckGives
  <2>3. /\ req' \in [Backing -> {"none", "requested", "fulfilled", "failed", "deleted"}]
        /\ bnode' \in [Backing -> {"none", "ready", "inuse", "used", "gone"}]
        /\ marked' \in [Backing -> {"ours", "failed", None}]
        /\ launch' \in [EndNodes -> {"rest", "start", "requesting", "complete", "failed"}]
    <3>1. /\ req' = [b \in Backing |-> IF b \in Done(gen[n]) THEN "deleted" ELSE req[b]]
          /\ bnode' = [b \in Backing |-> IF b \in Done(gen[n]) THEN "inuse" ELSE bnode[b]]
          /\ marked' \in [Backing -> {"ours", "failed", None}]
          /\ \E s \in {"failed", "complete", "requesting"} : launch' = [launch EXCEPT ![n] = s]
      BY <1>5, <2>1, CheckGives
    <3> QED BY <3>1 DEF TypeOK
  <2>4. locked' = [b \in Backing |-> locked[b] \/ b \in Done(gen[n])]
    BY <1>5, <2>1, CheckGives
  <2>5. locked' \in [Backing -> BOOLEAN]
    BY <2>4, Zenon
  <2> QED BY <1>5, <2>2, <2>3, <2>5 DEF CheckRequests, TypeOK
<1>6. ASSUME NEW n \in EndNodes, LaunchComplete(n)
      PROVE  TypeOK'
  BY <1>6 DEF LaunchComplete, TypeOK
<1>7. ASSUME NEW n \in EndNodes, AttemptFails(n)
      PROVE  TypeOK'
  <2>1. gen[n] \in Gens /\ faults' \in 0..MaxFaults
    BY <1>7 DEF AttemptFails, TypeOK
  <2>2. /\ rec' \in [Gens -> [Backing -> Records]]
        /\ marked' \in [Backing -> {"ours", "failed", None}]
    <3>1. CASE UNCHANGED <<rec, marked>>
      BY <3>1 DEF TypeOK
    <3>2. ASSUME NEW b, b \in Listed(gen[n]), rec' = [rec EXCEPT ![gen[n]][b].failed = TRUE],
                 marked' = [marked EXCEPT ![b] = "failed"]
          PROVE  /\ rec' \in [Gens -> [Backing -> Records]]
                 /\ marked' \in [Backing -> {"ours", "failed", None}]
      <4>1. b \in Backing
        BY <3>2 DEF Listed
      <4>2. [rec[gen[n]][b] EXCEPT !.failed = TRUE] \in Records
        BY <1>0, <2>1, <4>1, RecordFails
      <4> QED BY <1>F, <2>1, <3>2, <4>1, <4>2 DEF TypeOK
    <3> QED BY <1>7, <3>1, <3>2 DEF AttemptFails
  <2> QED BY <1>7, <2>1, <2>2 DEF AttemptFails, TypeOK
<1>8. ASSUME NEW n \in EndNodes, AttemptEnds(n)
      PROVE  TypeOK'
  <2>1. gen[n] \in Gens
    BY DEF TypeOK
  <2>2. rec' \in [Gens -> [Backing -> Records]]
    <3>1. rec' = rec \/ rec' = [rec EXCEPT ![gen[n]] = Deallocated(gen[n], n)]
      BY <1>8 DEF AttemptEnds
    <3>2. rec \in [Gens -> [Backing -> Records]]
      BY DEF TypeOK
    <3>3. Deallocated(gen[n], n) \in [Backing -> Records]
      BY <2>1, DeallocatedRecords
    <3> QED BY <1>R, <2>1, <3>1, <3>2, <3>3
  <2>3. /\ launch' \in [EndNodes -> {"rest", "start", "requesting", "complete", "failed"}]
        /\ znode' \in [EndNodes -> {"none", "building", "ready", "used", "deleting", "gone"}]
    <3>1. launch' \in [EndNodes -> {"rest", "start", "requesting", "complete", "failed"}]
      <4>1. PICK t \in {"start", "rest"} : launch' = [launch EXCEPT ![n] = t]
        BY <1>8 DEF AttemptEnds
      <4>2. launch \in [EndNodes -> {"rest", "start", "requesting", "complete", "failed"}]
        BY DEF TypeOK
      <4> QED BY <4>1, <4>2
    <3>2. znode' = znode \/ znode' = [znode EXCEPT ![n] = "used"]
      BY <1>8 DEF AttemptEnds
    <3> QED BY <1>T, <3>1, <3>2
  <2> QED BY <1>8, <2>2, <2>3 DEF AttemptEnds, TypeOK
<1>9. ASSUME NEW n \in EndNodes, ZuulUses(n) \/ StartDelete(n)
      PROVE  TypeOK'
  <2>1. znode' \in [EndNodes -> {"none", "building", "ready", "used", "deleting", "gone"}]
    BY <1>T, <1>9 DEF ZuulUses, StartDelete
  <2>2. gen' \in [EndNodes -> Gens]
    BY <1>0, <1>T, <1>9 DEF ZuulUses, StartDelete
  <2>3. deleter' \in [EndNodes -> {"rest", "deallocate", "remove"}]
    BY <1>T, <1>9 DEF ZuulUses, StartDelete
  <2> QED BY <1>9, <2>1, <2>2, <2>3 DEF ZuulUses, StartDelete, TypeOK
<1>10. ASSUME NEW n \in EndNodes, DeallocateBackingNode(n)
       PROVE  TypeOK'
  <2>1. gen[n] \in Gens
    BY DEF TypeOK
  <2>2. rec' \in [Gens -> [Backing -> Records]]
    BY <1>R, <1>10, <2>1, DeallocatedRecords DEF DeallocateBackingNode
  <2> QED BY <1>10, <2>2 DEF DeallocateBackingNode, TypeOK
<1>11. ASSUME NEW n \in EndNodes, DeleteNode(n)
       PROVE  TypeOK'
  <2>1. /\ znode' \in [EndNodes -> {"none", "building", "ready", "used", "deleting", "gone"}]
        /\ deleter' \in [EndNodes -> {"rest", "deallocate", "remove"}]
    BY <1>T, <1>11 DEF DeleteNode
  <2>2. data' \in [EndNodes -> Places \cup {None}]
    BY <1>11 DEF DeleteNode, TypeOK
  <2>3. faults' \in 0..MaxFaults
    BY <1>11 DEF DeleteNode, TypeOK
  <2> QED BY <1>11, <2>1, <2>2, <2>3 DEF DeleteNode, TypeOK
<1>12. ASSUME NEW b \in Backing, Nodepool(b)
       PROVE  TypeOK'
  <2>1. req' \in [Backing -> {"none", "requested", "fulfilled", "failed", "deleted"}]
    <3>1. \/ req' = req
          \/ \E s \in {"requested", "fulfilled", "failed"} : req' = [req EXCEPT ![b] = s]
      BY <1>12 DEF Nodepool
    <3> QED BY <1>Q, <3>1
  <2>2. bnode' \in [Backing -> {"none", "ready", "inuse", "used", "gone"}]
    BY <1>12 DEF Nodepool, TypeOK
  <2>3. faults' \in 0..MaxFaults
    BY <1>12 DEF Nodepool, TypeOK
  <2> QED BY <1>12, <2>1, <2>2, <2>3 DEF Nodepool, TypeOK
<1>13. ASSUME NEW b \in Backing, ReleaseBackingNode(b)
       PROVE  TypeOK'
  <2>1. rec'[cur][b] \in Records
    BY <1>0, <1>13, ReleaseGives
  <2>2. rec' \in [Gens -> [Backing -> Records]]
    <3>1. rec' = [rec EXCEPT ![cur] = rec'[cur]]
          /\ rec'[cur] = [rec[cur] EXCEPT ![b] = rec'[cur][b]]
      BY <1>0, <1>13, ReleaseGives
    <3>2. rec'[cur] \in [Backing -> Records]
      BY <1>0, <2>1, <3>1
    <3> QED BY <1>0, <1>R, <3>1, <3>2
  <2>3. /\ bnode' \in [Backing -> {"none", "ready", "inuse", "used", "gone"}]
        /\ locked' \in [Backing -> BOOLEAN]
    <3>1. /\ bnode' = bnode \/ bnode' = [bnode EXCEPT ![b] = "used"]
          /\ locked' = locked \/ locked' = [locked EXCEPT ![b] = FALSE]
      BY <1>13 DEF ReleaseBackingNode
    <3>2. bnode' \in [Backing -> {"none", "ready", "inuse", "used", "gone"}]
      BY <1>T, <3>1
    <3>3. locked' \in [Backing -> BOOLEAN]
      BY <1>T, <3>1
    <3> QED BY <3>2, <3>3
  <2>4. UNCHANGED <<znode, data, launch, seat, gen, deleter, req, marked, inited, history, faults>>
    BY <1>13 DEF ReleaseBackingNode
  <2> QED BY <2>2, <2>3, <2>4 DEF TypeOK
<1>14. ASSUME NEW b \in Backing, MaxAge(b)
       PROVE  TypeOK'
  <2>1. rec' = [rec EXCEPT ![cur] = [rec[cur] EXCEPT ![b] =
                    [rec[cur][b] EXCEPT !.failed = TRUE]]]
    BY <1>14 DEF MaxAge
  <2>2. rec' \in [Gens -> [Backing -> Records]]
    BY <1>0, <1>F, <2>1, RecordFails
  <2> QED BY <1>14, <2>2 DEF MaxAge, TypeOK
<1>15. CASE Crash
  <2>1. rec' \in [Gens -> [Backing -> Records]]
    BY <1>15, AbsentRecord DEF Crash
  <2>2. locked' \in [Backing -> BOOLEAN]
        /\ bnode' \in [Backing -> {"none", "ready", "inuse", "used", "gone"}]
    BY <1>15 DEF Crash, TypeOK
  <2>3. /\ launch' \in [EndNodes -> {"rest", "start", "requesting", "complete", "failed"}]
        /\ deleter' \in [EndNodes -> {"rest", "deallocate", "remove"}]
        /\ seat' \in [EndNodes -> Places \cup {None}] /\ gen' \in [EndNodes -> Gens]
        /\ inited' \in [Gens -> {"future", "no", "yes"}] /\ broken' \in BOOLEAN
    BY <1>0, <1>15 DEF Crash
  <2>4. upsets' \in 0..MaxUpsets
    BY <1>15 DEF Crash, TypeOK
  <2> QED BY <1>15, <2>1, <2>2, <2>3, <2>4 DEF Crash, TypeOK
<1>16. CASE Reconfigure
  <2>1. mixed' \in BOOLEAN
    BY <1>16, Zenon DEF Reconfigure, TypeOK
  <2>2. inited' \in [Gens -> {"future", "no", "yes"}]
    BY <1>16 DEF Reconfigure, TypeOK
  <2>3. upsets' \in 0..MaxUpsets /\ faults' \in 0..MaxFaults
    BY <1>16 DEF Reconfigure, TypeOK
  <2> QED BY <1>16, <2>1, <2>2, <2>3 DEF Reconfigure, TypeOK
<1> QED
  BY <1>1, <1>2, <1>3, <1>4, <1>5, <1>6, <1>7, <1>8, <1>9, <1>10, <1>11, <1>12, <1>13, <1>14,
     <1>15, <1>16
     DEF Next, StateMachine, Deletion
-----------------------------------------------------------------------------
(* What a step makes of a record *)

(* The steps in which a node leaves its slots *)
Leaves(n) == AllocateBackingNode(n) \/ AttemptEnds(n) \/ DeallocateBackingNode(n)

(* A record stays, but that it may fail, be dropped while it waits or is   *)
(* empty, and lose nodes that leave.                                       *)
Follows(g, b) ==
    /\ rec'[g][b].known = rec[g][b].known
    /\ rec[g][b].failed => rec'[g][b].failed
    /\ \/ rec'[g][b].list = rec[g][b].list
       \/ /\ rec'[g][b].list = "removed" /\ rec'[g][b].failed /\ rec[g][b].list = "listed"
          /\ ~rec[g][b].known \/ IsEmpty(g, b)
    /\ \A s \in SlotIds, n \in EndNodes :
          rec[g][b].nodes[s] = n => rec'[g][b].nodes[s] = n \/ Leaves(n)

(* Or its request is found fulfilled, *)
Learns(g, b) ==
    /\ \E n \in EndNodes : CheckRequests(n) /\ g = gen[n]
    /\ b \in Done(g) /\ rec'[g][b].known
    /\ rec'[g][b].list = rec[g][b].list /\ rec'[g][b].failed = rec[g][b].failed
    /\ rec'[g][b].nodes = rec[g][b].nodes

(* or it begins, with a request *)
Begins(g, b) ==
    /\ \E n \in EndNodes : AllocateBackingNode(n) /\ g = gen[n]
    /\ req[b] = "none" /\ req'[b] = "requested"
    /\ rec'[g][b].list = "listed" /\ ~rec'[g][b].known

(* or with what the adapter has read. *)
Recovers(g, b) ==
    /\ PerformInit(g) /\ inited[g] = "no" /\ Kept(b)
    /\ rec'[g][b].list = "listed" /\ rec'[g][b].known
    /\ \A s \in SlotIds, n \in EndNodes : OnBackingNode(n, b, s) => rec'[g][b].nodes[s] = n

LEMMA FollowsFailure ==
    ASSUME TypeOK, NEW g \in Gens, NEW b \in Backing, NEW h \in Gens, NEW c \in Backing,
           rec' = [rec EXCEPT ![h] = [rec[h] EXCEPT ![c] = [rec[h][c] EXCEPT !.failed = TRUE]]]
    PROVE  Follows(g, b)
<1>1. rec[g] \in [Backing -> Records] /\ rec[h] \in [Backing -> Records] /\ rec[h][c] \in Records
  BY RecordsOf
<1>2. CASE g = h /\ b = c
  <2>1. rec'[g][b] = [rec[g][b] EXCEPT !.failed = TRUE]
    BY <1>1, <1>2 DEF TypeOK
  <2> QED BY <1>1, <1>2, <2>1, RecordFails DEF Follows
<1>3. CASE ~(g = h /\ b = c)
  <2>1. rec'[g][b] = rec[g][b]
    BY <1>1, <1>3 DEF TypeOK
  <2> QED BY <2>1 DEF Follows
<1> QED BY <1>2, <1>3

LEMMA FollowsDeallocation ==
    ASSUME TypeOK, NEW n \in EndNodes, Leaves(n), NEW g \in Gens, NEW b \in Backing,
           rec'[g][b] = Deallocated(g, n)[b]
    PROVE  Follows(g, b)
  BY DeallocatedRecords DEF Follows

LEMMA RecordsMove ==
    ASSUME TypeOK, GenInv, [Next]_vars, NEW g \in Gens, NEW b \in Backing
    PROVE  \/ Follows(g, b) \/ Learns(g, b) \/ Begins(g, b) \/ Recovers(g, b)
           \/ Crash /\ rec'[g][b] = Absent
<1>0. /\ cur \in Gens /\ rec[g] \in [Backing -> Records] /\ rec[g][b] \in Records
  BY CurHasBegun, RecordsOf
<1>1. CASE rec'[g][b] = rec[g][b]
  BY <1>1 DEF Follows
<1>2. ASSUME NEW h \in Gens, PerformInit(h)
      PROVE  Follows(g, b) \/ Recovers(g, b)
  <2>1. CASE rec'[g][b] = rec[g][b]
    BY <2>1 DEF Follows
  <2>2. CASE rec'[g][b] # rec[g][b]
    <3>1. g = h /\ rec' # rec
      BY <1>2, <2>2, InitGives DEF TypeOK
    <3>2. PerformInit(g)
      BY <1>2, <3>1
    <3> QED BY <2>2, <3>1, <3>2, InitGives DEF Recovers
  <2> QED BY <2>1, <2>2
<1>3. ASSUME NEW n \in EndNodes, AllocateBackingNode(n)
      PROVE  Follows(g, b) \/ Begins(g, b)
  <2>1. PICK c \in Backing, s \in SlotIds, r \in Records :
              /\ r.list = "listed" /\ r.nodes[s] = None
              /\ \/ /\ req[c] = "none" /\ req' = [req EXCEPT ![c] = "requested"]
                    /\ r = [Absent EXCEPT !.list = "listed"]
                 \/ req' = req /\ r = Deallocated(gen[n], n)[c]
              /\ rec' = [rec EXCEPT ![gen[n]] =
                            [Deallocated(gen[n], n) EXCEPT ![c] = [r EXCEPT !.nodes[s] = n]]]
              /\ seat' = [seat EXCEPT ![n] = <<c, s>>]
              /\ launch' = [launch EXCEPT ![n] = IF r.known THEN "complete" ELSE "requesting"]
    BY <1>3, AllocateGives
  <2>2. gen[n] \in Gens /\ Leaves(n)
    BY <1>3 DEF TypeOK, Leaves
  <2>3. Deallocated(gen[n], n) \in [Backing -> Records]
    BY <2>2, DeallocatedRecords
  <2>4. CASE g # gen[n]
    <3>1. rec'[g][b] = rec[g][b]
      BY <2>1, <2>4 DEF TypeOK
    <3> QED BY <1>1, <3>1 DEF Follows
  <2>5. CASE g = gen[n] /\ b # c
    <3>1. rec'[g][b] = Deallocated(g, n)[b]
      BY <2>1, <2>3, <2>5 DEF TypeOK
    <3> QED BY <2>2, <3>1, FollowsDeallocation
  <2>6. CASE g = gen[n] /\ b = c
    <3>1. rec'[g][b] = [r EXCEPT !.nodes[s] = n]
      BY <2>1, <2>3, <2>6 DEF TypeOK
    <3>2. /\ rec'[g][b].list = "listed" /\ rec'[g][b].known = r.known
          /\ rec'[g][b].failed = r.failed
          /\ \A t \in SlotIds : t # s => rec'[g][b].nodes[t] = r.nodes[t]
      BY <2>1, <3>1 DEF Records
    <3>3. CASE req[c] = "none" /\ req' = [req EXCEPT ![c] = "requested"]
               /\ r = [Absent EXCEPT !.list = "listed"]
      <4>1. req'[b] = "requested"
        BY <2>6, <3>3 DEF TypeOK
      <4> QED BY <1>3, <2>6, <3>2, <3>3, <4>1, AbsentRecord DEF Begins
    <3>4. CASE req' = req /\ r = Deallocated(gen[n], n)[c]
      <4>1. /\ r.list = rec[g][b].list /\ r.known = rec[g][b].known
            /\ r.failed = rec[g][b].failed
            /\ \A t \in SlotIds, m \in EndNodes \ {n} : rec[g][b].nodes[t] = m => r.nodes[t] = m
        BY <2>6, <3>4, DeallocatedRecords
      <4>2. ASSUME NEW t \in SlotIds, NEW m \in EndNodes, rec[g][b].nodes[t] = m
            PROVE  rec'[g][b].nodes[t] = m \/ Leaves(m)
        <5>1. CASE m = n
          BY <2>2, <5>1
        <5>2. CASE m # n
          <6>1. r.nodes[t] = m /\ m # None
            BY <4>1, <4>2, <5>2, MetastaticAssumption
          <6> QED BY <2>1, <3>2, <6>1
        <5> QED BY <5>1, <5>2
      <4>3. /\ rec'[g][b].known = rec[g][b].known /\ rec'[g][b].failed = rec[g][b].failed
            /\ rec'[g][b].list = rec[g][b].list
        BY <2>1, <3>2, <4>1, Zenon
      <4> QED BY <4>2, <4>3, Zenon DEF Follows
    <3> QED BY <2>1, <3>3, <3>4
  <2> QED BY <2>4, <2>5, <2>6
<1>4. ASSUME NEW n \in EndNodes, CheckRequests(n)
      PROVE  Follows(g, b) \/ Learns(g, b)
  <2>1. CASE g # gen[n]
    <3>1. rec'[g][b] = rec[g][b]
      BY <1>4, <2>1, CheckGives DEF TypeOK
    <3> QED BY <3>1 DEF Follows
  <2>2. CASE g = gen[n]
    <3>1. /\ rec'[g][b].nodes = rec[g][b].nodes
          /\ \/ /\ rec'[g][b].list = rec[g][b].list
                /\ rec'[g][b].failed = rec[g][b].failed
                /\ rec'[g][b].known = (rec[g][b].known \/ b \in Done(g))
             \/ /\ b \in Listed(g) \ Done(g) /\ ~rec[g][b].known
                /\ rec'[g][b].list = "removed" /\ rec'[g][b].failed
                /\ ~rec'[g][b].known
      BY <1>4, <2>2, CheckGives
    <3>2. rec'[g][b].known \in BOOLEAN
      BY TypeStep, RecordFields DEF TypeOK
    <3>3. CASE b \in Done(g)
      <4>1. rec'[g][b].known
        BY <3>1, <3>3
      <4> QED BY <1>4, <2>2, <3>1, <3>3, <4>1 DEF Learns
    <3>4. CASE b \notin Done(g)
      <4>1. rec[g][b].known \in BOOLEAN
        BY <1>0, RecordFields
      <4>2. rec'[g][b].known = rec[g][b].known
        BY <3>1, <3>2, <3>4, <4>1
      <4>3. b \in Listed(g) => rec[g][b].list = "listed"
        BY DEF Listed
      <4> QED BY <3>1, <4>2, <4>3 DEF Follows
    <3> QED BY <3>3, <3>4
  <2> QED BY <2>1, <2>2
<1>5. ASSUME NEW n \in EndNodes, AttemptFails(n)
      PROVE  Follows(g, b)
  <2>1. CASE UNCHANGED rec
    BY <2>1 DEF Follows
  <2>2. CASE /\ seat[n][1] \in Listed(gen[n])
             /\ rec' = [rec EXCEPT ![gen[n]][seat[n][1]].failed = TRUE]
    <3>1. gen[n] \in Gens /\ seat[n][1] \in Backing
      BY <2>2 DEF TypeOK, Listed
    <3> QED BY <2>2, <3>1, FollowsFailure
  <2> QED BY <1>5, <2>1, <2>2 DEF AttemptFails
<1>6. ASSUME NEW n \in EndNodes, AttemptEnds(n) \/ DeallocateBackingNode(n)
      PROVE  Follows(g, b)
  <2>1. rec' = rec \/ rec' = [rec EXCEPT ![gen[n]] = Deallocated(gen[n], n)]
    BY <1>6 DEF AttemptEnds, DeallocateBackingNode
  <2>2. rec'[g][b] = rec[g][b] \/ rec'[g][b] = Deallocated(g, n)[b]
    <3>1. rec \in [Gens -> [Backing -> Records]]
      BY DEF TypeOK
    <3>2. g = gen[n] \/ g # gen[n]
      OBVIOUS
    <3> QED BY <2>1, <3>1, <3>2
  <2> QED BY <1>1, <1>6, <2>2, FollowsDeallocation DEF Leaves, Follows
<1>7. ASSUME NEW c \in Backing, ReleaseBackingNode(c)
      PROVE  Follows(g, b)
  <2>0. /\ rec[cur] \in [Backing -> Records] /\ rec[cur][c] \in Records
        /\ c \in Listed(cur) /\ IsEmpty(cur, c)
    BY <1>0, <1>7, RecordsOf DEF ReleaseBackingNode
  <2>1. /\ rec' = [rec EXCEPT ![cur] = rec'[cur]]
        /\ rec'[cur] = [rec[cur] EXCEPT ![c] = rec'[cur][c]]
        /\ rec'[cur][c] = [rec[cur][c] EXCEPT !.failed = TRUE, !.list = "removed"]
    BY <1>0, <1>7, ReleaseGives
  <2>2. CASE g = cur /\ b = c
    <3>1. /\ rec'[g][b].failed /\ rec'[g][b].list = "removed"
          /\ rec'[g][b].known = rec[g][b].known /\ rec'[g][b].nodes = rec[g][b].nodes
      BY <2>0, <2>1, <2>2, RecordRemoved
    <3>2. rec[g][b].list = "listed" /\ IsEmpty(g, b)
      BY <2>0, <2>2 DEF Listed
    <3> QED BY <3>1, <3>2 DEF Follows
  <2>3. CASE ~(g = cur /\ b = c)
    <3>1. rec'[g][b] = rec[g][b]
      <4>1. rec \in [Gens -> [Backing -> Records]]
        BY DEF TypeOK
      <4>2. CASE g # cur
        BY <2>1, <4>1, <4>2
      <4>3. CASE g = cur /\ b # c
        BY <1>0, <2>1, <4>3
      <4> QED BY <2>3, <4>2, <4>3
    <3> QED BY <3>1 DEF Follows
  <2> QED BY <2>2, <2>3
<1>8. ASSUME NEW c \in Backing, MaxAge(c)
      PROVE  Follows(g, b)
  <2>1. rec' = [rec EXCEPT ![cur] = [rec[cur] EXCEPT ![c] =
                    [rec[cur][c] EXCEPT !.failed = TRUE]]]
    BY <1>8 DEF MaxAge
  <2> QED BY <1>0, <2>1, FollowsFailure
<1>9. ASSUME Crash
      PROVE  rec'[g][b] = Absent
  BY <1>9 DEF Crash
<1>10. ASSUME NEW n \in EndNodes,
              \/ CreateNode(n) \/ LaunchComplete(n) \/ ZuulUses(n) \/ StartDelete(n)
              \/ DeleteNode(n)
       PROVE  rec' = rec
  BY <1>10 DEF CreateNode, LaunchComplete, ZuulUses, StartDelete, DeleteNode
<1>11. ASSUME NEW c \in Backing, Nodepool(c)
       PROVE  rec' = rec
  BY <1>11 DEF Nodepool
<1>12. CASE UNCHANGED vars \/ Reconfigure
  <2>1. rec' = rec
    BY <1>12 DEF vars, Reconfigure
  <2> QED BY <1>1, <2>1
<1> QED
  BY <1>1, <1>2, <1>3, <1>4, <1>5, <1>6, <1>7, <1>8, <1>9, <1>10, <1>11, <1>12
     DEF Next, StateMachine, Deletion
-----------------------------------------------------------------------------
(* The invariant that always holds *)

(* A backing node goes with its request. *)
Backs(b) ==
    /\ req[b] \in {"none", "requested", "failed"} => bnode[b] = "none"
    /\ req[b] = "fulfilled" => bnode[b] = "ready"
    /\ req[b] = "deleted" => bnode[b] \in {"inuse", "used", "gone"}

LEMMA RequestsMove ==
    ASSUME TypeOK, GenInv, BackingInv, [Next]_vars, NEW b \in Backing
    PROVE  /\ Backs(b)'
           /\ req[b] = "deleted" => req'[b] = "deleted"
           /\ req[b] # "none" => req'[b] # "none"
<1>0. /\ req[b] \in {"none", "requested", "fulfilled", "failed", "deleted"}
      /\ Backs(b) /\ cur \in Gens /\ \A g \in Gens : rec[g][b].known => req[b] = "deleted"
  BY CurHasBegun DEF TypeOK, BackingInv, Backs
<1>q. /\ req \in [Backing -> {"none", "requested", "fulfilled", "failed", "deleted"}]
      /\ bnode \in [Backing -> {"none", "ready", "inuse", "used", "gone"}]
  BY DEF TypeOK
<1>1. CASE req'[b] = req[b] /\ bnode'[b] = bnode[b]
  BY <1>0, <1>1 DEF Backs
<1>2. ASSUME NEW n \in EndNodes, AllocateBackingNode(n)
      PROVE  /\ \/ req'[b] = req[b]
                \/ req[b] = "none" /\ req'[b] = "requested"
             /\ bnode'[b] = bnode[b]
  <2>1. req' = req \/ \E c \in Backing : req[c] = "none" /\ req' = [req EXCEPT ![c] = "requested"]
    BY <1>2, AllocateChanges
  <2>2. bnode' = bnode
    BY <1>2 DEF AllocateBackingNode
  <2> QED BY <1>q, <2>1, <2>2
<1>3. ASSUME NEW n \in EndNodes, CheckRequests(n)
      PROVE  \/ req'[b] = req[b] /\ bnode'[b] = bnode[b]
             \/ req[b] = "fulfilled" /\ req'[b] = "deleted" /\ bnode'[b] = "inuse"
  BY <1>3, CheckGives DEF Done
<1>4. ASSUME NEW c \in Backing, Nodepool(c)
      PROVE  \/ req'[b] = req[b] /\ bnode'[b] = bnode[b]
             \/ req[b] = "requested" /\ req'[b] = "fulfilled" /\ bnode'[b] = "ready"
             \/ req[b] = "requested" /\ req'[b] = "failed" /\ bnode'[b] = bnode[b]
             \/ bnode[b] = "used" /\ bnode'[b] = "gone" /\ req'[b] = req[b]
  BY <1>4 DEF Nodepool, TypeOK
<1>5. ASSUME NEW c \in Backing, ReleaseBackingNode(c)
      PROVE  \/ req'[b] = req[b] /\ bnode'[b] = bnode[b]
             \/ req[b] = "deleted" /\ req'[b] = req[b] /\ bnode'[b] = "used"
  BY <1>0, <1>5 DEF ReleaseBackingNode, TypeOK
<1>6. ASSUME Crash
      PROVE  /\ req'[b] = req[b]
             /\ \/ bnode'[b] = bnode[b]
                \/ bnode[b] = "inuse" /\ bnode'[b] = "used"
  <2>1. /\ req' = req
        /\ \/ bnode' = bnode
           \/ \E c \in Backing : bnode[c] = "inuse" /\ bnode' = [bnode EXCEPT ![c] = "used"]
    BY <1>6 DEF Crash, Listed
  <2> QED BY <1>q, <2>1
<1>7. ASSUME NEW n \in EndNodes,
             \/ CreateNode(n) \/ LaunchComplete(n) \/ ZuulUses(n) \/ StartDelete(n)
             \/ DeleteNode(n) \/ AttemptFails(n) \/ AttemptEnds(n) \/ DeallocateBackingNode(n)
      PROVE  req' = req /\ bnode' = bnode
  BY <1>7
     DEF CreateNode, LaunchComplete, ZuulUses, StartDelete, DeleteNode, AttemptFails,
         AttemptEnds, DeallocateBackingNode, backing
<1>8. ASSUME \/ UNCHANGED vars \/ Reconfigure \/ \E c \in Backing : MaxAge(c)
             \/ \E g \in Gens : PerformInit(g)
      PROVE  req' = req /\ bnode' = bnode
  BY <1>8 DEF vars, Reconfigure, MaxAge, PerformInit, backing
<1>9. \/ req'[b] = req[b] /\ bnode'[b] = bnode[b]
      \/ req[b] = "none" /\ req'[b] = "requested" /\ bnode'[b] = bnode[b]
      \/ req[b] = "fulfilled" /\ req'[b] = "deleted" /\ bnode'[b] = "inuse"
      \/ req[b] = "requested" /\ req'[b] = "fulfilled" /\ bnode'[b] = "ready"
      \/ req[b] = "requested" /\ req'[b] = "failed" /\ bnode'[b] = bnode[b]
      \/ bnode[b] = "used" /\ bnode'[b] = "gone" /\ req'[b] = req[b]
      \/ req[b] = "deleted" /\ req'[b] = req[b] /\ bnode'[b] = "used"
      \/ bnode[b] = "inuse" /\ bnode'[b] = "used" /\ req'[b] = req[b]
  BY <1>2, <1>3, <1>4, <1>5, <1>6, <1>7, <1>8 DEF Next, StateMachine, Deletion
<1> QED BY <1>0, <1>9 DEF Backs

LEMMA BackingStep ==
    ASSUME TypeOK, GenInv, BackingInv, [Next]_vars
    PROVE  BackingInv'
<1> SUFFICES ASSUME NEW b \in Backing, NEW g \in Gens
             PROVE  /\ Backs(b)'
                    /\ rec'[g][b].known => req'[b] = "deleted"
                    /\ rec'[g][b].list = "removed" => rec'[g][b].failed
                    /\ rec'[g][b].list # "absent" => req'[b] # "none"
  <2>1. Gens # {}
    BY CurHasBegun
  <2> QED BY <2>1 DEF BackingInv, Backs
<1>1. /\ rec[g][b].known => req[b] = "deleted"
      /\ rec[g][b].list = "removed" => rec[g][b].failed
      /\ rec[g][b].list # "absent" => req[b] # "none"
      /\ Backs(b)
  BY DEF BackingInv, Backs
<1>2. /\ Backs(b)'
      /\ req[b] = "deleted" => req'[b] = "deleted"
      /\ req[b] # "none" => req'[b] # "none"
  BY RequestsMove
<1>3. CASE Follows(g, b)
  BY <1>1, <1>2, <1>3 DEF Follows
<1>4. CASE Learns(g, b)
  <2>1. req'[b] = "deleted"
    BY <1>4, CheckGives DEF Learns, TypeOK
  <2> QED BY <1>1, <1>2, <1>4, <2>1 DEF Learns
<1>5. CASE Begins(g, b)
  BY <1>2, <1>5 DEF Begins
<1>6. CASE Recovers(g, b)
  <2>1. req[b] = "deleted"
    BY <1>1, <1>6 DEF Recovers, Kept, Backs, TypeOK
  <2> QED BY <1>2, <1>6, <2>1 DEF Recovers
<1>7. CASE rec'[g][b] = Absent
  BY <1>2, <1>7, AbsentRecord
<1> QED BY <1>3, <1>4, <1>5, <1>6, <1>7, RecordsMove

(* A record begins when its adapter has read its nodes. *)
LEMMA FreshStep ==
    ASSUME TypeOK, GenInv, FreshInv, [Next]_vars
    PROVE  FreshInv'
<1> SUFFICES ASSUME NEW g \in Gens, inited'[g] # "yes"
             PROVE  rec'[g] = [b \in Backing |-> Absent]
  BY DEF FreshInv
<1>0. rec[g] \in [Backing -> Records]
  BY RecordsOf
<1>1. CASE Crash
  BY <1>1 DEF Crash
<1>2. CASE ~Crash
  <2>1. inited[g] # "yes"
    <3>1. CASE Reconfigure
      <4>1. inited' = [inited EXCEPT ![cur + 1] = "no"] /\ inited[cur + 1] = "future"
        BY <3>1, GenStep DEF Reconfigure
      <4> QED BY <4>1 DEF TypeOK
    <3>2. ASSUME NEW h \in Gens, inited' = [inited EXCEPT ![h] = "yes"]
          PROVE  inited[g] # "yes"
      BY <3>2 DEF TypeOK
    <3> QED BY <1>2, <3>1, <3>2, AdaptersMove
  <2>2. /\ rec[g] = [b \in Backing |-> Absent] /\ Listed(g) = {}
        /\ \A b \in Backing : rec[g][b].list = "absent"
    BY <2>1, AbsentRecord DEF FreshInv, Listed
  <2>3. rec' = rec \/ rec'[g] = rec[g]
    <3>1. ASSUME NEW h \in Gens, PerformInit(h)
          PROVE  rec'[g] = rec[g]
      <4>1. g # h \/ rec' = rec
        BY <2>1, <3>1, InitGives DEF TypeOK
      <4> QED BY <3>1, <4>1, InitGives DEF TypeOK
    <3>2. ASSUME NEW n \in EndNodes, AllocateBackingNode(n)
          PROVE  rec'[g] = rec[g]
      <4>1. gen[n] # g
        BY <2>1, <3>2 DEF AllocateBackingNode
      <4> QED BY <3>2, <4>1 DEF AllocateBackingNode, TypeOK
    <3>3. ASSUME NEW n \in EndNodes, CheckRequests(n)
          PROVE  rec'[g] = rec[g]
      <4>1. CASE g # gen[n]
        BY <3>3, <4>1, CheckGives DEF TypeOK
      <4>2. CASE g = gen[n]
        <5>1. /\ rec'[g] \in [Backing -> Records]
              /\ \A b \in Backing : /\ rec'[g][b].nodes = rec[g][b].nodes
                                    /\ rec'[g][b].list = rec[g][b].list
                                    /\ rec'[g][b].failed = rec[g][b].failed
                                    /\ rec'[g][b].known = (rec[g][b].known \/ FALSE)
          BY <2>2, <3>3, <4>2, CheckGives DEF Done
        <5>2. ASSUME NEW b \in Backing
              PROVE  rec'[g][b] = rec[g][b]
          <6>1. rec[g][b] \in Records /\ rec'[g][b] \in Records
            BY <1>0, <5>1
          <6>2. rec[g][b].known \in BOOLEAN
            BY <6>1, RecordFields
          <6>3. rec'[g][b].known = rec[g][b].known
            BY <5>1, <6>2
          <6> QED BY <5>1, <6>1, <6>3, RecordsEqual
        <5> QED BY <1>0, <5>1, <5>2
      <4> QED BY <4>1, <4>2
    <3>4. ASSUME NEW n \in EndNodes, AttemptFails(n)
          PROVE  rec'[g] = rec[g]
      <4>1. \/ rec' = rec
            \/ /\ seat[n][1] \in Listed(gen[n])
               /\ rec' = [rec EXCEPT ![gen[n]][seat[n][1]].failed = TRUE]
        BY <3>4 DEF AttemptFails
      <4> QED BY <2>2, <4>1 DEF TypeOK
    <3>5. ASSUME NEW n \in EndNodes, AttemptEnds(n) \/ DeallocateBackingNode(n)
          PROVE  rec'[g] = rec[g]
      <4>1. rec' = rec \/ rec' = [rec EXCEPT ![gen[n]] = Deallocated(gen[n], n)]
        BY <3>5 DEF AttemptEnds, DeallocateBackingNode
      <4>2. Deallocated(g, n) = rec[g]
        BY <1>0, <2>2 DEF Deallocated
      <4> QED BY <4>1, <4>2 DEF TypeOK
    <3>6. ASSUME NEW c \in Backing, ReleaseBackingNode(c) \/ MaxAge(c)
          PROVE  rec'[g] = rec[g]
      <4>1. cur \in Gens /\ cur # g
        BY <2>1, <3>6, CurHasBegun DEF ReleaseBackingNode, MaxAge
      <4> QED BY <3>6, <4>1 DEF ReleaseBackingNode, MaxAge, TypeOK
    <3>7. ASSUME NEW n \in EndNodes,
                 \/ CreateNode(n) \/ LaunchComplete(n) \/ ZuulUses(n) \/ StartDelete(n)
                 \/ DeleteNode(n)
          PROVE  rec' = rec
      BY <3>7 DEF CreateNode, LaunchComplete, ZuulUses, StartDelete, DeleteNode
    <3>8. CASE UNCHANGED vars \/ Reconfigure \/ \E c \in Backing : Nodepool(c)
      BY <3>8 DEF vars, Reconfigure, Nodepool
    <3> QED
      BY <1>2, <3>1, <3>2, <3>3, <3>4, <3>5, <3>6, <3>7, <3>8
         DEF Next, StateMachine, Deletion
  <2> QED BY <2>2, <2>3
<1> QED BY <1>1, <1>2

LEMMA NodeStep ==
    ASSUME TypeOK, NodeInv, [Next]_vars
    PROVE  NodeInv'
<1> SUFFICES ASSUME NEW n \in EndNodes
             PROVE  /\ znode'[n] \in {"none", "building", "gone"} => data'[n] = None
                    /\ launch'[n] # "rest" => znode'[n] = "building"
                    /\ deleter'[n] # "rest" => znode'[n] = "deleting"
                    /\ launch'[n] \in {"requesting", "complete"} => seat'[n] \in Places
  BY DEF NodeInv
<1>0. /\ znode[n] \in {"none", "building", "gone"} => data[n] = None
      /\ launch[n] # "rest" => znode[n] = "building"
      /\ deleter[n] # "rest" => znode[n] = "deleting"
      /\ launch[n] \in {"requesting", "complete"} => seat[n] \in Places
  BY DEF NodeInv
<1>1. ASSUME NEW m \in EndNodes, AllocateBackingNode(m)
      PROVE  NodeInv'
  <2>1. PICK b \in Backing, s \in SlotIds : seat' = [seat EXCEPT ![m] = <<b, s>>]
    BY <1>1, AllocateChanges
  <2>2. launch[m] = "start" /\ UNCHANGED <<znode, data, deleter>>
        /\ \E t : launch' = [launch EXCEPT ![m] = t]
    BY <1>1 DEF AllocateBackingNode
  <2> QED BY <2>1, <2>2 DEF NodeInv, TypeOK, Places
<1>2. ASSUME NEW m \in EndNodes, CheckRequests(m)
      PROVE  NodeInv'
  <2>1. launch[m] = "requesting" /\ UNCHANGED <<znode, data, deleter, seat>>
        /\ \E t : launch' = [launch EXCEPT ![m] = t]
    BY <1>2 DEF CheckRequests
  <2> QED BY <2>1 DEF NodeInv, TypeOK
<1>3. ASSUME NEW m \in EndNodes, CreateNode(m) \/ LaunchComplete(m) \/ AttemptFails(m)
      PROVE  NodeInv'
  <2>1. CASE CreateNode(m)
    BY <2>1 DEF CreateNode, NodeInv, TypeOK
  <2>2. CASE LaunchComplete(m)
    BY <2>2 DEF LaunchComplete, NodeInv, TypeOK
  <2>3. CASE AttemptFails(m)
    BY <2>3 DEF AttemptFails, NodeInv, TypeOK
  <2> QED BY <1>3, <2>1, <2>2, <2>3
<1>4. ASSUME NEW m \in EndNodes, AttemptEnds(m)
      PROVE  NodeInv'
  BY <1>4 DEF AttemptEnds, NodeInv, TypeOK
<1>5. ASSUME NEW m \in EndNodes, ZuulUses(m) \/ StartDelete(m)
      PROVE  NodeInv'
  BY <1>5 DEF ZuulUses, StartDelete, NodeInv, TypeOK
<1>6. ASSUME NEW m \in EndNodes, DeallocateBackingNode(m) \/ DeleteNode(m)
      PROVE  NodeInv'
  BY <1>6 DEF DeallocateBackingNode, DeleteNode, NodeInv, TypeOK
<1>7. CASE Crash
  BY <1>7 DEF Crash, NodeInv, TypeOK
<1>8. ASSUME \/ UNCHANGED vars \/ Reconfigure \/ \E g \in Gens : PerformInit(g)
             \/ \E c \in Backing : Nodepool(c) \/ ReleaseBackingNode(c) \/ MaxAge(c)
      PROVE  UNCHANGED <<znode, data, launch, deleter, seat>>
  BY <1>8 DEF vars, Reconfigure, PerformInit, Nodepool, ReleaseBackingNode, MaxAge
<1> QED
  BY <1>0, <1>1, <1>2, <1>3, <1>4, <1>5, <1>6, <1>7, <1>8
     DEF Next, StateMachine, Deletion, NodeInv
-----------------------------------------------------------------------------
(* Steps, while one adapter works at a time *)

(* Only reading its nodes makes an adapter ready. *)
LEMMA ReadyByInit ==
    ASSUME TypeOK, GenInv, [Next]_vars, NEW g \in Gens, inited'[g] = "yes", inited[g] # "yes"
    PROVE  PerformInit(g)
<1>0. inited \in [Gens -> {"future", "no", "yes"}]
  BY DEF TypeOK
<1>1. ~Reconfigure /\ ~Crash
  BY <1>0, GenStep DEF Reconfigure, Crash
<1>2. PICK h \in Gens : PerformInit(h) /\ inited' = [inited EXCEPT ![h] = "yes"]
  BY <1>1, AdaptersMove
<1>3. h = g
  BY <1>0, <1>2
<1> QED BY <1>2, <1>3

LEMMA WorkStep ==
    ASSUME AlwaysInv, WorkInv, [Next]_vars, ~mixed'
    PROVE  WorkInv'
<1>0. TypeOK /\ GenInv
  BY DEF AlwaysInv
<1>1. CASE Reconfigure
  <2>1. \A n \in EndNodes : launch'[n] = "rest" /\ deleter'[n] = "rest"
    BY <1>1 DEF Reconfigure
  <2> QED BY <2>1 DEF WorkInv
<1>2. CASE Crash
  BY <1>2 DEF Crash, WorkInv
<1>3. CASE ~Reconfigure /\ ~Crash
  <2>1. cur' = cur
    BY <1>0, <1>3, GenStep
  <2>2. ASSUME NEW n \in EndNodes, CreateNode(n)
        PROVE  WorkInv'
    BY <1>0, <2>1, <2>2 DEF CreateNode, WorkInv, TypeOK
  <2>3. ASSUME NEW n \in EndNodes, StartDelete(n)
        PROVE  WorkInv'
    BY <1>0, <2>1, <2>3 DEF StartDelete, WorkInv, TypeOK
  <2>4. ASSUME NEW n \in EndNodes,
               \/ AllocateBackingNode(n) \/ CheckRequests(n) \/ LaunchComplete(n)
               \/ AttemptFails(n) \/ AttemptEnds(n)
        PROVE  /\ UNCHANGED <<gen, deleter>> /\ launch[n] # "rest"
               /\ \E t : launch' = [launch EXCEPT ![n] = t]
    BY <2>4
       DEF AllocateBackingNode, CheckRequests, LaunchComplete, AttemptFails, AttemptEnds
  <2>5. ASSUME NEW n \in EndNodes, DeallocateBackingNode(n) \/ DeleteNode(n)
        PROVE  /\ UNCHANGED <<gen, launch>> /\ deleter[n] # "rest"
               /\ \E t : deleter' = [deleter EXCEPT ![n] = t]
    BY <2>5 DEF DeallocateBackingNode, DeleteNode
  <2>6. ASSUME \/ UNCHANGED vars \/ \E g \in Gens : PerformInit(g)
               \/ \E n \in EndNodes : ZuulUses(n)
               \/ \E c \in Backing : Nodepool(c) \/ ReleaseBackingNode(c) \/ MaxAge(c)
        PROVE  UNCHANGED <<gen, launch, deleter>>
    BY <2>6 DEF vars, PerformInit, ZuulUses, Nodepool, ReleaseBackingNode, MaxAge
  <2>7. \/ WorkInv' \/ UNCHANGED <<gen, launch, deleter>>
        \/ \E n \in EndNodes : /\ UNCHANGED <<gen, deleter>> /\ launch[n] # "rest"
                               /\ \E t : launch' = [launch EXCEPT ![n] = t]
        \/ \E n \in EndNodes : /\ UNCHANGED <<gen, launch>> /\ deleter[n] # "rest"
                               /\ \E t : deleter' = [deleter EXCEPT ![n] = t]
    BY <1>3, <2>2, <2>3, <2>4, <2>5, <2>6 DEF Next, StateMachine, Deletion
  <2> QED BY <1>0, <2>1, <2>7 DEF WorkInv, TypeOK
<1> QED BY <1>1, <1>2, <1>3

(* A backing node is kept until it is released. *)
LEMMA KeptStays ==
    ASSUME AlwaysInv, [Next]_vars, NEW b \in Backing, Kept(b)
    PROVE  Kept(b)' \/ ReleaseBackingNode(b)
<1>0. /\ TypeOK /\ GenInv /\ MetastaticAssumption /\ req[b] = "deleted"
      /\ locked[b] /\ marked[b] # None /\ bnode[b] \in {"inuse", "used"}
  BY MetastaticAssumption DEF AlwaysInv, BackingInv, Kept, TypeOK
<1>q. /\ bnode \in [Backing -> {"none", "ready", "inuse", "used", "gone"}]
      /\ locked \in [Backing -> BOOLEAN] /\ marked \in [Backing -> {"ours", "failed", None}]
  BY <1>0 DEF TypeOK
<1>1. ASSUME UNCHANGED <<bnode, locked, marked>>
      PROVE  Kept(b)'
  BY <1>1 DEF Kept
<1>2. ASSUME NEW n \in EndNodes, CheckRequests(n)
      PROVE  Kept(b)'
  <2>1. None \notin {"failed", "ours"}
    BY MetastaticAssumption
  <2>2. b \notin Done(gen[n])
    BY <1>0 DEF Done
  <2>3. locked'[b] = (locked[b] \/ FALSE) /\ bnode'[b] = bnode[b] /\ marked'[b] = marked[b]
    BY <1>0, <1>2, <2>2, CheckGives
  <2> QED BY <1>0, <2>3 DEF Kept
<1>3. ASSUME NEW n \in EndNodes, AttemptFails(n)
      PROVE  Kept(b)'
  <2>1. None # "failed"
    BY MetastaticAssumption
  <2>2. /\ UNCHANGED <<bnode, locked>>
        /\ UNCHANGED marked \/ \E c : marked' = [marked EXCEPT ![c] = "failed"]
    BY <1>3 DEF AttemptFails
  <2> QED BY <1>0, <1>q, <2>1, <2>2 DEF Kept
<1>4. ASSUME NEW c \in Backing, Nodepool(c)
      PROVE  Kept(b)'
  <2>1. /\ UNCHANGED <<locked, marked>>
        /\ \/ bnode' = bnode
           \/ /\ bnode' = [bnode EXCEPT ![c] = "ready"] /\ req[c] = "requested"
           \/ /\ bnode' = [bnode EXCEPT ![c] = "gone"] /\ ~locked[c]
    BY <1>4 DEF Nodepool
  <2> QED BY <1>0, <1>q, <2>1 DEF Kept
<1>5. ASSUME NEW c \in Backing, ReleaseBackingNode(c), c # b
      PROVE  Kept(b)'
  <2>1. /\ UNCHANGED marked
        /\ bnode' = bnode \/ bnode' = [bnode EXCEPT ![c] = "used"]
        /\ locked' = locked \/ locked' = [locked EXCEPT ![c] = FALSE]
    BY <1>5 DEF ReleaseBackingNode
  <2> QED BY <1>0, <1>5, <1>q, <2>1 DEF Kept
<1>6. ASSUME Crash
      PROVE  Kept(b)'
  <2>1. /\ UNCHANGED marked
        /\ locked' = locked \/ \E c : locked' = [locked EXCEPT ![c] = TRUE]
        /\ bnode' = bnode \/ \E c : bnode' = [bnode EXCEPT ![c] = "used"]
    BY <1>6 DEF Crash
  <2>2. marked'[b] # None /\ bnode'[b] \in {"inuse", "used"}
    BY <1>0, <1>q, <2>1
  <2>3. locked'[b]
    BY <1>0, <1>q, <2>1
  <2> QED BY <2>2, <2>3 DEF Kept
<1>7. ASSUME NEW n \in EndNodes,
             \/ CreateNode(n) \/ AllocateBackingNode(n) \/ LaunchComplete(n) \/ AttemptEnds(n)
             \/ ZuulUses(n) \/ StartDelete(n) \/ DeallocateBackingNode(n) \/ DeleteNode(n)
      PROVE  UNCHANGED <<bnode, locked, marked>>
  BY <1>7
     DEF CreateNode, AllocateBackingNode, LaunchComplete, AttemptEnds, ZuulUses, StartDelete,
         DeallocateBackingNode, DeleteNode, backing
<1>8. ASSUME \/ UNCHANGED vars \/ Reconfigure \/ \E c \in Backing : MaxAge(c)
             \/ \E g \in Gens : PerformInit(g)
      PROVE  UNCHANGED <<bnode, locked, marked>>
  BY <1>8 DEF vars, Reconfigure, MaxAge, PerformInit, backing
<1> QED
  BY <1>1, <1>2, <1>3, <1>4, <1>5, <1>6, <1>7, <1>8 DEF Next, StateMachine, Deletion

(* A node that sits in a slot does so until it leaves, if the backing node *)
(* is known, and else until the record is removed.                         *)
LEMMA SitsStays ==
    ASSUME AlwaysInv, [Next]_vars, NEW g \in Gens, NEW n \in EndNodes, NEW p \in Places,
           Sits(g, n, p), ~Leaves(n), ~Crash
    PROVE  \/ Sits(g, n, p)' /\ (rec[g][p[1]].known => rec'[g][p[1]].known)
           \/ rec'[g][p[1]].list = "removed" /\ ~rec[g][p[1]].known
<1> DEFINE b == p[1]
           s == p[2]
<1>0. /\ TypeOK /\ GenInv /\ FreshInv /\ BackingInv
      /\ b \in Backing /\ s \in SlotIds /\ n # None
      /\ rec[g][b].list = "listed" /\ rec[g][b].nodes[s] = n
  BY MetastaticAssumption DEF AlwaysInv, Places, Sits, Listed
<1>1. inited[g] = "yes" /\ req[b] # "none"
  BY <1>0, AbsentRecord DEF FreshInv, BackingInv
<1>2. CASE Follows(g, b)
  <2>1. ~IsEmpty(g, b)
    BY <1>0 DEF IsEmpty
  <2>2. rec'[g][b].nodes[s] = n
    BY <1>0, <1>2 DEF Follows
  <2>3. CASE rec'[g][b].list = rec[g][b].list
    BY <1>0, <1>2, <2>2, <2>3 DEF Follows, Sits, Listed
  <2>4. CASE rec'[g][b].list = "removed" /\ ~rec[g][b].known
    BY <2>4
  <2> QED BY <1>2, <2>1, <2>3, <2>4 DEF Follows
<1>3. CASE Learns(g, b)
  BY <1>0, <1>3 DEF Learns, Sits, Listed
<1>4. ~Begins(g, b) /\ ~Recovers(g, b)
  BY <1>1 DEF Begins, Recovers
<1> QED BY <1>0, <1>2, <1>3, <1>4, RecordsMove

(* A record that is removed stays so, *)
LEMMA RemovedStays ==
    ASSUME AlwaysInv, [Next]_vars, NEW g \in Gens, NEW b \in Backing,
           rec[g][b].list = "removed", ~Crash
    PROVE  rec'[g][b].list = "removed"
<1>0. TypeOK /\ GenInv /\ FreshInv /\ BackingInv
  BY DEF AlwaysInv
<1>1. inited[g] = "yes" /\ req[b] # "none" /\ b \notin Listed(g)
  BY <1>0, AbsentRecord DEF FreshInv, BackingInv, Listed
<1>2. ~Begins(g, b) /\ ~Recovers(g, b) /\ ~Learns(g, b)
  BY <1>1 DEF Begins, Recovers, Learns, Done
<1>3. Follows(g, b)
  BY <1>0, <1>2, RecordsMove
<1> QED BY <1>3 DEF Follows

(* and a node that is READY or used has its driver_data from its launch.   *)
LEMMA LiveMoves ==
    ASSUME AlwaysInv, [Next]_vars, NEW n \in EndNodes
    PROVE  /\ n \in Live' => \/ n \in Live /\ data'[n] = data[n]
                             \/ LaunchComplete(n) /\ n \notin Live /\ data'[n] = seat[n]
           /\ n \in Live => data[n] \in Places /\ ~Leaves(n)
<1>0. /\ TypeOK /\ NodeInv
      /\ znode[n] \in {"none", "building", "gone"} => data[n] = None
      /\ launch[n] # "rest" => znode[n] = "building"
      /\ deleter[n] # "rest" => znode[n] = "deleting"
  BY DEF AlwaysInv, NodeInv
<1>q. /\ znode \in [EndNodes -> {"none", "building", "ready", "used", "deleting", "gone"}]
      /\ data \in [EndNodes -> Places \cup {None}]
  BY <1>0 DEF TypeOK
<1>1. n \in Live => data[n] \in Places /\ launch[n] = "rest" /\ deleter[n] = "rest"
  BY <1>0, <1>q DEF Live
<1>2. n \in Live => ~Leaves(n)
  BY <1>1 DEF Leaves, AllocateBackingNode, AttemptEnds, DeallocateBackingNode
<1>3. ASSUME NEW m \in EndNodes, LaunchComplete(m), n \in Live'
      PROVE  \/ n \in Live /\ data'[n] = data[n]
             \/ LaunchComplete(n) /\ n \notin Live /\ data'[n] = seat[n]
  BY <1>1, <1>3, <1>q DEF LaunchComplete, Live
<1>4. ASSUME NEW m \in EndNodes, CreateNode(m) \/ AttemptEnds(m) \/ ZuulUses(m) \/ StartDelete(m),
             n \in Live'
      PROVE  n \in Live /\ data'[n] = data[n]
  <2>1. data' = data /\ data'[n] # None /\ znode'[n] \in {"ready", "used"}
    BY <1>4 DEF CreateNode, AttemptEnds, ZuulUses, StartDelete, Live
  <2>2. CASE AttemptEnds(m)
    <3>1. /\ launch[m] # "rest"
          /\ znode' = znode \/ znode' = [znode EXCEPT ![m] = "used"]
      BY <2>2 DEF AttemptEnds
    <3>2. data[m] = None
      BY <1>0, <3>1 DEF NodeInv
    <3> QED BY <1>q, <2>1, <3>1, <3>2 DEF Live
  <2>3. CASE CreateNode(m) \/ StartDelete(m)
    BY <1>q, <2>1, <2>3 DEF CreateNode, StartDelete, Live
  <2>4. CASE ZuulUses(m)
    BY <1>q, <2>1, <2>4 DEF ZuulUses, Live
  <2> QED BY <1>4, <2>2, <2>3, <2>4
<1>5. ASSUME NEW m \in EndNodes, DeleteNode(m), n \in Live'
      PROVE  n \in Live /\ data'[n] = data[n]
  BY <1>5, <1>q DEF DeleteNode, Live
<1>6. ASSUME NEW m \in EndNodes,
             \/ AllocateBackingNode(m) \/ CheckRequests(m) \/ AttemptFails(m)
             \/ DeallocateBackingNode(m)
      PROVE  UNCHANGED <<znode, data>>
  BY <1>6 DEF AllocateBackingNode, CheckRequests, AttemptFails, DeallocateBackingNode
<1>7. ASSUME \/ UNCHANGED vars \/ Reconfigure \/ Crash \/ \E g \in Gens : PerformInit(g)
             \/ \E c \in Backing : Nodepool(c) \/ ReleaseBackingNode(c) \/ MaxAge(c)
      PROVE  UNCHANGED <<znode, data>>
  BY <1>7 DEF vars, Reconfigure, Crash, PerformInit, Nodepool, ReleaseBackingNode, MaxAge
<1>8. UNCHANGED <<znode, data>> /\ n \in Live' => n \in Live /\ data'[n] = data[n]
  BY DEF Live
<1> QED
  BY <1>1, <1>2, <1>3, <1>4, <1>5, <1>6, <1>7, <1>8 DEF Next, StateMachine, Deletion
-----------------------------------------------------------------------------
(* The invariant of one adapter at a time *)

LEMMA KnownStep ==
    ASSUME AlwaysInv, AlwaysInv', WorkInv, KnownInv, [Next]_vars
    PROVE  KnownInv'
<1>0. TypeOK /\ GenInv /\ cur \in Gens
  BY CurHasBegun DEF AlwaysInv
<1>1. CASE Reconfigure
  <2>1. cur' = cur + 1 /\ cur + 1 \in Gens
    BY <1>0, <1>1, GenStep
  <2>2. PICK g \in Gens : g = cur'
    BY <2>1
  <2>3. inited'[g] # "yes"
    BY <1>0, <1>1, <2>1, <2>2 DEF Reconfigure, TypeOK
  <2>4. rec'[g] = [b \in Backing |-> Absent]
    BY <2>3 DEF AlwaysInv, FreshInv
  <2>5. Listed(g)' = {}
    BY <2>4, AbsentRecord DEF Listed
  <2> QED BY <2>2, <2>5 DEF KnownInv
<1>2. CASE ~Reconfigure
  <2>1. PICK g \in Gens : g = cur /\ g = cur'
    BY <1>0, <1>2, GenStep
  <2> SUFFICES ASSUME NEW b \in Backing, rec'[g][b].list = "listed", rec'[g][b].known
               PROVE  Kept(b)'
    BY <2>1 DEF KnownInv, Listed
  <2>2. CASE Follows(g, b)
    <3>1. Kept(b)
      BY <2>1, <2>2 DEF Follows, KnownInv, Listed
    <3>2. CASE ReleaseBackingNode(b)
      <4>1. rec'[g][b].list = "removed"
        BY <1>0, <2>1, <3>2, ReleaseGives
      <4> QED BY <4>1
    <3> QED BY <3>1, <3>2, KeptStays
  <2>3. CASE Learns(g, b)
    <3>1. PICK n \in EndNodes : CheckRequests(n) /\ g = gen[n]
      BY <2>3 DEF Learns
    <3>2. None \notin {"failed", "ours"}
      BY MetastaticAssumption
    <3>3. b \in Done(g)
      BY <2>3 DEF Learns
    <3>4. bnode'[b] = "inuse" /\ marked'[b] \in {"failed", "ours"}
      BY <1>0, <3>1, <3>3, CheckGives
    <3>5. locked'[b] = (locked[b] \/ b \in Done(g))
      BY <1>0, <3>1, CheckGives
    <3>6. locked'[b]
      BY <3>3, <3>5
    <3> QED BY <3>2, <3>4, <3>6 DEF Kept
  <2>4. CASE Begins(g, b)
    BY <2>4 DEF Begins
  <2>5. CASE Recovers(g, b)
    BY <2>5 DEF Recovers, PerformInit, Kept, backing
  <2>6. rec'[g][b] # Absent
    BY AbsentRecord
  <2> QED BY <1>0, <2>2, <2>3, <2>4, <2>5, <2>6, RecordsMove
<1> QED BY <1>1, <1>2

(* A launch that has a slot was given it, or had it before. *)
LEMMA LaunchMoves ==
    ASSUME AlwaysInv, [Next]_vars, ~Crash, NEW n \in EndNodes,
           launch'[n] \in {"requesting", "complete"}
    PROVE  \/ AllocateBackingNode(n)
           \/ /\ seat'[n] = seat[n] /\ ~Leaves(n)
              /\ \/ launch'[n] = launch[n]
                 \/ CheckRequests(n) /\ launch[n] = "requesting"
<1>0. /\ TypeOK
      /\ launch[n] # "rest" => znode[n] = "building"
      /\ deleter[n] # "rest" => znode[n] = "deleting"
  BY DEF AlwaysInv, NodeInv
<1>q. launch \in [EndNodes -> {"rest", "start", "requesting", "complete", "failed"}]
      /\ seat \in [EndNodes -> Places \cup {None}]
  BY <1>0 DEF TypeOK
<1>1. ASSUME NEW m \in EndNodes, AllocateBackingNode(m), m # n
      PROVE  seat'[n] = seat[n] /\ launch'[n] = launch[n]
  BY <1>1, <1>q DEF AllocateBackingNode
<1>2. ASSUME NEW m \in EndNodes, CheckRequests(m)
      PROVE  /\ seat' = seat
             /\ \/ launch'[n] = launch[n]
                \/ CheckRequests(n) /\ launch[n] = "requesting"
  <2>1. seat' = seat /\ launch[m] = "requesting" /\ \E t : launch' = [launch EXCEPT ![m] = t]
    BY <1>2 DEF CheckRequests
  <2> QED BY <1>2, <1>q, <2>1
<1>3. ASSUME NEW m \in EndNodes, CreateNode(m) \/ LaunchComplete(m) \/ AttemptFails(m)
      PROVE  seat'[n] = seat[n] /\ launch'[n] = launch[n]
  BY <1>3, <1>q DEF CreateNode, LaunchComplete, AttemptFails
<1>4. ASSUME NEW m \in EndNodes, AttemptEnds(m)
      PROVE  seat'[n] = seat[n] /\ launch'[n] = launch[n]
  BY <1>4, <1>q DEF AttemptEnds
<1>5. ASSUME NEW m \in EndNodes,
             \/ ZuulUses(m) \/ StartDelete(m) \/ DeallocateBackingNode(m) \/ DeleteNode(m)
      PROVE  UNCHANGED <<seat, launch>>
  BY <1>5 DEF ZuulUses, StartDelete, DeallocateBackingNode, DeleteNode
<1>6. ASSUME \/ UNCHANGED vars \/ Reconfigure \/ \E g \in Gens : PerformInit(g)
             \/ \E c \in Backing : Nodepool(c) \/ ReleaseBackingNode(c) \/ MaxAge(c)
      PROVE  UNCHANGED <<seat, launch>>
  BY <1>6 DEF vars, Reconfigure, PerformInit, Nodepool, ReleaseBackingNode, MaxAge
<1>7. \/ AllocateBackingNode(n)
      \/ /\ seat'[n] = seat[n]
         /\ \/ launch'[n] = launch[n]
            \/ CheckRequests(n) /\ launch[n] = "requesting"
  BY <1>1, <1>2, <1>3, <1>4, <1>5, <1>6 DEF Next, StateMachine, Deletion
<1>8. CASE AttemptEnds(n)
  <2>1. launch'[n] \in {"start", "rest"}
    BY <1>8, <1>q DEF AttemptEnds
  <2> QED BY <2>1
<1>9. CASE ~AttemptEnds(n) /\ ~AllocateBackingNode(n)
  <2>1. launch[n] # "rest"
    BY <1>7, <1>9
  <2>2. ~DeallocateBackingNode(n)
    BY <1>0, <2>1 DEF DeallocateBackingNode
  <2> QED BY <1>7, <1>9, <2>2 DEF Leaves
<1> QED BY <1>8, <1>9

LEMMA SeatStep ==
    ASSUME AlwaysInv, AlwaysInv', WorkInv, SeatInv, [Next]_vars, ~mixed'
    PROVE  SeatInv'
<1>0. TypeOK /\ GenInv /\ NodeInv /\ cur \in Gens
  BY CurHasBegun DEF AlwaysInv
<1>1. CASE Reconfigure \/ Crash
  <2>1. \A n \in EndNodes : launch'[n] = "rest"
    BY <1>1 DEF Reconfigure, Crash
  <2> QED BY <2>1 DEF SeatInv
<1>2. CASE ~Reconfigure /\ ~Crash
  <2>1. PICK g \in Gens : g = cur /\ g = cur'
    BY <1>0, <1>2, GenStep
  <2>2. ASSUME NEW n \in EndNodes, launch'[n] \in {"requesting", "complete"},
               NEW p \in Places, p = seat'[n]
        PROVE  \/ launch'[n] = "requesting" /\ rec'[g][p[1]].list = "removed"
               \/ /\ Sits(g, n, p)'
                  /\ launch'[n] = "complete" => rec'[g][p[1]].known
    <3>0. p[1] \in Backing /\ p[2] \in SlotIds
      BY DEF Places
    <3>1. CASE AllocateBackingNode(n)
      <4>1. PICK b \in Backing, s \in SlotIds, r \in Records :
              /\ r.list = "listed" /\ r.nodes[s] = None
              /\ \/ /\ req[b] = "none" /\ req' = [req EXCEPT ![b] = "requested"]
                    /\ r = [Absent EXCEPT !.list = "listed"]
                 \/ req' = req /\ r = Deallocated(gen[n], n)[b]
              /\ rec' = [rec EXCEPT ![gen[n]] =
                            [Deallocated(gen[n], n) EXCEPT ![b] = [r EXCEPT !.nodes[s] = n]]]
              /\ seat' = [seat EXCEPT ![n] = <<b, s>>]
              /\ launch' = [launch EXCEPT ![n] = IF r.known THEN "complete" ELSE "requesting"]
        BY <1>0, <3>1, AllocateGives
      <4>2. gen[n] = g
        BY <2>1, <3>1 DEF WorkInv, AllocateBackingNode
      <4>3. Deallocated(g, n) \in [Backing -> Records]
        BY <1>0, DeallocatedRecords
      <4>4. rec'[g][b] = [r EXCEPT !.nodes[s] = n]
        BY <1>0, <4>1, <4>2, <4>3 DEF TypeOK
      <4>5. /\ rec'[g][b].list = "listed" /\ rec'[g][b].known = r.known
            /\ rec'[g][b].nodes[s] = n
        BY <4>1, <4>4 DEF Records
      <4>6. p[1] = b /\ p[2] = s
        BY <1>0, <2>2, <4>1 DEF TypeOK
      <4>7. launch'[n] = "complete" => r.known
        BY <1>0, <4>1 DEF TypeOK
      <4> QED BY <4>5, <4>6, <4>7 DEF Sits, Listed
    <3>2. CASE /\ seat'[n] = seat[n] /\ ~Leaves(n)
               /\ launch'[n] = launch[n]
      <4>1. \/ rec[g][p[1]].list = "removed" /\ launch[n] = "requesting"
            \/ Sits(g, n, p) /\ (launch[n] = "complete" => rec[g][p[1]].known)
        BY <2>1, <2>2, <3>2 DEF SeatInv
      <4>2. CASE rec[g][p[1]].list = "removed" /\ launch[n] = "requesting"
        BY <1>2, <3>0, <3>2, <4>2, RemovedStays
      <4>3. CASE Sits(g, n, p) /\ (launch[n] = "complete" => rec[g][p[1]].known)
        BY <1>2, <2>2, <3>2, <4>3, SitsStays
      <4> QED BY <4>1, <4>2, <4>3
    <3>3. CASE /\ seat'[n] = seat[n] /\ ~Leaves(n)
               /\ CheckRequests(n) /\ launch[n] = "requesting"
      <4>1. rec[g][p[1]].list = "removed" \/ Sits(g, n, p)
        BY <2>1, <2>2, <3>3 DEF SeatInv
      <4>2. rec'[g][p[1]].list = "removed" \/ Sits(g, n, p)'
        BY <1>2, <3>0, <3>3, <4>1, RemovedStays, SitsStays
      <4>3. g = gen[n]
        BY <2>1, <3>3 DEF WorkInv
      <4>4. launch'[n] = IF rec'[g][p[1]].failed THEN "failed"
                         ELSE IF rec'[g][p[1]].known THEN "complete" ELSE "requesting"
        BY <1>0, <2>2, <3>3, <4>3, CheckGives DEF TypeOK
      <4>5. rec'[g][p[1]].list = "removed" => rec'[g][p[1]].failed
        BY <3>0 DEF AlwaysInv, BackingInv
      <4> QED BY <2>2, <4>2, <4>4, <4>5
    <3> QED BY <1>2, <2>2, <3>1, <3>2, <3>3, LaunchMoves
  <2>3. \A n \in EndNodes : launch'[n] \in {"requesting", "complete"} => seat'[n] \in Places
    BY DEF AlwaysInv, NodeInv
  <2> QED BY <2>1, <2>2, <2>3 DEF SeatInv, Sits, Listed
<1> QED BY <1>1, <1>2

LEMMA DataStep ==
    ASSUME AlwaysInv, AlwaysInv', SingleInv, [Next]_vars, ~mixed'
    PROVE  DataInv'
<1>0. TypeOK /\ GenInv /\ FreshInv /\ NodeInv /\ cur \in Gens
  BY CurHasBegun DEF AlwaysInv
<1>1. ASSUME NEW n \in Live, data'[n] = data[n]
      PROVE  Kept(data[n][1])'
  <2>1. /\ data[n] \in Places /\ Kept(data[n][1])
        /\ inited[cur] = "yes" => Sits(cur, n, data[n])
    BY LiveMoves DEF SingleInv, DataInv, Live
  <2>2. PICK b \in Backing, s \in SlotIds : data[n] = <<b, s>>
    BY <2>1 DEF Places
  <2>3. ~ReleaseBackingNode(b)
    <3>1. SUFFICES ASSUME ReleaseBackingNode(b)
                   PROVE  FALSE
      OBVIOUS
    <3>2. inited[cur] = "yes" /\ IsEmpty(cur, b)
      BY <3>1 DEF ReleaseBackingNode
    <3>3. rec[cur][b].nodes[s] = n /\ n # None
      BY <2>1, <2>2, <3>2, MetastaticAssumption DEF Sits, Live
    <3> QED BY <3>2, <3>3 DEF IsEmpty
  <2>4. Kept(b) /\ data[n][1] = b
    BY <2>1, <2>2
  <2>5. Kept(b)'
    BY <2>3, <2>4, KeptStays
  <2> QED BY <1>1, <2>2, <2>5 DEF Kept
<1>2. CASE Reconfigure \/ Crash
  <2>1. UNCHANGED <<znode, data>>
    BY <1>2 DEF Reconfigure, Crash
  <2>2. inited'[cur'] # "yes"
    <3>1. CASE Reconfigure
      <4>1. cur' = cur + 1 /\ cur + 1 \in Gens
        BY <1>0, <3>1, GenStep
      <4> QED BY <1>0, <3>1, <4>1 DEF Reconfigure, TypeOK
    <3>2. CASE ~Reconfigure /\ Crash
      <4>1. cur' = cur
        BY <1>0, <3>2, GenStep
      <4> QED BY <1>0, <3>2, <4>1 DEF Crash
    <3> QED BY <1>2, <3>1, <3>2
  <2>3. Live' = Live
    BY <2>1 DEF Live
  <2>4. \A n \in Live : \A m \in Live \ {n} : data[m] # data[n]
    BY DEF SingleInv, DataInv
  <2>5. \A n \in Live' : Kept(data[n][1])'
    BY <1>1, <2>1, <2>3
  <2> QED BY <2>1, <2>2, <2>3, <2>4, <2>5 DEF DataInv
<1>3. CASE ~Reconfigure /\ ~Crash
  <2>1. PICK g \in Gens : g = cur /\ g = cur'
    BY <1>0, <1>3, GenStep
  (* A node that was READY before *)
  <2>2. ASSUME NEW n \in Live, NEW p \in Places, p = data[n]
        PROVE  inited'[g] = "yes" => Sits(g, n, p)' /\ rec'[g][p[1]].known
    <3>0. /\ n \in EndNodes /\ ~Leaves(n) /\ Kept(p[1])
          /\ p[1] \in Backing /\ p[2] \in SlotIds /\ p = <<p[1], p[2]>>
      BY <2>2, LiveMoves DEF SingleInv, DataInv, Live, Places
    <3>1. CASE inited[g] = "yes"
      <4>1. Sits(g, n, p) /\ rec[g][p[1]].known
        BY <2>1, <2>2, <3>1 DEF SingleInv, DataInv
      <4> QED BY <1>3, <3>0, <4>1, SitsStays
    <3>2. CASE inited[g] # "yes" /\ inited'[g] = "yes"
      <4>1. PerformInit(g)
        BY <1>0, <3>2, ReadyByInit
      <4>2. OnBackingNode(n, p[1], p[2])
        BY <2>2, <3>0 DEF OnBackingNode, Live
      <4>3. /\ rec'[g][p[1]].list = "listed" /\ rec'[g][p[1]].known
            /\ rec'[g][p[1]].nodes[p[2]] = n
        BY <1>0, <3>0, <3>2, <4>1, <4>2, InitGives
      <4> QED BY <3>0, <4>3 DEF Sits, Listed
    <3> QED BY <3>1, <3>2
  (* A node that becomes READY *)
  <2>3. ASSUME NEW n \in EndNodes, LaunchComplete(n), NEW p \in Places, p = seat[n]
        PROVE  /\ Sits(g, n, p)' /\ rec'[g][p[1]].known /\ Kept(p[1])'
               /\ inited[g] = "yes"
    <3>1. launch[n] = "complete" /\ UNCHANGED <<backing, rec, inited>>
      BY <2>3 DEF LaunchComplete
    <3>2. Sits(g, n, p) /\ rec[g][p[1]].known
      BY <2>1, <2>3, <3>1 DEF SingleInv, SeatInv
    <3>3. p[1] \in Backing /\ Kept(p[1])
      BY <2>1, <3>2 DEF SingleInv, KnownInv, Sits, Listed
    <3>4. inited[g] = "yes"
      BY <1>0, <3>2, AbsentRecord DEF FreshInv, Sits, Listed
    <3> QED BY <3>1, <3>2, <3>3, <3>4 DEF Sits, Listed, Kept, backing
  <2>4. ASSUME NEW n \in EndNodes, n \in Live'
        PROVE  \/ n \in Live /\ data'[n] = data[n] /\ data[n] \in Places
               \/ LaunchComplete(n) /\ n \notin Live /\ data'[n] = seat[n] /\ seat[n] \in Places
    <3>1. \/ n \in Live /\ data'[n] = data[n]
          \/ LaunchComplete(n) /\ n \notin Live /\ data'[n] = seat[n]
      BY <2>4, LiveMoves
    <3>2. LaunchComplete(n) => seat[n] \in Places
      BY <1>0 DEF LaunchComplete, NodeInv
    <3>3. n \in Live => data[n] \in Places
      BY LiveMoves
    <3> QED BY <3>1, <3>2, <3>3
  <2>5. ASSUME NEW n \in EndNodes, n \in Live', NEW p \in Places, p = data'[n]
        PROVE  /\ Kept(p[1])'
               /\ inited'[g] = "yes" => Sits(g, n, p)' /\ rec'[g][p[1]].known
    <3>1. CASE n \in Live /\ data'[n] = data[n]
      <4>1. Kept(data[n][1])'
        BY <1>1, <3>1
      <4>2. Kept(p[1])'
        BY <2>5, <3>1, <4>1 DEF Kept
      <4> QED BY <2>2, <2>5, <3>1, <4>2
    <3>2. CASE LaunchComplete(n) /\ data'[n] = seat[n]
      BY <2>3, <2>5, <3>2
    <3> QED BY <2>4, <2>5, <3>1, <3>2
  <2>6. ASSUME NEW n \in EndNodes, NEW m \in EndNodes, n \in Live', m \in Live', m # n
        PROVE  data'[m] # data'[n]
    <3>1. CASE n \in Live /\ data'[n] = data[n] /\ m \in Live /\ data'[m] = data[m]
      BY <2>6, <3>1 DEF SingleInv, DataInv
    <3>2. ASSUME NEW i \in EndNodes, NEW j \in EndNodes, LaunchComplete(i), seat[i] \in Places,
                 j \in Live, i # j, data[j] \in Places, inited[g] = "yes"
          PROVE  seat[i] # data[j]
      <4>1. Sits(g, i, seat[i])
        BY <2>1, <3>2 DEF SingleInv, SeatInv, LaunchComplete
      <4>2. Sits(g, j, data[j])
        BY <2>1, <3>2 DEF SingleInv, DataInv
      <4> QED BY <3>2, <4>1, <4>2 DEF Sits
    <3>3. \A i \in EndNodes : LaunchComplete(i) /\ seat[i] \in Places => inited[g] = "yes"
      BY <2>3
    <3>4. ~(LaunchComplete(m) /\ LaunchComplete(n))
      <4>1. ~(LaunchComplete(m) /\ LaunchComplete(n) /\ launch[m] = "complete")
        BY <1>0, <2>6 DEF LaunchComplete, TypeOK
      <4> QED BY <4>1 DEF LaunchComplete
    <3> QED BY <2>4, <2>6, <3>1, <3>2, <3>3, <3>4
  <2>7. \A n \in Live' : n \in EndNodes /\ data'[n] \in Places
    <3>1. \A n \in Live' : n \in EndNodes
      BY DEF Live
    <3> QED BY <2>4, <3>1
  <2> QED BY <2>1, <2>5, <2>6, <2>7 DEF DataInv, Sits, Listed, Kept
<1> QED BY <1>2, <1>3
-----------------------------------------------------------------------------
(* Theorems *)

LEMMA InitInvariant ==
    ASSUME Init
    PROVE  IInv
<1> USE MetastaticAssumption
<1>1. 1 \in Gens /\ Gens \subseteq Nat /\ upsets = 0
  BY DEF Init, Gens
<1>2. rec \in [Gens -> [Backing -> Records]]
  BY AbsentRecord DEF Init
<1>3. TypeOK
  <2>1. /\ znode \in [EndNodes -> {"none", "building", "ready", "used", "deleting", "gone"}]
        /\ launch \in [EndNodes -> {"rest", "start", "requesting", "complete", "failed"}]
        /\ deleter \in [EndNodes -> {"rest", "deallocate", "remove"}]
    BY DEF Init
  <2>2. /\ data \in [EndNodes -> Places \cup {None}] /\ seat \in [EndNodes -> Places \cup {None}]
        /\ gen \in [EndNodes -> Gens]
    BY <1>1 DEF Init
  <2>3. /\ req \in [Backing -> {"none", "requested", "fulfilled", "failed", "deleted"}]
        /\ bnode \in [Backing -> {"none", "ready", "inuse", "used", "gone"}]
    BY DEF Init
  <2>4. /\ locked \in [Backing -> BOOLEAN] /\ marked \in [Backing -> {"ours", "failed", None}]
        /\ inited \in [Gens -> {"future", "no", "yes"}]
    BY DEF Init
  <2>5. broken \in BOOLEAN /\ mixed \in BOOLEAN
    BY Zenon DEF Init
  <2>6. faults \in 0..MaxFaults /\ upsets \in 0..MaxUpsets
    <3>1. faults = 0 /\ upsets = 0
      BY DEF Init
    <3> QED BY <3>1
  <2> QED BY <1>2, <2>1, <2>2, <2>3, <2>4, <2>5, <2>6 DEF TypeOK
<1>4. \A g \in Gens : inited[g] = "future" <=> g > 1
  BY <1>1 DEF Init, Gens
<1>5. GenInv /\ cur = 1
  BY <1>1, <1>4, CurIsLast DEF GenInv
<1>6. FreshInv /\ NodeInv
  BY DEF Init, FreshInv, NodeInv
<1>7. BackingInv
  BY AbsentRecord DEF Init, BackingInv
<1>8. Live = {} /\ Listed(cur) = {}
  BY <1>1, <1>5, AbsentRecord DEF Init, Live, Listed
<1>9. SingleInv
  BY <1>8 DEF Init, SingleInv, WorkInv, KnownInv, SeatInv, DataInv
<1> QED BY <1>3, <1>5, <1>6, <1>7, <1>9 DEF IInv, AlwaysInv

LEMMA StepInvariant ==
    ASSUME IInv, [Next]_vars
    PROVE  IInv'
<1>1. AlwaysInv'
  BY TypeStep, GenStep, FreshStep, BackingStep, NodeStep DEF IInv, AlwaysInv
<1>2. ~mixed' => ~mixed
  BY AdaptersMove DEF Crash, Reconfigure
<1>3. ASSUME ~mixed'
      PROVE  SingleInv'
  BY <1>1, <1>2, <1>3, WorkStep, KnownStep, SeatStep, DataStep DEF IInv, SingleInv
<1> QED BY <1>1, <1>3 DEF IInv

(* Every step of the launches, the deletions, the cleanup, Zuul, nodepool, *)
(* a crash and a new configuration keeps the invariant.                    *)
THEOREM MetastaticInvariant == Spec => []IInv
<1> QED BY InitInvariant, StepInvariant, PTL DEF Spec

(* The variables of Metastatic keep to their types, whatever adapters,     *)
(* launches, deletions and crashes do.                                     *)
THEOREM TypeCorrect == Spec => []TypeOK
<1>1. IInv => TypeOK
  BY DEF IInv, AlwaysInv
<1> QED BY <1>1, MetastaticInvariant, PTL

(* A node that is READY or used has its slot to itself, on a backing node  *)
(* that is there and locked, unless two adapters have worked at a time:    *)
(* _allocateBackingNode, listResources and _init_inner agree on the slots. *)
THEOREM SlotsHeld == Spec => []SlotHeld
<1>1. IInv => SlotHeld
  BY DEF IInv, SingleInv, DataInv, Kept, SlotHeld
<1> QED BY <1>1, MetastaticInvariant, PTL
----------------------------------------------------------------------------
(* Containers *)

(* The launch thread holds its lock from the start; who deletes, or writes *)
(* without it, has not got it at the same time.  A thread that stores      *)
(* READY has seen everything made, and comes back to the node only after a *)
(* write that raised or when the node is gone.                             *)
UsableInv ==
    /\ held = "launcher" => cnDeleter = "rest" /\ node # "gone"
    /\ held = "launcher" /\ step = "ready" => place = "whole"
    /\ mem = "ready" => spoiled \/ node = "gone" \/ step = "done"
    /\ node = "ready" /\ ~spoiled =>
          place = "whole" /\ step = "done" /\ cnDeleter = "rest" /\ held = None

(* A call that fails, and a mishap, are counted. *)
LEMMA ContainerBounds ==
    ASSUME C!TypeOK
    PROVE  /\ C!Fault => cnFaults' \in 0..MaxFailures
           /\ cnMishaps < MaxMishaps /\ cnMishaps' = cnMishaps + 1
                 => cnMishaps' \in 0..MaxMishaps
<1>1. cnFaults \in 0..MaxFailures /\ cnMishaps \in 0..MaxMishaps
  BY DEF C!TypeOK
<1> QED BY <1>1, ContainersAssumption DEF C!Fault

(* Nothing is there at first. *)
LEMMA ContainerInit == C!Init => C!TypeOK /\ UsableInv
<1> SUFFICES ASSUME C!Init PROVE C!TypeOK /\ UsableInv
  OBVIOUS
<1>1. attempts \in 1..LaunchRetries /\ cnFaults \in 0..MaxFailures /\ cnMishaps \in 0..MaxMishaps
  BY ContainersAssumption DEF C!Init
<1>2. C!TypeOK
  BY <1>1 DEF C!Init, C!TypeOK, C!Unfinished
<1>3. UsableInv
  BY ContainersAssumption DEF C!Init, UsableInv
<1> QED BY <1>2, <1>3

(* The launch thread and the others keep the types. *)
LEMMA ContainerTypes == C!TypeOK /\ [C!Next]_cvars => C!TypeOK'
<1> SUFFICES ASSUME C!TypeOK, [C!Next]_cvars PROVE C!TypeOK'
  OBVIOUS
<1> USE ContainerBounds DEF C!unchanged, C!deleting, C!launching
<1>1. CASE C!CreateNamespace \/ C!CreateProject \/ C!CreatePod
  BY <1>1 DEF C!TypeOK, C!CreateNamespace, C!CreateProject, C!CreatePod, C!Created
<1>2. CASE C!StoreExternalId
  <2>1. node' \in {node, mem} /\ {ext', spoiled'} \subseteq BOOLEAN
    BY <1>2 DEF C!TypeOK, C!StoreExternalId, C!Write, C!Unlocked
  <2>2. step' \in {"pod", "prepare", "cleanup"} /\ cnFaults' \in 0..MaxFailures
    BY <1>2 DEF C!TypeOK, C!StoreExternalId
  <2> QED BY <1>2, <2>1, <2>2 DEF C!TypeOK, C!StoreExternalId, C!Unfinished
<1>3. CASE C!PrepareNamespace \/ C!PrepareProject
  BY <1>3 DEF C!TypeOK, C!PrepareNamespace, C!PrepareProject, C!Prepared
<1>4. CASE C!KubernetesPod \/ C!OpenShiftPod
  BY <1>4 DEF C!TypeOK, C!KubernetesPod, C!OpenShiftPod, C!PodRuns
<1>5. CASE C!StoreReady
  BY <1>5 DEF C!TypeOK, C!StoreReady, C!Write
<1>6. CASE C!CleanupAttempt
  BY <1>6 DEF C!TypeOK, C!CleanupAttempt, C!Removed
<1>7. CASE C!AwaitCleanup \/ C!QuotaExceeded \/ C!SessionExpired
  BY <1>7 DEF C!TypeOK, C!AwaitCleanup, C!QuotaExceeded, C!SessionExpired
<1>8. CASE C!ClearExternalId \/ C!LaunchFailed
  <2>1. mem' \in {mem, "building", "aborted", "failed"} /\ node' \in {node, mem'}
    BY <1>8 DEF C!ClearExternalId, C!LaunchFailed, C!Write
  <2>2. {ext', spoiled', memExt'} \subseteq BOOLEAN
    BY <1>8 DEF C!TypeOK, C!ClearExternalId, C!LaunchFailed, C!Write
  <2>3. /\ held' \in {held, None} /\ step' \in {"raise", "retry", "done"}
        /\ UNCHANGED <<driver, wantsPod, attempts, place, lost>>
        /\ cnDeleter' = cnDeleter /\ cnMishaps' = cnMishaps /\ cnFaults' = cnFaults
    BY <1>8 DEF C!ClearExternalId, C!LaunchFailed, C!Write
  <2> QED BY <2>1, <2>2, <2>3 DEF C!TypeOK, C!Unfinished
<1>9. CASE C!Retry
  <2>1. attempts' \in 1..LaunchRetries
    <3>1. attempts \in 1..LaunchRetries /\ attempts' \in {attempts, attempts + 1}
          /\ (attempts = LaunchRetries => attempts' = attempts)
      BY <1>9 DEF C!TypeOK, C!Retry
    <3> QED BY <3>1, ContainersAssumption
  <2> QED BY <1>9, <2>1 DEF C!TypeOK, C!Retry
<1>10. CASE C!ZuulUses \/ C!StartDelete \/ C!AwaitDeletion \/ C!DeleteNode \/ C!Terminated
  BY <1>10 DEF C!TypeOK, C!ZuulUses, C!StartDelete, C!AwaitDeletion, C!DeleteNode,
               C!Terminated, C!Unfinished
<1>11. CASE C!CleanupNode \/ C!CleanupLeaked
  BY <1>11 DEF C!TypeOK, C!CleanupNode, C!CleanupLeaked, C!Removed
<1>12. CASE C!SessionExpires \/ C!Crash
  BY <1>12 DEF C!TypeOK, C!SessionExpires, C!Crash
<1>13. CASE UNCHANGED cvars
  BY <1>13 DEF cvars, C!TypeOK
<1> QED
  BY <1>1, <1>2, <1>3, <1>4, <1>5, <1>6, <1>7, <1>8, <1>9, <1>10, <1>11, <1>12, <1>13
  DEF C!Next, C!LaunchStep

(* Nobody deletes under a thread that is about to store READY, and nobody  *)
(* that is left of the launch touches what it has stored.                  *)
LEMMA UsableStep == C!TypeOK /\ UsableInv /\ [C!Next]_cvars => UsableInv'
<1> SUFFICES ASSUME C!TypeOK, UsableInv, [C!Next]_cvars PROVE UsableInv'
  OBVIOUS
<1> USE ContainersAssumption DEF C!unchanged, C!deleting, C!launching, UsableInv
<1>1. CASE C!CreateNamespace \/ C!CreateProject \/ C!CreatePod
  BY <1>1 DEF C!CreateNamespace, C!CreateProject, C!CreatePod, C!Created
<1>2. CASE C!StoreExternalId
  <2>1. /\ step = "store" /\ step' # "ready" /\ UNCHANGED <<held, cnDeleter, mem, place>>
        /\ UNCHANGED node \/ (node # "gone" /\ node' = mem)
        /\ mem # "gone"
    BY <1>2 DEF C!StoreExternalId, C!Write, C!TypeOK
  <2>2. spoiled => spoiled'
    BY <1>2, Zenon DEF C!StoreExternalId, C!Write
  <2> QED BY <2>1, <2>2
<1>3. CASE C!PrepareNamespace \/ C!PrepareProject
  BY <1>3 DEF C!PrepareNamespace, C!PrepareProject, C!Prepared
<1>4. CASE C!KubernetesPod \/ C!OpenShiftPod
  BY <1>4 DEF C!KubernetesPod, C!OpenShiftPod, C!PodRuns
<1>5. CASE C!StoreReady
  BY <1>5 DEF C!StoreReady, C!Write, C!Unlocked, C!TypeOK
<1>6. CASE C!CleanupAttempt
  BY <1>6 DEF C!CleanupAttempt, C!Removed
<1>7. CASE C!AwaitCleanup \/ C!QuotaExceeded \/ C!SessionExpired \/ C!Retry
  BY <1>7 DEF C!AwaitCleanup, C!QuotaExceeded, C!SessionExpired, C!Retry
<1>8. CASE C!ClearExternalId \/ C!LaunchFailed
  <2>1. /\ step \in {"clear", "raise"} /\ step' # "ready" /\ UNCHANGED <<cnDeleter, place>>
        /\ UNCHANGED node \/ (node # "gone" /\ node' = mem')
        /\ mem' = mem \/ mem' # "ready"
        /\ mem' # "gone"
    BY <1>8 DEF C!ClearExternalId, C!LaunchFailed, C!Write, C!TypeOK
  <2>2. held' # "launcher" \/ held' = held
    BY <1>8 DEF C!ClearExternalId, C!LaunchFailed
  <2>3. spoiled => spoiled'
    BY <1>8, Zenon DEF C!ClearExternalId, C!LaunchFailed, C!Write
  <2> QED BY <2>1, <2>2, <2>3
<1>9. CASE C!ZuulUses \/ C!StartDelete \/ C!AwaitDeletion \/ C!DeleteNode \/ C!Terminated
  BY <1>9 DEF C!ZuulUses, C!StartDelete, C!AwaitDeletion, C!DeleteNode, C!Terminated,
              C!Unfinished
<1>10. CASE C!CleanupNode \/ C!CleanupLeaked
  BY <1>10 DEF C!CleanupNode, C!CleanupLeaked
<1>11. CASE C!SessionExpires \/ C!Crash
  BY <1>11 DEF C!SessionExpires, C!Crash
<1>12. CASE UNCHANGED cvars
  BY <1>12 DEF cvars
<1> QED
  BY <1>1, <1>2, <1>3, <1>4, <1>5, <1>6, <1>7, <1>8, <1>9, <1>10, <1>11, <1>12
  DEF C!Next, C!LaunchStep

(* A READY node that may be given to a request has all that its label asks *)
(* for, whatever fails and whenever a session expires or the launcher      *)
(* dies.                                                                   *)
THEOREM ContainerUsable == LiveSpec => []ReadyNodeUsable
<1>1. DriversInit => C!TypeOK /\ UsableInv
  BY ContainerInit DEF DriversInit
<1>2. C!TypeOK /\ UsableInv /\ [DriversNext]_allVars => (C!TypeOK /\ UsableInv)'
  <2>1. [DriversNext]_allVars => [C!Next]_cvars
    BY DEF DriversNext, allVars
  <2> QED BY <2>1, ContainerTypes, UsableStep
<1>3. UsableInv => ReadyNodeUsable
  BY DEF UsableInv, ReadyNodeUsable, C!ReadyNodeUsable
<1> QED BY <1>1, <1>2, <1>3, PTL DEF LiveSpec
----------------------------------------------------------------------------
(* The static driver *)

(* StaticNodes counts as the theorems about finite sets do. *)
LEMMA SameCardinality ==
    ASSUME NEW X
    PROVE  S!Cardinality(X) = Cardinality(X)
BY DEF S!Cardinality, Cardinality

(* There are fewer members before one than in all. *)
LEMMA RankType ==
    ASSUME NEW X \in SUBSET Int, IsFiniteSet(X), NEW x \in X
    PROVE  S!Rank(x, X) \in 0..(Cardinality(X) - 1)
<1> DEFINE Before == {y \in X : y < x}
<1>1. IsFiniteSet(X \ {x}) /\ Cardinality(X \ {x}) = Cardinality(X) - 1
  BY FS_RemoveElement
<1>2. Before \in SUBSET (X \ {x})
  OBVIOUS
<1>3. IsFiniteSet(Before) /\ Cardinality(Before) <= Cardinality(X) - 1
  BY <1>1, <1>2, FS_Subset
<1>4. Cardinality(Before) \in Nat /\ Cardinality(X) \in Nat
  BY <1>3, FS_CardinalityType
<1> QED BY <1>3, <1>4, SameCardinality DEF S!Rank

(* Of two members the greater one has more before it. *)
LEMMA RankGrows ==
    ASSUME NEW X \in SUBSET Int, IsFiniteSet(X), NEW x \in X, NEW y \in X, x < y
    PROVE  S!Rank(x, X) < S!Rank(y, X)
<1> DEFINE B(z) == {w \in X : w < z}
<1>1. B(x) \in SUBSET B(y) /\ x \in B(y) /\ x \notin B(x)
  <2>1. x \in Int /\ y \in Int /\ \A w \in X : w \in Int
    OBVIOUS
  <2>2. \A w \in X : w < x => w < y
    BY <2>1
  <2>3. ~(x < x)
    BY <2>1
  <2> QED BY <2>2, <2>3, Zenon
<1>2. IsFiniteSet(B(y)) /\ IsFiniteSet(B(x))
  BY FS_Subset
<1>3. Cardinality(B(x)) <= Cardinality(B(y)) /\ Cardinality(B(x)) # Cardinality(B(y))
  BY <1>1, <1>2, FS_Subset
<1>4. Cardinality(B(x)) \in Nat /\ Cardinality(B(y)) \in Nat
  BY <1>2, FS_CardinalityType
<1>5. S!Rank(x, X) = Cardinality(B(x)) /\ S!Rank(y, X) = Cardinality(B(y))
  BY SameCardinality DEF S!Rank
<1> HIDE DEF B
<1> QED BY <1>3, <1>4, <1>5

(* Every rank up to the size of the set is somebody's. *)
LEMMA RankOnto ==
    ASSUME NEW X \in SUBSET Int, IsFiniteSet(X), NEW k \in 0..(Cardinality(X) - 1)
    PROVE  \E x \in X : S!Rank(x, X) = k
<1> DEFINE Ranks == 0..(Cardinality(X) - 1)
           f == [x \in X |-> S!Rank(x, X)]
<1>1. Cardinality(X) \in Nat
  BY FS_CardinalityType
<1>2. f \in [X -> Ranks]
  BY RankType
<1>3. \A x, y \in X : f[x] = f[y] => x = y
  <2> SUFFICES ASSUME NEW x \in X, NEW y \in X, x # y PROVE f[x] # f[y]
    OBVIOUS
  <2>1. x < y \/ y < x
    OBVIOUS
  <2>2. f[x] < f[y] \/ f[y] < f[x]
    BY <2>1, RankGrows
  <2>3. f[x] \in Ranks /\ f[y] \in Ranks
    BY <1>2
  <2> QED BY <2>2, <2>3
<1>4. f \in Injection(X, Ranks)
  BY <1>2, <1>3 DEF Injection, IsInjective
<1>5. IsFiniteSet(Ranks) /\ Cardinality(Ranks) = Cardinality(X)
  BY <1>1, FS_Interval
<1>6. f \in Surjection(X, Ranks)
  BY <1>4, <1>5, FS_Injection
<1> QED BY <1>6 DEF Surjection
(* The slots of a host *)

FilledOf(q) == {i \in DOMAIN q : q[i] # None}

(* What StaticNodes takes from its constants *)
LEMMA StaticConstants ==
    /\ \A m \in S!Providers : Configs[m] \in Nat
    /\ 1 \in S!Providers /\ S!Providers \subseteq Nat
    /\ S!Nodes \in SUBSET Nat /\ 0 \notin S!Nodes /\ IsFiniteSet(S!Nodes)
    /\ None \notin Int /\ None \notin S!Nodes
<1>1. Len(Configs) \in Nat \ {0} /\ \A m \in 1..Len(Configs) : Configs[m] \in Nat
  BY StaticAssumption
<1>2. S!Providers = 1..Len(Configs) /\ S!Nodes = 1..MaxNodes
  BY DEF S!Providers, S!Nodes
<1>3. IsFiniteSet(1..MaxNodes)
  BY StaticAssumption, FS_Interval
<1> QED BY <1>1, <1>2, <1>3, StaticAssumption

(* A slot that is not free has a node that names it. *)
LEMMA SlottedType ==
    ASSUME S!TypeOK, NEW m \in S!Providers
    PROVE  /\ DOMAIN S!Slotted(m) = 1..Configs[m]
           /\ \A s \in 1..Configs[m] : S!Slotted(m)[s] \in S!Seen \cup {None}
           /\ \A s \in 1..Configs[m] : S!Slotted(m)[s] = None <=> s \in S!Free(m)
<1> DEFINE here(s) == {n \in S!Seen : slot[n] = s - 1}
<1>1. S!Slotted(m) = [s \in 1..Configs[m] |->
         IF here(s) = {} THEN None ELSE CHOOSE n \in here(s) : \A o \in here(s) : n <= o]
  BY DEF S!Slotted
<1>2. ASSUME NEW s \in 1..Configs[m] PROVE S!Slotted(m)[s] \in S!Seen \cup {None}
  <2>1. CASE here(s) = {}
    BY <1>1, <2>1
  <2>2. CASE here(s) # {}
    <3>1. here(s) \in SUBSET Nat
      BY StaticConstants DEF S!Seen
    <3>2. Lowest(here(s)) \in here(s)
      BY <2>2, <3>1, LowestIsLeast
    <3>3. S!Slotted(m)[s] = Lowest(here(s))
      BY <1>1, <2>2 DEF Lowest
    <3> QED BY <3>2, <3>3
  <2> QED BY <2>1, <2>2
<1>3. \A s \in 1..Configs[m] : S!Slotted(m)[s] = None <=> s \in S!Free(m)
  BY DEF S!Free
<1> QED BY <1>1, <1>2, <1>3
(* Every node that counts is in the table; and if a slot of it is empty    *)
(* then it has no more slots than the configuration allows.                *)
LEMMA RegisteredFits ==
    ASSUME S!TypeOK, NEW m \in S!Providers
    PROVE  LET tab == S!Registered(m) IN
           /\ tab \in Seq(S!Nodes \cup {None})
           /\ 1..Configs[m] \subseteq DOMAIN tab
           /\ (\E s \in DOMAIN tab : tab[s] = None) => DOMAIN tab = 1..Configs[m]
           /\ \A n \in S!Seen : \E s \in DOMAIN tab : tab[s] = n
<1> DEFINE tab == S!Registered(m)
           k == Configs[m]
           Fr == S!Free(m)
           Ot == S!Others(m)
           free == Cardinality(Fr)
           others == Cardinality(Ot)
           rank(s) == IF s > k THEN free + s - k - 1 ELSE S!Rank(s, Fr)
           N == IF others > free THEN k + others - free ELSE k
<1>1. k \in Nat /\ S!Seen \in SUBSET S!Nodes
  BY StaticConstants DEF S!Seen
<1>2. Fr \in SUBSET (1..k) /\ Fr \in SUBSET Int /\ IsFiniteSet(Fr)
  <2>1. IsFiniteSet(1..k)
    BY <1>1, FS_Interval
  <2>2. Fr \in SUBSET (1..k)
    BY DEF S!Free
  <2>3. 1..k \subseteq Int
    BY <1>1
  <2> QED BY <2>1, <2>2, <2>3, FS_Subset
<1>3. Ot \in SUBSET S!Seen /\ Ot \in SUBSET Int /\ IsFiniteSet(Ot)
  <2>1. Ot \in SUBSET S!Seen
    BY DEF S!Others
  <2>2. Ot \in SUBSET S!Nodes
    BY <1>1, <2>1
  <2>3. S!Nodes \subseteq Int /\ IsFiniteSet(S!Nodes)
    BY StaticConstants
  <2> HIDE DEF Ot
  <2>4. IsFiniteSet(Ot)
    BY <2>2, <2>3, FS_Subset
  <2> QED BY <2>1, <2>2, <2>3, <2>4
<1>4. free \in Nat /\ others \in Nat
  BY <1>2, <1>3, FS_CardinalityType
<1>5. tab = [s \in 1..N |->
               IF s <= k /\ s \notin Fr THEN S!Slotted(m)[s]
               ELSE IF rank(s) >= others THEN None
               ELSE CHOOSE n \in Ot : S!Rank(n, Ot) = rank(s)]
  <2>1. S!Cardinality(Fr) = free /\ S!Cardinality(Ot) = others
    BY SameCardinality
  <2>2. tab = [s \in 1..(IF S!Cardinality(Ot) > S!Cardinality(Fr)
                         THEN k + S!Cardinality(Ot) - S!Cardinality(Fr) ELSE k) |->
               IF s <= k /\ s \notin Fr THEN S!Slotted(m)[s]
               ELSE IF (IF s > k THEN S!Cardinality(Fr) + s - k - 1 ELSE S!Rank(s, Fr))
                          >= S!Cardinality(Ot) THEN None
               ELSE CHOOSE n \in Ot : S!Rank(n, Ot) =
                       (IF s > k THEN S!Cardinality(Fr) + s - k - 1 ELSE S!Rank(s, Fr))]
    BY DEF S!Registered
  <2> HIDE DEF k, Fr, Ot, free, others, tab
  <2> QED BY <2>1, <2>2
<1>6. N \in Nat /\ k <= N
  BY <1>1, <1>4
<1> HIDE DEF tab, k, Fr, Ot, free, others, N
<1>7. ASSUME NEW s \in 1..N, s > k \/ s \in Fr
      PROVE  rank(s) \in Nat
  <2>1. CASE s > k
    BY <1>1, <1>4, <1>6, <2>1
  <2>2. CASE ~(s > k)
    <3>1. s \in Fr
      BY <1>7, <2>2
    <3>2. S!Rank(s, Fr) \in 0..(free - 1)
      BY <1>2, <3>1, RankType DEF free
    <3> QED BY <1>4, <2>2, <3>2
  <2> QED BY <2>1, <2>2
<1>8. ASSUME NEW s \in 1..N, s > k \/ s \in Fr, rank(s) < others
      PROVE  tab[s] \in Ot /\ S!Rank(tab[s], Ot) = rank(s)
  <2>1. rank(s) \in 0..(others - 1)
    BY <1>4, <1>7, <1>8
  <2>2. \E n \in Ot : S!Rank(n, Ot) = rank(s)
    BY <1>3, <2>1, RankOnto DEF others
  <2>3. ~(s <= k /\ s \notin Fr) /\ ~(rank(s) >= others)
    <3>1. s \in Int /\ k \in Int /\ rank(s) \in Int /\ others \in Int
      BY <1>1, <1>4, <1>6, <1>7, <1>8
    <3> QED BY <1>8, <3>1
  <2>4. tab[s] = CHOOSE n \in Ot : S!Rank(n, Ot) = rank(s)
    BY <1>5, <2>3
  <2> QED BY <2>2, <2>4
<1>9. ASSUME NEW s \in 1..N, ~(s > k \/ s \in Fr)
      PROVE  s \in 1..k /\ tab[s] = S!Slotted(m)[s] /\ tab[s] \in S!Seen /\ tab[s] # None
  <2>1. s \in 1..k /\ s \notin Fr /\ s <= k
    BY <1>1, <1>6, <1>9
  <2>2. tab[s] = S!Slotted(m)[s]
    BY <1>5, <2>1
  <2>3. S!Slotted(m)[s] # None /\ S!Slotted(m)[s] \in S!Seen
    BY <2>1, SlottedType DEF k, Fr
  <2> QED BY <2>1, <2>2, <2>3
<1>10. tab \in Seq(S!Nodes \cup {None}) /\ DOMAIN tab = 1..N
  <2>1. ASSUME NEW s \in 1..N PROVE tab[s] \in S!Nodes \cup {None}
    <3>1. CASE ~(s > k \/ s \in Fr)
      BY <1>1, <1>9, <3>1
    <3>2. CASE (s > k \/ s \in Fr) /\ rank(s) < others
      BY <1>1, <1>3, <1>8, <3>2
    <3>3. CASE (s > k \/ s \in Fr) /\ ~(rank(s) < others)
      <4>1. ~(s <= k /\ s \notin Fr) /\ rank(s) >= others
        <5>1. s \in Int /\ k \in Int /\ rank(s) \in Int /\ others \in Int
          BY <1>1, <1>4, <1>6, <1>7, <3>3
        <5> QED BY <3>3, <5>1
      <4> QED BY <1>5, <4>1
    <3> QED BY <3>1, <3>2, <3>3
  <2>2. DOMAIN tab = 1..N
    BY <1>5
  <2>3. tab = [s \in 1..N |-> tab[s]]
    BY <1>5
  <2>4. tab \in [1..N -> S!Nodes \cup {None}]
    BY <2>1, <2>3
  <2> QED BY <1>6, <2>2, <2>4
<1>11. 1..k \subseteq DOMAIN tab
  BY <1>1, <1>6, <1>10
<1>12. ASSUME NEW s \in DOMAIN tab, tab[s] = None
       PROVE  DOMAIN tab = 1..k
  <2>1. None \notin Ot
    BY <1>1, <1>3, StaticConstants
  <2>2. s \in 1..N
    BY <1>10
  <2>3. (s > k \/ s \in Fr) /\ ~(rank(s) < others)
    BY <1>8, <1>9, <1>12, <2>1, <2>2
  <2>4. CASE s > k
    <3>1. N = k + others - free /\ s <= N
      BY <1>1, <1>4, <2>2, <2>4 DEF N
    <3>2. rank(s) = free + s - k - 1
      BY <2>4
    <3> QED BY <1>1, <1>4, <2>2, <2>3, <2>4, <3>1, <3>2
  <2>5. CASE ~(s > k)
    <3>1. s \in Fr
      BY <2>3, <2>5
    <3>2. rank(s) \in 0..(free - 1)
      BY <1>2, <2>5, <3>1, RankType DEF free
    <3>3. ~(others > free)
      BY <1>4, <2>3, <3>2
    <3> QED BY <1>10, <3>3 DEF N
  <2> QED BY <2>4, <2>5
<1>13. ASSUME NEW n \in S!Seen
       PROVE  \E s \in DOMAIN tab : tab[s] = n
  <2>1. CASE n \notin Ot
    <3>1. PICK s \in 1..k : S!Slotted(m)[s] = n
      BY <2>1, SlottedType DEF S!Others, Ot, k, S!ToSet
    <3>2. s \notin Fr /\ ~(s > k) /\ s \in 1..N
      <4>1. n # None
        BY <1>1, StaticConstants
      <4>2. s \notin Fr
        BY <3>1, <4>1, SlottedType DEF k, Fr
      <4> QED BY <1>1, <1>6, <3>1, <4>2
    <3> QED BY <1>9, <1>10, <3>1, <3>2
  <2>2. CASE n \in Ot
    <3> DEFINE r == S!Rank(n, Ot)
    <3>1. r \in 0..(others - 1)
      BY <1>3, <2>2, RankType DEF others
    <3>2. \A y \in Ot : S!Rank(y, Ot) = r => y = n
      <4> SUFFICES ASSUME NEW y \in Ot, y # n PROVE S!Rank(y, Ot) # r
        OBVIOUS
      <4>1. y < n \/ n < y
        BY <1>3, <2>2
      <4>2. S!Rank(y, Ot) < r \/ r < S!Rank(y, Ot)
        BY <1>3, <2>2, <4>1, RankGrows
      <4>3. S!Rank(y, Ot) \in 0..(others - 1)
        BY <1>3, RankType DEF others
      <4> QED BY <1>4, <3>1, <4>2, <4>3
    <3> HIDE DEF r
    <3>3. PICK s \in 1..N : (s > k \/ s \in Fr) /\ rank(s) = r
      <4>1. CASE r < free
        <5>1. r \in 0..(free - 1)
          BY <1>4, <3>1, <4>1
        <5>2. PICK s \in Fr : S!Rank(s, Fr) = r
          BY <1>2, <5>1, RankOnto DEF free
        <5>3. s \in 1..k /\ ~(s > k) /\ s \in 1..N
          BY <1>1, <1>2, <1>6
        <5> QED BY <5>2, <5>3
      <4>2. CASE ~(r < free)
        <5>1. others > free /\ N = k + others - free
          BY <1>4, <3>1, <4>2 DEF N
        <5>2. k + 1 + r - free \in 1..N /\ k + 1 + r - free > k
          BY <1>1, <1>4, <3>1, <4>2, <5>1
        <5>3. free + (k + 1 + r - free) - k - 1 = r
          BY <1>1, <1>4, <3>1
        <5>4. rank(k + 1 + r - free) = r
          BY <5>2, <5>3
        <5> QED BY <5>2, <5>4
      <4> QED BY <4>1, <4>2
    <3>4. rank(s) < others
      BY <1>4, <3>1, <3>3
    <3>5. tab[s] \in Ot /\ S!Rank(tab[s], Ot) = r
      BY <1>8, <3>3, <3>4
    <3> QED BY <1>10, <3>2, <3>5
  <2> QED BY <2>1, <2>2
<1> QED BY <1>10, <1>11, <1>12, <1>13 DEF tab, k
(* So the table of a provider keeps its type. *)
LEMMA RegisteredType ==
    ASSUME S!TypeOK, NEW t \in S!Threads
    PROVE  /\ mgr[t] \in S!Providers
           /\ S!Registered(mgr[t]) \in Seq(S!Nodes \cup {None, S!New})
           /\ [table EXCEPT ![mgr[t]] = S!Registered(mgr[t])]
                 \in [S!Providers -> Seq(S!Nodes \cup {None, S!New})]
<1>1. mgr[t] \in S!Providers
  BY DEF S!TypeOK
<1>2. S!Registered(mgr[t]) \in Seq(S!Nodes \cup {None})
  BY <1>1, RegisteredFits
<1>3. S!Registered(mgr[t]) \in Seq(S!Nodes \cup {None, S!New})
  BY <1>2
<1>4. table \in [S!Providers -> Seq(S!Nodes \cup {None, S!New})]
  BY DEF S!TypeOK
<1> QED BY <1>1, <1>3, <1>4

(* There are no more live nodes than slots of the table that are filled.   *)
LEMMA LiveFit ==
    ASSUME S!TypeOK, NEW m \in S!Providers
    PROVE  Cardinality(S!Live) <= Cardinality(FilledOf(S!Registered(m)))
<1> DEFINE tab == S!Registered(m)
           Slot == {s \in DOMAIN tab : tab[s] \in S!Live}
           f == [s \in Slot |-> tab[s]]
<1>1. S!Live \in SUBSET S!Seen /\ S!Live \in SUBSET S!Nodes
  BY DEF S!Live, S!Seen
<1>2. IsFiniteSet(DOMAIN tab)
  <2>1. tab \in Seq(S!Nodes \cup {None})
    BY RegisteredFits
  <2>2. Len(tab) \in Nat /\ DOMAIN tab = 1..Len(tab)
    BY <2>1
  <2> QED BY <2>2, FS_Interval
<1>3. \A n \in S!Live : \E s \in Slot : f[s] = n
  BY <1>1, RegisteredFits
<1>4. f \in Surjection(Slot, S!Live)
  BY <1>3 DEF Surjection
<1> HIDE DEF f, tab
<1>5. Slot \in SUBSET FilledOf(tab)
  <2>1. None \notin S!Live
    BY <1>1, StaticConstants
  <2> QED BY <2>1 DEF FilledOf
<1>6. FilledOf(tab) \in SUBSET DOMAIN tab
  BY DEF FilledOf
<1> HIDE DEF Slot
<1>7. IsFiniteSet(FilledOf(tab))
  BY <1>2, <1>6, FS_Subset
<1>8. IsFiniteSet(Slot) /\ Cardinality(Slot) <= Cardinality(FilledOf(tab))
  BY <1>5, <1>7, FS_Subset
<1>9. IsFiniteSet(S!Live) /\ Cardinality(S!Live) <= Cardinality(Slot)
  BY <1>4, <1>8, FS_Surjection
<1>10. Cardinality(S!Live) \in Nat /\ Cardinality(Slot) \in Nat
       /\ Cardinality(FilledOf(tab)) \in Nat
  BY <1>7, <1>8, <1>9, FS_CardinalityType
<1>11. Cardinality(S!Live) <= Cardinality(FilledOf(tab))
  BY <1>8, <1>9, <1>10
<1> QED BY <1>11 DEF tab

(* The live nodes are finitely many. *)
LEMMA LiveFinite ==
    /\ IsFiniteSet(S!Live) /\ Cardinality(S!Live) \in Nat
    /\ \A X \in SUBSET S!Live : Cardinality(X) \in Nat /\ Cardinality(X) <= Cardinality(S!Live)
<1>1. S!Live \in SUBSET S!Nodes /\ IsFiniteSet(S!Nodes)
  BY StaticConstants DEF S!Live
<1>2. IsFiniteSet(S!Live)
  BY <1>1, FS_Subset
<1>3. ASSUME NEW X \in SUBSET S!Live
      PROVE  Cardinality(X) \in Nat /\ Cardinality(X) <= Cardinality(S!Live)
  BY <1>2, FS_Subset, FS_CardinalityType
<1> QED BY <1>2, <1>3, FS_CardinalityType

(* A registration adds one node, with an id that nothing refers to. *)
LEMMA RegisterOne ==
    ASSUME S!TypeOK, S!MayRegister, NEW q \in Nat, S!Register(q)
    PROVE  /\ \E n \in S!Nodes : S!Live' = S!Live \cup {n}
           /\ Cardinality(S!Live') \in Nat /\ Cardinality(S!Live') <= Cardinality(S!Live) + 1
           /\ state' \in [S!Nodes -> {"ready", "held", "used", "deleting", "deleted", "gone"}]
           /\ slot' \in [S!Nodes -> Nat]
<1> DEFINE Ids == {n \in S!Nodes : S!Fresh(n)}
           id == CHOOSE x \in S!Nodes : S!Fresh(x) /\ \A y \in S!Nodes : S!Fresh(y) => x <= y
<1>1. id \in S!Nodes
  <2>1. Ids \in SUBSET Nat /\ Ids # {}
    BY StaticConstants DEF S!MayRegister
  <2>2. Lowest(Ids) \in Ids /\ \A y \in Ids : Lowest(Ids) <= y
    BY <2>1, LowestIsLeast
  <2>3. \E x \in S!Nodes : S!Fresh(x) /\ \A y \in S!Nodes : S!Fresh(y) => x <= y
    BY <2>2
  <2> QED BY <2>3
<1>2. state' = [state EXCEPT ![id] = "ready"] /\ slot' = [slot EXCEPT ![id] = q]
  BY DEF S!Register
<1> HIDE DEF id
<1>3. S!Live' = S!Live \cup {id}
  BY <1>1, <1>2 DEF S!TypeOK, S!Live
<1>4. Cardinality(S!Live') = IF id \in S!Live THEN Cardinality(S!Live) ELSE Cardinality(S!Live) + 1
  BY <1>3, LiveFinite, FS_AddElement
<1>5. Cardinality(S!Live') \in Nat /\ Cardinality(S!Live') <= Cardinality(S!Live) + 1
  BY <1>4, LiveFinite
<1>6. /\ state' \in [S!Nodes -> {"ready", "held", "used", "deleting", "deleted", "gone"}]
      /\ slot' \in [S!Nodes -> Nat]
  BY <1>1, <1>2 DEF S!TypeOK
<1> QED BY <1>1, <1>3, <1>5, <1>6

(* Threads and configurations *)

Waiting(t) == at[t] \in {"wait", "slots", "failed", "register"}
Filling(t) == at[t] \in {"slots", "register"}

(* Whoever is past the lock has it. *)
HolderInv ==
    \A t \in S!Threads \ {S!config} :
        at[t] \in {"slots", "failed", "register"} => locker[mgr[t]] = t

(* Until the first provider has started nothing else runs; while another   *)
(* one starts, the old one is idle.                                        *)
StartInv ==
    at[S!config] # "rest" =>
        /\ mgr[S!config] = conf => \A t \in S!Threads \ {S!config} : at[t] = "rest"
        /\ mgr[S!config] # conf => conf \in idle

(* A thread has the provider in use, or one that was told to be idle.      *)
ProviderInv ==
    \A t \in S!Threads \ {S!config} : at[t] # "rest" => mgr[t] = conf \/ mgr[t] \in idle

(* Unless two providers have met, those past the check of _idle have the   *)
(* provider in use, and there are none while another starts.               *)
ApartInv ==
    ~stMixed => \A t \in S!Threads \ {S!config} :
        Waiting(t) => mgr[t] = conf /\ at[S!config] = "rest"

(* A thread that fills slots knows of as many live nodes as there are; one *)
(* that registers a node has seen room for it.                             *)
RoomInv ==
    ~stMixed => \A t \in S!Threads :
        /\ at[t] = "slots" =>
              /\ Cardinality(S!Live) <= Cardinality(FilledOf(table[mgr[t]]))
              /\ (\E i \in DOMAIN table[mgr[t]] : table[mgr[t]][i] = None)
                    => DOMAIN table[mgr[t]] = 1..Configs[mgr[t]]
        /\ at[t] = "register" => Cardinality(S!Live) + 1 <= Configs[mgr[t]]

StaticInv ==
    S!TypeOK /\ HolderInv /\ StartInv /\ ProviderInv /\ ApartInv /\ RoomInv

LEMMA StaticInit == S!Init => StaticInv
<1> SUFFICES ASSUME S!Init PROVE StaticInv
  OBVIOUS
<1> USE DEF S!Init
<1>1. S!TypeOK
  <2>1. table \in [S!Providers -> Seq(S!Nodes \cup {None, S!New})]
    OBVIOUS
  <2>2. events \in 0..MaxEvents /\ conf \in S!Providers /\ mgr \in [S!Threads -> S!Providers]
    BY StaticAssumption, StaticConstants
  <2> QED BY <2>1, <2>2 DEF S!TypeOK
<1>2. HolderInv /\ StartInv /\ ProviderInv /\ ApartInv /\ RoomInv
  BY DEF HolderInv, StartInv, ProviderInv, ApartInv, RoomInv, Waiting, S!Threads, S!config
<1> QED BY <1>1, <1>2 DEF StaticInv

LEMMA ThreadNames ==
    /\ S!config \in S!Threads /\ S!cleanup \in S!Threads /\ S!config # S!cleanup
    /\ S!Nodes \subseteq S!Threads
    /\ \A n \in S!Nodes : n # S!config /\ n # S!cleanup
    /\ None \notin S!Threads
BY StaticConstants DEF S!config, S!cleanup, S!Threads, S!Nodes

(* A slot that is filled is one more. *)
LEMMA FillOne ==
    ASSUME S!TypeOK, NEW m \in S!Providers, NEW p \in DOMAIN table[m], table[m][p] = None,
           table' = [table EXCEPT ![m][p] = S!New]
    PROVE  /\ table' \in [S!Providers -> Seq(S!Nodes \cup {None, S!New})]
           /\ DOMAIN table'[m] = DOMAIN table[m]
           /\ Cardinality(FilledOf(table[m])) \in Nat
           /\ Cardinality(FilledOf(table'[m])) = Cardinality(FilledOf(table[m])) + 1
           /\ Cardinality(FilledOf(table'[m])) <= Cardinality(DOMAIN table[m])
<1> DEFINE q == table[m]
           X == S!Nodes \cup {None, S!New}
           r == [q EXCEPT ![p] = S!New]
<1>1. q \in Seq(X) /\ table \in [S!Providers -> Seq(X)]
  BY DEF S!TypeOK
<1>2. Len(q) \in Nat /\ q \in [1..Len(q) -> X] /\ DOMAIN q = 1..Len(q)
  BY <1>1
<1>3. r \in [1..Len(q) -> X] /\ r \in Seq(X)
  BY <1>2
<1>4. table' = [table EXCEPT ![m] = r]
  BY <1>1
<1>5. table'[m] = r /\ table' \in [S!Providers -> Seq(X)]
  BY <1>1, <1>3, <1>4
<1>6. S!New # None
  BY StaticConstants DEF S!New
<1>7. FilledOf(r) = FilledOf(q) \cup {p} /\ p \notin FilledOf(q)
  BY <1>2, <1>6 DEF FilledOf
<1>8. IsFiniteSet(DOMAIN q)
  <2> HIDE DEF q
  <2>1. IsFiniteSet(1..Len(q))
    BY <1>2, FS_Interval
  <2> QED BY <1>2, <2>1
<1>9. FilledOf(q) \in SUBSET DOMAIN q /\ FilledOf(r) \in SUBSET DOMAIN q
  BY <1>2, <1>7 DEF FilledOf
<1>10. IsFiniteSet(FilledOf(q)) /\ Cardinality(FilledOf(q)) \in Nat
  BY <1>8, <1>9, FS_Subset, FS_CardinalityType
<1>11. Cardinality(FilledOf(r)) = Cardinality(FilledOf(q)) + 1
  BY <1>7, <1>10, FS_AddElement
<1>12. Cardinality(FilledOf(r)) <= Cardinality(DOMAIN q)
  BY <1>8, <1>9, FS_Subset
<1>13. DOMAIN r = DOMAIN q
  OBVIOUS
<1> HIDE DEF r
<1> QED BY <1>5, <1>10, <1>11, <1>12, <1>13

(* A step of the static driver, by what it is a step of *)
LEMMA StaticCases ==
    ASSUME [S!Next]_svars
    PROVE  \/ S!CleanupStarts \/ S!CleanupLocks \/ S!CleanupEnds
           \/ \E t \in {S!cleanup, S!config} : S!SyncSlot(t)
           \/ S!StartProvider \/ S!ProviderStarted
           \/ \E n \in S!Nodes : \/ S!StartDelete(n) \/ S!DeleteNode(n) \/ S!Notify(n)
                                 \/ S!NotifyLocks(n) \/ S!Reregister(n)
                                 \/ S!Take(n) \/ S!TakeFails(n) \/ S!GiveBack(n)
           \/ S!Reconfigure \/ S!HostDown \/ S!HostUp \/ S!Restart
           \/ UNCHANGED svars
<1>1. CASE \E t \in S!Threads : S!ThreadStep(t)
  <2>1. PICK t \in S!Threads : S!ThreadStep(t)
    BY <1>1
  <2>2. CASE t = S!cleanup \/ t = S!config
    BY <2>1, <2>2 DEF S!ThreadStep
  <2>3. CASE t # S!cleanup /\ t # S!config
    <3>1. t \in S!Nodes
      BY <2>3 DEF S!Threads, S!cleanup, S!config
    <3> QED BY <2>1, <2>3, <3>1 DEF S!ThreadStep
  <2> QED BY <2>2, <2>3
<1> QED BY <1>1 DEF S!Next

(* A thread that moves, and a deleter that ends, keep the types. *)
LEMMA MoveTypes ==
    ASSUME S!TypeOK, NEW t \in S!Threads,
           NEW w \in {"rest", "start", "wait", "slots", "failed", "delete", "remove",
                      "notify", "register"}
    PROVE  [at EXCEPT ![t] = w] \in
               [S!Threads -> {"rest", "start", "wait", "slots", "failed", "delete", "remove",
                              "notify", "register"}]
BY DEF S!TypeOK

LEMMA ForgetTypes ==
    ASSUME S!TypeOK, NEW n \in S!Nodes, S!Forget(n)
    PROVE  /\ at' \in [S!Threads -> {"rest", "start", "wait", "slots", "failed", "delete",
                                    "remove", "notify", "register"}]
           /\ mgr' \in [S!Threads -> S!Providers]
           /\ slot' \in [S!Nodes -> Nat]
<1>1. at' = [at EXCEPT ![n] = "rest"] /\ mgr' = [mgr EXCEPT ![n] = 1]
      /\ slot' = [slot EXCEPT ![n] = 0]
  BY DEF S!Forget, S!Goto
<1>2. mgr' \in [S!Threads -> S!Providers] /\ slot' \in [S!Nodes -> Nat]
  BY <1>1, StaticConstants DEF S!TypeOK
<1> QED BY <1>1, <1>2, MoveTypes, ThreadNames

(* The variables keep their types. *)
LEMMA StaticTypes ==
    ASSUME S!TypeOK, [S!Next]_svars
    PROVE  S!TypeOK'
<1> USE StaticConstants, ThreadNames
    DEF S!bounds, S!Goto, S!Forget, S!Release, S!Deregistered
<1>0. events < MaxEvents /\ events' = events + 1 => events' \in 0..MaxEvents
  BY StaticAssumption DEF S!TypeOK
<1>1. CASE S!CleanupStarts
  BY <1>1 DEF S!CleanupStarts, S!TypeOK
<1>2. CASE S!CleanupLocks
  <2>1. table' \in [S!Providers -> Seq(S!Nodes \cup {None, S!New})]
    <3>1. table' = [table EXCEPT ![mgr[S!cleanup]] = S!Registered(mgr[S!cleanup])]
      BY <1>2 DEF S!CleanupLocks
    <3> QED BY <3>1, RegisteredType
  <2> QED BY <1>2, <2>1 DEF S!CleanupLocks, S!TypeOK
<1>3. CASE S!CleanupEnds
  <2>1. table' \in [S!Providers -> Seq(S!Nodes \cup {None, S!New})]
    BY <1>3 DEF S!CleanupEnds, S!TypeOK
  <2> QED BY <1>3, <2>1 DEF S!CleanupEnds, S!TypeOK
<1>4. ASSUME NEW t \in {S!cleanup, S!config}, S!SyncSlot(t)
      PROVE  S!TypeOK'
  <2>1. PICK p \in DOMAIN table[mgr[t]] :
           /\ table[mgr[t]][p] = None
           /\ \/ /\ S!MayRegister /\ S!Register(p - 1)
                 /\ table' = [table EXCEPT ![mgr[t]][p] = S!New] /\ UNCHANGED at
              \/ S!Goto(t, "failed") /\ UNCHANGED <<state, slot, table>>
    BY <1>4 DEF S!SyncSlot
  <2>2. mgr[t] \in S!Providers /\ UNCHANGED <<conf, idle, locker, mgr, reachable, stMixed, events>>
    BY <1>4 DEF S!SyncSlot, S!TypeOK
  <2>3. p - 1 \in Nat
    <3>1. table[mgr[t]] \in Seq(S!Nodes \cup {None, S!New})
      BY <2>2 DEF S!TypeOK
    <3>2. p \in 1..Len(table[mgr[t]]) /\ Len(table[mgr[t]]) \in Nat
      BY <3>1
    <3> QED BY <3>2
  <2>4. CASE S!MayRegister /\ S!Register(p - 1)
             /\ table' = [table EXCEPT ![mgr[t]][p] = S!New] /\ UNCHANGED at
    <3>1. table' \in [S!Providers -> Seq(S!Nodes \cup {None, S!New})]
      BY <2>1, <2>2, <2>4, FillOne
    <3>2. /\ state' \in [S!Nodes -> {"ready", "held", "used", "deleting", "deleted", "gone"}]
          /\ slot' \in [S!Nodes -> Nat]
      BY <2>3, <2>4, RegisterOne
    <3> QED BY <2>2, <2>4, <3>1, <3>2 DEF S!TypeOK
  <2>5. CASE S!Goto(t, "failed") /\ UNCHANGED <<state, slot, table>>
    BY <2>2, <2>5 DEF S!TypeOK
  <2> QED BY <2>1, <2>4, <2>5
<1>5. CASE S!StartProvider
  <2>1. table' \in [S!Providers -> Seq(S!Nodes \cup {None, S!New})]
    <3>1. table' = [table EXCEPT ![mgr[S!config]] = S!Registered(mgr[S!config])]
      BY <1>5 DEF S!StartProvider
    <3> QED BY <3>1, RegisteredType
  <2> QED BY <1>5, <2>1 DEF S!StartProvider, S!TypeOK
<1>6. CASE S!ProviderStarted
  <2>1. table' \in [S!Providers -> Seq(S!Nodes \cup {None, S!New})]
    BY <1>6 DEF S!ProviderStarted, S!TypeOK
  <2> QED BY <1>6, <2>1 DEF S!ProviderStarted, S!TypeOK
<1>7. ASSUME NEW n \in S!Nodes, S!StartDelete(n) \/ S!DeleteNode(n) \/ S!Notify(n)
      PROVE  S!TypeOK'
  <2> HIDE DEF S!Forget
  <2>1. CASE S!StartDelete(n)
    <3>1. UNCHANGED <<conf, idle, table, locker, reachable, stMixed, events>>
      BY <2>1 DEF S!StartDelete
    <3>2. state' \in [S!Nodes -> {"ready", "held", "used", "deleting", "deleted", "gone"}]
      BY <2>1 DEF S!StartDelete, S!TypeOK
    <3>3. CASE S!Forget(n)
      BY <3>1, <3>2, <3>3, ForgetTypes DEF S!TypeOK
    <3>4. CASE at' = [at EXCEPT ![n] = "delete"] /\ mgr' = [mgr EXCEPT ![n] = conf]
               /\ UNCHANGED slot
      BY <3>1, <3>2, <3>4, MoveTypes DEF S!TypeOK
    <3> QED BY <2>1, <3>3, <3>4 DEF S!StartDelete
  <2>2. CASE S!DeleteNode(n)
    BY <2>2 DEF S!DeleteNode, S!TypeOK
  <2>3. CASE S!Notify(n)
    <3>1. UNCHANGED <<state, conf, idle, table, locker, reachable, stMixed, events>>
      BY <2>3 DEF S!Notify
    <3>2. CASE S!Forget(n)
      BY <3>1, <3>2, ForgetTypes DEF S!TypeOK
    <3>3. CASE at' = [at EXCEPT ![n] = "wait"] /\ UNCHANGED <<slot, mgr>>
      BY <3>1, <3>3, MoveTypes DEF S!TypeOK
    <3> QED BY <2>3, <3>2, <3>3 DEF S!Notify
  <2> QED BY <1>7, <2>1, <2>2, <2>3
<1>8. ASSUME NEW n \in S!Nodes, S!NotifyLocks(n)
      PROVE  S!TypeOK'
  <2>1. mgr[n] \in S!Providers
    BY RegisteredType
  <2>2. \/ /\ table' = [table EXCEPT ![mgr[n]] = S!Registered(mgr[n])]
           /\ at' = [at EXCEPT ![n] = "register"] /\ locker' = [locker EXCEPT ![mgr[n]] = n]
           /\ UNCHANGED <<slot, mgr>>
        \/ S!Forget(n) /\ UNCHANGED <<table, locker>>
    BY <1>8 DEF S!NotifyLocks
  <2>3. UNCHANGED <<state, conf, idle, reachable, stMixed, events>>
    BY <1>8 DEF S!NotifyLocks
  <2>4. [table EXCEPT ![mgr[n]] = S!Registered(mgr[n])]
           \in [S!Providers -> Seq(S!Nodes \cup {None, S!New})]
    BY RegisteredType
  <2>5. table' \in [S!Providers -> Seq(S!Nodes \cup {None, S!New})]
    BY <2>2, <2>4 DEF S!TypeOK
  <2> HIDE DEF S!Forget
  <2>6. CASE S!Forget(n) /\ UNCHANGED <<table, locker>>
    BY <2>3, <2>6, ForgetTypes DEF S!TypeOK
  <2>7. CASE at' = [at EXCEPT ![n] = "register"] /\ locker' = [locker EXCEPT ![mgr[n]] = n]
             /\ UNCHANGED <<slot, mgr>>
    BY <2>1, <2>3, <2>5, <2>7, MoveTypes DEF S!TypeOK
  <2> QED BY <2>2, <2>6, <2>7
<1>9. ASSUME NEW n \in S!Nodes, S!Reregister(n)
      PROVE  S!TypeOK'
  <2>1. table' \in [S!Providers -> Seq(S!Nodes \cup {None, S!New})]
    BY <1>9 DEF S!Reregister, S!TypeOK
  <2>2. /\ state' \in [S!Nodes -> {"ready", "held", "used", "deleting", "deleted", "gone"}]
        /\ slot' \in [S!Nodes -> Nat]
    <3>1. slot[n] \in Nat
      BY DEF S!TypeOK
    <3>2. (S!MayRegister /\ S!Register(slot[n])) \/ UNCHANGED <<state, slot>>
      BY <1>9 DEF S!Reregister
    <3> QED BY <3>1, <3>2, RegisterOne DEF S!TypeOK
  <2> QED BY <1>9, <2>1, <2>2 DEF S!Reregister, S!TypeOK
<1>10. ASSUME NEW n \in S!Nodes, S!Take(n) \/ S!TakeFails(n) \/ S!GiveBack(n)
       PROVE  S!TypeOK'
  BY <1>0, <1>10 DEF S!Take, S!TakeFails, S!GiveBack, S!TypeOK
<1>11. CASE S!Reconfigure
  <2>1. conf + 1 \in S!Providers
    BY <1>11, StaticAssumption DEF S!Reconfigure, S!TypeOK, S!Providers
  <2>2. stMixed' \in BOOLEAN
    <3>1. (\E t \in S!Threads : S!Working(t)) \in BOOLEAN
      OBVIOUS
    <3> QED BY <1>11, <3>1, Zenon DEF S!Reconfigure
  <2> QED BY <1>11, <2>1, <2>2 DEF S!Reconfigure, S!TypeOK
<1>12. CASE S!HostDown \/ S!HostUp
  BY <1>0, <1>12 DEF S!HostDown, S!HostUp, S!TypeOK
<1>13. CASE S!Restart
  <2>1. conf' \in S!Providers /\ mgr' \in [S!Threads -> S!Providers]
    BY <1>13 DEF S!Restart, S!TypeOK
  <2>2. idle' \subseteq S!Providers
    BY <1>13, <2>1 DEF S!Restart, S!Providers
  <2>3. table' \in [S!Providers -> Seq(S!Nodes \cup {None, S!New})]
    BY <1>13 DEF S!Restart
  <2> QED BY <1>0, <1>13, <2>1, <2>2, <2>3 DEF S!Restart, S!TypeOK
<1>14. CASE UNCHANGED svars
  BY <1>14 DEF svars, S!TypeOK
<1> QED
  BY <1>1, <1>2, <1>3, <1>4, <1>5, <1>6, <1>7, <1>8, <1>9, <1>10, <1>11, <1>12, <1>13,
     <1>14, StaticCases

(* Who holds a lock, and which providers are at work, after every step. *)
LEMMA ControlStep ==
    ASSUME S!TypeOK, HolderInv, StartInv, ProviderInv, ApartInv, [S!Next]_svars
    PROVE  HolderInv' /\ StartInv' /\ ProviderInv' /\ ApartInv'
<1> USE ThreadNames
    DEF S!bounds, S!Goto, S!Forget, S!Release, S!TypeOK, Waiting
<1>1. CASE S!CleanupStarts
  <2>1. HolderInv'
    BY <1>1 DEF S!CleanupStarts, S!Up, HolderInv
  <2>2. StartInv'
    BY <1>1 DEF S!CleanupStarts, S!Up, StartInv
  <2>3. ProviderInv'
    BY <1>1 DEF S!CleanupStarts, S!Up, StartInv, ProviderInv
  <2>4. ApartInv'
    BY <1>1 DEF S!CleanupStarts, S!Up, StartInv, ProviderInv, ApartInv
  <2> QED BY <2>1, <2>2, <2>3, <2>4
<1>2. CASE S!CleanupLocks
  <2>1. HolderInv'
    BY <1>2 DEF S!CleanupLocks, HolderInv
  <2>2. StartInv'
    BY <1>2 DEF S!CleanupLocks, StartInv
  <2>3. ProviderInv'
    BY <1>2 DEF S!CleanupLocks, StartInv, ProviderInv
  <2>4. ApartInv'
    BY <1>2 DEF S!CleanupLocks, StartInv, ProviderInv, ApartInv
  <2> QED BY <2>1, <2>2, <2>3, <2>4
<1>3. CASE S!CleanupEnds
  <2>1. HolderInv'
    BY <1>3 DEF S!CleanupEnds, HolderInv
  <2>2. StartInv'
    BY <1>3 DEF S!CleanupEnds, StartInv
  <2>3. ProviderInv'
    BY <1>3 DEF S!CleanupEnds, StartInv, ProviderInv
  <2>4. ApartInv'
    BY <1>3 DEF S!CleanupEnds, StartInv, ProviderInv, ApartInv
  <2> QED BY <2>1, <2>2, <2>3, <2>4
<1>4. ASSUME NEW t \in {S!cleanup, S!config}, S!SyncSlot(t)
      PROVE  HolderInv' /\ StartInv' /\ ProviderInv' /\ ApartInv'
  <2>1. HolderInv'
    BY <1>4 DEF S!SyncSlot, HolderInv
  <2>2. StartInv'
    BY <1>4 DEF S!SyncSlot, StartInv
  <2>3. ProviderInv'
    BY <1>4 DEF S!SyncSlot, StartInv, ProviderInv
  <2>4. ApartInv'
    BY <1>4 DEF S!SyncSlot, StartInv, ProviderInv, ApartInv
  <2> QED BY <2>1, <2>2, <2>3, <2>4
<1>5. CASE S!StartProvider
  <2>1. HolderInv'
    BY <1>5 DEF S!StartProvider, HolderInv
  <2>2. StartInv'
    BY <1>5 DEF S!StartProvider, StartInv
  <2>3. ProviderInv'
    BY <1>5 DEF S!StartProvider, StartInv, ProviderInv
  <2>4. ApartInv'
    BY <1>5 DEF S!StartProvider, StartInv, ProviderInv, ApartInv
  <2> QED BY <2>1, <2>2, <2>3, <2>4
<1>6. CASE S!ProviderStarted
  <2>1. HolderInv'
    BY <1>6 DEF S!ProviderStarted, HolderInv
  <2>2. StartInv'
    BY <1>6 DEF S!ProviderStarted, StartInv
  <2>3. ProviderInv'
    <3>1. at'[S!config] = "rest" /\ conf' = mgr[S!config] /\ UNCHANGED idle
      BY <1>6 DEF S!ProviderStarted
    <3>2. \A t \in S!Threads \ {S!config} : at'[t] = at[t] /\ mgr'[t] = mgr[t]
      BY <1>6 DEF S!ProviderStarted
    <3>3. at[S!config] # "rest"
      BY <1>6 DEF S!ProviderStarted, S!SlotsFilled
    <3>4. mgr[S!config] = conf \/ conf \in idle
      BY <3>3 DEF StartInv
    <3> QED BY <3>1, <3>2, <3>4 DEF ProviderInv
  <2>4. ApartInv'
    <3>1. at[S!config] # "rest" /\ UNCHANGED stMixed
      BY <1>6 DEF S!ProviderStarted, S!SlotsFilled
    <3>2. \A t \in S!Threads \ {S!config} : at'[t] = at[t]
      BY <1>6 DEF S!ProviderStarted
    <3> QED BY <3>1, <3>2 DEF ApartInv
  <2> QED BY <2>1, <2>2, <2>3, <2>4
<1>7. ASSUME NEW n \in S!Nodes, S!StartDelete(n)
      PROVE  HolderInv' /\ StartInv' /\ ProviderInv' /\ ApartInv'
  <2>1. /\ S!Up /\ UNCHANGED <<conf, idle, locker, stMixed>>
        /\ \A t \in S!Threads \ {n} : at'[t] = at[t] /\ mgr'[t] = mgr[t]
    BY <1>7 DEF S!StartDelete
  <2>2. at'[n] = "rest" \/ (at'[n] = "delete" /\ mgr'[n] = conf)
    BY <1>7 DEF S!StartDelete
  <2>3. HolderInv'
    BY <2>1, <2>2 DEF HolderInv
  <2>4. StartInv'
    BY <2>1, <2>2 DEF S!Up, StartInv
  <2>5. ProviderInv'
    BY <2>1, <2>2 DEF ProviderInv
  <2>6. ApartInv'
    BY <2>1, <2>2 DEF ApartInv
  <2> QED BY <2>3, <2>4, <2>5, <2>6
<1>8. ASSUME NEW n \in S!Nodes, S!DeleteNode(n) \/ S!Notify(n)
      PROVE  HolderInv' /\ StartInv' /\ ProviderInv' /\ ApartInv'
  <2>1. /\ UNCHANGED <<conf, idle, locker, stMixed>>
        /\ \A t \in S!Threads \ {n} : at'[t] = at[t] /\ mgr'[t] = mgr[t]
    BY <1>8 DEF S!DeleteNode, S!Notify
  <2>2. at[n] \in {"delete", "remove", "notify"}
    BY <1>8 DEF S!DeleteNode, S!Notify
  <2>3. at'[n] = "rest" \/ (mgr'[n] = mgr[n] /\ at'[n] \in {"remove", "notify"})
        \/ (mgr'[n] = mgr[n] /\ at'[n] = "wait" /\ mgr[n] \notin idle)
    BY <1>8 DEF S!DeleteNode, S!Notify
  <2>4. HolderInv'
    BY <2>1, <2>3 DEF HolderInv
  <2>5. StartInv'
    BY <2>1, <2>2 DEF StartInv
  <2>6. ProviderInv'
    BY <2>1, <2>2, <2>3 DEF ProviderInv
  <2>7. mgr[n] \notin idle => mgr[n] = conf /\ at[S!config] = "rest"
    BY <2>2 DEF ProviderInv, StartInv
  <2>8. ApartInv'
    BY <2>1, <2>3, <2>7 DEF ApartInv
  <2> QED BY <2>4, <2>5, <2>6, <2>8
<1>9. ASSUME NEW n \in S!Nodes, S!NotifyLocks(n)
      PROVE  HolderInv' /\ StartInv' /\ ProviderInv' /\ ApartInv'
  <2>1. HolderInv'
    <3>1. at[n] = "wait" /\ locker[mgr[n]] = None
      BY <1>9 DEF S!NotifyLocks
    <3>2. CASE S!Forget(n) /\ UNCHANGED locker
      BY <3>2 DEF HolderInv
    <3>3. CASE at' = [at EXCEPT ![n] = "register"] /\ locker' = [locker EXCEPT ![mgr[n]] = n]
               /\ UNCHANGED mgr
      BY <3>1, <3>3 DEF HolderInv
    <3> QED BY <1>9, <3>2, <3>3 DEF S!NotifyLocks
  <2>2. StartInv'
    BY <1>9 DEF S!NotifyLocks, StartInv
  <2>3. ProviderInv'
    BY <1>9 DEF S!NotifyLocks, StartInv, ProviderInv
  <2>4. ApartInv'
    BY <1>9 DEF S!NotifyLocks, StartInv, ProviderInv, ApartInv
  <2> QED BY <2>1, <2>2, <2>3, <2>4
<1>10. ASSUME NEW n \in S!Nodes, S!Reregister(n)
      PROVE  HolderInv' /\ StartInv' /\ ProviderInv' /\ ApartInv'
  <2>1. HolderInv'
    BY <1>10 DEF S!Reregister, HolderInv
  <2>2. StartInv'
    BY <1>10 DEF S!Reregister, StartInv
  <2>3. ProviderInv'
    BY <1>10 DEF S!Reregister, StartInv, ProviderInv
  <2>4. ApartInv'
    BY <1>10 DEF S!Reregister, StartInv, ProviderInv, ApartInv
  <2> QED BY <2>1, <2>2, <2>3, <2>4
<1>11. ASSUME NEW n \in S!Nodes, S!Take(n) \/ S!TakeFails(n) \/ S!GiveBack(n)
      PROVE  HolderInv' /\ StartInv' /\ ProviderInv' /\ ApartInv'
  <2>1. HolderInv'
    BY <1>11 DEF S!Take, S!TakeFails, S!GiveBack, HolderInv
  <2>2. StartInv'
    BY <1>11 DEF S!Take, S!TakeFails, S!GiveBack, StartInv
  <2>3. ProviderInv'
    BY <1>11 DEF S!Take, S!TakeFails, S!GiveBack, StartInv, ProviderInv
  <2>4. ApartInv'
    BY <1>11 DEF S!Take, S!TakeFails, S!GiveBack, StartInv, ProviderInv, ApartInv
  <2> QED BY <2>1, <2>2, <2>3, <2>4
<1>12. CASE S!Reconfigure
  <2>1. HolderInv'
    BY <1>12 DEF S!Reconfigure, S!Working, HolderInv
  <2>2. StartInv'
    <3>1. conf \in Nat /\ conf' = conf /\ mgr'[S!config] = conf + 1 /\ conf \in idle'
      BY <1>12, StaticConstants DEF S!Reconfigure
    <3>2. mgr'[S!config] # conf'
      BY <3>1
    <3> QED BY <3>1, <3>2 DEF StartInv
  <2>3. ProviderInv'
    BY <1>12 DEF S!Reconfigure, S!Working, StartInv, ProviderInv
  <2>4. ApartInv'
    BY <1>12 DEF S!Reconfigure, S!Working, StartInv, ProviderInv, ApartInv
  <2> QED BY <2>1, <2>2, <2>3, <2>4
<1>13. CASE S!HostDown \/ S!HostUp
  <2>1. HolderInv'
    BY <1>13 DEF S!HostDown, S!HostUp, HolderInv
  <2>2. StartInv'
    BY <1>13 DEF S!HostDown, S!HostUp, StartInv
  <2>3. ProviderInv'
    BY <1>13 DEF S!HostDown, S!HostUp, StartInv, ProviderInv
  <2>4. ApartInv'
    BY <1>13 DEF S!HostDown, S!HostUp, StartInv, ProviderInv, ApartInv
  <2> QED BY <2>1, <2>2, <2>3, <2>4
<1>14. CASE S!Restart
  <2>1. HolderInv'
    BY <1>14 DEF S!Restart, HolderInv
  <2>2. StartInv'
    BY <1>14 DEF S!Restart, StartInv
  <2>3. ProviderInv'
    BY <1>14 DEF S!Restart, StartInv, ProviderInv
  <2>4. ApartInv'
    BY <1>14 DEF S!Restart, StartInv, ProviderInv, ApartInv
  <2> QED BY <2>1, <2>2, <2>3, <2>4
<1>15. CASE UNCHANGED svars
  <2>1. HolderInv'
    BY <1>15 DEF svars, HolderInv
  <2>2. StartInv'
    BY <1>15 DEF svars, StartInv
  <2>3. ProviderInv'
    BY <1>15 DEF svars, StartInv, ProviderInv
  <2>4. ApartInv'
    BY <1>15 DEF svars, StartInv, ProviderInv, ApartInv
  <2> QED BY <2>1, <2>2, <2>3, <2>4
<1> QED
  BY <1>1, <1>2, <1>3, <1>4, <1>5, <1>6, <1>7, <1>8, <1>9, <1>10, <1>11, <1>12, <1>13, <1>14, <1>15, StaticCases

(* Steps that add no live node *)
LEMMA LiveShrinks ==
    ASSUME S!TypeOK,
           \/ S!CleanupStarts \/ S!CleanupLocks \/ S!CleanupEnds
           \/ S!StartProvider \/ S!ProviderStarted
           \/ \E n \in S!Nodes : \/ S!StartDelete(n) \/ S!DeleteNode(n) \/ S!Notify(n)
                                 \/ S!NotifyLocks(n)
                                 \/ S!Take(n) \/ S!TakeFails(n) \/ S!GiveBack(n)
           \/ S!Reconfigure \/ S!HostDown \/ S!HostUp \/ S!Restart
           \/ UNCHANGED svars
    PROVE  S!Live' \subseteq S!Live /\ (stMixed => stMixed')
<1> USE DEF S!Live, S!Deregistered, S!TypeOK, S!bounds
<1>1. CASE S!CleanupStarts \/ S!CleanupLocks \/ S!CleanupEnds
  BY <1>1 DEF S!CleanupStarts, S!CleanupLocks, S!CleanupEnds
<1>2. CASE S!StartProvider \/ S!ProviderStarted
  BY <1>2 DEF S!StartProvider, S!ProviderStarted
<1>3. ASSUME NEW n \in S!Nodes, S!StartDelete(n) \/ S!DeleteNode(n)
      PROVE  S!Live' \subseteq S!Live /\ (stMixed => stMixed')
  BY <1>3 DEF S!StartDelete, S!DeleteNode
<1>4. ASSUME NEW n \in S!Nodes, S!Notify(n) \/ S!NotifyLocks(n)
      PROVE  S!Live' \subseteq S!Live /\ (stMixed => stMixed')
  BY <1>4 DEF S!Notify, S!NotifyLocks
<1>5. ASSUME NEW n \in S!Nodes, S!Take(n) \/ S!TakeFails(n) \/ S!GiveBack(n)
      PROVE  S!Live' \subseteq S!Live /\ (stMixed => stMixed')
  BY <1>5 DEF S!Take, S!TakeFails, S!GiveBack
<1>6. CASE S!Reconfigure \/ S!HostDown \/ S!HostUp \/ S!Restart \/ UNCHANGED svars
  BY <1>6 DEF S!Reconfigure, S!HostDown, S!HostUp, S!Restart, svars
<1> QED BY <1>1, <1>2, <1>3, <1>4, <1>5, <1>6

(* Whoever has the lock of its provider, or could take it, is the only one *)
(* that fills slots; and a provider that starts is.                        *)
LEMMA FillsAlone ==
    ASSUME HolderInv, ApartInv, ~stMixed
    PROVE  /\ \A t \in S!Threads \ {S!config} :
                 Waiting(t) /\ locker[mgr[t]] \in {None, t} =>
                     \A u \in S!Threads \ {t} : ~Filling(u)
           /\ at[S!config] # "rest" =>
                 \A u \in S!Threads \ {S!config} : ~Filling(u) /\ ~Waiting(u)
<1>1. ASSUME NEW t \in S!Threads \ {S!config}, Waiting(t), locker[mgr[t]] \in {None, t},
             NEW u \in S!Threads \ {t}, Filling(u)
      PROVE  FALSE
  <2>1. mgr[t] = conf /\ at[S!config] = "rest"
    BY <1>1 DEF ApartInv
  <2>2. u # S!config /\ Waiting(u)
    BY <1>1, <2>1 DEF Filling, Waiting
  <2>3. mgr[u] = conf /\ locker[mgr[u]] = u
    BY <1>1, <2>2 DEF ApartInv, HolderInv, Filling
  <2> QED BY <1>1, <2>1, <2>3, ThreadNames
<1>2. ASSUME at[S!config] # "rest", NEW u \in S!Threads \ {S!config}
      PROVE  ~Filling(u) /\ ~Waiting(u)
  BY <1>2 DEF ApartInv, Filling, Waiting
<1> QED BY <1>1, <1>2

(* A table has finitely many slots that are filled. *)
LEMMA FilledFinite ==
    ASSUME S!TypeOK, NEW t \in S!Threads
    PROVE  Cardinality(FilledOf(table[mgr[t]])) \in Nat
<1> DEFINE q == table[mgr[t]]
<1>1. q \in Seq(S!Nodes \cup {None, S!New})
  BY DEF S!TypeOK
<1> HIDE DEF q
<1>2. DOMAIN q = 1..Len(q) /\ Len(q) \in Nat
  BY <1>1
<1>3. IsFiniteSet(DOMAIN q)
  BY <1>2, FS_Interval
<1>4. FilledOf(q) \in SUBSET DOMAIN q
  BY DEF FilledOf
<1>5. Cardinality(FilledOf(q)) \in Nat
  BY <1>3, <1>4, FS_Subset, FS_CardinalityType
<1> QED BY <1>5 DEF q

(* Room is there for as long as no node is added.                          *)
LEMMA RoomKept ==
    ASSUME S!TypeOK, RoomInv, S!Live' \subseteq S!Live, stMixed => stMixed',
           \A t \in S!Threads :
               /\ at'[t] = "slots" => at[t] = "slots" /\ mgr'[t] = mgr[t]
                                      /\ table'[mgr[t]] = table[mgr[t]]
               /\ at'[t] = "register" => at[t] = "register" /\ mgr'[t] = mgr[t]
    PROVE  RoomInv'
<1> SUFFICES ASSUME ~stMixed', NEW t \in S!Threads
             PROVE  /\ at'[t] = "slots" =>
                          /\ Cardinality(S!Live') <= Cardinality(FilledOf(table'[mgr'[t]]))
                          /\ (\E i \in DOMAIN table'[mgr'[t]] : table'[mgr'[t]][i] = None)
                                => DOMAIN table'[mgr'[t]] = 1..Configs[mgr'[t]]
                    /\ at'[t] = "register" => Cardinality(S!Live') + 1 <= Configs[mgr'[t]]
  BY DEF RoomInv, FilledOf
<1>1. Cardinality(S!Live') \in Nat /\ Cardinality(S!Live') <= Cardinality(S!Live)
      /\ Cardinality(S!Live) \in Nat
  BY LiveFinite
<1>2. ~stMixed
  OBVIOUS
<1>3. ASSUME at'[t] = "slots"
      PROVE  /\ Cardinality(S!Live') <= Cardinality(FilledOf(table'[mgr'[t]]))
             /\ (\E i \in DOMAIN table'[mgr'[t]] : table'[mgr'[t]][i] = None)
                    => DOMAIN table'[mgr'[t]] = 1..Configs[mgr'[t]]
  <2>1. mgr'[t] = mgr[t] /\ table'[mgr'[t]] = table[mgr[t]]
    BY <1>3
  <2>2. /\ Cardinality(S!Live) <= Cardinality(FilledOf(table[mgr[t]]))
        /\ (\E i \in DOMAIN table[mgr[t]] : table[mgr[t]][i] = None)
               => DOMAIN table[mgr[t]] = 1..Configs[mgr[t]]
    BY <1>2, <1>3 DEF RoomInv
  <2>3. Cardinality(FilledOf(table[mgr[t]])) \in Nat
    BY <1>3, FilledFinite
  <2> QED BY <1>1, <2>1, <2>2, <2>3
<1>4. ASSUME at'[t] = "register"
      PROVE  Cardinality(S!Live') + 1 <= Configs[mgr'[t]]
  <2>1. Cardinality(S!Live) + 1 <= Configs[mgr[t]] /\ mgr'[t] = mgr[t]
    BY <1>2, <1>4 DEF RoomInv
  <2>2. Configs[mgr[t]] \in Nat
    BY RegisteredType, StaticConstants
  <2> QED BY <1>1, <2>1, <2>2
<1> QED BY <1>3, <1>4

(* A provider that looks at what is registered knows of every live node;   *)
(* and where it finds an empty slot there is room for one more.            *)
LEMMA RoomFound ==
    ASSUME S!TypeOK, NEW m \in S!Providers
    PROVE  LET tab == S!Registered(m) IN
           /\ Cardinality(S!Live) <= Cardinality(FilledOf(tab))
           /\ (\E i \in DOMAIN tab : tab[i] = None) => DOMAIN tab = 1..Configs[m]
           /\ \A i \in 1..Configs[m] : tab[i] = None => Cardinality(S!Live) + 1 <= Configs[m]
<1> DEFINE tab == S!Registered(m)
           k == Configs[m]
<1>1. Cardinality(S!Live) <= Cardinality(FilledOf(tab))
  BY LiveFit
<1>2. /\ 1..k \subseteq DOMAIN tab
      /\ (\E s \in DOMAIN tab : tab[s] = None) => DOMAIN tab = 1..k
  BY RegisteredFits
<1>3. k \in Nat
  BY StaticConstants
<1> HIDE DEF tab, k
<1>4. ASSUME NEW i \in 1..k, tab[i] = None
      PROVE  Cardinality(S!Live) + 1 <= k
  <2>1. DOMAIN tab = 1..k
    BY <1>2, <1>4
  <2>2. FilledOf(tab) \in SUBSET ((1..k) \ {i})
    BY <1>4, <2>1 DEF FilledOf
  <2>3. IsFiniteSet(1..k) /\ Cardinality(1..k) = k
    BY <1>3, FS_Interval
  <2>4. IsFiniteSet((1..k) \ {i}) /\ Cardinality((1..k) \ {i}) = k - 1
    BY <2>3, FS_RemoveElement
  <2>5. IsFiniteSet(FilledOf(tab)) /\ Cardinality(FilledOf(tab)) <= k - 1
    BY <2>2, <2>4, FS_Subset
  <2>6. Cardinality(FilledOf(tab)) \in Nat /\ Cardinality(S!Live) \in Nat
    BY <2>5, FS_CardinalityType, LiveFinite
  <2> QED BY <1>1, <1>3, <2>5, <2>6
<1> QED BY <1>1, <1>2, <1>4 DEF tab, k

(* A thread that fills a slot takes no more than there is. *)
LEMMA FillFits ==
    ASSUME S!TypeOK, RoomInv, ~stMixed, NEW t \in S!Threads, at[t] = "slots",
           NEW p \in DOMAIN table[mgr[t]], table[mgr[t]][p] = None,
           S!MayRegister, S!Register(p - 1), table' = [table EXCEPT ![mgr[t]][p] = S!New]
    PROVE  /\ Cardinality(S!Live') <= Cardinality(FilledOf(table'[mgr[t]]))
           /\ DOMAIN table'[mgr[t]] = 1..Configs[mgr[t]]
           /\ Cardinality(S!Live') <= Configs[mgr[t]]
<1> DEFINE m == mgr[t]
           k == Configs[m]
<1>1. m \in S!Providers /\ k \in Nat
  BY RegisteredType, StaticConstants
<1>2. Cardinality(S!Live) <= Cardinality(FilledOf(table[m])) /\ DOMAIN table[m] = 1..k
  BY DEF RoomInv
<1>3. p - 1 \in Nat
  BY <1>1, <1>2
<1>4. Cardinality(S!Live') \in Nat /\ Cardinality(S!Live') <= Cardinality(S!Live) + 1
  BY <1>3, RegisterOne
<1>5. /\ DOMAIN table'[m] = DOMAIN table[m]
      /\ Cardinality(FilledOf(table[m])) \in Nat
      /\ Cardinality(FilledOf(table'[m])) = Cardinality(FilledOf(table[m])) + 1
      /\ Cardinality(FilledOf(table'[m])) <= Cardinality(DOMAIN table[m])
  BY <1>1, FillOne
<1> HIDE DEF k
<1>6. Cardinality(1..k) = k
  BY <1>1, FS_Interval
<1>7. Cardinality(S!Live) \in Nat
  BY LiveFinite
<1>8. Cardinality(S!Live') <= Cardinality(FilledOf(table'[m]))
  BY <1>2, <1>4, <1>5, <1>7
<1>9. Cardinality(S!Live') <= k
  BY <1>1, <1>2, <1>4, <1>5, <1>6, <1>8
<1> QED BY <1>2, <1>5, <1>8, <1>9 DEF k

(* Nobody fills slots, or only one thread does, and finds room. *)
LEMMA RoomOfOne ==
    ASSUME NEW t \in S!Threads,
           \A u \in S!Threads \ {t} : at'[u] \notin {"slots", "register"},
           ~stMixed' /\ at'[t] = "slots" =>
               /\ Cardinality(S!Live') <= Cardinality(FilledOf(table'[mgr'[t]]))
               /\ (\E i \in DOMAIN table'[mgr'[t]] : table'[mgr'[t]][i] = None)
                     => DOMAIN table'[mgr'[t]] = 1..Configs[mgr'[t]],
           ~stMixed' /\ at'[t] = "register" => Cardinality(S!Live') + 1 <= Configs[mgr'[t]]
    PROVE  RoomInv'
BY DEF RoomInv, FilledOf

LEMMA RoomMixed == stMixed' => RoomInv'
BY DEF RoomInv

(* There is room after every step. *)
LEMMA RoomStep ==
    ASSUME S!TypeOK, HolderInv, StartInv, ProviderInv, ApartInv, RoomInv, [S!Next]_svars
    PROVE  RoomInv'
<1> USE ThreadNames DEF S!Goto, S!bounds
<1>a. at \in [S!Threads -> {"rest", "start", "wait", "slots", "failed", "delete", "remove",
                           "notify", "register"}]
      /\ mgr \in [S!Threads -> S!Providers]
      /\ table \in [S!Providers -> Seq(S!Nodes \cup {None, S!New})]
  BY DEF S!TypeOK
<1>1. CASE S!CleanupStarts
  <2>1. at' = [at EXCEPT ![S!cleanup] = "wait"] /\ mgr' = [mgr EXCEPT ![S!cleanup] = conf]
        /\ UNCHANGED table
    BY <1>1 DEF S!CleanupStarts
  <2> QED BY <1>1, <1>a, <2>1, LiveShrinks, RoomKept
<1>2. ASSUME S!CleanupLocks, ~stMixed'
      PROVE  RoomInv'
  <2> DEFINE c == S!cleanup
             m == mgr[c]
  <2>1. /\ at[c] = "wait" /\ locker[m] = None
        /\ at' = [at EXCEPT ![c] = "slots"] /\ UNCHANGED <<mgr, state, stMixed>>
        /\ table' = [table EXCEPT ![m] = S!Registered(m)]
    BY <1>2 DEF S!CleanupLocks
  <2>2. \A u \in S!Threads \ {c} : ~Filling(u)
    BY <1>2, <2>1, FillsAlone DEF Waiting
  <2>3. m \in S!Providers
    BY <1>a
  <2>4. table'[m] = S!Registered(m) /\ S!Live' = S!Live /\ mgr'[c] = m /\ at'[c] = "slots"
    BY <1>a, <2>1, <2>3 DEF S!Live
  <2>5. \A u \in S!Threads \ {c} : at'[u] \notin {"slots", "register"}
    BY <1>a, <2>1, <2>2 DEF Filling
  <2> HIDE DEF c, m
  <2>6. c \in S!Threads
    BY DEF c
  <2> QED BY <2>3, <2>4, <2>5, <2>6, RoomFound, RoomOfOne
<1>3. ASSUME S!CleanupEnds, ~stMixed'
      PROVE  RoomInv'
  <2>1. /\ at[S!cleanup] \in {"slots", "failed"}
        /\ at' = [at EXCEPT ![S!cleanup] = "rest"]
    BY <1>3 DEF S!CleanupEnds, S!SlotsFilled, S!Release
  <2>2. Waiting(S!cleanup) /\ locker[mgr[S!cleanup]] = S!cleanup
    BY <2>1 DEF HolderInv, Waiting
  <2>3. \A u \in S!Threads \ {S!cleanup} : ~Filling(u)
    BY <1>3, <2>2, LiveShrinks, FillsAlone
  <2>4. \A u \in S!Threads : at'[u] \notin {"slots", "register"}
    BY <1>a, <2>1, <2>3 DEF Filling
  <2> QED BY <2>4, RoomOfOne
<1>4. ASSUME NEW t \in {S!cleanup, S!config}, S!SyncSlot(t), ~stMixed'
      PROVE  RoomInv'
  <2> DEFINE m == mgr[t]
  <2>1. PICK p \in DOMAIN table[m] :
           /\ table[m][p] = None
           /\ \/ /\ S!MayRegister /\ S!Register(p - 1)
                 /\ table' = [table EXCEPT ![m][p] = S!New] /\ UNCHANGED at
              \/ at' = [at EXCEPT ![t] = "failed"] /\ UNCHANGED <<state, slot, table>>
    BY <1>4 DEF S!SyncSlot
  <2>2. at[t] = "slots" /\ UNCHANGED <<mgr, stMixed>>
    BY <1>4 DEF S!SyncSlot
  <2>3. \A u \in S!Threads \ {t} : ~Filling(u)
    <3>1. CASE t = S!config
      BY <1>4, <2>2, <3>1, FillsAlone
    <3>2. CASE t # S!config
      <4>1. Waiting(t) /\ locker[mgr[t]] = t /\ t \in S!Threads \ {S!config}
        BY <2>2, <3>2 DEF HolderInv, Waiting
      <4> QED BY <1>4, <2>2, <4>1, FillsAlone
    <3> QED BY <3>1, <3>2
  <2>4. CASE at' = [at EXCEPT ![t] = "failed"]
    <3>1. \A u \in S!Threads : at'[u] \notin {"slots", "register"}
      BY <1>a, <2>3, <2>4 DEF Filling
    <3> QED BY <3>1, RoomOfOne
  <2>5. CASE /\ S!MayRegister /\ S!Register(p - 1)
             /\ table' = [table EXCEPT ![m][p] = S!New] /\ UNCHANGED at
    <3>1. /\ Cardinality(S!Live') <= Cardinality(FilledOf(table'[m]))
          /\ DOMAIN table'[m] = 1..Configs[m]
      BY <1>4, <2>1, <2>2, <2>5, FillFits
    <3>2. \A u \in S!Threads \ {t} : at'[u] \notin {"slots", "register"}
      BY <2>3, <2>5 DEF Filling
    <3>3. mgr'[t] = m /\ at'[t] = "slots" /\ t \in S!Threads
      BY <2>2, <2>5
    <3> HIDE DEF m
    <3> QED BY <3>1, <3>2, <3>3, RoomOfOne
  <2> QED BY <2>1, <2>4, <2>5
<1>5. ASSUME S!StartProvider, ~stMixed'
      PROVE  RoomInv'
  <2> DEFINE c == S!config
             m == mgr[c]
  <2>1. /\ at[c] = "start"
        /\ at' = [at EXCEPT ![c] = IF Configs[m] = 0 THEN "failed" ELSE "slots"]
        /\ table' = [table EXCEPT ![m] = S!Registered(m)] /\ UNCHANGED <<mgr, state, stMixed>>
    BY <1>5 DEF S!StartProvider
  <2>2. \A u \in S!Threads \ {c} : ~Filling(u)
    BY <1>5, <2>1, FillsAlone
  <2>3. m \in S!Providers
    BY <1>a
  <2>4. table'[m] = S!Registered(m) /\ S!Live' = S!Live /\ mgr'[c] = m /\ at'[c] # "register"
    BY <1>a, <2>1, <2>3 DEF S!Live
  <2>5. \A u \in S!Threads \ {c} : at'[u] \notin {"slots", "register"}
    BY <1>a, <2>1, <2>2 DEF Filling
  <2> HIDE DEF c, m
  <2>6. c \in S!Threads
    BY DEF c
  <2> QED BY <2>3, <2>4, <2>5, <2>6, RoomFound, RoomOfOne
<1>6. ASSUME S!ProviderStarted, ~stMixed'
      PROVE  RoomInv'
  <2>1. at[S!config] # "rest" /\ at' = [at EXCEPT ![S!config] = "rest"]
    BY <1>6 DEF S!ProviderStarted, S!SlotsFilled, S!Release
  <2>2. \A u \in S!Threads \ {S!config} : ~Filling(u)
    BY <1>6, <2>1, LiveShrinks, FillsAlone
  <2>3. \A u \in S!Threads : at'[u] \notin {"slots", "register"}
    BY <1>a, <2>1, <2>2 DEF Filling
  <2> QED BY <2>3, RoomOfOne
<1>7. ASSUME NEW n \in S!Nodes, S!StartDelete(n) \/ S!DeleteNode(n) \/ S!Notify(n)
      PROVE  RoomInv'
  <2>1. /\ UNCHANGED table /\ at'[n] \notin {"slots", "register"}
        /\ \A u \in S!Threads \ {n} : at'[u] = at[u] /\ mgr'[u] = mgr[u]
    BY <1>7, <1>a DEF S!StartDelete, S!DeleteNode, S!Notify, S!Forget
  <2>2. S!Live' \subseteq S!Live /\ (stMixed => stMixed')
    BY <1>7, LiveShrinks
  <2> QED BY <2>1, <2>2, RoomKept
<1>8. ASSUME NEW n \in S!Nodes, S!NotifyLocks(n), ~stMixed'
      PROVE  RoomInv'
  <2> DEFINE m == mgr[n]
             tab == S!Registered(m)
  <2>1. at[n] = "wait" /\ locker[m] = None /\ UNCHANGED <<state, stMixed>>
    BY <1>8 DEF S!NotifyLocks
  <2>2. \/ /\ slot[n] < Configs[m] /\ tab[slot[n] + 1] = None
           /\ at' = [at EXCEPT ![n] = "register"] /\ UNCHANGED mgr
        \/ at' = [at EXCEPT ![n] = "rest"]
    BY <1>8 DEF S!NotifyLocks, S!Forget
  <2>3. \A u \in S!Threads \ {n} : ~Filling(u)
    BY <1>8, <2>1, FillsAlone DEF Waiting
  <2>4. \A u \in S!Threads \ {n} : at'[u] \notin {"slots", "register"}
    BY <1>a, <2>2, <2>3 DEF Filling
  <2>5. at'[n] # "slots" /\ S!Live' = S!Live
    BY <1>a, <2>1, <2>2 DEF S!Live
  <2>6. at'[n] = "register" => Cardinality(S!Live') + 1 <= Configs[mgr'[n]]
    <3> SUFFICES ASSUME at'[n] = "register" PROVE Cardinality(S!Live') + 1 <= Configs[mgr'[n]]
      OBVIOUS
    <3>1. slot[n] < Configs[m] /\ tab[slot[n] + 1] = None /\ mgr'[n] = m
      BY <1>a, <2>2
    <3>2. m \in S!Providers /\ slot[n] \in Nat /\ Configs[m] \in Nat
      BY StaticConstants DEF S!TypeOK
    <3>3. slot[n] + 1 \in 1..Configs[m]
      BY <3>1, <3>2
    <3>4. Cardinality(S!Live) + 1 <= Configs[m]
      BY <3>1, <3>2, <3>3, RoomFound
    <3> QED BY <2>5, <3>1, <3>4
  <2> QED BY <2>4, <2>5, <2>6, RoomOfOne
<1>9. ASSUME NEW n \in S!Nodes, S!Reregister(n), ~stMixed'
      PROVE  RoomInv'
  <2>1. at[n] = "register" /\ at' = [at EXCEPT ![n] = "rest"] /\ UNCHANGED stMixed
    BY <1>9 DEF S!Reregister, S!Release
  <2>2. Waiting(n) /\ locker[mgr[n]] = n
    BY <2>1 DEF HolderInv, Waiting
  <2>3. \A u \in S!Threads \ {n} : ~Filling(u)
    BY <1>9, <2>1, <2>2, FillsAlone
  <2>4. \A u \in S!Threads : at'[u] \notin {"slots", "register"}
    BY <1>a, <2>1, <2>3 DEF Filling
  <2> QED BY <2>4, RoomOfOne
<1>10. ASSUME NEW n \in S!Nodes, S!Take(n) \/ S!TakeFails(n) \/ S!GiveBack(n)
       PROVE  RoomInv'
  <2>1. UNCHANGED <<table, at, mgr>>
    BY <1>10 DEF S!Take, S!TakeFails, S!GiveBack
  <2> QED BY <1>10, <2>1, LiveShrinks, RoomKept
<1>11. CASE S!Reconfigure
  <2>1. /\ at' = [at EXCEPT ![S!config] = "start"] /\ UNCHANGED table
        /\ \A u \in S!Threads \ {S!config} : at'[u] = at[u] /\ mgr'[u] = mgr[u]
    BY <1>11, <1>a DEF S!Reconfigure
  <2> QED BY <1>11, <1>a, <2>1, LiveShrinks, RoomKept
<1>12. CASE S!HostDown \/ S!HostUp \/ UNCHANGED svars
  <2>1. UNCHANGED <<table, at, mgr>>
    BY <1>12 DEF S!HostDown, S!HostUp, svars
  <2> QED BY <1>12, <2>1, LiveShrinks, RoomKept
<1>13. CASE S!Restart
  <2>1. \A u \in S!Threads : at'[u] \notin {"slots", "register"}
    BY <1>13 DEF S!Restart
  <2> QED BY <2>1, RoomOfOne
<1> QED
  BY <1>1, <1>2, <1>3, <1>4, <1>5, <1>6, <1>7, <1>8, <1>9, <1>10, <1>11, <1>12, <1>13,
     RoomMixed, StaticCases

(* A registration never takes the host past what is configured. *)
LEMMA FitStep ==
    ASSUME StaticInv, [S!Next]_svars
    PROVE  S!Live' \ S!Live # {} /\ ~stMixed =>
              \E t \in S!Threads : at[t] \in {"slots", "register"}
                                   /\ S!Cardinality(S!Live') <= Configs[mgr[t]]
<1> USE DEF StaticInv
<1> SUFFICES ASSUME S!Live' \ S!Live # {}, ~stMixed
             PROVE  \E t \in S!Threads : at[t] \in {"slots", "register"}
                                         /\ Cardinality(S!Live') <= Configs[mgr[t]]
  BY SameCardinality
<1>1. \/ \E t \in {S!cleanup, S!config} : S!SyncSlot(t)
      \/ \E n \in S!Nodes : S!Reregister(n)
  BY StaticCases, LiveShrinks
<1>2. ASSUME NEW t \in {S!cleanup, S!config}, S!SyncSlot(t)
      PROVE  at[t] = "slots" /\ Cardinality(S!Live') <= Configs[mgr[t]]
  <2>1. PICK p \in DOMAIN table[mgr[t]] :
           /\ table[mgr[t]][p] = None
           /\ \/ /\ S!MayRegister /\ S!Register(p - 1)
                 /\ table' = [table EXCEPT ![mgr[t]][p] = S!New]
              \/ UNCHANGED state
    BY <1>2 DEF S!SyncSlot
  <2>2. at[t] = "slots" /\ t \in S!Threads
    BY <1>2, ThreadNames DEF S!SyncSlot
  <2>3. state' # state
    BY DEF S!Live
  <2> QED BY <2>1, <2>2, <2>3, FillFits
<1>3. ASSUME NEW n \in S!Nodes, S!Reregister(n)
      PROVE  at[n] = "register" /\ Cardinality(S!Live') <= Configs[mgr[n]]
  <2>1. at[n] = "register" /\ ((S!MayRegister /\ S!Register(slot[n])) \/ UNCHANGED state)
    BY <1>3 DEF S!Reregister
  <2>2. n \in S!Threads /\ slot[n] \in Nat
    BY ThreadNames DEF S!TypeOK
  <2>3. S!MayRegister /\ S!Register(slot[n])
    BY <2>1 DEF S!Live
  <2>4. Cardinality(S!Live') \in Nat /\ Cardinality(S!Live') <= Cardinality(S!Live) + 1
    BY <2>2, <2>3, RegisterOne
  <2>5. Cardinality(S!Live) + 1 <= Configs[mgr[n]]
    BY <2>1, <2>2 DEF RoomInv
  <2>6. Configs[mgr[n]] \in Nat /\ Cardinality(S!Live) \in Nat
    BY <2>2, RegisteredType, StaticConstants, LiveFinite
  <2> QED BY <2>1, <2>4, <2>5, <2>6
<1>4. S!cleanup \in S!Threads /\ S!config \in S!Threads /\ S!Nodes \subseteq S!Threads
  BY ThreadNames
<1> QED BY <1>1, <1>2, <1>3, <1>4

(* The invariant of the static driver survives every step. *)
LEMMA StaticStep ==
    ASSUME StaticInv, [S!Next]_svars
    PROVE  StaticInv'
BY StaticTypes, ControlStep, RoomStep DEF StaticInv

(* A node is registered only where the configuration in question has room  *)
(* for it: _syncNodeCount and _nodeDeletedNotification of one provider, or *)
(* of one that takes over from another, exclude each other, and look at    *)
(* what is registered before they register.                                *)
THEOREM StaticFits == LiveSpec => RegistrationFits
<1>1. DriversInit => StaticInv
  BY StaticInit DEF DriversInit
<1>2. [DriversNext]_allVars => [S!Next]_svars
  BY DEF DriversNext, allVars
<1>3. StaticInv /\ [DriversNext]_allVars => StaticInv'
  BY <1>2, StaticStep
<1>4. StaticInv /\ [DriversNext]_allVars =>
         [S!Live' \ S!Live # {} /\ ~stMixed =>
             \E t \in S!Threads : at[t] \in {"slots", "register"}
                 /\ S!Cardinality(S!Live') <= Configs[mgr[t]]]_(S!vars)
  BY <1>2, FitStep
<1> QED BY <1>1, <1>3, <1>4, PTL DEF LiveSpec, RegistrationFits, S!RegistrationFits
----------------------------------------------------------------------------
(* All three *)

(* The variables of the three drivers keep to their types: a table of      *)
(* slots names nodes, a lock threads, a count never passes its bound.      *)
THEOREM DriversTypes == LiveSpec => []TypesOK
<1>1. DriversInit => StaticInv /\ IInv /\ C!TypeOK
  BY StaticInit, InitInvariant, ContainerInit DEF DriversInit
<1>2. ASSUME StaticInv, IInv, C!TypeOK, [DriversNext]_allVars
      PROVE  StaticInv' /\ IInv' /\ C!TypeOK'
  <2>1. [S!Next]_svars /\ [Next]_vars /\ [C!Next]_cvars
    BY <1>2 DEF DriversNext, allVars
  <2> QED BY <1>2, <2>1, StaticStep, StepInvariant, ContainerTypes
<1>3. StaticInv /\ IInv /\ C!TypeOK => TypesOK
  BY DEF StaticInv, IInv, AlwaysInv, TypesOK
<1> QED BY <1>1, <1>2, <1>3, PTL DEF LiveSpec
=============================================================================
