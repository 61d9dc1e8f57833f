------------------------------- MODULE NodeView -------------------------------
(***************************************************************************)
(* What a launcher is promised of the nodes it reads from its cache.  A    *)
(* node is created once, written several times, and deleted for good.  The *)
(* view of it may lag, and may skip what was written in between, but it    *)
(* never shows anything that was not written, never leaves out a node that *)
(* it has shown as long as the node exists, never brings one back, and     *)
(* never takes older data after newer from ZooKeeper.  That holds for what *)
(* it learns; what the launcher wrote itself it may see replaced by a      *)
(* version between the last one it learned and its own.                    *)
(***************************************************************************)
EXTENDS Integers

CONSTANTS Ids

VARIABLES
    state,      \* of each node: "unborn", "data" or "gone"
    version,    \* how many times it was written
    view,       \* the version that readers see, 0 before the first, or Forgotten
    learned     \* the version last read from ZooKeeper

vvars == <<state, version, view, learned>>

Forgotten == -1

Init ==
    /\ state \in [Ids -> {"unborn", "data"}]
    /\ version = [n \in Ids |-> IF state[n] = "data" THEN 1 ELSE 0]
    /\ view = [n \in Ids |-> 0] /\ learned = [n \in Ids |-> 0]

\* What the launcher writes itself it sees at once
Write(n) ==
    /\ state[n] # "gone"
    /\ state' = [state EXCEPT ![n] = "data"]
    /\ version' = [version EXCEPT ![n] = @ + 1]
    /\ \/ UNCHANGED view
       \/ view[n] > 0 /\ view' = [view EXCEPT ![n] = version'[n]]
    /\ UNCHANGED learned

Remove(n) ==
    /\ state[n] = "data"
    /\ state' = [state EXCEPT ![n] = "gone"]
    /\ UNCHANGED <<version, view, learned>>

Learn(n) ==
    /\ view[n] # Forgotten
    /\ \E v \in learned[n] + 1 .. version[n] :
           view' = [view EXCEPT ![n] = v] /\ learned' = [learned EXCEPT ![n] = v]
    /\ UNCHANGED <<state, version>>

Forget(n) ==
    /\ state[n] = "gone"
    /\ view' = [view EXCEPT ![n] = Forgotten]
    /\ UNCHANGED <<state, version, learned>>

Next == \E n \in Ids : Write(n) \/ Remove(n) \/ Learn(n) \/ Forget(n)

Spec == Init /\ [][Next]_vvars
=============================================================================
