------------------------ MODULE MCNodeRequestFaults -------------------------
(***************************************************************************)
(* Instances of NodeRequestFaults for TLC.                                 *)
(***************************************************************************)
EXTENDS NodeRequestFaults, TLC

CONSTANTS p1, p2, r1, r2, n1, n2, n3

TwoPools == {p1, p2}
OnePool == {p1}
TwoRequests == {r1, r2}
OneRequest == {r1}
TwoNodes == {n1, n2}
ThreeNodes == {n1, n2, n3}
WantOne == (r1 :> 1)
WantOneEach == (r1 :> 1) @@ (r2 :> 1)
NoMinReady == {}
NoSubmitter == <<>>
Servers2 == [p \in Pools |-> 2]

Symmetry == Permutations(Pools) \cup Permutations(Nodes)
=============================================================================
