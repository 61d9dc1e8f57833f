--------------------------- MODULE MCNodeRequests ---------------------------
(***************************************************************************)
(* Instances of NodeRequests for TLC.                                      *)
(***************************************************************************)
EXTENDS NodeRequests, TLC

CONSTANTS p1, p2, r1, r2, n1, n2

TwoPools == {p1, p2}
TwoRequests == {r1, r2}
TwoNodes == {n1, n2}
OnePool == {p1}
OneRequest == {r1}

\* r1 asks for two nodes, r2 for one
WantTwoAndOne == (r1 :> 2) @@ (r2 :> 1)
WantOne == (r1 :> 1)
\* r2 is a min-ready request of p1's launcher
SecondMinReady == {r2}
SubmittedByP1 == (r2 :> p1)
NoMinReady == {}
NoSubmitter == <<>>
Servers1 == [p \in Pools |-> 1]
Servers2 == [p \in Pools |-> 2]

NodeSymmetry == Permutations(Nodes)
Symmetry == Permutations(TwoPools) \cup Permutations(Nodes)
=============================================================================
