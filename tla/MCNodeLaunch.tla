---------------------------- MODULE MCNodeLaunch ----------------------------
(***************************************************************************)
(* Instances of NodeLaunch for TLC.                                        *)
(***************************************************************************)
EXTENDS NodeLaunch

CONSTANTS n1, i1, i2, i3

OneNode == {n1}
ThreeInstances == {i1, i2, i3}
=============================================================================
