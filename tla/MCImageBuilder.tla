--------------------------- MODULE MCImageBuilder ---------------------------
(***************************************************************************)
(* Instances of ImageBuilder for TLC.                                      *)
(***************************************************************************)
EXTENDS ImageBuilder, TLC

CONSTANTS b1, w1, q1, i1, i2, i3, u1

OneBuilder == {b1}
OneUploadWorker == {w1}
OneHost == [w \in UploadWorkers |-> b1]
OneProvider == {q1}
TwoBuilds == {i1, i2}
ThreeBuilds == {i1, i2, i3}
OneUpload == {u1}

Symmetry == Permutations(Builders) \cup Permutations(Providers)
            \cup Permutations(UploadWorkers)
            \cup Permutations(Builds) \cup Permutations(Uploads)
=============================================================================
