---------------------------- MODULE MCKnlSession ----------------------------
(* Instances of KnlSession for TLC. *)
EXTENDS KnlUnits, TLC

CONSTANTS s1, s2, s3, h1, h2

OneStream == {s1}
TwoStreams == {s1, s2}
ThreeStreams == {s1, s2, s3}
TwoHandles == {h1, h2}

MixedAmounts == {-1, 1, 2}
OneAmount == {1}

SymmetryOne == Permutations({h1, h2})
SymmetryTwo == Permutations({h1, h2}) \cup Permutations({s1, s2})
SymmetryThree == Permutations({h1, h2}) \cup Permutations({s1, s2, s3})
=============================================================================
