---------------------------- MODULE MCNodeRotate ----------------------------
(* An instance of NodeRotate for TLC.                                      *)
EXTENDS NodeRotate, TLC

CONSTANTS r1, r2

MCRotations == {r1, r2}

\* A rotation is told apart by nothing but the names it generates.
MCSymmetry == Permutations(Rotations)
=============================================================================
