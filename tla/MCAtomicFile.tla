---------------------------- MODULE MCAtomicFile ----------------------------
(* An instance of AtomicFile for TLC.                                      *)
EXTENDS AtomicFile, TLC

CONSTANTS w1, w2, w3

MCWriters == {w1, w2, w3}

\* A call writes its own content and is told apart by nothing else.
MCSymmetry == Permutations(Writers)
=============================================================================
