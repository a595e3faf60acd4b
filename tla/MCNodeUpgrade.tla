---------------------------- MODULE MCNodeUpgrade ----------------------------
(* An instance of NodeUpgrade for TLC.                                     *)
EXTENDS NodeUpgrade, TLC

CONSTANTS u1, u2, w1, w2

MCUpgrades1 == {u1}
MCUpgrades2 == {u1, u2}
MCWriters1 == {w1}
MCWriters2 == {w1, w2}

\* Runs and requests are told apart by the names they make and nothing else.
MCSymmetry == Permutations(Upgrades) \cup Permutations(Writers)
=============================================================================
