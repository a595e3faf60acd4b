---------------------------- MODULE MCNodeUsers ----------------------------
(* Instances of NodeUsers for TLC.                                         *)
EXTENDS NodeUsers, TLC

CONSTANTS u1, u2, u3, p1, p2, p3, extra

MCInbounds == {Main, extra}
MCUsers2 == {u1, u2}
MCUsers3 == {u1, u2, u3}
MCOps2 == {p1, p2}
MCOps3 == {p1, p2, p3}
MCAllKinds == AgentKinds \cup CliKinds

\* Users and requests are interchangeable: what a request mints is itself.
MCSymmetry == Permutations(Users) \cup Permutations(Ops)
=============================================================================
