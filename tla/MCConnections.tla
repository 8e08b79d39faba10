----------------------------- MODULE MCConnections -----------------------------
(* A small instance of Connections for TLC.                                   *)
EXTENDS Connections, TLC

CONSTANTS p1, p2

MCProcs == {p1, p2}
MCSymmetry == Permutations(MCProcs)
===============================================================================
