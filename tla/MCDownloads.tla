------------------------------ MODULE MCDownloads ------------------------------
(* A small instance of Downloads, with its sessions, for TLC.                 *)
EXTENDS Downloads, TLC

CONSTANTS p1, p2, s1, s2, c1, c2, c3, t1

MCProcs == {p1, p2}
MCSessionIds == {s1, s2}
MCClients == {c1, c2, c3}
MCTickets == {t1}

MCSymmetry == Permutations(MCProcs) \cup Permutations(MCSessionIds) \cup Permutations(MCClients)

\* Items of two albums with the same path, and one whose name is "name (1)":
\* the second copy of the first gets a name that is taken.
MCSelections == {<<<<1, 1>>, <<1>>, <<2>>, <<1>>, <<1>>>>}
===============================================================================
