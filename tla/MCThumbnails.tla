----------------------------- MODULE MCThumbnails -----------------------------
(* Thumbnails on a small instance: two workers, two versions of a file.       *)
EXTENDS Thumbnails, TLC

CONSTANTS w1, w2, grid, preview

MCWorkers == {w1, w2}
MCVariants == {grid, preview}
MCVerdicts == {[v \in 1..Versions |-> x] : x \in Verdict}
Symmetry == Permutations(MCWorkers) \cup Permutations(MCVariants)
===============================================================================
