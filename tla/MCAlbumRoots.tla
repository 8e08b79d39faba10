----------------------------- MODULE MCAlbumRoots -----------------------------
(* AlbumRoots on a small instance: two albums, two storages, and a path of    *)
(* three directories.                                                         *)
EXTENDS AlbumRoots, TLC

CONSTANTS r1, r2, s1, s2

MCRequests == {r1, r2}
MCStorages == {s1, s2}
MCPaths == {<<>>, <<"a">>, <<"a", "b">>}

Symmetry == Permutations(MCRequests) \cup Permutations(MCStorages)
===============================================================================
