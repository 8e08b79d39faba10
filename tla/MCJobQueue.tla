------------------------------ MODULE MCJobQueue ------------------------------
(* JobQueue on small instances: two jobs of two albums, two workers.          *)
EXTENDS JobQueue

CONSTANTS j1, j2, w1, w2, a1, a2

MCJobs == {j1, j2}
MCOneJob == {j1}
MCWorkers == {w1, w2}
MCAlbums == {a1, a2}
MCAlbumOf == [j \in Jobs |-> IF j = j1 THEN a1 ELSE a2]

AllFaults == {"crash", "stop", "dberror"}
ProcessFaults == {"crash", "stop"}
===============================================================================
