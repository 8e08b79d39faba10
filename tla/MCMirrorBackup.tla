---------------------------- MODULE MCMirrorBackup ----------------------------
(* MirrorBackup on small instances: one or two workers beside one upload and  *)
(* one request of the administrator.                                          *)
EXTENDS MirrorBackup, TLC

CONSTANTS w1, w2

OneWorker == {w1}
TwoWorkers == {w1, w2}
WorkerSymmetry == Permutations(TwoWorkers)

InSafe == {"safe"}
AnyMode == {"safe", "mirror"}

WithFile == {1}
WithOrWithout == {0, 1}

Suppression == {"cancel", "resume"}
AllButEnable == {"cancel", "resume", "mode", "remove"}
SuppressionAndEnable == {"cancel", "resume", "enable"}

OnlyCrash == {"crash"}
ProviderFaults == {"error", "auth"}
===============================================================================
