----------------------------- MODULE MCSyncQueue -----------------------------
(* Small instances of SyncQueue: the options its callers use.  Plain is    *)
(* the call almost every service makes, DownloadFirst the launch's, Spawn  *)
(* the strategy of downloadFirstSync after a sign in; AwaitAllAndCheck     *)
(* joins what a password change and key recovery ask for.                  *)
EXTENDS SyncQueue

Plain == DefaultOptions
DownloadFirst == [DefaultOptions EXCEPT !.mode = "DownloadFirst"]
Spawn == [DefaultOptions EXCEPT !.strategy = "ForceSpawnNew"]
AwaitAllAndCheck == [DefaultOptions EXCEPT !.awaitAll = TRUE, !.checkIntegrity = TRUE]

PlainAndSpawn == {Plain, Spawn}
DistinctKinds == {DownloadFirst, Spawn, AwaitAllAndCheck}
=============================================================================
