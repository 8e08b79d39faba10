CHECK_DEADLOCK FALSE
SPECIFICATION FairSpec
CONSTANTS
  j1 = j1
  j2 = j2
  w1 = w1
  w2 = w2
  a1 = a1
  a2 = a2
  NoJob = NoJob
  Jobs <- MCJobs
  Workers <- MCWorkers
  Albums <- MCAlbums
  AlbumOf <- MCAlbumOf
  Faults <- AllFaults
  MaxAttempts = 2
  BatchLimit = 2
  MaxCalls = 2
  MaxFaults = 2
INVARIANTS TypeOK OneHolder HolderOwnsRow RunningHasLease
PROPERTIES ImplementsLedger PendingIsServed 
