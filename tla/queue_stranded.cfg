CHECK_DEADLOCK FALSE
SPECIFICATION FairSpec
CONSTANTS
  j1 = j1
  j2 = j2
  w1 = w1
  w2 = w2
  a1 = a1
  a2 = a2
  NoJob = NoJob
  Jobs <- MCOneJob
  Workers <- MCWorkers
  Albums <- MCAlbums
  AlbumOf <- MCAlbumOf
  Faults <- ProcessFaults
  MaxAttempts = 2
  BatchLimit = 1
  MaxCalls = 1
  MaxFaults = 1
PROPERTY RunningEnds
