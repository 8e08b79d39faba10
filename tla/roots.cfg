CHECK_DEADLOCK FALSE
SPECIFICATION Spec
CONSTANTS
  r1 = r1
  r2 = r2
  s1 = s1
  s2 = s2
  None = None
  Requests <- MCRequests
  Storages <- MCStorages
  Paths <- MCPaths
  MaxFaults = 1
SYMMETRY Symmetry
INVARIANTS OneOwnerUnlessRaced BackupIsItsOwnUnlessRaced AlbumHasStorageUnlessRaced
