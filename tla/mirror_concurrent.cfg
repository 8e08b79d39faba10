CHECK_DEADLOCK FALSE
SPECIFICATION Spec
CONSTANTS
  w1 = w1
  w2 = w2
  Admin = Admin
  Upload = Upload
  Workers <- TwoWorkers
  Versions = 2
  Grace = 1
  StartModes <- InSafe
  StartFiles <- WithOrWithout
  Restores = TRUE
  AdminOps <- SuppressionAndEnable
  SyncOnUpload = TRUE
  FaultKinds <- OnlyCrash
  MaxTime = 1
  MaxEdits = 1
  MaxScans = 2
  MaxUploads = 1
  MaxAdmin = 1
  MaxFaults = 1
SYMMETRY WorkerSymmetry
PROPERTY SafeAlbumKeepsBackup
