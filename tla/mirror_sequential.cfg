CHECK_DEADLOCK FALSE
SPECIFICATION Spec
CONSTANTS
  w1 = w1
  w2 = w2
  Admin = Admin
  Upload = Upload
  Workers <- OneWorker
  Versions = 2
  Grace = 1
  StartModes <- AnyMode
  StartFiles <- WithFile
  Restores = FALSE
  AdminOps <- AllButEnable
  SyncOnUpload = TRUE
  FaultKinds <- ProviderFaults
  MaxTime = 1
  MaxEdits = 2
  MaxScans = 4
  MaxUploads = 0
  MaxAdmin = 2
  MaxFaults = 1
  
PROPERTY DeletionConfirmed
