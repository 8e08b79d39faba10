CHECK_DEADLOCK FALSE
SPECIFICATION Spec
CONSTANTS
  p1 = p1
  p2 = p2
  Procs <- MCProcs
  MaxCalls = 2
  MaxTokens = 3
  MaxFaults = 1
SYMMETRY MCSymmetry
INVARIANTS StoredTokenIsLive KeysAreTheLastSet  AuthorizedIffConnected
PROPERTIES FlowEndsOnce
