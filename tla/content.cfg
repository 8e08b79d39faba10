CHECK_DEADLOCK FALSE
SPECIFICATION Spec
CONSTANTS
  v1 = v1
  v2 = v2
  v3 = v3
  Absent = Absent
  Whole = Whole
  Kinds <- MCKinds
  Versions <- MCVersions
  SizeOf <- MCSizeOf
  Ends = {0, 1, 2, 3, 4}
  MaxChanges = 3
INVARIANTS UndisturbedIsRight BrokenOnlyByChange LocalRangeIsSane
