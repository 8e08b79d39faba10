CHECK_DEADLOCK FALSE
SPECIFICATION Spec
CONSTANTS
  first = first
  again = again
  other = other
  k1 = k1
  k2 = k2
  n1 = n1
  None = None
  Requests <- MCTwoRequests
  Keys <- MCKeys
  KeyOf <- MCKeyOf
  Names <- MCNames
  NameOf <- MCNameOf
  Kinds <- OnlyLocal
  MaxCopies = 2
  MaxFaults = 0
INVARIANT ToldIsKept
