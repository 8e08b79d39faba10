CHECK_DEADLOCK FALSE
SPECIFICATION Spec
CONSTANTS
  first = first
  again = again
  other = other
  k1 = k1
  k2 = k2
  n1 = n1
  None = None
  Requests <- MCRequests
  Keys <- MCKeys
  KeyOf <- MCKeyOf
  Names <- MCNames
  NameOf <- MCNameOf
  Kinds <- AllKinds
  MaxCopies = 2
  MaxFaults = 2
INVARIANTS ToldIsKeptUnlessRaced OneItemPerKeyUnlessRaced IndexIsTrueUnlessRaced
