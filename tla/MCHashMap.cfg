\* Six keys, two values, four slots at first: the array grows twice, in every
\* order of calls.
CONSTANTS
  k1 = k1
  k2 = k2
  k3 = k3
  k4 = k4
  k5 = k5
  k6 = k6
  NULL = NULL
  Keys <- MCKeys
  Hash <- MCHash
  Values = {v1, v2}
  InitialCap = 4
SPECIFICATION FairSpec
INVARIANTS
  TypeOK
  LenCounts
  OneSlotPerKey
  FreeSlot
  Reachable
  NoNestedRehash
PROPERTIES
  ImplementsMap
  CallsReturn
