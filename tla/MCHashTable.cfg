CONSTANTS
  k1 = k1
  k2 = k2
  k3 = k3
  Keys <- MCKeys
  v1 = v1
  v2 = v2
  Values <- MCValues
  Entries <- MCEntries
  NoKey = NoKey
  NoValue = NoValue
  InitialCapacity = 2
  Hashes <- MCHashes
  Nothing = Nothing
SPECIFICATION FairSpec
INVARIANTS TypeOK FoundByProbing HalfFree ProbesEnd FilterWellFormed RightUnlessMoved
PROPERTIES ImplementsDictionary CallsEnd
