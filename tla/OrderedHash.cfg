\* Six keys: four of them share the last bucket of a table of four, three that of
\* a table of eight, and two have one truncated hash.
SPECIFICATION HashSpec
CONSTANTS
  Keys <- MCKeys
  Hash <- MCHash
  Ranges <- MCRanges
  Vacant = Vacant
  TruncMod = 16
  LoadFactors = {10, 19}
  MaxValues = 5
  Probes = 1
  MaxBuckets = 16
INVARIANTS
  HashTypeOK
  TableMatchesValues
  LookupExact
  RobinHood
  RoomLeft
PROPERTY ImplementsMap
