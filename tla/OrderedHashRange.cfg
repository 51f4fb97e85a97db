\* The same table, with one operation more.
SPECIFICATION RangeSpec
CONSTANTS
  Keys <- MCKeys
  Hash <- MCHash
  Ranges <- MCRanges
  Vacant = Vacant
  TruncMod = 16
  LoadFactors = {10, 19}
  MaxValues = 5
  Probes = 1
  MaxBuckets = 8
INVARIANT LookupExact
