\* Sizes up to MaxSize and two beyond it; capacities that wrap at Modulus, to 0 and to 4.
SPECIFICATION VectorSpec
CONSTANTS
  Byte = {0, 1}
  Junk = Junk
  MaxSize = 3
  Modulus = 16
  Names = {v, w}
  Limit = 5
SYMMETRY Symmetry
INVARIANTS VectorTypeOK ContentsAsStandard ComparesAsStandard
