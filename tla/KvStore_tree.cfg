SPECIFICATION Spec
CONSTANTS
  Key = {a, b}
  NumDictsBits = 2
  AllocateOnDemand = TRUE
  MaxNonEmpty = 6
SYMMETRY KeySymmetry
INVARIANTS
  KeyCountExact
  TreeSumsArePrefixSums
  TreeNeverUnderflows
  NonEmptyNeverUnderstated
