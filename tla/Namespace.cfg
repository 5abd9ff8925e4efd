SPECIFICATION Spec
CONSTANTS
  i = i
  j = j
  k = k
  Ids <- MCIds
  Wanted <- MCWanted
  Rename <- UnderscoreSuffix
SYMMETRY IdsAreAlike
INVARIANTS
  OwnersDiffer
  SameAnswer
