SPECIFICATION Spec
CONSTANTS
  a = a
  b = b
  x = x
  y = y
  z = z
  p = p
  NoName = NoName
  NoPoint = NoPoint
  Names <- PlainNames
  Contents <- MCContents
  Points <- MCPoints
  Markers <- MCMarkers
  MaxItems = 5
CHECK_DEADLOCK FALSE
SYMMETRY PlainSymmetry
INVARIANTS
  NothingLost
  PatchFollowsItsFile
  InsertedAsMeant
PROPERTY
  GrowsOnly
