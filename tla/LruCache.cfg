CONSTANTS
  k1 = k1
  k2 = k2
  k3 = k3
  Keys <- ThreeKeys
  ValueSizes = {1, 3}
  MaxSize = 5
  SizeMod = 16
SPECIFICATION Spec
SYMMETRY Symmetry
INVARIANTS TypeOK MapsMatchLists ColdSizeExact HotByRecency
PROPERTIES GetLosesNothing AddMakesRoom
CHECK_DEADLOCK FALSE
