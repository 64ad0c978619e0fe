SPECIFICATION Spec
CONSTANTS
  Items = {1, 2, 3, 4, 5, 6}
  Rooms <- MCRooms
  Null = 0
  Names = {"a"}
  ConstNames = {"A"}
  NewKinds = {"object", "string"}
  MaxFuel = 4
  MaxArray = 2
  CircularLimit = 2
INVARIANTS
  WellLinked OwnedOnce FailureRestores CopyCompares
PROPERTIES
  ImplementsForest
