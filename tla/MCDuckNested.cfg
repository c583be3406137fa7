SPECIFICATION Spec
CONSTANTS
  MaxObjects = 6
  MaxSize = 2
  IntegerLimit = 256
  Rounded <- Unrounded
  Kinds <- NestedKinds
PROPERTY ClosuresAreMade
CHECK_DEADLOCK FALSE
