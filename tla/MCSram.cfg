SPECIFICATION Spec
CONSTANTS
  Words = 5
  Image <- MCImage
  MaxFaults = 3
CHECK_DEADLOCK FALSE
INVARIANT TypeOK NothingFights Programmed
PROPERTY OnlyMeantWrites Finishes
