SPECIFICATION Spec
CONSTANTS
  Operands <- MCOperands
  FlagBytes <- MCFlagBytes
INVARIANT OverflowIsSigned CompareEqual ShiftKeepsBits
