SPECIFICATION Spec
CONSTANTS
  IntegerLimit <- MCIntegerLimit
  Numbers <- MCNumbers
  Rounded <- MCRounded
INVARIANT DifferenceOrders QuotientUndoesProduct
