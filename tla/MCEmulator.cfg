SPECIFICATION RetireSpec
CONSTANTS
  Programs <- Images
  PowerOn <- MCPowerOn
  StepCalls <- MCStepCalls
INVARIANT ExecutesNext
PROPERTY ImplementsIsa
CHECK_DEADLOCK FALSE
