SPECIFICATION RetireSpec
CONSTANTS
  Programs <- MCPrograms
  PowerOn <- MCPowerOn
  StepCalls <- MCStepCalls
INVARIANT TypeOK Sequenced BusesDriven
PROPERTY ProgramStoredBySTP
CHECK_DEADLOCK FALSE
