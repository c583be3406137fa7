SPECIFICATION Spec
CONSTANTS
  Programs <- MCPrograms
  PowerOn <- MCPowerOn
  StepCalls <- MCStepCalls
INVARIANTS PrintsInOrder MultipliesModulo256
PROPERTY ProgramsEnd
CHECK_DEADLOCK FALSE
