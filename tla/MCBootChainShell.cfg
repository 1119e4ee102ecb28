SPECIFICATION Spec
CONSTANTS
  MaxFaults = 3
  MaxOps = 3
INVARIANT CatchEndsAtPrompt
CHECK_DEADLOCK FALSE
