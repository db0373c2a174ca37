SPECIFICATION Spec
CONSTANTS
  Stdin = 3
  PipeSize = 2
  Limit = 1
  Budget = 1
PROPERTY
  TimeoutEnforced
