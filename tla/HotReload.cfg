SPECIFICATION Spec
CONSTANT
  MaxEdits <- MCMaxEdits
INVARIANTS
  TypeOK
PROPERTIES
  LastPolicyTakesEffect
  ImplementsSwap
CHECK_DEADLOCK FALSE
