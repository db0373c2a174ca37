SPECIFICATION Spec
CONSTANTS
  Stdin = 3
  PipeSize = 2
  Limit = 1
  Budget = 2
INVARIANTS
  TypeOK
  OutputFaithful
  ScriptThere
  NoOrphan
PROPERTY
  CollectEnds
