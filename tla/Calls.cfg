SPECIFICATION Spec
CONSTANTS
  b1 = b1
  q1 = q1
  Batch <- MCOneBatch
  Sequence <- MCSequence
  Size <- MCSize
  Asked = {0, 3}
  MaxInner = 2
  Concurrency = 1
INVARIANTS
  TypeOK
  ResultsInOrder
  AnsweredIsComplete
  TemplatesAligned
  StopsAtFailure
PROPERTIES
  EveryCallCloses
  LeftBatchesFinish
CHECK_DEADLOCK FALSE
