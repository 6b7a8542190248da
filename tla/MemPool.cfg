SPECIFICATION Spec
CONSTANTS
  PoolSize = 34
  HeaderSize = 4
  ALIGN_MULTIPLE = 2
  MaxLen = 5
  NULL = NULL
INVARIANTS ChainSound PoolAccounted AllMerged
PROPERTIES IsHeap
