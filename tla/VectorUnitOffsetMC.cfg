CONSTANTS
  LANES = 2
  Programs <- OffsetPrograms
  FifoSize = 2
  QueueMaxSize = 1
SPECIFICATION Spec
INVARIANT ElementsInOrder
