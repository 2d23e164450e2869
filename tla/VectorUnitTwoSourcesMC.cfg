CONSTANTS
  LANES = 2
  Programs <- TwoSourcePrograms
  FifoSize = 2
  QueueMaxSize = 1
SPECIFICATION Spec
INVARIANT NoEmptyRead
CHECK_DEADLOCK FALSE
