CONSTANTS
  LANES = 2
  Programs <- MCPrograms
  FifoSize = 2
  QueueMaxSize = 1
SPECIFICATION FairSpec
INVARIANTS TypeOK PushesFit NoEmptyRead OperandsMatch ElementsInOrder SyncWaits
PROPERTIES FlowSpec Finishes
