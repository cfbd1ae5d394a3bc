SPECIFICATION FairSpec
CONSTANTS
  StBankmax = 2
  StBanksize = 2
  StartLsns = {0, 10}
  Requests = {1, 3}
  MaxCalls = 4
  MaxUserReads = 1
  MaxFailures = 1
  ReaderOutranks = TRUE
INVARIANTS
  PointersInStep
  RingHoldsStream
  QuietAfterStop
  BusyWhileReading
PROPERTIES
  ImplementsFifo
  SyncReturns
  StReadReturns
  KeepsFilling
CHECK_DEADLOCK FALSE
