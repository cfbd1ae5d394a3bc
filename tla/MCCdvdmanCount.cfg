SPECIFICATION Spec
CONSTANTS
  StBankmax = 2
  StBanksize = 2
  StartLsns = {0, 10}
  Requests = {1, 3}
  MaxCalls = 4
  MaxUserReads = 1
  MaxFailures = 1
  ReaderOutranks = TRUE
INVARIANT
  CountsOwnReads
CHECK_DEADLOCK FALSE
