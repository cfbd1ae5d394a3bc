SPECIFICATION FairSpec
CONSTANTS
  Types <- RequestTypes
  SimpleAction = "simple"
  Uninit = "uninit"
  Startups <- AllStartups
  MaxHandlers = 64
  MaxCalls = 4
  PollsPending = TRUE
  StrictPriority = TRUE
INVARIANTS
  NoRequestLost
  NoLostWakeup
  NoHalfBuiltRequest
  BlockedIsQuiet
PROPERTIES
  ImplementsService
  AcceptedIsServed
  BlockReturns
