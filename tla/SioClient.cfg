\* Every frame; three API calls in any order; under fairness.
CONSTANTS
  ReconnAttempts = 1
  ServerSends <- EveryFrame
  MaxCalls = 3
  MaxFrames = 2
SPECIFICATION FairSpec
INVARIANTS
  IInv
  ReconnectBudget
  KeepAliveHasSession
  UserCloseIsFinal
PROPERTIES
  OneTransport
  SessionsStartFresh
  SyncCloseReturns
  IsConnection
\* The user may stop calling with everything closed.
CHECK_DEADLOCK FALSE
