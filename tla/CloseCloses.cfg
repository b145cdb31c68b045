CONSTANTS
  ReconnAttempts = 1
  ServerSends <- OpenFrames
  MaxCalls = 2
  MaxFrames = 2
SPECIFICATION Spec
INVARIANTS
  CloseCloses
\* The user may stop calling with everything closed.
CHECK_DEADLOCK FALSE
