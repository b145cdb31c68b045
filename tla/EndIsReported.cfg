CONSTANTS
  ReconnAttempts = 1
  ServerSends <- OpenFrames
  MaxCalls = 1
  MaxFrames = 2
SPECIFICATION Spec
INVARIANTS
  EndIsReported
\* The user may stop calling with everything closed.
CHECK_DEADLOCK FALSE
