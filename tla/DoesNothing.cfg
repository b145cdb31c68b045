CONSTANTS
  ReconnAttempts = 1
  ServerSends <- NoFrames
  MaxCalls = 2
  MaxFrames = 2
SPECIFICATION Spec
PROPERTIES
  DoesNothingIfConnected
\* The user may stop calling with everything closed.
CHECK_DEADLOCK FALSE
