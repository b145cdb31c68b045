\* No emit is needed.
CONSTANTS
  Namespaces <- OneNamespace
  AckThreads <- NobodyAsks
  UserCalls <- OnlyEmit
  MaxEmits = 0
  MaxSessions = 1
  MaxCloses = 0
  MaxCalls <- TwoCalls
SPECIFICATION Spec
PROPERTIES
  TimeoutIsSilence
\* The user may stop calling and the server may stay silent.
CHECK_DEADLOCK FALSE
