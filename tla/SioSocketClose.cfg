\* Every way to close: twice, by the socket or the client; under fairness.
CONSTANTS
  Namespaces <- OneNamespace
  AckThreads <- NobodyAsks
  UserCalls <- EveryCall
  MaxEmits = 0
  MaxSessions = 2
  MaxCloses = 2
  MaxCalls <- TwoCalls
SPECIFICATION FairSpec
INVARIANTS
  CloseListenerOnce
PROPERTIES
  CloseEnds
\* The user may stop calling and the server may stay silent.
CHECK_DEADLOCK FALSE
