\* Emits by the user and by listeners, and a close of the socket, over two
\* sessions: two of these in a namespace of its own and all three in "/",
\* which the bot uses.
CONSTANTS
  Namespaces <- BothNamespaces
  AckThreads <- UserAsks
  UserCalls <- EmitAndClose
  MaxEmits = 2
  MaxSessions = 2
  MaxCloses = 1
  MaxCalls <- ThreeOnRoot
SPECIFICATION Spec
INVARIANTS
  IInv
  WrittenOnce
  ConnectFirst
  NoSocketForgotten
  AckIsOwn
  StrandedAtMostOne
  UserInLine
  CloseListenerOnce
\* The user may stop calling and the server may stay silent.
CHECK_DEADLOCK FALSE
