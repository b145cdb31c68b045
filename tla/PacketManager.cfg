\* Two packets of the client by either thread, two of the server in each
\* session, a pong between their frames, and a session that ends anywhere.
CONSTANTS
  Outward <- SomeOutward
  Inward <- SomeInward
  MaxEmits = 2
  MaxSends = 2
  MaxPongs = 1
  MaxSessions = 2
SPECIFICATION Spec
INVARIANTS
  IInv
  DecodedIsSent
  GotIsEmitted
  GotInOrder
  LossNeedsOverlap
  TornNeedsReconnect
PROPERTY IsChannel
\* The last session ends.
CHECK_DEADLOCK FALSE
