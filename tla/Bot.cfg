\* Ten tiles, so that a hand may hold two kongs; two turns in the second deal,
\* which starts from what the turn of the first left.
CONSTANTS
  Kinds <- FewKinds
  HandSize = 10
  MaxTurns <- OneThenTwo
  MaxDeals = 2
  MaxPending = 1
SPECIFICATION Spec
INVARIANTS
  Inv
  HandAgrees
  DiscardsAgree
  MeldsAgree
  AnswersAcceptable
  ThrowKept
  CrashNeedsLoss
  NeverTooFar
  NeverTooNear
  NoStepWhenWon
  AnswersPay
PROPERTIES
  DecisionsPay
\* The last deal ends, and a bot that crashed does nothing.
CHECK_DEADLOCK FALSE
