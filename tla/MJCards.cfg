SPECIFICATION Spec
CONSTANT Kinds <- EdgeKinds
INVARIANTS WordsArePacked AtIsExhaustive
PROPERTY IsTileBag
CHECK_DEADLOCK FALSE
