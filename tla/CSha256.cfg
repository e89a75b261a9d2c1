CONSTANTS
  Messages <- AllMessages
  CountModulus = 1024
SPECIFICATION Spec
INVARIANTS TypeOK NothingLost NothingUndefined CompressesPadded
CHECK_DEADLOCK FALSE
