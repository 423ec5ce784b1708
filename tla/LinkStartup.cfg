SPECIFICATION Spec
CONSTANTS
  Octets = 256
  LongWidth = 8
  Millisecond = 1000000
  MaxSends = 2
  EarlyUse = TRUE
  NIL = NIL
  PANIC = PANIC
  Message <- MCFewMessages
  Extra <- MCNoExtra
INVARIANTS
  NeverMisread
PROPERTIES
  NothingLostAfterInit
\* Everything sent and received, or the sender gone.
CHECK_DEADLOCK FALSE
