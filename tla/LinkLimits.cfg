SPECIFICATION Spec
CONSTANTS
  Octets = 16
  LongWidth = 5
  Millisecond = 4
  MaxSends = 1
  EarlyUse = FALSE
  NIL = NIL
  PANIC = PANIC
  Message <- MCLimits
  Extra <- MCNoExtra
INVARIANTS
  FramesFaithful TimeoutNeverGrows TimeoutInRange
\* Everything sent and received, or the sender gone.
CHECK_DEADLOCK FALSE
