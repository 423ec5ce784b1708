SPECIFICATION Spec
CONSTANTS
  Octets = 256
  LongWidth = 8
  Millisecond = 1000000
  MaxSends = 1
  EarlyUse = FALSE
  NIL = NIL
  PANIC = PANIC
  Message <- MCReports
  Extra <- MCReportRequest
INVARIANTS
  EveryMessageHasCodec
\* Everything sent and received, or the sender gone.
CHECK_DEADLOCK FALSE
