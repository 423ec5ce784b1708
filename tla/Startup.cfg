SPECIFICATION SFairSpec
CONSTANTS
  Goroutine = {g1, g2}
  CodecType = {seata, grpc}
  beginCodec = beginCodec
  commitCodec = commitCodec
  rollbackCodec = rollbackCodec
  reportCodec = reportCodec
  begin = begin
  commit = commit
  rollback = rollback
  report = report
  Codec = {beginCodec, commitCodec, rollbackCodec, reportCodec}
  MessageType = {begin, commit, rollback, report}
  GetMessageType <- MCGetMessageType
  NIL = NIL
  Reorder = FALSE
  CodecTypeSeata = seata
  InitOrder <- MCInitOrder
  MaxInits = 3
PROPERTY InitReturns
INVARIANTS
  LookupExact RaceNeedsSecondInit
\* A crashed process stops.
CHECK_DEADLOCK FALSE
