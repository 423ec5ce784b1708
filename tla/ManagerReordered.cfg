SPECIFICATION FairSpec
CONSTANTS
  g1 = g1
  g2 = g2
  g3 = g3
  seata = seata
  grpc = grpc
  begin = begin
  commit = commit
  beginCodec = beginCodec
  beginCodec2 = beginCodec2
  commitCodec = commitCodec
  NIL = NIL
  Goroutine <- MCGoroutines3
  CodecType = {seata}
  MessageType = {begin}
  Codec = {beginCodec}
  GetMessageType <- MCGetMessageType
  Reorder = TRUE
INVARIANTS
  OneManager RegisteredAtReturn
PROPERTIES
  RefinesRegistry CallsReturn
\* A crashed process stops.
CHECK_DEADLOCK FALSE
