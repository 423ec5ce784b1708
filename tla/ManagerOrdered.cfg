SPECIFICATION Spec
CONSTANTS
  g1 = g1
  g2 = g2
  g3 = g3
  seata = seata
  grpc = grpc
  begin = begin
  commit = commit
  beginCodec = beginCodec
  beginCodec2 = beginCodec2
  commitCodec = commitCodec
  NIL = NIL
  Goroutine <- MCGoroutines2
  CodecType = {seata, grpc}
  MessageType = {begin, commit}
  Codec = {beginCodec, beginCodec2, commitCodec}
  GetMessageType <- MCGetMessageType
  Reorder = FALSE
SYMMETRY MCSymmetry
INVARIANTS
  TypeOK OneManager WritersExclusive NilMapOnlyIfReordered
  RegisteredAtReturn LookupSound
PROPERTIES
  RefinesRegistry
\* A crashed process stops.
CHECK_DEADLOCK FALSE
