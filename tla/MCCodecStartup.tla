--------------------------- MODULE MCCodecStartup ---------------------------
(***************************************************************************)
(* Values for CodecStartup: Init registers three codecs of the Seata       *)
(* family; a fourth message type has a codec that Init leaves out.         *)
(***************************************************************************)
EXTENDS CodecStartup

CONSTANTS beginCodec, commitCodec, rollbackCodec, reportCodec,
          begin, commit, rollback, report

MCInitOrder == <<beginCodec, commitCodec, rollbackCodec>>

MCGetMessageType ==
  [c \in {beginCodec, commitCodec, rollbackCodec, reportCodec} |->
     CASE c = beginCodec -> begin
       [] c = commitCodec -> commit
       [] c = rollbackCodec -> rollback
       [] c = reportCodec -> report]
=============================================================================
