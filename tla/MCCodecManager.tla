--------------------------- MODULE MCCodecManager ---------------------------
(***************************************************************************)
(* Values for CodecManager: two codec families, two message types, and two *)
(* codecs that declare the same message type, so that one replaces another.*)
(***************************************************************************)
EXTENDS CodecManager, TLC

CONSTANTS g1, g2, g3, seata, grpc, begin, commit, beginCodec, beginCodec2,
          commitCodec

MCGoroutines2 == {g1, g2}
MCGoroutines3 == {g1, g2, g3}

MCGetMessageType ==
  [c \in Codec |->
     IF c = commitCodec THEN commit ELSE begin]

\* Neither goroutines nor codec families differ in anything but their name.
MCSymmetry == Permutations(Goroutine) \cup Permutations(CodecType)
=============================================================================
