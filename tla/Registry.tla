------------------------------ MODULE Registry ------------------------------
(***************************************************************************)
(* What the codec registry of protocol/codec promises, without goroutines, *)
(* locks or nested maps: one table from a codec type and a message type to *)
(* a codec.  The only thing that may ever happen to the table is that one  *)
(* codec is put under its own message type.  Nothing is ever removed, and  *)
(* a registration never touches another entry.                             *)
(***************************************************************************)
CONSTANTS
  CodecType,        \* codec families (CodecTypeSeata, CodecTypeGRPC, ...)
  MessageType,      \* message type codes
  Codec,            \* codec objects
  GetMessageType,   \* the message type each codec declares
  NIL               \* no codec

VARIABLE registry

Init == registry = [t \in CodecType |-> [m \in MessageType |-> NIL]]

Register(t, c) ==
  registry' = [registry EXCEPT ![t][GetMessageType[c]] = c]

Next == \E t \in CodecType, c \in Codec : Register(t, c)

Spec == Init /\ [][Next]_registry
=============================================================================
