------------------------------ MODULE CodecLink ------------------------------
(***************************************************************************)
(* Two processes that use protocol/codec, joined by a transport outside    *)
(* this repository that keeps frames whole and in order: CodecManager's    *)
(* Encode at one end, its Decode at the other, while each end may still be *)
(* inside Init.  Registry and CodecManager say what the table is at any    *)
(* moment; here it is a prefix of the registrations each end goes through. *)
(***************************************************************************)
EXTENDS SeataCodec

CONSTANTS
  Message,      \* messages callers pass to Encode: a name, a value, and
                \* whether the caller passes a pointer to the struct
  MaxSends,     \* bound on the calls of Encode
  EarlyUse,     \* TRUE: messages may be sent before both ends are set up
  Extra,        \* codecs the program registers itself, after Init
  NIL, PANIC

ASSUME LinkAssumption ==
  /\ MaxSends \in Nat
  /\ EarlyUse \in BOOLEAN
  /\ Extra \in Seq({Extra[i] : i \in DOMAIN Extra})
  /\ \A m \in Message :
       /\ DOMAIN m = {"name", "value", "pointer"}
       /\ m.name \in DOMAIN Messages
       /\ m.value = [f \in Messages[m.name].fields |-> m.value[f]]
       /\ \A f \in DOMAIN m.value : HasType(f, m.value[f])
       /\ m.pointer \in BOOLEAN
  /\ NIL \notin Message

VARIABLES
  registered,   \* how many of its registrations each end has done
  sends,        \* how often Encode was called
  channel,      \* frames in flight, each with the message it was made from
  delivered,    \* what the last Decode returned, and for which message
  panicked      \* the sender's goroutine died in Encode

vars == <<registered, sends, channel, delivered, panicked>>

End == {"sender", "receiver"}
Nothing == [got |-> NIL, sent |-> NIL]

----------------------------------------------------------------------------
(* CodecManager.                                                           *)

Registrations == InitOrder \o Extra

\* Mutant: every registration starts a new inner map.
MutantNewMap(k, code) ==
  IF k > 0 /\ Registrations[k].messageType = code
  THEN Registrations[k] ELSE NIL

\* The codec the first k registrations leave under a message type.
GetCodec(k, code) ==
  LET at == {i \in 1 .. k : Registrations[i].messageType = code}
  IN  IF at = {} THEN NIL
      ELSE Registrations[CHOOSE i \in at : \A j \in at : j <= i]

\* in.(T) for the codec's T.
Asserted(codec, m) ==
  IF m.name = codec.message /\ ~m.pointer THEN m.value
  ELSE IF codec.strict THEN PANIC ELSE Zero(codec.message)

Encode(k, m) ==
  LET code == GetTypeCode(m.name)
      codec == GetCodec(k, code) IN
  IF codec = NIL THEN NIL
  ELSE IF Asserted(codec, m) = PANIC THEN PANIC
  ELSE Integer(2, code) \o EncodeBody(codec.encode, Asserted(codec, m))

\* The reader's answer to ReadInt16 of a frame that has no two octets, and its
\* error is dropped.
NoTypeCode == 0

\* A message and what is left of the frame; NIL when the type has no codec.
Decode(k, frame) ==
  LET whole == Len(frame) >= 2
      typeCode == IF whole THEN SignedOf(Peek(Buffer(frame), 2))
                  ELSE NoTypeCode
      codec == GetCodec(k, typeCode)
      body == SubSeq(frame, 3, Len(frame)) IN
  IF codec = NIL THEN NIL
  ELSE IF ~whole THEN PANIC
  ELSE LET r == DecodeBody(codec.decode, Zero(codec.message), body)
       IN  [name |-> codec.message, value |-> r.msg, buf |-> r.buf]

----------------------------------------------------------------------------
Init ==
  /\ registered = [e \in End |-> 0]
  /\ sends = 0
  /\ channel = <<>>
  /\ delivered = Nothing
  /\ panicked = FALSE

\* The next RegisterCodec call of Init, or of the program after it.
RegisterCodec(e) ==
  /\ registered[e] < Len(Registrations)
  /\ registered' = [registered EXCEPT ![e] = @ + 1]
  /\ delivered' = Nothing
  /\ UNCHANGED <<sends, channel, panicked>>

Started == \A e \in End : registered[e] = Len(Registrations)

\* A frame, or nil (which no caller puts on the wire), or a panic.
Send(m) ==
  /\ ~panicked
  /\ EarlyUse \/ Started
  /\ sends < MaxSends
  /\ sends' = sends + 1
  /\ LET frame == Encode(registered["sender"], m) IN
       /\ channel' = IF frame \in {NIL, PANIC} THEN channel
                     ELSE Append(channel, [frame |-> frame, sent |-> m])
       /\ panicked' = (frame = PANIC)
  /\ delivered' = Nothing
  /\ UNCHANGED registered

Receive ==
  /\ channel # <<>>
  /\ delivered' = [got |-> Decode(registered["receiver"], Head(channel).frame),
                   sent |-> Head(channel).sent]
  /\ channel' = Tail(channel)
  /\ UNCHANGED <<registered, sends, panicked>>

\* The transport hands over a frame that has no room for a type code.
ReceiveShort ==
  /\ \E n \in 0 .. 1 :
       delivered' = [got |-> Decode(registered["receiver"],
                                    [i \in 1 .. n |-> 1]),
                     sent |-> NIL]
  /\ UNCHANGED <<registered, sends, channel, panicked>>

Next ==
  \/ \E e \in End : RegisterCodec(e)
  \/ \E m \in Message : Send(m)
  \/ Receive \/ ReceiveShort

Spec == Init /\ [][Next]_vars

----------------------------------------------------------------------------
(* Properties.                                                             *)

\* What the protocol carries of a message: Msg only with a failure, and at
\* most as much of it as its length prefix was meant for; whole milliseconds;
\* and of an identify response only Identified and Version.
ShortMsg ==
  {"BranchCommitResponse", "BranchRollbackResponse", "BranchReportResponse",
   "GlobalLockQueryResponse"}
IdentifyResponse == {"RegisterTMResponse", "RegisterRMResponse"}

MeantMsg(m) ==
  IF m.value.ResultCode # ResultCodeFailed THEN <<>>
  ELSE IF m.name = "BranchRollbackResponse" THEN m.value.Msg
  ELSE Cut(m.value.Msg, IF m.name \in ShortMsg THEN MaxInt8 ELSE MaxInt16)

Meaning(m) ==
  [f \in DOMAIN m.value |->
     CASE m.name \in IdentifyResponse /\ f \notin {"Identified", "Version"} ->
            Zero(m.name)[f]
       [] m.name \notin IdentifyResponse /\ f = "Msg" -> MeantMsg(m)
       [] f = "Timeout" -> m.value[f] - (m.value[f] % Millisecond)
       [] OTHER -> m.value[f]]

Carries(decoded, m) ==
  decoded = [name |-> m.name, value |-> Meaning(m), buf |-> Buffer(<<>>)]

\* The only way to put something else on the wire than the message given is
\* to pass a pointer to a codec that ignores the failed type assertion.
BlankedByPointer(m) ==
  /\ m.pointer
  /\ ~GetCodec(Len(Registrations), GetTypeCode(m.name)).strict

AsSent(m) ==
  IF BlankedByPointer(m) THEN [m EXCEPT !.value = Zero(m.name)] ELSE m

\* What the format can carry: names behind a length of two octets, free text
\* behind one of four, timeouts of uint32 milliseconds, error codes of one
\* octet, and the message of a failed rollback, which is cut too late, behind
\* a length of one octet.
FreeText == {"ApplicationData", "LockKey", "ResourceIds"}
Names == StringFields \ (FreeText \cup {"Msg"})

Fits(m) ==
  /\ \A f \in DOMAIN m.value \cap Names : FitsUnsigned(2, Len(m.value[f]))
  /\ \A f \in DOMAIN m.value \cap FreeText : FitsUnsigned(4, Len(m.value[f]))
  /\ "TransactionErrorCode" \in DOMAIN m.value =>
       FitsUnsigned(1, m.value.TransactionErrorCode)
  /\ "Timeout" \in DOMAIN m.value =>
       FitsUnsigned(4, m.value.Timeout \div Millisecond)
  /\ m.name = "BranchRollbackResponse"
     /\ m.value.ResultCode = ResultCodeFailed =>
       FitsUnsigned(1, Len(m.value.Msg))

\* Every frame in flight, read by the codecs the receiver ends up with, is the
\* message it was made from, and the read ends exactly where the frame ends:
\* right up to the longest strings and timeouts the format has room for.
FramesFaithful ==
  \A i \in DOMAIN channel :
    Fits(AsSent(channel[i].sent)) =>
      Carries(Decode(Len(Registrations), channel[i].frame),
              AsSent(channel[i].sent))

\* A receiver still inside Init may return nil for a frame it cannot decode
\* yet, but never a wrong message for one that fits; and a frame too short for
\* a type code is no message, whatever the type code is then taken for.
NeverMisread ==
  delivered.got # NIL =>
    /\ delivered.sent # NIL
    /\ Fits(AsSent(delivered.sent)) =>
         Carries(delivered.got, AsSent(delivered.sent))

\* Whatever a sender can encode, at any point of its Init, a receiver whose
\* Init has returned decodes.
NothingLostAfterInit ==
  [][registered["receiver"] >= Len(InitOrder) /\ Len(channel') < Len(channel)
       => delivered'.got # NIL]_vars

TimeoutDelivered ==
  delivered.got # NIL /\ delivered.sent.name = "GlobalBeginRequest"

\* A timeout is cut to the milliseconds that a uint32 can count; it never
\* comes out longer than it went in, unless it was negative.
TimeoutNeverGrows ==
  TimeoutDelivered /\ delivered.sent.value.Timeout >= 0 =>
    delivered.got.value.Timeout <= delivered.sent.value.Timeout

\* Whatever a caller gives as a timeout, a negative one and one beyond 49 days
\* included, the coordinator is never given a negative one, which would be
\* over before it begins, nor one that it could not send on.
TimeoutInRange ==
  TimeoutDelivered =>
    FitsUnsigned(4, delivered.got.value.Timeout \div Millisecond)

\* With every codec of the package registered, every request and response
\* has a codec at both ends.
EveryMessageHasCodec ==
  Started => \A m \in Message :
               \A e \in End : Encode(registered[e], m) # NIL

\* Once Init has returned, a failed branch rollback comes out of Decode as it
\* went into Encode.
RollbackRoundTrip ==
  delivered.sent # NIL /\ delivered.sent.name = "BranchRollbackResponse" =>
    Carries(delivered.got, delivered.sent)
=============================================================================
