----------------------------- MODULE SeataCodec -----------------------------
(***************************************************************************)
(* The Seata codecs of protocol/codec.  A codec is the message type it     *)
(* declares, the Go type it asserts its input to, and two layouts: the     *)
(* fields its Encode writes and the fields its Decode reads, in order.     *)
(* Both are given for every codec, as they are in the code: nothing but    *)
(* care makes them agree.                                                  *)
(*                                                                         *)
(* Go's octet is the constant Octets, int64 is LongWidth octets and a      *)
(* millisecond is Millisecond nanoseconds, so that overflow is within      *)
(* reach of small numbers; the program has 256, 8 and 1000000.             *)
(***************************************************************************)
EXTENDS ByteBuffer, MessageTypes

CONSTANTS LongWidth, Millisecond

\* A type code is sent as an int16.
ASSUME SeataCodecAssumption ==
  /\ {LongWidth, Millisecond} \subseteq Nat \ {0}
  /\ \A t \in DOMAIN MessageType : FitsSigned(2, MessageType[t])

\* The Go types of the fields the codecs carry: a status of a global
\* transaction is a byte, one of a branch an int8, the id of a branch an
\* int64.  An error code has a wider type than its octet on the wire.
HasType(f, v) ==
  /\ f \in StringFields => v \in Seq(Octet)
  /\ f \in BooleanFields => v \in BOOLEAN
  /\ f \in {"ResultCode", "GlobalStatus"} => v \in Octet
  /\ f \in {"BranchType", "BranchStatus", "Status"} =>
       v \in Int /\ FitsSigned(1, v)
  /\ f = "BranchId" => v \in Int /\ FitsSigned(LongWidth, v)
  /\ f \in {"Timeout", "TransactionErrorCode"} => v \in Int

MaxInt8 == Octets \div 2 - 1
MaxInt16 == (Octets * Octets) \div 2 - 1

----------------------------------------------------------------------------
(* Layouts.                                                                *)

Item(kind, width, field) == [kind |-> kind, width |-> width, field |-> field]

Byte(f) == Item("unsigned", 1, f)
SignedByte(f) == Item("signed", 1, f)
Int64(f) == Item("signed", LongWidth, f)
String8(f) == Item("string", 1, f)
String16(f) == Item("string", 2, f)
String32(f) == Item("string", 4, f)

\* A boolean as 0 or 1 (Identified: a byte, Lockable: a uint16).
Flag(w, f) == Item("flag", w, f)

\* Timeout: uint32 milliseconds on the wire, a Duration in the struct.
Millis(f) == Item("millis", 4, f)

\* The Msg of a response, present only when ResultCode is Failed; Encode cuts
\* it to max octets first, Decode has no use for max.
FailedMsg(w, max) ==
  [kind |-> "failedMsg", width |-> w, field |-> "Msg", max |-> max]
ReadFailedMsg(w) == Item("failedMsg", w, "Msg")

----------------------------------------------------------------------------
(* Encode.                                                                 *)

\* Mutant: milliseconds are rounded up.
MutantRoundUp(a, b) == IF a >= 0 THEN (a + b - 1) \div b ELSE -((-a) \div b)

\* Go's integer division truncates toward zero.
Quotient(a, b) == IF a >= 0 THEN a \div b ELSE -((-a) \div b)

Cut(s, max) == IF Len(s) > max THEN SubSeq(s, 1, max) ELSE s

EncodeItem(m, x) ==
  LET v == m[x.field] IN
  CASE x.kind \in {"unsigned", "signed"} -> Integer(x.width, v)
    [] x.kind = "string" -> LengthPrefixed(x.width, v)
    [] x.kind = "flag" -> Integer(x.width, IF v THEN 1 ELSE 0)
    [] x.kind = "millis" -> Integer(x.width, Quotient(v, Millisecond))
    [] x.kind = "failedMsg" ->
         IF m.ResultCode = ResultCodeFailed
         THEN LengthPrefixed(x.width, Cut(v, x.max)) ELSE <<>>

EncodeBody(layout, m) ==
  LET body[i \in 0 .. Len(layout)] ==
        IF i = 0 THEN <<>> ELSE body[i - 1] \o EncodeItem(m, layout[i])
  IN  body[Len(layout)]

----------------------------------------------------------------------------
(* Decode.  A reader is a buffer and the message filled in so far.         *)

ReadOctets(r, n, field, value) ==
  [buf |-> Skip(r.buf, n),
   msg |-> IF CanRead(r.buf, n) THEN [r.msg EXCEPT ![field] = value] ELSE r.msg]

ReadString(r, w, field) ==
  LET rest == Skip(r.buf, w)
      n == UnsignedOf(Peek(r.buf, w)) IN
  IF CanRead(r.buf, w)
  THEN ReadOctets([r EXCEPT !.buf = rest], n, field, Peek(rest, n))
  ELSE [r EXCEPT !.buf = rest]

\* Mutant: milliseconds are read as an int32.
MutantSignedMillis(b) == SignedOf(b) * Millisecond

Duration(b) == UnsignedOf(b) * Millisecond

DecodeItem(r, x) ==
  LET b == Peek(r.buf, x.width)
      Read(value) == ReadOctets(r, x.width, x.field, value) IN
  CASE x.kind = "unsigned" -> Read(UnsignedOf(b))
    [] x.kind = "signed" -> Read(SignedOf(b))
    [] x.kind = "string" -> ReadString(r, x.width, x.field)
    [] x.kind = "flag" -> Read(UnsignedOf(b) = 1)
    [] x.kind = "millis" -> Read(Duration(b))
    [] x.kind = "failedMsg" ->
         IF r.msg.ResultCode = ResultCodeFailed
         THEN ReadString(r, x.width, x.field) ELSE r

DecodeBody(layout, zero, b) ==
  LET reader[i \in 0 .. Len(layout)] ==
        IF i = 0 THEN [buf |-> Buffer(b), msg |-> zero]
        ELSE DecodeItem(reader[i - 1], layout[i])
  IN  reader[Len(layout)]

----------------------------------------------------------------------------
(* The codecs.  strict: Encode does in.(T), which panics on any other type;*)
(* otherwise it does data, _ := in.(T), which goes on with a zero T.       *)

Codec(code, name, strict, encode, decode) ==
  [messageType |-> code, message |-> name, strict |-> strict,
   encode |-> encode, decode |-> decode]

\* Shared by embedding.
CommonGlobalEndRequestCodec ==
  [encode |-> <<String16("Xid"), String16("ExtraData")>>,
   decode |-> <<String16("Xid"), String16("ExtraData")>>]

CommonGlobalEndResponseCodec ==
  [encode |-> <<Byte("ResultCode"), FailedMsg(2, MaxInt16),
                Byte("TransactionErrorCode"), Byte("GlobalStatus")>>,
   decode |-> <<Byte("ResultCode"), ReadFailedMsg(2),
                Byte("TransactionErrorCode"), Byte("GlobalStatus")>>]

AbstractIdentifyRequestCodec ==
  [encode |-> <<String16("Version"), String16("ApplicationId"),
                String16("TransactionServiceGroup"), String16("ExtraData")>>,
   decode |-> <<String16("Version"), String16("ApplicationId"),
                String16("TransactionServiceGroup"), String16("ExtraData")>>]

AbstractIdentifyResponseCodec ==
  [encode |-> <<Flag(1, "Identified"), String16("Version")>>,
   decode |-> <<Flag(1, "Identified"), String16("Version")>>]

Embedding(common, code, name) ==
  Codec(code, name, TRUE, common.encode, common.decode)

\* Global transactions.
GlobalBeginRequestCodec ==
  Codec(MessageType.GlobalBegin, "GlobalBeginRequest", TRUE,
        <<Millis("Timeout"), String16("TransactionName")>>,
        <<Millis("Timeout"), String16("TransactionName")>>)

GlobalBeginResponseCodec ==
  Codec(MessageType.GlobalBeginResult, "GlobalBeginResponse", TRUE,
        <<Byte("ResultCode"), FailedMsg(2, MaxInt16),
          Byte("TransactionErrorCode"), String16("Xid"),
          String16("ExtraData")>>,
        <<Byte("ResultCode"), ReadFailedMsg(2),
          Byte("TransactionErrorCode"), String16("Xid"),
          String16("ExtraData")>>)

GlobalCommitRequestCodec ==
  Embedding(CommonGlobalEndRequestCodec,
            MessageType.GlobalCommit, "GlobalCommitRequest")
GlobalCommitResponseCodec ==
  Embedding(CommonGlobalEndResponseCodec,
            MessageType.GlobalCommitResult, "GlobalCommitResponse")
GlobalRollbackRequestCodec ==
  Embedding(CommonGlobalEndRequestCodec,
            MessageType.GlobalRollback, "GlobalRollbackRequest")
GlobalRollbackResponseCodec ==
  Embedding(CommonGlobalEndResponseCodec,
            MessageType.GlobalRollbackResult, "GlobalRollbackResponse")
GlobalStatusRequestCodec ==
  Embedding(CommonGlobalEndRequestCodec,
            MessageType.GlobalStatus, "GlobalStatusRequest")
GlobalStatusResponseCodec ==
  Embedding(CommonGlobalEndResponseCodec,
            MessageType.GlobalStatusResult, "GlobalStatusResponse")
GlobalReportResponseCodec ==
  Embedding(CommonGlobalEndResponseCodec,
            MessageType.GlobalReportResult, "GlobalReportResponse")

\* Declares the type of the response; Init does not register it.
GlobalReportRequestCodec ==
  Codec(MessageType.GlobalReportResult, "GlobalReportRequest", TRUE,
        Append(CommonGlobalEndRequestCodec.encode, Byte("GlobalStatus")),
        <<String16("Xid"), String16("ExtraData"), Byte("GlobalStatus")>>)

GlobalLockQueryRequestCodec ==
  Codec(MessageType.GlobalLockQuery, "GlobalLockQueryRequest", FALSE,
        <<String16("Xid"), SignedByte("BranchType"), String16("ResourceId"),
          String32("LockKey"), String32("ApplicationData")>>,
        <<String16("Xid"), SignedByte("BranchType"), String16("ResourceId"),
          String32("LockKey"), String32("ApplicationData")>>)

GlobalLockQueryResponseCodec ==
  Codec(MessageType.GlobalLockQueryResult, "GlobalLockQueryResponse", FALSE,
        <<Byte("ResultCode"), FailedMsg(1, MaxInt8),
          Byte("TransactionErrorCode"), Flag(2, "Lockable")>>,
        <<Byte("ResultCode"), ReadFailedMsg(1),
          Byte("TransactionErrorCode"), Flag(2, "Lockable")>>)

\* Branch transactions.
BranchCommitRequestCodec ==
  Codec(MessageType.BranchCommit, "BranchCommitRequest", FALSE,
        <<String16("Xid"), Int64("BranchId"), SignedByte("BranchType"),
          String16("ResourceId"), String32("ApplicationData")>>,
        <<String16("Xid"), Int64("BranchId"), SignedByte("BranchType"),
          String16("ResourceId"), String32("ApplicationData")>>)

BranchCommitResponseCodec ==
  Codec(MessageType.BranchCommitResult, "BranchCommitResponse", FALSE,
        <<Byte("ResultCode"), FailedMsg(1, MaxInt8),
          Byte("TransactionErrorCode"), String16("Xid"), Int64("BranchId"),
          SignedByte("BranchStatus")>>,
        <<Byte("ResultCode"), ReadFailedMsg(1),
          Byte("TransactionErrorCode"), String16("Xid"), Int64("BranchId"),
          SignedByte("BranchStatus")>>)

BranchRollbackRequestCodec ==
  Codec(MessageType.BranchRollback, "BranchRollbackRequest", FALSE,
        <<String16("Xid"), Int64("BranchId"), SignedByte("BranchType"),
          String16("ResourceId"), String32("ApplicationData")>>,
        <<String16("Xid"), Int64("BranchId"), SignedByte("BranchType"),
          String16("ResourceId"), String32("ApplicationData")>>)

\* Cuts Msg for a two-octet length but writes a one-octet length.
BranchRollbackResponseCodec ==
  Codec(MessageType.BranchRollbackResult, "BranchRollbackResponse", FALSE,
        <<Byte("ResultCode"), FailedMsg(1, MaxInt16),
          Byte("TransactionErrorCode"), String16("Xid"), Int64("BranchId"),
          SignedByte("BranchStatus")>>,
        <<Byte("ResultCode"), ReadFailedMsg(1),
          Byte("TransactionErrorCode"), String16("Xid"), Int64("BranchId"),
          SignedByte("BranchStatus")>>)

\* Mutant: the resource is written and read behind a length of one octet.
MutantShortName ==
  Codec(MessageType.BranchRegister, "BranchRegisterRequest", FALSE,
        <<String16("Xid"), SignedByte("BranchType"), String8("ResourceId"),
          String32("LockKey"), String32("ApplicationData")>>,
        <<String16("Xid"), SignedByte("BranchType"), String8("ResourceId"),
          String32("LockKey"), String32("ApplicationData")>>)

BranchRegisterRequestCodec ==
  Codec(MessageType.BranchRegister, "BranchRegisterRequest", FALSE,
        <<String16("Xid"), SignedByte("BranchType"), String16("ResourceId"),
          String32("LockKey"), String32("ApplicationData")>>,
        <<String16("Xid"), SignedByte("BranchType"), String16("ResourceId"),
          String32("LockKey"), String32("ApplicationData")>>)

BranchRegisterResponseCodec ==
  Codec(MessageType.BranchRegisterResult, "BranchRegisterResponse", FALSE,
        <<Byte("ResultCode"), FailedMsg(2, MaxInt16),
          Byte("TransactionErrorCode"), Int64("BranchId")>>,
        <<Byte("ResultCode"), ReadFailedMsg(2),
          Byte("TransactionErrorCode"), Int64("BranchId")>>)

\* Mutant: Decode takes BranchType before ResourceId, as BranchCommitRequest
\* does.
MutantReportOrder ==
  Codec(MessageType.BranchStatusReport, "BranchReportRequest", FALSE,
        <<String16("Xid"), Int64("BranchId"), SignedByte("Status"),
          String16("ResourceId"), String32("ApplicationData"),
          SignedByte("BranchType")>>,
        <<String16("Xid"), Int64("BranchId"), SignedByte("Status"),
          SignedByte("BranchType"), String16("ResourceId"),
          String32("ApplicationData")>>)

BranchReportRequestCodec ==
  Codec(MessageType.BranchStatusReport, "BranchReportRequest", FALSE,
        <<String16("Xid"), Int64("BranchId"), SignedByte("Status"),
          String16("ResourceId"), String32("ApplicationData"),
          SignedByte("BranchType")>>,
        <<String16("Xid"), Int64("BranchId"), SignedByte("Status"),
          String16("ResourceId"), String32("ApplicationData"),
          SignedByte("BranchType")>>)

\* Mutant: Decode expects the two-octet length of the global responses.
MutantWideMsg ==
  Codec(MessageType.BranchStatusReportResult, "BranchReportResponse", FALSE,
        <<Byte("ResultCode"), FailedMsg(1, MaxInt8),
          Byte("TransactionErrorCode")>>,
        <<Byte("ResultCode"), ReadFailedMsg(2),
          Byte("TransactionErrorCode")>>)

BranchReportResponseCodec ==
  Codec(MessageType.BranchStatusReportResult, "BranchReportResponse", FALSE,
        <<Byte("ResultCode"), FailedMsg(1, MaxInt8),
          Byte("TransactionErrorCode")>>,
        <<Byte("ResultCode"), ReadFailedMsg(1),
          Byte("TransactionErrorCode")>>)

\* Resource and transaction managers.
RegisterRMRequestCodec ==
  Codec(MessageType.RegRm, "RegisterRMRequest", TRUE,
        <<String16("Version"), String16("ApplicationId"),
          String16("TransactionServiceGroup"), String16("ExtraData"),
          String32("ResourceIds")>>,
        <<String16("Version"), String16("ApplicationId"),
          String16("TransactionServiceGroup"), String16("ExtraData"),
          String32("ResourceIds")>>)
RegisterRMResponseCodec ==
  Embedding(AbstractIdentifyResponseCodec,
            MessageType.RegRmResult, "RegisterRMResponse")
RegisterTMRequestCodec ==
  Embedding(AbstractIdentifyRequestCodec,
            MessageType.RegClt, "RegisterTMRequest")
RegisterTMResponseCodec ==
  Embedding(AbstractIdentifyResponseCodec,
            MessageType.RegCltResult, "RegisterTMResponse")

\* The registrations of Init, in order.
InitOrder ==
  <<GlobalReportResponseCodec, GlobalBeginRequestCodec,
    GlobalBeginResponseCodec, GlobalCommitRequestCodec,
    GlobalCommitResponseCodec, GlobalLockQueryRequestCodec,
    GlobalLockQueryResponseCodec, GlobalRollbackRequestCodec,
    GlobalRollbackResponseCodec, GlobalStatusRequestCodec,
    GlobalStatusResponseCodec,
    BranchCommitRequestCodec, BranchCommitResponseCodec,
    BranchRegisterRequestCodec, BranchRegisterResponseCodec,
    BranchReportRequestCodec, BranchRollbackRequestCodec,
    BranchRollbackResponseCodec, BranchReportResponseCodec,
    RegisterRMRequestCodec, RegisterRMResponseCodec,
    RegisterTMRequestCodec, RegisterTMResponseCodec>>
=============================================================================
