--------------------------- MODULE CodecLinkProofs ---------------------------
(***************************************************************************)
(* That a message comes out of Decode as it went into Encode: for every    *)
(* codec Init registers, every message that fits the format, every moment  *)
(* of both start-ups and every size of an octet.  The codecs are taken one *)
(* by one (WellMade); everything after that holds of any codec that is.    *)
(***************************************************************************)
EXTENDS CodecLink, SeataCodecProofs

----------------------------------------------------------------------------
(* The messages.                                                           *)

RequestNames ==
  {"GlobalBeginRequest", "GlobalCommitRequest", "GlobalRollbackRequest",
   "GlobalStatusRequest", "GlobalReportRequest", "GlobalLockQueryRequest",
   "BranchRegisterRequest", "BranchReportRequest", "BranchCommitRequest",
   "BranchRollbackRequest", "UndoLogDeleteRequest", "RegisterTMRequest",
   "RegisterRMRequest"}
ResponseNames ==
  {"GlobalBeginResponse", "GlobalCommitResponse", "GlobalRollbackResponse",
   "GlobalStatusResponse", "GlobalReportResponse", "GlobalLockQueryResponse",
   "BranchRegisterResponse", "BranchReportResponse", "BranchCommitResponse",
   "BranchRollbackResponse", "RegisterTMResponse", "RegisterRMResponse"}
MergeNames == {"MergedWarpMessage", "MergeResultMessage"}
HeartBeatNames == {"HeartBeatMessage"}

\* Every struct of the message package that has a type code.
LEMMA MessageNames ==
  /\ DOMAIN Messages = RequestNames \cup ResponseNames
                         \cup MergeNames \cup HeartBeatNames
  /\ \A n \in RequestNames : Messages[n] = RequestMessages[n]
  /\ \A n \in ResponseNames : Messages[n] = ResponseMessages[n]
  /\ \A n \in MergeNames : Messages[n] = MergeMessages[n]
  /\ \A n \in HeartBeatNames : Messages[n] = HeartBeatMessages[n]
<1>1. DOMAIN RequestMessages = RequestNames
  BY DEF RequestMessages, RequestNames
<1>2. DOMAIN ResponseMessages = ResponseNames
  BY DEF ResponseMessages, ResponseNames
<1>3. DOMAIN MergeMessages = MergeNames
  BY DEF MergeMessages, MergeNames
<1>4. DOMAIN HeartBeatMessages = HeartBeatNames
  BY DEF HeartBeatMessages, HeartBeatNames
<1>5. DOMAIN Messages = RequestNames \cup ResponseNames
                          \cup MergeNames \cup HeartBeatNames
  BY <1>1, <1>2, <1>3, <1>4 DEF Messages
<1>6. \A n \in RequestNames :
        n \notin ResponseNames /\ n \notin MergeNames /\ n \notin HeartBeatNames
  BY DEF RequestNames, ResponseNames, MergeNames, HeartBeatNames
<1>7. \A n \in ResponseNames : n \notin MergeNames /\ n \notin HeartBeatNames
  BY DEF ResponseNames, MergeNames, HeartBeatNames
<1>8. \A n \in MergeNames : n \notin HeartBeatNames
  BY DEF MergeNames, HeartBeatNames
<1>9. \A n \in RequestNames : Messages[n] = RequestMessages[n]
  BY <1>1, <1>2, <1>3, <1>4, <1>6 DEF Messages
<1>10. \A n \in ResponseNames : Messages[n] = ResponseMessages[n]
  BY <1>1, <1>2, <1>3, <1>4, <1>6, <1>7 DEF Messages
<1>11. \A n \in MergeNames : Messages[n] = MergeMessages[n]
  BY <1>1, <1>2, <1>3, <1>4, <1>6, <1>7, <1>8 DEF Messages
<1>12. \A n \in HeartBeatNames : Messages[n] = HeartBeatMessages[n]
  BY <1>1, <1>2, <1>3, <1>4, <1>6, <1>7, <1>8 DEF Messages
<1> QED
  BY <1>5, <1>9, <1>10, <1>11, <1>12

\* The fields of each request.
LEMMA RequestFields ==
  /\ Messages["GlobalBeginRequest"].fields = {"Timeout", "TransactionName"}
  /\ Messages["GlobalCommitRequest"].fields = AbstractGlobalEndRequest
  /\ Messages["GlobalRollbackRequest"].fields = AbstractGlobalEndRequest
  /\ Messages["GlobalStatusRequest"].fields = AbstractGlobalEndRequest
  /\ Messages["GlobalReportRequest"].fields =
       AbstractGlobalEndRequest \cup {"GlobalStatus"}
  /\ Messages["GlobalLockQueryRequest"].fields = BranchRegisterRequest
  /\ Messages["BranchRegisterRequest"].fields = BranchRegisterRequest
  /\ Messages["BranchReportRequest"].fields =
       {"Xid", "BranchId", "ResourceId", "Status", "ApplicationData",
        "BranchType"}
  /\ Messages["BranchCommitRequest"].fields = AbstractBranchEndRequest
  /\ Messages["BranchRollbackRequest"].fields = AbstractBranchEndRequest
  /\ Messages["UndoLogDeleteRequest"].fields =
       {"ResourceId", "SaveDays", "BranchType"}
  /\ Messages["RegisterTMRequest"].fields = AbstractIdentifyRequest
  /\ Messages["RegisterRMRequest"].fields =
       AbstractIdentifyRequest \cup {"ResourceIds"}
  BY MessageNames DEF RequestNames, RequestMessages, Struct

\* The fields of each response.
LEMMA ResponseFields ==
  /\ Messages["GlobalBeginResponse"].fields =
       AbstractTransactionResponse \cup {"Xid", "ExtraData"}
  /\ Messages["GlobalCommitResponse"].fields = AbstractGlobalEndResponse
  /\ Messages["GlobalRollbackResponse"].fields = AbstractGlobalEndResponse
  /\ Messages["GlobalStatusResponse"].fields = AbstractGlobalEndResponse
  /\ Messages["GlobalReportResponse"].fields = AbstractGlobalEndResponse
  /\ Messages["GlobalLockQueryResponse"].fields =
       AbstractTransactionResponse \cup {"Lockable"}
  /\ Messages["BranchRegisterResponse"].fields =
       AbstractTransactionResponse \cup {"BranchId"}
  /\ Messages["BranchReportResponse"].fields = AbstractTransactionResponse
  /\ Messages["BranchCommitResponse"].fields = AbstractBranchEndResponse
  /\ Messages["BranchRollbackResponse"].fields = AbstractBranchEndResponse
  /\ Messages["RegisterTMResponse"].fields = AbstractIdentifyResponse
  /\ Messages["RegisterRMResponse"].fields = AbstractIdentifyResponse
  BY MessageNames DEF ResponseNames, ResponseMessages, Struct

\* The type codes, as the two ends agreed on them.
LEMMA TypeCodes ==
  /\ GetTypeCode("GlobalBeginRequest") = 1
  /\ GetTypeCode("GlobalCommitRequest") = 7
  /\ GetTypeCode("GlobalRollbackRequest") = 9
  /\ GetTypeCode("GlobalStatusRequest") = 15
  /\ GetTypeCode("GlobalReportRequest") = 17
  /\ GetTypeCode("GlobalLockQueryRequest") = 21
  /\ GetTypeCode("BranchRegisterRequest") = 11
  /\ GetTypeCode("BranchReportRequest") = 13
  /\ GetTypeCode("BranchCommitRequest") = 3
  /\ GetTypeCode("BranchRollbackRequest") = 5
  /\ GetTypeCode("UndoLogDeleteRequest") = 111
  /\ GetTypeCode("RegisterTMRequest") = 101
  /\ GetTypeCode("RegisterRMRequest") = 103
  /\ GetTypeCode("GlobalBeginResponse") = 2
  /\ GetTypeCode("GlobalCommitResponse") = 8
  /\ GetTypeCode("GlobalRollbackResponse") = 10
  /\ GetTypeCode("GlobalStatusResponse") = 16
  /\ GetTypeCode("GlobalReportResponse") = 18
  /\ GetTypeCode("GlobalLockQueryResponse") = 22
  /\ GetTypeCode("BranchRegisterResponse") = 12
  /\ GetTypeCode("BranchReportResponse") = 14
  /\ GetTypeCode("BranchCommitResponse") = 4
  /\ GetTypeCode("BranchRollbackResponse") = 6
  /\ GetTypeCode("RegisterTMResponse") = 102
  /\ GetTypeCode("RegisterRMResponse") = 104
  /\ GetTypeCode("MergedWarpMessage") = 59
  /\ GetTypeCode("MergeResultMessage") = 60
  /\ GetTypeCode("HeartBeatMessage") = 120
<1>1. /\ \A n \in RequestNames : GetTypeCode(n) = RequestMessages[n].typeCode
      /\ \A n \in ResponseNames : GetTypeCode(n) = ResponseMessages[n].typeCode
      /\ \A n \in MergeNames : GetTypeCode(n) = MergeMessages[n].typeCode
      /\ \A n \in HeartBeatNames :
           GetTypeCode(n) = HeartBeatMessages[n].typeCode
  BY MessageNames DEF GetTypeCode
<1>2. /\ GetTypeCode("GlobalBeginRequest") =
           MessageType.GlobalBegin
      /\ GetTypeCode("GlobalCommitRequest") =
           MessageType.GlobalCommit
      /\ GetTypeCode("GlobalRollbackRequest") =
           MessageType.GlobalRollback
      /\ GetTypeCode("GlobalStatusRequest") =
           MessageType.GlobalStatus
      /\ GetTypeCode("GlobalReportRequest") =
           MessageType.GlobalReport
      /\ GetTypeCode("GlobalLockQueryRequest") =
           MessageType.GlobalLockQuery
      /\ GetTypeCode("BranchRegisterRequest") =
           MessageType.BranchRegister
      /\ GetTypeCode("BranchReportRequest") =
           MessageType.BranchStatusReport
      /\ GetTypeCode("BranchCommitRequest") =
           MessageType.BranchCommit
      /\ GetTypeCode("BranchRollbackRequest") =
           MessageType.BranchRollback
      /\ GetTypeCode("UndoLogDeleteRequest") =
           MessageType.RmDeleteUndolog
      /\ GetTypeCode("RegisterTMRequest") =
           MessageType.RegClt
      /\ GetTypeCode("RegisterRMRequest") =
           MessageType.RegRm
  BY <1>1 DEF RequestNames, RequestMessages, Struct
<1>3. /\ GetTypeCode("GlobalBeginResponse") =
           MessageType.GlobalBeginResult
      /\ GetTypeCode("GlobalCommitResponse") =
           MessageType.GlobalCommitResult
      /\ GetTypeCode("GlobalRollbackResponse") =
           MessageType.GlobalRollbackResult
      /\ GetTypeCode("GlobalStatusResponse") =
           MessageType.GlobalStatusResult
      /\ GetTypeCode("GlobalReportResponse") =
           MessageType.GlobalReportResult
      /\ GetTypeCode("GlobalLockQueryResponse") =
           MessageType.GlobalLockQueryResult
      /\ GetTypeCode("BranchRegisterResponse") =
           MessageType.BranchRegisterResult
      /\ GetTypeCode("BranchReportResponse") =
           MessageType.BranchStatusReportResult
      /\ GetTypeCode("BranchCommitResponse") =
           MessageType.BranchCommitResult
      /\ GetTypeCode("BranchRollbackResponse") =
           MessageType.BranchRollbackResult
      /\ GetTypeCode("RegisterTMResponse") =
           MessageType.RegCltResult
      /\ GetTypeCode("RegisterRMResponse") =
           MessageType.RegRmResult
  BY <1>1 DEF ResponseNames, ResponseMessages, Struct
<1>4. /\ GetTypeCode("MergedWarpMessage") =
           MessageType.SeataMerge
      /\ GetTypeCode("MergeResultMessage") =
           MessageType.SeataMergeResult
      /\ GetTypeCode("HeartBeatMessage") =
           MessageType.HeartbeatMsg
  BY <1>1 DEF MergeNames, HeartBeatNames, MergeMessages,
              HeartBeatMessages, Struct
<1> QED
  BY <1>2, <1>3, <1>4 DEF MessageType

\* No two messages share a type code, none has the one a reader makes up, and
\* each survives the int16 it is sent as.
LEMMA TypeCodesDistinct ==
  \A n, k \in DOMAIN Messages : GetTypeCode(n) = GetTypeCode(k) => n = k
  BY MessageNames, TypeCodes
     DEF RequestNames, ResponseNames, MergeNames, HeartBeatNames

\* A type code goes through an int16, and is never the one of no frame.
LEMMA TypeCodesFit ==
  ASSUME NEW n \in DOMAIN Messages
  PROVE  /\ GetTypeCode(n) \in Int /\ GetTypeCode(n) # NoTypeCode
         /\ FitsSigned(2, GetTypeCode(n))
<1>1. GetTypeCode(n) \in Int /\ GetTypeCode(n) # NoTypeCode
  BY MessageNames, TypeCodes
     DEF RequestNames, ResponseNames, MergeNames, HeartBeatNames, NoTypeCode
<1>2. \E t \in DOMAIN MessageType : MessageType[t] = GetTypeCode(n)
  BY MessageNames, TypeCodes
     DEF RequestNames, ResponseNames, MergeNames, HeartBeatNames, MessageType
<1> QED
  BY <1>1, <1>2, SeataCodecAssumption
----------------------------------------------------------------------------
(* The codecs.                                                             *)

IdentifyFields == {"Identified", "Version"}

\* An item gives a field the room the protocol has for it.
CarriesField(name, x) ==
  CASE x.kind = "unsigned" ->
         /\ x.width = 1
         /\ x.field \in {"ResultCode", "GlobalStatus", "TransactionErrorCode"}
    [] x.kind = "signed" ->
         \/ x.width = 1 /\ x.field \in {"BranchType", "BranchStatus", "Status"}
         \/ x.width = LongWidth /\ x.field = "BranchId"
    [] x.kind = "string" -> \/ x.width = 2 /\ x.field \in Names
                            \/ x.width = 4 /\ x.field \in FreeText
    [] x.kind = "flag" -> x.field \in BooleanFields
    [] x.kind = "millis" -> x.width = 4 /\ x.field = "Timeout"
    [] x.kind = "failedMsg" ->
         /\ x.field = "Msg" /\ name \notin IdentifyResponse
         /\ "ResultCode" \in Messages[name].fields
         /\ \/ x.width = 2 /\ x.max = MaxInt16 /\ name \notin ShortMsg
            \/ x.width = 1 /\ x.max = MaxInt8
               /\ name \in ShortMsg \ {"BranchRollbackResponse"}
            \/ x.width = 1 /\ x.max = MaxInt16
               /\ name = "BranchRollbackResponse"

\* A layout has an item for every field the protocol carries, and no other.
Covers(name, layout) ==
  /\ \A i \in 1 .. Len(layout) : /\ layout[i].field \in Messages[name].fields
                                 /\ CarriesField(name, layout[i])
  /\ name \in IdentifyResponse =>
       \A i \in 1 .. Len(layout) : layout[i].field \in IdentifyFields
  /\ \A f \in Messages[name].fields :
       \/ name \in IdentifyResponse /\ f \notin IdentifyFields
       \/ \E i \in 1 .. Len(layout) : layout[i].field = f

WellMade(c) ==
  /\ c.message \in DOMAIN Messages
  /\ c.messageType = GetTypeCode(c.message)
  /\ LayoutsAgree(c.encode, c.decode)
  /\ Covers(c.message, c.encode)

\* The fields that are free text, and the names.
LEMMA FieldSets ==
  /\ FreeText = {"ApplicationData", "LockKey", "ResourceIds"}
  /\ Names = {"Xid", "ResourceId", "ExtraData", "TransactionName", "Version",
              "ApplicationId", "TransactionServiceGroup"}
  BY DEF FreeText, Names, StringFields

\* The items every layout is made of give their field its room.
LEMMA ItemsCarry ==
  ASSUME NEW name
  PROVE  /\ \A f \in {"ResultCode", "GlobalStatus", "TransactionErrorCode"} :
              CarriesField(name, Byte(f))
         /\ \A f \in {"BranchType", "BranchStatus", "Status"} :
              CarriesField(name, SignedByte(f))
         /\ CarriesField(name, Int64("BranchId"))
         /\ \A f \in Names : CarriesField(name, String16(f))
         /\ \A f \in FreeText : CarriesField(name, String32(f))
         /\ \A w, f : f \in BooleanFields => CarriesField(name, Flag(w, f))
         /\ CarriesField(name, Millis("Timeout"))
  BY DEF CarriesField, Byte, SignedByte, Int64, String16, String32, Flag,
         Millis, Item

\* So do the three ways to write Msg.
LEMMA MsgCarries ==
  ASSUME NEW name, name \notin IdentifyResponse,
         "ResultCode" \in Messages[name].fields
  PROVE  /\ name \notin ShortMsg => CarriesField(name, FailedMsg(2, MaxInt16))
         /\ name \in ShortMsg \ {"BranchRollbackResponse"}
              => CarriesField(name, FailedMsg(1, MaxInt8))
         /\ name = "BranchRollbackResponse"
              => CarriesField(name, FailedMsg(1, MaxInt16))
  BY DEF CarriesField, FailedMsg

\* Decode reads a begin request in the order Encode wrote it.
LEMMA GlobalBeginRequests ==
  LET c == GlobalBeginRequestCodec IN
  LayoutsAgree(c.encode, c.decode) /\ Covers("GlobalBeginRequest", c.encode)
<1> DEFINE e == GlobalBeginRequestCodec.encode
           d == GlobalBeginRequestCodec.decode
<1>1. /\ e = <<Millis("Timeout"), String16("TransactionName")>>
      /\ d = <<Millis("Timeout"), String16("TransactionName")>>
      /\ Len(e) = 2 /\ Len(d) = 2
  BY DEF GlobalBeginRequestCodec, Codec
<1> HIDE DEF e, d
<1>2. \A i \in 1 .. 2 : Matches(e[i], d[i])
  BY <1>1 DEF Matches, Kinds, String16, Millis, Item
<1>3. \A i, j \in 1 .. 2 : e[i].field = e[j].field => i = j
  BY <1>1 DEF String16, Millis, Item
<1>4. \A i \in 1 .. 2 :
        e[i].kind = "failedMsg" =>
          \E j \in 1 .. i - 1 : e[j].field = "ResultCode"
                                /\ e[j].kind = "unsigned"
  BY <1>1 DEF String16, Millis, Item
<1>5. LayoutsAgree(e, d)
  BY <1>1, <1>2, <1>3, <1>4 DEF LayoutsAgree
<1>6. Covers("GlobalBeginRequest", e)
  <2> DEFINE name == "GlobalBeginRequest"
  <2>1. Messages[name].fields =
          {"Timeout", "TransactionName"}
    BY RequestFields
  <2>2. name \notin IdentifyResponse
    BY DEF IdentifyResponse
  <2>3. \A i \in 1 .. 2 : e[i].field \in Messages[name].fields
    BY <1>1, <2>1 DEF String16, Millis, Item
  <2>4. \A i \in 1 .. 2 : CarriesField(name, e[i])
    BY <1>1, <2>1, <2>2, FieldSets, ItemsCarry
  <2>5. \A f \in Messages[name].fields : \E i \in 1 .. 2 : e[i].field = f
    BY <1>1, <2>1 DEF String16, Millis, Item
  <2> QED
    BY <1>1, <2>2, <2>3, <2>4, <2>5 DEF Covers
<1> QED
  BY <1>5, <1>6 DEF e, d

\* Likewise a begin response.
LEMMA GlobalBeginResponses ==
  LET c == GlobalBeginResponseCodec IN
  LayoutsAgree(c.encode, c.decode) /\ Covers("GlobalBeginResponse", c.encode)
<1> DEFINE e == GlobalBeginResponseCodec.encode
           d == GlobalBeginResponseCodec.decode
<1>1. /\ e = <<Byte("ResultCode"), FailedMsg(2, MaxInt16),
               Byte("TransactionErrorCode"), String16("Xid"),
               String16("ExtraData")>>
      /\ d = <<Byte("ResultCode"), ReadFailedMsg(2),
               Byte("TransactionErrorCode"), String16("Xid"),
               String16("ExtraData")>>
      /\ Len(e) = 5 /\ Len(d) = 5
  BY DEF GlobalBeginResponseCodec, Codec
<1> HIDE DEF e, d
<1>2. \A i \in 1 .. 5 : Matches(e[i], d[i])
  BY <1>1 DEF Matches, Kinds, Byte, String16, FailedMsg, ReadFailedMsg, Item
<1>3. \A i, j \in 1 .. 5 : e[i].field = e[j].field => i = j
  BY <1>1 DEF Byte, String16, FailedMsg, Item
<1>4. \A i \in 1 .. 5 :
        e[i].kind = "failedMsg" =>
          \E j \in 1 .. i - 1 : e[j].field = "ResultCode"
                                /\ e[j].kind = "unsigned"
  BY <1>1 DEF Byte, String16, FailedMsg, Item
<1>5. LayoutsAgree(e, d)
  BY <1>1, <1>2, <1>3, <1>4 DEF LayoutsAgree
<1>6. Covers("GlobalBeginResponse", e)
  <2> DEFINE name == "GlobalBeginResponse"
  <2>1. Messages[name].fields =
          {"ResultCode", "Msg", "TransactionErrorCode", "Xid", "ExtraData"}
    BY ResponseFields DEF AbstractTransactionResponse
  <2>2. name \notin IdentifyResponse
    BY DEF IdentifyResponse
  <2>3. \A i \in 1 .. 5 : e[i].field \in Messages[name].fields
    BY <1>1, <2>1 DEF Byte, String16, FailedMsg, Item
  <2>4. \A i \in 1 .. 5 : CarriesField(name, e[i])
    BY <1>1, <2>1, <2>2, FieldSets, ItemsCarry, MsgCarries DEF ShortMsg
  <2>5. \A f \in Messages[name].fields : \E i \in 1 .. 5 : e[i].field = f
    BY <1>1, <2>1 DEF Byte, String16, FailedMsg, Item
  <2> QED
    BY <1>1, <2>2, <2>3, <2>4, <2>5 DEF Covers
<1> QED
  BY <1>5, <1>6 DEF e, d

\* Likewise the requests to end a global transaction or look at one.
LEMMA GlobalEndRequests ==
  LET c == CommonGlobalEndRequestCodec IN
  /\ LayoutsAgree(c.encode, c.decode)
  /\ \A name \in {"GlobalCommitRequest",
                    "GlobalRollbackRequest",
                    "GlobalStatusRequest"} :
       Covers(name, c.encode)
<1> DEFINE e == CommonGlobalEndRequestCodec.encode
           d == CommonGlobalEndRequestCodec.decode
<1>1. /\ e = <<String16("Xid"), String16("ExtraData")>>
      /\ d = <<String16("Xid"), String16("ExtraData")>>
      /\ Len(e) = 2 /\ Len(d) = 2
  BY DEF CommonGlobalEndRequestCodec
<1> HIDE DEF e, d
<1>2. \A i \in 1 .. 2 : Matches(e[i], d[i])
  BY <1>1 DEF Matches, Kinds, String16, Item
<1>3. \A i, j \in 1 .. 2 : e[i].field = e[j].field => i = j
  BY <1>1 DEF String16, Item
<1>4. \A i \in 1 .. 2 :
        e[i].kind = "failedMsg" =>
          \E j \in 1 .. i - 1 : e[j].field = "ResultCode"
                                /\ e[j].kind = "unsigned"
  BY <1>1 DEF String16, Item
<1>5. LayoutsAgree(e, d)
  BY <1>1, <1>2, <1>3, <1>4 DEF LayoutsAgree
<1>6. ASSUME NEW name \in {"GlobalCommitRequest",
                            "GlobalRollbackRequest",
                            "GlobalStatusRequest"}
      PROVE  Covers(name, e)
  <2>1. Messages[name].fields =
          {"Xid", "ExtraData"}
    BY RequestFields DEF AbstractGlobalEndRequest
  <2>2. name \notin IdentifyResponse
    BY DEF IdentifyResponse
  <2>3. \A i \in 1 .. 2 : e[i].field \in Messages[name].fields
    BY <1>1, <2>1 DEF String16, Item
  <2>4. \A i \in 1 .. 2 : CarriesField(name, e[i])
    BY <1>1, <2>1, <2>2, FieldSets, ItemsCarry
  <2>5. \A f \in Messages[name].fields : \E i \in 1 .. 2 : e[i].field = f
    BY <1>1, <2>1 DEF String16, Item
  <2> QED
    BY <1>1, <2>2, <2>3, <2>4, <2>5 DEF Covers
<1> QED
  BY <1>5, <1>6 DEF e, d

\* Likewise their responses, and that of a report.
LEMMA GlobalEndResponses ==
  LET c == CommonGlobalEndResponseCodec IN
  /\ LayoutsAgree(c.encode, c.decode)
  /\ \A name \in {"GlobalCommitResponse",
                    "GlobalRollbackResponse",
                    "GlobalStatusResponse",
                    "GlobalReportResponse"} :
       Covers(name, c.encode)
<1> DEFINE e == CommonGlobalEndResponseCodec.encode
           d == CommonGlobalEndResponseCodec.decode
<1>1. /\ e = <<Byte("ResultCode"), FailedMsg(2, MaxInt16),
               Byte("TransactionErrorCode"), Byte("GlobalStatus")>>
      /\ d = <<Byte("ResultCode"), ReadFailedMsg(2),
               Byte("TransactionErrorCode"), Byte("GlobalStatus")>>
      /\ Len(e) = 4 /\ Len(d) = 4
  BY DEF CommonGlobalEndResponseCodec
<1> HIDE DEF e, d
<1>2. \A i \in 1 .. 4 : Matches(e[i], d[i])
  BY <1>1 DEF Matches, Kinds, Byte, FailedMsg, ReadFailedMsg, Item
<1>3. \A i, j \in 1 .. 4 : e[i].field = e[j].field => i = j
  BY <1>1 DEF Byte, FailedMsg, Item
<1>4. \A i \in 1 .. 4 :
        e[i].kind = "failedMsg" =>
          \E j \in 1 .. i - 1 : e[j].field = "ResultCode"
                                /\ e[j].kind = "unsigned"
  BY <1>1 DEF Byte, FailedMsg, Item
<1>5. LayoutsAgree(e, d)
  BY <1>1, <1>2, <1>3, <1>4 DEF LayoutsAgree
<1>6. ASSUME NEW name \in {"GlobalCommitResponse",
                            "GlobalRollbackResponse",
                            "GlobalStatusResponse",
                            "GlobalReportResponse"}
      PROVE  Covers(name, e)
  <2>1. Messages[name].fields =
          {"ResultCode", "Msg", "TransactionErrorCode", "GlobalStatus"}
    BY ResponseFields DEF AbstractGlobalEndResponse,
         AbstractTransactionResponse
  <2>2. name \notin IdentifyResponse
    BY DEF IdentifyResponse
  <2>3. \A i \in 1 .. 4 : e[i].field \in Messages[name].fields
    BY <1>1, <2>1 DEF Byte, FailedMsg, Item
  <2>4. \A i \in 1 .. 4 : CarriesField(name, e[i])
    BY <1>1, <2>1, <2>2, FieldSets, ItemsCarry, MsgCarries DEF ShortMsg
  <2>5. \A f \in Messages[name].fields : \E i \in 1 .. 4 : e[i].field = f
    BY <1>1, <2>1 DEF Byte, FailedMsg, Item
  <2> QED
    BY <1>1, <2>2, <2>3, <2>4, <2>5 DEF Covers
<1> QED
  BY <1>5, <1>6 DEF e, d

\* Likewise a lock query.
LEMMA GlobalLockQueryRequests ==
  LET c == GlobalLockQueryRequestCodec IN
  LayoutsAgree(c.encode, c.decode) /\ Covers("GlobalLockQueryRequest", c.encode)
<1> DEFINE e == GlobalLockQueryRequestCodec.encode
           d == GlobalLockQueryRequestCodec.decode
<1>1. /\ e = <<String16("Xid"), SignedByte("BranchType"),
               String16("ResourceId"), String32("LockKey"),
               String32("ApplicationData")>>
      /\ d = <<String16("Xid"), SignedByte("BranchType"),
               String16("ResourceId"), String32("LockKey"),
               String32("ApplicationData")>>
      /\ Len(e) = 5 /\ Len(d) = 5
  BY DEF GlobalLockQueryRequestCodec, Codec
<1> HIDE DEF e, d
<1>2. \A i \in 1 .. 5 : Matches(e[i], d[i])
  BY <1>1 DEF Matches, Kinds, SignedByte, String16, String32, Item
<1>3. \A i, j \in 1 .. 5 : e[i].field = e[j].field => i = j
  BY <1>1 DEF SignedByte, String16, String32, Item
<1>4. \A i \in 1 .. 5 :
        e[i].kind = "failedMsg" =>
          \E j \in 1 .. i - 1 : e[j].field = "ResultCode"
                                /\ e[j].kind = "unsigned"
  BY <1>1 DEF SignedByte, String16, String32, Item
<1>5. LayoutsAgree(e, d)
  BY <1>1, <1>2, <1>3, <1>4 DEF LayoutsAgree
<1>6. Covers("GlobalLockQueryRequest", e)
  <2> DEFINE name == "GlobalLockQueryRequest"
  <2>1. Messages[name].fields =
          {"Xid", "BranchType", "ResourceId", "LockKey", "ApplicationData"}
    BY RequestFields DEF BranchRegisterRequest
  <2>2. name \notin IdentifyResponse
    BY DEF IdentifyResponse
  <2>3. \A i \in 1 .. 5 : e[i].field \in Messages[name].fields
    BY <1>1, <2>1 DEF SignedByte, String16, String32, Item
  <2>4. \A i \in 1 .. 5 : CarriesField(name, e[i])
    BY <1>1, <2>1, <2>2, FieldSets, ItemsCarry
  <2>5. \A f \in Messages[name].fields : \E i \in 1 .. 5 : e[i].field = f
    BY <1>1, <2>1 DEF SignedByte, String16, String32, Item
  <2> QED
    BY <1>1, <2>2, <2>3, <2>4, <2>5 DEF Covers
<1> QED
  BY <1>5, <1>6 DEF e, d

\* Likewise its response.
LEMMA GlobalLockQueryResponses ==
  LET c == GlobalLockQueryResponseCodec IN
  LayoutsAgree(c.encode, c.decode) /\ Covers("GlobalLockQueryResponse", c.encode)
<1> DEFINE e == GlobalLockQueryResponseCodec.encode
           d == GlobalLockQueryResponseCodec.decode
<1>1. /\ e = <<Byte("ResultCode"), FailedMsg(1, MaxInt8),
               Byte("TransactionErrorCode"), Flag(2, "Lockable")>>
      /\ d = <<Byte("ResultCode"), ReadFailedMsg(1),
               Byte("TransactionErrorCode"), Flag(2, "Lockable")>>
      /\ Len(e) = 4 /\ Len(d) = 4
  BY DEF GlobalLockQueryResponseCodec, Codec
<1> HIDE DEF e, d
<1>2. \A i \in 1 .. 4 : Matches(e[i], d[i])
  BY <1>1 DEF Matches, Kinds, Byte, Flag, FailedMsg, ReadFailedMsg, Item
<1>3. \A i, j \in 1 .. 4 : e[i].field = e[j].field => i = j
  BY <1>1 DEF Byte, Flag, FailedMsg, Item
<1>4. \A i \in 1 .. 4 :
        e[i].kind = "failedMsg" =>
          \E j \in 1 .. i - 1 : e[j].field = "ResultCode"
                                /\ e[j].kind = "unsigned"
  BY <1>1 DEF Byte, Flag, FailedMsg, Item
<1>5. LayoutsAgree(e, d)
  BY <1>1, <1>2, <1>3, <1>4 DEF LayoutsAgree
<1>6. Covers("GlobalLockQueryResponse", e)
  <2> DEFINE name == "GlobalLockQueryResponse"
  <2>1. Messages[name].fields =
          {"ResultCode", "Msg", "TransactionErrorCode", "Lockable"}
    BY ResponseFields DEF AbstractTransactionResponse
  <2>2. name \notin IdentifyResponse
    BY DEF IdentifyResponse
  <2>3. \A i \in 1 .. 4 : e[i].field \in Messages[name].fields
    BY <1>1, <2>1 DEF Byte, Flag, FailedMsg, Item
  <2>4. \A i \in 1 .. 4 : CarriesField(name, e[i])
    <3>1. name \in ShortMsg \ {"BranchRollbackResponse"}
      BY DEF ShortMsg
    <3>2. CarriesField(name, FailedMsg(1, MaxInt8))
      BY <2>1, <2>2, <3>1, MsgCarries
    <3>3. /\ CarriesField(name, Byte("ResultCode"))
          /\ CarriesField(name, Byte("TransactionErrorCode"))
          /\ CarriesField(name, Flag(2, "Lockable"))
      BY ItemsCarry DEF BooleanFields
    <3> QED
      BY <1>1, <3>2, <3>3
  <2>5. \A f \in Messages[name].fields : \E i \in 1 .. 4 : e[i].field = f
    BY <1>1, <2>1 DEF Byte, Flag, FailedMsg, Item
  <2> QED
    BY <1>1, <2>2, <2>3, <2>4, <2>5 DEF Covers
<1> QED
  BY <1>5, <1>6 DEF e, d

\* Likewise a branch commit.
LEMMA BranchCommitRequests ==
  LET c == BranchCommitRequestCodec IN
  LayoutsAgree(c.encode, c.decode) /\ Covers("BranchCommitRequest", c.encode)
<1> DEFINE e == BranchCommitRequestCodec.encode
           d == BranchCommitRequestCodec.decode
<1>1. /\ e = <<String16("Xid"), Int64("BranchId"), SignedByte("BranchType"),
               String16("ResourceId"), String32("ApplicationData")>>
      /\ d = <<String16("Xid"), Int64("BranchId"), SignedByte("BranchType"),
               String16("ResourceId"), String32("ApplicationData")>>
      /\ Len(e) = 5 /\ Len(d) = 5
  BY DEF BranchCommitRequestCodec, Codec
<1> HIDE DEF e, d
<1>2. \A i \in 1 .. 5 : Matches(e[i], d[i])
  BY <1>1, SeataCodecAssumption DEF Matches, Kinds, SignedByte, Int64,
         String16, String32, Item
<1>3. \A i, j \in 1 .. 5 : e[i].field = e[j].field => i = j
  BY <1>1 DEF SignedByte, Int64, String16, String32, Item
<1>4. \A i \in 1 .. 5 :
        e[i].kind = "failedMsg" =>
          \E j \in 1 .. i - 1 : e[j].field = "ResultCode"
                                /\ e[j].kind = "unsigned"
  BY <1>1 DEF SignedByte, Int64, String16, String32, Item
<1>5. LayoutsAgree(e, d)
  BY <1>1, <1>2, <1>3, <1>4 DEF LayoutsAgree
<1>6. Covers("BranchCommitRequest", e)
  <2> DEFINE name == "BranchCommitRequest"
  <2>1. Messages[name].fields =
          {"Xid", "BranchId", "BranchType", "ResourceId", "ApplicationData"}
    BY RequestFields DEF AbstractBranchEndRequest
  <2>2. name \notin IdentifyResponse
    BY DEF IdentifyResponse
  <2>3. \A i \in 1 .. 5 : e[i].field \in Messages[name].fields
    BY <1>1, <2>1 DEF SignedByte, Int64, String16, String32, Item
  <2>4. \A i \in 1 .. 5 : CarriesField(name, e[i])
    BY <1>1, <2>1, <2>2, FieldSets, ItemsCarry
  <2>5. \A f \in Messages[name].fields : \E i \in 1 .. 5 : e[i].field = f
    BY <1>1, <2>1 DEF SignedByte, Int64, String16, String32, Item
  <2> QED
    BY <1>1, <2>2, <2>3, <2>4, <2>5 DEF Covers
<1> QED
  BY <1>5, <1>6 DEF e, d

\* Likewise its response.
LEMMA BranchCommitResponses ==
  LET c == BranchCommitResponseCodec IN
  LayoutsAgree(c.encode, c.decode) /\ Covers("BranchCommitResponse", c.encode)
<1> DEFINE e == BranchCommitResponseCodec.encode
           d == BranchCommitResponseCodec.decode
<1>1. /\ e = <<Byte("ResultCode"), FailedMsg(1, MaxInt8),
               Byte("TransactionErrorCode"), String16("Xid"),
               Int64("BranchId"), SignedByte("BranchStatus")>>
      /\ d = <<Byte("ResultCode"), ReadFailedMsg(1),
               Byte("TransactionErrorCode"), String16("Xid"),
               Int64("BranchId"), SignedByte("BranchStatus")>>
      /\ Len(e) = 6 /\ Len(d) = 6
  BY DEF BranchCommitResponseCodec, Codec
<1> HIDE DEF e, d
<1>2. \A i \in 1 .. 6 : Matches(e[i], d[i])
  BY <1>1, SeataCodecAssumption DEF Matches, Kinds, Byte, SignedByte, Int64,
         String16, FailedMsg, ReadFailedMsg, Item
<1>3. \A i, j \in 1 .. 6 : e[i].field = e[j].field => i = j
  BY <1>1 DEF Byte, SignedByte, Int64, String16, FailedMsg, Item
<1>4. \A i \in 1 .. 6 :
        e[i].kind = "failedMsg" =>
          \E j \in 1 .. i - 1 : e[j].field = "ResultCode"
                                /\ e[j].kind = "unsigned"
  BY <1>1 DEF Byte, SignedByte, Int64, String16, FailedMsg, Item
<1>5. LayoutsAgree(e, d)
  BY <1>1, <1>2, <1>3, <1>4 DEF LayoutsAgree
<1>6. Covers("BranchCommitResponse", e)
  <2> DEFINE name == "BranchCommitResponse"
  <2>1. Messages[name].fields =
          {"ResultCode", "Msg", "TransactionErrorCode", "Xid", "BranchId",
           "BranchStatus"}
    BY ResponseFields DEF AbstractBranchEndResponse,
         AbstractTransactionResponse
  <2>2. name \notin IdentifyResponse
    BY DEF IdentifyResponse
  <2>3. \A i \in 1 .. 6 : e[i].field \in Messages[name].fields
    BY <1>1, <2>1 DEF Byte, SignedByte, Int64, String16, FailedMsg, Item
  <2>4. \A i \in 1 .. 6 : CarriesField(name, e[i])
    BY <1>1, <2>1, <2>2, FieldSets, ItemsCarry, MsgCarries DEF ShortMsg
  <2>5. \A f \in Messages[name].fields : \E i \in 1 .. 6 : e[i].field = f
    BY <1>1, <2>1 DEF Byte, SignedByte, Int64, String16, FailedMsg, Item
  <2> QED
    BY <1>1, <2>2, <2>3, <2>4, <2>5 DEF Covers
<1> QED
  BY <1>5, <1>6 DEF e, d

\* Likewise a branch rollback.
LEMMA BranchRollbackRequests ==
  LET c == BranchRollbackRequestCodec IN
  LayoutsAgree(c.encode, c.decode) /\ Covers("BranchRollbackRequest", c.encode)
<1> DEFINE e == BranchRollbackRequestCodec.encode
           d == BranchRollbackRequestCodec.decode
<1>1. /\ e = <<String16("Xid"), Int64("BranchId"), SignedByte("BranchType"),
               String16("ResourceId"), String32("ApplicationData")>>
      /\ d = <<String16("Xid"), Int64("BranchId"), SignedByte("BranchType"),
               String16("ResourceId"), String32("ApplicationData")>>
      /\ Len(e) = 5 /\ Len(d) = 5
  BY DEF BranchRollbackRequestCodec, Codec
<1> HIDE DEF e, d
<1>2. \A i \in 1 .. 5 : Matches(e[i], d[i])
  BY <1>1, SeataCodecAssumption DEF Matches, Kinds, SignedByte, Int64,
         String16, String32, Item
<1>3. \A i, j \in 1 .. 5 : e[i].field = e[j].field => i = j
  BY <1>1 DEF SignedByte, Int64, String16, String32, Item
<1>4. \A i \in 1 .. 5 :
        e[i].kind = "failedMsg" =>
          \E j \in 1 .. i - 1 : e[j].field = "ResultCode"
                                /\ e[j].kind = "unsigned"
  BY <1>1 DEF SignedByte, Int64, String16, String32, Item
<1>5. LayoutsAgree(e, d)
  BY <1>1, <1>2, <1>3, <1>4 DEF LayoutsAgree
<1>6. Covers("BranchRollbackRequest", e)
  <2> DEFINE name == "BranchRollbackRequest"
  <2>1. Messages[name].fields =
          {"Xid", "BranchId", "BranchType", "ResourceId", "ApplicationData"}
    BY RequestFields DEF AbstractBranchEndRequest
  <2>2. name \notin IdentifyResponse
    BY DEF IdentifyResponse
  <2>3. \A i \in 1 .. 5 : e[i].field \in Messages[name].fields
    BY <1>1, <2>1 DEF SignedByte, Int64, String16, String32, Item
  <2>4. \A i \in 1 .. 5 : CarriesField(name, e[i])
    BY <1>1, <2>1, <2>2, FieldSets, ItemsCarry
  <2>5. \A f \in Messages[name].fields : \E i \in 1 .. 5 : e[i].field = f
    BY <1>1, <2>1 DEF SignedByte, Int64, String16, String32, Item
  <2> QED
    BY <1>1, <2>2, <2>3, <2>4, <2>5 DEF Covers
<1> QED
  BY <1>5, <1>6 DEF e, d

\* Likewise its response, whose Msg may be longer than its length says.
LEMMA BranchRollbackResponses ==
  LET c == BranchRollbackResponseCodec IN
  LayoutsAgree(c.encode, c.decode) /\ Covers("BranchRollbackResponse", c.encode)
<1> DEFINE e == BranchRollbackResponseCodec.encode
           d == BranchRollbackResponseCodec.decode
<1>1. /\ e = <<Byte("ResultCode"), FailedMsg(1, MaxInt16),
               Byte("TransactionErrorCode"), String16("Xid"),
               Int64("BranchId"), SignedByte("BranchStatus")>>
      /\ d = <<Byte("ResultCode"), ReadFailedMsg(1),
               Byte("TransactionErrorCode"), String16("Xid"),
               Int64("BranchId"), SignedByte("BranchStatus")>>
      /\ Len(e) = 6 /\ Len(d) = 6
  BY DEF BranchRollbackResponseCodec, Codec
<1> HIDE DEF e, d
<1>2. \A i \in 1 .. 6 : Matches(e[i], d[i])
  BY <1>1, SeataCodecAssumption DEF Matches, Kinds, Byte, SignedByte, Int64,
         String16, FailedMsg, ReadFailedMsg, Item
<1>3. \A i, j \in 1 .. 6 : e[i].field = e[j].field => i = j
  BY <1>1 DEF Byte, SignedByte, Int64, String16, FailedMsg, Item
<1>4. \A i \in 1 .. 6 :
        e[i].kind = "failedMsg" =>
          \E j \in 1 .. i - 1 : e[j].field = "ResultCode"
                                /\ e[j].kind = "unsigned"
  BY <1>1 DEF Byte, SignedByte, Int64, String16, FailedMsg, Item
<1>5. LayoutsAgree(e, d)
  BY <1>1, <1>2, <1>3, <1>4 DEF LayoutsAgree
<1>6. Covers("BranchRollbackResponse", e)
  <2> DEFINE name == "BranchRollbackResponse"
  <2>1. Messages[name].fields =
          {"ResultCode", "Msg", "TransactionErrorCode", "Xid", "BranchId",
           "BranchStatus"}
    BY ResponseFields DEF AbstractBranchEndResponse,
         AbstractTransactionResponse
  <2>2. name \notin IdentifyResponse
    BY DEF IdentifyResponse
  <2>3. \A i \in 1 .. 6 : e[i].field \in Messages[name].fields
    BY <1>1, <2>1 DEF Byte, SignedByte, Int64, String16, FailedMsg, Item
  <2>4. \A i \in 1 .. 6 : CarriesField(name, e[i])
    BY <1>1, <2>1, <2>2, FieldSets, ItemsCarry, MsgCarries DEF ShortMsg
  <2>5. \A f \in Messages[name].fields : \E i \in 1 .. 6 : e[i].field = f
    BY <1>1, <2>1 DEF Byte, SignedByte, Int64, String16, FailedMsg, Item
  <2> QED
    BY <1>1, <2>2, <2>3, <2>4, <2>5 DEF Covers
<1> QED
  BY <1>5, <1>6 DEF e, d

\* Likewise the registration of a branch.
LEMMA BranchRegisterRequests ==
  LET c == BranchRegisterRequestCodec IN
  LayoutsAgree(c.encode, c.decode) /\ Covers("BranchRegisterRequest", c.encode)
<1> DEFINE e == BranchRegisterRequestCodec.encode
           d == BranchRegisterRequestCodec.decode
<1>1. /\ e = <<String16("Xid"), SignedByte("BranchType"),
               String16("ResourceId"), String32("LockKey"),
               String32("ApplicationData")>>
      /\ d = <<String16("Xid"), SignedByte("BranchType"),
               String16("ResourceId"), String32("LockKey"),
               String32("ApplicationData")>>
      /\ Len(e) = 5 /\ Len(d) = 5
  BY DEF BranchRegisterRequestCodec, Codec
<1> HIDE DEF e, d
<1>2. \A i \in 1 .. 5 : Matches(e[i], d[i])
  BY <1>1 DEF Matches, Kinds, SignedByte, String16, String32, Item
<1>3. \A i, j \in 1 .. 5 : e[i].field = e[j].field => i = j
  BY <1>1 DEF SignedByte, String16, String32, Item
<1>4. \A i \in 1 .. 5 :
        e[i].kind = "failedMsg" =>
          \E j \in 1 .. i - 1 : e[j].field = "ResultCode"
                                /\ e[j].kind = "unsigned"
  BY <1>1 DEF SignedByte, String16, String32, Item
<1>5. LayoutsAgree(e, d)
  BY <1>1, <1>2, <1>3, <1>4 DEF LayoutsAgree
<1>6. Covers("BranchRegisterRequest", e)
  <2> DEFINE name == "BranchRegisterRequest"
  <2>1. Messages[name].fields =
          {"Xid", "BranchType", "ResourceId", "LockKey", "ApplicationData"}
    BY RequestFields DEF BranchRegisterRequest
  <2>2. name \notin IdentifyResponse
    BY DEF IdentifyResponse
  <2>3. \A i \in 1 .. 5 : e[i].field \in Messages[name].fields
    BY <1>1, <2>1 DEF SignedByte, String16, String32, Item
  <2>4. \A i \in 1 .. 5 : CarriesField(name, e[i])
    BY <1>1, <2>1, <2>2, FieldSets, ItemsCarry
  <2>5. \A f \in Messages[name].fields : \E i \in 1 .. 5 : e[i].field = f
    BY <1>1, <2>1 DEF SignedByte, String16, String32, Item
  <2> QED
    BY <1>1, <2>2, <2>3, <2>4, <2>5 DEF Covers
<1> QED
  BY <1>5, <1>6 DEF e, d

\* Likewise its response.
LEMMA BranchRegisterResponses ==
  LET c == BranchRegisterResponseCodec IN
  LayoutsAgree(c.encode, c.decode) /\ Covers("BranchRegisterResponse", c.encode)
<1> DEFINE e == BranchRegisterResponseCodec.encode
           d == BranchRegisterResponseCodec.decode
<1>1. /\ e = <<Byte("ResultCode"), FailedMsg(2, MaxInt16),
               Byte("TransactionErrorCode"), Int64("BranchId")>>
      /\ d = <<Byte("ResultCode"), ReadFailedMsg(2),
               Byte("TransactionErrorCode"), Int64("BranchId")>>
      /\ Len(e) = 4 /\ Len(d) = 4
  BY DEF BranchRegisterResponseCodec, Codec
<1> HIDE DEF e, d
<1>2. \A i \in 1 .. 4 : Matches(e[i], d[i])
  BY <1>1, SeataCodecAssumption DEF Matches, Kinds, Byte, Int64, FailedMsg,
         ReadFailedMsg, Item
<1>3. \A i, j \in 1 .. 4 : e[i].field = e[j].field => i = j
  BY <1>1 DEF Byte, Int64, FailedMsg, Item
<1>4. \A i \in 1 .. 4 :
        e[i].kind = "failedMsg" =>
          \E j \in 1 .. i - 1 : e[j].field = "ResultCode"
                                /\ e[j].kind = "unsigned"
  BY <1>1 DEF Byte, Int64, FailedMsg, Item
<1>5. LayoutsAgree(e, d)
  BY <1>1, <1>2, <1>3, <1>4 DEF LayoutsAgree
<1>6. Covers("BranchRegisterResponse", e)
  <2> DEFINE name == "BranchRegisterResponse"
  <2>1. Messages[name].fields =
          {"ResultCode", "Msg", "TransactionErrorCode", "BranchId"}
    BY ResponseFields DEF AbstractTransactionResponse
  <2>2. name \notin IdentifyResponse
    BY DEF IdentifyResponse
  <2>3. \A i \in 1 .. 4 : e[i].field \in Messages[name].fields
    BY <1>1, <2>1 DEF Byte, Int64, FailedMsg, Item
  <2>4. \A i \in 1 .. 4 : CarriesField(name, e[i])
    BY <1>1, <2>1, <2>2, FieldSets, ItemsCarry, MsgCarries DEF ShortMsg
  <2>5. \A f \in Messages[name].fields : \E i \in 1 .. 4 : e[i].field = f
    BY <1>1, <2>1 DEF Byte, Int64, FailedMsg, Item
  <2> QED
    BY <1>1, <2>2, <2>3, <2>4, <2>5 DEF Covers
<1> QED
  BY <1>5, <1>6 DEF e, d

\* Likewise the report of a branch.
LEMMA BranchReportRequests ==
  LET c == BranchReportRequestCodec IN
  LayoutsAgree(c.encode, c.decode) /\ Covers("BranchReportRequest", c.encode)
<1> DEFINE e == BranchReportRequestCodec.encode
           d == BranchReportRequestCodec.decode
<1>1. /\ e = <<String16("Xid"), Int64("BranchId"), SignedByte("Status"),
               String16("ResourceId"), String32("ApplicationData"),
               SignedByte("BranchType")>>
      /\ d = <<String16("Xid"), Int64("BranchId"), SignedByte("Status"),
               String16("ResourceId"), String32("ApplicationData"),
               SignedByte("BranchType")>>
      /\ Len(e) = 6 /\ Len(d) = 6
  BY DEF BranchReportRequestCodec, Codec
<1> HIDE DEF e, d
<1>2. \A i \in 1 .. 6 : Matches(e[i], d[i])
  BY <1>1, SeataCodecAssumption DEF Matches, Kinds, SignedByte, Int64,
         String16, String32, Item
<1>3. \A i, j \in 1 .. 6 : e[i].field = e[j].field => i = j
  BY <1>1 DEF SignedByte, Int64, String16, String32, Item
<1>4. \A i \in 1 .. 6 :
        e[i].kind = "failedMsg" =>
          \E j \in 1 .. i - 1 : e[j].field = "ResultCode"
                                /\ e[j].kind = "unsigned"
  BY <1>1 DEF SignedByte, Int64, String16, String32, Item
<1>5. LayoutsAgree(e, d)
  BY <1>1, <1>2, <1>3, <1>4 DEF LayoutsAgree
<1>6. Covers("BranchReportRequest", e)
  <2> DEFINE name == "BranchReportRequest"
  <2>1. Messages[name].fields =
          {"Xid", "BranchId", "Status", "ResourceId", "ApplicationData",
           "BranchType"}
    BY RequestFields
  <2>2. name \notin IdentifyResponse
    BY DEF IdentifyResponse
  <2>3. \A i \in 1 .. 6 : e[i].field \in Messages[name].fields
    BY <1>1, <2>1 DEF SignedByte, Int64, String16, String32, Item
  <2>4. \A i \in 1 .. 6 : CarriesField(name, e[i])
    BY <1>1, <2>1, <2>2, FieldSets, ItemsCarry
  <2>5. \A f \in Messages[name].fields : \E i \in 1 .. 6 : e[i].field = f
    BY <1>1, <2>1 DEF SignedByte, Int64, String16, String32, Item
  <2> QED
    BY <1>1, <2>2, <2>3, <2>4, <2>5 DEF Covers
<1> QED
  BY <1>5, <1>6 DEF e, d

\* Likewise its response.
LEMMA BranchReportResponses ==
  LET c == BranchReportResponseCodec IN
  LayoutsAgree(c.encode, c.decode) /\ Covers("BranchReportResponse", c.encode)
<1> DEFINE e == BranchReportResponseCodec.encode
           d == BranchReportResponseCodec.decode
<1>1. /\ e = <<Byte("ResultCode"), FailedMsg(1, MaxInt8),
               Byte("TransactionErrorCode")>>
      /\ d = <<Byte("ResultCode"), ReadFailedMsg(1),
               Byte("TransactionErrorCode")>>
      /\ Len(e) = 3 /\ Len(d) = 3
  BY DEF BranchReportResponseCodec, Codec
<1> HIDE DEF e, d
<1>2. \A i \in 1 .. 3 : Matches(e[i], d[i])
  BY <1>1 DEF Matches, Kinds, Byte, FailedMsg, ReadFailedMsg, Item
<1>3. \A i, j \in 1 .. 3 : e[i].field = e[j].field => i = j
  BY <1>1 DEF Byte, FailedMsg, Item
<1>4. \A i \in 1 .. 3 :
        e[i].kind = "failedMsg" =>
          \E j \in 1 .. i - 1 : e[j].field = "ResultCode"
                                /\ e[j].kind = "unsigned"
  BY <1>1 DEF Byte, FailedMsg, Item
<1>5. LayoutsAgree(e, d)
  BY <1>1, <1>2, <1>3, <1>4 DEF LayoutsAgree
<1>6. Covers("BranchReportResponse", e)
  <2> DEFINE name == "BranchReportResponse"
  <2>1. Messages[name].fields =
          {"ResultCode", "Msg", "TransactionErrorCode"}
    BY ResponseFields DEF AbstractTransactionResponse
  <2>2. name \notin IdentifyResponse
    BY DEF IdentifyResponse
  <2>3. \A i \in 1 .. 3 : e[i].field \in Messages[name].fields
    BY <1>1, <2>1 DEF Byte, FailedMsg, Item
  <2>4. \A i \in 1 .. 3 : CarriesField(name, e[i])
    BY <1>1, <2>1, <2>2, FieldSets, ItemsCarry, MsgCarries DEF ShortMsg
  <2>5. \A f \in Messages[name].fields : \E i \in 1 .. 3 : e[i].field = f
    BY <1>1, <2>1 DEF Byte, FailedMsg, Item
  <2> QED
    BY <1>1, <2>2, <2>3, <2>4, <2>5 DEF Covers
<1> QED
  BY <1>5, <1>6 DEF e, d

\* Likewise the registration of a resource manager.
LEMMA RegisterRMRequests ==
  LET c == RegisterRMRequestCodec IN
  LayoutsAgree(c.encode, c.decode) /\ Covers("RegisterRMRequest", c.encode)
<1> DEFINE e == RegisterRMRequestCodec.encode
           d == RegisterRMRequestCodec.decode
<1>1. /\ e = <<String16("Version"), String16("ApplicationId"),
               String16("TransactionServiceGroup"), String16("ExtraData"),
               String32("ResourceIds")>>
      /\ d = <<String16("Version"), String16("ApplicationId"),
               String16("TransactionServiceGroup"), String16("ExtraData"),
               String32("ResourceIds")>>
      /\ Len(e) = 5 /\ Len(d) = 5
  BY DEF RegisterRMRequestCodec, Codec
<1> HIDE DEF e, d
<1>2. \A i \in 1 .. 5 : Matches(e[i], d[i])
  BY <1>1 DEF Matches, Kinds, String16, String32, Item
<1>3. \A i, j \in 1 .. 5 : e[i].field = e[j].field => i = j
  BY <1>1 DEF String16, String32, Item
<1>4. \A i \in 1 .. 5 :
        e[i].kind = "failedMsg" =>
          \E j \in 1 .. i - 1 : e[j].field = "ResultCode"
                                /\ e[j].kind = "unsigned"
  BY <1>1 DEF String16, String32, Item
<1>5. LayoutsAgree(e, d)
  BY <1>1, <1>2, <1>3, <1>4 DEF LayoutsAgree
<1>6. Covers("RegisterRMRequest", e)
  <2> DEFINE name == "RegisterRMRequest"
  <2>1. Messages[name].fields =
          {"Version", "ApplicationId", "TransactionServiceGroup", "ExtraData",
           "ResourceIds"}
    BY RequestFields DEF AbstractIdentifyRequest
  <2>2. name \notin IdentifyResponse
    BY DEF IdentifyResponse
  <2>3. \A i \in 1 .. 5 : e[i].field \in Messages[name].fields
    BY <1>1, <2>1 DEF String16, String32, Item
  <2>4. \A i \in 1 .. 5 : CarriesField(name, e[i])
    BY <1>1, <2>1, <2>2, FieldSets, ItemsCarry
  <2>5. \A f \in Messages[name].fields : \E i \in 1 .. 5 : e[i].field = f
    BY <1>1, <2>1 DEF String16, String32, Item
  <2> QED
    BY <1>1, <2>2, <2>3, <2>4, <2>5 DEF Covers
<1> QED
  BY <1>5, <1>6 DEF e, d

\* Likewise the responses to both registrations, of which only the
\* identification and the version travel.
LEMMA IdentifyResponses ==
  LET c == AbstractIdentifyResponseCodec IN
  /\ LayoutsAgree(c.encode, c.decode)
  /\ \A name \in {"RegisterTMResponse",
                    "RegisterRMResponse"} :
       Covers(name, c.encode)
<1> DEFINE e == AbstractIdentifyResponseCodec.encode
           d == AbstractIdentifyResponseCodec.decode
<1>1. /\ e = <<Flag(1, "Identified"), String16("Version")>>
      /\ d = <<Flag(1, "Identified"), String16("Version")>>
      /\ Len(e) = 2 /\ Len(d) = 2
  BY DEF AbstractIdentifyResponseCodec
<1> HIDE DEF e, d
<1>2. \A i \in 1 .. 2 : Matches(e[i], d[i])
  BY <1>1 DEF Matches, Kinds, String16, Flag, Item
<1>3. \A i, j \in 1 .. 2 : e[i].field = e[j].field => i = j
  BY <1>1 DEF String16, Flag, Item
<1>4. \A i \in 1 .. 2 :
        e[i].kind = "failedMsg" =>
          \E j \in 1 .. i - 1 : e[j].field = "ResultCode"
                                /\ e[j].kind = "unsigned"
  BY <1>1 DEF String16, Flag, Item
<1>5. LayoutsAgree(e, d)
  BY <1>1, <1>2, <1>3, <1>4 DEF LayoutsAgree
<1>6. ASSUME NEW name \in {"RegisterTMResponse",
                            "RegisterRMResponse"}
      PROVE  Covers(name, e)
  <2>1. Messages[name].fields =
          {"ResultCode", "Msg", "Version", "ExtraData", "Identified"}
    BY ResponseFields DEF AbstractIdentifyResponse
  <2>2. name \in IdentifyResponse
    BY DEF IdentifyResponse
  <2>3. \A i \in 1 .. 2 : e[i].field \in Messages[name].fields
    BY <1>1, <2>1 DEF String16, Flag, Item
  <2>4. \A i \in 1 .. 2 : CarriesField(name, e[i])
    BY <1>1, <2>1, <2>2, FieldSets, ItemsCarry DEF BooleanFields
  <2>5. \A i \in 1 .. 2 : e[i].field \in IdentifyFields
    BY <1>1 DEF IdentifyFields, String16, Flag, Item
  <2>6. \A f \in IdentifyFields : \E i \in 1 .. 2 : e[i].field = f
    BY <1>1 DEF IdentifyFields, String16, Flag, Item
  <2> QED
    BY <1>1, <2>2, <2>3, <2>4, <2>5, <2>6 DEF Covers
<1> QED
  BY <1>5, <1>6 DEF e, d

\* Likewise the registration of a transaction manager.
LEMMA IdentifyRequests ==
  LET c == AbstractIdentifyRequestCodec IN
  /\ LayoutsAgree(c.encode, c.decode)
  /\ \A name \in {"RegisterTMRequest"} :
       Covers(name, c.encode)
<1> DEFINE e == AbstractIdentifyRequestCodec.encode
           d == AbstractIdentifyRequestCodec.decode
<1>1. /\ e = <<String16("Version"), String16("ApplicationId"),
               String16("TransactionServiceGroup"), String16("ExtraData")>>
      /\ d = <<String16("Version"), String16("ApplicationId"),
               String16("TransactionServiceGroup"), String16("ExtraData")>>
      /\ Len(e) = 4 /\ Len(d) = 4
  BY DEF AbstractIdentifyRequestCodec
<1> HIDE DEF e, d
<1>2. \A i \in 1 .. 4 : Matches(e[i], d[i])
  BY <1>1 DEF Matches, Kinds, String16, Item
<1>3. \A i, j \in 1 .. 4 : e[i].field = e[j].field => i = j
  BY <1>1 DEF String16, Item
<1>4. \A i \in 1 .. 4 :
        e[i].kind = "failedMsg" =>
          \E j \in 1 .. i - 1 : e[j].field = "ResultCode"
                                /\ e[j].kind = "unsigned"
  BY <1>1 DEF String16, Item
<1>5. LayoutsAgree(e, d)
  BY <1>1, <1>2, <1>3, <1>4 DEF LayoutsAgree
<1>6. ASSUME NEW name \in {"RegisterTMRequest"}
      PROVE  Covers(name, e)
  <2>1. Messages[name].fields =
          {"Version", "ApplicationId", "TransactionServiceGroup", "ExtraData"}
    BY RequestFields DEF AbstractIdentifyRequest
  <2>2. name \notin IdentifyResponse
    BY DEF IdentifyResponse
  <2>3. \A i \in 1 .. 4 : e[i].field \in Messages[name].fields
    BY <1>1, <2>1 DEF String16, Item
  <2>4. \A i \in 1 .. 4 : CarriesField(name, e[i])
    BY <1>1, <2>1, <2>2, FieldSets, ItemsCarry
  <2>5. \A f \in Messages[name].fields : \E i \in 1 .. 4 : e[i].field = f
    BY <1>1, <2>1 DEF String16, Item
  <2> QED
    BY <1>1, <2>2, <2>3, <2>4, <2>5 DEF Covers
<1> QED
  BY <1>5, <1>6 DEF e, d

\* Every codec that Init registers.
LEMMA RegisteredWellMade ==
  \A i \in 1 .. Len(InitOrder) : WellMade(InitOrder[i])
<1>1. WellMade(GlobalReportResponseCodec)
  BY GlobalEndResponses, MessageNames, TypeCodes
     DEF WellMade,
         GlobalReportResponseCodec, Codec, Embedding, MessageType,
         ResponseNames
<1>2. WellMade(GlobalBeginRequestCodec)
  BY GlobalBeginRequests, MessageNames, TypeCodes
     DEF WellMade,
         GlobalBeginRequestCodec, Codec, MessageType, RequestNames
<1>3. WellMade(GlobalBeginResponseCodec)
  BY GlobalBeginResponses, MessageNames, TypeCodes
     DEF WellMade,
         GlobalBeginResponseCodec, Codec, MessageType, ResponseNames
<1>4. WellMade(GlobalCommitRequestCodec)
  BY GlobalEndRequests, MessageNames, TypeCodes
     DEF WellMade,
         GlobalCommitRequestCodec, Codec, Embedding, MessageType, RequestNames
<1>5. WellMade(GlobalCommitResponseCodec)
  BY GlobalEndResponses, MessageNames, TypeCodes
     DEF WellMade,
         GlobalCommitResponseCodec, Codec, Embedding, MessageType,
         ResponseNames
<1>6. WellMade(GlobalLockQueryRequestCodec)
  BY GlobalLockQueryRequests, MessageNames, TypeCodes
     DEF WellMade,
         GlobalLockQueryRequestCodec, Codec, MessageType, RequestNames
<1>7. WellMade(GlobalLockQueryResponseCodec)
  BY GlobalLockQueryResponses, MessageNames, TypeCodes
     DEF WellMade,
         GlobalLockQueryResponseCodec, Codec, MessageType, ResponseNames
<1>8. WellMade(GlobalRollbackRequestCodec)
  BY GlobalEndRequests, MessageNames, TypeCodes
     DEF WellMade,
         GlobalRollbackRequestCodec, Codec, Embedding, MessageType,
         RequestNames
<1>9. WellMade(GlobalRollbackResponseCodec)
  BY GlobalEndResponses, MessageNames, TypeCodes
     DEF WellMade,
         GlobalRollbackResponseCodec, Codec, Embedding, MessageType,
         ResponseNames
<1>10. WellMade(GlobalStatusRequestCodec)
  BY GlobalEndRequests, MessageNames, TypeCodes
     DEF WellMade,
         GlobalStatusRequestCodec, Codec, Embedding, MessageType, RequestNames
<1>11. WellMade(GlobalStatusResponseCodec)
  BY GlobalEndResponses, MessageNames, TypeCodes
     DEF WellMade,
         GlobalStatusResponseCodec, Codec, Embedding, MessageType,
         ResponseNames
<1>12. WellMade(BranchCommitRequestCodec)
  BY BranchCommitRequests, MessageNames, TypeCodes
     DEF WellMade,
         BranchCommitRequestCodec, Codec, MessageType, RequestNames
<1>13. WellMade(BranchCommitResponseCodec)
  BY BranchCommitResponses, MessageNames, TypeCodes
     DEF WellMade,
         BranchCommitResponseCodec, Codec, MessageType, ResponseNames
<1>14. WellMade(BranchRegisterRequestCodec)
  BY BranchRegisterRequests, MessageNames, TypeCodes
     DEF WellMade,
         BranchRegisterRequestCodec, Codec, MessageType, RequestNames
<1>15. WellMade(BranchRegisterResponseCodec)
  BY BranchRegisterResponses, MessageNames, TypeCodes
     DEF WellMade,
         BranchRegisterResponseCodec, Codec, MessageType, ResponseNames
<1>16. WellMade(BranchReportRequestCodec)
  BY BranchReportRequests, MessageNames, TypeCodes
     DEF WellMade,
         BranchReportRequestCodec, Codec, MessageType, RequestNames
<1>17. WellMade(BranchRollbackRequestCodec)
  BY BranchRollbackRequests, MessageNames, TypeCodes
     DEF WellMade,
         BranchRollbackRequestCodec, Codec, MessageType, RequestNames
<1>18. WellMade(BranchRollbackResponseCodec)
  BY BranchRollbackResponses, MessageNames, TypeCodes
     DEF WellMade,
         BranchRollbackResponseCodec, Codec, MessageType, ResponseNames
<1>19. WellMade(BranchReportResponseCodec)
  BY BranchReportResponses, MessageNames, TypeCodes
     DEF WellMade,
         BranchReportResponseCodec, Codec, MessageType, ResponseNames
<1>20. WellMade(RegisterRMRequestCodec)
  BY RegisterRMRequests, MessageNames, TypeCodes
     DEF WellMade,
         RegisterRMRequestCodec, Codec, MessageType, RequestNames
<1>21. WellMade(RegisterRMResponseCodec)
  BY IdentifyResponses, MessageNames, TypeCodes
     DEF WellMade,
         RegisterRMResponseCodec, Codec, Embedding, MessageType, ResponseNames
<1>22. WellMade(RegisterTMRequestCodec)
  BY IdentifyRequests, MessageNames, TypeCodes
     DEF WellMade,
         RegisterTMRequestCodec, Codec, Embedding, MessageType, RequestNames
<1>23. WellMade(RegisterTMResponseCodec)
  BY IdentifyResponses, MessageNames, TypeCodes
     DEF WellMade,
         RegisterTMResponseCodec, Codec, Embedding, MessageType, ResponseNames
<1> QED
  BY <1>1, <1>2, <1>3, <1>4, <1>5, <1>6, <1>7, <1>8, <1>9, <1>10, <1>11,
     <1>12, <1>13, <1>14, <1>15, <1>16, <1>17, <1>18, <1>19, <1>20, <1>21,
     <1>22, <1>23 DEF InitOrder
----------------------------------------------------------------------------
(* A message and the room it needs.                                        *)

\* A message as a caller passes it, or as a blank one.
IsMessage(m) ==
  /\ m.name \in DOMAIN Messages
  /\ m.value = [f \in Messages[m.name].fields |-> m.value[f]]
  /\ \A f \in Messages[m.name].fields : HasType(f, m.value[f])

\* Zero fits a signed integer of every width.
LEMMA ZeroFits ==
  ASSUME NEW w \in Nat \ {0}
  PROVE  FitsSigned(w, 0)
<1> DEFINE q == Quotients(w, 0)
           S == {i \in 0 .. w : q[i] = 0}
<1>1. q[0] = 0 /\ \A i \in 1 .. w : q[i] = q[i - 1] \div Octets
  BY QuotientsFacts
<1> HIDE DEF q
<1>2. 0 \in S
  BY <1>1
<1>3. ASSUME NEW k \in 0 .. w - 1, k \in S PROVE k + 1 \in S
  <2>1. q[k + 1] = q[k] \div Octets /\ q[k] = 0
    BY <1>1, <1>3
  <2> QED
    BY <2>1, OctetsAssumption
<1> HIDE DEF S
<1>4. \A k \in 0 .. w : k \in S
  BY <1>2, <1>3, RangeInduction
<1>5. q[w - 1] = 0
  BY <1>4 DEF S
<1> QED
  BY <1>5, OctetsAssumption DEF FitsSigned, q

\* A zero struct has the types its fields have.
LEMMA ZeroHasType ==
  ASSUME NEW name
  PROVE  \A f \in Messages[name].fields : HasType(f, Zero(name)[f])
<1> SUFFICES ASSUME NEW f \in Messages[name].fields
             PROVE  HasType(f, Zero(name)[f])
  OBVIOUS
<1>1. Zero(name)[f] = IF f \in StringFields THEN <<>>
                      ELSE IF f \in BooleanFields THEN FALSE ELSE 0
  BY DEF Zero
<1>2. FitsSigned(1, 0) /\ FitsSigned(LongWidth, 0)
  BY ZeroFits, SeataCodecAssumption
<1>3. 0 \in Octet /\ 0 \in Int /\ <<>> \in Seq(Octet)
  BY OctetsAssumption DEF Octet
<1>4. CASE f \in StringFields
  BY <1>1, <1>3, <1>4 DEF HasType, StringFields, BooleanFields
<1>5. CASE f \in BooleanFields
  BY <1>1, <1>5 DEF HasType, StringFields, BooleanFields
<1>6. CASE f \notin StringFields /\ f \notin BooleanFields
  BY <1>1, <1>2, <1>3, <1>6 DEF HasType
<1> QED
  BY <1>4, <1>5, <1>6

\* What is sent for a message, itself or a blank struct, is a message.
LEMMA MessageAsSent ==
  ASSUME NEW m \in Message
  PROVE  /\ IsMessage(AsSent(m)) /\ AsSent(m).name = m.name
         /\ ~BlankedByPointer(m) => AsSent(m) = m
         /\ BlankedByPointer(m) => AsSent(m).value = Zero(m.name)
<1>1. IsMessage(m)
  BY LinkAssumption DEF IsMessage
<1>2. CASE ~BlankedByPointer(m)
  BY <1>1, <1>2 DEF AsSent
<1>3. CASE BlankedByPointer(m)
  <2> DEFINE blank == [m EXCEPT !.value = Zero(m.name)]
  <2>1. blank.name = m.name /\ blank.value = Zero(m.name)
    BY LinkAssumption
  <2>2. Zero(m.name) = [f \in Messages[m.name].fields |-> Zero(m.name)[f]]
    BY DEF Zero
  <2>3. AsSent(m) = blank
    BY <1>3 DEF AsSent
  <2> HIDE DEF blank
  <2>4. IsMessage(blank)
    BY <1>1, <2>1, <2>2, ZeroHasType DEF IsMessage
  <2> QED
    BY <1>3, <2>1, <2>3, <2>4
<1> QED
  BY <1>2, <1>3

\* What is left of a number without one octet, and without two.
LEMMA QuotientsOfSmall ==
  ASSUME NEW n \in Int
  PROVE  /\ Quotients(1, n)[0] = n
         /\ Quotients(1, n)[1] = n \div Octets
         /\ Quotients(2, n)[0] = n
         /\ Quotients(2, n)[2] = (n \div Octets) \div Octets
<1>1. /\ Quotients(1, n)[0] = n
      /\ \A i \in 1 .. 1 :
           Quotients(1, n)[i] = Quotients(1, n)[i - 1] \div Octets
  BY QuotientsFacts
<1>2. /\ Quotients(2, n)[0] = n
      /\ \A i \in 1 .. 2 :
           Quotients(2, n)[i] = Quotients(2, n)[i - 1] \div Octets
  BY QuotientsFacts
<1>3. Quotients(1, n)[1] = n \div Octets
  BY <1>1
<1>4. Quotients(2, n)[1] = n \div Octets
  BY <1>2
<1>5. Quotients(2, n)[2] = (n \div Octets) \div Octets
  BY <1>2, <1>4
<1> QED
  BY <1>1, <1>2, <1>3, <1>5

\* An octet fits one octet.
LEMMA OctetFits ==
  ASSUME NEW n \in Octet
  PROVE  FitsUnsigned(1, n)
<1>1. n \in Int /\ n >= 0 /\ n \div Octets = 0
  BY OctetsAssumption DEF Octet
<1> QED
  BY <1>1, QuotientsOfSmall DEF FitsUnsigned

\* And the other way around.
LEMMA FitsOneOctet ==
  ASSUME NEW n \in Nat, FitsUnsigned(1, n)
  PROVE  n \in Octet
<1>1. n \div Octets = 0
  BY QuotientsOfSmall DEF FitsUnsigned
<1>2. n % Octets \in Octet /\ (n \div Octets) * Octets + (n % Octets) = n
  BY Division
<1>3. 0 * Octets + (n % Octets) = n
  BY <1>1, <1>2
<1>4. n % Octets = n
  BY <1>2, <1>3, OctetsAssumption DEF Octet
<1> QED
  BY <1>2, <1>4

\* Everything up to the largest int16 fits two octets.
LEMMA TwoOctetsFit ==
  ASSUME NEW n \in 0 .. MaxInt16
  PROVE  FitsUnsigned(2, n)
<1>1. n \in Int /\ n >= 0 /\ n < Octets * Octets
  BY OctetsAssumption DEF MaxInt16
<1>2. n \div Octets \in Int /\ 0 <= n \div Octets /\ n \div Octets < Octets
  BY <1>1, OctetsAssumption
<1>3. (n \div Octets) \div Octets = 0
  BY <1>2, OctetsAssumption
<1> QED
  BY <1>1, <1>3, QuotientsOfSmall DEF FitsUnsigned

\* The limits that Encode cuts Msg to.
LEMMA Limits ==
  /\ MaxInt8 \in Nat /\ MaxInt8 < Octets
  /\ MaxInt16 \in Nat /\ Octets - 1 <= MaxInt16
<1>1. MaxInt8 \in Nat /\ MaxInt8 < Octets
  BY OctetsAssumption DEF MaxInt8
<1>2. Octets * Octets \in Nat /\ 2 * Octets <= Octets * Octets
  BY OctetsAssumption
<1>3. (Octets * Octets) \div 2 >= Octets
  BY <1>2, OctetsAssumption
<1> QED
  BY <1>1, <1>2, <1>3, OctetsAssumption DEF MaxInt16

\* Cut leaves at most max octets, and short strings alone.
LEMMA CutFacts ==
  ASSUME NEW s \in Seq(Octet), NEW max \in Nat
  PROVE  /\ Cut(s, max) \in Seq(Octet)
         /\ Len(Cut(s, max)) \in 0 .. max
         /\ Len(s) <= max => Cut(s, max) = s
<1>1. CASE Len(s) > max
  <2>1. \A i \in 1 .. max : s[i] \in Octet
    BY <1>1
  <2>2. SubSeq(s, 1, max) \in Seq(Octet) /\ Len(SubSeq(s, 1, max)) = max
    BY <2>1, SubSeqProperties
  <2> QED
    BY <1>1, <2>2 DEF Cut
<1>2. CASE ~(Len(s) > max)
  BY <1>2 DEF Cut
<1> QED
  BY <1>1, <1>2

\* Go's division gives whole milliseconds, and no more than there were.
LEMMA MillisecondsFacts ==
  ASSUME NEW t \in Int
  PROVE  /\ Quotient(t, Millisecond) \in Int
         /\ t \div Millisecond >= 0 => t >= 0
         /\ t >= 0 => /\ Quotient(t, Millisecond) = t \div Millisecond
                      /\ Quotient(t, Millisecond) \in Nat
                      /\ Quotient(t, Millisecond) * Millisecond =
                           t - (t % Millisecond)
                      /\ Quotient(t, Millisecond) * Millisecond <= t
<1>1. Millisecond \in Nat \ {0}
  BY SeataCodecAssumption
<1>2. /\ t \div Millisecond \in Int
      /\ (t \div Millisecond) * Millisecond + (t % Millisecond) = t
      /\ 0 <= t % Millisecond /\ t % Millisecond < Millisecond
      /\ t % Millisecond \in Int
  BY <1>1
<1>3. t \div Millisecond >= 0 <=> t >= 0
  BY <1>1
<1>4. (-t) \div Millisecond \in Int
  BY <1>1
<1> QED
  BY <1>1, <1>2, <1>3, <1>4 DEF Quotient

----------------------------------------------------------------------------
(* One codec.                                                              *)

\* A field has the type its item is for.
LEMMA ItemHasKind ==
  ASSUME NEW m, IsMessage(m),
         NEW x, x.kind \in Kinds, x.field \in Messages[m.name].fields,
         CarriesField(m.name, x)
  PROVE  HasKind(m.value, x)
<1> DEFINE v == m.value[x.field]
<1>1. HasType(x.field, v)
  BY DEF IsMessage
<1>2. CASE x.kind \in {"unsigned", "signed"}
  <2>1. x.field \in {"ResultCode", "GlobalStatus", "TransactionErrorCode",
                     "BranchType", "BranchStatus", "Status", "BranchId"}
    BY <1>2 DEF CarriesField
  <2>2. \A o \in Octet : o \in Int
    BY OctetsAssumption DEF Octet
  <2>3. v \in Int
    BY <1>1, <2>1, <2>2 DEF HasType
  <2> QED
    BY <1>2, <2>3 DEF HasKind
<1>3. CASE x.kind = "string"
  <2>1. x.field \in StringFields
    BY <1>3, FieldSets DEF CarriesField, StringFields
  <2> QED
    BY <1>1, <1>3, <2>1 DEF HasType, HasKind
<1>4. CASE x.kind = "flag"
  <2>1. x.field \in BooleanFields
    BY <1>4 DEF CarriesField
  <2> QED
    BY <1>1, <1>4, <2>1 DEF HasType, HasKind
<1>5. CASE x.kind = "millis"
  <2>1. x.field = "Timeout"
    BY <1>5 DEF CarriesField
  <2>2. Quotient(v, Millisecond) \in Int
    BY <1>1, <2>1, MillisecondsFacts DEF HasType
  <2> QED
    BY <1>5, <2>2 DEF HasKind
<1>6. CASE x.kind = "failedMsg"
  <2>1. x.field = "Msg" /\ x.max \in Nat
    BY <1>6, Limits DEF CarriesField
  <2>2. v \in Seq(Octet)
    BY <1>1, <2>1 DEF HasType, StringFields
  <2>3. Cut(v, x.max) \in Seq(Octet)
    BY <2>1, <2>2, CutFacts
  <2> QED
    BY <1>6, <2>3 DEF HasKind
<1> QED
  BY <1>2, <1>3, <1>4, <1>5, <1>6 DEF Kinds

\* An item has room for the field of a message that fits.
LEMMA ItemHasRoom ==
  ASSUME NEW m, IsMessage(m), Fits(m),
         NEW x, x.kind \in Kinds, x.field \in Messages[m.name].fields,
         CarriesField(m.name, x)
  PROVE  HasRoom(m.value, x)
<1> DEFINE v == m.value[x.field]
<1>1. HasType(x.field, v) /\ x.field \in DOMAIN m.value
  BY DEF IsMessage
<1>0. HasKind(m.value, x)
  BY ItemHasKind
<1>2. CASE x.kind = "unsigned"
  <2>1. /\ x.width = 1
        /\ x.field \in {"ResultCode", "GlobalStatus", "TransactionErrorCode"}
    BY <1>2 DEF CarriesField
  <2>2. v \in Int /\ FitsUnsigned(1, v)
    <3>1. CASE x.field = "TransactionErrorCode"
      BY <1>1, <3>1 DEF HasType, Fits
    <3>2. CASE x.field # "TransactionErrorCode"
      <4>1. v \in Octet
        BY <1>1, <2>1, <3>2 DEF HasType
      <4> QED
        BY <4>1, OctetFits DEF Octet
    <3> QED
      BY <3>1, <3>2
  <2> QED
    BY <1>2, <2>1, <2>2 DEF HasRoom, HasKind
<1>3. CASE x.kind = "signed"
  <2>1. v \in Int /\ FitsSigned(x.width, v)
    BY <1>1, <1>3 DEF CarriesField, HasType
  <2> QED
    BY <1>3, <2>1 DEF HasRoom, HasKind
<1>4. CASE x.kind = "string"
  <2>1. \/ x.width = 2 /\ x.field \in Names
        \/ x.width = 4 /\ x.field \in FreeText
    BY <1>4 DEF CarriesField
  <2>2. x.field \in StringFields
    BY <2>1, FieldSets DEF StringFields
  <2>3. v \in Seq(Octet) /\ FitsUnsigned(x.width, Len(v))
    BY <1>1, <2>1, <2>2 DEF HasType, Fits
  <2> QED
    BY <1>4, <2>3 DEF HasRoom, HasKind
<1>5. CASE x.kind = "flag"
  <2>1. v \in BOOLEAN
    BY <1>1, <1>5 DEF CarriesField, HasType
  <2> QED
    BY <1>5, <2>1 DEF HasRoom, HasKind
<1>6. CASE x.kind = "millis"
  <2>1. x.width = 4 /\ x.field = "Timeout"
    BY <1>6 DEF CarriesField
  <2>2. v \in Int
    BY <1>1, <2>1 DEF HasType
  <2>3. FitsUnsigned(4, v \div Millisecond)
    BY <1>1, <2>1 DEF Fits
  <2>4. v \div Millisecond >= 0
    BY <2>3 DEF FitsUnsigned
  <2>5. /\ Quotient(v, Millisecond) \in Int
        /\ Quotient(v, Millisecond) = v \div Millisecond
    BY <2>2, <2>4, MillisecondsFacts
  <2> QED
    BY <1>6, <2>1, <2>3, <2>5 DEF HasRoom, HasKind
<1>7. CASE x.kind = "failedMsg" /\ m.value.ResultCode = ResultCodeFailed
  <2>1. /\ x.field = "Msg"
        /\ \/ x.width = 2 /\ x.max = MaxInt16
           \/ x.width = 1 /\ x.max = MaxInt8
           \/ x.width = 1 /\ x.max = MaxInt16
              /\ m.name = "BranchRollbackResponse"
    BY <1>7 DEF CarriesField
  <2>2. v \in Seq(Octet)
    BY <1>1, <2>1 DEF HasType, StringFields
  <2> DEFINE s == Cut(v, x.max)
  <2>3. /\ s \in Seq(Octet) /\ Len(s) \in 0 .. x.max
        /\ Len(v) <= x.max => s = v
    BY <2>1, <2>2, Limits, CutFacts
  <2> HIDE DEF s
  <2>4. FitsUnsigned(x.width, Len(s))
    <3>1. CASE x.width = 2 /\ x.max = MaxInt16
      BY <2>3, <3>1, TwoOctetsFit
    <3>2. CASE x.width = 1 /\ x.max = MaxInt8
      <4>1. Len(s) \in Octet
        BY <2>3, <3>2, Limits, OctetsAssumption DEF Octet
      <4> QED
        BY <3>2, <4>1, OctetFits
    <3>3. CASE x.width = 1 /\ x.max = MaxInt16
               /\ m.name = "BranchRollbackResponse"
      <4>1. FitsUnsigned(1, Len(v))
        BY <1>7, <2>1, <3>3 DEF Fits
      <4>2. Len(v) \in Octet
        BY <2>2, <4>1, FitsOneOctet
      <4>3. Len(v) <= Octets - 1
        BY <4>2, OctetsAssumption DEF Octet
      <4>4. s = v
        BY <2>2, <2>3, <3>3, <4>3, Limits, OctetsAssumption
      <4> QED
        BY <3>3, <4>1, <4>4
    <3> QED
      BY <2>1, <3>1, <3>2, <3>3
  <2> QED
    BY <1>7, <2>3, <2>4 DEF HasRoom, HasKind, s
<1>8. CASE x.kind = "failedMsg" /\ m.value.ResultCode # ResultCodeFailed
  BY <1>0, <1>8 DEF HasRoom, HasKind
<1> QED
  BY <1>2, <1>3, <1>4, <1>5, <1>6, <1>7, <1>8 DEF Kinds

\* What the protocol means to carry of each field.
LEMMA MeaningFacts ==
  ASSUME NEW m, IsMessage(m)
  PROVE  /\ Meaning(m) = [f \in Messages[m.name].fields |-> Meaning(m)[f]]
         /\ \A f \in Messages[m.name].fields :
              /\ m.name \in IdentifyResponse /\ f \notin IdentifyFields
                   => Meaning(m)[f] = Zero(m.name)[f]
              /\ m.name \in IdentifyResponse /\ f \in IdentifyFields
                   => Meaning(m)[f] = m.value[f]
              /\ m.name \notin IdentifyResponse /\ f = "Msg"
                   => Meaning(m)[f] = MeantMsg(m)
              /\ m.name \notin IdentifyResponse /\ f = "Timeout"
                   => Meaning(m)[f] = m.value[f] - (m.value[f] % Millisecond)
              /\ m.name \notin IdentifyResponse /\ f \notin {"Msg", "Timeout"}
                   => Meaning(m)[f] = m.value[f]
<1>1. DOMAIN m.value = Messages[m.name].fields
  BY DEF IsMessage
<1>2. Meaning(m) = [f \in Messages[m.name].fields |-> Meaning(m)[f]]
  BY <1>1 DEF Meaning
<1>3. \A f \in Messages[m.name].fields :
        Meaning(m)[f] =
          CASE m.name \in IdentifyResponse /\ f \notin {"Identified", "Version"} ->
                 Zero(m.name)[f]
            [] m.name \notin IdentifyResponse /\ f = "Msg" -> MeantMsg(m)
            [] f = "Timeout" -> m.value[f] - (m.value[f] % Millisecond)
            [] OTHER -> m.value[f]
  BY <1>1 DEF Meaning
<1>4. m.name \in IdentifyResponse => "Timeout" \notin Messages[m.name].fields
  BY ResponseFields DEF IdentifyResponse, AbstractIdentifyResponse
<1> QED
  BY <1>2, <1>3, <1>4 DEF IdentifyFields

\* What an item carries is what the protocol means.
LEMMA ItemMeans ==
  ASSUME NEW m, IsMessage(m), Fits(m),
         NEW x, x.kind \in Kinds, x.field \in Messages[m.name].fields,
         CarriesField(m.name, x),
         m.name \in IdentifyResponse => x.field \in IdentifyFields
  PROVE  /\ Written(m.value, x) =>
              Carried(m.value, x) = Meaning(m)[x.field]
         /\ ~Written(m.value, x) =>
              Zero(m.name)[x.field] = Meaning(m)[x.field]
<1> DEFINE v == m.value[x.field]
<1>1. HasType(x.field, v) /\ x.field \in DOMAIN m.value
  BY DEF IsMessage
<1>2. CASE x.kind \in {"unsigned", "signed", "string", "flag"}
  <2>1. x.field \notin {"Msg", "Timeout"}
    BY <1>2, FieldSets DEF CarriesField, BooleanFields
  <2>2. Meaning(m)[x.field] = v
    BY <2>1, MeaningFacts
  <2>3. Written(m.value, x) /\ Carried(m.value, x) = v
    BY <1>2 DEF Written, Carried
  <2> QED
    BY <2>2, <2>3
<1>3. CASE x.kind = "millis"
  <2>1. x.field = "Timeout"
    BY <1>3 DEF CarriesField
  <2>2. v \in Int
    BY <1>1, <2>1 DEF HasType
  <2>3. v \div Millisecond >= 0
    BY <1>1, <2>1 DEF Fits, FitsUnsigned
  <2>4. Quotient(v, Millisecond) * Millisecond = v - (v % Millisecond)
    BY <2>2, <2>3, MillisecondsFacts
  <2>5. m.name \notin IdentifyResponse
    BY <2>1 DEF IdentifyFields
  <2>6. Meaning(m)[x.field] = v - (v % Millisecond)
    BY <2>1, <2>5, MeaningFacts
  <2>7. Written(m.value, x)
        /\ Carried(m.value, x) = Quotient(v, Millisecond) * Millisecond
    BY <1>3 DEF Written, Carried
  <2> QED
    BY <2>4, <2>6, <2>7
<1>4. CASE x.kind = "failedMsg"
  <2>1. /\ x.field = "Msg" /\ m.name \notin IdentifyResponse
        /\ \/ x.max = MaxInt16 /\ m.name \notin ShortMsg
           \/ x.max = MaxInt8 /\ m.name \in ShortMsg
              /\ m.name # "BranchRollbackResponse"
           \/ x.max = MaxInt16 /\ m.name = "BranchRollbackResponse"
    BY <1>4 DEF CarriesField
  <2>2. Meaning(m)[x.field] = MeantMsg(m)
    BY <2>1, MeaningFacts
  <2>3. CASE m.value.ResultCode # ResultCodeFailed
    <3>1. ~Written(m.value, x) /\ MeantMsg(m) = <<>>
      BY <1>4, <2>3 DEF Written, MeantMsg
    <3>2. Zero(m.name)[x.field] = <<>>
      BY <2>1 DEF Zero, StringFields
    <3> QED
      BY <2>2, <3>1, <3>2
  <2>4. CASE m.value.ResultCode = ResultCodeFailed
    <3>1. Written(m.value, x) /\ Carried(m.value, x) = Cut(v, x.max)
      BY <1>4, <2>4 DEF Written, Carried
    <3>2. Cut(v, x.max) = MeantMsg(m)
      <4>1. CASE m.name # "BranchRollbackResponse"
        BY <2>1, <2>4, <4>1 DEF MeantMsg
      <4>2. CASE m.name = "BranchRollbackResponse"
        <5>1. v \in Seq(Octet)
          BY <1>1, <2>1 DEF HasType, StringFields
        <5>2. FitsUnsigned(1, Len(v))
          BY <2>1, <2>4, <4>2 DEF Fits
        <5>3. Len(v) \in Octet
          BY <5>1, <5>2, FitsOneOctet
        <5>4. Len(v) <= MaxInt16
          BY <5>1, <5>3, Limits, OctetsAssumption DEF Octet
        <5>5. Cut(v, MaxInt16) = v
          BY <5>1, <5>4, Limits, CutFacts
        <5>6. x.max = MaxInt16
          BY <2>1, <4>2 DEF ShortMsg
        <5> QED
          BY <2>1, <2>4, <4>2, <5>5, <5>6 DEF MeantMsg
      <4> QED
        BY <4>1, <4>2
    <3> QED
      BY <2>2, <3>1, <3>2
  <2> QED
    BY <2>3, <2>4
<1> QED
  BY <1>2, <1>3, <1>4 DEF Kinds

\* Encode writes octets, whether the message fits or not.
LEMMA BodyIsOctets ==
  ASSUME NEW c, WellMade(c), NEW m, IsMessage(m), m.name = c.message
  PROVE  EncodeBody(c.encode, m.value) \in Seq(Octet)
<1> DEFINE e == c.encode
           v == m.value
<1>1. /\ Len(e) \in Nat
      /\ \A i \in 1 .. Len(e) :
           /\ e[i].kind \in Kinds /\ e[i].width \in Nat \ {0}
           /\ e[i].field \in Messages[m.name].fields
           /\ CarriesField(m.name, e[i])
  BY DEF WellMade, Covers, LayoutsAgree, Matches
<1> HIDE DEF e
<1>2. \A i \in 1 .. Len(e) : EncodeItem(v, e[i]) \in Seq(Octet)
  BY <1>1, ItemHasKind, EncodeItemType
<1> HIDE DEF v
<1>3. PICK body : IsBody(body, e, v) /\ EncodeBody(e, v) = body[Len(e)]
  BY <1>1, <1>2, EncodeBodyFacts
<1>4. Len(e) \in 0 .. Len(e) /\ body \in [0 .. Len(e) -> Seq(Octet)]
  BY <1>1, <1>3 DEF IsBody
<1> QED
  BY <1>3, <1>4 DEF e, v

\* What Decode makes of the body Encode wrote.
LEMMA CodecCarries ==
  ASSUME NEW c, WellMade(c), NEW m, IsMessage(m), Fits(m), m.name = c.message
  PROVE  DecodeBody(c.decode, Zero(c.message), EncodeBody(c.encode, m.value)) =
           Reader(<<>>, Meaning(m))
<1> DEFINE e == c.encode
           v == m.value
           zero == Zero(c.message)
<1>1. /\ LayoutsAgree(e, c.decode) /\ Len(e) \in Nat
      /\ \A i \in 1 .. Len(e) :
           /\ e[i].kind \in Kinds /\ e[i].width \in Nat \ {0}
           /\ e[i].field \in Messages[m.name].fields
           /\ CarriesField(m.name, e[i])
           /\ m.name \in IdentifyResponse => e[i].field \in IdentifyFields
      /\ \A f \in Messages[m.name].fields :
           \/ m.name \in IdentifyResponse /\ f \notin IdentifyFields
           \/ \E i \in 1 .. Len(e) : e[i].field = f
  BY DEF WellMade, Covers, LayoutsAgree, Matches
<1>2. zero = [f \in Messages[m.name].fields |-> zero[f]]
  BY DEF Zero
<1> HIDE DEF e, v, zero
<1>3. \A i \in 1 .. Len(e) : HasRoom(v, e[i])
  BY <1>1, ItemHasRoom DEF v
<1>5. PICK msg : /\ DecodeBody(c.decode, zero, EncodeBody(e, v)) = Reader(<<>>, msg)
                 /\ IsFilled(msg, Len(e), e, v, zero)
  <2>1. DOMAIN zero = Messages[m.name].fields
    BY <1>2
  <2>2. zero = [f \in DOMAIN zero |-> zero[f]]
    BY <1>2, <2>1
  <2>3. \A i \in 1 .. Len(e) : e[i].field \in DOMAIN zero
    BY <1>1, <2>1
  <2> QED
    BY <1>1, <1>3, <2>2, <2>3, LayoutRoundTrip
<1>6. ASSUME NEW f \in Messages[m.name].fields PROVE msg[f] = Meaning(m)[f]
  <2>1. CASE \E i \in 1 .. Len(e) : e[i].field = f
    <3>1. PICK i \in 1 .. Len(e) : e[i].field = f
      BY <2>1
    <3>2. /\ Written(v, e[i]) => Carried(v, e[i]) = Meaning(m)[f]
          /\ ~Written(v, e[i]) => zero[f] = Meaning(m)[f]
      <4>1. /\ Written(m.value, e[i]) =>
                 Carried(m.value, e[i]) = Meaning(m)[e[i].field]
            /\ ~Written(m.value, e[i]) =>
                 Zero(m.name)[e[i].field] = Meaning(m)[e[i].field]
        BY <1>1, ItemMeans
      <4>2. zero = Zero(m.name)
        BY DEF zero
      <4> QED
        BY <3>1, <4>1, <4>2 DEF v
    <3>3. Written(v, e[i]) => msg[f] = Carried(v, e[i])
      BY <1>5, <3>1 DEF IsFilled
    <3>4. \A j \in 1 .. Len(e) : e[j].field = f => j = i
      BY <1>1, <3>1 DEF LayoutsAgree
    <3>5. ~Written(v, e[i]) => msg[f] = zero[f]
      BY <1>2, <1>5, <3>4 DEF IsFilled
    <3> QED
      BY <3>2, <3>3, <3>5
  <2>2. CASE \A i \in 1 .. Len(e) : e[i].field # f
    <3>1. msg[f] = zero[f]
      BY <1>2, <1>5, <2>2 DEF IsFilled
    <3>2. m.name \in IdentifyResponse /\ f \notin IdentifyFields
      BY <1>1, <2>2
    <3>3. Meaning(m)[f] = zero[f]
      BY <3>2, MeaningFacts DEF zero
    <3> QED
      BY <3>1, <3>3
  <2> QED
    BY <2>1, <2>2
<1>7. msg = Meaning(m)
  <2>1. msg = [f \in Messages[m.name].fields |-> msg[f]]
    BY <1>2, <1>5 DEF IsFilled
  <2>2. Meaning(m) = [f \in Messages[m.name].fields |-> Meaning(m)[f]]
    BY MeaningFacts
  <2> QED
    BY <1>6, <2>1, <2>2
<1> QED
  BY <1>5, <1>7 DEF e, v, zero

----------------------------------------------------------------------------
(* The registrations.                                                      *)

\* What the program registers itself is as well made as what Init does, and
\* takes no type code away from another codec.
ExtraAgrees ==
  /\ \A i \in DOMAIN Extra : WellMade(Extra[i])
  /\ \A i \in DOMAIN Extra : \A j \in 1 .. Len(Registrations) :
       Extra[i].messageType = Registrations[j].messageType
         => Extra[i] = Registrations[j]

\* It holds when the program registers nothing, as in this repository.
LEMMA NothingExtraAgrees ==
  ASSUME Extra = <<>>
  PROVE  ExtraAgrees
  BY DEF ExtraAgrees

\* The messages of the codecs Init registers, one by one.
LEMMA InitOrderMessages ==
  \A i, j \in 1 .. Len(InitOrder) :
    InitOrder[i].message = InitOrder[j].message => i = j
<1>1. InitOrder[1].message = "GlobalReportResponse"
  BY DEF InitOrder, GlobalReportResponseCodec, Codec, Embedding
<1>2. InitOrder[2].message = "GlobalBeginRequest"
  BY DEF InitOrder, GlobalBeginRequestCodec, Codec
<1>3. InitOrder[3].message = "GlobalBeginResponse"
  BY DEF InitOrder, GlobalBeginResponseCodec, Codec
<1>4. InitOrder[4].message = "GlobalCommitRequest"
  BY DEF InitOrder, GlobalCommitRequestCodec, Codec, Embedding
<1>5. InitOrder[5].message = "GlobalCommitResponse"
  BY DEF InitOrder, GlobalCommitResponseCodec, Codec, Embedding
<1>6. InitOrder[6].message = "GlobalLockQueryRequest"
  BY DEF InitOrder, GlobalLockQueryRequestCodec, Codec
<1>7. InitOrder[7].message = "GlobalLockQueryResponse"
  BY DEF InitOrder, GlobalLockQueryResponseCodec, Codec
<1>8. InitOrder[8].message = "GlobalRollbackRequest"
  BY DEF InitOrder, GlobalRollbackRequestCodec, Codec, Embedding
<1>9. InitOrder[9].message = "GlobalRollbackResponse"
  BY DEF InitOrder, GlobalRollbackResponseCodec, Codec, Embedding
<1>10. InitOrder[10].message = "GlobalStatusRequest"
  BY DEF InitOrder, GlobalStatusRequestCodec, Codec, Embedding
<1>11. InitOrder[11].message = "GlobalStatusResponse"
  BY DEF InitOrder, GlobalStatusResponseCodec, Codec, Embedding
<1>12. InitOrder[12].message = "BranchCommitRequest"
  BY DEF InitOrder, BranchCommitRequestCodec, Codec
<1>13. InitOrder[13].message = "BranchCommitResponse"
  BY DEF InitOrder, BranchCommitResponseCodec, Codec
<1>14. InitOrder[14].message = "BranchRegisterRequest"
  BY DEF InitOrder, BranchRegisterRequestCodec, Codec
<1>15. InitOrder[15].message = "BranchRegisterResponse"
  BY DEF InitOrder, BranchRegisterResponseCodec, Codec
<1>16. InitOrder[16].message = "BranchReportRequest"
  BY DEF InitOrder, BranchReportRequestCodec, Codec
<1>17. InitOrder[17].message = "BranchRollbackRequest"
  BY DEF InitOrder, BranchRollbackRequestCodec, Codec
<1>18. InitOrder[18].message = "BranchRollbackResponse"
  BY DEF InitOrder, BranchRollbackResponseCodec, Codec
<1>19. InitOrder[19].message = "BranchReportResponse"
  BY DEF InitOrder, BranchReportResponseCodec, Codec
<1>20. InitOrder[20].message = "RegisterRMRequest"
  BY DEF InitOrder, RegisterRMRequestCodec, Codec
<1>21. InitOrder[21].message = "RegisterRMResponse"
  BY DEF InitOrder, RegisterRMResponseCodec, Codec, Embedding
<1>22. InitOrder[22].message = "RegisterTMRequest"
  BY DEF InitOrder, RegisterTMRequestCodec, Codec, Embedding
<1>23. InitOrder[23].message = "RegisterTMResponse"
  BY DEF InitOrder, RegisterTMResponseCodec, Codec, Embedding
<1>24. Len(InitOrder) = 23
  BY DEF InitOrder
<1> QED
  BY <1>1, <1>2, <1>3, <1>4, <1>5, <1>6, <1>7, <1>8, <1>9, <1>10, <1>11,
     <1>12, <1>13, <1>14, <1>15, <1>16, <1>17, <1>18, <1>19, <1>20, <1>21,
     <1>22, <1>23, <1>24

\* The registrations are Init's and then the program's own.
LEMMA RegistrationsFacts ==
  LET n == Len(InitOrder)
      k == Len(Extra) IN
  /\ n \in Nat /\ n >= 2 /\ k \in Nat /\ DOMAIN Extra = 1 .. k
  /\ Len(Registrations) = n + k
  /\ \A i \in 1 .. n + k :
       Registrations[i] = IF i <= n THEN InitOrder[i] ELSE Extra[i - n]
<1> DEFINE S == {InitOrder[i] : i \in 1 .. Len(InitOrder)}
                  \cup {Extra[i] : i \in DOMAIN Extra}
<1>1. Len(InitOrder) = 23 /\ InitOrder \in Seq(S) /\ Extra \in Seq(S)
  <2>1. Len(InitOrder) = 23 /\ InitOrder \in Seq({InitOrder[i] : i \in 1 .. 23})
    BY DEF InitOrder
  <2>2. Extra \in Seq({Extra[i] : i \in DOMAIN Extra})
    BY LinkAssumption
  <2>3. InitOrder \in Seq(S)
    <3>1. {InitOrder[i] : i \in 1 .. 23} \subseteq S
      BY <2>1
    <3> HIDE DEF S
    <3> QED
      BY <2>1, <3>1
  <2>4. Extra \in Seq(S)
    <3>1. {Extra[i] : i \in DOMAIN Extra} \subseteq S
      OBVIOUS
    <3> HIDE DEF S
    <3> QED
      BY <2>2, <3>1
  <2> QED
    BY <2>1, <2>3, <2>4
<1> HIDE DEF S
<1>2. /\ Len(InitOrder \o Extra) = Len(InitOrder) + Len(Extra)
      /\ \A i \in 1 .. Len(InitOrder) + Len(Extra) :
           (InitOrder \o Extra)[i] =
             IF i <= Len(InitOrder) THEN InitOrder[i]
             ELSE Extra[i - Len(InitOrder)]
  BY <1>1, ConcatProperties
<1>3. Len(Extra) \in Nat /\ DOMAIN Extra = 1 .. Len(Extra)
  BY <1>1
<1> QED
  BY <1>1, <1>2, <1>3 DEF Registrations

\* All of them are well made, when the program's own are.
LEMMA RegistrationsAgree ==
  ASSUME ExtraAgrees
  PROVE  /\ Len(Registrations) \in Nat
         /\ \A i \in 1 .. Len(Registrations) : WellMade(Registrations[i])
         /\ \A i, j \in 1 .. Len(Registrations) :
              Registrations[i].messageType = Registrations[j].messageType
                => Registrations[i] = Registrations[j]
<1> DEFINE n == Len(InitOrder)
           k == Len(Extra)
<1>2. /\ Len(Registrations) = n + k /\ n \in Nat /\ k \in Nat
      /\ \A i \in 1 .. n + k :
           Registrations[i] = IF i <= n THEN InitOrder[i] ELSE Extra[i - n]
      /\ DOMAIN Extra = 1 .. k
  BY RegistrationsFacts
<1> HIDE DEF n, k
<1>3. ASSUME NEW i \in 1 .. n + k, ~(i <= n)
      PROVE  i - n \in DOMAIN Extra /\ Registrations[i] = Extra[i - n]
  BY <1>2, <1>3
<1>4. ASSUME NEW i \in 1 .. n + k, i <= n
      PROVE  i \in 1 .. n /\ Registrations[i] = InitOrder[i]
             /\ WellMade(InitOrder[i])
  BY <1>2, <1>4, RegisteredWellMade DEF n
<1>5. \A i \in 1 .. n + k : WellMade(Registrations[i])
  BY <1>3, <1>4 DEF ExtraAgrees
<1>6. ASSUME NEW i \in 1 .. n + k, NEW j \in 1 .. n + k,
             Registrations[i].messageType = Registrations[j].messageType
      PROVE  Registrations[i] = Registrations[j]
  <2>0. i \in 1 .. Len(Registrations) /\ j \in 1 .. Len(Registrations)
    BY <1>2
  <2>1. CASE ~(i <= n)
    <3>1. i - n \in DOMAIN Extra /\ Registrations[i] = Extra[i - n]
      BY <1>3, <2>1
    <3> QED
      BY <1>6, <2>0, <3>1 DEF ExtraAgrees
  <2>2. CASE ~(j <= n)
    <3>1. j - n \in DOMAIN Extra /\ Registrations[j] = Extra[j - n]
      BY <1>3, <2>2
    <3> QED
      BY <1>6, <2>0, <3>1 DEF ExtraAgrees
  <2>3. CASE i <= n /\ j <= n
    <3>1. InitOrder[i].message = InitOrder[j].message
      BY <1>4, <1>6, <2>3, TypeCodesDistinct DEF WellMade
    <3>2. i = j
      BY <1>4, <2>3, <3>1, InitOrderMessages DEF n
    <3> QED
      BY <3>2
  <2> QED
    BY <2>1, <2>2, <2>3
<1> QED
  BY <1>2, <1>5, <1>6

\* The latest of some registrations.
LEMMA LatestExists ==
  ASSUME NEW k \in Nat, NEW at, at \subseteq 1 .. k, at # {}
  PROVE  \E i \in at : \A j \in at : j <= i
<1> DEFINE HasLatest(s) == \E i \in s : \A j \in s : j <= i
           S == {n \in 0 .. k : at \cap 1 .. n # {} => HasLatest(at \cap 1 .. n)}
<1>1. 0 \in S
  OBVIOUS
<1>2. ASSUME NEW n \in 0 .. k - 1, n \in S PROVE n + 1 \in S
  <2>1. CASE n + 1 \in at
    <3>1. \A j \in at \cap 1 .. n + 1 : j <= n + 1
      OBVIOUS
    <3>2. HasLatest(at \cap 1 .. n + 1)
      BY <2>1, <3>1
    <3> QED
      BY <3>2
  <2>2. CASE n + 1 \notin at
    <3>1. at \cap 1 .. n + 1 = at \cap 1 .. n
      BY <2>2
    <3> QED
      BY <1>2, <3>1
  <2> QED
    BY <2>1, <2>2
<1> HIDE DEF S
<1>3. \A n \in 0 .. k : n \in S
  BY <1>1, <1>2, RangeInduction
<1>4. k \in S
  BY <1>3
<1>5. at \cap 1 .. k = at
  OBVIOUS
<1> QED
  BY <1>4, <1>5 DEF S

\* The codec found under a type code is the one every registration of it gives.
LEMMA GetCodecFacts ==
  ASSUME ExtraAgrees, NEW k \in 0 .. Len(Registrations), NEW code,
         GetCodec(k, code) # NIL
  PROVE  /\ WellMade(GetCodec(k, code))
         /\ GetCodec(k, code).messageType = code
         /\ \E i \in 1 .. k : Registrations[i].messageType = code
         /\ \A i \in 1 .. Len(Registrations) :
              Registrations[i].messageType = code
                => Registrations[i] = GetCodec(k, code)
<1> DEFINE at == {i \in 1 .. k : Registrations[i].messageType = code}
           latest == CHOOSE i \in at : \A j \in at : j <= i
<1>1. at # {} /\ GetCodec(k, code) = Registrations[latest]
  BY DEF GetCodec
<1>2. k \in Nat /\ at \subseteq 1 .. k /\ 1 .. k \subseteq 1 .. Len(Registrations)
  BY RegistrationsAgree
<1> HIDE DEF at
<1>3. latest \in at
  BY <1>1, <1>2, LatestExists
<1> HIDE DEF latest
<1>4. latest \in 1 .. k /\ latest \in 1 .. Len(Registrations)
      /\ Registrations[latest].messageType = code
  BY <1>2, <1>3 DEF at
<1> QED
  BY <1>1, <1>4, RegistrationsAgree

\* Whatever part of the registrations finds a codec, all of them find it.
LEMMA GetCodecLasts ==
  ASSUME ExtraAgrees, NEW k \in 0 .. Len(Registrations), NEW code,
         GetCodec(k, code) # NIL
  PROVE  GetCodec(Len(Registrations), code) = GetCodec(k, code)
<1> DEFINE n == Len(Registrations)
           at == {i \in 1 .. n : Registrations[i].messageType = code}
           latest == CHOOSE i \in at : \A j \in at : j <= i
<1>1. n \in Nat /\ at \subseteq 1 .. n
  BY RegistrationsAgree
<1>2. at # {}
  BY <1>1, GetCodecFacts
<1>3. GetCodec(n, code) = Registrations[latest]
  BY <1>2 DEF GetCodec
<1> HIDE DEF at
<1>4. latest \in at
  BY <1>1, <1>2, LatestExists
<1> HIDE DEF latest
<1>5. latest \in 1 .. n /\ Registrations[latest].messageType = code
  BY <1>4 DEF at
<1> QED
  BY <1>3, <1>5, GetCodecFacts

----------------------------------------------------------------------------
(* One frame.                                                              *)

\* A frame is read as the type code and the body it was made of.
LEMMA FrameFacts ==
  ASSUME NEW code \in Int, FitsSigned(2, code), NEW body \in Seq(Octet),
         NEW frame, frame = Integer(2, code) \o body
  PROVE  /\ Len(frame) >= 2
         /\ SignedOf(Peek(Buffer(frame), 2)) = code
         /\ SubSeq(frame, 3, Len(frame)) = body
<1> DEFINE a == Integer(2, code)
<1>1. a \in Seq(Octet) /\ Len(a) = 2 /\ SignedOf(a) = code
  <2>1. 2 \in Nat /\ 2 \in Nat \ {0}
    OBVIOUS
  <2>2. a \in Seq(Octet) /\ Len(a) = 2
    BY <2>1, IntegerFacts
  <2>3. SignedOf(a) = code
    BY <2>1, SignedRoundTrip
  <2> QED
    BY <2>2, <2>3
<1> HIDE DEF a
<1>2. /\ CanRead(Buffer(a \o body), 2)
      /\ Peek(Buffer(a \o body), 2) = a
      /\ Skip(Buffer(a \o body), 2) = Buffer(body)
  BY <1>1, FrontFacts
<1>3. frame = a \o body
  BY DEF a
<1>4. /\ CanRead(Buffer(frame), 2)
      /\ Peek(Buffer(frame), 2) = a
      /\ Skip(Buffer(frame), 2) = Buffer(body)
  BY <1>2, <1>3, Zenon
<1>5. 2 <= Len(frame)
  BY <1>4 DEF CanRead, Buffer
<1>6. SubSeq(frame, 3, Len(frame)) = body
  <2>1. Skip(Buffer(frame), 2).octets = SubSeq(frame, 2 + 1, Len(frame))
    BY DEF Skip, Buffer
  <2>2. Buffer(body).octets = body
    BY DEF Buffer
  <2> QED
    BY <1>4, <2>1, <2>2
<1>7. Len(frame) >= 2
  <2> DEFINE n == Len(frame)
  <2>1. n \in Nat
    BY <1>1, <1>3, ConcatProperties
  <2> HIDE DEF n
  <2> QED
    BY <1>5, <2>1 DEF n
<1> QED
  BY <1>1, <1>4, <1>6, <1>7

\* A frame is the type code, and what one codec makes of the message.
LEMMA EncodeFacts ==
  ASSUME ExtraAgrees, NEW k \in 0 .. Len(Registrations), NEW m \in Message,
         Encode(k, m) \notin {NIL, PANIC}
  PROVE  LET code == GetTypeCode(m.name)
             c == GetCodec(k, code) IN
         /\ c # NIL /\ WellMade(c) /\ c.message = m.name
         /\ c.strict => ~m.pointer
         /\ Encode(k, m) =
              Integer(2, code) \o EncodeBody(c.encode, AsSent(m).value)
<1> DEFINE code == GetTypeCode(m.name)
           c == GetCodec(k, code)
<1>1. c # NIL /\ Asserted(c, m) # PANIC
      /\ Encode(k, m) = Integer(2, code) \o EncodeBody(c.encode, Asserted(c, m))
  BY DEF Encode
<1>2. WellMade(c) /\ c.messageType = code
  BY <1>1, GetCodecFacts
<1>3. GetCodec(Len(Registrations), code) = c
  BY <1>1, GetCodecLasts
<1> HIDE DEF c
<1>4. c.message = m.name
  <2>1. m.name \in DOMAIN Messages
    BY LinkAssumption
  <2> QED
    BY <1>2, <2>1, TypeCodesDistinct DEF WellMade
<1>5. BlankedByPointer(m) <=> m.pointer /\ ~c.strict
  BY <1>3 DEF BlankedByPointer
<1>6. c.strict => ~m.pointer
  BY <1>1, <1>4 DEF Asserted
<1>7. Asserted(c, m) = AsSent(m).value
  <2>1. CASE ~m.pointer
    BY <1>4, <1>5, <2>1, MessageAsSent DEF Asserted
  <2>2. CASE m.pointer
    <3>1. BlankedByPointer(m) /\ Asserted(c, m) = Zero(m.name)
      BY <1>4, <1>5, <1>6, <2>2 DEF Asserted
    <3> QED
      BY <3>1, MessageAsSent
  <2> QED
    BY <2>1, <2>2
<1> QED
  BY <1>1, <1>2, <1>4, <1>6, <1>7 DEF c

\* What Decode makes of such a frame, if it finds a codec: it is the same.
LEMMA DecodeFacts ==
  ASSUME ExtraAgrees, NEW k \in 0 .. Len(Registrations),
         NEW n \in DOMAIN Messages, NEW body \in Seq(Octet), NEW frame,
         frame = Integer(2, GetTypeCode(n)) \o body,
         GetCodec(k, GetTypeCode(n)) # NIL
  PROVE  LET c == GetCodec(k, GetTypeCode(n))
             r == DecodeBody(c.decode, Zero(c.message), body) IN
         Decode(k, frame) = [name |-> c.message, value |-> r.msg, buf |-> r.buf]
<1> DEFINE code == GetTypeCode(n)
<1>1. code \in Int /\ FitsSigned(2, code)
  BY TypeCodesFit
<1> HIDE DEF code
<1>2. /\ Len(frame) >= 2
      /\ SignedOf(Peek(Buffer(frame), 2)) = code
      /\ SubSeq(frame, 3, Len(frame)) = body
  BY <1>1, FrameFacts DEF code
<1>3. GetCodec(k, code) # NIL
  BY DEF code
<1>4. Decode(k, frame) =
        LET r == DecodeBody(GetCodec(k, code).decode,
                            Zero(GetCodec(k, code).message), body)
        IN  [name |-> GetCodec(k, code).message, value |-> r.msg, buf |-> r.buf]
  BY <1>2, <1>3 DEF Decode
<1> QED
  BY <1>4 DEF code

\* A sender's frame, and a receiver that has a codec for it.
LEMMA FrameCarries ==
  ASSUME ExtraAgrees, NEW m \in Message, Fits(AsSent(m)),
         NEW k \in 0 .. Len(Registrations), Encode(k, m) \notin {NIL, PANIC},
         NEW j \in 0 .. Len(Registrations),
         GetCodec(j, GetTypeCode(m.name)) # NIL
  PROVE  Carries(Decode(j, Encode(k, m)), AsSent(m))
<1> DEFINE code == GetTypeCode(m.name)
           c == GetCodec(k, code)
           sent == AsSent(m)
           body == EncodeBody(c.encode, sent.value)
<1>1. /\ c # NIL /\ WellMade(c) /\ c.message = m.name
      /\ Encode(k, m) = Integer(2, code) \o body
  BY EncodeFacts
<1>2. GetCodec(j, code) = c
  BY <1>1, GetCodecLasts
<1>3. IsMessage(sent) /\ sent.name = m.name /\ m.name \in DOMAIN Messages
  BY MessageAsSent, LinkAssumption
<1> HIDE DEF c, sent
<1>4. /\ body \in Seq(Octet)
      /\ DecodeBody(c.decode, Zero(c.message), body) = Reader(<<>>, Meaning(sent))
  BY <1>1, <1>3, BodyIsOctets, CodecCarries DEF sent
<1> HIDE DEF body
<1>5. Decode(j, Encode(k, m)) =
        LET r == DecodeBody(c.decode, Zero(c.message), body)
        IN  [name |-> c.message, value |-> r.msg, buf |-> r.buf]
  <2> DEFINE frame == Encode(k, m)
             name == m.name
  <2>1. /\ frame = Integer(2, GetTypeCode(name)) \o body
        /\ GetCodec(j, GetTypeCode(name)) = c
        /\ GetCodec(j, GetTypeCode(name)) # NIL
        /\ name \in DOMAIN Messages /\ body \in Seq(Octet)
    BY <1>1, <1>2, <1>3, <1>4
  <2> HIDE DEF frame, name, code
  <2>2. LET c2 == GetCodec(j, GetTypeCode(name))
            r == DecodeBody(c2.decode, Zero(c2.message), body) IN
        Decode(j, frame) = [name |-> c2.message, value |-> r.msg, buf |-> r.buf]
    BY <2>1, DecodeFacts, Zenon
  <2> QED
    BY <2>1, <2>2, Zenon DEF frame
<1>6. Decode(j, Encode(k, m)) =
        [name |-> m.name, value |-> Meaning(sent), buf |-> Buffer(<<>>)]
  BY <1>1, <1>4, <1>5 DEF Reader
<1> QED
  BY <1>3, <1>6 DEF Carries, sent

\* Without two octets for a type code there is no message.
LEMMA ShortFrame ==
  ASSUME ExtraAgrees, NEW k \in 0 .. Len(Registrations), NEW n \in 0 .. 1
  PROVE  Decode(k, [i \in 1 .. n |-> 1]) = NIL
<1> DEFINE frame == [i \in 1 .. n |-> 1]
<1>1. Len(frame) = n
  BY LenProperties
<1>2. ~(Len(frame) >= 2)
  BY <1>1
<1>3. GetCodec(k, NoTypeCode) = NIL
  <2> SUFFICES ASSUME GetCodec(k, NoTypeCode) # NIL PROVE FALSE
    OBVIOUS
  <2> DEFINE c == GetCodec(k, NoTypeCode)
  <2>1. c.messageType = NoTypeCode /\ WellMade(c)
    BY GetCodecFacts
  <2> HIDE DEF c
  <2> QED
    BY <2>1, TypeCodesFit DEF WellMade
<1> HIDE DEF frame
<1>4. Decode(k, frame) = NIL
  BY <1>2, <1>3 DEF Decode
<1> QED
  BY <1>4 DEF frame

----------------------------------------------------------------------------
(* The link.                                                               *)

\* Every frame that some point of a sender's start-up makes of a message.
InFlight ==
  {f \in {[frame |-> Encode(k, m), sent |-> m] :
            k \in 0 .. Len(Registrations), m \in Message} :
     f.frame \notin {NIL, PANIC}}

LinkTypeOK ==
  /\ registered \in [End -> 0 .. Len(Registrations)]
  /\ channel \in Seq(InFlight)

\* Whatever Decode returned, it returned for a frame that was sent.
DeliveredInv ==
  delivered.got # NIL =>
    \E k \in 0 .. Len(Registrations), f \in InFlight :
      delivered = [got |-> Decode(k, f.frame), sent |-> f.sent]

LinkInv == LinkTypeOK /\ DeliveredInv

\* A frame in flight was encoded from its message.
LEMMA InFlightFacts ==
  ASSUME NEW f \in InFlight
  PROVE  /\ f.sent \in Message
         /\ \E k \in 0 .. Len(Registrations) :
              f.frame = Encode(k, f.sent) /\ Encode(k, f.sent) \notin {NIL, PANIC}
  BY DEF InFlight

\* A link begins empty.
LEMMA LinkInit ==
  ASSUME ExtraAgrees, Init
  PROVE  LinkInv
<1>1. Len(Registrations) \in Nat
  BY RegistrationsAgree
<1>2. LinkTypeOK
  BY <1>1 DEF Init, LinkTypeOK
<1>3. DeliveredInv
  BY DEF Init, Nothing, DeliveredInv
<1> QED
  BY <1>2, <1>3 DEF LinkInv

\* Every step keeps what is in flight and what was delivered genuine.
LEMMA LinkNext ==
  ASSUME ExtraAgrees, LinkInv, [Next]_vars
  PROVE  LinkInv'
<1>1. Len(Registrations) \in Nat
  BY RegistrationsAgree
<1>2. LinkTypeOK /\ DeliveredInv
  BY DEF LinkInv
<1>3. delivered' = Nothing => DeliveredInv'
  BY DEF DeliveredInv, Nothing
<1>4. ASSUME NEW e \in End, RegisterCodec(e)
      PROVE  LinkInv'
  <2>1. registered' \in [End -> 0 .. Len(Registrations)]
    BY <1>1, <1>2, <1>4 DEF RegisterCodec, LinkTypeOK
  <2>2. LinkTypeOK'
    BY <1>2, <1>4, <2>1 DEF RegisterCodec, LinkTypeOK
  <2> QED
    BY <1>3, <1>4, <2>2 DEF RegisterCodec, LinkInv
<1>5. ASSUME NEW m \in Message, Send(m)
      PROVE  LinkInv'
  <2> DEFINE k == registered["sender"]
             frame == Encode(k, m)
             f == [frame |-> frame, sent |-> m]
  <2>1. k \in 0 .. Len(Registrations)
    BY <1>2 DEF LinkTypeOK, End
  <2>2. channel' = IF frame \in {NIL, PANIC} THEN channel
                   ELSE Append(channel, f)
    BY <1>5 DEF Send
  <2>3. frame \notin {NIL, PANIC} => f \in InFlight
    BY <2>1 DEF InFlight
  <2> HIDE DEF f, frame
  <2>4. channel' \in Seq(InFlight)
    <3>1. CASE frame \in {NIL, PANIC}
      BY <1>2, <2>2, <3>1 DEF LinkTypeOK
    <3>2. CASE frame \notin {NIL, PANIC}
      BY <1>2, <2>2, <2>3, <3>2, AppendProperties DEF LinkTypeOK
    <3> QED
      BY <3>1, <3>2
  <2>5. LinkTypeOK'
    BY <1>2, <1>5, <2>4 DEF Send, LinkTypeOK
  <2> QED
    BY <1>3, <1>5, <2>5 DEF Send, LinkInv
<1>6. ASSUME Receive
      PROVE  LinkInv'
  <2> DEFINE k == registered["receiver"]
             f == Head(channel)
  <2>1. k \in 0 .. Len(Registrations)
    BY <1>2 DEF LinkTypeOK, End
  <2>2. channel \in Seq(InFlight) /\ channel # <<>>
    BY <1>2, <1>6 DEF Receive, LinkTypeOK
  <2>3. f \in InFlight /\ Tail(channel) \in Seq(InFlight)
    BY <2>2, HeadTailProperties
  <2>4. /\ delivered' = [got |-> Decode(k, f.frame), sent |-> f.sent]
        /\ channel' = Tail(channel) /\ registered' = registered
    BY <1>6 DEF Receive
  <2> HIDE DEF f, k
  <2>5. LinkTypeOK'
    BY <1>2, <2>3, <2>4 DEF LinkTypeOK
  <2>6. DeliveredInv'
    BY <2>1, <2>3, <2>4 DEF DeliveredInv
  <2> QED
    BY <2>5, <2>6 DEF LinkInv
<1>7. ASSUME ReceiveShort
      PROVE  LinkInv'
  <2>1. PICK n \in 0 .. 1 :
          delivered' = [got |-> Decode(registered["receiver"],
                                       [i \in 1 .. n |-> 1]),
                        sent |-> NIL]
    BY <1>7 DEF ReceiveShort
  <2>2. registered["receiver"] \in 0 .. Len(Registrations)
    BY <1>2 DEF LinkTypeOK, End
  <2>3. Decode(registered["receiver"], [i \in 1 .. n |-> 1]) = NIL
    BY <2>2, ShortFrame
  <2>4. DeliveredInv'
    BY <2>1, <2>3 DEF DeliveredInv
  <2>5. LinkTypeOK'
    BY <1>2, <1>7 DEF ReceiveShort, LinkTypeOK
  <2> QED
    BY <2>4, <2>5 DEF LinkInv
<1>8. ASSUME UNCHANGED vars
      PROVE  LinkInv'
  BY <1>2, <1>8 DEF vars, LinkInv, LinkTypeOK, DeliveredInv
<1> QED
  BY <1>4, <1>5, <1>6, <1>7, <1>8 DEF Next

\* At every moment what is in flight was encoded from a message by some part
\* of Init's registrations, and what Decode returned came from such a frame.
THEOREM LinkInductive ==
  ASSUME ExtraAgrees
  PROVE  Spec => []LinkInv
  BY LinkInit, LinkNext, PTL DEF Spec

\* Once Init has returned, Decode makes of every frame in flight the message
\* Encode was given, up to what the protocol means to drop, and reads the
\* frame to its last octet: for every message that fits the format.
THEOREM FramesAreFaithful ==
  ASSUME ExtraAgrees
  PROVE  Spec => []FramesFaithful
<1>1. LinkInv => FramesFaithful
  <2> SUFFICES ASSUME LinkInv, NEW i \in DOMAIN channel,
                      Fits(AsSent(channel[i].sent))
               PROVE  Carries(Decode(Len(Registrations), channel[i].frame),
                              AsSent(channel[i].sent))
    BY DEF FramesFaithful
  <2> DEFINE f == channel[i]
             n == Len(Registrations)
  <2>1. f \in InFlight
    BY DEF LinkInv, LinkTypeOK
  <2> HIDE DEF f
  <2>2. PICK k \in 0 .. n :
          f.frame = Encode(k, f.sent) /\ Encode(k, f.sent) \notin {NIL, PANIC}
    BY <2>1, InFlightFacts
  <2>3. f.sent \in Message
    BY <2>1, InFlightFacts
  <2>4. GetCodec(k, GetTypeCode(f.sent.name)) # NIL
    BY <2>2, <2>3, EncodeFacts
  <2>5. GetCodec(n, GetTypeCode(f.sent.name)) # NIL /\ n \in 0 .. n
    BY <2>2, <2>4, GetCodecLasts, RegistrationsAgree
  <2>6. Fits(AsSent(f.sent))
    BY DEF f
  <2>7. Carries(Decode(n, f.frame), AsSent(f.sent))
    BY <2>2, <2>3, <2>5, <2>6, FrameCarries
  <2> QED
    BY <2>7 DEF f
<1> QED
  BY <1>1, LinkInductive, PTL

\* What was delivered was decoded from an encoded message.
LEMMA DeliveredFacts ==
  ASSUME ExtraAgrees, LinkInv, delivered.got # NIL
  PROVE  /\ delivered.sent \in Message
         /\ \E k, j \in 0 .. Len(Registrations) :
              /\ Encode(k, delivered.sent) \notin {NIL, PANIC}
              /\ delivered.got = Decode(j, Encode(k, delivered.sent))
              /\ GetCodec(j, GetTypeCode(delivered.sent.name)) # NIL
<1> DEFINE m == delivered.sent
           code == GetTypeCode(m.name)
<1>1. PICK j \in 0 .. Len(Registrations), f \in InFlight :
        delivered = [got |-> Decode(j, f.frame), sent |-> f.sent]
  BY DEF LinkInv, DeliveredInv
<1>2. m = f.sent /\ delivered.got = Decode(j, f.frame)
  BY <1>1
<1>3. m \in Message
  BY <1>2, InFlightFacts
<1>4. PICK k \in 0 .. Len(Registrations) :
        f.frame = Encode(k, m) /\ Encode(k, m) \notin {NIL, PANIC}
  BY <1>2, InFlightFacts
<1>5. GetCodec(j, code) # NIL
  <2> DEFINE c == GetCodec(k, code)
             body == EncodeBody(c.encode, AsSent(m).value)
             frame == Encode(k, m)
  <2>1. /\ frame = Integer(2, code) \o body
        /\ WellMade(c) /\ c.message = m.name
    BY <1>3, <1>4, EncodeFacts
  <2>2. body \in Seq(Octet)
    BY <1>3, <2>1, MessageAsSent, BodyIsOctets
  <2>3. code \in Int /\ FitsSigned(2, code)
    BY <1>3, LinkAssumption, TypeCodesFit
  <2> HIDE DEF body, frame, code
  <2>4. Len(frame) >= 2 /\ SignedOf(Peek(Buffer(frame), 2)) = code
    BY <2>1, <2>2, <2>3, FrameFacts
  <2>5. GetCodec(j, code) = NIL => Decode(j, frame) = NIL
    BY <2>4 DEF Decode
  <2>6. Decode(j, frame) # NIL
    BY <1>2, <1>4 DEF frame
  <2> QED
    BY <2>5, <2>6
<1> QED
  BY <1>2, <1>3, <1>4, <1>5

\* A receiver still inside Init never makes a wrong message of a frame whose
\* message fits, and none at all of a frame without a type code.
THEOREM NothingIsMisread ==
  ASSUME ExtraAgrees
  PROVE  Spec => []NeverMisread
<1>1. LinkInv => NeverMisread
  <2> SUFFICES ASSUME LinkInv, delivered.got # NIL
               PROVE  /\ delivered.sent # NIL
                      /\ Fits(AsSent(delivered.sent)) =>
                           Carries(delivered.got, AsSent(delivered.sent))
    BY DEF NeverMisread
  <2> DEFINE m == delivered.sent
  <2>1. /\ m \in Message
        /\ \E k, j \in 0 .. Len(Registrations) :
             /\ Encode(k, m) \notin {NIL, PANIC}
             /\ delivered.got = Decode(j, Encode(k, m))
             /\ GetCodec(j, GetTypeCode(m.name)) # NIL
    BY DeliveredFacts
  <2>2. m # NIL
    BY <2>1, LinkAssumption
  <2>3. Fits(AsSent(m)) => Carries(delivered.got, AsSent(m))
    BY <2>1, FrameCarries
  <2> QED
    BY <2>2, <2>3
<1> QED
  BY <1>1, LinkInductive, PTL

\* NIL is none of the messages Decode makes.
NilIsNoMessage ==
  \A n, v, b : [name |-> n, value |-> v, buf |-> b] # NIL

\* Whatever a sender can encode, at any point of its Init, a receiver whose
\* Init has returned decodes, when Init's codecs are all there are.
THEOREM NothingIsLost ==
  ASSUME Extra = <<>>, NilIsNoMessage
  PROVE  Spec => NothingLostAfterInit
<1>1. ExtraAgrees
  BY NothingExtraAgrees
<1>2. Len(Registrations) = Len(InitOrder) /\ Len(Registrations) \in Nat
  <2>1. Len(Extra) = 0
    OBVIOUS
  <2> QED
    BY <2>1, RegistrationsFacts
<1>3. ASSUME LinkInv, [Next]_vars,
             registered["receiver"] >= Len(InitOrder),
             Len(channel') < Len(channel)
      PROVE  delivered'.got # NIL
  <2>1. /\ registered["receiver"] \in 0 .. Len(Registrations)
        /\ channel \in Seq(InFlight) /\ Len(channel) \in Nat
    BY <1>3 DEF LinkInv, LinkTypeOK, End
  <2>2. registered["receiver"] = Len(Registrations)
    BY <1>2, <1>3, <2>1
  <2>3. Receive
    <3>1. channel' # channel
      BY <1>3, <2>1
    <3>2. \A e \in End : ~RegisterCodec(e)
      BY <3>1 DEF RegisterCodec
    <3>3. ~ReceiveShort /\ ~UNCHANGED vars
      BY <3>1 DEF ReceiveShort, vars
    <3>4. ASSUME NEW m \in Message, Send(m) PROVE FALSE
      <4> DEFINE f == [frame |-> Encode(registered["sender"], m), sent |-> m]
      <4>1. channel' = Append(channel, f)
        BY <3>1, <3>4 DEF Send
      <4> HIDE DEF f
      <4>2. Len(channel') = Len(channel) + 1
        BY <2>1, <4>1
      <4> QED
        BY <1>3, <2>1, <4>2
    <3> QED
      BY <1>3, <3>2, <3>3, <3>4 DEF Next
  <2> DEFINE f == Head(channel)
             n == Len(Registrations)
             m == f.sent
             code == GetTypeCode(m.name)
  <2>4. channel # <<>> /\ delivered'.got = Decode(n, f.frame)
    BY <2>2, <2>3 DEF Receive
  <2>5. f \in InFlight
    BY <2>1, <2>4, HeadTailProperties
  <2> HIDE DEF f
  <2>6. m \in Message
    BY <2>5, InFlightFacts
  <2>7. PICK k \in 0 .. n :
          f.frame = Encode(k, m) /\ Encode(k, m) \notin {NIL, PANIC}
    BY <2>5, InFlightFacts
  <2> HIDE DEF m
  <2> DEFINE c == GetCodec(k, code)
             body == EncodeBody(c.encode, AsSent(m).value)
             frame == f.frame
  <2>8. /\ c # NIL /\ WellMade(c) /\ c.message = m.name
        /\ frame = Integer(2, code) \o body
    BY <1>1, <2>6, <2>7, EncodeFacts
  <2>9. body \in Seq(Octet) /\ m.name \in DOMAIN Messages
    BY <2>6, <2>8, MessageAsSent, BodyIsOctets, LinkAssumption
  <2>10. GetCodec(n, code) # NIL /\ n \in 0 .. n
    BY <1>1, <1>2, <2>7, <2>8, GetCodecLasts
  <2> HIDE DEF body, c, frame
  <2>11. Decode(n, frame) # NIL
    <3> DEFINE d == GetCodec(n, code)
               r == DecodeBody(d.decode, Zero(d.message), body)
    <3>1. Decode(n, frame) =
            [name |-> d.message, value |-> r.msg, buf |-> r.buf]
      BY <1>1, <2>8, <2>9, <2>10, DecodeFacts
    <3> QED
      BY <3>1 DEF NilIsNoMessage
  <2> QED
    BY <2>4, <2>11 DEF frame
<1>4. LinkInv /\ [Next]_vars =>
        [registered["receiver"] >= Len(InitOrder) /\ Len(channel') < Len(channel)
           => delivered'.got # NIL]_vars
  BY <1>3
<1> QED
  BY <1>1, <1>4, LinkInductive, PTL DEF Spec, NothingLostAfterInit

----------------------------------------------------------------------------
(* Timeouts, which are decoded even when the rest does not fit.            *)

\* The codec of a begin request, whatever the program registers besides.
LEMMA BeginCodec ==
  ASSUME ExtraAgrees, NEW k \in 0 .. Len(Registrations),
         GetCodec(k, GetTypeCode("GlobalBeginRequest")) # NIL
  PROVE  GetCodec(k, GetTypeCode("GlobalBeginRequest")) = GlobalBeginRequestCodec
<1>1. Registrations[2] = GlobalBeginRequestCodec /\ 2 \in 1 .. Len(Registrations)
  <2>1. InitOrder[2] = GlobalBeginRequestCodec
    BY DEF InitOrder
  <2> QED
    BY <2>1, RegistrationsFacts
<1>2. GlobalBeginRequestCodec.messageType = GetTypeCode("GlobalBeginRequest")
  BY TypeCodes DEF GlobalBeginRequestCodec, Codec, MessageType
<1> QED
  BY <1>1, <1>2, GetCodecFacts

\* What Encode writes of a begin request begins with the timeout.
LEMMA BeginEncodes ==
  ASSUME NEW v, Quotient(v.Timeout, Millisecond) \in Int,
         v.TransactionName \in Seq(Octet)
  PROVE  \E rest \in Seq(Octet) :
           EncodeBody(GlobalBeginRequestCodec.encode, v) =
             Integer(4, Quotient(v.Timeout, Millisecond)) \o rest
<1> DEFINE layout == GlobalBeginRequestCodec.encode
           a == Integer(4, Quotient(v.Timeout, Millisecond))
           b == LengthPrefixed(2, v.TransactionName)
<1>1. /\ layout = <<Millis("Timeout"), String16("TransactionName")>>
      /\ Len(layout) = 2
  BY DEF GlobalBeginRequestCodec, Codec
<1>2. /\ EncodeItem(v, Millis("Timeout")) = a
      /\ EncodeItem(v, String16("TransactionName")) = b
  BY DEF EncodeItem, Millis, String16, Item
<1>3. a \in Seq(Octet) /\ b \in Seq(Octet)
  <2>1. Len(v.TransactionName) \in Int
    OBVIOUS
  <2>2. Integer(2, Len(v.TransactionName)) \in Seq(Octet)
    BY <2>1, IntegerFacts
  <2>3. b \in Seq(Octet)
    BY <2>2, ConcatProperties DEF LengthPrefixed
  <2> QED
    BY <2>3, IntegerFacts
<1> HIDE DEF layout, a, b
<1>4. layout[1] = Millis("Timeout") /\ layout[2] = String16("TransactionName")
  BY <1>1
<1>5. /\ EncodeItem(v, layout[1]) = a
      /\ EncodeItem(v, layout[2]) = b
  BY <1>2, <1>4
<1>6. \A i \in 1 .. Len(layout) : EncodeItem(v, layout[i]) \in Seq(Octet)
  <2>1. \A i \in 1 .. 2 : i = 1 \/ i = 2
    OBVIOUS
  <2> QED
    BY <1>1, <1>3, <1>5, <2>1
<1>7. PICK body : IsBody(body, layout, v) /\ EncodeBody(layout, v) = body[2]
  BY <1>1, <1>6, EncodeBodyFacts
<1>8. body[0] = <<>> /\ body[1] = body[0] \o a /\ body[2] = body[1] \o b
  <2>1. /\ body[0] = <<>>
        /\ \A i \in 1 .. 2 : body[i] = body[i - 1] \o EncodeItem(v, layout[i])
    BY <1>1, <1>7 DEF IsBody
  <2>2. 1 \in 1 .. 2 /\ 2 \in 1 .. 2 /\ 1 - 1 = 0 /\ 2 - 1 = 1
    OBVIOUS
  <2> QED
    BY <1>5, <2>1, <2>2, Zenon
<1>9. body[1] = a
  BY <1>3, <1>8, ConcatEmptySeq
<1> QED
  BY <1>3, <1>7, <1>8, <1>9 DEF layout, a

\* Reading a string leaves the other fields alone, even when there is not
\* enough left to read.
LEMMA ReadStringKeeps ==
  ASSUME NEW octets, NEW msg, NEW w, NEW field,
         NEW other \in DOMAIN msg, other # field
  PROVE  ReadString(Reader(octets, msg), w, field).msg[other] = msg[other]
<1> DEFINE buf == Buffer(octets)
           rest == Skip(buf, w)
           n == UnsignedOf(Peek(buf, w))
           s == Peek(rest, n)
           put == [msg EXCEPT ![field] = s]
<1>1. Reader(octets, msg) = [buf |-> buf, msg |-> msg]
  BY DEF Reader
<1>2. [[buf |-> buf, msg |-> msg] EXCEPT !.buf = rest] =
        [buf |-> rest, msg |-> msg]
  OBVIOUS
<1>3. put[other] = msg[other]
  OBVIOUS
<1> HIDE DEF rest, buf, n, s, put
<1>4. ReadString([buf |-> buf, msg |-> msg], w, field).msg \in {put, msg}
  BY <1>2 DEF ReadString, ReadOctets, put, rest, n, s
<1> QED
  BY <1>1, <1>3, <1>4

\* What Decode takes for the timeout are the first four octets.
LEMMA BeginDecodes ==
  ASSUME NEW a \in Seq(Octet), Len(a) = 4, NEW rest \in Seq(Octet),
         NEW zero, "Timeout" \in DOMAIN zero
  PROVE  DecodeBody(GlobalBeginRequestCodec.decode, zero, a \o rest)
           .msg.Timeout = UnsignedOf(a) * Millisecond
<1> DEFINE layout == GlobalBeginRequestCodec.decode
           b == a \o rest
           d == UnsignedOf(a) * Millisecond
           msg == Filled(zero, "Timeout", d)
<1>1. /\ layout = <<Millis("Timeout"), String16("TransactionName")>>
      /\ Len(layout) = 2
  BY DEF GlobalBeginRequestCodec, Codec
<1> HIDE DEF layout
<1>2. layout[1] = Millis("Timeout") /\ layout[2] = String16("TransactionName")
  BY <1>1
<1>3. PICK reader : /\ IsReading(reader, layout, zero, b)
                    /\ DecodeBody(layout, zero, b) = reader[2]
  <2> HIDE DEF b
  <2>1. Len(layout) \in Nat
    BY <1>1
  <2> QED
    BY <1>1, <2>1, DecodeBodyFacts
<1>4. /\ reader[0] = Reader(b, zero)
      /\ reader[1] = DecodeItem(reader[0], Millis("Timeout"))
      /\ reader[2] = DecodeItem(reader[1], String16("TransactionName"))
  <2>1. /\ reader[0] = Reader(b, zero)
        /\ \A i \in 1 .. 2 : reader[i] = DecodeItem(reader[i - 1], layout[i])
    BY <1>1, <1>3 DEF IsReading
  <2>2. /\ reader[1] = DecodeItem(reader[1 - 1], layout[1])
        /\ reader[2] = DecodeItem(reader[2 - 1], layout[2])
    BY <2>1
  <2> QED
    BY <1>2, <2>1, <2>2
<1>5. reader[1] = Reader(rest, msg)
  <2> HIDE DEF d
  <2>1. Peek(Buffer(b), 4) = a
    BY FrontFacts
  <2>2. ReadOctets(Reader(b, zero), 4, "Timeout", d) = Reader(rest, msg)
    <3>1. /\ CanRead(Buffer(b), 4)
          /\ Skip(Buffer(b), 4) = Buffer(rest)
      BY FrontFacts
    <3> HIDE DEF b
    <3> QED
      BY <3>1 DEF ReadOctets, Reader, Filled
  <2>3. DecodeItem(Reader(b, zero), Millis("Timeout")) =
          ReadOctets(Reader(b, zero), 4, "Timeout",
                     Duration(Peek(Reader(b, zero).buf, 4)))
    BY DEF DecodeItem, Millis, Item
  <2>4. Reader(b, zero).buf = Buffer(b)
    BY DEF Reader
  <2> HIDE DEF b, msg
  <2>5. Duration(Peek(Reader(b, zero).buf, 4)) = d
    BY <2>1, <2>4 DEF Duration, d
  <2> QED
    BY <1>4, <2>2, <2>3, <2>5
<1>6. "Timeout" \in DOMAIN msg /\ msg["Timeout"] = d
  BY DEF Filled
<1> HIDE DEF msg, d, b
<1>7. reader[2] = ReadString(Reader(rest, msg), 2, "TransactionName")
  <2>1. DecodeItem(Reader(rest, msg), String16("TransactionName")) =
          ReadString(Reader(rest, msg), 2, "TransactionName")
    BY DEF DecodeItem, String16, Item
  <2> QED
    BY <1>4, <1>5, <2>1
<1>8. reader[2].msg["Timeout"] = d
  BY <1>6, <1>7, ReadStringKeeps
<1> QED
  BY <1>3, <1>8 DEF d, b, layout

\* What Decode makes of a timeout: the milliseconds that went over the wire.
LEMMA TimeoutFacts ==
  ASSUME ExtraAgrees, LinkInv, TimeoutDelivered
  PROVE  /\ delivered.sent.value.Timeout \in Int
         /\ delivered.got.value.Timeout =
              UnsignedOf(Integer(4, Quotient(delivered.sent.value.Timeout,
                                             Millisecond))) * Millisecond
<1> DEFINE m == delivered.sent
           code == GetTypeCode(m.name)
           v == m.value
           c == GlobalBeginRequestCodec
           zero == Zero("GlobalBeginRequest")
           q == Quotient(v.Timeout, Millisecond)
<1>1. m.name = "GlobalBeginRequest" /\ delivered.got # NIL
  BY DEF TimeoutDelivered
<1>2. m \in Message
  BY <1>1, DeliveredFacts
<1>3. PICK k \in 0 .. Len(Registrations), j \in 0 .. Len(Registrations) :
        /\ Encode(k, m) \notin {NIL, PANIC}
        /\ delivered.got = Decode(j, Encode(k, m))
        /\ GetCodec(j, code) # NIL
  BY <1>1, DeliveredFacts
<1>4. GetCodec(k, code) = c /\ GetCodec(j, code) = c
  <2>1. GetCodec(k, code) # NIL
    BY <1>2, <1>3, EncodeFacts
  <2> QED
    BY <1>1, <1>3, <2>1, BeginCodec
<1>5. c.message = "GlobalBeginRequest" /\ c.strict
  BY DEF GlobalBeginRequestCodec, Codec
<1>6. /\ ~m.pointer
      /\ Encode(k, m) = Integer(2, code)
                           \o EncodeBody(c.encode, AsSent(m).value)
  <2>1. /\ GetCodec(k, code).strict => ~m.pointer
        /\ Encode(k, m) =
             Integer(2, code)
               \o EncodeBody(GetCodec(k, code).encode, AsSent(m).value)
    BY <1>2, <1>3, EncodeFacts
  <2> HIDE DEF c
  <2> QED
    BY <1>4, <1>5, <2>1
<1>7. AsSent(m) = m
  BY <1>2, <1>6, MessageAsSent DEF BlankedByPointer
<1>8. /\ Messages["GlobalBeginRequest"].fields = {"Timeout", "TransactionName"}
      /\ "GlobalBeginRequest" \in DOMAIN Messages
  BY MessageNames DEF RequestNames, RequestMessages, Struct
<1>9. v.Timeout \in Int /\ v.TransactionName \in Seq(Octet)
  <2>1. IsMessage(m)
    BY <1>2, <1>7, MessageAsSent
  <2>2. HasType("Timeout", v.Timeout)
        /\ HasType("TransactionName", v.TransactionName)
    BY <1>1, <1>8, <2>1 DEF IsMessage
  <2> QED
    BY <2>2 DEF HasType, StringFields
<1>10. q \in Int
  BY <1>9, MillisecondsFacts
<1> DEFINE a == Integer(4, q)
<1>11. a \in Seq(Octet) /\ Len(a) = 4
  BY <1>10, IntegerFacts
<1>12. PICK rest \in Seq(Octet) : EncodeBody(c.encode, v) = a \o rest
  BY <1>9, <1>10, BeginEncodes
<1>13. "Timeout" \in DOMAIN zero
  BY <1>8 DEF Zero
<1> HIDE DEF v, a, c, zero
<1>14. DecodeBody(c.decode, zero, a \o rest).msg.Timeout =
         UnsignedOf(a) * Millisecond
  BY <1>11, <1>13, BeginDecodes DEF c
<1> DEFINE body == a \o rest
<1>15. body \in Seq(Octet)
  BY <1>11, ConcatProperties
<1>16. Encode(k, m) = Integer(2, code) \o body
  BY <1>6, <1>7, <1>12 DEF v
<1> HIDE DEF body
<1>17. delivered.got.value = DecodeBody(c.decode, Zero(c.message), body).msg
  <2> DEFINE frame == Encode(k, m)
             g == GetCodec(j, code)
  <2>1. m.name \in DOMAIN Messages /\ frame = Integer(2, code) \o body
    BY <1>1, <1>8, <1>16
  <2> HIDE DEF frame
  <2>2. Decode(j, frame) =
          LET r == DecodeBody(g.decode, Zero(g.message), body)
          IN  [name |-> g.message, value |-> r.msg, buf |-> r.buf]
    <3> HIDE DEF m
    <3>1. g # NIL
      BY <1>3
    <3> QED
      BY <1>15, <2>1, <3>1, DecodeFacts, Zenon
  <2>3. Decode(j, frame) =
          LET r == DecodeBody(c.decode, Zero(c.message), body)
          IN  [name |-> c.message, value |-> r.msg, buf |-> r.buf]
    BY <1>4, <2>2
  <2> QED
    BY <1>3, <2>3 DEF frame
<1>18. delivered.got.value.Timeout = UnsignedOf(a) * Millisecond
  BY <1>5, <1>14, <1>17 DEF body, zero
<1> QED
  BY <1>9, <1>18 DEF a, v

\* A timeout that is not negative never comes out longer than it went in,
\* even one that four octets of milliseconds have no room for.
THEOREM TimeoutsNeverGrow ==
  ASSUME ExtraAgrees
  PROVE  Spec => []TimeoutNeverGrows
<1>1. LinkInv => TimeoutNeverGrows
  <2> DEFINE t == delivered.sent.value.Timeout
             q == Quotient(t, Millisecond)
             u == UnsignedOf(Integer(4, q))
  <2> SUFFICES ASSUME LinkInv, TimeoutDelivered, t >= 0
               PROVE  delivered.got.value.Timeout <= t
    BY DEF TimeoutNeverGrows
  <2>1. t \in Int /\ delivered.got.value.Timeout = u * Millisecond
    BY TimeoutFacts
  <2> HIDE DEF t
  <2>2. q \in Nat /\ q * Millisecond <= t
    BY <2>1, MillisecondsFacts
  <2> HIDE DEF q
  <2>3. Integer(4, q) \in Seq(Octet)
    BY <2>2, IntegerFacts
  <2>4. u \in Nat /\ u <= q
    BY <2>2, <2>3, UnsignedAtMost, UnsignedInRange
  <2> HIDE DEF u
  <2>5. u * Millisecond <= q * Millisecond
    <3>1. Millisecond \in Nat
      BY SeataCodecAssumption
    <3>2. (q - u) * Millisecond >= 0
      BY <2>2, <2>4, <3>1
    <3>3. (q - u) * Millisecond = q * Millisecond - u * Millisecond
      BY <2>2, <2>4, <3>1
    <3>4. q * Millisecond \in Int /\ u * Millisecond \in Int
      BY <2>2, <2>4, <3>1
    <3> QED
      BY <3>2, <3>3, <3>4
  <2>6. q * Millisecond \in Int /\ u * Millisecond \in Int
    BY <2>2, <2>4, SeataCodecAssumption
  <2> QED
    BY <2>1, <2>2, <2>5, <2>6
<1> QED
  BY <1>1, LinkInductive, PTL

\* Whatever timeout a caller gives, the one that is decoded is not negative
\* and can be sent on.
THEOREM TimeoutsInRange ==
  ASSUME ExtraAgrees
  PROVE  Spec => []TimeoutInRange
<1>1. LinkInv => TimeoutInRange
  <2> DEFINE q == Quotient(delivered.sent.value.Timeout, Millisecond)
             b == Integer(4, q)
             u == UnsignedOf(b)
  <2> SUFFICES ASSUME LinkInv, TimeoutDelivered
               PROVE  FitsUnsigned(4, delivered.got.value.Timeout
                                        \div Millisecond)
    BY DEF TimeoutInRange
  <2>1. q \in Int /\ delivered.got.value.Timeout = u * Millisecond
    BY TimeoutFacts, MillisecondsFacts
  <2> HIDE DEF q
  <2>2. b \in Seq(Octet) /\ Len(b) = 4
    BY <2>1, IntegerFacts
  <2> HIDE DEF b
  <2>3. u \in Nat /\ FitsUnsigned(4, u)
    BY <2>2, UnsignedInRange
  <2> HIDE DEF u
  <2>4. (u * Millisecond) \div Millisecond = u
    BY <2>3, SeataCodecAssumption
  <2> QED
    BY <2>1, <2>3, <2>4
<1> QED
  BY <1>1, LinkInductive, PTL
=============================================================================
