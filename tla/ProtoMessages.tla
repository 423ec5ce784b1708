---------------------------- MODULE ProtoMessages ----------------------------
(***************************************************************************)
(* The messages and enums of protocol/grpc/.../transaction/*.pb.go.  Each  *)
(* message is there twice: in Go, as a struct whose fields carry their     *)
(* numbers in tags; and in the serialised descriptor, which is what a peer *)
(* in another language was generated from ("schema").  A message           *)
(* stands for the struct and for the Reset, ProtoReflect and getters       *)
(* generated from it, whose steps are in ProtoMessage.  Fields are listed  *)
(* by number, from 1, under their Go names in both lists.  An enum is      *)
(* given once: its constants, its two name tables and the descriptor say   *)
(* the same.                                                               *)
(***************************************************************************)
EXTENDS Integers, Sequences, TLC

\* The fields of the struct by tag, their types, and those of the descriptor.
Message(go, types, schema) == [go |-> go, types |-> types, schema |-> schema]

\* A message with one field.
Wrapper(field, type) == Message(<<field>>, <<type>>, <<field>>)

BranchStatusProto ==
  [BUnknown |-> 0, Registered |-> 1, PhaseOne_Done |-> 2,
   PhaseOne_Failed |-> 3, PhaseOne_Timeout |-> 4, PhaseTwo_Committed |-> 5,
   PhaseTwo_CommitFailed_Retryable |-> 6,
   PhaseTwo_CommitFailed_Unretryable |-> 7, PhaseTwo_Rollbacked |-> 8,
   PhaseTwo_RollbackFailed_Retryable |-> 9,
   PhaseTwo_RollbackFailed_Unretryable |-> 10, PhaseOne_RDONLY |-> 13]

BranchTypeProto ==
  [AT |-> 0, TCC |-> 1, SAGA |-> 2]

GlobalStatusProto ==
  [UnKnown |-> 0, Begin |-> 1, Committing |-> 2, CommitRetrying |-> 3,
   Rollbacking |-> 4, RollbackRetrying |-> 5, TimeoutRollbacking |-> 6,
   TimeoutRollbackRetrying |-> 7, AsyncCommitting |-> 8, Committed |-> 9,
   CommitFailed |-> 10, Rollbacked |-> 11, RollbackFailed |-> 12,
   TimeoutRollbacked |-> 13, TimeoutRollbackFailed |-> 14, Finished |-> 15]

MessageTypeProto ==
  [TYPE_GLOBAL_PRESERVED |-> 0, TYPE_GLOBAL_BEGIN |-> 1,
   TYPE_GLOBAL_BEGIN_RESULT |-> 2, TYPE_GLOBAL_COMMIT |-> 7,
   TYPE_GLOBAL_COMMIT_RESULT |-> 8, TYPE_GLOBAL_ROLLBACK |-> 9,
   TYPE_GLOBAL_ROLLBACK_RESULT |-> 10, TYPE_GLOBAL_STATUS |-> 15,
   TYPE_GLOBAL_STATUS_RESULT |-> 16, TYPE_GLOBAL_REPORT |-> 17,
   TYPE_GLOBAL_REPORT_RESULT |-> 18, TYPE_GLOBAL_LOCK_QUERY |-> 21,
   TYPE_GLOBAL_LOCK_QUERY_RESULT |-> 22, TYPE_BRANCH_COMMIT |-> 3,
   TYPE_BRANCH_COMMIT_RESULT |-> 4, TYPE_BRANCH_ROLLBACK |-> 5,
   TYPE_BRANCH_ROLLBACK_RESULT |-> 6, TYPE_BRANCH_REGISTER |-> 11,
   TYPE_BRANCH_REGISTER_RESULT |-> 12, TYPE_BRANCH_STATUS_REPORT |-> 13,
   TYPE_BRANCH_STATUS_REPORT_RESULT |-> 14, TYPE_SEATA_MERGE |-> 59,
   TYPE_SEATA_MERGE_RESULT |-> 60, TYPE_REG_CLT |-> 101,
   TYPE_REG_CLT_RESULT |-> 102, TYPE_REG_RM |-> 103,
   TYPE_REG_RM_RESULT |-> 104, TYPE_UNDO_LOG_DELETE |-> 111,
   TYPE_BATCH_RESULT_MSG |-> 121]

ResultCodeProto ==
  [Failed |-> 0, Success |-> 1]

TransactionExceptionCodeProto ==
  [Unknown |-> 0, LockKeyConflict |-> 1, IO |-> 2,
   BranchRollbackFailed_Retriable |-> 3,
   BranchRollbackFailed_Unretriable |-> 4, BranchRegisterFailed |-> 5,
   BranchReportFailed |-> 6, LockableCheckFailed |-> 7,
   BranchTransactionNotExist |-> 8, GlobalTransactionNotExist |-> 9,
   GlobalTransactionNotActive |-> 10, GlobalTransactionStatusInvalid |-> 11,
   FailedToSendBranchCommitRequest |-> 12,
   FailedToSendBranchRollbackRequest |-> 13, FailedToAddBranch |-> 14,
   FailedLockGlobalTranscation |-> 15, FailedWriteSession |-> 16,
   FailedStore |-> 17]

AbstractBranchEndRequestProto ==
  Message(<<"AbstractTransactionRequest", "Xid", "BranchId", "BranchType",
            "ResourceId", "ApplicationData">>,
          <<"AbstractTransactionRequestProto", "string", "int64",
            "BranchTypeProto", "string", "string">>,
          <<"AbstractTransactionRequest", "Xid", "BranchId", "BranchType",
            "ResourceId", "ApplicationData">>)

AbstractBranchEndResponseProto ==
  Message(<<"AbstractTransactionResponse", "Xid", "BranchId",
            "BranchStatus">>,
          <<"AbstractTransactionResponseProto", "string", "int64",
            "BranchStatusProto">>,
          <<"AbstractTransactionResponse", "Xid", "BranchId",
            "BranchStatus">>)

AbstractGlobalEndRequestProto ==
  Message(<<"AbstractTransactionRequest", "Xid", "ExtraData">>,
          <<"AbstractTransactionRequestProto", "string", "string">>,
          <<"AbstractTransactionRequest", "Xid", "ExtraData">>)

AbstractGlobalEndResponseProto ==
  Message(<<"AbstractTransactionResponse", "GlobalStatus">>,
          <<"AbstractTransactionResponseProto", "GlobalStatusProto">>,
          <<"AbstractTransactionResponse", "GlobalStatus">>)

AbstractIdentifyRequestProto ==
  Message(<<"AbstractMessage", "Version", "ApplicationId",
            "TransactionServiceGroup", "ExtraData">>,
          <<"AbstractMessageProto", "string", "string", "string", "string">>,
          <<"AbstractMessage", "Version", "ApplicationId",
            "TransactionServiceGroup", "ExtraData">>)

AbstractIdentifyResponseProto ==
  Message(<<"AbstractResultMessage", "Version", "ExtraData", "Identified">>,
          <<"AbstractResultMessageProto", "string", "string", "bool">>,
          <<"AbstractResultMessage", "Version", "ExtraData", "Identified">>)

AbstractMessageProto ==
  Wrapper("MessageType", "MessageTypeProto")

AbstractResultMessageProto ==
  Message(<<"AbstractMessage", "ResultCode", "Msg">>,
          <<"AbstractMessageProto", "ResultCodeProto", "string">>,
          <<"AbstractMessage", "ResultCode", "Msg">>)

AbstractTransactionRequestProto ==
  Wrapper("AbstractMessage", "AbstractMessageProto")

AbstractTransactionResponseProto ==
  Message(<<"AbstractResultMessage", "TransactionExceptionCode">>,
          <<"AbstractResultMessageProto", "TransactionExceptionCodeProto">>,
          <<"AbstractResultMessage", "TransactionExceptionCode">>)

BatchResultMessageProto ==
  Message(<<"AbstractMessage", "ResultMessages", "MsgIds">>,
          <<"AbstractMessageProto", "list", "list">>,
          <<"AbstractMessage", "ResultMessages", "MsgIds">>)

BranchCommitRequestProto ==
  Wrapper("AbstractBranchEndRequest", "AbstractBranchEndRequestProto")

BranchCommitResponseProto ==
  Wrapper("AbstractBranchEndResponse", "AbstractBranchEndResponseProto")

BranchRegisterRequestProto ==
  Message(<<"AbstractTransactionRequest", "Xid", "BranchType", "ResourceId",
            "LockKey", "ApplicationData">>,
          <<"AbstractTransactionRequestProto", "string", "BranchTypeProto",
            "string", "string", "string">>,
          <<"AbstractTransactionRequest", "Xid", "BranchType", "ResourceId",
            "LockKey", "ApplicationData">>)

BranchRegisterResponseProto ==
  Message(<<"AbstractTransactionResponse", "BranchId">>,
          <<"AbstractTransactionResponseProto", "int64">>,
          <<"AbstractTransactionResponse", "BranchId">>)

\* Mutant: two struct tags have each other's number.
MutantSwappedTags ==
  Message(<<"AbstractTransactionRequest", "ResourceId", "BranchId", "Xid",
            "Status", "ApplicationData", "BranchType">>,
          <<"AbstractTransactionRequestProto", "string", "int64", "string",
            "BranchStatusProto", "string", "BranchTypeProto">>,
          <<"AbstractTransactionRequest", "Xid", "BranchId", "ResourceId",
            "Status", "ApplicationData", "BranchType">>)

BranchReportRequestProto ==
  Message(<<"AbstractTransactionRequest", "Xid", "BranchId", "ResourceId",
            "Status", "ApplicationData", "BranchType">>,
          <<"AbstractTransactionRequestProto", "string", "int64", "string",
            "BranchStatusProto", "string", "BranchTypeProto">>,
          <<"AbstractTransactionRequest", "Xid", "BranchId", "ResourceId",
            "Status", "ApplicationData", "BranchType">>)

BranchReportResponseProto ==
  Wrapper("AbstractTransactionResponse", "AbstractTransactionResponseProto")

BranchRollbackRequestProto ==
  Wrapper("AbstractBranchEndRequest", "AbstractBranchEndRequestProto")

BranchRollbackResponseProto ==
  Wrapper("AbstractBranchEndResponse", "AbstractBranchEndResponseProto")

GlobalBeginRequestProto ==
  Message(<<"AbstractTransactionRequest", "Timeout", "TransactionName">>,
          <<"AbstractTransactionRequestProto", "int32", "string">>,
          <<"AbstractTransactionRequest", "Timeout", "TransactionName">>)

GlobalBeginResponseProto ==
  Message(<<"AbstractTransactionResponse", "Xid", "ExtraData">>,
          <<"AbstractTransactionResponseProto", "string", "string">>,
          <<"AbstractTransactionResponse", "Xid", "ExtraData">>)

GlobalCommitRequestProto ==
  Wrapper("AbstractGlobalEndRequest", "AbstractGlobalEndRequestProto")

GlobalCommitResponseProto ==
  Wrapper("AbstractGlobalEndResponse", "AbstractGlobalEndResponseProto")

GlobalLockQueryRequestProto ==
  Wrapper("BranchRegisterRequest", "BranchRegisterRequestProto")

GlobalLockQueryResponseProto ==
  Message(<<"AbstractTransactionResponse", "Lockable">>,
          <<"AbstractTransactionResponseProto", "bool">>,
          <<"AbstractTransactionResponse", "Lockable">>)

GlobalReportRequestProto ==
  Message(<<"AbstractGlobalEndRequest", "GlobalStatus">>,
          <<"AbstractGlobalEndRequestProto", "GlobalStatusProto">>,
          <<"AbstractGlobalEndRequest", "GlobalStatus">>)

GlobalReportResponseProto ==
  Wrapper("AbstractGlobalEndResponse", "AbstractGlobalEndResponseProto")

GlobalRollbackRequestProto ==
  Wrapper("AbstractGlobalEndRequest", "AbstractGlobalEndRequestProto")

GlobalRollbackResponseProto ==
  Wrapper("AbstractGlobalEndResponse", "AbstractGlobalEndResponseProto")

GlobalStatusRequestProto ==
  Wrapper("AbstractGlobalEndRequest", "AbstractGlobalEndRequestProto")

GlobalStatusResponseProto ==
  Wrapper("AbstractGlobalEndResponse", "AbstractGlobalEndResponseProto")

GrpcMessageProto ==
  Message(<<"Id", "MessageType", "HeadMap", "Body">>,
          <<"int32", "int32", "map", "bytes">>,
          <<"Id", "MessageType", "HeadMap", "Body">>)

HeartbeatMessageProto ==
  Wrapper("Ping", "bool")

MergedResultMessageProto ==
  Message(<<"AbstractMessage", "Msgs">>,
          <<"AbstractMessageProto", "list">>,
          <<"AbstractMessage", "Msgs">>)

MergedWarpMessageProto ==
  Message(<<"AbstractMessage", "Msgs", "MsgIds">>,
          <<"AbstractMessageProto", "list", "list">>,
          <<"AbstractMessage", "Msgs", "MsgIds">>)

RegisterRMRequestProto ==
  Message(<<"AbstractIdentifyRequest", "ResourceIds">>,
          <<"AbstractIdentifyRequestProto", "string">>,
          <<"AbstractIdentifyRequest", "ResourceIds">>)

RegisterRMResponseProto ==
  Wrapper("AbstractIdentifyResponse", "AbstractIdentifyResponseProto")

RegisterTMRequestProto ==
  Wrapper("AbstractIdentifyRequest", "AbstractIdentifyRequestProto")

RegisterTMResponseProto ==
  Wrapper("AbstractIdentifyResponse", "AbstractIdentifyResponseProto")

UndoLogDeleteRequestProto ==
  Message(<<"AbstractTransactionRequest", "ResourceId", "SaveDays",
            "BranchType">>,
          <<"AbstractTransactionRequestProto", "string", "int32",
            "BranchTypeProto">>,
          <<"AbstractTransactionRequest", "ResourceId", "SaveDays",
            "BranchType">>)

Enums ==
  [BranchStatusProto |-> BranchStatusProto,
   BranchTypeProto |-> BranchTypeProto,
   GlobalStatusProto |-> GlobalStatusProto,
   MessageTypeProto |-> MessageTypeProto, ResultCodeProto |-> ResultCodeProto,
   TransactionExceptionCodeProto |-> TransactionExceptionCodeProto]

Messages ==
  [AbstractBranchEndRequestProto |-> AbstractBranchEndRequestProto,
   AbstractBranchEndResponseProto |-> AbstractBranchEndResponseProto,
   AbstractGlobalEndRequestProto |-> AbstractGlobalEndRequestProto,
   AbstractGlobalEndResponseProto |-> AbstractGlobalEndResponseProto,
   AbstractIdentifyRequestProto |-> AbstractIdentifyRequestProto,
   AbstractIdentifyResponseProto |-> AbstractIdentifyResponseProto,
   AbstractMessageProto |-> AbstractMessageProto,
   AbstractResultMessageProto |-> AbstractResultMessageProto,
   AbstractTransactionRequestProto |-> AbstractTransactionRequestProto,
   AbstractTransactionResponseProto |-> AbstractTransactionResponseProto,
   BatchResultMessageProto |-> BatchResultMessageProto,
   BranchCommitRequestProto |-> BranchCommitRequestProto,
   BranchCommitResponseProto |-> BranchCommitResponseProto,
   BranchRegisterRequestProto |-> BranchRegisterRequestProto,
   BranchRegisterResponseProto |-> BranchRegisterResponseProto,
   BranchReportRequestProto |-> BranchReportRequestProto,
   BranchReportResponseProto |-> BranchReportResponseProto,
   BranchRollbackRequestProto |-> BranchRollbackRequestProto,
   BranchRollbackResponseProto |-> BranchRollbackResponseProto,
   GlobalBeginRequestProto |-> GlobalBeginRequestProto,
   GlobalBeginResponseProto |-> GlobalBeginResponseProto,
   GlobalCommitRequestProto |-> GlobalCommitRequestProto,
   GlobalCommitResponseProto |-> GlobalCommitResponseProto,
   GlobalLockQueryRequestProto |-> GlobalLockQueryRequestProto,
   GlobalLockQueryResponseProto |-> GlobalLockQueryResponseProto,
   GlobalReportRequestProto |-> GlobalReportRequestProto,
   GlobalReportResponseProto |-> GlobalReportResponseProto,
   GlobalRollbackRequestProto |-> GlobalRollbackRequestProto,
   GlobalRollbackResponseProto |-> GlobalRollbackResponseProto,
   GlobalStatusRequestProto |-> GlobalStatusRequestProto,
   GlobalStatusResponseProto |-> GlobalStatusResponseProto,
   GrpcMessageProto |-> GrpcMessageProto,
   HeartbeatMessageProto |-> HeartbeatMessageProto,
   MergedResultMessageProto |-> MergedResultMessageProto,
   MergedWarpMessageProto |-> MergedWarpMessageProto,
   RegisterRMRequestProto |-> RegisterRMRequestProto,
   RegisterRMResponseProto |-> RegisterRMResponseProto,
   RegisterTMRequestProto |-> RegisterTMRequestProto,
   RegisterTMResponseProto |-> RegisterTMResponseProto,
   UndoLogDeleteRequestProto |-> UndoLogDeleteRequestProto]
=============================================================================
