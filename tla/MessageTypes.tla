---------------------------- MODULE MessageTypes ----------------------------
(***************************************************************************)
(* The messages of protocol/message: the type code each one answers to     *)
(* GetTypeCode and the fields it carries (embedded structs flattened).     *)
(***************************************************************************)
EXTENDS Integers

\* constant.go: iota restarts the numbering at four places.
MessageType ==
  [GlobalBegin |-> 1, GlobalBeginResult |-> 2,
   BranchCommit |-> 3, BranchCommitResult |-> 4,
   BranchRollback |-> 5, BranchRollbackResult |-> 6,
   GlobalCommit |-> 7, GlobalCommitResult |-> 8,
   GlobalRollback |-> 9, GlobalRollbackResult |-> 10,
   BranchRegister |-> 11, BranchRegisterResult |-> 12,
   BranchStatusReport |-> 13, BranchStatusReportResult |-> 14,
   GlobalStatus |-> 15, GlobalStatusResult |-> 16,
   GlobalReport |-> 17, GlobalReportResult |-> 18,
   GlobalLockQuery |-> 21, GlobalLockQueryResult |-> 22,
   SeataMerge |-> 59, SeataMergeResult |-> 60,
   RegClt |-> 101, RegCltResult |-> 102, RegRm |-> 103, RegRmResult |-> 104,
   RmDeleteUndolog |-> 111, HeartbeatMsg |-> 120, BatchResultMsg |-> 121]

\* message/constant.go and branch/branch.go, without the prefix of the names.
GlobalStatus ==
  [UnKnown |-> 0, Begin |-> 1, Committing |-> 2, CommitRetrying |-> 3,
   Rollbacking |-> 4, RollbackRetrying |-> 5, TimeoutRollbacking |-> 6,
   TimeoutRollbackRetrying |-> 7, AsyncCommitting |-> 8, Committed |-> 9,
   CommitFailed |-> 10, Rollbacked |-> 11, RollbackFailed |-> 12,
   TimeoutRollbacked |-> 13, TimeoutRollbackFailed |-> 14, Finished |-> 15]

BranchType == [Unknow |-> -1, AT |-> 0, TCC |-> 1, SAGA |-> 2, XA |-> 3]

BranchStatus ==
  [Unknown |-> 0, Registered |-> 1, PhaseoneDone |-> 2, PhaseoneFailed |-> 3,
   PhaseoneTimeout |-> 4, PhasetwoCommitted |-> 5,
   PhasetwoCommitFailedRetryable |-> 6,
   PhasetwoCommitFailedUnretryable |-> 7, PhasetwoRollbacked |-> 8,
   PhasetwoRollbackFailedRetryable |-> 9,
   PhasetwoRollbackFailedUnretryable |-> 10]

ResultCodeFailed == 0
ResultCodeSuccess == 1

Struct(code, fields) == [typeCode |-> code, fields |-> fields]

AbstractBranchEndRequest ==
  {"Xid", "BranchId", "BranchType", "ResourceId", "ApplicationData"}
AbstractGlobalEndRequest == {"Xid", "ExtraData"}
BranchRegisterRequest ==
  {"Xid", "BranchType", "ResourceId", "LockKey", "ApplicationData"}
AbstractIdentifyRequest ==
  {"Version", "ApplicationId", "TransactionServiceGroup", "ExtraData"}

RequestMessages ==
  [GlobalBeginRequest |->
     Struct(MessageType.GlobalBegin, {"Timeout", "TransactionName"}),
   GlobalCommitRequest |->
     Struct(MessageType.GlobalCommit, AbstractGlobalEndRequest),
   GlobalRollbackRequest |->
     Struct(MessageType.GlobalRollback, AbstractGlobalEndRequest),
   GlobalStatusRequest |->
     Struct(MessageType.GlobalStatus, AbstractGlobalEndRequest),
   GlobalReportRequest |->
     Struct(MessageType.GlobalReport,
            AbstractGlobalEndRequest \cup {"GlobalStatus"}),
   GlobalLockQueryRequest |->
     Struct(MessageType.GlobalLockQuery, BranchRegisterRequest),
   BranchRegisterRequest |->
     Struct(MessageType.BranchRegister, BranchRegisterRequest),
   BranchReportRequest |->
     Struct(MessageType.BranchStatusReport,
            {"Xid", "BranchId", "ResourceId", "Status", "ApplicationData",
             "BranchType"}),
   BranchCommitRequest |->
     Struct(MessageType.BranchCommit, AbstractBranchEndRequest),
   BranchRollbackRequest |->
     Struct(MessageType.BranchRollback, AbstractBranchEndRequest),
   UndoLogDeleteRequest |->
     Struct(MessageType.RmDeleteUndolog,
            {"ResourceId", "SaveDays", "BranchType"}),
   RegisterTMRequest |-> Struct(MessageType.RegClt, AbstractIdentifyRequest),
   RegisterRMRequest |->
     Struct(MessageType.RegRm, AbstractIdentifyRequest \cup {"ResourceIds"})]

AbstractTransactionResponse == {"ResultCode", "Msg", "TransactionErrorCode"}
AbstractBranchEndResponse ==
  AbstractTransactionResponse \cup {"Xid", "BranchId", "BranchStatus"}
AbstractGlobalEndResponse == AbstractTransactionResponse \cup {"GlobalStatus"}
AbstractIdentifyResponse ==
  {"ResultCode", "Msg", "Version", "ExtraData", "Identified"}

ResponseMessages ==
  [GlobalBeginResponse |->
     Struct(MessageType.GlobalBeginResult,
            AbstractTransactionResponse \cup {"Xid", "ExtraData"}),
   GlobalCommitResponse |->
     Struct(MessageType.GlobalCommitResult, AbstractGlobalEndResponse),
   GlobalRollbackResponse |->
     Struct(MessageType.GlobalRollbackResult, AbstractGlobalEndResponse),
   GlobalStatusResponse |->
     Struct(MessageType.GlobalStatusResult, AbstractGlobalEndResponse),
   GlobalReportResponse |->
     Struct(MessageType.GlobalReportResult, AbstractGlobalEndResponse),
   GlobalLockQueryResponse |->
     Struct(MessageType.GlobalLockQueryResult,
            AbstractTransactionResponse \cup {"Lockable"}),
   BranchRegisterResponse |->
     Struct(MessageType.BranchRegisterResult,
            AbstractTransactionResponse \cup {"BranchId"}),
   BranchReportResponse |->
     Struct(MessageType.BranchStatusReportResult,
            AbstractTransactionResponse),
   BranchCommitResponse |->
     Struct(MessageType.BranchCommitResult, AbstractBranchEndResponse),
   BranchRollbackResponse |->
     Struct(MessageType.BranchRollbackResult, AbstractBranchEndResponse),
   RegisterTMResponse |->
     Struct(MessageType.RegCltResult, AbstractIdentifyResponse),
   RegisterRMResponse |->
     Struct(MessageType.RegRmResult, AbstractIdentifyResponse)]

\* Messages that carry other messages or none, and have no codec.
MergeMessages ==
  [MergedWarpMessage |-> Struct(MessageType.SeataMerge, {"Msgs", "MsgIds"}),
   MergeResultMessage |-> Struct(MessageType.SeataMergeResult, {"Msgs"})]

HeartBeatMessages ==
  [HeartBeatMessage |-> Struct(MessageType.HeartbeatMsg, {"Ping"})]

Messages ==
  [name \in DOMAIN RequestMessages \cup DOMAIN ResponseMessages
              \cup DOMAIN MergeMessages \cup DOMAIN HeartBeatMessages |->
     CASE name \in DOMAIN RequestMessages -> RequestMessages[name]
       [] name \in DOMAIN ResponseMessages -> ResponseMessages[name]
       [] name \in DOMAIN MergeMessages -> MergeMessages[name]
       [] name \in DOMAIN HeartBeatMessages -> HeartBeatMessages[name]]

GetTypeCode(name) == Messages[name].typeCode

----------------------------------------------------------------------------
\* Field types, and the zero value a Go struct starts with.
StringFields ==
  {"Xid", "ResourceId", "ApplicationData", "ExtraData", "LockKey", "Msg",
   "TransactionName", "Version", "ApplicationId", "TransactionServiceGroup",
   "ResourceIds"}
BooleanFields == {"Lockable", "Identified", "Ping"}

Zero(name) ==
  [f \in Messages[name].fields |->
     IF f \in StringFields THEN <<>>
     ELSE IF f \in BooleanFields THEN FALSE ELSE 0]
=============================================================================
