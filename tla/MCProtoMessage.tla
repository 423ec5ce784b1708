--------------------------- MODULE MCProtoMessage ---------------------------
(* Values for the constants of ProtoMessage, and how the protobuf binding   *)
(* relates to the messages of protocol/message.                             *)
EXTENDS ProtoMessage, Functions

CONSTANTS g1, g2

MCGoroutines == {g1, g2}
MCSymmetry == Permutations(MCGoroutines)

\* The messages in a message, by the fields that lead to them.
RECURSIVE Nested(_)
Nested(k) ==
  {<<>>} \cup UNION {{<<f>> \o p : p \in Nested(TypeOf(k, f))} :
                       f \in Fields(k) \ Scalars(k)}

\* Contents: nothing or everything set, but for one field.
Full(k) ==
  [p \in Nested(k) |->
     [f \in Scalars(TypeAt(k, p)) |->
        LET t == TypeOf(TypeAt(k, p), f)
        IN  IF IsEnum(t)
            THEN CHOOSE c \in {Enums[t][e] : e \in DOMAIN Enums[t]} : c # 0
            ELSE f]]

\* x with its field f pointing to y, or to nothing when y is empty.
Graft(x, f, y) ==
  LET below(p) == p # <<>> /\ p[1] = f
  IN  [p \in {p \in DOMAIN x : ~below(p)} \cup {<<f>> \o p : p \in DOMAIN y} |->
         IF below(p) THEN y[Tail(p)] ELSE x[p]]

Variants(k, x, f) ==
  LET t == TypeOf(k, f)
  IN  IF IsMessage(t) THEN {Graft(x, f, y) : y \in {<<>>, New(t), Full(t)}}
      ELSE {[x EXCEPT ![<<>>][f] = c] :
              c \in IF IsEnum(t) THEN {Enums[t][e] : e \in DOMAIN Enums[t]}
                    ELSE {Zero(t), f}}

MCContents(k) ==
  UNION {Variants(k, x, f) : x \in {New(k), Full(k)}, f \in Fields(k)}
----------------------------------------------------------------------------
(* The two bindings of the protocol: a program that speaks both copies      *)
(* numbers and fields from one to the other.                                *)

Seata == INSTANCE MessageTypes

\* Names of the one enum in the other.
MessageTypeName ==
  [TYPE_GLOBAL_BEGIN |-> "GlobalBegin",
   TYPE_GLOBAL_BEGIN_RESULT |-> "GlobalBeginResult",
   TYPE_GLOBAL_COMMIT |-> "GlobalCommit",
   TYPE_GLOBAL_COMMIT_RESULT |-> "GlobalCommitResult",
   TYPE_GLOBAL_ROLLBACK |-> "GlobalRollback",
   TYPE_GLOBAL_ROLLBACK_RESULT |-> "GlobalRollbackResult",
   TYPE_GLOBAL_STATUS |-> "GlobalStatus",
   TYPE_GLOBAL_STATUS_RESULT |-> "GlobalStatusResult",
   TYPE_GLOBAL_REPORT |-> "GlobalReport",
   TYPE_GLOBAL_REPORT_RESULT |-> "GlobalReportResult",
   TYPE_GLOBAL_LOCK_QUERY |-> "GlobalLockQuery",
   TYPE_GLOBAL_LOCK_QUERY_RESULT |-> "GlobalLockQueryResult",
   TYPE_BRANCH_COMMIT |-> "BranchCommit",
   TYPE_BRANCH_COMMIT_RESULT |-> "BranchCommitResult",
   TYPE_BRANCH_ROLLBACK |-> "BranchRollback",
   TYPE_BRANCH_ROLLBACK_RESULT |-> "BranchRollbackResult",
   TYPE_BRANCH_REGISTER |-> "BranchRegister",
   TYPE_BRANCH_REGISTER_RESULT |-> "BranchRegisterResult",
   TYPE_BRANCH_STATUS_REPORT |-> "BranchStatusReport",
   TYPE_BRANCH_STATUS_REPORT_RESULT |-> "BranchStatusReportResult",
   TYPE_SEATA_MERGE |-> "SeataMerge",
   TYPE_SEATA_MERGE_RESULT |-> "SeataMergeResult", TYPE_REG_CLT |-> "RegClt",
   TYPE_REG_CLT_RESULT |-> "RegCltResult", TYPE_REG_RM |-> "RegRm",
   TYPE_REG_RM_RESULT |-> "RegRmResult",
   TYPE_UNDO_LOG_DELETE |-> "RmDeleteUndolog",
   TYPE_BATCH_RESULT_MSG |-> "BatchResultMsg"]

BranchStatusName ==
  [BUnknown |-> "Unknown", Registered |-> "Registered",
   PhaseOne_Done |-> "PhaseoneDone", PhaseOne_Failed |-> "PhaseoneFailed",
   PhaseOne_Timeout |-> "PhaseoneTimeout",
   PhaseTwo_Committed |-> "PhasetwoCommitted",
   PhaseTwo_CommitFailed_Retryable |-> "PhasetwoCommitFailedRetryable",
   PhaseTwo_CommitFailed_Unretryable |-> "PhasetwoCommitFailedUnretryable",
   PhaseTwo_Rollbacked |-> "PhasetwoRollbacked",
   PhaseTwo_RollbackFailed_Retryable |-> "PhasetwoRollbackFailedRetryable",
   PhaseTwo_RollbackFailed_Unretryable |-> "PhasetwoRollbackFailedUnretryable"]

NumbersKept(numbers, name, others) ==
  \A c \in DOMAIN name : numbers[c] = others[name[c]]

\* Numbers mean the same, but each binding has some of its own.
ASSUME EnumsAgree ==
  /\ NumbersKept(MessageTypeProto, MessageTypeName, Seata!MessageType)
  /\ DOMAIN MessageTypeProto \ DOMAIN MessageTypeName
       = {"TYPE_GLOBAL_PRESERVED"}
  /\ DOMAIN Seata!MessageType \ Range(MessageTypeName) = {"HeartbeatMsg"}
  /\ NumbersKept(BranchStatusProto, BranchStatusName, Seata!BranchStatus)
  /\ DOMAIN BranchStatusProto \ DOMAIN BranchStatusName = {"PhaseOne_RDONLY"}
  /\ BranchTypeProto = [c \in {"AT", "TCC", "SAGA"} |-> Seata!BranchType[c]]
  /\ GlobalStatusProto = Seata!GlobalStatus
  /\ ResultCodeProto = [Failed |-> Seata!ResultCodeFailed,
                         Success |-> Seata!ResultCodeSuccess]

\* The fields of a message and of the messages in it, without its type code.
Leaves(k) ==
  UNION {Scalars(TypeAt(k, p)) : p \in Nested(k)} \ {"MessageType"}

\* What a request or response carries it carries in both bindings.
ASSUME FieldsAgree ==
  LET renamed(f) == IF f = "TransactionErrorCode"
                    THEN "TransactionExceptionCode" ELSE f
  IN  \A name \in DOMAIN Seata!RequestMessages \cup
                   DOMAIN Seata!ResponseMessages :
        Leaves(name \o "Proto") =
          {renamed(f) : f \in Seata!Messages[name].fields}
=============================================================================
