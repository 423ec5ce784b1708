----------------------------- MODULE ProtoFiles -----------------------------
(***************************************************************************)
(* The tables of the generated files protocol/grpc/.../transaction/*.pb.go *)
(* that package initialisation works with.  A file says everything twice:  *)
(* once in the serialised descriptor (_rawDesc), here its imports and the  *)
(* types its fields and methods refer to; and once in Go, here the         *)
(* initialisers it calls, its _goTypes and the indices into them           *)
(* (_depIdxs).  A file is named without its suffix, a type by the file     *)
(* that declares it: only grpcMessage declares a second one, the entries   *)
(* of a map.                                                               *)
(***************************************************************************)
EXTENDS Naturals, Sequences, TLC

\* goTypes: the types of the file itself, followed by those it refers to.
Generated(imports, refs, calls, goTypes, depIdxs) ==
  [imports |-> imports, refs |-> refs, calls |-> calls, goTypes |-> goTypes,
   depIdxs |-> depIdxs]

\* An enum, or a message without fields of message or enum type.
Leaf(type) == Generated(<<>>, <<>>, <<>>, <<type>>, <<>>)

abstractBranchEndRequest ==
  Generated(<<"abstractTransactionRequest", "branchType">>,
            <<"abstractTransactionRequest", "branchType">>,
            <<"abstractTransactionRequest", "branchType">>,
            <<"abstractBranchEndRequest", "abstractTransactionRequest",
              "branchType">>,
            <<1, 2>>)

abstractBranchEndResponse ==
  Generated(<<"abstractTransactionResponse", "branchStatus">>,
            <<"abstractTransactionResponse", "branchStatus">>,
            <<"abstractTransactionResponse", "branchStatus">>,
            <<"abstractBranchEndResponse", "abstractTransactionResponse",
              "branchStatus">>,
            <<1, 2>>)

abstractGlobalEndRequest ==
  Generated(<<"abstractTransactionRequest">>,
            <<"abstractTransactionRequest">>,
            <<"abstractTransactionRequest">>,
            <<"abstractGlobalEndRequest", "abstractTransactionRequest">>,
            <<1>>)

abstractGlobalEndResponse ==
  Generated(<<"abstractTransactionResponse", "globalStatus">>,
            <<"abstractTransactionResponse", "globalStatus">>,
            <<"abstractTransactionResponse", "globalStatus">>,
            <<"abstractGlobalEndResponse", "abstractTransactionResponse",
              "globalStatus">>,
            <<1, 2>>)

abstractIdentifyRequest ==
  Generated(<<"abstractMessage">>, <<"abstractMessage">>,
            <<"abstractMessage">>,
            <<"abstractIdentifyRequest", "abstractMessage">>, <<1>>)

abstractIdentifyResponse ==
  Generated(<<"abstractResultMessage">>, <<"abstractResultMessage">>,
            <<"abstractResultMessage">>,
            <<"abstractIdentifyResponse", "abstractResultMessage">>, <<1>>)

\* Mutant: the file does not initialise the enum it refers to.
MutantForgottenCall ==
  Generated(<<"messageType">>, <<"messageType">>, <<>>,
            <<"abstractMessage", "messageType">>, <<1>>)

\* Mutant: the file initialises one of its users.
MutantCyclicCall ==
  Generated(<<"messageType">>, <<"messageType">>,
            <<"abstractTransactionRequest">>,
            <<"abstractMessage", "messageType">>, <<1>>)

abstractMessage ==
  Generated(<<"messageType">>, <<"messageType">>, <<"messageType">>,
            <<"abstractMessage", "messageType">>, <<1>>)

abstractResultMessage ==
  Generated(<<"resultCode", "abstractMessage">>,
            <<"abstractMessage", "resultCode">>,
            <<"resultCode", "abstractMessage">>,
            <<"abstractResultMessage", "abstractMessage", "resultCode">>,
            <<1, 2>>)

abstractTransactionRequest ==
  Generated(<<"abstractMessage">>, <<"abstractMessage">>,
            <<"abstractMessage">>,
            <<"abstractTransactionRequest", "abstractMessage">>, <<1>>)

abstractTransactionResponse ==
  Generated(<<"abstractResultMessage", "transactionExceptionCode">>,
            <<"abstractResultMessage", "transactionExceptionCode">>,
            <<"abstractResultMessage", "transactionExceptionCode">>,
            <<"abstractTransactionResponse", "abstractResultMessage",
              "transactionExceptionCode">>,
            <<1, 2>>)

batchResultMessage ==
  Generated(<<"abstractMessage", "any">>, <<"abstractMessage", "any">>,
            <<"abstractMessage">>,
            <<"batchResultMessage", "abstractMessage", "any">>, <<1, 2>>)

branchCommitRequest ==
  Generated(<<"abstractBranchEndRequest">>, <<"abstractBranchEndRequest">>,
            <<"abstractBranchEndRequest">>,
            <<"branchCommitRequest", "abstractBranchEndRequest">>, <<1>>)

branchCommitResponse ==
  Generated(<<"abstractBranchEndResponse">>, <<"abstractBranchEndResponse">>,
            <<"abstractBranchEndResponse">>,
            <<"branchCommitResponse", "abstractBranchEndResponse">>, <<1>>)

branchRegisterRequest ==
  Generated(<<"branchType", "abstractTransactionRequest">>,
            <<"abstractTransactionRequest", "branchType">>,
            <<"branchType", "abstractTransactionRequest">>,
            <<"branchRegisterRequest", "abstractTransactionRequest",
              "branchType">>,
            <<1, 2>>)

branchRegisterResponse ==
  Generated(<<"abstractTransactionResponse">>,
            <<"abstractTransactionResponse">>,
            <<"abstractTransactionResponse">>,
            <<"branchRegisterResponse", "abstractTransactionResponse">>,
            <<1>>)

\* Mutant: two indices into goTypes swapped.
MutantSwappedIndices ==
  Generated(<<"branchStatus", "branchType", "abstractTransactionRequest">>,
            <<"abstractTransactionRequest", "branchStatus", "branchType">>,
            <<"branchStatus", "branchType", "abstractTransactionRequest">>,
            <<"branchReportRequest", "abstractTransactionRequest",
              "branchStatus", "branchType">>,
            <<1, 3, 2>>)

branchReportRequest ==
  Generated(<<"branchStatus", "branchType", "abstractTransactionRequest">>,
            <<"abstractTransactionRequest", "branchStatus", "branchType">>,
            <<"branchStatus", "branchType", "abstractTransactionRequest">>,
            <<"branchReportRequest", "abstractTransactionRequest",
              "branchStatus", "branchType">>,
            <<1, 2, 3>>)

branchReportResponse ==
  Generated(<<"abstractTransactionResponse">>,
            <<"abstractTransactionResponse">>,
            <<"abstractTransactionResponse">>,
            <<"branchReportResponse", "abstractTransactionResponse">>, <<1>>)

branchRollbackRequest ==
  Generated(<<"abstractBranchEndRequest">>, <<"abstractBranchEndRequest">>,
            <<"abstractBranchEndRequest">>,
            <<"branchRollbackRequest", "abstractBranchEndRequest">>, <<1>>)

branchRollbackResponse ==
  Generated(<<"abstractBranchEndResponse">>, <<"abstractBranchEndResponse">>,
            <<"abstractBranchEndResponse">>,
            <<"branchRollbackResponse", "abstractBranchEndResponse">>, <<1>>)

branchStatus == Leaf("branchStatus")

branchType == Leaf("branchType")

globalBeginRequest ==
  Generated(<<"abstractTransactionRequest">>,
            <<"abstractTransactionRequest">>,
            <<"abstractTransactionRequest">>,
            <<"globalBeginRequest", "abstractTransactionRequest">>, <<1>>)

globalBeginResponse ==
  Generated(<<"abstractTransactionResponse">>,
            <<"abstractTransactionResponse">>,
            <<"abstractTransactionResponse">>,
            <<"globalBeginResponse", "abstractTransactionResponse">>, <<1>>)

globalCommitRequest ==
  Generated(<<"abstractGlobalEndRequest">>, <<"abstractGlobalEndRequest">>,
            <<"abstractGlobalEndRequest">>,
            <<"globalCommitRequest", "abstractGlobalEndRequest">>, <<1>>)

globalCommitResponse ==
  Generated(<<"abstractGlobalEndResponse">>, <<"abstractGlobalEndResponse">>,
            <<"abstractGlobalEndResponse">>,
            <<"globalCommitResponse", "abstractGlobalEndResponse">>, <<1>>)

globalLockQueryRequest ==
  Generated(<<"branchRegisterRequest">>, <<"branchRegisterRequest">>,
            <<"branchRegisterRequest">>,
            <<"globalLockQueryRequest", "branchRegisterRequest">>, <<1>>)

globalLockQueryResponse ==
  Generated(<<"abstractTransactionResponse">>,
            <<"abstractTransactionResponse">>,
            <<"abstractTransactionResponse">>,
            <<"globalLockQueryResponse", "abstractTransactionResponse">>,
            <<1>>)

globalReportRequest ==
  Generated(<<"abstractGlobalEndRequest", "globalStatus">>,
            <<"abstractGlobalEndRequest", "globalStatus">>,
            <<"abstractGlobalEndRequest", "globalStatus">>,
            <<"globalReportRequest", "abstractGlobalEndRequest",
              "globalStatus">>,
            <<1, 2>>)

globalReportResponse ==
  Generated(<<"abstractGlobalEndResponse">>, <<"abstractGlobalEndResponse">>,
            <<"abstractGlobalEndResponse">>,
            <<"globalReportResponse", "abstractGlobalEndResponse">>, <<1>>)

globalRollbackRequest ==
  Generated(<<"abstractGlobalEndRequest">>, <<"abstractGlobalEndRequest">>,
            <<"abstractGlobalEndRequest">>,
            <<"globalRollbackRequest", "abstractGlobalEndRequest">>, <<1>>)

globalRollbackResponse ==
  Generated(<<"abstractGlobalEndResponse">>, <<"abstractGlobalEndResponse">>,
            <<"abstractGlobalEndResponse">>,
            <<"globalRollbackResponse", "abstractGlobalEndResponse">>, <<1>>)

globalStatus == Leaf("globalStatus")

globalStatusRequest ==
  Generated(<<"abstractGlobalEndRequest">>, <<"abstractGlobalEndRequest">>,
            <<"abstractGlobalEndRequest">>,
            <<"globalStatusRequest", "abstractGlobalEndRequest">>, <<1>>)

globalStatusResponse ==
  Generated(<<"abstractGlobalEndResponse">>, <<"abstractGlobalEndResponse">>,
            <<"abstractGlobalEndResponse">>,
            <<"globalStatusResponse", "abstractGlobalEndResponse">>, <<1>>)

grpcMessage ==
  Generated(<<>>, <<"HeadMapEntry", "grpcMessage", "grpcMessage">>, <<>>,
            <<"grpcMessage", "HeadMapEntry">>, <<1, 0, 0>>)

heartbeatMessage == Leaf("heartbeatMessage")

mergedResultMessage ==
  Generated(<<"abstractMessage", "any">>, <<"abstractMessage", "any">>,
            <<"abstractMessage">>,
            <<"mergedResultMessage", "abstractMessage", "any">>, <<1, 2>>)

mergedWarpMessage ==
  Generated(<<"abstractMessage", "any">>, <<"abstractMessage", "any">>,
            <<"abstractMessage">>,
            <<"mergedWarpMessage", "abstractMessage", "any">>, <<1, 2>>)

messageType == Leaf("messageType")

registerRMRequest ==
  Generated(<<"abstractIdentifyRequest">>, <<"abstractIdentifyRequest">>,
            <<"abstractIdentifyRequest">>,
            <<"registerRMRequest", "abstractIdentifyRequest">>, <<1>>)

registerRMResponse ==
  Generated(<<"abstractIdentifyResponse">>, <<"abstractIdentifyResponse">>,
            <<"abstractIdentifyResponse">>,
            <<"registerRMResponse", "abstractIdentifyResponse">>, <<1>>)

registerTMRequest ==
  Generated(<<"abstractIdentifyRequest">>, <<"abstractIdentifyRequest">>,
            <<"abstractIdentifyRequest">>,
            <<"registerTMRequest", "abstractIdentifyRequest">>, <<1>>)

registerTMResponse ==
  Generated(<<"abstractIdentifyResponse">>, <<"abstractIdentifyResponse">>,
            <<"abstractIdentifyResponse">>,
            <<"registerTMResponse", "abstractIdentifyResponse">>, <<1>>)

resultCode == Leaf("resultCode")

transactionExceptionCode == Leaf("transactionExceptionCode")

undoLogDeleteRequest ==
  Generated(<<"abstractTransactionRequest", "branchType">>,
            <<"abstractTransactionRequest", "branchType">>,
            <<"abstractTransactionRequest", "branchType">>,
            <<"undoLogDeleteRequest", "abstractTransactionRequest",
              "branchType">>,
            <<1, 2>>)

GeneratedFiles ==
  [abstractBranchEndRequest |-> abstractBranchEndRequest,
   abstractBranchEndResponse |-> abstractBranchEndResponse,
   abstractGlobalEndRequest |-> abstractGlobalEndRequest,
   abstractGlobalEndResponse |-> abstractGlobalEndResponse,
   abstractIdentifyRequest |-> abstractIdentifyRequest,
   abstractIdentifyResponse |-> abstractIdentifyResponse,
   abstractMessage |-> abstractMessage,
   abstractResultMessage |-> abstractResultMessage,
   abstractTransactionRequest |-> abstractTransactionRequest,
   abstractTransactionResponse |-> abstractTransactionResponse,
   batchResultMessage |-> batchResultMessage,
   branchCommitRequest |-> branchCommitRequest,
   branchCommitResponse |-> branchCommitResponse,
   branchRegisterRequest |-> branchRegisterRequest,
   branchRegisterResponse |-> branchRegisterResponse,
   branchReportRequest |-> branchReportRequest,
   branchReportResponse |-> branchReportResponse,
   branchRollbackRequest |-> branchRollbackRequest,
   branchRollbackResponse |-> branchRollbackResponse,
   branchStatus |-> branchStatus, branchType |-> branchType,
   globalBeginRequest |-> globalBeginRequest,
   globalBeginResponse |-> globalBeginResponse,
   globalCommitRequest |-> globalCommitRequest,
   globalCommitResponse |-> globalCommitResponse,
   globalLockQueryRequest |-> globalLockQueryRequest,
   globalLockQueryResponse |-> globalLockQueryResponse,
   globalReportRequest |-> globalReportRequest,
   globalReportResponse |-> globalReportResponse,
   globalRollbackRequest |-> globalRollbackRequest,
   globalRollbackResponse |-> globalRollbackResponse,
   globalStatus |-> globalStatus, globalStatusRequest |-> globalStatusRequest,
   globalStatusResponse |-> globalStatusResponse, grpcMessage |-> grpcMessage,
   heartbeatMessage |-> heartbeatMessage,
   mergedResultMessage |-> mergedResultMessage,
   mergedWarpMessage |-> mergedWarpMessage, messageType |-> messageType,
   registerRMRequest |-> registerRMRequest,
   registerRMResponse |-> registerRMResponse,
   registerTMRequest |-> registerTMRequest,
   registerTMResponse |-> registerTMResponse, resultCode |-> resultCode,
   transactionExceptionCode |-> transactionExceptionCode,
   undoLogDeleteRequest |-> undoLogDeleteRequest]

\* The go tool presents the files of a package to the compiler sorted by name,
\* and the init functions run in the order of presentation.
SortedFiles ==
  <<"abstractBranchEndRequest", "abstractBranchEndResponse",
    "abstractGlobalEndRequest", "abstractGlobalEndResponse",
    "abstractIdentifyRequest", "abstractIdentifyResponse", "abstractMessage",
    "abstractResultMessage", "abstractTransactionRequest",
    "abstractTransactionResponse", "batchResultMessage",
    "branchCommitRequest", "branchCommitResponse", "branchRegisterRequest",
    "branchRegisterResponse", "branchReportRequest", "branchReportResponse",
    "branchRollbackRequest", "branchRollbackResponse", "branchStatus",
    "branchType", "globalBeginRequest", "globalBeginResponse",
    "globalCommitRequest", "globalCommitResponse", "globalLockQueryRequest",
    "globalLockQueryResponse", "globalReportRequest", "globalReportResponse",
    "globalRollbackRequest", "globalRollbackResponse", "globalStatus",
    "globalStatusRequest", "globalStatusResponse", "grpcMessage",
    "heartbeatMessage", "mergedResultMessage", "mergedWarpMessage",
    "messageType", "registerRMRequest", "registerRMResponse",
    "registerTMRequest", "registerTMResponse", "resultCode",
    "transactionExceptionCode", "undoLogDeleteRequest">>
=============================================================================
