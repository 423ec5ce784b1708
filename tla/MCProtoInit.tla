---------------------------- MODULE MCProtoInit ----------------------------
(***************************************************************************)
(* Values for ProtoInit: all generated files in the order of the go tool,  *)
(* or a branch of the import graph in any order.                           *)
(***************************************************************************)
EXTENDS ProtoInit, ProtoFiles

AllFiles == DOMAIN GeneratedFiles
Sorted ==
  {<<SortedFiles[i], SortedFiles[j]>> : <<i, j>> \in
     {p \in (1 .. Len(SortedFiles)) \X (1 .. Len(SortedFiles)) : p[1] < p[2]}}

\* Everything the report of a branch's status rests on, and its answer.
ReportFiles ==
  {"branchReportRequest", "branchReportResponse", "branchStatus", "branchType",
   "abstractTransactionRequest", "abstractTransactionResponse",
   "abstractMessage", "abstractResultMessage", "messageType", "resultCode",
   "transactionExceptionCode"}
Unsorted == {}

TwoFiles == {"branchStatus", "branchReportRequest"}
=============================================================================
