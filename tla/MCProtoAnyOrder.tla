-------------------------- MODULE MCProtoAnyOrder --------------------------
(***************************************************************************)
(* A branch of the import graph in any order; and a check that the tables  *)
(* of all generated files are as the theorems of ProtoInitProofs assume.   *)
(***************************************************************************)
EXTENDS MCProtoInit, FiniteSetsExt

All == INSTANCE ProtoInit
         WITH File <- AllFiles, ProtoFile <- GeneratedFiles, Before <- Sorted

\* How deep the calls of a file go.
Depth[f \in AllFiles] ==
  IF All!Calls(f) = <<>> THEN 0
  ELSE 1 + Max({Depth[All!Calls(f)[i]] : i \in DOMAIN All!Calls(f)})

ASSUME RealTables == All!CallsImports /\ All!TablesAgree /\ All!Ranks(Depth)
=============================================================================
