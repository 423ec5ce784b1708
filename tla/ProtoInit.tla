----------------------------- MODULE ProtoInit -----------------------------
(***************************************************************************)
(* The generated protobuf files at run time.                               *)
(*                                                                         *)
(* At package initialisation one goroutine runs the init function of every *)
(* file.  file_X_proto_init returns at once if X is built; otherwise it    *)
(* calls the initialisers of the files X imports, builds X's types from    *)
(* its tables, and drops the tables.  Nothing marks a file whose           *)
(* initialiser is under way.                                               *)
(*                                                                         *)
(* Afterwards any goroutine may ask for the compressed descriptor of a     *)
(* file (Descriptor, EnumDescriptor): the first one compresses it, in      *)
(* place, inside a sync.Once.                                              *)
(*                                                                         *)
(* TypeBuilder.Build and CompressGZIP are external; Build is taken to read *)
(* its tables once and to resolve every reference through them.            *)
(***************************************************************************)
EXTENDS Naturals, Sequences

CONSTANTS
  File,        \* the generated files
  ProtoFile,   \* their tables, see ProtoFiles
  Before,      \* <<f, g>>: the init function of f runs before that of g
  Goroutine,   \* the goroutines of the program
  Asked,       \* bound: the files whose descriptors they ask for
  MaxDepth     \* bound on the depth of nested initialisers (Go: the stack)

ASSUME ProtoInitAssumption ==
  /\ \A f \in File : ProtoFile[f].calls \in Seq(File)
  /\ Before \subseteq File \X File
  /\ Asked \subseteq File /\ Asked # {}
  /\ MaxDepth \in Nat

VARIABLES
  pending,       \* init functions that have not run
  stack,         \* active initialisers: the file, and the step it comes to
  descriptor,    \* File_X_proto: NotBuilt, or the types X's references mean
  tables,        \* X's _rawDesc, _goTypes and _depIdxs are still there
  rawDescOnce,   \* "new", "running" or "done"
  rawDescData,   \* "raw", "gzip", or something no reader can use
  pc,            \* where a goroutine is in file_X_proto_rawDescGZIP
  asked,         \* the file it asks for
  answer         \* what it was given last

initVars == <<pending, stack, descriptor, tables>>
gzipVars == <<rawDescOnce, rawDescData, pc, asked, answer>>
protoVars == <<initVars, gzipVars>>

NotBuilt == <<"not built">>
Garbage == <<"built from nil">>

Init ==
  /\ pending = File
  /\ stack = <<>>
  /\ descriptor = [f \in File |-> NotBuilt]
  /\ tables = [f \in File |-> TRUE]
  /\ rawDescOnce = [f \in File |-> "new"]
  /\ rawDescData = [f \in File |-> "raw"]
  /\ pc = [g \in Goroutine |-> "idle"]
  /\ asked = [g \in Goroutine |-> CHOOSE f \in Asked : TRUE]
  /\ answer = [g \in Goroutine |-> "none"]

----------------------------------------------------------------------------
\* file_X_proto_init

Frame(f) == [file |-> f, step |-> 0]
Top == stack[Len(stack)]
Callers == SubSeq(stack, 1, Len(stack) - 1)
Calls(f) == ProtoFile[f].calls

RunInit(f) ==
  /\ stack = <<>>
  /\ f \in pending
  /\ \A g \in pending : <<g, f>> \notin Before
  /\ pending' = pending \ {f}
  /\ stack' = <<Frame(f)>>
  /\ UNCHANGED <<descriptor, tables, gzipVars>>

\* Mutant: a file that is built is built again.
MutantNoGuard ==
  /\ stack # <<>>
  /\ Top.step = 0
  /\ stack' = Append(Callers, [Top EXCEPT !.step = 1])
  /\ UNCHANGED <<pending, descriptor, tables, gzipVars>>

CheckBuilt ==
  /\ stack # <<>>
  /\ Top.step = 0
  /\ stack' = IF descriptor[Top.file] # NotBuilt
              THEN Callers
              ELSE Append(Callers, [Top EXCEPT !.step = 1])
  /\ UNCHANGED <<pending, descriptor, tables, gzipVars>>

CallImport ==
  /\ stack # <<>>
  /\ Top.step \in DOMAIN Calls(Top.file)
  /\ Len(stack) < MaxDepth
  /\ stack' = Append(Append(Callers, [Top EXCEPT !.step = @ + 1]),
                     Frame(Calls(Top.file)[Top.step]))
  /\ UNCHANGED <<pending, descriptor, tables, gzipVars>>

\* The references of a file, through its indices (which count from zero).
Resolve(f) ==
  [i \in DOMAIN ProtoFile[f].depIdxs |->
     ProtoFile[f].goTypes[ProtoFile[f].depIdxs[i] + 1]]

\* What a file refers to is not taken for one of the markers.
ASSUME ResolveAssumption ==
  \A f \in File : Resolve(f) \notin {NotBuilt, Garbage}

\* Mutant: a file is built with calls still to make.
MutantBuildEarly ==
  /\ stack # <<>>
  /\ Top.step \in 1 .. Len(Calls(Top.file)) + 1
  /\ descriptor' = [descriptor EXCEPT ![Top.file] = Resolve(Top.file)]
  /\ tables' = [tables EXCEPT ![Top.file] = FALSE]
  /\ stack' = Callers
  /\ UNCHANGED <<pending, gzipVars>>

Build ==
  /\ stack # <<>>
  /\ Top.step = Len(Calls(Top.file)) + 1
  /\ descriptor' = [descriptor EXCEPT ![Top.file] =
                      IF tables[Top.file] THEN Resolve(Top.file) ELSE Garbage]
  /\ tables' = [tables EXCEPT ![Top.file] = FALSE]
  /\ stack' = Callers
  /\ UNCHANGED <<pending, gzipVars>>

Initialised == pending = {} /\ stack = <<>>

InitStep == (\E f \in File : RunInit(f)) \/ CheckBuilt \/ CallImport \/ Build

----------------------------------------------------------------------------
\* file_X_proto_rawDescGZIP

Goto(g, label) == pc' = [pc EXCEPT ![g] = label]

Ask(g) ==
  /\ Initialised
  /\ pc[g] = "idle"
  /\ \E f \in Asked : asked' = [asked EXCEPT ![g] = f]
  /\ Goto(g, "once")
  /\ UNCHANGED <<initVars, rawDescOnce, rawDescData, answer>>

\* Mutant: a plain flag that is set when the work is done.
MutantFlag(g) ==
  /\ pc[g] = "once"
  /\ rawDescOnce[asked[g]] = "new"
  /\ Goto(g, "compress")
  /\ UNCHANGED <<initVars, rawDescOnce, rawDescData, asked, answer>>

RunOnce(g) ==
  /\ pc[g] = "once"
  /\ rawDescOnce[asked[g]] = "new"
  /\ rawDescOnce' = [rawDescOnce EXCEPT ![asked[g]] = "running"]
  /\ Goto(g, "compress")
  /\ UNCHANGED <<initVars, rawDescData, asked, answer>>

\* Whoever comes while another goroutine compresses waits for it.
SkipOnce(g) ==
  /\ pc[g] = "once"
  /\ rawDescOnce[asked[g]] = "done"
  /\ Goto(g, "return")
  /\ UNCHANGED <<initVars, rawDescOnce, rawDescData, asked, answer>>

Gzip(data) == IF data = "raw" THEN "gzip" ELSE "unusable"

Compress(g) ==
  /\ pc[g] = "compress"
  /\ rawDescData' = [rawDescData EXCEPT ![asked[g]] = Gzip(@)]
  /\ Goto(g, "finish")
  /\ UNCHANGED <<initVars, rawDescOnce, asked, answer>>

\* Mutant: Once is not marked done.
MutantNeverDone(g) ==
  /\ pc[g] = "finish"
  /\ Goto(g, "return")
  /\ UNCHANGED <<initVars, rawDescOnce, rawDescData, asked, answer>>

FinishOnce(g) ==
  /\ pc[g] = "finish"
  /\ rawDescOnce' = [rawDescOnce EXCEPT ![asked[g]] = "done"]
  /\ Goto(g, "return")
  /\ UNCHANGED <<initVars, rawDescData, asked, answer>>

ReturnDescriptor(g) ==
  /\ pc[g] = "return"
  /\ answer' = [answer EXCEPT ![g] = rawDescData[asked[g]]]
  /\ Goto(g, "idle")
  /\ UNCHANGED <<initVars, rawDescOnce, rawDescData, asked>>

GzipStep(g) ==
  RunOnce(g) \/ SkipOnce(g) \/ Compress(g) \/ FinishOnce(g)
  \/ ReturnDescriptor(g)

Next == InitStep \/ \E g \in Goroutine : Ask(g) \/ GzipStep(g)

Spec == Init /\ [][Next]_protoVars

\* The runtime runs all init functions; a goroutine that asks goes on.
FairSpec ==
  /\ Spec
  /\ WF_protoVars(InitStep)
  /\ \A g \in Goroutine : WF_protoVars(GzipStep(g))

----------------------------------------------------------------------------
(* What the theorems ask of the generated tables; MCProtoAnyOrder checks  *)
(* it of the real ones.                                                    *)

\* A file calls the initialisers of the files it imports.
CallsImports ==
  \A f \in File : \A i \in DOMAIN ProtoFile[f].imports :
    ProtoFile[f].imports[i] \in File =>
      \E j \in DOMAIN Calls(f) : Calls(f)[j] = ProtoFile[f].imports[i]

\* The Go tables of a file mean what its serialised descriptor says.
TablesAgree == \A f \in File : Resolve(f) = ProtoFile[f].refs

\* The calls go down in some ranking of the files.
Ranks(rank) ==
  /\ rank \in [File -> Nat]
  /\ \A f \in File : \A i \in DOMAIN Calls(f) : rank[Calls(f)[i]] < rank[f]

Acyclic == \E rank : Ranks(rank)

----------------------------------------------------------------------------
\* When a file is built, so are the files it imports (those of this package:
\* the others are built before it by the Go runtime).
ImportsBuilt ==
  \A f \in File :
    descriptor[f] # NotBuilt =>
      \A i \in DOMAIN ProtoFile[f].imports :
        ProtoFile[f].imports[i] \in File =>
          descriptor[ProtoFile[f].imports[i]] # NotBuilt

\* Every reference of a built file means the type that the serialised
\* descriptor names, which takes tables that agree and a file built once,
\* however many initialisers call its own.
ReferencesRight ==
  \A f \in File : descriptor[f] \in {NotBuilt, ProtoFile[f].refs}

\* Whoever asks for a descriptor, and however many do at a time, is given
\* the original compressed once.
DescriptorUsable == \A g \in Goroutine : answer[g] \in {"none", "gzip"}

\* Package initialisation ends: no file calls an initialiser under way.
InitEnds == <>[]Initialised

\* Every question for a descriptor is answered.
DescriptorReturns == \A g \in Goroutine : pc[g] # "idle" ~> pc[g] = "idle"
=============================================================================
