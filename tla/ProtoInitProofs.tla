-------------------------- MODULE ProtoInitProofs --------------------------
(***************************************************************************)
(* Theorems about ProtoInit, for any files, any order of their init        *)
(* functions, any bound on the stack and any goroutines.                   *)
(***************************************************************************)
EXTENDS ProtoInit, TLAPS

----------------------------------------------------------------------------
(* The inductive invariant of initialisation.                              *)

Built(f) == descriptor[f] # NotBuilt

FrameType == [file : File, step : Nat]

InitTypeOK ==
  /\ stack \in Seq(FrameType)
  /\ DOMAIN descriptor = File
  /\ tables \in [File -> BOOLEAN]

\* Who is on the stack below the top was left in the middle of the call that
\* made the frame above it; whoever it called before has been built.
Waiting(k) ==
  /\ stack[k].step - 1 \in DOMAIN Calls(stack[k].file)
  /\ stack[k + 1].file = Calls(stack[k].file)[stack[k].step - 1]
  /\ \A i \in DOMAIN Calls(stack[k].file) :
       i < stack[k].step - 1 => Built(Calls(stack[k].file)[i])

Running ==
  \A i \in DOMAIN Calls(stack[Len(stack)].file) :
    i < stack[Len(stack)].step => Built(Calls(stack[Len(stack)].file)[i])

StackInv ==
  /\ \A k \in 1 .. Len(stack) - 1 : Waiting(k)
  /\ stack # <<>> => Running

CallsBuilt ==
  \A f \in File : Built(f) => \A i \in DOMAIN Calls(f) : Built(Calls(f)[i])

InitInv == InitTypeOK /\ StackInv /\ CallsBuilt

----------------------------------------------------------------------------
(* The stack.                                                              *)

\* What is left when the top frame is popped.
LEMMA PopStack ==
  ASSUME NEW S, NEW s \in Seq(S), s # <<>>
  PROVE  LET c == SubSeq(s, 1, Len(s) - 1) IN
         /\ c \in Seq(S)
         /\ Len(c) = Len(s) - 1
         /\ Len(s) \in Nat \ {0}
         /\ s[Len(s)] \in S
         /\ \A k \in 1 .. Len(s) - 1 : c[k] = s[k]
<1>1. Len(s) \in Nat \ {0} /\ s[Len(s)] \in S /\ DOMAIN s = 1 .. Len(s)
  OBVIOUS
<1>2. \A i \in 1 .. Len(s) - 1 : s[i] \in S
  BY <1>1
<1>3. /\ SubSeq(s, 1, Len(s) - 1) \in Seq(S)
      /\ Len(SubSeq(s, 1, Len(s) - 1)) = Len(s) - 1
  BY <1>1, <1>2
<1>4. \A k \in 1 .. Len(s) - 1 : SubSeq(s, 1, Len(s) - 1)[k] = s[k]
  BY <1>1
<1> QED BY <1>1, <1>3, <1>4

\* What the stack is when the top frame is replaced.
LEMMA ReplaceTop ==
  ASSUME NEW S, NEW s \in Seq(S), s # <<>>, NEW x \in S
  PROVE  LET r == Append(SubSeq(s, 1, Len(s) - 1), x) IN
         /\ r \in Seq(S)
         /\ Len(r) = Len(s)
         /\ r[Len(s)] = x
         /\ \A k \in 1 .. Len(s) - 1 : r[k] = s[k]
<1> DEFINE c == SubSeq(s, 1, Len(s) - 1)
<1>1. /\ c \in Seq(S) /\ Len(c) = Len(s) - 1 /\ Len(s) \in Nat \ {0}
      /\ \A k \in 1 .. Len(s) - 1 : c[k] = s[k]
  BY PopStack
<1> HIDE DEF c
<1>2. /\ Append(c, x) \in Seq(S)
      /\ Len(Append(c, x)) = Len(s)
      /\ Append(c, x)[Len(s)] = x
      /\ \A k \in 1 .. Len(s) - 1 : Append(c, x)[k] = s[k]
  BY <1>1
<1> QED BY <1>2 DEF c

\* What it is when, besides, a frame is pushed.
LEMMA PushFrame ==
  ASSUME NEW S, NEW s \in Seq(S), s # <<>>, NEW x \in S, NEW y \in S
  PROVE  LET r == Append(Append(SubSeq(s, 1, Len(s) - 1), x), y) IN
         /\ r \in Seq(S)
         /\ Len(r) = Len(s) + 1
         /\ r[Len(s) + 1] = y
         /\ r[Len(s)] = x
         /\ \A k \in 1 .. Len(s) - 1 : r[k] = s[k]
<1> DEFINE c == Append(SubSeq(s, 1, Len(s) - 1), x)
<1>1. /\ c \in Seq(S) /\ Len(c) = Len(s) /\ c[Len(s)] = x
      /\ \A k \in 1 .. Len(s) - 1 : c[k] = s[k]
  BY ReplaceTop
<1>2. Len(s) \in Nat \ {0}
  BY PopStack
<1> HIDE DEF c
<1>3. /\ Append(c, y) \in Seq(S)
      /\ Len(Append(c, y)) = Len(s) + 1
      /\ Append(c, y)[Len(s) + 1] = y
      /\ Append(c, y)[Len(s)] = x
      /\ \A k \in 1 .. Len(s) - 1 : Append(c, y)[k] = s[k]
  BY <1>1, <1>2
<1> QED BY <1>3 DEF c

----------------------------------------------------------------------------
(* Every step of initialisation keeps the invariant.                       *)

LEMMA CallsType ==
  ASSUME NEW f \in File
  PROVE  /\ DOMAIN Calls(f) = 1 .. Len(Calls(f))
         /\ Len(Calls(f)) \in Nat
         /\ \A i \in DOMAIN Calls(f) : Calls(f)[i] \in File
<1>1. Calls(f) \in Seq(File)
  BY ProtoInitAssumption DEF Calls
<1> QED BY <1>1

LEMMA InitInvInit == Init => InitInv
<1> SUFFICES ASSUME Init PROVE InitInv
  OBVIOUS
<1>1. InitTypeOK
  BY DEF Init, InitTypeOK
<1>2. StackInv
  BY DEF Init, StackInv
<1>3. CallsBuilt
  BY DEF Init, CallsBuilt, Built
<1> QED BY <1>1, <1>2, <1>3 DEF InitInv

\* The parts of a frame, and the facts about the stack that all steps use.
LEMMA StackFacts ==
  ASSUME InitTypeOK, stack # <<>>
  PROVE  /\ Len(stack) \in Nat \ {0}
         /\ \A k \in 1 .. Len(stack) : /\ stack[k] \in FrameType
                                       /\ stack[k].file \in File
                                       /\ stack[k].step \in Nat
         /\ Top \in FrameType
         /\ Top.file \in File
         /\ Top.step \in Nat
<1>1. Len(stack) \in Nat \ {0} /\ \A k \in 1 .. Len(stack) : stack[k] \in FrameType
  BY DEF InitTypeOK
<1> QED BY <1>1 DEF Top, FrameType

\* A file is popped when it is built; the frame below then has had its call.
LEMMA PopKeeps ==
  ASSUME InitTypeOK, StackInv, stack # <<>>, stack' = Callers,
         \A f \in File : descriptor[f] # NotBuilt => descriptor'[f] # NotBuilt,
         descriptor'[Top.file] # NotBuilt
  PROVE  StackInv' /\ (stack \in Seq(FrameType))'
<1> DEFINE n == Len(stack)
<1>1. n \in Nat \ {0}
  BY StackFacts
<1>2. /\ stack' \in Seq(FrameType) /\ Len(stack') = n - 1
      /\ \A k \in 1 .. n - 1 : stack'[k] = stack[k]
  BY PopStack DEF InitTypeOK, Callers
<1>3. \A k \in 1 .. n - 1 :
        /\ stack[k].file \in File
        /\ stack[k].step \in Nat
        /\ stack[k].step - 1 \in DOMAIN Calls(stack[k].file)
        /\ stack[k + 1].file = Calls(stack[k].file)[stack[k].step - 1]
        /\ \A i \in DOMAIN Calls(stack[k].file) :
             i < stack[k].step - 1 =>
               descriptor[Calls(stack[k].file)[i]] # NotBuilt
  BY StackFacts, <1>1 DEF StackInv, Waiting, Built
<1>4. ASSUME NEW k \in 1 .. n - 1, NEW i \in DOMAIN Calls(stack[k].file),
             i < stack[k].step - 1
      PROVE  descriptor'[Calls(stack[k].file)[i]] # NotBuilt
  <2>1. stack[k].file \in File
    BY <1>3
  <2>2. Calls(stack[k].file)[i] \in File
    BY <2>1, CallsType
  <2>3. descriptor[Calls(stack[k].file)[i]] # NotBuilt
    BY <1>3, <1>4
  <2> QED BY <2>2, <2>3
<1>5. ASSUME NEW k \in 1 .. n - 2 PROVE Waiting(k)'
  <2>1. k \in 1 .. n - 1 /\ k + 1 \in 1 .. n - 1
    BY <1>1
  <2>2. stack'[k] = stack[k] /\ stack'[k + 1] = stack[k + 1]
    BY <1>2, <2>1
  <2>3. \A i \in DOMAIN Calls(stack[k].file) :
          i < stack[k].step - 1 => descriptor'[Calls(stack[k].file)[i]] # NotBuilt
    BY <1>4, <2>1
  <2> QED BY <1>3, <2>1, <2>2, <2>3 DEF Waiting, Built, Calls
<1>6. ASSUME stack' # <<>> PROVE Running'
  <2>1. n - 1 \in 1 .. n - 1 /\ Len(stack') = n - 1
    BY <1>1, <1>2, <1>6
  <2>2. stack'[n - 1] = stack[n - 1]
    BY <1>2, <2>1
  <2>3. /\ stack[n - 1].file \in File
        /\ stack[n - 1].step \in Nat
    BY <1>3, <2>1
  <2>4. Calls(stack[n - 1].file)[stack[n - 1].step - 1] = Top.file
    BY <1>1, <1>3, <2>1 DEF Top
  <2>5. ASSUME NEW i \in DOMAIN Calls(stack[n - 1].file),
               i < stack[n - 1].step
        PROVE  descriptor'[Calls(stack[n - 1].file)[i]] # NotBuilt
    <3>1. i \in Nat
      BY <2>3, CallsType
    <3>2. CASE i < stack[n - 1].step - 1
      BY <1>4, <2>1, <3>2
    <3>3. CASE i = stack[n - 1].step - 1
      BY <3>3, <2>4
    <3> QED BY <3>1, <3>2, <3>3, <2>3, <2>5
  <2> QED BY <2>1, <2>2, <2>5 DEF Running, Built, Calls
<1>7. Len(stack') - 1 = n - 2
  BY <1>1, <1>2
<1> QED BY <1>2, <1>5, <1>6, <1>7 DEF StackInv

LEMMA RunInitKeeps ==
  ASSUME InitInv, NEW f \in File, RunInit(f)
  PROVE  InitInv'
<1>1. /\ stack' = <<Frame(f)>> /\ stack = <<>>
      /\ UNCHANGED <<descriptor, tables>>
  BY DEF RunInit
<1>2. Frame(f) \in FrameType /\ Frame(f).step = 0 /\ Frame(f).file = f
  BY DEF Frame, FrameType
<1>3. /\ stack' \in Seq(FrameType) /\ Len(stack') = 1
      /\ stack'[1] = Frame(f)
  BY <1>1, <1>2
<1>4. \A i \in DOMAIN Calls(f) : ~(i < 0)
  BY CallsType
<1>5. StackInv'
  BY <1>2, <1>3, <1>4 DEF StackInv, Running, Calls
<1> QED BY <1>1, <1>3, <1>5 DEF InitInv, InitTypeOK, CallsBuilt, Built, Calls

LEMMA CheckBuiltKeeps ==
  ASSUME InitInv, CheckBuilt
  PROVE  InitInv'
<1>1. /\ stack # <<>> /\ Top.step = 0
      /\ UNCHANGED <<descriptor, tables>>
      /\ InitTypeOK /\ StackInv
  BY DEF CheckBuilt, InitInv
<1>2. CallsBuilt' /\ DOMAIN descriptor' = File /\ tables' \in [File -> BOOLEAN]
  BY <1>1 DEF InitInv, InitTypeOK, CallsBuilt, Built, Calls
<1>3. CASE descriptor[Top.file] # NotBuilt
  <2>1. stack' = Callers
    BY <1>3 DEF CheckBuilt
  <2>2. StackInv' /\ (stack \in Seq(FrameType))'
    BY <1>1, <1>3, <2>1, PopKeeps
  <2> QED BY <1>2, <2>2 DEF InitInv, InitTypeOK
<1>4. CASE ~(descriptor[Top.file] # NotBuilt)
  <2> DEFINE n == Len(stack)
             x == [Top EXCEPT !.step = 1]
  <2>1. stack' = Append(Callers, x)
    BY <1>4 DEF CheckBuilt
  <2>2. /\ x \in FrameType /\ x.step = 1 /\ x.file = stack[n].file
        /\ n \in Nat \ {0} /\ x.file \in File
    BY <1>1, StackFacts DEF FrameType, Top
  <2> HIDE DEF x
  <2>3. /\ stack' \in Seq(FrameType) /\ Len(stack') = n /\ stack'[n] = x
        /\ \A k \in 1 .. n - 1 : stack'[k] = stack[k]
    BY <1>1, <2>1, <2>2, ReplaceTop DEF InitTypeOK, Callers
  <2>4. ASSUME NEW k \in 1 .. n - 1 PROVE Waiting(k)'
    <3>1. Waiting(k)
      BY <1>1 DEF StackInv
    <3>2. stack'[k] = stack[k] /\ stack'[k + 1].file = stack[k + 1].file
      BY <2>2, <2>3
    <3> QED BY <1>1, <3>1, <3>2 DEF Waiting, Built, Calls
  <2>5. Running'
    <3>1. \A i \in DOMAIN Calls(x.file) : ~(i < 1)
      BY <2>2, CallsType
    <3> QED BY <2>2, <2>3, <3>1 DEF Running, Calls
  <2> QED BY <1>2, <2>3, <2>4, <2>5 DEF InitInv, InitTypeOK, StackInv
<1> QED BY <1>3, <1>4

LEMMA CallImportKeeps ==
  ASSUME InitInv, CallImport
  PROVE  InitInv'
<1> PICK n : n = Len(stack)
  OBVIOUS
<1> DEFINE x == [Top EXCEPT !.step = @ + 1]
           y == Frame(Calls(Top.file)[Top.step])
<1>1. /\ stack # <<>> /\ Top.step \in DOMAIN Calls(Top.file)
      /\ stack' = Append(Append(Callers, x), y)
      /\ UNCHANGED <<descriptor, tables>>
      /\ InitTypeOK /\ StackInv
  BY DEF CallImport, InitInv
<1>2. CallsBuilt' /\ DOMAIN descriptor' = File /\ tables' \in [File -> BOOLEAN]
  BY <1>1 DEF InitInv, InitTypeOK, CallsBuilt, Built, Calls
<1>3. /\ n \in Nat \ {0} /\ Top = stack[n] /\ Top \in FrameType
      /\ Top.file \in File /\ Top.step \in Nat
  BY <1>1, StackFacts DEF Top
<1>4. x \in FrameType /\ x.step = Top.step + 1 /\ x.file = Top.file
  BY <1>3 DEF FrameType
<1>5. /\ y \in FrameType /\ y.step = 0 /\ y.file = Calls(Top.file)[Top.step]
      /\ y.file \in File
  BY <1>1, <1>3, CallsType DEF Frame, FrameType
<1> HIDE DEF x, y
<1>6. /\ stack' \in Seq(FrameType) /\ Len(stack') = n + 1
      /\ stack'[n + 1] = y /\ stack'[n] = x
      /\ \A k \in 1 .. n - 1 : stack'[k] = stack[k]
  <2>1. stack \in Seq(FrameType) /\ stack # <<>>
        /\ x \in FrameType /\ y \in FrameType
    BY <1>1, <1>4, <1>5 DEF InitTypeOK
  <2> DEFINE r == Append(Append(SubSeq(stack, 1, Len(stack) - 1), x), y)
  <2>2. /\ r \in Seq(FrameType) /\ Len(r) = n + 1 /\ r[n + 1] = y /\ r[n] = x
        /\ \A k \in 1 .. n - 1 : r[k] = stack[k]
    BY <2>1, PushFrame
  <2> QED BY <1>1, <2>2 DEF Callers
<1>7. ASSUME NEW k \in 1 .. n - 1 PROVE Waiting(k)'
  <2>1. Waiting(k)
    BY <1>1 DEF StackInv
  <2>2. stack'[k] = stack[k] /\ stack'[k + 1].file = stack[k + 1].file
    BY <1>3, <1>4, <1>6
  <2> QED BY <1>1, <2>1, <2>2 DEF Waiting, Built, Calls
<1>8. Waiting(n)'
  <2>1. \A i \in DOMAIN Calls(Top.file) : i < Top.step =>
          descriptor[Calls(Top.file)[i]] # NotBuilt
    BY <1>1, <1>3 DEF StackInv, Running, Built
  <2>2. x.step - 1 = Top.step
    BY <1>3, <1>4
  <2> QED BY <1>1, <1>4, <1>5, <1>6, <2>1, <2>2 DEF Waiting, Built, Calls
<1>9. Running'
  <2>1. \A i \in DOMAIN Calls(y.file) : ~(i < 0)
    BY <1>5, CallsType
  <2> QED BY <1>5, <1>6, <2>1 DEF Running, Calls
<1>10. \A k \in 1 .. n : k \in 1 .. n - 1 \/ k = n
  BY <1>3
<1>11. Len(stack') - 1 = n
  BY <1>3, <1>6
<1>12. StackInv'
  BY <1>7, <1>8, <1>9, <1>10, <1>11 DEF StackInv
<1> QED BY <1>2, <1>6, <1>12 DEF InitInv, InitTypeOK

LEMMA BuildKeeps ==
  ASSUME InitInv, Build
  PROVE  InitInv'
<1> DEFINE new == IF tables[Top.file] THEN Resolve(Top.file) ELSE Garbage
<1>1. /\ stack # <<>> /\ Top.step = Len(Calls(Top.file)) + 1
      /\ descriptor' = [descriptor EXCEPT ![Top.file] = new]
      /\ tables' = [tables EXCEPT ![Top.file] = FALSE]
      /\ stack' = Callers
      /\ InitTypeOK /\ StackInv /\ CallsBuilt
  BY DEF Build, InitInv
<1>2. Top.file \in File /\ Top = stack[Len(stack)]
  BY <1>1, StackFacts DEF Top
<1>3. new # NotBuilt
  BY <1>2, ResolveAssumption DEF Garbage, NotBuilt
<1> HIDE DEF new
<1>4. DOMAIN descriptor' = File /\ tables' \in [File -> BOOLEAN]
  BY <1>1, <1>2 DEF InitTypeOK
<1>5. /\ descriptor'[Top.file] # NotBuilt
      /\ \A f \in File : f # Top.file => descriptor'[f] = descriptor[f]
  BY <1>1, <1>2, <1>3 DEF InitTypeOK
<1>6. \A f \in File : descriptor[f] # NotBuilt => descriptor'[f] # NotBuilt
  BY <1>5
<1>7. StackInv' /\ (stack \in Seq(FrameType))'
  BY <1>1, <1>5, <1>6, PopKeeps
<1>8. ASSUME NEW f \in File, descriptor'[f] # NotBuilt, NEW i \in DOMAIN Calls(f)
      PROVE  descriptor'[Calls(f)[i]] # NotBuilt
  <2>1. Calls(f)[i] \in File /\ i < Len(Calls(f)) + 1
    BY CallsType
  <2>2. CASE f = Top.file
    <3>1. descriptor[Calls(f)[i]] # NotBuilt
      BY <1>1, <1>2, <2>1, <2>2 DEF StackInv, Running, Built
    <3> QED BY <1>6, <2>1, <3>1
  <2>3. CASE f # Top.file
    <3>1. descriptor[Calls(f)[i]] # NotBuilt
      BY <1>1, <1>5, <1>8, <2>3 DEF CallsBuilt, Built
    <3> QED BY <1>6, <2>1, <3>1
  <2> QED BY <2>2, <2>3
<1>9. CallsBuilt'
  BY <1>8 DEF CallsBuilt, Built, Calls
<1> QED BY <1>4, <1>7, <1>9 DEF InitInv, InitTypeOK

LEMMA InitInvStep == InitInv /\ [Next]_protoVars => InitInv'
<1> SUFFICES ASSUME InitInv, [Next]_protoVars PROVE InitInv'
  OBVIOUS
<1>1. ASSUME NEW f \in File, RunInit(f) PROVE InitInv'
  BY <1>1, RunInitKeeps
<1>2. CASE CheckBuilt
  BY <1>2, CheckBuiltKeeps
<1>3. CASE CallImport
  BY <1>3, CallImportKeeps
<1>4. CASE Build
  BY <1>4, BuildKeeps
<1>5. ASSUME UNCHANGED initVars PROVE InitInv'
  BY <1>5 DEF initVars, InitInv, InitTypeOK, StackInv, Waiting, Running,
              CallsBuilt, Built, Calls
<1>6. ASSUME NEW g \in Goroutine, Ask(g) \/ GzipStep(g) PROVE UNCHANGED initVars
  BY <1>6 DEF Ask, GzipStep, RunOnce, SkipOnce, Compress, FinishOnce,
              ReturnDescriptor
<1>7. CASE UNCHANGED protoVars
  BY <1>5, <1>7 DEF protoVars
<1> QED BY <1>1, <1>2, <1>3, <1>4, <1>5, <1>6, <1>7 DEF Next, InitStep

THEOREM InitInductive == Spec => []InitInv
  BY InitInvInit, InitInvStep, PTL DEF Spec

\* In any order of the init functions, whatever the import graph: a file is
\* built after the files it imports.
THEOREM ImportsFirst == ASSUME CallsImports PROVE Spec => []ImportsBuilt
<1>1. InitInv => ImportsBuilt
  BY DEF InitInv, CallsBuilt, Built, ImportsBuilt, CallsImports
<1> QED BY <1>1, InitInductive, PTL

----------------------------------------------------------------------------
(* A file is built once.                                                   *)

\* Files on the stack go down in rank, so none is there twice; those past
\* their guard are not built; and whatever is not built has its tables.
OnceInv(rank) ==
  /\ \A j, k \in 1 .. Len(stack) :
       j < k => rank[stack[k].file] < rank[stack[j].file]
  /\ \A k \in 1 .. Len(stack) :
       stack[k].step > 0 => descriptor[stack[k].file] = NotBuilt
  /\ \A f \in File : descriptor[f] = NotBuilt => tables[f] = TRUE
  /\ ReferencesRight

LEMMA OnceInvInit == ASSUME NEW rank PROVE Init => OnceInv(rank)
  BY DEF Init, OnceInv, ReferencesRight

LEMMA OnceCheckBuilt ==
  ASSUME NEW rank, InitInv, OnceInv(rank), CheckBuilt
  PROVE  OnceInv(rank)'
<1> PICK n : n = Len(stack)
  OBVIOUS
<1>1. /\ stack # <<>> /\ InitTypeOK /\ n \in Nat \ {0}
      /\ UNCHANGED <<descriptor, tables>>
      /\ Top = stack[n]
      /\ \A k \in 1 .. n : stack[k] \in FrameType
  BY StackFacts DEF CheckBuilt, InitInv, Top
<1>2. CASE stack' = Callers
  <2>1. /\ Len(stack') = n - 1
        /\ \A k \in 1 .. n - 1 : stack'[k] = stack[k]
    BY <1>1, <1>2, PopStack DEF InitTypeOK, Callers
  <2>2. \A k \in 1 .. Len(stack') : k \in 1 .. n /\ stack'[k] = stack[k]
    BY <1>1, <2>1
  <2> QED BY <1>1, <2>2 DEF OnceInv, ReferencesRight
<1>3. CASE /\ descriptor[Top.file] = NotBuilt
           /\ stack' = Append(Callers, [Top EXCEPT !.step = 1])
  <2>1. /\ [Top EXCEPT !.step = 1] \in FrameType
        /\ [Top EXCEPT !.step = 1].file = stack[n].file
    BY <1>1 DEF FrameType
  <2>2. /\ Len(stack') = n
        /\ stack'[n].file = stack[n].file
        /\ \A k \in 1 .. n - 1 : stack'[k] = stack[k]
    BY <1>1, <1>3, <2>1, ReplaceTop DEF InitTypeOK, Callers
  <2>3. \A k \in 1 .. n : k = n \/ k \in 1 .. n - 1
    BY <1>1
  <2>4. \A k \in 1 .. n : stack'[k].file = stack[k].file
    BY <2>2, <2>3
  <2>5. \A k \in 1 .. n :
          stack'[k].step > 0 => descriptor'[stack'[k].file] = NotBuilt
    BY <1>1, <1>3, <2>2, <2>3 DEF OnceInv
  <2> QED BY <1>1, <2>2, <2>4, <2>5 DEF OnceInv, ReferencesRight
<1> QED BY <1>2, <1>3 DEF CheckBuilt

LEMMA OnceCallImport ==
  ASSUME NEW rank, Ranks(rank), InitInv, OnceInv(rank), CallImport
  PROVE  OnceInv(rank)'
<1> PICK n : n = Len(stack)
  OBVIOUS
<1> DEFINE x == [Top EXCEPT !.step = @ + 1]
           y == Frame(Calls(Top.file)[Top.step])
<1>1. /\ stack # <<>> /\ Top.step \in DOMAIN Calls(Top.file)
      /\ stack' = Append(Append(Callers, x), y)
      /\ UNCHANGED <<descriptor, tables>>
      /\ InitTypeOK
  BY DEF CallImport, InitInv
<1>2. /\ n \in Nat \ {0} /\ Top = stack[n] /\ Top \in FrameType
      /\ Top.file \in File /\ Top.step \in Nat
      /\ \A k \in 1 .. n : stack[k].file \in File
  BY <1>1, StackFacts DEF Top
<1>3. x \in FrameType /\ x.file = Top.file
  BY <1>2 DEF FrameType
<1>4. /\ y \in FrameType /\ y.step = 0 /\ y.file = Calls(Top.file)[Top.step]
      /\ y.file \in File
  BY <1>1, <1>2, CallsType DEF Frame, FrameType
<1>5. Top.step > 0
  BY <1>1, <1>2, CallsType
<1>6. rank[y.file] < rank[Top.file]
  BY <1>1, <1>2, <1>4 DEF Ranks
<1>7. \A f \in File : rank[f] \in Nat
  BY DEF Ranks
<1> HIDE DEF x, y
<1>8. /\ Len(stack') = n + 1 /\ stack'[n + 1] = y /\ stack'[n] = x
      /\ \A k \in 1 .. n - 1 : stack'[k] = stack[k]
  <2>1. stack \in Seq(FrameType) /\ stack # <<>>
        /\ x \in FrameType /\ y \in FrameType
    BY <1>1, <1>3, <1>4 DEF InitTypeOK
  <2> DEFINE r == Append(Append(SubSeq(stack, 1, Len(stack) - 1), x), y)
  <2>2. /\ Len(r) = n + 1 /\ r[n + 1] = y /\ r[n] = x
        /\ \A k \in 1 .. n - 1 : r[k] = stack[k]
    BY <2>1, PushFrame
  <2> QED BY <1>1, <2>2 DEF Callers
<1>9. \A k \in 1 .. n : k = n \/ k \in 1 .. n - 1
  BY <1>2
<1>10. \A k \in 1 .. n : stack'[k].file = stack[k].file
  BY <1>2, <1>3, <1>8, <1>9
<1>11. \A k \in 1 .. n : rank[y.file] < rank[stack[k].file]
  <2>1. \A k \in 1 .. n - 1 : rank[Top.file] < rank[stack[k].file]
    BY <1>2 DEF OnceInv
  <2> QED BY <1>2, <1>4, <1>6, <1>7, <1>9, <2>1
<1>12. ASSUME NEW j \in 1 .. n + 1, NEW k \in 1 .. n + 1, j < k
       PROVE  rank[stack'[k].file] < rank[stack'[j].file]
  <2>1. CASE k = n + 1
    BY <1>2, <1>8, <1>10, <1>11, <1>12, <2>1
  <2>2. CASE k # n + 1
    <3>1. j \in 1 .. n /\ k \in 1 .. n
      BY <1>2, <1>12, <2>2
    <3>2. rank[stack[k].file] < rank[stack[j].file]
      BY <1>12, <3>1 DEF OnceInv
    <3> QED BY <1>10, <3>1, <3>2
  <2> QED BY <2>1, <2>2
<1>13. ASSUME NEW k \in 1 .. n + 1, stack'[k].step > 0
       PROVE  descriptor[stack'[k].file] = NotBuilt
  <2>1. k = n + 1 \/ k = n \/ k \in 1 .. n - 1
    BY <1>2
  <2>2. CASE k = n + 1
    BY <1>4, <1>8, <1>13, <2>2
  <2>3. CASE k = n
    BY <1>2, <1>3, <1>5, <1>8, <2>3 DEF OnceInv
  <2>4. CASE k \in 1 .. n - 1
    <3>1. k \in 1 .. n /\ stack'[k] = stack[k]
      BY <1>2, <1>8, <2>4
    <3> QED BY <1>13, <3>1 DEF OnceInv
  <2> QED BY <2>1, <2>2, <2>3, <2>4
<1> QED BY <1>1, <1>8, <1>12, <1>13 DEF OnceInv, ReferencesRight

LEMMA OnceBuild ==
  ASSUME NEW rank, Ranks(rank), TablesAgree, InitInv, OnceInv(rank), Build
  PROVE  OnceInv(rank)'
<1> PICK n : n = Len(stack)
  OBVIOUS
<1>1. /\ stack # <<>> /\ Top.step = Len(Calls(Top.file)) + 1
      /\ tables' = [tables EXCEPT ![Top.file] = FALSE]
      /\ stack' = Callers
      /\ InitTypeOK
  BY DEF Build, InitInv
<1>2. /\ n \in Nat \ {0} /\ Top = stack[n] /\ Top.file \in File
      /\ \A k \in 1 .. n : stack[k].file \in File
  BY <1>1, StackFacts DEF Top
<1>3. descriptor[Top.file] = NotBuilt /\ tables[Top.file] = TRUE
  <2>1. Top.step > 0
    BY <1>1, <1>2, CallsType
  <2> QED BY <1>2, <2>1 DEF OnceInv
<1>4. descriptor' = [descriptor EXCEPT ![Top.file] = ProtoFile[Top.file].refs]
  BY <1>2, <1>3 DEF Build, TablesAgree
<1>5. /\ descriptor'[Top.file] = ProtoFile[Top.file].refs
      /\ ProtoFile[Top.file].refs # NotBuilt
      /\ \A f \in File : f # Top.file => /\ descriptor'[f] = descriptor[f]
                                         /\ tables'[f] = tables[f]
  BY <1>1, <1>2, <1>4, ResolveAssumption DEF InitTypeOK, TablesAgree
<1>6. /\ Len(stack') = n - 1
      /\ \A k \in 1 .. n - 1 : stack'[k] = stack[k]
  BY <1>1, PopStack DEF InitTypeOK, Callers
<1>7. \A k \in 1 .. n - 1 : stack[k].file # Top.file
  <2>1. \A k \in 1 .. n - 1 : rank[stack[n].file] < rank[stack[k].file]
    BY <1>2 DEF OnceInv
  <2>2. \A f \in File : rank[f] \in Nat
    BY DEF Ranks
  <2> QED BY <1>2, <2>1, <2>2
<1>8. \A k \in 1 .. n - 1 :
        stack'[k].step > 0 => descriptor'[stack'[k].file] = NotBuilt
  <2> SUFFICES ASSUME NEW k \in 1 .. n - 1, stack'[k].step > 0
               PROVE  descriptor'[stack'[k].file] = NotBuilt
    OBVIOUS
  <2>1. k \in 1 .. n /\ stack'[k] = stack[k]
    BY <1>2, <1>6
  <2>2. descriptor[stack[k].file] = NotBuilt
    BY <2>1 DEF OnceInv
  <2> QED BY <1>2, <1>5, <1>7, <2>1, <2>2
<1>9. \A j, k \in 1 .. n - 1 :
        j < k => rank[stack'[k].file] < rank[stack'[j].file]
  BY <1>2, <1>6 DEF OnceInv
<1>10. \A f \in File : descriptor'[f] = NotBuilt => tables'[f] = TRUE
  BY <1>5 DEF OnceInv
<1>11. ReferencesRight'
  BY <1>5 DEF OnceInv, ReferencesRight
<1> QED BY <1>6, <1>8, <1>9, <1>10, <1>11 DEF OnceInv

LEMMA OnceRunInit ==
  ASSUME NEW rank, OnceInv(rank), NEW f \in File, RunInit(f)
  PROVE  OnceInv(rank)'
<1>1. /\ Len(stack') = 1 /\ stack'[1] = Frame(f)
      /\ UNCHANGED <<descriptor, tables>>
  BY DEF RunInit
<1>2. Frame(f).step = 0
  BY DEF Frame
<1> QED BY <1>1, <1>2 DEF OnceInv, ReferencesRight

\* No file imports itself, on whatever way: then every file is built once,
\* from its tables, and its references mean what its descriptor says.
THEOREM BuiltRight ==
  ASSUME Acyclic, TablesAgree
  PROVE  Spec => []ReferencesRight
<1> PICK rank : Ranks(rank)
  BY DEF Acyclic
<1>1. Init => OnceInv(rank)
  BY OnceInvInit
<1>2. InitInv /\ OnceInv(rank) /\ [Next]_protoVars => OnceInv(rank)'
  <2> SUFFICES ASSUME InitInv, OnceInv(rank), [Next]_protoVars
               PROVE  OnceInv(rank)'
    OBVIOUS
  <2>1. ASSUME NEW f \in File, RunInit(f) PROVE OnceInv(rank)'
    BY <2>1, OnceRunInit
  <2>2. CASE CheckBuilt
    BY <2>2, OnceCheckBuilt
  <2>3. CASE CallImport
    BY <2>3, OnceCallImport
  <2>4. CASE Build
    BY <2>4, OnceBuild
  <2>5. ASSUME UNCHANGED initVars PROVE OnceInv(rank)'
    BY <2>5 DEF initVars, OnceInv, ReferencesRight
  <2>6. ASSUME NEW g \in Goroutine, Ask(g) \/ GzipStep(g)
        PROVE  UNCHANGED initVars
    BY <2>6 DEF Ask, GzipStep, RunOnce, SkipOnce, Compress, FinishOnce,
                ReturnDescriptor
  <2>7. CASE UNCHANGED protoVars
    BY <2>5, <2>7 DEF protoVars
  <2> QED BY <2>1, <2>2, <2>3, <2>4, <2>5, <2>6, <2>7 DEF Next, InitStep
<1>3. OnceInv(rank) => ReferencesRight
  BY DEF OnceInv
<1> QED BY <1>1, <1>2, <1>3, InitInductive, PTL DEF Spec

----------------------------------------------------------------------------
(* The compressed descriptors.                                             *)

Compressing == {"compress", "finish"}

GzipInv ==
  /\ rawDescOnce \in [File -> {"new", "running", "done"}]
  /\ rawDescData \in [File -> {"raw", "gzip"}]
  /\ pc \in [Goroutine -> {"idle", "once", "return"} \cup Compressing]
  /\ asked \in [Goroutine -> File]
  /\ answer \in [Goroutine -> {"none", "gzip"}]
  /\ \A f \in File : /\ rawDescOnce[f] = "new" => rawDescData[f] = "raw"
                     /\ rawDescOnce[f] = "done" => rawDescData[f] = "gzip"
  /\ \A g \in Goroutine :
       /\ pc[g] \in Compressing => rawDescOnce[asked[g]] = "running"
       /\ pc[g] = "compress" => rawDescData[asked[g]] = "raw"
       /\ pc[g] = "finish" => rawDescData[asked[g]] = "gzip"
       /\ pc[g] = "return" => rawDescOnce[asked[g]] = "done"
  /\ \A g, h \in Goroutine :
       pc[g] \in Compressing /\ pc[h] \in Compressing /\ asked[g] = asked[h]
         => g = h

LEMMA GzipInvInit == Init => GzipInv
<1> SUFFICES ASSUME Init PROVE GzipInv
  OBVIOUS
<1>1. PICK a \in File : asked = [g \in Goroutine |-> a]
  BY ProtoInitAssumption DEF Init
<1> QED BY <1>1 DEF Init, GzipInv, Compressing

LEMMA GzipInvStep == GzipInv /\ [Next]_protoVars => GzipInv'
<1> SUFFICES ASSUME GzipInv, [Next]_protoVars PROVE GzipInv'
  OBVIOUS
<1> USE DEF GzipInv, Compressing
<1>1. ASSUME UNCHANGED gzipVars PROVE GzipInv'
  BY <1>1 DEF gzipVars
<1>2. ASSUME InitStep PROVE UNCHANGED gzipVars
  BY <1>2 DEF InitStep, RunInit, CheckBuilt, CallImport, Build
<1>3. ASSUME NEW g \in Goroutine, Ask(g) PROVE GzipInv'
  BY <1>3, ProtoInitAssumption DEF Ask, Goto
<1>4. ASSUME NEW g \in Goroutine, RunOnce(g) PROVE GzipInv'
  BY <1>4 DEF RunOnce, Goto
<1>5. ASSUME NEW g \in Goroutine, SkipOnce(g) PROVE GzipInv'
  BY <1>5 DEF SkipOnce, Goto
<1>6. ASSUME NEW g \in Goroutine, Compress(g) PROVE GzipInv'
  BY <1>6 DEF Compress, Goto, Gzip
<1>7. ASSUME NEW g \in Goroutine, FinishOnce(g) PROVE GzipInv'
  BY <1>7 DEF FinishOnce, Goto
<1>8. ASSUME NEW g \in Goroutine, ReturnDescriptor(g) PROVE GzipInv'
  BY <1>8 DEF ReturnDescriptor, Goto
<1> QED BY <1>1, <1>2, <1>3, <1>4, <1>5, <1>6, <1>7, <1>8
        DEF Next, GzipStep, protoVars

\* However many goroutines ask at a time, every one of them is given the
\* original, compressed once.
THEOREM DescriptorsUsable == Spec => []DescriptorUsable
<1>1. GzipInv => DescriptorUsable
  BY DEF GzipInv, DescriptorUsable
<1> QED BY <1>1, GzipInvInit, GzipInvStep, PTL DEF Spec
=============================================================================
