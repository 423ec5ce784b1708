------------------------- MODULE CodecStartupProofs -------------------------
(***************************************************************************)
(* Theorems about CodecStartup, for any codecs in any order of             *)
(* registration and any number of goroutines and calls of Init.            *)
(***************************************************************************)
EXTENDS CodecStartup, CodecManagerProofs

----------------------------------------------------------------------------
(* The inductive invariant.                                                *)

InitLength == Len(InitOrder)
TypeAt(i) == GetMessageType[InitOrder[i]]

\* A goroutine registers only inside Init, and then what Init registers next;
\* it looks up only outside, when some Init has returned.
CallInv(g) ==
  pc[g] # "idle" =>
    /\ req[g] \in RegisterRequest =>
         /\ position[g] - 1 \in 1 .. InitLength
         /\ req[g].ct = CodecTypeSeata
         /\ req[g].codec = InitOrder[position[g] - 1]
    /\ req[g] \in LookupRequest => returned /\ position[g] = 0

StartupTypeOK ==
  /\ position \in [Goroutine -> 0 .. InitLength + 1]
  /\ inits \in Nat
  /\ returned \in BOOLEAN
  /\ \A g \in Goroutine : CallInv(g)

\* The last registration a goroutine inside Init has behind it.
Behind(g) == IF pc[g] = "idle" THEN position[g] - 1 ELSE position[g] - 2

InTable(i) == Entry(CodecTypeSeata, TypeAt(i)) = InitOrder[i]

\* The table holds nothing but what Init registers, and all that some Init
\* has come past.
StartupTableInv ==
  /\ \A t \in CodecType, m \in MessageType :
       Entry(t, m) # NIL =>
         t = CodecTypeSeata /\ \E i \in 1 .. InitLength :
                                 TypeAt(i) = m /\ Entry(t, m) = InitOrder[i]
  /\ \A g \in Goroutine : \A i \in 1 .. Behind(g) : InTable(i)
  /\ returned => \A i \in 1 .. InitLength : InTable(i)

\* While Init has been called once only, one goroutine is inside it, and
\* nobody else does anything before it returns.
OneInitInv ==
  /\ once = "running" => \E g \in Goroutine : pc[g] = "build"
  /\ inits = 0 => ~returned /\ \A g \in Goroutine : position[g] = 0
  /\ inits <= 1 =>
       /\ \A g, h \in Goroutine : position[g] > 0 /\ position[h] > 0 => g = h
       /\ returned => \A g \in Goroutine : position[g] = 0

SInv ==
  /\ StartupTypeOK
  /\ StartupTableInv
  /\ OneInitInv
  /\ LookupExact
  /\ RaceNeedsSecondInit

----------------------------------------------------------------------------
(* What a step of the registry means for a goroutine that calls it.        *)

USE ManagerAssumption, StartupAssumption DEF Address, RegisterRequest,
    LookupRequest, GetManagerPc, RegisterPc, LookupPc, EmptyMap, EmptyOuter,
    At, Goto

\* Every step of the start-up is one of the registry, or leaves it alone.
LEMMA StartupStep == [SNext]_startupVars => [Next]_vars
  BY DEF SNext, startupVars, CallInit, InitRegister, InitReturn, Lookup,
         Continue, Next, Call

\* Init registers one codec per type code.
LEMMA InitOrderFacts ==
  /\ InitLength \in Nat
  /\ DOMAIN InitOrder = 1 .. InitLength
  /\ \A i \in 1 .. InitLength : /\ InitOrder[i] \in Codec
                                /\ TypeAt(i) \in MessageType
  /\ \A i, j \in 1 .. InitLength : TypeAt(i) = TypeAt(j) => i = j
  BY DEF InitLength, TypeAt

\* A call in progress stays the same call until it returns.
LEMMA CallKept ==
  ASSUME TypeOK, NEW g \in Goroutine, Step(g), NEW h \in Goroutine
  PROVE  /\ pc[g] # "idle"
         /\ h # g => pc'[h] = pc[h] /\ req'[h] = req[h]
         /\ pc'[g] # "idle" => req'[g] = req[g]
         /\ pc'[g] = "idle" => UnlockManager(g) \/ ReturnCodec(g)
<1> USE DEF TypeOK, shared
<1>1. CASE GetManagerStep(g)
  BY <1>1 DEF GetManagerStep, CheckManager, Enter, FirstPc, RunOnce, SkipOnce,
     BuildMap, PublishManager, FinishOnce, LoadManager
<1>2. CASE RegisterStep(g)
  BY <1>2 DEF RegisterStep, LockManager, Acquire, NextAfterLock, BeginOuter,
     Die, EndOuter, BeginInner, EndInner, UnlockManager, Return
<1>3. CASE LookupStep(g)
  BY <1>3 DEF LookupStep, ReadOuter, ReadInner, ReturnCodec, Return, Die
<1> QED
  BY <1>1, <1>2, <1>3 DEF Step

\* Every step keeps the types.
LEMMA StartupTypeStep ==
  ASSUME IInv, StartupTypeOK, [SNext]_startupVars
  PROVE  StartupTypeOK'
<1> USE InitOrderFacts DEF StartupTypeOK, CallInv
<1>t. TypeOK
  BY DEF IInv
<1>1. ASSUME NEW g \in Goroutine, CallInit(g) PROVE StartupTypeOK'
  BY <1>1 DEF CallInit, vars
<1>2. ASSUME NEW g \in Goroutine, InitRegister(g) PROVE StartupTypeOK'
  BY <1>2, <1>t DEF InitRegister, CallRegister, TypeOK
<1>3. ASSUME NEW g \in Goroutine, InitReturn(g) PROVE StartupTypeOK'
  BY <1>3 DEF InitReturn, vars, InitLength
<1>4. ASSUME NEW g \in Goroutine, Lookup(g) PROVE StartupTypeOK'
  BY <1>4, <1>t DEF Lookup, CallLookup, TypeOK
<1>5. ASSUME NEW g \in Goroutine, Continue(g) PROVE StartupTypeOK'
  BY <1>5, <1>t, CallKept DEF Continue
<1>6. CASE UNCHANGED startupVars
  BY <1>6 DEF startupVars, vars
<1> QED
  BY <1>1, <1>2, <1>3, <1>4, <1>5, <1>6 DEF SNext

----------------------------------------------------------------------------
(* The table.                                                              *)

\* A registration puts a codec of Init where it belongs, and nothing else.
LEMMA StartupEntry ==
  ASSUME IInv, StartupTypeOK, [SNext]_startupVars,
         NEW t \in CodecType, NEW m \in MessageType, Entry(t, m)' # Entry(t, m)
  PROVE  /\ t = CodecTypeSeata
         /\ \E i \in 1 .. InitLength :
              TypeAt(i) = m /\ Entry(t, m)' = InitOrder[i]
<1>1. PICK g \in Goroutine : /\ EndInner(g)
                             /\ t = req[g].ct
                             /\ m = GetMessageType[req[g].codec]
  BY StartupStep, EntryStep
<1>2. req[g] \in RegisterRequest /\ pc[g] # "idle"
  BY <1>1 DEF EndInner, IInv, TypeOK, LocalsOK
<1>3. Entry(t, m)' = req[g].codec
  <2>1. Entry(req[g].ct, GetMessageType[req[g].codec])' = req[g].codec
    BY <1>1, StartupStep, EntryStored
  <2>2. req' = req
    BY <1>1 DEF EndInner
  <2> QED
    BY <1>1, <2>1, <2>2
<1> QED
  BY <1>1, <1>2, <1>3 DEF StartupTypeOK, CallInv, TypeAt

\* What is in the table stays there.
LEMMA InTableStays ==
  ASSUME IInv, StartupTypeOK, [SNext]_startupVars,
         NEW i \in 1 .. InitLength, InTable(i)
  PROVE  InTable(i)'
<1>1. TypeAt(i) \in MessageType /\ CodecTypeSeata \in CodecType
  BY InitOrderFacts
<1>2. CASE Entry(CodecTypeSeata, TypeAt(i))' = Entry(CodecTypeSeata, TypeAt(i))
  BY <1>2 DEF InTable
<1>3. CASE Entry(CodecTypeSeata, TypeAt(i))' # Entry(CodecTypeSeata, TypeAt(i))
  BY <1>1, <1>3, StartupEntry, InitOrderFacts DEF InTable
<1> QED
  BY <1>2, <1>3

\* When a registration returns, it is in the table.
LEMMA ReturnInTable ==
  ASSUME IInv, StartupTypeOK, NEW g \in Goroutine, UnlockManager(g)
  PROVE  InTable(position[g] - 1)
<1>1. /\ pc[g] = "unlock" /\ req[g] \in RegisterRequest
      /\ mgr[g] = codecManager /\ codecManager \in Goroutine
      /\ OuterAt(codecManager, req[g].ct) = local[g]
      /\ local[g] \in Address
      /\ innerMap[local[g]][GetMessageType[req[g].codec]] = req[g].codec
  BY DEF UnlockManager, IInv, TypeOK, LocalsOK, OneManager, HolderInv
<1>2. req[g].ct = CodecTypeSeata /\ req[g].codec = InitOrder[position[g] - 1]
  BY <1>1 DEF StartupTypeOK, CallInv
<1> QED
  BY <1>1, <1>2 DEF InTable, Entry, TypeAt

\* Every step keeps what is known of the table.
LEMMA StartupTableStep ==
  ASSUME IInv, StartupTypeOK, StartupTypeOK', StartupTableInv,
         [SNext]_startupVars
  PROVE  StartupTableInv'
<1>1. ASSUME NEW t \in CodecType, NEW m \in MessageType, Entry(t, m)' # NIL
      PROVE  t = CodecTypeSeata /\ \E i \in 1 .. InitLength :
               TypeAt(i) = m /\ Entry(t, m)' = InitOrder[i]
  <2>1. CASE Entry(t, m)' = Entry(t, m)
    BY <1>1, <2>1 DEF StartupTableInv
  <2>2. CASE Entry(t, m)' # Entry(t, m)
    BY <2>2, StartupEntry
  <2> QED
    BY <2>1, <2>2
<1>2. ASSUME NEW h \in Goroutine, NEW i \in 1 .. Behind(h)',
             ~ (i \in 1 .. Behind(h))
      PROVE  InTable(i)
  <2> USE DEF Behind, StartupTypeOK, CallInv
  <2>t. TypeOK
    BY DEF IInv
  <2>1. ASSUME NEW g \in Goroutine, CallInit(g) PROVE InTable(i)
    BY <1>2, <2>1 DEF CallInit, vars
  <2>2. ASSUME NEW g \in Goroutine, InitRegister(g) PROVE InTable(i)
    BY <1>2, <2>2, <2>t DEF InitRegister, CallRegister, TypeOK
  <2>3. ASSUME NEW g \in Goroutine, InitReturn(g) PROVE InTable(i)
    BY <1>2, <2>3 DEF InitReturn, vars
  <2>4. ASSUME NEW g \in Goroutine, Lookup(g) PROVE InTable(i)
    BY <1>2, <2>4, <2>t DEF Lookup, CallLookup, TypeOK
  <2>5. ASSUME NEW g \in Goroutine, Continue(g) PROVE InTable(i)
    <3>1. Step(g) /\ position' = position
      BY <2>5 DEF Continue
    <3>2. h = g /\ pc[g] # "idle" /\ pc'[g] = "idle" /\ i = position[g] - 1
      BY <1>2, <2>t, <3>1, CallKept
    <3>3. CASE UnlockManager(g)
      BY <3>2, <3>3, ReturnInTable
    <3>4. CASE ReturnCodec(g)
      <4>1. req[g] \in LookupRequest
        BY <2>t, <3>4 DEF ReturnCodec, TypeOK, LocalsOK
      <4>2. position[g] = 0
        BY <3>2, <4>1
      <4> QED
        BY <3>2, <4>2
    <3> QED
      BY <2>t, <3>1, <3>2, <3>3, <3>4, CallKept
  <2>6. CASE UNCHANGED startupVars
    BY <1>2, <2>6 DEF startupVars, vars
  <2> QED
    BY <2>1, <2>2, <2>3, <2>4, <2>5, <2>6 DEF SNext
<1>3. ASSUME NEW h \in Goroutine, NEW i \in 1 .. Behind(h)'
      PROVE  InTable(i)'
  <2>1. i \in 1 .. InitLength
    BY InitOrderFacts DEF Behind, StartupTypeOK, CallInv
  <2>2. InTable(i)
    BY <1>2 DEF StartupTableInv
  <2> QED
    BY <2>1, <2>2, InTableStays
<1>4. ASSUME returned', NEW i \in 1 .. InitLength PROVE InTable(i)'
  <2>1. CASE returned
    BY <2>1, InTableStays DEF StartupTableInv
  <2>2. CASE ~returned
    <3>1. PICK g \in Goroutine : InitReturn(g)
      BY <1>4, <2>2 DEF SNext, startupVars, CallInit, InitRegister, Lookup,
         Continue
    <3>2. i \in 1 .. Behind(g)
      BY <3>1, InitOrderFacts DEF InitReturn, Behind, InitLength
    <3> QED
      BY <3>2, InTableStays DEF StartupTableInv
  <2> QED
    BY <2>1, <2>2
<1> QED
  BY <1>1, <1>3, <1>4 DEF StartupTableInv

----------------------------------------------------------------------------
(* A crash needs two goroutines at the registry.                           *)

\* As long as Once runs, somebody is building the manager.
LEMMA BuilderStays ==
  ASSUME TypeOK, [Next]_vars,
         once = "running" => \E g \in Goroutine : pc[g] = "build",
         once' = "running"
  PROVE  \E g \in Goroutine : pc'[g] = "build"
<1> USE DEF TypeOK, shared
<1>1. ASSUME NEW g \in Goroutine, RunOnce(g)
      PROVE  \E h \in Goroutine : pc'[h] = "build"
  BY <1>1 DEF RunOnce
<1>2. ASSUME NEW g \in Goroutine, NEW h \in Goroutine, pc[h] = "build",
             Call(g) \/ Step(g), ~RunOnce(g)
      PROVE  pc'[h] = "build"
  <2>1. CASE Call(g)
    BY <1>2, <2>1 DEF Call, CallRegister, CallLookup
  <2>2. CASE GetManagerStep(g)
    BY <1>2, <2>2 DEF GetManagerStep, CheckManager, Enter, FirstPc, SkipOnce,
       BuildMap, PublishManager, FinishOnce, LoadManager
  <2>3. CASE RegisterStep(g)
    BY <1>2, <2>3 DEF RegisterStep, LockManager, Acquire, NextAfterLock,
       BeginOuter, Die, EndOuter, BeginInner, EndInner, UnlockManager, Return
  <2>4. CASE LookupStep(g)
    BY <1>2, <2>4 DEF LookupStep, ReadOuter, ReadInner, ReturnCodec, Return, Die
  <2> QED
    BY <1>2, <2>1, <2>2, <2>3, <2>4 DEF Step
<1>3. ASSUME NEW g \in Goroutine, Call(g) \/ Step(g), ~RunOnce(g)
      PROVE  once = "running"
  <2>1. CASE Call(g)
    BY <2>1 DEF Call, CallRegister, CallLookup
  <2>2. CASE GetManagerStep(g)
    BY <1>3, <2>2 DEF GetManagerStep, CheckManager, Enter, SkipOnce,
       BuildMap, PublishManager, FinishOnce, LoadManager
  <2>3. CASE RegisterStep(g)
    BY <2>3 DEF RegisterStep, LockManager, Acquire, BeginOuter, Die, EndOuter,
       BeginInner, EndInner, UnlockManager, Return
  <2>4. CASE LookupStep(g)
    BY <2>4 DEF LookupStep, ReadOuter, ReadInner, ReturnCodec, Return, Die
  <2> QED
    BY <1>3, <2>1, <2>2, <2>3, <2>4 DEF Step
<1>4. CASE UNCHANGED vars
  BY <1>4 DEF vars
<1> QED
  BY <1>1, <1>2, <1>3, <1>4 DEF Next

\* The process dies in one of three places.
LEMMA CrashCause ==
  ASSUME [Next]_vars, crash' # crash
  PROVE  \E g \in Goroutine :
           \/ pc[g] = "makeInner" /\ codecMap[mgr[g]] = NIL
           \/ pc[g] = "getType" /\ OuterWriters(mgr[g]) # {}
           \/ pc[g] = "getCodec" /\ InnerWriters(local[g]) # {}
<1>1. PICK g \in Goroutine : Call(g) \/ Step(g)
  BY DEF Next, vars
<1>2. ~Call(g) /\ ~GetManagerStep(g)
  BY DEF Call, CallRegister, CallLookup, GetManagerStep, CheckManager, Enter,
     RunOnce, SkipOnce, BuildMap, PublishManager, FinishOnce, LoadManager
<1>3. CASE RegisterStep(g)
  BY <1>3 DEF RegisterStep, LockManager, Acquire, BeginOuter, EndOuter,
     BeginInner, EndInner, UnlockManager, Return
<1>4. CASE LookupStep(g)
  BY <1>4 DEF LookupStep, ReadOuter, ReadInner, ReturnCodec, Return
<1> QED
  BY <1>1, <1>2, <1>3, <1>4 DEF Step

\* Every step keeps a single Init safe.
LEMMA OneInitStep ==
  ASSUME IInv, StartupTypeOK, OneInitInv, [SNext]_startupVars
  PROVE  OneInitInv'
<1>1. once' = "running" => \E g \in Goroutine : pc'[g] = "build"
  BY StartupStep, BuilderStays DEF IInv, OneInitInv
<1>2. \/ UNCHANGED <<position, inits, returned>>
      \/ \E g \in Goroutine :
           CallInit(g) \/ InitRegister(g) \/ InitReturn(g)
  BY DEF SNext, startupVars, Lookup, Continue
<1>3. ASSUME NEW g \in Goroutine, CallInit(g) \/ InitRegister(g) \/ InitReturn(g)
      PROVE  /\ inits' = 0 => ~returned' /\ \A h \in Goroutine : position'[h] = 0
             /\ inits' <= 1 =>
                  /\ \A h, k \in Goroutine :
                       position'[h] > 0 /\ position'[k] > 0 => h = k
                  /\ returned' => \A h \in Goroutine : position'[h] = 0
  <2> USE DEF OneInitInv, StartupTypeOK
  <2>1. CASE CallInit(g)
    BY <2>1 DEF CallInit
  <2>2. CASE InitRegister(g)
    BY <2>2 DEF InitRegister
  <2>3. CASE InitReturn(g)
    BY <2>3 DEF InitReturn
  <2> QED
    BY <1>3, <2>1, <2>2, <2>3
<1> QED
  BY <1>1, <1>2, <1>3 DEF OneInitInv

\* A goroutine at the registry while Init has been called once: the one
\* inside Init, or, when that has returned, a lookup.
LEMMA OneInitCalls ==
  ASSUME TypeOK, StartupTypeOK, OneInitInv, inits <= 1,
         NEW g \in Goroutine, NEW h \in Goroutine, pc[g] # "idle",
         pc[h] # "idle", req[g] \in RegisterRequest
  PROVE  g = h
<1>1. position[g] > 0
  BY DEF StartupTypeOK, CallInv
<1>2. ~returned
  BY <1>1 DEF OneInitInv
<1>3. req[h] \in RegisterRequest \cup LookupRequest
  BY DEF TypeOK, LocalsOK
<1>4. position[h] > 0
  BY <1>2, <1>3 DEF StartupTypeOK, CallInv
<1> QED
  BY <1>1, <1>4 DEF OneInitInv

\* Every step keeps that a race needs a second Init.
LEMMA RaceStep ==
  ASSUME IInv, StartupTypeOK, OneInitInv, OneInitInv', StartupTypeOK',
         RaceNeedsSecondInit, [SNext]_startupVars
  PROVE  RaceNeedsSecondInit'
<1> SUFFICES ASSUME crash' # crash, inits <= 1 PROVE FALSE
  <2>1. inits' >= inits
    BY DEF SNext, startupVars, CallInit, InitRegister, InitReturn, Lookup,
       Continue, StartupTypeOK
  <2> QED
    BY <2>1 DEF RaceNeedsSecondInit, StartupTypeOK
<1>t. TypeOK
  BY DEF IInv
<1>1. PICK g \in Goroutine :
        \/ pc[g] = "makeInner" /\ codecMap[mgr[g]] = NIL
        \/ pc[g] = "getType" /\ OuterWriters(mgr[g]) # {}
        \/ pc[g] = "getCodec" /\ InnerWriters(local[g]) # {}
  BY StartupStep, CrashCause
<1>2. CASE pc[g] = "makeInner" /\ codecMap[mgr[g]] = NIL
  <2>1. req[g] \in RegisterRequest /\ mgr[g] = codecManager /\ codecManager # NIL
    BY <1>2 DEF IInv, TypeOK, LocalsOK, OneManager
  <2>2. once = "running"
    BY <1>2, <2>1 DEF IInv, OnceInv, TypeOK
  <2>3. PICK h \in Goroutine : pc[h] = "build"
    BY <2>2 DEF OneInitInv
  <2> QED
    BY <1>t, <1>2, <2>1, <2>3, OneInitCalls
<1>3. ASSUME pc[g] \in {"getType", "getCodec"},
             NEW w \in Goroutine, pc[w] \in {"assignOuter", "assignInner"}
      PROVE  FALSE
  <2>1. req[w] \in RegisterRequest
    BY <1>t, <1>3 DEF TypeOK, LocalsOK
  <2> QED
    BY <1>t, <1>3, <2>1, OneInitCalls
<1> QED
  BY <1>1, <1>2, <1>3 DEF OuterWriters, InnerWriters

----------------------------------------------------------------------------
(* Lookups.                                                                *)

\* The codec a lookup finds is the last one registered.
LEMMA RegisteredCodec ==
  ASSUME NEW i \in 1 .. InitLength
  PROVE  Registered(CodecTypeSeata, TypeAt(i)) = InitOrder[i]
<1> DEFINE Fits(c) == /\ GetMessageType[c] = TypeAt(i)
                      /\ \E j \in DOMAIN InitOrder : InitOrder[j] = c
<1>1. Fits(InitOrder[i]) /\ InitOrder[i] \in Codec
  BY InitOrderFacts DEF TypeAt
<1>2. ASSUME NEW c \in Codec, Fits(c) PROVE c = InitOrder[i]
  BY <1>2, InitOrderFacts DEF TypeAt
<1>3. (CHOOSE c \in Codec : Fits(c)) = InitOrder[i]
  <2> HIDE DEF Fits
  <2> QED
    BY <1>1, <1>2
<1> QED
  BY <1>1, <1>3 DEF Registered

\* A lookup finds nothing only under a type without a registration.
LEMMA RegisteredNothing ==
  ASSUME NEW t, NEW m,
         t # CodecTypeSeata \/ \A i \in 1 .. InitLength : TypeAt(i) # m
  PROVE  Registered(t, m) = NIL
  BY InitOrderFacts DEF Registered, TypeAt

\* After an Init the table is what Init registers.
LEMMA TableExact ==
  ASSUME StartupTableInv, returned, NEW t \in CodecType, NEW m \in MessageType
  PROVE  Entry(t, m) = Registered(t, m)
<1>1. CASE t = CodecTypeSeata /\ \E i \in 1 .. InitLength : TypeAt(i) = m
  BY <1>1, RegisteredCodec DEF StartupTableInv, InTable
<1>2. CASE t # CodecTypeSeata \/ \A i \in 1 .. InitLength : TypeAt(i) # m
  BY <1>2, RegisteredNothing DEF StartupTableInv
<1> QED
  BY <1>1, <1>2

\* After an Init no key is inserted any more, at either level.
LEMMA NoInsertion ==
  ASSUME IInv, StartupTypeOK, StartupTableInv, returned,
         NEW w \in Goroutine, pc[w] \in {"assignOuter", "assignInner"}
  PROVE  /\ pc[w] = "assignInner"
         /\ req[w].codec = Registered(req[w].ct, GetMessageType[req[w].codec])
         /\ innerMap[local[w]][GetMessageType[req[w].codec]] # NIL
<1>1. /\ req[w] \in RegisterRequest
      /\ mgr[w] = codecManager /\ codecManager \in Goroutine
  BY DEF IInv, TypeOK, LocalsOK, OneManager
<1>2. PICK i \in 1 .. InitLength :
        req[w].ct = CodecTypeSeata /\ req[w].codec = InitOrder[i]
  BY <1>1 DEF StartupTypeOK, CallInv
<1>3. Entry(CodecTypeSeata, TypeAt(i)) = InitOrder[i] /\ InitOrder[i] # NIL
  BY InitOrderFacts DEF StartupTableInv, InTable
<1>4. /\ OuterAt(codecManager, CodecTypeSeata) # NIL
      /\ innerMap[OuterAt(codecManager, CodecTypeSeata)][TypeAt(i)] # NIL
  BY <1>1, <1>3 DEF Entry
<1>5. pc[w] = "assignInner" /\ OuterAt(codecManager, CodecTypeSeata) = local[w]
  BY <1>1, <1>2, <1>4 DEF IInv, HolderInv
<1> QED
  BY <1>2, <1>4, <1>5, RegisteredCodec DEF TypeAt

\* A lookup ends with one of its two reads.
LEMMA FoundStep ==
  ASSUME IInv, [Next]_vars, NEW h \in Goroutine, pc[h] # "found",
         pc'[h] = "found"
  PROVE  ReadOuter(h) \/ ReadInner(h)
<1>1. PICK g \in Goroutine : Call(g) \/ Step(g)
  BY DEF Next, vars
<1>t. TypeOK
  BY DEF IInv
<1>2. Step(g) /\ g = h
  BY <1>1, <1>t, CallKept DEF Call, CallRegister, CallLookup, TypeOK
<1> USE DEF TypeOK
<1>3. ~GetManagerStep(h) /\ ~RegisterStep(h)
  BY <1>t DEF GetManagerStep, CheckManager, Enter, FirstPc, RunOnce, SkipOnce,
     BuildMap, PublishManager, FinishOnce, LoadManager, RegisterStep,
     LockManager, Acquire, NextAfterLock, BeginOuter, Die, EndOuter,
     BeginInner, EndInner, UnlockManager, Return
<1>4. ~ReturnCodec(h)
  BY <1>t DEF ReturnCodec, Return
<1> QED
  BY <1>2, <1>3, <1>4 DEF Step, LookupStep

\* Every step keeps lookups exact.
LEMMA LookupExactStep ==
  ASSUME IInv, StartupTypeOK, StartupTableInv, LookupExact,
         [SNext]_startupVars
  PROVE  LookupExact'
<1> SUFFICES ASSUME NEW g \in Goroutine, pc'[g] = "found"
             PROVE  result'[g] = Registered(req'[g].ct, req'[g].mt)
  BY DEF LookupExact, Registered
<1>t. TypeOK /\ [Next]_vars
  BY StartupStep DEF IInv
<1>1. CASE pc[g] = "found"
  BY <1>1, <1>t, LocalStepLemma DEF LookupExact, LocalStep
<1>2. CASE pc[g] # "found"
  <2>1. ReadOuter(g) \/ ReadInner(g)
    BY <1>2, <1>t, FoundStep
  <2>2. /\ req[g] \in LookupRequest /\ req' = req
        /\ mgr[g] = codecManager /\ codecManager \in Goroutine
        /\ pc[g] \in {"getType", "getCodec"} /\ result[g] = NIL
    BY <1>t, <2>1 DEF ReadOuter, ReadInner, Die, IInv, TypeOK, LocalsOK,
       OneManager, ReaderInv
  <2>3. returned
    BY <2>2 DEF StartupTypeOK, CallInv
  <2>4. Entry(req[g].ct, req[g].mt) = Registered(req[g].ct, req[g].mt)
    BY <2>2, <2>3, TableExact
  <2>5. CASE ReadOuter(g)
    <3>1. OuterWriters(mgr[g]) = {}
      BY <2>3, NoInsertion DEF OuterWriters
    <3>2. OuterAt(codecManager, req[g].ct) = NIL /\ result' = result
      BY <1>2, <1>t, <2>2, <2>5, <3>1 DEF ReadOuter, OuterReads, Die, TypeOK
    <3> QED
      BY <2>2, <2>4, <3>2 DEF Entry
  <2>6. CASE ReadInner(g)
    <3> DEFINE t == req[g].ct
               m == req[g].mt
    <3>1. local[g] = OuterAt(codecManager, t) /\ local[g] \in Address
      BY <1>t, <2>2, <2>3, <2>6, NoInsertion
      DEF ReadInner, IInv, ReaderInv, TypeOK, LocalsOK
    <3>2. Entry(t, m) = innerMap[local[g]][m]
      BY <2>2, <3>1 DEF Entry
    <3>3. result'[g] \in InnerReads(local[g], m)
      BY <1>t, <1>2, <2>6 DEF ReadInner, Die, TypeOK
    <3>4. ASSUME NEW w \in InnerWriters(local[g])
          PROVE  /\ req[w].ct = t
                 /\ req[w].codec =
                      Registered(t, GetMessageType[req[w].codec])
                 /\ innerMap[local[g]][GetMessageType[req[w].codec]] # NIL
      <4>1. /\ w \in Goroutine /\ pc[w] = "assignInner"
            /\ local[w] = local[g]
        BY <3>4 DEF InnerWriters
      <4>2. /\ req[w] \in RegisterRequest /\ mgr[w] = codecManager
            /\ OuterAt(codecManager, req[w].ct) = local[g]
        BY <4>1 DEF IInv, TypeOK, LocalsOK, OneManager, HolderInv
      <4>3. req[w].ct = t
        BY <2>2, <3>1, <4>2 DEF IInv, TableInv
      <4> QED
        BY <2>3, <4>1, <4>3, NoInsertion
    <3>5. result'[g] = Registered(t, m)
      BY <2>4, <3>2, <3>3, <3>4 DEF InnerReads
    <3> QED
      BY <2>2, <3>5
  <2> QED
    BY <2>1, <2>5, <2>6
<1> QED
  BY <1>1, <1>2

----------------------------------------------------------------------------
(* Theorems.                                                               *)

\* The registry is used by Init and the lookups as CodecManager lets any
\* program use it: all that is proved of it holds here.
THEOREM StartupUsesRegistry == SSpec => Spec
<1>1. SInit => Init
  BY DEF SInit
<1>2. [SNext]_startupVars => [Next]_vars
  BY StartupStep
<1> QED
  BY <1>1, <1>2, PTL DEF SSpec, Spec

\* The invariant holds when the program starts.
LEMMA StartupInit == SInit => SInv
<1> SUFFICES ASSUME SInit PROVE SInv
  OBVIOUS
<1>1. /\ \A t \in CodecType, m \in MessageType : Entry(t, m) = NIL
      /\ \A g \in Goroutine : pc[g] = "idle" /\ position[g] = 0
      /\ once = "new" /\ crash = "none" /\ inits = 0 /\ returned = FALSE
  BY DEF SInit, Init, Entry
<1>2. StartupTypeOK
  <2>1. position \in [Goroutine -> 0 .. InitLength + 1]
    BY InitOrderFacts DEF SInit
  <2>2. \A g \in Goroutine : CallInv(g)
    BY <1>1 DEF CallInv
  <2> QED
    BY <1>1, <2>1, <2>2 DEF StartupTypeOK
<1>3. StartupTableInv
  BY <1>1 DEF StartupTableInv, Behind
<1>4. OneInitInv
  BY <1>1 DEF OneInitInv
<1>5. LookupExact /\ RaceNeedsSecondInit
  BY <1>1 DEF LookupExact, RaceNeedsSecondInit
<1> QED
  BY <1>2, <1>3, <1>4, <1>5 DEF SInv

\* Every step keeps it.
LEMMA StartupInvStep == IInv /\ SInv /\ [SNext]_startupVars => SInv'
<1> SUFFICES ASSUME IInv, SInv, [SNext]_startupVars PROVE SInv'
  OBVIOUS
<1>1. StartupTypeOK'
  BY StartupTypeStep DEF SInv
<1>2. StartupTableInv'
  BY <1>1, StartupTableStep DEF SInv
<1>3. OneInitInv'
  BY OneInitStep DEF SInv
<1>4. LookupExact'
  BY LookupExactStep DEF SInv
<1>5. RaceNeedsSecondInit'
  BY <1>1, <1>3, RaceStep DEF SInv
<1> QED
  BY <1>1, <1>2, <1>3, <1>4, <1>5 DEF SInv

\* The inductive invariant holds in every reachable state.
THEOREM StartupInductive == SSpec => [](IInv /\ SInv)
<1>1. SSpec => []IInv
  BY StartupUsesRegistry, Inductive, PTL
<1> QED
  BY <1>1, StartupInit, StartupInvStep, PTL DEF SSpec

\* A lookup made after an Init has returned answers exactly with the codec
\* Init registers, or with none where Init registers none, whatever other
\* Inits do to the same maps in the meantime.
THEOREM LookupsExact == SSpec => []LookupExact
<1>1. SInv => LookupExact
  BY DEF SInv
<1> QED
  BY <1>1, StartupInductive, PTL

\* A program that calls Init once cannot die in the registry, neither of a map
\* race nor of a nil map, even where stores are seen out of order.
THEOREM OneInitIsSafe == SSpec => []RaceNeedsSecondInit
<1>1. SInv => RaceNeedsSecondInit
  BY DEF SInv
<1> QED
  BY <1>1, StartupInductive, PTL
=============================================================================
