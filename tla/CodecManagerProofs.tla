------------------------- MODULE CodecManagerProofs -------------------------
(***************************************************************************)
(* Theorems about CodecManager, for any goroutines, codec families,        *)
(* message types and codecs, with and without reordered stores.            *)
(***************************************************************************)
EXTENDS CodecManager, TLAPS

----------------------------------------------------------------------------
(* The inductive invariant.                                                *)

\* sync.Once: at most one goroutine builds, before anything is published by
\* another one, and whoever gets past Once finds a finished manager.
OnceInv ==
  /\ once = "new" => codecManager = NIL
  /\ once = "done" => codecManager # NIL
  /\ codecManager # NIL /\ (once = "done" \/ ~Reorder) =>
       codecMap[codecManager] # NIL
  /\ \A g \in Goroutine :
       pc[g] = "build" => once = "running" /\ codecManager \in {NIL, g}
  /\ \A g, h \in Goroutine : pc[g] = "build" /\ pc[h] = "build" => g = h
  /\ \A g \in Goroutine : pc[g] = "load" => codecManager # NIL

\* The goroutines between Lock and Unlock.
CriticalPc == RegisterPc \ {"lock"}

LockInv ==
  \A g \in Goroutine : pc[g] \in CriticalPc => mutex[mgr[g]] = g

\* What a goroutine in RegisterCodec knows of the table, by where it stands.
HolderInv(g) ==
  LET t == req[g].ct
      c == req[g].codec IN
  /\ pc[g] = "makeInner" => OuterAt(mgr[g], t) = NIL
  /\ pc[g] = "assignOuter" =>
       /\ codecMap[mgr[g]] # NIL
       /\ OuterAt(mgr[g], t) = NIL
       /\ local[g] = <<g, t>>
       /\ innerMap[local[g]] = EmptyMap
  /\ pc[g] \in {"storeCodec", "assignInner", "unlock"} =>
       OuterAt(mgr[g], t) = local[g]
  /\ pc[g] = "unlock" => innerMap[local[g]][GetMessageType[c]] = c

\* The inner map a goroutine in GetCodec has found is, or is about to be,
\* the one of the asked family; before the second read there is no answer.
ReaderInv(g) ==
  /\ pc[g] # "found" => result[g] = NIL
  /\ pc[g] = "getCodec" =>
       \/ OuterAt(mgr[g], req[g].ct) = local[g]
       \/ \E w \in Goroutine : /\ pc[w] = "assignOuter"
                               /\ req[w].ct = req[g].ct
                               /\ local[w] = local[g]

\* Only the published manager has inner maps, no two families share one,
\* and every codec is under its type.
TableInv ==
  /\ \A m \in Goroutine, t \in CodecType :
       OuterAt(m, t) # NIL =>
         m = codecManager /\ OuterAt(m, t) \in Goroutine \X {t}
  /\ \A a \in Address, k \in MessageType :
       innerMap[a][k] # NIL => GetMessageType[innerMap[a][k]] = k

IInv ==
  /\ TypeOK
  /\ OnceInv
  /\ OneManager
  /\ LockInv
  /\ TableInv
  /\ \A g \in Goroutine : HolderInv(g) /\ ReaderInv(g)
  /\ LookupSound

----------------------------------------------------------------------------
USE ManagerAssumption DEF Address, RegisterRequest, LookupRequest,
    GetManagerPc, RegisterPc, LookupPc, EmptyMap, EmptyOuter, At, Goto

----------------------------------------------------------------------------
(* The step lemmas, one case per action.                                   *)

\* At most one goroutine stands between Lock and Unlock.
LEMMA Exclusion ==
  ASSUME IInv, NEW g \in Goroutine, NEW h \in Goroutine,
         pc[g] \in CriticalPc, pc[h] \in CriticalPc
  PROVE  g = h
<1>1. mutex[mgr[g]] = g /\ mutex[mgr[h]] = h
  BY DEF IInv, LockInv
<1>2. mgr[g] = mgr[h]
  BY DEF IInv, OneManager, CriticalPc, TypeOK, LocalsOK
<1> QED
  BY <1>1, <1>2

LEMMA TypeStep ==
  ASSUME TypeOK, OnceInv, \A h \in Goroutine : HolderInv(h), [Next]_vars
  PROVE  TypeOK'
<1> USE DEF TypeOK, OuterAt, LocalsOK, shared
<1>1. ASSUME NEW g \in Goroutine, NEW t \in CodecType, NEW c \in Codec,
             CallRegister(g, t, c)
      PROVE  TypeOK'
  BY <1>1 DEF CallRegister
<1>2. ASSUME NEW g \in Goroutine, NEW t \in CodecType, NEW m \in MessageType,
             CallLookup(g, t, m)
      PROVE  TypeOK'
  BY <1>2 DEF CallLookup
<1>3. ASSUME NEW g \in Goroutine, CheckManager(g) PROVE TypeOK'
  <2>1. CASE codecManager = NIL
    BY <1>3, <2>1 DEF CheckManager, Enter
  <2>2. CASE codecManager # NIL
    <3>1. /\ FirstPc(req[g]) \in {"lock", "getType"}
          /\ req[g] \in RegisterRequest <=> FirstPc(req[g]) = "lock"
          /\ req[g] \in RegisterRequest \cup LookupRequest
      BY <1>3 DEF CheckManager, FirstPc
    <3>2. /\ mgr' = [mgr EXCEPT ![g] = codecManager]
          /\ pc' = [pc EXCEPT ![g] = FirstPc(req[g])]
          /\ UNCHANGED <<shared, req, local, result, crash>>
      BY <1>3, <2>2 DEF CheckManager, Enter
    <3> QED
      BY <3>1, <3>2, <2>2
  <2> QED
    BY <2>1, <2>2
<1>4. ASSUME NEW g \in Goroutine, RunOnce(g) PROVE TypeOK'
  BY <1>4 DEF RunOnce
<1>5. ASSUME NEW g \in Goroutine, SkipOnce(g) PROVE TypeOK'
  BY <1>5 DEF SkipOnce
<1>6. ASSUME NEW g \in Goroutine, BuildMap(g) PROVE TypeOK'
  BY <1>6 DEF BuildMap
<1>7. ASSUME NEW g \in Goroutine, PublishManager(g) PROVE TypeOK'
  BY <1>7 DEF PublishManager
<1>8. ASSUME NEW g \in Goroutine, FinishOnce(g) PROVE TypeOK'
  BY <1>8 DEF FinishOnce
<1>9. ASSUME NEW g \in Goroutine, LoadManager(g) PROVE TypeOK'
  BY <1>9 DEF LoadManager, Enter, FirstPc, OnceInv
<1>10. ASSUME NEW g \in Goroutine, LockManager(g) PROVE TypeOK'
  BY <1>10 DEF LockManager, Acquire, NextAfterLock
<1>11. ASSUME NEW g \in Goroutine, BeginOuter(g) PROVE TypeOK'
  <2>1. CASE Die("nilMap")
    BY <2>1 DEF Die
  <2>2. CASE ~Die("nilMap")
    <3> DEFINE address == <<g, req[g].ct>>
    <3>1. /\ address \in Address
          /\ mgr[g] \in Goroutine
          /\ req[g] \in RegisterRequest
      BY <1>11 DEF BeginOuter
    <3>2. /\ innerMap' = [innerMap EXCEPT ![address] = EmptyMap]
          /\ local' = [local EXCEPT ![g] = address]
          /\ pc' = [pc EXCEPT ![g] = "assignOuter"]
          /\ UNCHANGED <<codecManager, once, codecMap, mutex,
                         req, mgr, result, crash>>
      BY <1>11, <2>2 DEF BeginOuter
    <3> HIDE DEF address
    <3> QED
      BY <3>1, <3>2
  <2> QED
    BY <2>1, <2>2
<1>12. ASSUME NEW g \in Goroutine, EndOuter(g) PROVE TypeOK'
  <2>1. /\ mgr[g] \in Goroutine
        /\ local[g] \in Address
        /\ req[g].ct \in CodecType
        /\ codecMap[mgr[g]] \in [CodecType -> Address \cup {NIL}]
    BY <1>12 DEF EndOuter, HolderInv
  <2>2. [codecMap[mgr[g]] EXCEPT ![req[g].ct] = local[g]]
          \in [CodecType -> Address \cup {NIL}]
    BY <2>1
  <2>3. codecMap' \in
          [Goroutine -> {NIL} \cup [CodecType -> Address \cup {NIL}]]
    BY <1>12, <2>1, <2>2 DEF EndOuter
  <2>4. UNCHANGED <<codecManager, once, mutex, innerMap,
                    req, mgr, local, result, crash>>
        /\ pc' = [pc EXCEPT ![g] = "storeCodec"]
        /\ pc[g] = "assignOuter"
    BY <1>12 DEF EndOuter
  <2> QED
    BY <2>1, <2>3, <2>4
<1>13. ASSUME NEW g \in Goroutine, BeginInner(g) PROVE TypeOK'
  BY <1>13 DEF BeginInner
<1>14. ASSUME NEW g \in Goroutine, EndInner(g) PROVE TypeOK'
  BY <1>14 DEF EndInner
<1>15. ASSUME NEW g \in Goroutine, UnlockManager(g) PROVE TypeOK'
  BY <1>15 DEF UnlockManager, Return
<1>16. ASSUME NEW g \in Goroutine, ReadOuter(g) PROVE TypeOK'
  <2>1. CASE Die("mapRace")
    BY <2>1 DEF Die
  <2>2. ASSUME NEW a \in OuterReads(mgr[g], req[g].ct),
               local' = [local EXCEPT ![g] = a],
               pc' = [pc EXCEPT ![g] = IF a = NIL THEN "found" ELSE "getCodec"],
               UNCHANGED <<shared, req, mgr, result, crash>>
        PROVE  TypeOK'
    <3>1. mgr[g] \in Goroutine /\ req[g] \in LookupRequest
      BY <1>16 DEF ReadOuter
    <3>2. OuterAt(mgr[g], req[g].ct) \in Address \cup {NIL}
      BY <3>1
    <3>3. a \in Address \cup {NIL}
      BY <3>2 DEF OuterReads, OuterWriters
    <3> QED
      BY <3>1, <3>3, <2>2
  <2> QED
    BY <1>16, <2>1, <2>2 DEF ReadOuter
<1>17. ASSUME NEW g \in Goroutine, ReadInner(g) PROVE TypeOK'
  <2>1. CASE Die("mapRace")
    BY <2>1 DEF Die
  <2>2. ASSUME NEW c \in InnerReads(local[g], req[g].mt),
               result' = [result EXCEPT ![g] = c],
               pc' = [pc EXCEPT ![g] = "found"],
               UNCHANGED <<shared, req, mgr, local, crash>>
        PROVE  TypeOK'
    <3>1. /\ local[g] \in Address /\ mgr[g] \in Goroutine
          /\ req[g] \in LookupRequest
      BY <1>17 DEF ReadInner
    <3>2. \A w \in InnerWriters(local[g]) : req[w].codec \in Codec
      BY DEF InnerWriters
    <3>3. innerMap[local[g]][req[g].mt] \in Codec \cup {NIL}
      BY <3>1
    <3>4. c \in Codec \cup {NIL}
      BY <3>2, <3>3 DEF InnerReads
    <3> QED
      BY <3>1, <3>4, <2>2
  <2> QED
    BY <1>17, <2>1, <2>2 DEF ReadInner
<1>18. ASSUME NEW g \in Goroutine, ReturnCodec(g) PROVE TypeOK'
  BY <1>18 DEF ReturnCodec, Return
<1>19. CASE UNCHANGED vars
  BY <1>19 DEF vars
<1> QED
  BY <1>1, <1>2, <1>3, <1>4, <1>5, <1>6, <1>7, <1>8, <1>9, <1>10, <1>11, <1>12, <1>13, <1>14, <1>15, <1>16, <1>17, <1>18, <1>19
  DEF Next, Call, Step, GetManagerStep, RegisterStep, LookupStep

LEMMA OnceStep ==
  ASSUME TypeOK, OnceInv, \A h \in Goroutine : HolderInv(h), [Next]_vars
  PROVE  OnceInv'
<1> USE DEF TypeOK, OnceInv, LocalsOK, shared
<1>1. ASSUME NEW g \in Goroutine, NEW t \in CodecType, NEW c \in Codec,
             CallRegister(g, t, c)
      PROVE  OnceInv'
  BY <1>1 DEF CallRegister
<1>2. ASSUME NEW g \in Goroutine, NEW t \in CodecType, NEW m \in MessageType,
             CallLookup(g, t, m)
      PROVE  OnceInv'
  BY <1>2 DEF CallLookup
<1>3. ASSUME NEW g \in Goroutine, CheckManager(g) PROVE OnceInv'
  BY <1>3 DEF CheckManager, Enter, FirstPc
<1>4. ASSUME NEW g \in Goroutine, RunOnce(g) PROVE OnceInv'
  BY <1>4 DEF RunOnce
<1>5. ASSUME NEW g \in Goroutine, SkipOnce(g) PROVE OnceInv'
  BY <1>5 DEF SkipOnce
<1>6. ASSUME NEW g \in Goroutine, BuildMap(g) PROVE OnceInv'
  BY <1>6 DEF BuildMap
<1>7. ASSUME NEW g \in Goroutine, PublishManager(g) PROVE OnceInv'
  BY <1>7 DEF PublishManager
<1>8. ASSUME NEW g \in Goroutine, FinishOnce(g) PROVE OnceInv'
  BY <1>8 DEF FinishOnce
<1>9. ASSUME NEW g \in Goroutine, LoadManager(g) PROVE OnceInv'
  BY <1>9 DEF LoadManager, Enter, FirstPc
<1>10. ASSUME NEW g \in Goroutine, LockManager(g) PROVE OnceInv'
  BY <1>10 DEF LockManager, Acquire, NextAfterLock
<1>11. ASSUME NEW g \in Goroutine, BeginOuter(g) PROVE OnceInv'
  BY <1>11 DEF BeginOuter, Die
<1>12. ASSUME NEW g \in Goroutine, EndOuter(g) PROVE OnceInv'
  <2>1. /\ mgr[g] \in Goroutine
        /\ local[g] \in Address
        /\ req[g].ct \in CodecType
        /\ codecMap[mgr[g]] # NIL
        /\ codecMap[mgr[g]] \in [CodecType -> Address \cup {NIL}]
    BY <1>12 DEF EndOuter, HolderInv
  <2>2. [codecMap[mgr[g]] EXCEPT ![req[g].ct] = local[g]] # NIL
    <3>1. [codecMap[mgr[g]] EXCEPT ![req[g].ct] = local[g]]
            \in [CodecType -> Address \cup {NIL}]
      BY <2>1
    <3> QED
      BY <3>1
  <2>3. \A m \in Goroutine : codecMap[m] # NIL => codecMap'[m] # NIL
    BY <1>12, <2>1, <2>2 DEF EndOuter
  <2> QED
    BY <1>12, <2>3 DEF EndOuter
<1>13. ASSUME NEW g \in Goroutine, BeginInner(g) PROVE OnceInv'
  BY <1>13 DEF BeginInner
<1>14. ASSUME NEW g \in Goroutine, EndInner(g) PROVE OnceInv'
  BY <1>14 DEF EndInner
<1>15. ASSUME NEW g \in Goroutine, UnlockManager(g) PROVE OnceInv'
  BY <1>15 DEF UnlockManager, Return
<1>16. ASSUME NEW g \in Goroutine, ReadOuter(g) PROVE OnceInv'
  BY <1>16 DEF ReadOuter, Die, OuterReads, OuterWriters
<1>17. ASSUME NEW g \in Goroutine, ReadInner(g) PROVE OnceInv'
  BY <1>17 DEF ReadInner, Die, InnerReads, InnerWriters
<1>18. ASSUME NEW g \in Goroutine, ReturnCodec(g) PROVE OnceInv'
  BY <1>18 DEF ReturnCodec, Return
<1>19. CASE UNCHANGED vars
  BY <1>19 DEF vars
<1> QED
  BY <1>1, <1>2, <1>3, <1>4, <1>5, <1>6, <1>7, <1>8, <1>9, <1>10, <1>11, <1>12, <1>13, <1>14, <1>15, <1>16, <1>17, <1>18, <1>19
  DEF Next, Call, Step, GetManagerStep, RegisterStep, LookupStep

LEMMA OneManagerStep ==
  ASSUME TypeOK, OnceInv, OneManager, [Next]_vars
  PROVE  OneManager'
<1> USE DEF TypeOK, OnceInv, OneManager, shared
<1>1. ASSUME NEW g \in Goroutine, NEW t \in CodecType, NEW c \in Codec,
             CallRegister(g, t, c)
      PROVE  OneManager'
  BY <1>1 DEF CallRegister
<1>2. ASSUME NEW g \in Goroutine, NEW t \in CodecType, NEW m \in MessageType,
             CallLookup(g, t, m)
      PROVE  OneManager'
  BY <1>2 DEF CallLookup
<1>3. ASSUME NEW g \in Goroutine, CheckManager(g) PROVE OneManager'
  BY <1>3 DEF CheckManager, Enter, FirstPc
<1>4. ASSUME NEW g \in Goroutine, RunOnce(g) PROVE OneManager'
  BY <1>4 DEF RunOnce
<1>5. ASSUME NEW g \in Goroutine, SkipOnce(g) PROVE OneManager'
  BY <1>5 DEF SkipOnce
<1>6. ASSUME NEW g \in Goroutine, BuildMap(g) PROVE OneManager'
  BY <1>6 DEF BuildMap
<1>7. ASSUME NEW g \in Goroutine, PublishManager(g) PROVE OneManager'
  BY <1>7 DEF PublishManager
<1>8. ASSUME NEW g \in Goroutine, FinishOnce(g) PROVE OneManager'
  BY <1>8 DEF FinishOnce
<1>9. ASSUME NEW g \in Goroutine, LoadManager(g) PROVE OneManager'
  BY <1>9 DEF LoadManager, Enter, FirstPc
<1>10. ASSUME NEW g \in Goroutine, LockManager(g) PROVE OneManager'
  BY <1>10 DEF LockManager, Acquire, NextAfterLock
<1>11. ASSUME NEW g \in Goroutine, BeginOuter(g) PROVE OneManager'
  BY <1>11 DEF BeginOuter, Die
<1>12. ASSUME NEW g \in Goroutine, EndOuter(g) PROVE OneManager'
  BY <1>12 DEF EndOuter
<1>13. ASSUME NEW g \in Goroutine, BeginInner(g) PROVE OneManager'
  BY <1>13 DEF BeginInner
<1>14. ASSUME NEW g \in Goroutine, EndInner(g) PROVE OneManager'
  BY <1>14 DEF EndInner
<1>15. ASSUME NEW g \in Goroutine, UnlockManager(g) PROVE OneManager'
  BY <1>15 DEF UnlockManager, Return
<1>16. ASSUME NEW g \in Goroutine, ReadOuter(g) PROVE OneManager'
  BY <1>16 DEF ReadOuter, Die, OuterReads, OuterWriters
<1>17. ASSUME NEW g \in Goroutine, ReadInner(g) PROVE OneManager'
  BY <1>17 DEF ReadInner, Die, InnerReads, InnerWriters
<1>18. ASSUME NEW g \in Goroutine, ReturnCodec(g) PROVE OneManager'
  BY <1>18 DEF ReturnCodec, Return
<1>19. CASE UNCHANGED vars
  BY <1>19 DEF vars
<1> QED
  BY <1>1, <1>2, <1>3, <1>4, <1>5, <1>6, <1>7, <1>8, <1>9, <1>10, <1>11, <1>12, <1>13, <1>14, <1>15, <1>16, <1>17, <1>18, <1>19
  DEF Next, Call, Step, GetManagerStep, RegisterStep, LookupStep

LEMMA LockStep ==
  ASSUME TypeOK, OnceInv, OneManager, LockInv, [Next]_vars
  PROVE  LockInv'
<1> USE DEF TypeOK, OneManager, LockInv, CriticalPc, LocalsOK, shared
<1>1. ASSUME NEW g \in Goroutine, NEW t \in CodecType, NEW c \in Codec,
             CallRegister(g, t, c)
      PROVE  LockInv'
  BY <1>1 DEF CallRegister
<1>2. ASSUME NEW g \in Goroutine, NEW t \in CodecType, NEW m \in MessageType,
             CallLookup(g, t, m)
      PROVE  LockInv'
  BY <1>2 DEF CallLookup
<1>3. ASSUME NEW g \in Goroutine, CheckManager(g) PROVE LockInv'
  BY <1>3 DEF CheckManager, Enter, FirstPc
<1>4. ASSUME NEW g \in Goroutine, RunOnce(g) PROVE LockInv'
  BY <1>4 DEF RunOnce
<1>5. ASSUME NEW g \in Goroutine, SkipOnce(g) PROVE LockInv'
  BY <1>5 DEF SkipOnce
<1>6. ASSUME NEW g \in Goroutine, BuildMap(g) PROVE LockInv'
  BY <1>6 DEF BuildMap
<1>7. ASSUME NEW g \in Goroutine, PublishManager(g) PROVE LockInv'
  BY <1>7 DEF PublishManager
<1>8. ASSUME NEW g \in Goroutine, FinishOnce(g) PROVE LockInv'
  BY <1>8 DEF FinishOnce
<1>9. ASSUME NEW g \in Goroutine, LoadManager(g) PROVE LockInv'
  BY <1>9 DEF LoadManager, Enter, FirstPc
<1>10. ASSUME NEW g \in Goroutine, LockManager(g) PROVE LockInv'
  BY <1>10 DEF LockManager, Acquire, NextAfterLock
<1>11. ASSUME NEW g \in Goroutine, BeginOuter(g) PROVE LockInv'
  BY <1>11 DEF BeginOuter, Die
<1>12. ASSUME NEW g \in Goroutine, EndOuter(g) PROVE LockInv'
  BY <1>12 DEF EndOuter
<1>13. ASSUME NEW g \in Goroutine, BeginInner(g) PROVE LockInv'
  BY <1>13 DEF BeginInner
<1>14. ASSUME NEW g \in Goroutine, EndInner(g) PROVE LockInv'
  BY <1>14 DEF EndInner
<1>15. ASSUME NEW g \in Goroutine, UnlockManager(g) PROVE LockInv'
  BY <1>15 DEF UnlockManager, Return
<1>16. ASSUME NEW g \in Goroutine, ReadOuter(g) PROVE LockInv'
  BY <1>16 DEF ReadOuter, Die, OuterReads, OuterWriters
<1>17. ASSUME NEW g \in Goroutine, ReadInner(g) PROVE LockInv'
  BY <1>17 DEF ReadInner, Die, InnerReads, InnerWriters
<1>18. ASSUME NEW g \in Goroutine, ReturnCodec(g) PROVE LockInv'
  BY <1>18 DEF ReturnCodec, Return
<1>19. CASE UNCHANGED vars
  BY <1>19 DEF vars
<1> QED
  BY <1>1, <1>2, <1>3, <1>4, <1>5, <1>6, <1>7, <1>8, <1>9, <1>10, <1>11, <1>12, <1>13, <1>14, <1>15, <1>16, <1>17, <1>18, <1>19
  DEF Next, Call, Step, GetManagerStep, RegisterStep, LookupStep

LEMMA TableStep ==
  ASSUME IInv, [Next]_vars
  PROVE  TableInv'
<1> USE DEF TypeOK, TableInv, OnceInv, OneManager, IInv, HolderInv, LocalsOK, OuterAt, shared
<1>1. ASSUME NEW g \in Goroutine, NEW t \in CodecType, NEW c \in Codec,
             CallRegister(g, t, c)
      PROVE  TableInv'
  BY <1>1 DEF CallRegister
<1>2. ASSUME NEW g \in Goroutine, NEW t \in CodecType, NEW m \in MessageType,
             CallLookup(g, t, m)
      PROVE  TableInv'
  BY <1>2 DEF CallLookup
<1>3. ASSUME NEW g \in Goroutine, CheckManager(g) PROVE TableInv'
  BY <1>3 DEF CheckManager, Enter, FirstPc
<1>4. ASSUME NEW g \in Goroutine, RunOnce(g) PROVE TableInv'
  BY <1>4 DEF RunOnce
<1>5. ASSUME NEW g \in Goroutine, SkipOnce(g) PROVE TableInv'
  BY <1>5 DEF SkipOnce
<1>6. ASSUME NEW g \in Goroutine, BuildMap(g) PROVE TableInv'
  BY <1>6 DEF BuildMap
<1>7. ASSUME NEW g \in Goroutine, PublishManager(g) PROVE TableInv'
  BY <1>7 DEF PublishManager
<1>8. ASSUME NEW g \in Goroutine, FinishOnce(g) PROVE TableInv'
  BY <1>8 DEF FinishOnce
<1>9. ASSUME NEW g \in Goroutine, LoadManager(g) PROVE TableInv'
  BY <1>9 DEF LoadManager, Enter, FirstPc
<1>10. ASSUME NEW g \in Goroutine, LockManager(g) PROVE TableInv'
  BY <1>10 DEF LockManager, Acquire, NextAfterLock
<1>11. ASSUME NEW g \in Goroutine, BeginOuter(g) PROVE TableInv'
  <2>1. CASE UNCHANGED shared
    BY <2>1
  <2>2. CASE ~UNCHANGED shared
    <3> DEFINE address == <<g, req[g].ct>>
    <3>1. /\ innerMap' = [innerMap EXCEPT ![address] = EmptyMap]
          /\ UNCHANGED <<codecMap, codecManager>>
      BY <1>11, <2>2 DEF BeginOuter, Die
    <3>2. ASSUME NEW a \in Address, NEW k \in MessageType,
                 innerMap'[a][k] # NIL
          PROVE  GetMessageType[innerMap'[a][k]] = k
      <4>1. CASE a = address
        BY <3>1, <3>2, <4>1
      <4>2. CASE a # address
        BY <3>1, <3>2, <4>2
      <4> QED
        BY <4>1, <4>2
    <3>3. \A m \in Goroutine, t \in CodecType : OuterAt(m, t)' = OuterAt(m, t)
      BY <3>1
    <3> QED
      BY <3>1, <3>2, <3>3
  <2> QED
    BY <2>1, <2>2
<1>12. ASSUME NEW g \in Goroutine, EndOuter(g) PROVE TableInv'
  BY <1>12 DEF EndOuter
<1>13. ASSUME NEW g \in Goroutine, BeginInner(g) PROVE TableInv'
  BY <1>13 DEF BeginInner
<1>14. ASSUME NEW g \in Goroutine, EndInner(g) PROVE TableInv'
  BY <1>14 DEF EndInner
<1>15. ASSUME NEW g \in Goroutine, UnlockManager(g) PROVE TableInv'
  BY <1>15 DEF UnlockManager, Return
<1>16. ASSUME NEW g \in Goroutine, ReadOuter(g) PROVE TableInv'
  BY <1>16 DEF ReadOuter, Die, OuterReads, OuterWriters
<1>17. ASSUME NEW g \in Goroutine, ReadInner(g) PROVE TableInv'
  BY <1>17 DEF ReadInner, Die, InnerReads, InnerWriters
<1>18. ASSUME NEW g \in Goroutine, ReturnCodec(g) PROVE TableInv'
  BY <1>18 DEF ReturnCodec, Return
<1>19. CASE UNCHANGED vars
  BY <1>19 DEF vars
<1> QED
  BY <1>1, <1>2, <1>3, <1>4, <1>5, <1>6, <1>7, <1>8, <1>9, <1>10, <1>11, <1>12, <1>13, <1>14, <1>15, <1>16, <1>17, <1>18, <1>19
  DEF Next, Call, Step, GetManagerStep, RegisterStep, LookupStep

LEMMA HolderStep ==
  ASSUME IInv, TypeOK', OneManager', OnceInv', NEW h \in Goroutine, [Next]_vars
  PROVE  HolderInv(h)'
<1> USE DEF TypeOK, TableInv, IInv, HolderInv, LockInv, CriticalPc, LocalsOK, OneManager, OuterAt, shared
<1>1. ASSUME NEW g \in Goroutine, NEW t \in CodecType, NEW c \in Codec,
             CallRegister(g, t, c)
      PROVE  HolderInv(h)'
  BY <1>1 DEF CallRegister
<1>2. ASSUME NEW g \in Goroutine, NEW t \in CodecType, NEW m \in MessageType,
             CallLookup(g, t, m)
      PROVE  HolderInv(h)'
  BY <1>2 DEF CallLookup
<1>3. ASSUME NEW g \in Goroutine, CheckManager(g) PROVE HolderInv(h)'
  <2>1. CASE h = g
    BY <1>3, <2>1 DEF CheckManager, Enter, FirstPc
  <2>2. CASE h # g
    <3>1. pc'[h] = pc[h] /\ mgr'[h] = mgr[h]
      BY <1>3, <2>2 DEF CheckManager, Enter
    <3> QED
      BY <1>3, <3>1 DEF CheckManager, Enter
  <2> QED
    BY <2>1, <2>2
<1>4. ASSUME NEW g \in Goroutine, RunOnce(g) PROVE HolderInv(h)'
  BY <1>4 DEF RunOnce
<1>5. ASSUME NEW g \in Goroutine, SkipOnce(g) PROVE HolderInv(h)'
  BY <1>5 DEF SkipOnce
<1>6. ASSUME NEW g \in Goroutine, BuildMap(g) PROVE HolderInv(h)'
  BY <1>6 DEF BuildMap
<1>7. ASSUME NEW g \in Goroutine, PublishManager(g) PROVE HolderInv(h)'
  BY <1>7 DEF PublishManager
<1>8. ASSUME NEW g \in Goroutine, FinishOnce(g) PROVE HolderInv(h)'
  BY <1>8 DEF FinishOnce
<1>9. ASSUME NEW g \in Goroutine, LoadManager(g) PROVE HolderInv(h)'
  BY <1>9 DEF LoadManager, Enter, FirstPc
<1>10. ASSUME NEW g \in Goroutine, LockManager(g) PROVE HolderInv(h)'
  <2>1. CASE h = g
    <3> DEFINE a == OuterAt(mgr[g], req[g].ct)
    <3>1. /\ pc'[g] = NextAfterLock(a) /\ local'[g] = a
          /\ UNCHANGED <<codecMap, innerMap, req, mgr>>
      <4>1. pc \in [Goroutine -> {"idle"} \cup GetManagerPc
                                   \cup RegisterPc \cup LookupPc]
            /\ local \in [Goroutine -> Address \cup {NIL}]
        OBVIOUS
      <4> HIDE DEF IInv, TypeOK, TableInv, LockInv, OneManager, HolderInv,
                   OuterAt, Address, GetManagerPc, RegisterPc, LookupPc
      <4> QED
        BY <1>10, <4>1 DEF LockManager, Acquire
    <3> HIDE DEF IInv, TypeOK, TableInv, LockInv, OneManager
    <3> QED
      BY <2>1, <3>1 DEF NextAfterLock
  <2>2. CASE h # g
    <3>1. /\ pc'[h] = pc[h] /\ local'[h] = local[h]
          /\ UNCHANGED <<codecMap, innerMap, req, mgr>>
      <4>1. pc \in [Goroutine -> {"idle"} \cup GetManagerPc
                                   \cup RegisterPc \cup LookupPc]
            /\ local \in [Goroutine -> Address \cup {NIL}]
        OBVIOUS
      <4> HIDE DEF IInv, TypeOK, TableInv, LockInv, OneManager, HolderInv,
                   OuterAt, Address, GetManagerPc, RegisterPc, LookupPc
      <4> QED
        BY <1>10, <2>2, <4>1 DEF LockManager, Acquire
    <3>2. HolderInv(h)
      OBVIOUS
    <3> HIDE DEF IInv, TypeOK, TableInv, LockInv, OneManager
    <3> QED
      BY <3>1, <3>2
  <2> QED
    BY <2>1, <2>2
<1>11. ASSUME NEW g \in Goroutine, BeginOuter(g) PROVE HolderInv(h)'
  <2>1. CASE h # g
    <3>1. pc[h] \notin CriticalPc
      BY <1>11, <2>1, Exclusion DEF BeginOuter
    <3>2. pc'[h] = pc[h]
      BY <1>11, <2>1 DEF BeginOuter, Die
    <3> QED
      BY <3>1, <3>2
  <2>2. CASE h = g
    <3> DEFINE address == <<g, req[g].ct>>
    <3>1. CASE Die("nilMap")
      BY <3>1 DEF Die
    <3>2. CASE ~Die("nilMap")
      <4>1. /\ address \in Address
            /\ mgr[g] \in Goroutine
            /\ codecMap[mgr[g]] # NIL
            /\ pc[g] = "makeInner"
            /\ innerMap' = [innerMap EXCEPT ![address] = EmptyMap]
            /\ local' = [local EXCEPT ![g] = address]
            /\ pc' = [pc EXCEPT ![g] = "assignOuter"]
            /\ UNCHANGED <<codecMap, req, mgr>>
        BY <1>11, <3>2 DEF BeginOuter
      <4>2. /\ local'[g] = address
            /\ innerMap'[address] = EmptyMap
            /\ pc'[g] = "assignOuter"
        BY <4>1
      <4>3. OuterAt(mgr[g], req[g].ct)' = NIL
        BY <4>1
      <4> QED
        BY <2>2, <4>1, <4>2, <4>3
    <3> QED
      BY <3>1, <3>2
  <2> QED
    BY <2>1, <2>2
<1>12. ASSUME NEW g \in Goroutine, EndOuter(g) PROVE HolderInv(h)'
  BY <1>12 DEF EndOuter
<1>13. ASSUME NEW g \in Goroutine, BeginInner(g) PROVE HolderInv(h)'
  BY <1>13 DEF BeginInner
<1>14. ASSUME NEW g \in Goroutine, EndInner(g) PROVE HolderInv(h)'
  <2>1. CASE h # g
    <3>1. pc[h] \notin CriticalPc
      BY <1>14, <2>1, Exclusion DEF EndInner
    <3>2. pc'[h] = pc[h]
      BY <1>14, <2>1 DEF EndInner, Die
    <3> QED
      BY <3>1, <3>2
  <2>2. CASE h = g
    <3> DEFINE c == req[g].codec
               k == GetMessageType[c]
    <3>1. /\ local[g] \in Address /\ c \in Codec /\ k \in MessageType
          /\ pc[g] = "assignInner"
          /\ innerMap' = [innerMap EXCEPT ![local[g]][k] = c]
          /\ pc' = [pc EXCEPT ![g] = "unlock"]
          /\ UNCHANGED <<codecMap, req, mgr, local>>
      BY <1>14 DEF EndInner
    <3>2. innerMap'[local[g]][k] = c
      BY <3>1
    <3>3. OuterAt(mgr[g], req[g].ct)' = local'[g]
      BY <3>1
    <3> QED
      BY <2>2, <3>1, <3>2, <3>3
  <2> QED
    BY <2>1, <2>2
<1>15. ASSUME NEW g \in Goroutine, UnlockManager(g) PROVE HolderInv(h)'
  BY <1>15 DEF UnlockManager, Return
<1>16. ASSUME NEW g \in Goroutine, ReadOuter(g) PROVE HolderInv(h)'
  BY <1>16 DEF ReadOuter, Die, OuterReads, OuterWriters
<1>17. ASSUME NEW g \in Goroutine, ReadInner(g) PROVE HolderInv(h)'
  BY <1>17 DEF ReadInner, Die, InnerReads, InnerWriters
<1>18. ASSUME NEW g \in Goroutine, ReturnCodec(g) PROVE HolderInv(h)'
  BY <1>18 DEF ReturnCodec, Return
<1>19. CASE UNCHANGED vars
  BY <1>19 DEF vars
<1> QED
  BY <1>1, <1>2, <1>3, <1>4, <1>5, <1>6, <1>7, <1>8, <1>9, <1>10, <1>11, <1>12, <1>13, <1>14, <1>15, <1>16, <1>17, <1>18, <1>19
  DEF Next, Call, Step, GetManagerStep, RegisterStep, LookupStep

LEMMA ReaderStep ==
  ASSUME IInv, TypeOK', OneManager', NEW h \in Goroutine, [Next]_vars
  PROVE  ReaderInv(h)'
<1> USE DEF TypeOK, IInv, OneManager, HolderInv, ReaderInv, LocalsOK, OuterAt, shared
<1>1. ASSUME NEW g \in Goroutine, NEW t \in CodecType, NEW c \in Codec,
             CallRegister(g, t, c)
      PROVE  ReaderInv(h)'
  BY <1>1 DEF CallRegister
<1>2. ASSUME NEW g \in Goroutine, NEW t \in CodecType, NEW m \in MessageType,
             CallLookup(g, t, m)
      PROVE  ReaderInv(h)'
  BY <1>2 DEF CallLookup
<1>3. ASSUME NEW g \in Goroutine, CheckManager(g) PROVE ReaderInv(h)'
  BY <1>3 DEF CheckManager, Enter, FirstPc
<1>4. ASSUME NEW g \in Goroutine, RunOnce(g) PROVE ReaderInv(h)'
  BY <1>4 DEF RunOnce
<1>5. ASSUME NEW g \in Goroutine, SkipOnce(g) PROVE ReaderInv(h)'
  BY <1>5 DEF SkipOnce
<1>6. ASSUME NEW g \in Goroutine, BuildMap(g) PROVE ReaderInv(h)'
  BY <1>6 DEF BuildMap
<1>7. ASSUME NEW g \in Goroutine, PublishManager(g) PROVE ReaderInv(h)'
  BY <1>7 DEF PublishManager
<1>8. ASSUME NEW g \in Goroutine, FinishOnce(g) PROVE ReaderInv(h)'
  BY <1>8 DEF FinishOnce
<1>9. ASSUME NEW g \in Goroutine, LoadManager(g) PROVE ReaderInv(h)'
  BY <1>9 DEF LoadManager, Enter, FirstPc
<1>10. ASSUME NEW g \in Goroutine, LockManager(g) PROVE ReaderInv(h)'
  BY <1>10 DEF LockManager, Acquire, NextAfterLock
<1>11. ASSUME NEW g \in Goroutine, BeginOuter(g) PROVE ReaderInv(h)'
  BY <1>11 DEF BeginOuter, Die
<1>12. ASSUME NEW g \in Goroutine, EndOuter(g) PROVE ReaderInv(h)'
  <2> SUFFICES ASSUME pc[h] = "getCodec", h # g
               PROVE  OuterAt(mgr[h], req[h].ct)' = local[h]
    BY <1>12 DEF EndOuter
  <2>1. /\ mgr[h] = mgr[g] /\ mgr[g] \in Goroutine
        /\ local[h] \in Address
        /\ codecMap[mgr[g]] \in [CodecType -> Address \cup {NIL}]
        /\ pc[g] = "assignOuter"
        /\ OuterAt(mgr[g], req[g].ct) = NIL
        /\ req[g].ct \in CodecType /\ req[h].ct \in CodecType
    BY <1>12 DEF EndOuter
  <2>2. codecMap'[mgr[g]] = [codecMap[mgr[g]] EXCEPT ![req[g].ct] = local[g]]
        /\ mgr' = mgr /\ req' = req
    BY <1>12, <2>1 DEF EndOuter
  <2>3. /\ [codecMap[mgr[g]] EXCEPT ![req[g].ct] = local[g]] # NIL
        /\ codecMap[mgr[g]] # NIL
    <3>1. [codecMap[mgr[g]] EXCEPT ![req[g].ct] = local[g]]
            \in [CodecType -> Address \cup {NIL}]
      BY <2>1, <1>12 DEF EndOuter
    <3> QED
      BY <3>1, <2>1
  <2>4. CASE OuterAt(mgr[h], req[h].ct) = local[h]
    BY <2>1, <2>2, <2>3, <2>4
  <2>5. ASSUME NEW w \in Goroutine, pc[w] = "assignOuter",
               req[w].ct = req[h].ct, local[w] = local[h]
        PROVE  OuterAt(mgr[h], req[h].ct)' = local[h]
    <3>1. w = g
      BY <2>1, <2>5, Exclusion DEF CriticalPc
    <3> QED
      BY <2>1, <2>2, <2>3, <2>5, <3>1
  <2> QED
    BY <2>4, <2>5
<1>13. ASSUME NEW g \in Goroutine, BeginInner(g) PROVE ReaderInv(h)'
  BY <1>13 DEF BeginInner
<1>14. ASSUME NEW g \in Goroutine, EndInner(g) PROVE ReaderInv(h)'
  <2>1. /\ pc[g] = "assignInner" /\ pc' = [pc EXCEPT ![g] = "unlock"]
        /\ UNCHANGED <<codecMap, req, mgr, local, result>>
    BY <1>14 DEF EndInner
  <2>2. /\ pc'[g] = "unlock"
        /\ \A w \in Goroutine : w # g => pc'[w] = pc[w]
    BY <2>1
  <2>3. ReaderInv(h)
    OBVIOUS
  <2> HIDE DEF IInv, TypeOK, HolderInv, OneManager, LocalsOK
  <2> QED
    BY <2>1, <2>2, <2>3
<1>15. ASSUME NEW g \in Goroutine, UnlockManager(g) PROVE ReaderInv(h)'
  BY <1>15 DEF UnlockManager, Return
<1>16. ASSUME NEW g \in Goroutine, ReadOuter(g) PROVE ReaderInv(h)'
  <2>1. CASE Die("mapRace")
    BY <2>1 DEF Die
  <2>2. ASSUME NEW a \in OuterReads(mgr[g], req[g].ct),
               local' = [local EXCEPT ![g] = a],
               pc' = [pc EXCEPT ![g] = IF a = NIL THEN "found" ELSE "getCodec"],
               UNCHANGED <<shared, req, mgr, result, crash>>
        PROVE  ReaderInv(h)'
    <3>1. \A w \in Goroutine : w # g => pc'[w] = pc[w] /\ local'[w] = local[w]
      BY <2>2
    <3>2. CASE h = g /\ a # NIL
      <4>1. \/ a = OuterAt(mgr[g], req[g].ct)
            \/ \E w \in Goroutine : /\ pc[w] = "assignOuter"
                                   /\ req[w].ct = req[g].ct
                                   /\ local[w] = a
        BY <3>2 DEF OuterReads, OuterWriters
      <4>2. local'[g] = a /\ pc[g] = "getType"
        BY <1>16, <2>2 DEF ReadOuter
      <4> QED
        BY <2>2, <3>1, <3>2, <4>1, <4>2
    <3>3. CASE h # g
      BY <1>16, <2>2, <3>1, <3>3 DEF ReadOuter
    <3> QED
      BY <2>2, <3>2, <3>3
  <2> QED
    BY <1>16, <2>1, <2>2 DEF ReadOuter
<1>17. ASSUME NEW g \in Goroutine, ReadInner(g) PROVE ReaderInv(h)'
  BY <1>17 DEF ReadInner, Die, InnerReads, InnerWriters
<1>18. ASSUME NEW g \in Goroutine, ReturnCodec(g) PROVE ReaderInv(h)'
  BY <1>18 DEF ReturnCodec, Return
<1>19. CASE UNCHANGED vars
  BY <1>19 DEF vars
<1> QED
  BY <1>1, <1>2, <1>3, <1>4, <1>5, <1>6, <1>7, <1>8, <1>9, <1>10, <1>11, <1>12, <1>13, <1>14, <1>15, <1>16, <1>17, <1>18, <1>19
  DEF Next, Call, Step, GetManagerStep, RegisterStep, LookupStep

----------------------------------------------------------------------------
(* The table.                                                              *)

\* Only EndInner changes an entry of the table, and then the one it stores.
LEMMA EntryStep ==
  ASSUME IInv, [Next]_vars, NEW u \in CodecType, NEW k \in MessageType,
         Entry(u, k)' # Entry(u, k)
  PROVE  \E g \in Goroutine :
           /\ EndInner(g)
           /\ u = req[g].ct
           /\ k = GetMessageType[req[g].codec]
<1> SUFFICES ASSUME \A g \in Goroutine :
                      EndInner(g) => u # req[g].ct
                                     \/ k # GetMessageType[req[g].codec]
             PROVE  Entry(u, k)' = Entry(u, k)
  OBVIOUS
<1> USE DEF IInv, TypeOK, OnceInv, OneManager, TableInv, HolderInv, LocalsOK, OuterAt, Entry, shared
<1>1. ASSUME NEW g \in Goroutine, NEW t \in CodecType, NEW c \in Codec,
             CallRegister(g, t, c)
      PROVE  Entry(u, k)' = Entry(u, k)
  BY <1>1 DEF CallRegister
<1>2. ASSUME NEW g \in Goroutine, NEW t \in CodecType, NEW m \in MessageType,
             CallLookup(g, t, m)
      PROVE  Entry(u, k)' = Entry(u, k)
  BY <1>2 DEF CallLookup
<1>3. ASSUME NEW g \in Goroutine, CheckManager(g) PROVE Entry(u, k)' = Entry(u, k)
  BY <1>3 DEF CheckManager, Enter, FirstPc
<1>4. ASSUME NEW g \in Goroutine, RunOnce(g) PROVE Entry(u, k)' = Entry(u, k)
  BY <1>4 DEF RunOnce
<1>5. ASSUME NEW g \in Goroutine, SkipOnce(g) PROVE Entry(u, k)' = Entry(u, k)
  BY <1>5 DEF SkipOnce
<1>6. ASSUME NEW g \in Goroutine, BuildMap(g) PROVE Entry(u, k)' = Entry(u, k)
  BY <1>6 DEF BuildMap
<1>7. ASSUME NEW g \in Goroutine, PublishManager(g) PROVE Entry(u, k)' = Entry(u, k)
  <2>1. /\ codecManager = NIL /\ codecManager' = g
        /\ UNCHANGED <<codecMap, innerMap>>
    BY <1>7 DEF PublishManager, OnceInv
  <2>2. OuterAt(g, u) = NIL
    BY <2>1
  <2> QED
    BY <2>1, <2>2
<1>8. ASSUME NEW g \in Goroutine, FinishOnce(g) PROVE Entry(u, k)' = Entry(u, k)
  BY <1>8 DEF FinishOnce
<1>9. ASSUME NEW g \in Goroutine, LoadManager(g) PROVE Entry(u, k)' = Entry(u, k)
  BY <1>9 DEF LoadManager, Enter, FirstPc
<1>10. ASSUME NEW g \in Goroutine, LockManager(g) PROVE Entry(u, k)' = Entry(u, k)
  BY <1>10 DEF LockManager, Acquire, NextAfterLock
<1>11. ASSUME NEW g \in Goroutine, BeginOuter(g) PROVE Entry(u, k)' = Entry(u, k)
  <2>1. CASE UNCHANGED shared
    BY <2>1
  <2>2. CASE ~UNCHANGED shared
    <3> DEFINE address == <<g, req[g].ct>>
               a == OuterAt(codecManager, u)
    <3>1. /\ innerMap' = [innerMap EXCEPT ![address] = EmptyMap]
          /\ UNCHANGED <<codecMap, codecManager>>
          /\ codecManager = mgr[g]
          /\ OuterAt(mgr[g], req[g].ct) = NIL
          /\ codecManager \in Goroutine
      BY <1>11, <2>2 DEF BeginOuter, Die
    <3>2. a # NIL => a # address
      BY <3>1
    <3>3. a # NIL => innerMap'[a] = innerMap[a]
      BY <3>1, <3>2
    <3> QED
      BY <3>1, <3>3
  <2> QED
    BY <2>1, <2>2
<1>12. ASSUME NEW g \in Goroutine, EndOuter(g) PROVE Entry(u, k)' = Entry(u, k)
  <2>1. /\ mgr[g] = codecManager /\ codecManager \in Goroutine
        /\ local[g] \in Address
        /\ codecMap[codecManager] \in [CodecType -> Address \cup {NIL}]
        /\ OuterAt(codecManager, req[g].ct) = NIL
        /\ innerMap[local[g]] = EmptyMap
        /\ req[g].ct \in CodecType
    <3>1. /\ pc[g] = "assignOuter" /\ mgr[g] \in Goroutine
          /\ local[g] \in Address /\ req[g] \in RegisterRequest
      BY <1>12 DEF EndOuter
    <3>2. mgr[g] = codecManager
      BY <3>1
    <3>3. /\ codecMap[mgr[g]] # NIL /\ OuterAt(mgr[g], req[g].ct) = NIL
          /\ innerMap[local[g]] = EmptyMap
      BY <3>1
    <3>4. codecMap \in
            [Goroutine -> {NIL} \cup [CodecType -> Address \cup {NIL}]]
      OBVIOUS
    <3> HIDE DEF IInv, TypeOK, TableInv, OneManager, HolderInv, OuterAt,
                 OnceInv, LocalsOK
    <3> QED
      BY <3>1, <3>2, <3>3, <3>4
  <2>2. /\ codecMap'[codecManager] =
             [codecMap[codecManager] EXCEPT ![req[g].ct] = local[g]]
        /\ UNCHANGED <<codecManager, innerMap>>
    BY <1>12, <2>1 DEF EndOuter
  <2>3. /\ codecMap[codecManager] # NIL
        /\ codecMap'[codecManager] # NIL
    <3>1. [codecMap[codecManager] EXCEPT ![req[g].ct] = local[g]]
            \in [CodecType -> Address \cup {NIL}]
      BY <2>1
    <3> QED
      BY <3>1, <2>1, <2>2
  <2>6. codecMap'[codecManager'][u] =
          IF u = req[g].ct THEN local[g] ELSE codecMap[codecManager][u]
    <3> DEFINE f == codecMap[codecManager]
               t == req[g].ct
               a == local[g]
    <3>1. f \in [CodecType -> Address \cup {NIL}] /\ t \in CodecType
      BY <2>1
    <3>2. codecMap'[codecManager'] = [f EXCEPT ![t] = a]
      BY <2>2
    <3> HIDE DEF f, t, a
    <3>3. [f EXCEPT ![t] = a][u] = IF u = t THEN a ELSE f[u]
      BY <3>1
    <3> QED
      BY <3>2, <3>3 DEF f, t, a
  <2>4. CASE u = req[g].ct
    <3>1. OuterAt(codecManager, u)' = local[g] /\ local[g] # NIL
      BY <2>1, <2>2, <2>3, <2>4, <2>6
    <3>2. innerMap'[local[g]][k] = NIL
      BY <2>1, <2>2
    <3> QED
      BY <2>1, <2>2, <2>4, <3>1, <3>2
  <2>5. CASE u # req[g].ct
    <3>1. OuterAt(codecManager, u)' = OuterAt(codecManager, u)
      BY <2>2, <2>3, <2>5, <2>6
    <3> QED
      BY <2>2, <3>1
  <2> QED
    BY <2>4, <2>5
<1>13. ASSUME NEW g \in Goroutine, BeginInner(g) PROVE Entry(u, k)' = Entry(u, k)
  BY <1>13 DEF BeginInner
<1>14. ASSUME NEW g \in Goroutine, EndInner(g) PROVE Entry(u, k)' = Entry(u, k)
  <2>1. /\ mgr[g] = codecManager /\ codecManager \in Goroutine
        /\ local[g] = OuterAt(codecManager, req[g].ct)
        /\ local[g] \in Address /\ req[g].ct \in CodecType
        /\ UNCHANGED <<codecManager, codecMap>>
        /\ innerMap' = [innerMap EXCEPT
             ![local[g]][GetMessageType[req[g].codec]] = req[g].codec]
    BY <1>14 DEF EndInner
  <2> DEFINE o == OuterAt(codecManager, u)
             a == local[g]
             t == req[g].ct
             c == req[g].codec
             j == GetMessageType[c]
  <2>2. /\ o # NIL => o \in Address /\ o \in Goroutine \X {u}
        /\ a \in Goroutine \X {t}
        /\ innerMap \in [Address -> [MessageType -> Codec \cup {NIL}]]
    <3>1. /\ innerMap \in [Address -> [MessageType -> Codec \cup {NIL}]]
          /\ NIL \notin Address /\ codecManager # NIL
      BY <2>1
    <3>2. \A v \in CodecType :
            OuterAt(codecManager, v) # NIL =>
              OuterAt(codecManager, v) \in Goroutine \X {v}
      <4>1. \A m \in Goroutine, v \in CodecType :
              OuterAt(m, v) # NIL => OuterAt(m, v) \in Goroutine \X {v}
        BY DEF IInv, TableInv
      <4> HIDE DEF IInv, TypeOK, TableInv, OnceInv, HolderInv, OneManager,
                   OuterAt
      <4> QED
        BY <2>1, <4>1
    <3> HIDE DEF IInv, TypeOK, TableInv, OnceInv, HolderInv, OneManager, OuterAt
    <3> QED
      BY <2>1, <3>1, <3>2
  <2>3. /\ Entry(u, k) = IF o = NIL THEN NIL ELSE innerMap[o][k]
        /\ Entry(u, k)' = IF o = NIL THEN NIL ELSE innerMap'[o][k]
    <3>1. o' = o
      BY <2>1
    <3>2. codecManager # NIL
      BY <2>1
    <3> HIDE DEF IInv, TypeOK, TableInv, OnceInv, HolderInv, OneManager, OuterAt
    <3> QED
      BY <2>1, <3>1, <3>2
  <2>4. u # t \/ k # j
    BY <1>14
  <2>5. /\ a \in Address /\ u \in CodecType /\ k \in MessageType
        /\ innerMap' = [innerMap EXCEPT ![a][j] = c]
    BY <2>1
  <2> HIDE DEF o, a, t, c, j
  <2>6. o # NIL => innerMap'[o][k] = innerMap[o][k]
    <3> HIDE DEF IInv, TypeOK, TableInv, OnceInv, HolderInv, OneManager, Address
    <3>1. o # NIL => o # a \/ k # j
      BY <2>2, <2>4
    <3> QED
      BY <2>2, <2>5, <3>1
  <2> QED
    BY <2>3, <2>6
<1>15. ASSUME NEW g \in Goroutine, UnlockManager(g) PROVE Entry(u, k)' = Entry(u, k)
  BY <1>15 DEF UnlockManager, Return
<1>16. ASSUME NEW g \in Goroutine, ReadOuter(g) PROVE Entry(u, k)' = Entry(u, k)
  BY <1>16 DEF ReadOuter, Die, OuterReads, OuterWriters
<1>17. ASSUME NEW g \in Goroutine, ReadInner(g) PROVE Entry(u, k)' = Entry(u, k)
  BY <1>17 DEF ReadInner, Die, InnerReads, InnerWriters
<1>18. ASSUME NEW g \in Goroutine, ReturnCodec(g) PROVE Entry(u, k)' = Entry(u, k)
  BY <1>18 DEF ReturnCodec, Return
<1>19. CASE UNCHANGED vars
  BY <1>19 DEF vars
<1> QED
  BY <1>1, <1>2, <1>3, <1>4, <1>5, <1>6, <1>7, <1>8, <1>9, <1>10, <1>11, <1>12, <1>13, <1>14, <1>15, <1>16, <1>17, <1>18, <1>19
  DEF Next, Call, Step, GetManagerStep, RegisterStep, LookupStep

\* What a step of anybody leaves of goroutine h's call.
LocalStep(h) ==
  /\ pc[h] = "found" /\ pc'[h] = "found" =>
       /\ result'[h] = result[h] /\ req'[h] = req[h]
       /\ local'[h] = local[h] /\ mgr'[h] = mgr[h]
  /\ pc[h] = "assignInner" =>
       EndInner(h) \/ (pc'[h] = "assignInner" /\ req'[h] = req[h])
  /\ pc[h] # "found" /\ pc'[h] = "found" /\ result'[h] # NIL => ReadInner(h)

LEMMA LocalStepLemma ==
  ASSUME IInv, [Next]_vars, NEW h \in Goroutine
  PROVE  LocalStep(h)
<1> USE DEF IInv, TypeOK, LocalsOK, LocalStep, ReaderInv, shared
<1>1. ASSUME NEW g \in Goroutine, NEW t \in CodecType, NEW c \in Codec,
             CallRegister(g, t, c)
      PROVE  LocalStep(h)
  BY <1>1 DEF CallRegister
<1>2. ASSUME NEW g \in Goroutine, NEW t \in CodecType, NEW m \in MessageType,
             CallLookup(g, t, m)
      PROVE  LocalStep(h)
  BY <1>2 DEF CallLookup
<1>3. ASSUME NEW g \in Goroutine, CheckManager(g) PROVE LocalStep(h)
  BY <1>3 DEF CheckManager, Enter, FirstPc
<1>4. ASSUME NEW g \in Goroutine, RunOnce(g) PROVE LocalStep(h)
  BY <1>4 DEF RunOnce
<1>5. ASSUME NEW g \in Goroutine, SkipOnce(g) PROVE LocalStep(h)
  BY <1>5 DEF SkipOnce
<1>6. ASSUME NEW g \in Goroutine, BuildMap(g) PROVE LocalStep(h)
  BY <1>6 DEF BuildMap
<1>7. ASSUME NEW g \in Goroutine, PublishManager(g) PROVE LocalStep(h)
  BY <1>7 DEF PublishManager
<1>8. ASSUME NEW g \in Goroutine, FinishOnce(g) PROVE LocalStep(h)
  BY <1>8 DEF FinishOnce
<1>9. ASSUME NEW g \in Goroutine, LoadManager(g) PROVE LocalStep(h)
  BY <1>9 DEF LoadManager, Enter, FirstPc
<1>10. ASSUME NEW g \in Goroutine, LockManager(g) PROVE LocalStep(h)
  BY <1>10 DEF LockManager, Acquire, NextAfterLock
<1>11. ASSUME NEW g \in Goroutine, BeginOuter(g) PROVE LocalStep(h)
  BY <1>11 DEF BeginOuter, Die
<1>12. ASSUME NEW g \in Goroutine, EndOuter(g) PROVE LocalStep(h)
  BY <1>12 DEF EndOuter
<1>13. ASSUME NEW g \in Goroutine, BeginInner(g) PROVE LocalStep(h)
  BY <1>13 DEF BeginInner
<1>14. ASSUME NEW g \in Goroutine, EndInner(g) PROVE LocalStep(h)
  <2>1. CASE g = h
    BY <1>14, <2>1 DEF EndInner
  <2>2. CASE g # h
    <3>1. /\ pc'[h] = pc[h] /\ req' = req /\ result' = result
          /\ local' = local /\ mgr' = mgr
      BY <1>14, <2>2 DEF EndInner
    <3> QED
      BY <3>1
  <2> QED
    BY <2>1, <2>2
<1>15. ASSUME NEW g \in Goroutine, UnlockManager(g) PROVE LocalStep(h)
  BY <1>15 DEF UnlockManager, Return
<1>16. ASSUME NEW g \in Goroutine, ReadOuter(g) PROVE LocalStep(h)
  BY <1>16 DEF ReadOuter, Die, OuterReads, OuterWriters
<1>17. ASSUME NEW g \in Goroutine, ReadInner(g) PROVE LocalStep(h)
  <2>1. CASE g = h
    BY <1>17, <2>1 DEF ReadInner
  <2>2. CASE g # h
    <3>1. /\ pc'[h] = pc[h] /\ req' = req /\ result'[h] = result[h]
          /\ local' = local /\ mgr' = mgr
      BY <1>17, <2>2 DEF ReadInner, Die
    <3> QED
      BY <3>1
  <2> QED
    BY <2>1, <2>2
<1>18. ASSUME NEW g \in Goroutine, ReturnCodec(g) PROVE LocalStep(h)
  BY <1>18 DEF ReturnCodec, Return
<1>19. CASE UNCHANGED vars
  BY <1>19 DEF vars
<1> QED
  BY <1>1, <1>2, <1>3, <1>4, <1>5, <1>6, <1>7, <1>8, <1>9, <1>10, <1>11, <1>12, <1>13, <1>14, <1>15, <1>16, <1>17, <1>18, <1>19
  DEF Next, Call, Step, GetManagerStep, RegisterStep, LookupStep

\* A registered codec is where a lookup finds it, as soon as it is stored.
LEMMA EntryStored ==
  ASSUME IInv, [Next]_vars, NEW g \in Goroutine, EndInner(g)
  PROVE  Entry(req[g].ct, GetMessageType[req[g].codec])' = req[g].codec
<1> USE DEF IInv, TypeOK, LocalsOK, OneManager, HolderInv, OuterAt
<1> DEFINE c == req[g].codec
           k == GetMessageType[c]
<1>1. /\ mgr[g] = codecManager /\ codecManager \in Goroutine
      /\ local[g] = OuterAt(codecManager, req[g].ct)
      /\ local[g] \in Address
      /\ c \in Codec /\ k \in MessageType
      /\ UNCHANGED <<codecManager, codecMap, req>>
      /\ innerMap' = [innerMap EXCEPT ![local[g]][k] = c]
  BY DEF EndInner
<1>2. innerMap'[local[g]][k] = c
  BY <1>1
<1>3. OuterAt(codecManager, req[g].ct)' = local[g] /\ local[g] # NIL
  BY <1>1
<1> QED
  BY <1>1, <1>2, <1>3 DEF Entry

\* No step takes a codec out of the table.
LEMMA EntryStays ==
  ASSUME IInv, [Next]_vars, NEW u \in CodecType, NEW k \in MessageType,
         Entry(u, k) # NIL
  PROVE  Entry(u, k)' # NIL
<1>1. CASE Entry(u, k)' = Entry(u, k)
  BY <1>1
<1>2. CASE Entry(u, k)' # Entry(u, k)
  <2>1. PICK g \in Goroutine : /\ EndInner(g)
                               /\ u = req[g].ct
                               /\ k = GetMessageType[req[g].codec]
    BY <1>2, EntryStep
  <2>2. req[g].codec \in Codec /\ req' = req
    BY <2>1 DEF EndInner, IInv, TypeOK, LocalsOK
  <2> QED
    BY <2>1, <2>2, EntryStored
<1> QED
  BY <1>1, <1>2

\* An inner map that is in the outer one stays there, under its family.
LEMMA InnerMapStays ==
  ASSUME IInv, [Next]_vars, NEW m \in Goroutine, NEW t \in CodecType,
         OuterAt(m, t) # NIL
  PROVE  OuterAt(m, t)' = OuterAt(m, t)
<1>1. \/ codecMap' = codecMap
      \/ \E g \in Goroutine : BuildMap(g) \/ EndOuter(g)
  BY DEF Next, Call, Step, GetManagerStep, RegisterStep, LookupStep,
         CallRegister, CallLookup, CheckManager, Enter, RunOnce, SkipOnce, PublishManager,
         FinishOnce, LoadManager, LockManager, Acquire, BeginOuter, Die,
         BeginInner, EndInner, UnlockManager, Return, ReadOuter, ReadInner,
         ReturnCodec, vars, shared
<1>2. CASE codecMap' = codecMap
  BY <1>2 DEF OuterAt
<1>3. ASSUME NEW g \in Goroutine, BuildMap(g)
      PROVE  OuterAt(m, t)' = OuterAt(m, t)
  BY <1>3 DEF BuildMap, OuterAt, IInv, TypeOK
<1>4. ASSUME NEW g \in Goroutine, EndOuter(g)
      PROVE  OuterAt(m, t)' = OuterAt(m, t)
  <2>1. /\ codecMap[mgr[g]] # NIL /\ OuterAt(mgr[g], req[g].ct) = NIL
        /\ mgr[g] \in Goroutine /\ req[g].ct \in CodecType
        /\ local[g] \in Address
    BY <1>4 DEF EndOuter, IInv, TypeOK, LocalsOK, HolderInv
  <2>2. codecMap' = [codecMap EXCEPT ![mgr[g]][req[g].ct] = local[g]]
    BY <1>4 DEF EndOuter
  <2>3. mgr[g] # m \/ req[g].ct # t
    BY <2>1
  <2>4. {codecMap, codecMap'} \subseteq
          [Goroutine -> {NIL} \cup [CodecType -> Address \cup {NIL}]]
    BY <2>1, <2>2 DEF IInv, TypeOK
  <2>5. codecMap[m] # NIL /\ codecMap'[m] # NIL
    BY <2>1, <2>2, <2>4 DEF OuterAt
  <2>6. codecMap'[m][t] = codecMap[m][t]
    BY <2>1, <2>2, <2>3, <2>4, <2>5
  <2> QED
    BY <2>5, <2>6 DEF OuterAt
<1> QED
  BY <1>1, <1>2, <1>3, <1>4

\* What GetCodec is about to return stays right until it returns it.
LEMMA LookupSoundStep ==
  ASSUME IInv, [Next]_vars, TypeOK'
  PROVE  LookupSound'
<1> SUFFICES ASSUME NEW h \in Goroutine, pc'[h] = "found", result'[h] # NIL
             PROVE  /\ GetMessageType[result'[h]] = req'[h].mt
                    /\ \A t \in CodecType :
                         local'[h] = OuterAt(mgr[h], t)' <=> t = req'[h].ct
                    /\ \/ Entry(req[h].ct, req[h].mt)' # NIL
                       \/ \E w \in Goroutine :
                            /\ pc'[w] = "assignInner"
                            /\ req'[w].ct = req'[h].ct
                            /\ req'[w].codec = result'[h]
  BY DEF LookupSound
<1>1. LocalStep(h)
  BY LocalStepLemma
<1>2. /\ pc[h] \in {"found", "getCodec"}
      /\ req[h] \in LookupRequest /\ req'[h] = req[h]
  <2>1. CASE pc[h] = "found"
    BY <1>1, <2>1 DEF LocalStep, IInv, TypeOK, LocalsOK
  <2>2. CASE pc[h] # "found"
    BY <1>1, <2>2 DEF LocalStep, ReadInner, Die, IInv, TypeOK, LocalsOK
  <2> QED
    BY <2>1, <2>2
<1>3. Entry(req[h].ct, req[h].mt)' # NIL
        <=> Entry(req[h].ct, req[h].mt)' # NIL
  OBVIOUS
<1>4. ASSUME Entry(req[h].ct, req[h].mt) # NIL
      PROVE  Entry(req[h].ct, req[h].mt)' # NIL
  <2> DEFINE u == req[h].ct
             k == req[h].mt
  <2>1. u \in CodecType /\ k \in MessageType /\ u' = u /\ k' = k
    BY <1>2
  <2> QED
    BY <1>2, <1>4, <2>1, EntryStays DEF Entry
<1>5. ASSUME NEW w \in Goroutine, pc[w] = "assignInner",
             req[w].ct = req[h].ct, req[w].codec = result'[h],
             GetMessageType[result'[h]] = req[h].mt
      PROVE  \/ Entry(req[h].ct, req[h].mt)' # NIL
             \/ /\ pc'[w] = "assignInner"
                /\ req'[w].ct = req'[h].ct
                /\ req'[w].codec = result'[h]
  <2>1. CASE EndInner(w)
    <3>1. Entry(req[w].ct, GetMessageType[req[w].codec])' = req[w].codec
      BY <2>1, EntryStored
    <3>2. req' = req
      BY <2>1 DEF EndInner
    <3> QED
      BY <1>5, <3>1, <3>2
  <2>2. CASE ~EndInner(w)
    <3>1. LocalStep(w)
      BY LocalStepLemma
    <3> QED
      BY <1>2, <1>5, <2>2, <3>1 DEF LocalStep
  <2> QED
    BY <2>1, <2>2
<1>6. /\ GetMessageType[result'[h]] = req[h].mt
      /\ local[h] = OuterAt(mgr[h], req[h].ct)
      /\ local'[h] = local[h] /\ mgr'[h] = mgr[h]
      /\ \/ Entry(req[h].ct, req[h].mt) # NIL
         \/ \E w \in Goroutine : /\ pc[w] = "assignInner"
                                 /\ req[w].ct = req[h].ct
                                 /\ req[w].codec = result'[h]
  <2>1. CASE pc[h] = "found"
    BY <1>1, <1>2, <2>1 DEF LocalStep, IInv, TypeOK, LocalsOK, LookupSound
  <2>2. CASE pc[h] # "found"
    <3>1. /\ ReadInner(h) /\ pc[h] = "getCodec"
          /\ result'[h] \in InnerReads(local[h], req[h].mt)
          /\ local' = local /\ mgr' = mgr
      BY <1>1, <1>2, <2>2 DEF LocalStep, ReadInner, Die, IInv, TypeOK, ReaderInv
    <3>2. /\ local[h] \in Address /\ mgr[h] = codecManager
          /\ codecManager \in Goroutine
          /\ req[h].ct \in CodecType /\ req[h].mt \in MessageType
      BY <1>2, <3>1 DEF IInv, TypeOK, LocalsOK, OneManager
    <3>3. CASE result'[h] = innerMap[local[h]][req[h].mt]
      <4>1. GetMessageType[result'[h]] = req[h].mt
        BY <3>2, <3>3 DEF IInv, TableInv
      <4>2. ~ \E w \in Goroutine : /\ pc[w] = "assignOuter"
                                   /\ local[w] = local[h]
        <5> SUFFICES ASSUME NEW w \in Goroutine, pc[w] = "assignOuter",
                            local[w] = local[h]
                     PROVE  FALSE
          OBVIOUS
        <5>1. innerMap[local[h]] = EmptyMap
          BY DEF IInv, HolderInv
        <5>2. innerMap[local[h]][req[h].mt] = NIL
          BY <3>2, <5>1
        <5> QED
          BY <3>3, <5>2
      <4>3. OuterAt(codecManager, req[h].ct) = local[h]
        BY <3>1, <3>2, <4>2 DEF IInv, ReaderInv
      <4>4. Entry(req[h].ct, req[h].mt) = innerMap[local[h]][req[h].mt]
        BY <3>2, <4>3 DEF Entry
      <4> QED
        BY <3>1, <3>2, <3>3, <4>1, <4>3, <4>4
    <3>4. ASSUME NEW w \in Goroutine, pc[w] = "assignInner",
                 local[w] = local[h], result'[h] = req[w].codec,
                 GetMessageType[req[w].codec] = req[h].mt
          PROVE  req[w].ct = req[h].ct /\ OuterAt(mgr[h], req[h].ct) = local[h]
      <4>1. /\ OuterAt(codecManager, req[w].ct) = local[h]
            /\ req[w].ct \in CodecType
        BY <3>4, <3>2 DEF IInv, HolderInv, TypeOK, LocalsOK, OneManager
      <4>2. OuterAt(codecManager, req[h].ct) = local[h]
        BY <3>1, <3>2, <3>4, Exclusion DEF IInv, ReaderInv, CriticalPc
      <4>3. local[h] \in Goroutine \X {req[w].ct}
            /\ local[h] \in Goroutine \X {req[h].ct}
        BY <3>2, <4>1, <4>2 DEF IInv, TableInv
      <4> QED
        BY <3>2, <4>2, <4>3
    <3> QED
      BY <3>1, <3>3, <3>4 DEF InnerReads, InnerWriters
  <2> QED
    BY <2>1, <2>2
<1>7. ASSUME NEW t \in CodecType
      PROVE  local'[h] = OuterAt(mgr[h], t)' <=> t = req'[h].ct
  <2>1. PICK m \in Goroutine, u \in CodecType :
          m = mgr[h] /\ u = req[h].ct /\ m = codecManager
    BY <1>2 DEF IInv, TypeOK, LocalsOK, OneManager
  <2>2. OuterAt(m, u) # NIL
    <3>1. ASSUME NEW w \in Goroutine, pc[w] = "assignInner", req[w].ct = u
          PROVE  OuterAt(m, u) # NIL
      <4>1. /\ mgr[w] \in Goroutine /\ mgr[w] # NIL
            /\ local[w] \in Goroutine \X CodecType
        BY <3>1 DEF IInv, TypeOK, LocalsOK
      <4>2. mgr[w] = m
        BY <2>1, <4>1 DEF IInv, OneManager
      <4>3. OuterAt(mgr[w], req[w].ct) = local[w]
        BY <3>1 DEF IInv, HolderInv
      <4>4. OuterAt(m, u) = local[w]
        BY <3>1, <4>2, <4>3
      <4> QED
        BY <4>1, <4>4
    <3>2. CASE Entry(req[h].ct, req[h].mt) # NIL
      <4>1. Entry(u, req[h].mt) # NIL
        BY <2>1, <3>2
      <4> QED
        BY <2>1, <4>1 DEF Entry
    <3> QED
      BY <1>6, <2>1, <3>1, <3>2
  <2>3. mgr'[h] = m /\ req'[h].ct = u /\ local'[h] = OuterAt(m, u)
    BY <1>2, <1>6, <2>1
  <2>4. OuterAt(m, u)' = OuterAt(m, u)
    BY <2>1, <2>2, InnerMapStays
  <2>5. TableInv'
    BY TableStep
  <2>6. CASE t = u
    BY <2>3, <2>4, <2>6 DEF OuterAt
  <2>7. CASE t # u
    <3>1. OuterAt(m, u)' \in Goroutine \X {u}
      BY <2>1, <2>2, <2>4, <2>5 DEF TableInv
    <3>2. OuterAt(m, t)' # NIL => OuterAt(m, t)' \in Goroutine \X {t}
      BY <2>1, <2>5 DEF TableInv
    <3>3. OuterAt(m, t)' # OuterAt(m, u)'
      BY <2>2, <2>4, <2>7, <3>1, <3>2
    <3> QED
      BY <2>3, <2>4, <2>7, <3>3
  <2> QED
    BY <2>6, <2>7
<1> QED
  BY <1>2, <1>4, <1>5, <1>6, <1>7

\* A step of the registry's goroutines is a registration in the abstract
\* registry, or changes nothing there.
LEMMA RefineStep ==
  ASSUME IInv, [Next]_vars
  PROVE  [Abstract!Next]_registryBar
<1>1. CASE \A u \in CodecType, k \in MessageType : Entry(u, k)' = Entry(u, k)
  <2>1. registryBar' = registryBar
    BY <1>1 DEF registryBar
  <2> QED
    BY <2>1
<1>2. CASE \E u \in CodecType, k \in MessageType : Entry(u, k)' # Entry(u, k)
  <2>1. PICK g \in Goroutine : EndInner(g)
    BY <1>2, EntryStep
  <2> DEFINE t == req[g].ct
             c == req[g].codec
             m == GetMessageType[c]
  <2>2. t \in CodecType /\ c \in Codec /\ m \in MessageType
    BY <2>1 DEF EndInner, IInv, TypeOK, LocalsOK
  <2>3. Entry(t, m)' = c /\ t' = t /\ m' = m
    BY <2>1, EntryStored DEF EndInner
  <2>4. ASSUME NEW u \in CodecType, NEW k \in MessageType, u # t \/ k # m
        PROVE  Entry(u, k)' = Entry(u, k)
    <3> SUFFICES ASSUME Entry(u, k)' # Entry(u, k) PROVE FALSE
      OBVIOUS
    <3>1. PICK h \in Goroutine : /\ EndInner(h)
                                 /\ u = req[h].ct
                                 /\ k = GetMessageType[req[h].codec]
      BY EntryStep
    <3>2. h = g
      BY <2>1, <3>1, Exclusion DEF EndInner, CriticalPc
    <3> QED
      BY <2>4, <3>1, <3>2
  <2>5. registryBar' = [registryBar EXCEPT ![t][m] = c]
    <3>1. registryBar' = [u \in CodecType |-> [k \in MessageType |->
                            IF u = t /\ k = m THEN c ELSE Entry(u, k)]]
      <4> DEFINE New(u, k) == IF u = t /\ k = m THEN c ELSE Entry(u, k)
      <4>1. \A u \in CodecType, k \in MessageType : Entry(u, k)' = New(u, k)
        BY <2>3, <2>4
      <4> HIDE DEF t, m, c
      <4> QED
        BY <4>1 DEF registryBar
    <3> HIDE DEF t, m, c
    <3> QED
      BY <2>2, <3>1 DEF registryBar
  <2> QED
    BY <2>2, <2>5 DEF Abstract!Next, Abstract!Register
<1> QED
  BY <1>1, <1>2

----------------------------------------------------------------------------
(* Theorems.                                                               *)

LEMMA InitInv == Init => IInv
  BY DEF Init, IInv, TypeOK, LocalsOK, OnceInv, OneManager, LockInv, TableInv,
         HolderInv, ReaderInv, LookupSound, CriticalPc, OuterAt

LEMMA StepInv == IInv /\ [Next]_vars => IInv'
<1> SUFFICES ASSUME IInv, [Next]_vars PROVE IInv'
  OBVIOUS
<1>1. TypeOK'
  BY TypeStep DEF IInv
<1>2. OnceInv'
  BY OnceStep DEF IInv
<1>3. OneManager'
  BY OneManagerStep DEF IInv
<1>4. LockInv'
  BY LockStep DEF IInv
<1>5. TableInv'
  BY TableStep
<1>6. ASSUME NEW h \in Goroutine PROVE HolderInv(h)' /\ ReaderInv(h)'
  BY <1>1, <1>2, <1>3, HolderStep, ReaderStep
<1>7. LookupSound'
  BY <1>1, LookupSoundStep
<1> QED
  BY <1>1, <1>2, <1>3, <1>4, <1>5, <1>6, <1>7 DEF IInv

\* The inductive invariant holds in every reachable state.
THEOREM Inductive == Spec => []IInv
  BY InitInv, StepInv, PTL DEF Spec

\* Every variable keeps its type, and no step of GetCodecManager,
\* RegisterCodec or GetCodec reads a local that is not set.
THEOREM TypeCorrect == Spec => []TypeOK
<1>1. IInv => TypeOK
  BY DEF IInv
<1> QED
  BY <1>1, Inductive, PTL

\* GetCodecManager hands every goroutine the same manager.
THEOREM Singleton == Spec => []OneManager
<1>1. IInv => OneManager
  BY DEF IInv
<1> QED
  BY <1>1, Inductive, PTL

\* Two goroutines are never inside a map write of RegisterCodec together.
THEOREM MutualExclusion == Spec => []WritersExclusive
<1>1. IInv => WritersExclusive
  BY Exclusion DEF WritersExclusive, CriticalPc
<1> QED
  BY <1>1, Inductive, PTL

\* Nothing undoes a registration before RegisterCodec returns.
THEOREM RegistrationVisible == Spec => []RegisteredAtReturn
<1>1. IInv => RegisteredAtReturn
  <2> SUFFICES ASSUME IInv, NEW g \in Goroutine, pc[g] = "unlock"
               PROVE  Entry(req[g].ct, GetMessageType[req[g].codec])
                        = req[g].codec
    BY DEF RegisteredAtReturn
  <2> QED
    BY DEF IInv, TypeOK, LocalsOK, OneManager, HolderInv, Entry
<1> QED
  BY <1>1, Inductive, PTL

\* A lookup answers for the asked type and family, or not at all, even when
\* it reads a map that is being written.
THEOREM LookupCorrect == Spec => []LookupSound
<1>1. IInv => LookupSound
  BY DEF IInv
<1> QED
  BY <1>1, Inductive, PTL

\* The nil-map panic of RegisterCodec needs reordered stores.
THEOREM NoNilMapPanic == Spec => []NilMapOnlyIfReordered
<1> DEFINE J == IInv /\ NilMapOnlyIfReordered
<1>1. Init => J
  BY InitInv DEF Init, NilMapOnlyIfReordered
<1>2. J /\ [Next]_vars => J'
  <2> SUFFICES ASSUME IInv, NilMapOnlyIfReordered, [Next]_vars
               PROVE  NilMapOnlyIfReordered'
    BY StepInv
  <2>1. ASSUME NEW g \in Goroutine, BeginOuter(g), ~Reorder
        PROVE  crash' = crash
    BY <2>1 DEF BeginOuter, IInv, OnceInv, OneManager, TypeOK, LocalsOK
  <2>2. ASSUME NEW g \in Goroutine,
               Call(g) \/ GetManagerStep(g) \/ LookupStep(g)
                 \/ LockManager(g) \/ EndOuter(g) \/ BeginInner(g)
                 \/ EndInner(g) \/ UnlockManager(g)
        PROVE  crash' \in {crash, "mapRace"}
    BY <2>2 DEF Call, GetManagerStep, LookupStep, CallRegister, CallLookup,
       CheckManager, Enter, RunOnce, SkipOnce, BuildMap, PublishManager,
       FinishOnce, LoadManager, LockManager, Acquire, EndOuter, BeginInner,
       EndInner, UnlockManager, Return, ReadOuter, ReadInner, ReturnCodec, Die
  <2>3. CASE UNCHANGED vars
    BY <2>3 DEF vars, NilMapOnlyIfReordered
  <2> QED
    BY <2>1, <2>2, <2>3
    DEF Next, Step, RegisterStep, NilMapOnlyIfReordered
<1>3. J => NilMapOnlyIfReordered
  OBVIOUS
<1> QED
  BY <1>1, <1>2, <1>3, PTL DEF Spec

\* The registry as goroutines execute it implements the abstract registry.
THEOREM Refinement == Spec => RefinesRegistry
<1>1. Init => Abstract!Init
  BY DEF Init, Abstract!Init, registryBar, Entry
<1>2. IInv /\ [Next]_vars => [Abstract!Next]_registryBar
  BY RefineStep
<1> QED
  BY <1>1, <1>2, Inductive, PTL DEF Spec, RefinesRegistry, Abstract!Spec
=============================================================================
