---------------------------- MODULE CodecManager ----------------------------
(***************************************************************************)
(* The codec registry of protocol/codec/codec.go as goroutines execute it: *)
(* the lazily built singleton (GetCodecManager), registration under the    *)
(* mutex (RegisterCodec) and lookup without it (GetCodec).                 *)
(*                                                                         *)
(* A step is what one goroutine does between two points where another one  *)
(* can interfere.  A write to a Go map is two steps, because a map is not  *)
(* atomic: between them the runtime's writing flag is set, and a goroutine *)
(* that meets the flag either dies ("concurrent map read and map write",   *)
(* which no recover can catch) or reads whatever the half-written map      *)
(* shows.                                                                  *)
(*                                                                         *)
(* Heap objects are named after the goroutine that allocates them: a       *)
(* goroutine builds at most one manager and, per codec type, at most one   *)
(* inner map.                                                              *)
(***************************************************************************)
CONSTANTS
  Goroutine,        \* goroutines that use the package
  CodecType,        \* codec families
  MessageType,      \* message type codes
  Codec,            \* codec objects
  GetMessageType,   \* the message type each codec declares
  NIL,              \* nil
  Reorder           \* TRUE: the machine may make the two stores that build
                    \* the manager visible in either order (arm64);
                    \* FALSE: in program order (amd64)

ASSUME ManagerAssumption ==
  /\ GetMessageType \in [Codec -> MessageType]
  /\ NIL \notin Codec \cup Goroutine \cup (Goroutine \X CodecType)
  /\ NIL \notin [CodecType -> (Goroutine \X CodecType) \cup {NIL}]
  /\ Reorder \in BOOLEAN

VARIABLES
  codecManager,  \* the package variable: NIL, or the manager's name
  once,          \* onceCodecManager: "new", "running" or "done"
  codecMap,      \* codecMap[m]: outer map of manager m, NIL until visible
  mutex,         \* mutex[m]: the goroutine inside RegisterCodec, or NIL
  innerMap,      \* innerMap[a]: contents of the inner map at address a
  pc,            \* where each goroutine is
  req,           \* the call each goroutine is executing
  mgr,           \* local c: the manager the goroutine works on
  local,         \* local codecTypeMap (RegisterCodec) or m (GetCodec)
  result,        \* what GetCodec is about to return
  crash          \* "none", or why the process is gone

shared == <<codecManager, once, codecMap, mutex, innerMap>>
vars == <<codecManager, once, codecMap, mutex, innerMap,
          pc, req, mgr, local, result, crash>>

Address == Goroutine \X CodecType
RegisterRequest == [op : {"register"}, ct : CodecType, codec : Codec]
LookupRequest == [op : {"lookup"}, ct : CodecType, mt : MessageType]

GetManagerPc == {"check", "once", "build", "load"}
RegisterPc == {"lock", "makeInner", "assignOuter", "storeCodec",
               "assignInner", "unlock"}
LookupPc == {"getType", "getCodec", "found"}

EmptyMap == [m \in MessageType |-> NIL]
EmptyOuter == [t \in CodecType |-> NIL]

Init ==
  /\ codecManager = NIL
  /\ once = "new"
  /\ codecMap = [g \in Goroutine |-> NIL]
  /\ mutex = [g \in Goroutine |-> NIL]
  /\ innerMap = [a \in Address |-> EmptyMap]
  /\ pc = [g \in Goroutine |-> "idle"]
  /\ req = [g \in Goroutine |-> NIL]
  /\ mgr = [g \in Goroutine |-> NIL]
  /\ local = [g \in Goroutine |-> NIL]
  /\ result = [g \in Goroutine |-> NIL]
  /\ crash = "none"

Goto(g, label) == pc' = [pc EXCEPT ![g] = label]

At(g, label) == crash = "none" /\ pc[g] = label

\* The process dies; nothing else changes and nothing runs afterwards.
Die(reason) ==
  /\ crash' = reason
  /\ UNCHANGED <<shared, pc, req, mgr, local, result>>

----------------------------------------------------------------------------
(* Calls.  Both begin with GetCodecManager().                              *)

CallRegister(g, t, c) ==
  /\ At(g, "idle")
  /\ req' = [req EXCEPT ![g] = [op |-> "register", ct |-> t, codec |-> c]]
  /\ Goto(g, "check")
  /\ UNCHANGED <<shared, mgr, local, result, crash>>

CallLookup(g, t, m) ==
  /\ At(g, "idle")
  /\ req' = [req EXCEPT ![g] = [op |-> "lookup", ct |-> t, mt |-> m]]
  /\ Goto(g, "check")
  /\ UNCHANGED <<shared, mgr, local, result, crash>>

----------------------------------------------------------------------------
(* GetCodecManager.                                                        *)

FirstPc(r) == IF r.op = "register" THEN "lock" ELSE "getType"

\* The method call on the manager that GetCodecManager returned.
Enter(g) ==
  /\ mgr' = [mgr EXCEPT ![g] = codecManager]
  /\ Goto(g, FirstPc(req[g]))
  /\ UNCHANGED <<shared, req, local, result, crash>>

\* if codecManager == nil: read without synchronisation.
CheckManager(g) ==
  /\ At(g, "check")
  /\ \/ codecManager # NIL /\ Enter(g)
     \/ /\ codecManager = NIL
        /\ Goto(g, "once")
        /\ UNCHANGED <<shared, req, mgr, local, result, crash>>

\* Mutant: a bare nil check instead of sync.Once.
MutantNoOnce(g) ==
  /\ At(g, "once")
  /\ once' = "running"
  /\ Goto(g, "build")
  /\ UNCHANGED <<codecManager, codecMap, mutex, innerMap,
                 req, mgr, local, result, crash>>

\* sync.Once: the first caller runs the function, the others wait for it.
RunOnce(g) ==
  /\ At(g, "once")
  /\ once = "new"
  /\ once' = "running"
  /\ Goto(g, "build")
  /\ UNCHANGED <<codecManager, codecMap, mutex, innerMap,
                 req, mgr, local, result, crash>>

SkipOnce(g) ==
  /\ At(g, "once")
  /\ once = "done"
  /\ Goto(g, "load")
  /\ UNCHANGED <<shared, req, mgr, local, result, crash>>

\* The store of make(map...) into the new CodecManager becomes visible.
BuildMap(g) ==
  /\ At(g, "build")
  /\ codecMap[g] = NIL
  /\ codecMap' = [codecMap EXCEPT ![g] = EmptyOuter]
  /\ UNCHANGED <<codecManager, once, mutex, innerMap,
                 pc, req, mgr, local, result, crash>>

\* Mutant: the manager is published before its map is made.
MutantPublishFirst(g) ==
  /\ At(g, "build")
  /\ codecManager # g
  /\ codecManager' = g
  /\ UNCHANGED <<once, codecMap, mutex, innerMap,
                 pc, req, mgr, local, result, crash>>

\* The store of &CodecManager{...} into codecManager becomes visible.
PublishManager(g) ==
  /\ At(g, "build")
  /\ codecManager # g
  /\ Reorder \/ codecMap[g] # NIL
  /\ codecManager' = g
  /\ UNCHANGED <<once, codecMap, mutex, innerMap,
                 pc, req, mgr, local, result, crash>>

\* Once's done flag is stored after, and orders, both stores.
FinishOnce(g) ==
  /\ At(g, "build")
  /\ codecMap[g] # NIL
  /\ codecManager = g
  /\ once' = "done"
  /\ Goto(g, "load")
  /\ UNCHANGED <<codecManager, codecMap, mutex, innerMap,
                 req, mgr, local, result, crash>>

\* return codecManager
LoadManager(g) == At(g, "load") /\ Enter(g)

----------------------------------------------------------------------------
(* RegisterCodec.                                                          *)

OuterAt(m, t) == IF codecMap[m] = NIL THEN NIL ELSE codecMap[m][t]

\* Goroutines between the two halves of a map write.
OuterWriters(m) == {g \in Goroutine : pc[g] = "assignOuter" /\ mgr[g] = m}
InnerWriters(a) == {g \in Goroutine : pc[g] = "assignInner" /\ local[g] = a}

\* c.mutex.Lock() succeeds; codecTypeMap := c.codecMap[codecType] is a, and
\* the branch on nil is taken.
Acquire(g, a, label) ==
  /\ mutex' = [mutex EXCEPT ![mgr[g]] = g]
  /\ local' = [local EXCEPT ![g] = a]
  /\ Goto(g, label)
  /\ UNCHANGED <<codecManager, once, codecMap, innerMap,
                 req, mgr, result, crash>>

NextAfterLock(a) == IF a = NIL THEN "makeInner" ELSE "storeCodec"

\* Mutants: the mutex is not waited for; a codec family always gets a fresh
\* inner map; the nil check of codecTypeMap is missing.
MutantNoMutex(g) ==
  At(g, "lock") /\ LET a == OuterAt(mgr[g], req[g].ct)
                   IN Acquire(g, a, NextAfterLock(a))
MutantAlwaysMake(g) ==
  At(g, "lock") /\ mutex[mgr[g]] = NIL /\ Acquire(g, NIL, "makeInner")
MutantNeverMake(g) ==
  /\ At(g, "lock")
  /\ mutex[mgr[g]] = NIL
  /\ Acquire(g, OuterAt(mgr[g], req[g].ct), "storeCodec")

LockManager(g) ==
  /\ At(g, "lock")
  /\ mutex[mgr[g]] = NIL
  /\ LET a == OuterAt(mgr[g], req[g].ct) IN Acquire(g, a, NextAfterLock(a))

\* codecTypeMap = make(...); c.codecMap[codecType] = codecTypeMap begins, and
\* panics when the outer map is nil.
BeginOuter(g) ==
  /\ At(g, "makeInner")
  /\ \/ codecMap[mgr[g]] = NIL /\ Die("nilMap")
     \/ LET address == <<g, req[g].ct>> IN
        /\ codecMap[mgr[g]] # NIL
        /\ innerMap' = [innerMap EXCEPT ![address] = EmptyMap]
        /\ local' = [local EXCEPT ![g] = address]
        /\ Goto(g, "assignOuter")
        /\ UNCHANGED <<codecManager, once, codecMap, mutex,
                       req, mgr, result, crash>>

EndOuter(g) ==
  /\ At(g, "assignOuter")
  /\ codecMap' = [codecMap EXCEPT ![mgr[g]][req[g].ct] = local[g]]
  /\ Goto(g, "storeCodec")
  /\ UNCHANGED <<codecManager, once, mutex, innerMap,
                 req, mgr, local, result, crash>>

\* codecTypeMap[codec.GetMessageType()] = codec, in two halves.
BeginInner(g) ==
  /\ At(g, "storeCodec")
  /\ Goto(g, "assignInner")
  /\ UNCHANGED <<shared, req, mgr, local, result, crash>>

EndInner(g) ==
  /\ At(g, "assignInner")
  /\ innerMap' = [innerMap EXCEPT
       ![local[g]][GetMessageType[req[g].codec]] = req[g].codec]
  /\ Goto(g, "unlock")
  /\ UNCHANGED <<codecManager, once, codecMap, mutex,
                 req, mgr, local, result, crash>>

\* The goroutine's locals die with the call.
Return(g) ==
  /\ Goto(g, "idle")
  /\ req' = [req EXCEPT ![g] = NIL]
  /\ mgr' = [mgr EXCEPT ![g] = NIL]
  /\ local' = [local EXCEPT ![g] = NIL]
  /\ result' = [result EXCEPT ![g] = NIL]
  /\ UNCHANGED crash

\* Mutant: the deferred Unlock is missing.
MutantNoUnlock(g) == At(g, "unlock") /\ Return(g) /\ UNCHANGED shared

\* defer c.mutex.Unlock()
UnlockManager(g) ==
  /\ At(g, "unlock")
  /\ mutex' = [mutex EXCEPT ![mgr[g]] = NIL]
  /\ Return(g)
  /\ UNCHANGED <<codecManager, once, codecMap, innerMap>>

----------------------------------------------------------------------------
(* GetCodec: two map reads, no lock.                                       *)

\* Mutant: the lookup ignores the codec family.
MutantAnyFamily(m, t) == {OuterAt(m, u) : u \in CodecType}

\* What a read of the outer map can show: its value or, while the map is
\* being written, the value about to be there, or nothing (every write of
\* the outer map inserts a key, and an insertion may move other entries).
OuterReads(m, t) ==
  {OuterAt(m, t)}
    \cup {local[w] : w \in {g \in OuterWriters(m) : req[g].ct = t}}
    \cup {NIL : w \in OuterWriters(m)}

\* The same for an inner map: overwriting a key moves nothing.
InnerReads(a, k) ==
  LET inserts(w) == innerMap[a][GetMessageType[req[w].codec]] = NIL IN
  {innerMap[a][k]}
    \cup {req[w].codec : w \in {g \in InnerWriters(a) :
                                  GetMessageType[req[g].codec] = k}}
    \cup {NIL : w \in {g \in InnerWriters(a) : inserts(g)}}

\* m := c.codecMap[codecType]
ReadOuter(g) ==
  /\ At(g, "getType")
  /\ \/ OuterWriters(mgr[g]) # {} /\ Die("mapRace")
     \/ \E a \in OuterReads(mgr[g], req[g].ct) :
          /\ local' = [local EXCEPT ![g] = a]
          /\ Goto(g, IF a = NIL THEN "found" ELSE "getCodec")
          /\ UNCHANGED <<shared, req, mgr, result, crash>>

\* return m[msgType]
ReadInner(g) ==
  /\ At(g, "getCodec")
  /\ \/ InnerWriters(local[g]) # {} /\ Die("mapRace")
     \/ \E c \in InnerReads(local[g], req[g].mt) :
          /\ result' = [result EXCEPT ![g] = c]
          /\ Goto(g, "found")
          /\ UNCHANGED <<shared, req, mgr, local, crash>>

ReturnCodec(g) == At(g, "found") /\ Return(g) /\ UNCHANGED shared

----------------------------------------------------------------------------
GetManagerStep(g) ==
  \/ CheckManager(g) \/ RunOnce(g) \/ SkipOnce(g)
  \/ BuildMap(g) \/ PublishManager(g) \/ FinishOnce(g) \/ LoadManager(g)

RegisterStep(g) ==
  \/ LockManager(g) \/ BeginOuter(g) \/ EndOuter(g)
  \/ BeginInner(g) \/ EndInner(g) \/ UnlockManager(g)

LookupStep(g) == ReadOuter(g) \/ ReadInner(g) \/ ReturnCodec(g)

Step(g) == GetManagerStep(g) \/ RegisterStep(g) \/ LookupStep(g)

Call(g) ==
  \/ \E t \in CodecType, c \in Codec : CallRegister(g, t, c)
  \/ \E t \in CodecType, m \in MessageType : CallLookup(g, t, m)

Next == \E g \in Goroutine : Call(g) \/ Step(g)

Spec == Init /\ [][Next]_vars

\* The Go scheduler runs every runnable goroutine, and sync.Mutex hands a
\* starved waiter the lock (its starvation mode), hence SF for the lock.
Fairness ==
  \A g \in Goroutine : WF_vars(Step(g)) /\ SF_vars(LockManager(g))

FairSpec == Spec /\ Fairness

----------------------------------------------------------------------------
(* Properties.                                                             *)

\* Where a goroutine stands decides which of its locals are set, so that no
\* step reads one that is not.
LocalsOK(g) ==
  /\ pc[g] \in GetManagerPc => req[g] \in RegisterRequest \cup LookupRequest
  /\ pc[g] \in RegisterPc => req[g] \in RegisterRequest
  /\ pc[g] \in LookupPc => req[g] \in LookupRequest
  /\ pc[g] \in RegisterPc \cup LookupPc => mgr[g] \in Goroutine
  /\ pc[g] \in {"assignOuter", "storeCodec", "assignInner", "unlock",
                "getCodec"} => local[g] \in Address

\* Every variable stays in its type.
TypeOK ==
  /\ codecManager \in Goroutine \cup {NIL}
  /\ once \in {"new", "running", "done"}
  /\ codecMap \in
       [Goroutine -> {NIL} \cup [CodecType -> Address \cup {NIL}]]
  /\ mutex \in [Goroutine -> Goroutine \cup {NIL}]
  /\ innerMap \in [Address -> [MessageType -> Codec \cup {NIL}]]
  /\ pc \in [Goroutine ->
       {"idle"} \cup GetManagerPc \cup RegisterPc \cup LookupPc]
  /\ req \in [Goroutine -> RegisterRequest \cup LookupRequest \cup {NIL}]
  /\ mgr \in [Goroutine -> Goroutine \cup {NIL}]
  /\ local \in [Goroutine -> Address \cup {NIL}]
  /\ result \in [Goroutine -> Codec \cup {NIL}]
  /\ crash \in {"none", "nilMap", "mapRace"}
  /\ \A g \in Goroutine : LocalsOK(g)

\* However many goroutines race to the first GetCodecManager, and whenever
\* they read the unsynchronised package variable, all of them work on the
\* one manager the package keeps.
OneManager ==
  \A g \in Goroutine : mgr[g] # NIL => mgr[g] = codecManager

\* The mutex keeps map writes of RegisterCodec apart (the runtime would
\* kill the process for "concurrent map writes").
WritersExclusive ==
  \A g, h \in Goroutine :
    {pc[g], pc[h]} \subseteq {"assignOuter", "assignInner"} => g = h

\* Where stores become visible in program order, the check-then-Once of
\* GetCodecManager never hands out a manager whose codecMap is still nil.
NilMapOnlyIfReordered == ~Reorder => crash # "nilMap"

\* The table as a caller of the package sees it.
Entry(t, k) ==
  LET a == IF codecManager = NIL THEN NIL ELSE OuterAt(codecManager, t)
  IN  IF a = NIL THEN NIL ELSE innerMap[a][k]

registryBar == [t \in CodecType |-> [k \in MessageType |-> Entry(t, k)]]

\* When RegisterCodec is about to return, its codec is the one registered:
\* no other registration has undone or hidden it.
RegisteredAtReturn ==
  \A g \in Goroutine :
    pc[g] = "unlock" =>
      Entry(req[g].ct, GetMessageType[req[g].codec]) = req[g].codec

\* GetCodec never answers with a codec of another message type or another
\* codec family, even when it reads a map that is being written: an answer
\* is for the asked type, was read from the inner map of the asked family and
\* of no other one, and that entry is in the table or on its way.
LookupSound ==
  \A g \in Goroutine :
    pc[g] = "found" /\ result[g] # NIL =>
      /\ GetMessageType[result[g]] = req[g].mt
      /\ \A t \in CodecType : local[g] = OuterAt(mgr[g], t) <=> t = req[g].ct
      /\ \/ Entry(req[g].ct, req[g].mt) # NIL
         \/ \E w \in Goroutine :
              /\ pc[w] = "assignInner"
              /\ req[w].ct = req[g].ct
              /\ req[w].codec = result[g]

\* Concurrent registration through nested maps, a lock and a lazy singleton
\* does to the table only what the abstract registry allows.
Abstract == INSTANCE Registry WITH registry <- registryBar

RefinesRegistry == Abstract!Spec

\* Every call returns, unless the process dies.
CallsReturn ==
  \A g \in Goroutine :
    pc[g] # "idle" ~> (pc[g] = "idle" \/ crash # "none")
=============================================================================
