---------------------------- MODULE CodecStartup ----------------------------
(***************************************************************************)
(* Init of protocol/codec/codec.go on top of the registry: a goroutine     *)
(* registers the Seata codecs one after another, each through              *)
(* GetCodecManager().RegisterCodec, and returns.  Lookups begin when some  *)
(* Init has returned, as in a program that calls Init before it opens a    *)
(* connection; but nothing keeps a second component from calling Init too, *)
(* at the same time or later, while the first one is already looking up.   *)
(***************************************************************************)
EXTENDS CodecManager, Naturals, Sequences

CONSTANTS
  CodecTypeSeata,   \* the family Init registers under
  InitOrder,        \* the codecs Init registers, in order
  MaxInits          \* bound on the calls of Init

ASSUME StartupAssumption ==
  /\ CodecTypeSeata \in CodecType
  /\ InitOrder \in Seq(Codec)
  /\ \A i, j \in DOMAIN InitOrder :
       GetMessageType[InitOrder[i]] = GetMessageType[InitOrder[j]] => i = j
  /\ MaxInits \in Nat

VARIABLES
  position,   \* the registration of Init a goroutine comes to next, 0 outside
  inits,      \* how often Init was called
  returned    \* some Init has returned

startupVars == <<vars, position, inits, returned>>

SInit == Init /\ position = [g \in Goroutine |-> 0] /\ inits = 0
              /\ returned = FALSE

CallInit(g) ==
  /\ At(g, "idle")
  /\ position[g] = 0
  /\ inits < MaxInits
  /\ position' = [position EXCEPT ![g] = 1]
  /\ inits' = inits + 1
  /\ UNCHANGED <<vars, returned>>

InitRegister(g) ==
  /\ position[g] \in DOMAIN InitOrder
  /\ CallRegister(g, CodecTypeSeata, InitOrder[position[g]])
  /\ position' = [position EXCEPT ![g] = @ + 1]
  /\ UNCHANGED <<inits, returned>>

\* Mutant: the last registration is left to a goroutine of its own.
MutantReturnEarly(g) ==
  /\ crash = "none"
  /\ position[g] = Len(InitOrder) + 1
  /\ returned' = TRUE
  /\ position' = [position EXCEPT ![g] = 0]
  /\ UNCHANGED <<vars, inits>>

InitReturn(g) ==
  /\ At(g, "idle")
  /\ position[g] = Len(InitOrder) + 1
  /\ returned' = TRUE
  /\ position' = [position EXCEPT ![g] = 0]
  /\ UNCHANGED <<vars, inits>>

Lookup(g) ==
  /\ returned
  /\ position[g] = 0
  /\ \E t \in CodecType, m \in MessageType : CallLookup(g, t, m)
  /\ UNCHANGED <<position, inits, returned>>

Continue(g) == Step(g) /\ UNCHANGED <<position, inits, returned>>

SNext ==
  \E g \in Goroutine :
    \/ CallInit(g) \/ InitRegister(g) \/ InitReturn(g)
    \/ Lookup(g) \/ Continue(g)

SSpec == SInit /\ [][SNext]_startupVars

\* Fairness of CodecManager, and a goroutine inside Init goes on with it.
SFairSpec ==
  /\ SSpec
  /\ \A g \in Goroutine :
       /\ WF_startupVars(InitRegister(g) \/ InitReturn(g) \/ Continue(g))
       /\ SF_startupVars(LockManager(g) /\ UNCHANGED <<position, inits, returned>>)

----------------------------------------------------------------------------
\* The codec Init registers for a message type.
Registered(t, m) ==
  IF t = CodecTypeSeata /\ \E c \in Codec : GetMessageType[c] = m
                             /\ \E i \in DOMAIN InitOrder : InitOrder[i] = c
  THEN CHOOSE c \in Codec : GetMessageType[c] = m
         /\ \E i \in DOMAIN InitOrder : InitOrder[i] = c
  ELSE NIL

\* A lookup made after some Init returned finds exactly the codec that Init
\* registers, even while another Init is writing the same maps: all it does
\* is overwrite keys that are there, never insert one.
LookupExact ==
  \A g \in Goroutine :
    pc[g] = "found" => result[g] = Registered(req[g].ct, req[g].mt)

\* The process can die of a map race only if Init is called twice.
RaceNeedsSecondInit == crash # "none" => inits > 1

\* Every Init returns, unless the process dies.
InitReturns ==
  \A g \in Goroutine : position[g] > 0 ~> (position[g] = 0 \/ crash # "none")
=============================================================================
