---------------------------- MODULE ProtoMessage ----------------------------
(***************************************************************************)
(* One message of a generated type, shared by goroutines of a program that *)
(* marshal it and unmarshal what a peer sends into it, over and over.      *)
(* ProtoReflect, Reset and the getters are generated; the protobuf runtime *)
(* is external: it fills and reads the struct by the tags of its fields,   *)
(* through a handle that is a pointer to the message's own state, and      *)
(* panics if it finds no MessageInfo there.  The peer works by the schema. *)
(*                                                                         *)
(* Nobody uses the message while one goroutine unmarshals into it (the     *)
(* rule of the runtime), but a handle taken before may be used after.      *)
(* protoimpl.UnsafeEnabled is true, as in every build without a tag.       *)
(***************************************************************************)
EXTENDS ProtoMessages

CONSTANTS
  Goroutine,
  Contents(_),   \* what a message of a type may hold
  NIL

VARIABLES
  kind,      \* the message's type
  object,    \* the struct, and those it points to
  info,      \* state.atomicMessageInfo: the MessageInfo of a type, or NIL
  pc,        \* where a goroutine stands
  task,      \* what it has asked for: "marshal" or "unmarshal"
  source,    \* the message the peer has sent, once it is being unmarshalled
  sent,      \* the last wire format marshalled, and the struct at that time
  panicked   \* the runtime has used a message without MessageInfo

vars == <<kind, object, info, pc, task, source, sent, panicked>>

----------------------------------------------------------------------------
(* Messages.  A message is its struct and all that it points to, by the    *)
(* path of fields that leads there: x[<<>>] are the scalar fields of the   *)
(* struct itself, and <<"AbstractMessage">> is in the domain of x if that  *)
(* field is not nil.  A scalar is zero or one other value: a constant of   *)
(* its enum, or the name of its field, so that no two fields are alike.    *)
(* Lists, maps and octets are scalars here.                                *)

Fields(k) == {Messages[k].go[n] : n \in DOMAIN Messages[k].go}
TypeOf(k, f) == Messages[k].types[CHOOSE n \in DOMAIN Messages[k].go :
                                    Messages[k].go[n] = f]
IsMessage(t) == t \in DOMAIN Messages
IsEnum(t) == t \in DOMAIN Enums
Scalars(k) == {f \in Fields(k) : ~IsMessage(TypeOf(k, f))}

\* The types along a path, from the message itself to where the path ends.
Types(k, p) ==
  LET type[i \in 0..Len(p)] ==
        IF i = 0 THEN k ELSE TypeOf(type[i - 1], p[i])
  IN  type
TypeAt(k, p) == Types(k, p)[Len(p)]

IsPath(k, p) ==
  /\ p \in Seq(STRING)
  /\ \A i \in 1..Len(p) :
       /\ p[i] \in Fields(Types(k, p)[i - 1])
       /\ IsMessage(Types(k, p)[i])

IsObject(k, x) ==
  /\ \A p \in DOMAIN x : IsPath(k, p)
  /\ <<>> \in DOMAIN x
  /\ x = [p \in DOMAIN x |-> [f \in Scalars(TypeAt(k, p)) |-> x[p][f]]]

ASSUME ProtoMessageAssumption ==
  /\ NIL \notin DOMAIN Messages
  /\ \A k \in DOMAIN Messages : \A x \in Contents(k) : IsObject(k, x)

\* X{}
Zero(t) == IF IsEnum(t) THEN 0 ELSE ""
Zeros(k) == [f \in Scalars(k) |-> Zero(TypeOf(k, f))]
New(k) == [p \in {<<>>} |-> Zeros(k)]

\* x.GetA().GetB() and so on, where a message that is not there is nil.
Getters(k, x, p) == IF p \in DOMAIN x THEN x[p] ELSE Zeros(TypeAt(k, p))

----------------------------------------------------------------------------
(* The wire: field numbers and what they carry, for every message that is  *)
(* there, by the numbers that lead to it; zero fields are not written.  A  *)
(* side is "go", which goes by struct tags, or "schema".                   *)

Number(side, k, f) ==
  CHOOSE n \in DOMAIN Messages[k][side] : Messages[k][side][n] = f

ToNumbers(side, k, p) ==
  [i \in 1..Len(p) |-> Number(side, Types(k, p)[i - 1], p[i])]

ToFields(side, k, q) ==
  LET at[i \in 0..Len(q)] ==
        IF i = 0 THEN [type |-> k, field |-> ""]
        ELSE LET f == Messages[at[i - 1].type][side][q[i]]
             IN  [type |-> TypeOf(at[i - 1].type, f), field |-> f]
  IN  [i \in 1..Len(q) |-> at[i].field]

Encode(side, k, x) ==
  LET fields(p, t) ==
        [n \in {Number(side, t, f) :
                  f \in {f \in Scalars(t) : x[p][f] # Zero(TypeOf(t, f))}} |->
           x[p][Messages[t][side][n]]]
  IN  [q \in {ToNumbers(side, k, p) : p \in DOMAIN x} |->
         LET p == ToFields(side, k, q) IN fields(p, TypeAt(k, p))]

\* The fields of a wire format laid over those of a message.
Merge(side, k, x, wire) ==
  LET paths == DOMAIN x \cup {ToFields(side, k, q) : q \in DOMAIN wire}
      value(p, q, f, n) == IF q \in DOMAIN wire /\ n \in DOMAIN wire[q]
                           THEN wire[q][n] ELSE Getters(k, x, p)[f]
  IN  [p \in paths |->
         [f \in Scalars(TypeAt(k, p)) |->
            value(p, ToNumbers(side, k, p), f,
                  Number(side, TypeAt(k, p), f))]]

----------------------------------------------------------------------------
Init ==
  /\ kind \in DOMAIN Messages
  /\ object \in Contents(kind)
  /\ info = NIL
  /\ pc = [g \in Goroutine |-> "idle"]
  /\ task = [g \in Goroutine |-> "none"]
  /\ source = NIL /\ sent = NIL
  /\ panicked = FALSE

At(g, label) == ~panicked /\ pc[g] = label
Goto(g, label) == pc' = [pc EXCEPT ![g] = label]

----------------------------------------------------------------------------
(* Callers.                                                                *)

Unmarshalling == \E g \in Goroutine : task[g] = "unmarshal"

\* proto.Marshal; the others may be doing the same.
CallMarshal(g) ==
  /\ At(g, "idle")
  /\ ~Unmarshalling
  /\ task' = [task EXCEPT ![g] = "marshal"]
  /\ Goto(g, "load")
  /\ UNCHANGED <<kind, object, info, source, sent, panicked>>

\* proto.Unmarshal, while nobody else does more than hold a handle.
CallUnmarshal(g) ==
  /\ At(g, "idle")
  /\ ~Unmarshalling
  /\ \A h \in Goroutine : pc[h] \in {"idle", "ready"}
  /\ task' = [task EXCEPT ![g] = "unmarshal"]
  /\ \E content \in Contents(kind) : source' = content
  /\ sent' = NIL
  /\ Goto(g, "load")
  /\ UNCHANGED <<kind, object, info, panicked>>

----------------------------------------------------------------------------
(* ProtoReflect: any number of goroutines may be the first.                *)

LoadMessageInfo(g) ==
  /\ At(g, "load")
  /\ Goto(g, IF info = NIL THEN "store" ELSE "ready")
  /\ UNCHANGED <<kind, object, info, task, source, sent, panicked>>

StoreMessageInfo(g) ==
  /\ At(g, "store")
  /\ info' = kind
  /\ Goto(g, "ready")
  /\ UNCHANGED <<kind, object, task, source, sent, panicked>>

----------------------------------------------------------------------------
(* Reset: *x = X{}, which clears the state too, then StoreMessageInfo.     *)

\* Mutant: Reset only assigns.
MutantOnlyAssign(g) ==
  /\ At(g, "ready") /\ task[g] = "unmarshal"
  /\ object' = New(kind)
  /\ info' = NIL
  /\ Goto(g, "merge")
  /\ UNCHANGED <<kind, task, source, sent, panicked>>

\* Mutant: Reset leaves the fields alone.
MutantKeepFields(g) ==
  /\ At(g, "ready") /\ task[g] = "unmarshal"
  /\ info' = NIL
  /\ Goto(g, "reset")
  /\ UNCHANGED <<kind, object, task, source, sent, panicked>>

Assign(g) ==
  /\ At(g, "ready") /\ task[g] = "unmarshal"
  /\ object' = New(kind)
  /\ info' = NIL
  /\ Goto(g, "reset")
  /\ UNCHANGED <<kind, task, source, sent, panicked>>

RestoreMessageInfo(g) ==
  /\ At(g, "reset")
  /\ info' = kind
  /\ Goto(g, "merge")
  /\ UNCHANGED <<kind, object, task, source, sent, panicked>>

----------------------------------------------------------------------------
(* The runtime behind the handle.                                          *)

\* A step that needs the MessageInfo, or the end of the program.
Use(effect) ==
  IF info = kind THEN effect /\ UNCHANGED panicked
  ELSE panicked' = TRUE /\ UNCHANGED <<object, sent>>

FinishUnmarshal(g) ==
  /\ At(g, "merge")
  /\ Use(/\ object' = Merge("go", kind, object, Encode("schema", kind, source))
         /\ UNCHANGED sent)
  /\ Goto(g, "idle")
  /\ task' = [task EXCEPT ![g] = "none"]
  /\ UNCHANGED <<kind, info, source>>

FinishMarshal(g) ==
  /\ At(g, "ready") /\ task[g] = "marshal"
  /\ ~Unmarshalling
  /\ Use(/\ sent' = [object |-> object, wire |-> Encode("go", kind, object)]
         /\ UNCHANGED object)
  /\ Goto(g, "idle")
  /\ task' = [task EXCEPT ![g] = "none"]
  /\ UNCHANGED <<kind, info, source>>

----------------------------------------------------------------------------
Step(g) ==
  \/ LoadMessageInfo(g) \/ StoreMessageInfo(g)
  \/ Assign(g) \/ RestoreMessageInfo(g)
  \/ FinishUnmarshal(g) \/ FinishMarshal(g)

Next ==
  \E g \in Goroutine : CallMarshal(g) \/ CallUnmarshal(g) \/ Step(g)

Spec == Init /\ [][Next]_vars

----------------------------------------------------------------------------
\* Reset does not take the MessageInfo from under a handle: neither from the
\* one that Unmarshal itself took before it calls Reset, nor from one that
\* another goroutine has kept across it.
HandleSurvivesReset == ~panicked

\* After Unmarshal into a message that held another one, the getters show
\* what the peer sent: nothing of the old content shines through where the
\* peer left a field out, and every number reaches its own field.
GoReads ==
  source # NIL /\ ~Unmarshalling =>
    \A p \in DOMAIN object \cup DOMAIN source :
      Getters(kind, object, p) = Getters(kind, source, p)

\* What is marshalled is, to a peer that goes by the schema, the struct as it
\* was, with the same messages present in it.
PeerReads ==
  sent # NIL => Merge("schema", kind, New(kind), sent.wire) = sent.object
=============================================================================
