------------------------- MODULE ProtoMessageProofs -------------------------
(***************************************************************************)
(* That what is marshalled is what a peer reads, and the other way round,  *)
(* for every message of the 40 types, nested as it may be; and that the    *)
(* generated Reset keeps the handles, for any number of goroutines.        *)
(***************************************************************************)
EXTENDS ProtoMessage, SequenceTheorems, WellFoundedInduction, TLAPS

----------------------------------------------------------------------------
(* Numbers and fields.                                                     *)

Sides == {"go", "schema"}

\* The struct tags of every message number its fields as the schema does.
LEMMA SchemaKept ==
  \A k \in DOMAIN Messages : Messages[k].go = Messages[k].schema
<1>1. \A m \in {
          AbstractBranchEndRequestProto, AbstractBranchEndResponseProto,
          AbstractGlobalEndRequestProto, AbstractGlobalEndResponseProto,
          AbstractIdentifyRequestProto, AbstractIdentifyResponseProto,
          AbstractMessageProto, AbstractResultMessageProto} :
        m.go = m.schema
  BY DEF Message, Wrapper,
         AbstractBranchEndRequestProto, AbstractBranchEndResponseProto,
         AbstractGlobalEndRequestProto, AbstractGlobalEndResponseProto,
         AbstractIdentifyRequestProto, AbstractIdentifyResponseProto,
         AbstractMessageProto, AbstractResultMessageProto
<1>2. \A m \in {
          AbstractTransactionRequestProto, AbstractTransactionResponseProto,
          BatchResultMessageProto, BranchCommitRequestProto,
          BranchCommitResponseProto, BranchRegisterRequestProto,
          BranchRegisterResponseProto, BranchReportRequestProto} :
        m.go = m.schema
  BY DEF Message, Wrapper,
         AbstractTransactionRequestProto, AbstractTransactionResponseProto,
         BatchResultMessageProto, BranchCommitRequestProto,
         BranchCommitResponseProto, BranchRegisterRequestProto,
         BranchRegisterResponseProto, BranchReportRequestProto
<1>3. \A m \in {
          BranchReportResponseProto, BranchRollbackRequestProto,
          BranchRollbackResponseProto, GlobalBeginRequestProto,
          GlobalBeginResponseProto, GlobalCommitRequestProto,
          GlobalCommitResponseProto, GlobalLockQueryRequestProto} :
        m.go = m.schema
  BY DEF Message, Wrapper,
         BranchReportResponseProto, BranchRollbackRequestProto,
         BranchRollbackResponseProto, GlobalBeginRequestProto,
         GlobalBeginResponseProto, GlobalCommitRequestProto,
         GlobalCommitResponseProto, GlobalLockQueryRequestProto
<1>4. \A m \in {
          GlobalLockQueryResponseProto, GlobalReportRequestProto,
          GlobalReportResponseProto, GlobalRollbackRequestProto,
          GlobalRollbackResponseProto, GlobalStatusRequestProto,
          GlobalStatusResponseProto, GrpcMessageProto} :
        m.go = m.schema
  BY DEF Message, Wrapper,
         GlobalLockQueryResponseProto, GlobalReportRequestProto,
         GlobalReportResponseProto, GlobalRollbackRequestProto,
         GlobalRollbackResponseProto, GlobalStatusRequestProto,
         GlobalStatusResponseProto, GrpcMessageProto
<1>5. \A m \in {
          HeartbeatMessageProto, MergedResultMessageProto,
          MergedWarpMessageProto, RegisterRMRequestProto,
          RegisterRMResponseProto, RegisterTMRequestProto,
          RegisterTMResponseProto, UndoLogDeleteRequestProto} :
        m.go = m.schema
  BY DEF Message, Wrapper,
         HeartbeatMessageProto, MergedResultMessageProto,
         MergedWarpMessageProto, RegisterRMRequestProto,
         RegisterRMResponseProto, RegisterTMRequestProto,
         RegisterTMResponseProto, UndoLogDeleteRequestProto
<1> QED
  BY <1>1, <1>2, <1>3, <1>4, <1>5
     DEF Messages

LEMMA SidesAgree ==
  ASSUME NEW k \in DOMAIN Messages, NEW side \in Sides
  PROVE  Messages[k][side] = Messages[k].go
BY SchemaKept DEF Sides

\* A field of a message has a number, on both sides the same.
LEMMA NumberFacts ==
  ASSUME NEW k \in DOMAIN Messages, NEW f \in Fields(k), NEW side \in Sides
  PROVE  /\ Messages[k][side][Number(side, k, f)] = f
         /\ \A other \in Sides : Number(other, k, f) = Number(side, k, f)
<1> DEFINE M == Messages[k].go
<1>1. \A other \in Sides : Messages[k][other] = M
  BY SidesAgree, Zenon
<1>2. PICK n \in DOMAIN M : M[n] = f
  BY DEF Fields
<1> HIDE DEF M
<1>3. \A other \in Sides :
        Number(other, k, f) = CHOOSE m \in DOMAIN M : M[m] = f
  BY <1>1 DEF Number
<1>4. M[CHOOSE m \in DOMAIN M : M[m] = f] = f
  BY <1>2, Zenon
<1> QED
  BY <1>1, <1>3, <1>4

----------------------------------------------------------------------------
(* Paths.  What a recursive function over one is has to be shown by        *)
(* induction, over sets of numbers.                                        *)


\* A set that holds 0, and n + 1 with every n below a bound, holds all the
\* numbers up to it: the least one missing would follow one that is there.
LEMMA ReachedUpTo ==
  ASSUME NEW bound \in Nat, NEW S, 0 \in S,
         \A n \in 0..bound - 1 : n \in S => n + 1 \in S
  PROVE  \A n \in 0..bound : n \in S
<1> DEFINE missing == {n \in Nat : n <= bound /\ n \notin S}
           less == {mn \in Nat \X Nat : mn[1] < mn[2]}
<1> SUFFICES ASSUME missing # {} PROVE FALSE
  OBVIOUS
<1>1. IsWellFoundedOn(less, Nat)
  BY NatLessThanWellFounded DEF OpToRel
<1>2. PICK n \in missing : \A m \in missing : <<m, n>> \notin less
  <2> HIDE DEF less
  <2>1. missing \subseteq Nat
    OBVIOUS
  <2> HIDE DEF missing
  <2>2. missing \in SUBSET Nat /\ missing # {}
    BY <2>1
  <2> QED
    BY <1>1, <2>1, <2>2, WFMin
<1>3. n \in Nat /\ n # 0 /\ n <= bound
  OBVIOUS
<1>4. n - 1 \in 0..bound - 1 /\ (n - 1) + 1 = n
  BY <1>3
<1>5. n - 1 \notin missing
  <2>1. <<n - 1, n>> \in less
    BY <1>3, <1>4
  <2> QED
    BY <1>2, <2>1, Zenon
<1>6. n - 1 \in S
  BY <1>4, <1>5
<1> QED
  BY <1>4, <1>6

\* Types is what its definition says: a function like it can be built up to
\* any length.
LEMMA TypesFacts ==
  ASSUME NEW k, NEW p, Len(p) \in Nat
  PROVE  /\ Types(k, p)[0] = k
         /\ \A i \in 1..Len(p) :
              Types(k, p)[i] = TypeOf(Types(k, p)[i - 1], p[i])
<1> DEFINE N == Len(p)
           next(i, t) == TypeOf(t, p[i])
           S == {n \in Nat : \E f : f = [i \in 0..n |->
                               IF i = 0 THEN k ELSE next(i, f[i - 1])]}
           type == CHOOSE f : f = [i \in 0..N |->
                               IF i = 0 THEN k ELSE next(i, f[i - 1])]
<1>1. Types(k, p) = type
  BY Zenon DEF Types
<1> HIDE DEF next
<1>2. 0 \in S
  <2> DEFINE f == [i \in 0..0 |-> k]
  <2>1. f = [i \in 0..0 |-> IF i = 0 THEN k ELSE next(i, f[i - 1])]
    OBVIOUS
  <2> HIDE DEF f
  <2> QED
    BY <2>1
<1>3. ASSUME NEW n \in Nat, n \in S PROVE n + 1 \in S
  <2>1. PICK f : f = [i \in 0..n |-> IF i = 0 THEN k ELSE next(i, f[i - 1])]
    BY <1>3
  <2>2. \A i \in 0..n : f[i] = IF i = 0 THEN k ELSE next(i, f[i - 1])
    BY <2>1, Zenon
  <2> DEFINE g == [i \in 0..n + 1 |-> IF i <= n THEN f[i]
                                      ELSE next(n + 1, f[n])]
  <2>3. ASSUME NEW i \in 0..n + 1
        PROVE  g[i] = IF i = 0 THEN k ELSE next(i, g[i - 1])
    <3>1. CASE i = 0
      BY <2>2, <3>1
    <3>2. CASE i \in 1..n
      <4>1. g[i] = f[i] /\ g[i - 1] = f[i - 1]
        BY <3>2
      <4> QED
        BY <2>2, <3>2, <4>1
    <3>3. CASE i = n + 1
      <4>1. g[i] = next(i, f[n]) /\ g[i - 1] = f[n] /\ i # 0
        BY <3>3
      <4> QED
        BY <4>1
    <3> QED
      BY <3>1, <3>2, <3>3
  <2>4. g = [i \in 0..n + 1 |-> IF i = 0 THEN k ELSE next(i, g[i - 1])]
    BY <2>3
  <2> HIDE DEF g
  <2> QED
    BY <2>4
<1> HIDE DEF S
<1>4. N \in S
  <2>1. N \in Nat
    OBVIOUS
  <2> HIDE DEF N
  <2>2. \A n \in 0..N - 1 : n \in S => n + 1 \in S
    BY <1>3, <2>1
  <2>3. \A n \in 0..N : n \in S
    BY <1>2, <2>1, <2>2, ReachedUpTo
  <2> QED
    BY <2>1, <2>3
<1>5. type = [i \in 0..N |-> IF i = 0 THEN k ELSE next(i, type[i - 1])]
  BY <1>4 DEF S
<1> HIDE DEF type
<1>6. \A i \in 0..N : type[i] = IF i = 0 THEN k ELSE next(i, type[i - 1])
  BY <1>5, Zenon
<1>7. type[0] = k /\ \A i \in 1..N : type[i] = next(i, type[i - 1])
  BY <1>6
<1> QED
  BY <1>1, <1>7 DEF next

\* Every message along a path of a message is of one of the 40 types.
LEMMA PathFacts ==
  ASSUME NEW k \in DOMAIN Messages, NEW p, IsPath(k, p)
  PROVE  /\ p \in Seq(STRING)
         /\ \A i \in 0..Len(p) : Types(k, p)[i] \in DOMAIN Messages
         /\ TypeAt(k, p) \in DOMAIN Messages
         /\ \A i \in 1..Len(p) : p[i] \in Fields(Types(k, p)[i - 1])
<1>1. p \in Seq(STRING) /\ Len(p) \in Nat
  BY DEF IsPath
<1>2. Types(k, p)[0] = k
  BY <1>1, TypesFacts
<1>3. \A i \in 1..Len(p) : Types(k, p)[i] \in DOMAIN Messages
  BY DEF IsPath, IsMessage
<1>4. ASSUME NEW i \in 0..Len(p) PROVE Types(k, p)[i] \in DOMAIN Messages
  <2>1. CASE i = 0
    BY <1>2, <2>1
  <2>2. CASE i \in 1..Len(p)
    BY <1>3, <2>2
  <2> QED
    BY <1>1, <2>1, <2>2
<1> QED
  BY <1>1, <1>4 DEF TypeAt, IsPath

\* The numbers along a path, and from them the path again.
LEMMA NumbersOfPath ==
  ASSUME NEW k \in DOMAIN Messages, NEW p, IsPath(k, p),
         NEW side \in Sides, NEW other \in Sides
  PROVE  /\ ToNumbers(other, k, p) = ToNumbers(side, k, p)
         /\ ToFields(other, k, ToNumbers(side, k, p)) = p
<1> DEFINE N == Len(p)
           type == Types(k, p)
           q == ToNumbers(side, k, p)
<1>1. N \in Nat /\ p \in [1..N -> STRING]
  BY PathFacts
<1>2. /\ \A i \in 0..N : type[i] \in DOMAIN Messages
      /\ \A i \in 1..N : p[i] \in Fields(type[i - 1])
  BY PathFacts
<1>3. type[0] = k /\ \A i \in 1..N : type[i] = TypeOf(type[i - 1], p[i])
  BY <1>1, TypesFacts
<1>4. /\ ToNumbers(other, k, p) =
           [i \in 1..N |-> Number(other, type[i - 1], p[i])]
      /\ q = [i \in 1..N |-> Number(side, type[i - 1], p[i])]
  BY DEF ToNumbers
<1> HIDE DEF q, N, type
<1>5. \A i \in 1..N : i - 1 \in 0..N
  BY <1>1
<1>6. ASSUME NEW i \in 1..N
      PROVE  /\ Number(other, type[i - 1], p[i]) =
                  Number(side, type[i - 1], p[i])
             /\ Messages[type[i - 1]][other][q[i]] = p[i]
  <2>1. type[i - 1] \in DOMAIN Messages /\ p[i] \in Fields(type[i - 1])
    BY <1>2, <1>5
  <2>2. q[i] = Number(side, type[i - 1], p[i])
    BY <1>4
  <2>3. LET t == type[i - 1]
        IN  /\ Messages[t][other][Number(other, t, p[i])] = p[i]
            /\ Number(other, t, p[i]) = Number(side, t, p[i])
    BY <2>1, NumberFacts
  <2> QED
    BY <2>2, <2>3
<1>7. ToNumbers(other, k, p) = q
  BY <1>4, <1>6
<1>8. Len(q) = N
  BY <1>1, <1>4
<1> DEFINE next(i, a) == LET f == Messages[a.type][other][q[i]]
                         IN  [type |-> TypeOf(a.type, f), field |-> f]
           start == [type |-> k, field |-> ""]
           at == CHOOSE a : a = [i \in 0..Len(q) |->
                     IF i = 0 THEN start ELSE next(i, a[i - 1])]
           w == [i \in 0..N |-> IF i = 0 THEN start
                                ELSE [type |-> type[i], field |-> p[i]]]
<1>9. ToFields(other, k, q) = [i \in 1..Len(q) |-> at[i].field]
  BY Zenon DEF ToFields
<1>10. \A i \in 0..N : w[i].type = type[i]
  BY <1>3
<1>11. ASSUME NEW i \in 0..N
       PROVE  w[i] = IF i = 0 THEN start ELSE next(i, w[i - 1])
  <2>1. CASE i = 0
    BY <2>1
  <2>2. CASE i \in 1..N
    <3>1. w[i - 1].type = type[i - 1]
      BY <1>5, <1>10, <2>2
    <3>2. Messages[w[i - 1].type][other][q[i]] = p[i]
      BY <1>6, <2>2, <3>1
    <3> HIDE DEF w
    <3>3. next(i, w[i - 1]) =
            [type |-> TypeOf(type[i - 1], p[i]), field |-> p[i]]
      BY <3>1, <3>2
    <3> USE DEF w
    <3> HIDE DEF next
    <3> QED
      BY <1>3, <2>2, <3>3
  <2> HIDE DEF w, next, start
  <2>3. i = 0 \/ i \in 1..N
    BY <1>1
  <2> QED
    BY <2>1, <2>2, <2>3
<1> HIDE DEF next, start
<1>12. w = [i \in 0..N |-> IF i = 0 THEN start ELSE next(i, w[i - 1])]
  BY <1>11
<1>13. \A i \in 1..N : w[i].field = p[i]
  BY <1>1
<1> HIDE DEF w
<1>14. at = [i \in 0..N |-> IF i = 0 THEN start ELSE next(i, at[i - 1])]
  BY <1>8, <1>12
<1> HIDE DEF at
<1>15. \A i \in 0..N : at[i] = IF i = 0 THEN start ELSE next(i, at[i - 1])
  BY <1>14, Zenon
<1> DEFINE S == {i \in 0..N : at[i] = w[i]}
<1>16. 0 \in S
  BY <1>1, <1>11, <1>15
<1>17. ASSUME NEW n \in 0..N - 1, n \in S PROVE n + 1 \in S
  <2>1. n + 1 \in 0..N /\ n + 1 # 0 /\ (n + 1) - 1 = n /\ at[n] = w[n]
    BY <1>1, <1>17
  <2>2. at[n + 1] = next(n + 1, at[n]) /\ w[n + 1] = next(n + 1, w[n])
    BY <1>11, <1>15, <2>1
  <2> QED
    BY <2>1, <2>2
<1> HIDE DEF S
<1>18. \A i \in 0..N : i \in S
  BY <1>1, <1>16, <1>17, ReachedUpTo
<1>19. \A i \in 1..N : at[i].field = p[i]
  BY <1>1, <1>13, <1>18 DEF S
<1>20. ToFields(other, k, q) = p
  BY <1>1, <1>8, <1>9, <1>19
<1> QED
  BY <1>7, <1>20 DEF q

----------------------------------------------------------------------------
(* The wire.                                                               *)

\* What is written of the struct at p: the fields that are not zero.
Written(side, k, x, p) ==
  LET t == TypeAt(k, p)
  IN  [n \in {Number(side, t, f) :
                f \in {f \in Scalars(t) : x[p][f] # Zero(TypeOf(t, f))}} |->
         x[p][Messages[t][side][n]]]

\* Every struct is written, under the numbers of its path.
LEMMA EncodeFacts ==
  ASSUME NEW k \in DOMAIN Messages, NEW side \in Sides, NEW x, IsObject(k, x)
  PROVE  /\ DOMAIN Encode(side, k, x) =
              {ToNumbers(side, k, p) : p \in DOMAIN x}
         /\ \A p \in DOMAIN x : Encode(side, k, x)[ToNumbers(side, k, p)] =
                                  Written(side, k, x, p)
<1> DEFINE Q == {ToNumbers(side, k, p) : p \in DOMAIN x}
<1>1. Encode(side, k, x) =
        [q \in Q |-> Written(side, k, x, ToFields(side, k, q))]
  BY Zenon DEF Encode, Written
<1>2. ASSUME NEW p \in DOMAIN x
      PROVE  Encode(side, k, x)[ToNumbers(side, k, p)] =
               Written(side, k, x, p)
  <2>1. ToFields(side, k, ToNumbers(side, k, p)) = p
    BY NumbersOfPath DEF IsObject
  <2>2. ToNumbers(side, k, p) \in Q
    OBVIOUS
  <2> HIDE DEF Q
  <2> QED
    BY <1>1, <2>1, <2>2
<1> QED
  BY <1>1, <1>2

\* Whoever reads, by tags or by the schema, what was written by the tags or
\* by the schema, reads what was in the struct: for every message, whatever
\* it holds and points to.  The getters of the copy tell the same, field by
\* field, and the same messages are there.
THEOREM WireRoundTrip ==
  ASSUME NEW k \in DOMAIN Messages, NEW x, IsObject(k, x),
         NEW writer \in Sides, NEW reader \in Sides
  PROVE  Merge(reader, k, New(k), Encode(writer, k, x)) = x
<1> DEFINE wire == Encode(writer, k, x)
           D == DOMAIN x
           paths == DOMAIN New(k) \cup
                      {ToFields(reader, k, q) : q \in DOMAIN wire}
           value(p, q, f, n) == IF q \in DOMAIN wire /\ n \in DOMAIN wire[q]
                                THEN wire[q][n]
                                ELSE Getters(k, New(k), p)[f]
           row(p) == [f \in Scalars(TypeAt(k, p)) |->
                        value(p, ToNumbers(reader, k, p), f,
                              Number(reader, TypeAt(k, p), f))]
<1>1. Merge(reader, k, New(k), wire) = [p \in paths |-> row(p)]
  BY Zenon DEF Merge
<1>2. /\ \A p \in D : IsPath(k, p)
      /\ <<>> \in D
      /\ x = [p \in D |-> [f \in Scalars(TypeAt(k, p)) |-> x[p][f]]]
  BY DEF IsObject
<1>3. /\ DOMAIN wire = {ToNumbers(writer, k, p) : p \in D}
      /\ \A p \in D :
           wire[ToNumbers(writer, k, p)] = Written(writer, k, x, p)
  BY EncodeFacts
<1> HIDE DEF wire, D
<1>4. \A p \in D : /\ ToNumbers(reader, k, p) = ToNumbers(writer, k, p)
                   /\ ToFields(reader, k, ToNumbers(writer, k, p)) = p
  BY <1>2, NumbersOfPath
<1>5. DOMAIN New(k) = {<<>>}
  BY DEF New
<1>6. paths = D
  BY <1>2, <1>3, <1>4, <1>5
<1>7. ASSUME NEW p \in D, NEW f \in Scalars(TypeAt(k, p))
      PROVE  value(p, ToNumbers(reader, k, p), f,
                   Number(reader, TypeAt(k, p), f)) = x[p][f]
  <2> DEFINE t == TypeAt(k, p)
             q == ToNumbers(reader, k, p)
             n == Number(reader, t, f)
             set == {h \in Scalars(t) : x[p][h] # Zero(TypeOf(t, h))}
  <2>1. t \in DOMAIN Messages
    BY <1>2, PathFacts
  <2>2. wire[q] = [m \in {Number(writer, t, h) : h \in set} |->
                     x[p][Messages[t][writer][m]]]
    BY <1>3, <1>4 DEF Written
  <2>3. q \in DOMAIN wire
    BY <1>3, <1>4
  <2> HIDE DEF t, q
  <2>4. \A h \in Scalars(t) : /\ Number(reader, t, h) = Number(writer, t, h)
                              /\ Messages[t][writer][Number(writer, t, h)] = h
    BY <2>1, NumberFacts DEF Scalars
  <2>5. f \in Scalars(t)
    BY DEF t
  <2>6. CASE f \in set
    <3>1. n \in DOMAIN wire[q] /\ wire[q][n] = x[p][f]
      BY <2>2, <2>4, <2>5, <2>6
    <3> QED
      BY <2>3, <3>1 DEF t, q
  <2>7. CASE f \notin set
    <3>1. n \notin DOMAIN wire[q]
      <4>1. ASSUME NEW h \in set PROVE Number(writer, t, h) # n
        BY <2>4, <2>5, <2>7
      <4> HIDE DEF set, n
      <4>2. DOMAIN wire[q] = {Number(writer, t, h) : h \in set}
        BY <2>2
      <4> QED
        BY <4>1, <4>2
    <3>2. Getters(k, New(k), p) = Zeros(t)
      <4>1. CASE p = <<>>
        <5>1. Types(k, p)[0] = k /\ Len(p) = 0
          BY <4>1, TypesFacts
        <5>2. t = k
          BY <5>1 DEF t, TypeAt
        <5> QED
          BY <4>1, <5>2 DEF Getters, New
      <4>2. CASE p # <<>>
        BY <1>5, <4>2 DEF Getters, t
      <4> QED
        BY <4>1, <4>2
    <3>3. Getters(k, New(k), p)[f] = x[p][f]
      BY <2>5, <2>7, <3>2 DEF Zeros
    <3> QED
      BY <3>1, <3>3 DEF t, q
  <2> QED
    BY <2>6, <2>7
<1>8. ASSUME NEW p \in D
      PROVE  row(p) = [f \in Scalars(TypeAt(k, p)) |-> x[p][f]]
  <2> HIDE DEF value
  <2> QED
    BY <1>7
<1> HIDE DEF paths, row
<1>9. [p \in paths |-> row(p)] =
        [p \in D |-> [f \in Scalars(TypeAt(k, p)) |-> x[p][f]]]
  BY <1>6, <1>8
<1> QED
  BY <1>1, <1>2, <1>9 DEF wire

----------------------------------------------------------------------------
(* The message and its handles.                                            *)

TypeOK ==
  /\ kind \in DOMAIN Messages
  /\ IsObject(kind, object)
  /\ info \in {NIL, kind}
  /\ pc \in [Goroutine -> {"idle", "load", "store", "ready", "reset", "merge"}]
  /\ task \in [Goroutine -> {"none", "marshal", "unmarshal"}]
  /\ source \in Contents(kind) \cup {NIL}
  /\ panicked \in BOOLEAN

\* A goroutine that is idle has no task; Reset is part of Unmarshal, and
\* leaves nothing in the message until the runtime merges.
TasksInOrder ==
  \A g \in Goroutine :
    /\ pc[g] = "idle" => task[g] = "none"
    /\ pc[g] \in {"reset", "merge"} =>
         task[g] = "unmarshal" /\ object = New(kind)

\* While one goroutine unmarshals the others hold a handle at most.
UnmarshalsAlone ==
  \A g, h \in Goroutine :
    task[g] = "unmarshal" /\ h # g =>
      task[h] # "unmarshal" /\ pc[h] \in {"idle", "ready"}

\* A handle has its MessageInfo, but between the two halves of a Reset.
HandlesHaveInfo ==
  \A g \in Goroutine :
    pc[g] \in {"ready", "merge"} =>
      info = kind \/ \E h \in Goroutine : pc[h] = "reset"

\* What is being unmarshalled is a message, and is there when it is done.
SourceArrives ==
  /\ Unmarshalling => source \in Contents(kind)
  /\ source # NIL /\ ~Unmarshalling => object = source

\* What was sent was written from a message of the type.
SentWasWritten ==
  sent # NIL => /\ IsObject(kind, sent.object)
                /\ sent.wire = Encode("go", kind, sent.object)

MessageInv ==
  /\ TypeOK /\ TasksInOrder /\ UnmarshalsAlone /\ HandlesHaveInfo
  /\ SourceArrives /\ SentWasWritten
  /\ ~panicked

\* A new message is one that points to nothing.
LEMMA NewIsObject ==
  ASSUME NEW k \in DOMAIN Messages
  PROVE  IsObject(k, New(k))
<1>1. Types(k, <<>>)[0] = k
  BY TypesFacts
<1>2. TypeAt(k, <<>>) = k
  BY <1>1 DEF TypeAt
<1>3. IsPath(k, <<>>)
  BY DEF IsPath
<1>4. Zeros(k) = [f \in Scalars(k) |-> Zeros(k)[f]]
  BY DEF Zeros
<1>5. DOMAIN New(k) = {<<>>} /\ New(k)[<<>>] = Zeros(k)
  BY DEF New
<1>6. New(k) = [p \in {<<>>} |->
                  [f \in Scalars(TypeAt(k, p)) |-> New(k)[p][f]]]
  <2> HIDE DEF New
  <2>1. [f \in Scalars(TypeAt(k, <<>>)) |-> New(k)[<<>>][f]] = Zeros(k)
    BY <1>2, <1>4, <1>5
  <2> QED
    BY <1>5, <2>1 DEF New
<1> QED
  BY <1>3, <1>5, <1>6 DEF IsObject


\* It holds before anybody has called.
LEMMA MessageStarts == Init => MessageInv
<1> SUFFICES ASSUME Init PROVE MessageInv
  OBVIOUS
<1>1. TypeOK
  BY ProtoMessageAssumption DEF Init, TypeOK
<1>2. TasksInOrder /\ UnmarshalsAlone /\ HandlesHaveInfo
  BY DEF Init, TasksInOrder, UnmarshalsAlone, HandlesHaveInfo
<1>3. ~Unmarshalling
  BY DEF Init, Unmarshalling
<1> QED
  BY <1>1, <1>2, <1>3 DEF Init, MessageInv, SourceArrives, SentWasWritten

\* Every step of every goroutine keeps it.
LEMMA MessageStep == MessageInv /\ [Next]_vars => MessageInv'
<1> SUFFICES ASSUME MessageInv, [Next]_vars PROVE MessageInv'
  OBVIOUS
<1> USE DEF MessageInv
<1>1. kind \in DOMAIN Messages /\ kind # NIL
  BY ProtoMessageAssumption DEF TypeOK
<1>2. \A x \in Contents(kind) : IsObject(kind, x)
  BY <1>1, ProtoMessageAssumption
<1>3. IsObject(kind, New(kind))
  BY <1>1, NewIsObject
<1>4. ASSUME NEW g \in Goroutine, CallMarshal(g) PROVE MessageInv'
  <2>1. TypeOK'
    BY <1>4 DEF CallMarshal, Goto, TypeOK
  <2>2. TasksInOrder'
    BY <1>4 DEF CallMarshal, Goto, TypeOK, TasksInOrder
  <2>3. UnmarshalsAlone'
    BY <1>4 DEF CallMarshal, Unmarshalling, UnmarshalsAlone
  <2>4. HandlesHaveInfo'
    BY <1>4 DEF CallMarshal, At, Goto, HandlesHaveInfo
  <2>5. SourceArrives'
    BY <1>4 DEF CallMarshal, Unmarshalling, SourceArrives
  <2>6. SentWasWritten'
    BY <1>4 DEF CallMarshal, SentWasWritten
  <2>7. ~panicked'
    BY <1>4 DEF CallMarshal
  <2> QED
    BY <2>1, <2>2, <2>3, <2>4, <2>5, <2>6, <2>7
<1>5. ASSUME NEW g \in Goroutine, CallUnmarshal(g) PROVE MessageInv'
  <2>1. TypeOK'
    BY <1>5 DEF CallUnmarshal, Goto, TypeOK
  <2>2. TasksInOrder'
    BY <1>5 DEF CallUnmarshal, Goto, TypeOK, TasksInOrder
  <2>3. UnmarshalsAlone'
    BY <1>5 DEF CallUnmarshal, Goto, Unmarshalling, UnmarshalsAlone
  <2>4. HandlesHaveInfo'
    BY <1>5 DEF CallUnmarshal, Goto, HandlesHaveInfo
  <2>5. SourceArrives'
    BY <1>5 DEF CallUnmarshal, Unmarshalling, TypeOK, SourceArrives
  <2>6. SentWasWritten'
    BY <1>5 DEF CallUnmarshal, SentWasWritten
  <2>7. ~panicked'
    BY <1>5 DEF CallUnmarshal
  <2> QED
    BY <2>1, <2>2, <2>3, <2>4, <2>5, <2>6, <2>7
<1>6. ASSUME NEW g \in Goroutine, LoadMessageInfo(g) PROVE MessageInv'
  <2>1. TypeOK'
    BY <1>6 DEF LoadMessageInfo, Goto, TypeOK
  <2>2. TasksInOrder'
    BY <1>6 DEF LoadMessageInfo, Goto, TasksInOrder
  <2>3. UnmarshalsAlone'
    BY <1>6 DEF LoadMessageInfo, At, Goto, UnmarshalsAlone
  <2>4. HandlesHaveInfo'
    BY <1>6 DEF LoadMessageInfo, At, Goto, TypeOK, HandlesHaveInfo
  <2>5. SourceArrives'
    BY <1>6 DEF LoadMessageInfo, SourceArrives, Unmarshalling
  <2>6. SentWasWritten'
    BY <1>6 DEF LoadMessageInfo, SentWasWritten
  <2>7. ~panicked'
    BY <1>6 DEF LoadMessageInfo
  <2> QED
    BY <2>1, <2>2, <2>3, <2>4, <2>5, <2>6, <2>7
<1>7. ASSUME NEW g \in Goroutine, StoreMessageInfo(g) PROVE MessageInv'
  <2>1. TypeOK'
    BY <1>7 DEF StoreMessageInfo, Goto, TypeOK
  <2>2. TasksInOrder'
    BY <1>7 DEF StoreMessageInfo, Goto, TasksInOrder
  <2>3. UnmarshalsAlone'
    BY <1>7 DEF StoreMessageInfo, Goto, UnmarshalsAlone
  <2>4. HandlesHaveInfo'
    BY <1>7 DEF StoreMessageInfo, HandlesHaveInfo
  <2>5. SourceArrives'
    BY <1>7 DEF StoreMessageInfo, SourceArrives, Unmarshalling
  <2>6. SentWasWritten'
    BY <1>7 DEF StoreMessageInfo, SentWasWritten
  <2>7. ~panicked'
    BY <1>7 DEF StoreMessageInfo
  <2> QED
    BY <2>1, <2>2, <2>3, <2>4, <2>5, <2>6, <2>7
<1>8. ASSUME NEW g \in Goroutine, Assign(g) PROVE MessageInv'
  <2>1. TypeOK'
    BY <1>3, <1>8 DEF Assign, Goto, TypeOK
  <2>2. TasksInOrder'
    BY <1>8 DEF Assign, Goto, TasksInOrder
  <2>3. UnmarshalsAlone'
    BY <1>8 DEF Assign, Goto, UnmarshalsAlone
  <2>4. HandlesHaveInfo'
    BY <1>8 DEF Assign, Goto, TypeOK, HandlesHaveInfo
  <2>5. SourceArrives'
    BY <1>8 DEF Assign, SourceArrives, Unmarshalling
  <2>6. SentWasWritten'
    BY <1>8 DEF Assign, SentWasWritten
  <2>7. ~panicked'
    BY <1>8 DEF Assign
  <2> QED
    BY <2>1, <2>2, <2>3, <2>4, <2>5, <2>6, <2>7
<1>9. ASSUME NEW g \in Goroutine, RestoreMessageInfo(g) PROVE MessageInv'
  <2>1. TypeOK'
    BY <1>9 DEF RestoreMessageInfo, Goto, TypeOK
  <2>2. TasksInOrder'
    BY <1>9 DEF RestoreMessageInfo, At, Goto, TasksInOrder
  <2>3. UnmarshalsAlone'
    BY <1>9 DEF RestoreMessageInfo, At, Goto, UnmarshalsAlone
  <2>4. HandlesHaveInfo'
    BY <1>9 DEF RestoreMessageInfo, HandlesHaveInfo
  <2>5. SourceArrives'
    BY <1>9 DEF RestoreMessageInfo, SourceArrives, Unmarshalling
  <2>6. SentWasWritten'
    BY <1>9 DEF RestoreMessageInfo, SentWasWritten
  <2>7. ~panicked'
    BY <1>9 DEF RestoreMessageInfo
  <2> QED
    BY <2>1, <2>2, <2>3, <2>4, <2>5, <2>6, <2>7
<1>10. ASSUME NEW g \in Goroutine, FinishUnmarshal(g) PROVE MessageInv'
  <2>0. /\ pc[g] = "merge" /\ task[g] = "unmarshal" /\ info = kind
        /\ source \in Contents(kind) /\ object' = source
    <3>1. pc[g] = "merge" /\ task[g] = "unmarshal" /\ object = New(kind)
      BY <1>10 DEF FinishUnmarshal, At, TasksInOrder
    <3>2. info = kind
      BY <3>1 DEF HandlesHaveInfo, UnmarshalsAlone
    <3>3. source \in Contents(kind)
      BY <3>1 DEF SourceArrives, Unmarshalling
    <3>4. object' =
            Merge("go", kind, New(kind), Encode("schema", kind, source))
      BY <1>10, <3>1, <3>2 DEF FinishUnmarshal, Use
    <3>5. object' = source
      BY <1>1, <1>2, <3>3, <3>4, WireRoundTrip DEF Sides
    <3> QED
      BY <3>1, <3>2, <3>3, <3>5
  <2>1. TypeOK'
    BY <1>2, <1>10, <2>0 DEF FinishUnmarshal, Goto, Use, TypeOK
  <2>2. TasksInOrder'
    BY <1>10, <2>0
       DEF FinishUnmarshal, Goto, TypeOK, TasksInOrder, UnmarshalsAlone
  <2>3. UnmarshalsAlone'
    BY <1>10 DEF FinishUnmarshal, Goto, UnmarshalsAlone
  <2>4. HandlesHaveInfo'
    BY <1>10, <2>0 DEF FinishUnmarshal, HandlesHaveInfo
  <2>5. SourceArrives'
    BY <1>10, <2>0 DEF FinishUnmarshal, SourceArrives
  <2>6. SentWasWritten'
    BY <1>10 DEF FinishUnmarshal, Use, SentWasWritten
  <2>7. ~panicked'
    BY <1>10, <2>0 DEF FinishUnmarshal, Use
  <2> QED
    BY <2>1, <2>2, <2>3, <2>4, <2>5, <2>6, <2>7
<1>11. ASSUME NEW g \in Goroutine, FinishMarshal(g) PROVE MessageInv'
  <2>1. TypeOK'
    BY <1>11 DEF FinishMarshal, Goto, Use, TypeOK
  <2>2. TasksInOrder'
    BY <1>11 DEF FinishMarshal, Goto, Use, TypeOK, TasksInOrder
  <2>3. UnmarshalsAlone'
    BY <1>11 DEF FinishMarshal, Goto, UnmarshalsAlone
  <2>4. HandlesHaveInfo'
    BY <1>11 DEF FinishMarshal, At, Goto, HandlesHaveInfo
  <2>5. SourceArrives'
    BY <1>11 DEF FinishMarshal, Use, Unmarshalling, SourceArrives
  <2>6. SentWasWritten'
    BY <1>11 DEF FinishMarshal, Use, TypeOK, SentWasWritten
  <2>7. ~panicked'
    BY <1>11
       DEF FinishMarshal, At, Use, Unmarshalling, HandlesHaveInfo, TasksInOrder
  <2> QED
    BY <2>1, <2>2, <2>3, <2>4, <2>5, <2>6, <2>7
<1>12. CASE UNCHANGED vars
  BY <1>12 DEF vars, TypeOK, TasksInOrder, UnmarshalsAlone, HandlesHaveInfo,
               SourceArrives, SentWasWritten, Unmarshalling
<1> QED
  BY <1>4, <1>5, <1>6, <1>7, <1>8, <1>9, <1>10, <1>11, <1>12 DEF Next, Step

\* All of this holds all along, for any goroutines, whatever the messages of
\* a type may hold.
THEOREM MessageInductive == Spec => []MessageInv
<1>1. Init => MessageInv
  BY MessageStarts
<1>2. MessageInv /\ [Next]_vars => MessageInv'
  BY MessageStep
<1> QED
  BY <1>1, <1>2, PTL DEF Spec

\* However many goroutines keep a handle across Reset, none of them, and no
\* Unmarshal, finds the message without its MessageInfo.
THEOREM HandlesSurvive == Spec => []HandleSurvivesReset
<1>1. MessageInv => HandleSurvivesReset
  BY DEF MessageInv, HandleSurvivesReset
<1> QED
  BY <1>1, MessageInductive, PTL

\* What Unmarshal leaves in a message that was in use is what the peer wrote
\* by its schema, whatever either of them held.
THEOREM SourceIsRead == Spec => []GoReads
<1>1. MessageInv => GoReads
  BY DEF MessageInv, SourceArrives, GoReads
<1> QED
  BY <1>1, MessageInductive, PTL

\* What Marshal has written is, read by the schema, the struct as it was.
THEOREM SentIsRead == Spec => []PeerReads
<1>1. MessageInv => PeerReads
  <2> SUFFICES ASSUME MessageInv, sent # NIL
               PROVE  Merge("schema", kind, New(kind), sent.wire) = sent.object
    BY DEF PeerReads
  <2>1. kind \in DOMAIN Messages
    BY DEF MessageInv, TypeOK
  <2>2. /\ IsObject(kind, sent.object)
        /\ sent.wire = Encode("go", kind, sent.object)
    BY DEF MessageInv, SentWasWritten
  <2> QED
    BY <2>1, <2>2, WireRoundTrip DEF Sides
<1> QED
  BY <1>1, MessageInductive, PTL
=============================================================================
