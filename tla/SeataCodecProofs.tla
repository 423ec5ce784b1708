--------------------------- MODULE SeataCodecProofs ---------------------------
(***************************************************************************)
(* Two layouts that agree undo each other: what Decode makes of the octets *)
(* Encode wrote is the message, for every message its layout has room for, *)
(* every size of an octet and every layout.                                *)
(***************************************************************************)
EXTENDS SeataCodec, ByteBufferProofs

Kinds == {"unsigned", "signed", "string", "flag", "millis", "failedMsg"}

\* An item of Encode and the item of Decode that reads it.
Matches(x, y) ==
  /\ x.kind \in Kinds /\ x.width \in Nat \ {0}
  /\ y.kind = x.kind /\ y.width = x.width /\ y.field = x.field

\* Whether an item is written at all.
Written(m, x) == x.kind = "failedMsg" => m.ResultCode = ResultCodeFailed

\* What the item is for.
HasKind(m, x) ==
  /\ x.kind \in {"unsigned", "signed"} => m[x.field] \in Int
  /\ x.kind = "string" => m[x.field] \in Seq(Octet)
  /\ x.kind = "flag" => m[x.field] \in BOOLEAN
  /\ x.kind = "millis" => Quotient(m[x.field], Millisecond) \in Int
  /\ x.kind = "failedMsg" => Cut(m[x.field], x.max) \in Seq(Octet)

\* What the item has room for.
HasRoom(m, x) ==
  /\ HasKind(m, x)
  /\ x.kind = "unsigned" => FitsUnsigned(x.width, m[x.field])
  /\ x.kind = "signed" => FitsSigned(x.width, m[x.field])
  /\ x.kind = "string" => FitsUnsigned(x.width, Len(m[x.field]))
  /\ x.kind = "millis" =>
       FitsUnsigned(x.width, Quotient(m[x.field], Millisecond))
  /\ x.kind = "failedMsg" /\ m.ResultCode = ResultCodeFailed =>
       FitsUnsigned(x.width, Len(Cut(m[x.field], x.max)))

\* What arrives of an item that is written.
Carried(m, x) ==
  CASE x.kind = "millis" -> Quotient(m[x.field], Millisecond) * Millisecond
    [] x.kind = "failedMsg" -> Cut(m[x.field], x.max)
    [] OTHER -> m[x.field]

Filled(msg, field, value) == [msg EXCEPT ![field] = value]

\* The message once an item is read.
After(msg, m, x) ==
  IF Written(m, x) THEN Filled(msg, x.field, Carried(m, x)) ELSE msg

Reader(octets, msg) == [buf |-> Buffer(octets), msg |-> msg]

----------------------------------------------------------------------------
(* Reading what is in front.                                               *)

\* What is in front of a buffer is what is read, and the rest stays.
LEMMA FrontFacts ==
  ASSUME NEW a \in Seq(Octet), NEW rest \in Seq(Octet)
  PROVE  /\ CanRead(Buffer(a \o rest), Len(a))
         /\ Peek(Buffer(a \o rest), Len(a)) = a
         /\ Skip(Buffer(a \o rest), Len(a)) = Buffer(rest)
<1> DEFINE s == a \o rest
           n == Len(a)
           k == Len(rest)
<1>1. /\ s \in Seq(Octet) /\ Len(s) = n + k /\ n \in Nat /\ k \in Nat
      /\ \A i \in 1 .. n + k : s[i] = IF i <= n THEN a[i] ELSE rest[i - n]
  BY ConcatProperties
<1>2. SubSeq(s, 1, n) = a
  <2> DEFINE t == SubSeq(s, 1, n)
  <2> HIDE DEF s
  <2>1. \A i \in 1 .. n : s[i] \in Octet
    BY <1>1
  <2>2. t \in Seq(Octet) /\ Len(t) = n /\ \A i \in 1 .. n : t[i] = s[i]
    <3>1. /\ t \in Seq(Octet)
          /\ Len(t) = IF 1 <= n THEN n - 1 + 1 ELSE 0
          /\ \A i \in 1 .. n - 1 + 1 : t[i] = s[1 + i - 1]
      BY <1>1, <2>1, SubSeqProperties
    <3> HIDE DEF t, n
    <3> QED
      BY <1>1, <3>1
  <2>3. \A i \in 1 .. n : t[i] = a[i]
    BY <1>1, <2>2
  <2> HIDE DEF t
  <2>4. t = a
    BY <2>2, <2>3, SeqEqual
  <2> QED
    BY <2>4 DEF t
<1>3. SubSeq(s, n + 1, Len(s)) = rest
  <2> DEFINE t == SubSeq(s, n + 1, n + k)
  <2> HIDE DEF s
  <2>1. \A i \in n + 1 .. n + k : s[i] \in Octet
    BY <1>1
  <2>2. t \in Seq(Octet) /\ Len(t) = k /\ \A i \in 1 .. k : t[i] = s[n + i]
    <3>1. /\ t \in Seq(Octet)
          /\ Len(t) = IF n + 1 <= n + k THEN n + k - (n + 1) + 1 ELSE 0
          /\ \A i \in 1 .. n + k - (n + 1) + 1 : t[i] = s[n + 1 + i - 1]
      BY <1>1, <2>1, SubSeqProperties
    <3> HIDE DEF t, n, k
    <3> QED
      BY <1>1, <3>1
  <2>3. \A i \in 1 .. k : t[i] = rest[i]
    <3> SUFFICES ASSUME NEW i \in 1 .. k PROVE t[i] = rest[i]
      OBVIOUS
    <3>1. t[i] = s[n + i]
      BY <2>2
    <3>2. n + i \in 1 .. n + k /\ ~(n + i <= n) /\ (n + i) - n = i
      <4> HIDE DEF n, k
      <4> QED
        BY <1>1
    <3> HIDE DEF t, n, k
    <3> QED
      BY <1>1, <3>1, <3>2
  <2> HIDE DEF t
  <2>4. t = rest
    BY <2>2, <2>3, SeqEqual
  <2> QED
    BY <1>1, <2>4 DEF t
<1> HIDE DEF s, n, k
<1>4. CanRead(Buffer(s), n) /\ Peek(Buffer(s), n) = a
      /\ Skip(Buffer(s), n) = Buffer(rest)
  <2>1. n <= Len(s)
    BY <1>1
  <2>2. CanRead(Buffer(s), n) /\ Peek(Buffer(s), n) = a
    BY <1>2, <2>1 DEF Buffer, CanRead, Peek
  <2>3. Skip(Buffer(s), n) = [octets |-> SubSeq(s, n + 1, Len(s)),
                              ok |-> CanRead(Buffer(s), n)]
    BY DEF Buffer, Skip
  <2> QED
    BY <1>3, <2>2, <2>3 DEF Buffer
<1> QED
  BY <1>4 DEF s, n

\* ReadOctets of octets that are in front.
LEMMA ReadOctetsFront ==
  ASSUME NEW a \in Seq(Octet), NEW rest \in Seq(Octet), NEW msg, NEW field,
         NEW value
  PROVE  ReadOctets(Reader(a \o rest, msg), Len(a), field, value) =
           Reader(rest, Filled(msg, field, value))
  BY FrontFacts DEF ReadOctets, Reader, Filled

\* ReadString of a string that LengthPrefixed wrote.
LEMMA ReadStringFront ==
  ASSUME NEW w \in Nat, NEW s \in Seq(Octet), FitsUnsigned(w, Len(s)),
         NEW rest \in Seq(Octet), NEW msg, NEW field
  PROVE  ReadString(Reader(LengthPrefixed(w, s) \o rest, msg), w, field) =
           Reader(rest, Filled(msg, field, s))
<1> DEFINE prefix == Integer(w, Len(s))
<1>1. Len(s) \in Int /\ Len(s) \in Nat
  OBVIOUS
<1>2. prefix \in Seq(Octet) /\ Len(prefix) = w /\ UnsignedOf(prefix) = Len(s)
  BY <1>1, IntegerFacts, UnsignedRoundTrip
<1> HIDE DEF prefix
<1>3. s \o rest \in Seq(Octet)
  BY ConcatProperties
<1>4. LengthPrefixed(w, s) \o rest = prefix \o (s \o rest)
  BY <1>2, ConcatAssociative DEF LengthPrefixed, prefix
<1> DEFINE buf == Buffer(prefix \o (s \o rest))
<1>5. /\ CanRead(buf, w) /\ Peek(buf, w) = prefix
      /\ Skip(buf, w) = Buffer(s \o rest)
  BY <1>2, <1>3, FrontFacts
<1>6. Peek(Buffer(s \o rest), Len(s)) = s
  BY FrontFacts
<1> HIDE DEF buf
<1>7. Reader(LengthPrefixed(w, s) \o rest, msg) = [buf |-> buf, msg |-> msg]
  BY <1>4 DEF Reader, buf
<1>8. ReadString([buf |-> buf, msg |-> msg], w, field) =
        ReadOctets(Reader(s \o rest, msg), Len(s), field, s)
  BY <1>2, <1>5, <1>6 DEF ReadString, Reader
<1>9. ReadOctets(Reader(s \o rest, msg), Len(s), field, s) =
        Reader(rest, Filled(msg, field, s))
  BY ReadOctetsFront
<1> QED
  BY <1>7, <1>8, <1>9

----------------------------------------------------------------------------
(* One item.                                                               *)

\* A boolean fits an integer of any width.
LEMMA FlagFits ==
  ASSUME NEW w \in Nat \ {0}
  PROVE  FitsUnsigned(w, 0) /\ FitsUnsigned(w, 1)
<1>1. ASSUME NEW n \in {0, 1} PROVE Quotients(w, n)[w] = 0
  <2> DEFINE q == Quotients(w, n)
             S == {i \in 0 .. w : i > 0 => q[i] = 0}
  <2>1. n \in Int
    OBVIOUS
  <2>2. q[0] = n /\ \A i \in 1 .. w : q[i] = q[i - 1] \div Octets
    BY <2>1, QuotientsFacts
  <2> HIDE DEF q
  <2>3. 0 \in S
    OBVIOUS
  <2>4. ASSUME NEW k \in 0 .. w - 1, k \in S PROVE k + 1 \in S
    <3>1. q[k + 1] = q[k] \div Octets /\ q[k] \in {0, 1}
      BY <2>2, <2>4
    <3> QED
      BY <3>1, OctetsAssumption
  <2> HIDE DEF S
  <2>5. \A k \in 0 .. w : k \in S
    BY <2>3, <2>4, RangeInduction
  <2> QED
    BY <2>5 DEF S, q
<1> QED
  BY <1>1 DEF FitsUnsigned

\* Encode writes octets of every item.
LEMMA EncodeItemType ==
  ASSUME NEW m, NEW x, x.kind \in Kinds, x.width \in Nat \ {0}, HasKind(m, x)
  PROVE  EncodeItem(m, x) \in Seq(Octet)
<1>1. ASSUME NEW s \in Seq(Octet) PROVE LengthPrefixed(x.width, s) \in Seq(Octet)
  <2>1. Len(s) \in Int
    OBVIOUS
  <2>2. Integer(x.width, Len(s)) \in Seq(Octet)
    BY <2>1, IntegerFacts
  <2> QED
    BY <2>2, ConcatProperties DEF LengthPrefixed
<1>2. <<>> \in Seq(Octet)
  OBVIOUS
<1> QED
  BY <1>1, <1>2, IntegerFacts DEF EncodeItem, HasKind, Kinds

\* An item is read as it was written, and what follows it is left.
LEMMA ItemRoundTrip ==
  ASSUME NEW m, NEW x, NEW y, Matches(x, y), HasRoom(m, x),
         NEW msg, x.kind = "failedMsg" => msg.ResultCode = m.ResultCode,
         NEW rest \in Seq(Octet)
  PROVE  DecodeItem(Reader(EncodeItem(m, x) \o rest, msg), y) =
           Reader(rest, After(msg, m, x))
<1> DEFINE v == m[x.field]
           w == x.width
           Given(a) == Reader(a \o rest, msg)
           Result(value) == Reader(rest, Filled(msg, x.field, value))
<1>0. w \in Nat \ {0} /\ w \in Nat /\ y.width = w /\ y.field = x.field
      /\ y.kind = x.kind /\ x.kind \in Kinds
  BY DEF Matches
<1>a. /\ Written(m, x) => After(msg, m, x) = Filled(msg, x.field, Carried(m, x))
      /\ ~Written(m, x) => After(msg, m, x) = msg
  BY DEF After
<1>1. ASSUME NEW n \in Int, NEW value
      PROVE  /\ Peek(Given(Integer(w, n)).buf, w) = Integer(w, n)
             /\ ReadOctets(Given(Integer(w, n)), w, x.field, value) = Result(value)
  <2> DEFINE a == Integer(w, n)
  <2>1. a \in Seq(Octet) /\ Len(a) = w
    BY <1>0, IntegerFacts
  <2> HIDE DEF a
  <2>2. Peek(Given(a).buf, w) = a
    BY <2>1, FrontFacts DEF Reader
  <2>3. ReadOctets(Given(a), w, x.field, value) = Result(value)
    BY <2>1, ReadOctetsFront
  <2> QED
    BY <2>2, <2>3 DEF a
<1>2. CASE x.kind = "unsigned"
  <2>1. v \in Int /\ UnsignedOf(Integer(w, v)) = v
    BY <1>0, <1>2, UnsignedRoundTrip DEF HasRoom, HasKind
  <2>2. EncodeItem(m, x) = Integer(w, v) /\ Written(m, x) /\ Carried(m, x) = v
    BY <1>2 DEF EncodeItem, Written, Carried
  <2>3. DecodeItem(Given(Integer(w, v)), y) = Result(v)
    BY <1>0, <1>1, <1>2, <2>1 DEF DecodeItem
  <2> QED
    BY <1>a, <2>2, <2>3
<1>3. CASE x.kind = "signed"
  <2>1. v \in Int /\ SignedOf(Integer(w, v)) = v
    BY <1>0, <1>3, SignedRoundTrip DEF HasRoom, HasKind
  <2>2. EncodeItem(m, x) = Integer(w, v) /\ Written(m, x) /\ Carried(m, x) = v
    BY <1>3 DEF EncodeItem, Written, Carried
  <2>3. DecodeItem(Given(Integer(w, v)), y) = Result(v)
    BY <1>0, <1>1, <1>3, <2>1 DEF DecodeItem
  <2> QED
    BY <1>a, <2>2, <2>3
<1>4. CASE x.kind = "string"
  <2>1. v \in Seq(Octet) /\ FitsUnsigned(w, Len(v))
    BY <1>4 DEF HasRoom, HasKind
  <2>2. EncodeItem(m, x) = LengthPrefixed(w, v) /\ Written(m, x)
        /\ Carried(m, x) = v
    BY <1>4 DEF EncodeItem, Written, Carried
  <2>3. DecodeItem(Given(LengthPrefixed(w, v)), y) =
          ReadString(Given(LengthPrefixed(w, v)), w, x.field)
    BY <1>0, <1>4 DEF DecodeItem
  <2>4. ReadString(Given(LengthPrefixed(w, v)), w, x.field) = Result(v)
    BY <1>0, <2>1, ReadStringFront
  <2> QED
    BY <1>a, <2>2, <2>3, <2>4
<1>5. CASE x.kind = "flag"
  <2> DEFINE n == IF v THEN 1 ELSE 0
  <2>1. v \in BOOLEAN
    BY <1>5 DEF HasRoom, HasKind
  <2>2. n \in Int /\ UnsignedOf(Integer(w, n)) = n
    BY <1>0, FlagFits, UnsignedRoundTrip
  <2>3. (UnsignedOf(Integer(w, n)) = 1) = v
    BY <2>1, <2>2
  <2>4. EncodeItem(m, x) = Integer(w, n) /\ Written(m, x) /\ Carried(m, x) = v
    BY <1>5 DEF EncodeItem, Written, Carried
  <2> HIDE DEF n
  <2>5. DecodeItem(Given(Integer(w, n)), y) =
          ReadOctets(Given(Integer(w, n)), w, x.field,
                     UnsignedOf(Integer(w, n)) = 1)
    BY <1>0, <1>1, <1>5, <2>2 DEF DecodeItem
  <2> QED
    BY <1>1, <1>a, <2>2, <2>3, <2>4, <2>5
<1>6. CASE x.kind = "millis"
  <2> DEFINE n == Quotient(v, Millisecond)
  <2>1. n \in Int /\ UnsignedOf(Integer(w, n)) = n
    BY <1>0, <1>6, UnsignedRoundTrip DEF HasRoom, HasKind
  <2>2. EncodeItem(m, x) = Integer(w, n) /\ Written(m, x)
        /\ Carried(m, x) = n * Millisecond
    BY <1>6 DEF EncodeItem, Written, Carried
  <2> HIDE DEF n
  <2>3. DecodeItem(Given(Integer(w, n)), y) = Result(n * Millisecond)
    BY <1>0, <1>1, <1>6, <2>1 DEF DecodeItem, Duration
  <2> QED
    BY <1>a, <2>2, <2>3
<1>7. CASE x.kind = "failedMsg" /\ m.ResultCode = ResultCodeFailed
  <2> DEFINE s == Cut(v, x.max)
  <2>1. s \in Seq(Octet) /\ FitsUnsigned(w, Len(s))
    BY <1>7 DEF HasRoom, HasKind
  <2>2. EncodeItem(m, x) = LengthPrefixed(w, s) /\ Written(m, x)
        /\ Carried(m, x) = s
    BY <1>7 DEF EncodeItem, Written, Carried
  <2> HIDE DEF s
  <2>3. DecodeItem(Given(LengthPrefixed(w, s)), y) =
          ReadString(Given(LengthPrefixed(w, s)), w, x.field)
    BY <1>0, <1>7 DEF DecodeItem, Reader
  <2>4. ReadString(Given(LengthPrefixed(w, s)), w, x.field) = Result(s)
    BY <1>0, <2>1, ReadStringFront
  <2> QED
    BY <1>a, <2>2, <2>3, <2>4
<1>8. CASE x.kind = "failedMsg" /\ m.ResultCode # ResultCodeFailed
  <2>1. EncodeItem(m, x) = <<>> /\ ~Written(m, x)
    BY <1>8 DEF EncodeItem, Written
  <2>2. <<>> \o rest = rest
    BY ConcatEmptySeq
  <2>3. DecodeItem(Reader(rest, msg), y) = Reader(rest, msg)
    BY <1>0, <1>8 DEF DecodeItem, Reader
  <2> QED
    BY <1>a, <2>1, <2>2, <2>3
<1> QED
  BY <1>0, <1>2, <1>3, <1>4, <1>5, <1>6, <1>7, <1>8 DEF Kinds

----------------------------------------------------------------------------
(* A layout.                                                               *)

\* The octets of no item, of the first, of the first two, and so on.
IsBody(body, layout, m) ==
  /\ body \in [0 .. Len(layout) -> Seq(Octet)]
  /\ body[0] = <<>>
  /\ \A i \in 1 .. Len(layout) : body[i] = body[i - 1] \o EncodeItem(m, layout[i])

\* EncodeBody is what its equations say, item by item.
LEMMA EncodeBodyFacts ==
  ASSUME NEW layout, Len(layout) \in Nat, NEW m,
         \A i \in 1 .. Len(layout) : EncodeItem(m, layout[i]) \in Seq(Octet)
  PROVE  \E body : /\ IsBody(body, layout, m)
                   /\ EncodeBody(layout, m) = body[Len(layout)]
<1> DEFINE n == Len(layout)
           A == Seq(Octet)
           item(i) == EncodeItem(m, layout[i])
           step == [i \in 1 .. n |-> [b \in A |-> b \o item(i)]]
           v == CHOOSE f : f = [i \in 0 .. n |-> IF i = 0 THEN <<>>
                                     ELSE f[i - 1] \o item(i)]
<1>1. \A i \in 1 .. n : item(i) \in A
  OBVIOUS
<1>2. EncodeBody(layout, m) = v[n]
  BY DEF EncodeBody
<1>3. n \in Nat /\ <<>> \in A /\ \A b, c \in A : b \o c \in A
  BY ConcatProperties
<1> HIDE DEF A, item, n
<1>4. step \in Steps(n, A)
  BY <1>1, <1>3 DEF Steps
<1>5. \E f : IsRecursion(f, n, A, <<>>, step)
  <2> HIDE DEF step
  <2> QED
    BY <1>3, <1>4, RecursionExists
<1>6. PICK f : IsRecursion(f, n, A, <<>>, step)
  BY <1>5
<1>7. \A i \in 0 .. n : f[i] = IF i = 0 THEN <<>> ELSE f[i - 1] \o item(i)
  <2>1. \A i \in 1 .. n : f[i - 1] \in A /\ f[i] = step[i][f[i - 1]]
    <3> HIDE DEF step
    <3> QED
      BY <1>3, <1>6 DEF IsRecursion
  <2>2. \A i \in 1 .. n : f[i] = f[i - 1] \o item(i)
    BY <2>1
  <2> HIDE DEF step
  <2> QED
    BY <1>3, <1>6, <2>2 DEF IsRecursion
<1>8. f = [i \in 0 .. n |-> IF i = 0 THEN <<>> ELSE f[i - 1] \o item(i)]
  <2> HIDE DEF step
  <2> QED
    BY <1>6, <1>7 DEF IsRecursion
<1>9. v = [i \in 0 .. n |-> IF i = 0 THEN <<>> ELSE v[i - 1] \o item(i)]
  BY <1>8
<1> HIDE DEF v, step
<1>10. \A i \in 0 .. n : v[i] = IF i = 0 THEN <<>> ELSE v[i - 1] \o item(i)
  BY <1>9, Zenon
<1>11. v[0] = <<>> /\ \A i \in 1 .. n : v[i] = v[i - 1] \o item(i)
  <2>1. 0 \in 0 .. n /\ \A i \in 1 .. n : i \in 0 .. n /\ i # 0
    BY <1>3
  <2> QED
    BY <1>10, <2>1
<1> DEFINE S == {k \in 0 .. n : v[k] \in A}
<1>12. 0 \in S
  BY <1>3, <1>11
<1>13. ASSUME NEW k \in 0 .. n - 1, k \in S PROVE k + 1 \in S
  <2>0. k + 1 \in 1 .. n /\ k + 1 \in 0 .. n /\ (k + 1) - 1 = k
    BY <1>3
  <2>1. v[k + 1] = v[k] \o item(k + 1) /\ item(k + 1) \in A
    BY <1>1, <1>11, <2>0
  <2> QED
    BY <1>3, <1>13, <2>0, <2>1
<1> HIDE DEF S
<1>14. \A k \in 0 .. n : k \in S
  BY <1>3, <1>12, <1>13, RangeInduction
<1>15. v \in [0 .. n -> A]
  BY <1>9, <1>14 DEF S
<1>16. IsBody(v, layout, m)
  BY <1>11, <1>15 DEF IsBody, n, A, item
<1> QED
  BY <1>2, <1>16 DEF n

\* What the reader is after no item, after the first, and so on.
IsReading(reader, layout, zero, b) ==
  /\ reader[0] = Reader(b, zero)
  /\ \A i \in 1 .. Len(layout) : reader[i] = DecodeItem(reader[i - 1], layout[i])

\* So is DecodeBody, whatever octets it is given.
LEMMA DecodeBodyFacts ==
  ASSUME NEW layout, Len(layout) \in Nat, NEW zero, NEW b
  PROVE  \E reader : /\ IsReading(reader, layout, zero, b)
                     /\ DecodeBody(layout, zero, b) = reader[Len(layout)]
<1> DEFINE n == Len(layout)
           r == Reader(b, zero)
           Next(i, x) == DecodeItem(x, layout[i])
           S == {k \in Nat : \E f : f = [i \in 0 .. k |-> IF i = 0 THEN r
                                          ELSE Next(i, f[i - 1])]}
           v == CHOOSE f : f = [i \in 0 .. n |-> IF i = 0 THEN r
                                          ELSE Next(i, f[i - 1])]
<1>1. DecodeBody(layout, zero, b) = v[n]
  BY DEF DecodeBody, Reader
<1> HIDE DEF Next, r
<1>2. 0 \in S
  <2> DEFINE f == [i \in 0 .. 0 |-> r]
  <2>1. f = [i \in 0 .. 0 |-> IF i = 0 THEN r ELSE Next(i, f[i - 1])]
    OBVIOUS
  <2> HIDE DEF f
  <2> QED
    BY <2>1
<1>3. ASSUME NEW k \in Nat, k \in S PROVE k + 1 \in S
  <2>1. PICK f : f = [i \in 0 .. k |-> IF i = 0 THEN r ELSE Next(i, f[i - 1])]
    BY <1>3
  <2>2. \A i \in 0 .. k : f[i] = IF i = 0 THEN r ELSE Next(i, f[i - 1])
    BY <2>1, Zenon
  <2> DEFINE g == [i \in 0 .. k + 1 |->
                     IF i <= k THEN f[i] ELSE Next(k + 1, f[k])]
  <2>3. ASSUME NEW i \in 0 .. k + 1
        PROVE  g[i] = IF i = 0 THEN r ELSE Next(i, g[i - 1])
    <3>1. CASE i = 0
      BY <2>2, <3>1
    <3>2. CASE i # 0 /\ i <= k
      <4>1. g[i] = f[i] /\ g[i - 1] = f[i - 1]
        BY <3>2
      <4>2. f[i] = Next(i, f[i - 1])
        BY <2>2, <3>2
      <4> QED
        BY <3>2, <4>1, <4>2
    <3>3. CASE i = k + 1
      <4>1. g[i] = Next(i, f[k]) /\ g[i - 1] = f[k] /\ i # 0
        BY <3>3
      <4> QED
        BY <4>1
    <3> QED
      BY <3>1, <3>2, <3>3
  <2>4. g = [i \in 0 .. k + 1 |-> IF i = 0 THEN r ELSE Next(i, g[i - 1])]
    BY <2>3
  <2> HIDE DEF g
  <2> QED
    BY <2>4
<1> HIDE DEF S
<1>4. n \in S
  BY <1>2, <1>3, SetInduction
<1>5. v = [i \in 0 .. n |-> IF i = 0 THEN r ELSE Next(i, v[i - 1])]
  BY <1>4 DEF S
<1> HIDE DEF v
<1>6. \A i \in 0 .. n : v[i] = IF i = 0 THEN r ELSE Next(i, v[i - 1])
  BY <1>5, Zenon
<1>7. v[0] = r /\ \A i \in 1 .. n : v[i] = Next(i, v[i - 1])
  BY <1>6
<1>8. IsReading(v, layout, zero, b)
  BY <1>7 DEF IsReading, Next, r
<1> QED
  BY <1>1, <1>8

\* Encode's layout and Decode's name the same fields in the same order, each
\* field once, and the result code before the message that depends on it.
LayoutsAgree(encode, decode) ==
  /\ Len(encode) \in Nat /\ Len(decode) = Len(encode)
  /\ \A i \in 1 .. Len(encode) : Matches(encode[i], decode[i])
  /\ \A i, j \in 1 .. Len(encode) : encode[i].field = encode[j].field => i = j
  /\ \A i \in 1 .. Len(encode) :
       encode[i].kind = "failedMsg" =>
         \E j \in 1 .. i - 1 : encode[j].field = "ResultCode"
                               /\ encode[j].kind = "unsigned"

\* zero with the first n items filled in.
IsFilled(msg, n, layout, m, zero) ==
  /\ msg = [f \in DOMAIN zero |-> msg[f]]
  /\ \A i \in 1 .. n :
       Written(m, layout[i]) => msg[layout[i].field] = Carried(m, layout[i])
  /\ \A f \in DOMAIN zero :
       (\A i \in 1 .. n : Written(m, layout[i]) => layout[i].field # f)
         => msg[f] = zero[f]

\* One more item is filled in.
LEMMA FilledStep ==
  ASSUME NEW n \in Nat, NEW layout, NEW m, NEW zero, NEW msg,
         IsFilled(msg, n, layout, m, zero),
         layout[n + 1].field \in DOMAIN zero,
         \A i \in 1 .. n : layout[i].field # layout[n + 1].field
  PROVE  IsFilled(After(msg, m, layout[n + 1]), n + 1, layout, m, zero)
<1> DEFINE x == layout[n + 1]
<1>1. \A i \in 1 .. n + 1 : i \in 1 .. n \/ i = n + 1
  OBVIOUS
<1>2. \A i \in 1 .. n : i \in 1 .. n + 1
  OBVIOUS
<1>3. CASE ~Written(m, x)
  <2>1. After(msg, m, x) = msg
    BY <1>3 DEF After
  <2>2. IsFilled(msg, n + 1, layout, m, zero)
    BY <1>1, <1>2, <1>3 DEF IsFilled
  <2> QED
    BY <2>1, <2>2
<1>4. CASE Written(m, x)
  <2> DEFINE c == Carried(m, x)
             g == Filled(msg, x.field, c)
  <2>1. /\ msg = [f \in DOMAIN zero |-> msg[f]]
        /\ x.field \in DOMAIN zero
    BY DEF IsFilled
  <2> HIDE DEF c
  <2>2. /\ g = [f \in DOMAIN zero |-> g[f]]
        /\ \A f \in DOMAIN zero : g[f] = IF f = x.field THEN c ELSE msg[f]
    BY <2>1 DEF Filled
  <2>3. ASSUME NEW i \in 1 .. n + 1, Written(m, layout[i])
        PROVE  g[layout[i].field] = Carried(m, layout[i])
    <3>1. CASE i = n + 1
      BY <2>1, <2>2, <3>1 DEF c
    <3>2. CASE i \in 1 .. n
      <4>1. msg[layout[i].field] = Carried(m, layout[i])
            /\ layout[i].field # x.field
        BY <2>3, <3>2 DEF IsFilled
      <4>2. g[layout[i].field] = msg[layout[i].field]
        BY <2>1, <4>1 DEF Filled
      <4> QED
        BY <4>1, <4>2
    <3> QED
      BY <1>1, <3>1, <3>2
  <2>4. ASSUME NEW f \in DOMAIN zero,
               \A i \in 1 .. n + 1 : Written(m, layout[i]) => layout[i].field # f
        PROVE  g[f] = zero[f]
    <3>1. msg[f] = zero[f]
      BY <1>2, <2>4 DEF IsFilled
    <3>2. f # x.field
      BY <1>4, <2>4
    <3> QED
      BY <2>2, <3>1, <3>2
  <2> HIDE DEF g
  <2>5. IsFilled(g, n + 1, layout, m, zero)
    BY <2>2, <2>3, <2>4 DEF IsFilled
  <2> QED
    BY <1>4, <2>5 DEF g, c, After
<1> QED
  BY <1>3, <1>4

\* s is a and then b.
Joins(s, a, b) == s = a \o b

\* What s begins with.
Begins(s, front) == \E rest \in Seq(Octet) : Joins(s, front, rest)

\* Octets begin with themselves, and end there.
LEMMA BeginsItself ==
  ASSUME NEW s \in Seq(Octet)
  PROVE  Begins(s, s)
<1>1. s \o <<>> = s /\ <<>> \in Seq(Octet)
  BY ConcatEmptySeq
<1> QED
  BY <1>1 DEF Begins, Joins

\* What begins with a longer front begins with a shorter one.
LEMMA BeginsMore ==
  ASSUME NEW s, NEW a \in Seq(Octet), NEW c \in Seq(Octet), NEW b,
         Joins(b, a, c), Begins(s, b)
  PROVE  \E r, t \in Seq(Octet) : /\ Joins(s, b, r)
                                  /\ Joins(t, c, r)
                                  /\ Joins(s, a, t)
<1>1. PICK r \in Seq(Octet) : s = b \o r
  BY DEF Begins, Joins
<1> DEFINE t == c \o r
<1>2. (a \o c) \o r = a \o t
  BY ConcatAssociative
<1>3. t \in Seq(Octet)
  BY ConcatProperties
<1> HIDE DEF t
<1>4. s = a \o t
  BY <1>1, <1>2, Zenon DEF Joins
<1>5. t = c \o r
  BY DEF t
<1>6. Joins(s, b, r) /\ Joins(t, c, r) /\ Joins(s, a, t)
  BY <1>1, <1>4, <1>5, Zenon DEF Joins
<1> QED
  BY <1>3, <1>6, Zenon

\* The same, without what is left.
LEMMA BeginsLess ==
  ASSUME NEW s, NEW a \in Seq(Octet), NEW c \in Seq(Octet), NEW b,
         Joins(b, a, c), Begins(s, b)
  PROVE  Begins(s, a)
  BY BeginsMore DEF Begins

\* What is left behind a front begins with what follows in the front.
LEMMA BeginsRest ==
  ASSUME NEW s, NEW a \in Seq(Octet), NEW c \in Seq(Octet), NEW b,
         Joins(b, a, c), Begins(s, b),
         NEW rest \in Seq(Octet), Joins(s, a, rest)
  PROVE  \E r \in Seq(Octet) : Joins(s, b, r) /\ Joins(rest, c, r)
<1>1. PICK r \in Seq(Octet), t \in Seq(Octet) :
        Joins(s, b, r) /\ Joins(t, c, r) /\ Joins(s, a, t)
  BY BeginsMore
<1>2. a \o rest = a \o t
  BY <1>1, Zenon DEF Joins
<1>3. rest = t
  <2>1. \A u, v, w \in Seq(Octet) : u \o v = u \o w => v = w
    BY ConcatSimplifications
  <2> QED
    BY <1>2, <2>1
<1> QED
  BY <1>1, <1>3

\* A body begins with its first items, for any number of them.
LEMMA BodyBegins ==
  ASSUME NEW n \in Nat, NEW body, body[n] \in Seq(Octet),
         \A i \in 1 .. n : body[i - 1] \in Seq(Octet),
         \A i \in 1 .. n : \E c \in Seq(Octet) : Joins(body[i], body[i - 1], c)
  PROVE  \A i \in 0 .. n : Begins(body[n], body[i])
<1> DEFINE S == {k \in 0 .. n : Begins(body[n], body[n - k])}
<1>1. 0 \in S
  <2>1. Begins(body[n], body[n]) /\ n - 0 = n
    BY BeginsItself
  <2> QED
    BY <2>1
<1>2. ASSUME NEW k \in 0 .. n - 1, k \in S PROVE k + 1 \in S
  <2>1. Begins(body[n], body[n - k])
    BY <1>2
  <2> DEFINE j == n - k
  <2>2. j \in 1 .. n /\ n - (k + 1) = j - 1 /\ k + 1 \in 0 .. n
    OBVIOUS
  <2>3. Begins(body[n], body[j])
    BY <2>1
  <2> HIDE DEF j
  <2>4. PICK c \in Seq(Octet) : Joins(body[j], body[j - 1], c)
    BY <2>2
  <2>5. body[j - 1] \in Seq(Octet)
    BY <2>2
  <2>6. Begins(body[n], body[j - 1])
    BY <2>3, <2>4, <2>5, BeginsLess
  <2> QED
    BY <2>2, <2>6
<1> HIDE DEF S
<1>3. \A k \in 0 .. n : k \in S
  BY <1>1, <1>2, RangeInduction
<1>4. ASSUME NEW i \in 0 .. n PROVE Begins(body[n], body[i])
  <2>1. n - i \in 0 .. n /\ n - (n - i) = i
    OBVIOUS
  <2>2. n - i \in S
    BY <1>3, <2>1
  <2> QED
    BY <2>1, <2>2 DEF S
<1> QED
  BY <1>4

\* Layouts that agree undo each other: Decode reads what Encode wrote to the
\* last octet, and finds in every field what was put there.
THEOREM LayoutRoundTrip ==
  ASSUME NEW encode, NEW decode, LayoutsAgree(encode, decode),
         NEW m, \A i \in 1 .. Len(encode) : HasRoom(m, encode[i]),
         NEW zero, zero = [f \in DOMAIN zero |-> zero[f]],
         \A i \in 1 .. Len(encode) : encode[i].field \in DOMAIN zero
  PROVE  \E msg :
           /\ DecodeBody(decode, zero, EncodeBody(encode, m)) = Reader(<<>>, msg)
           /\ IsFilled(msg, Len(encode), encode, m, zero)
<1> DEFINE n == Len(encode)
           item(i) == EncodeItem(m, encode[i])
<1>1. n \in Nat /\ Len(decode) = n
  BY DEF LayoutsAgree
<1>2. \A i \in 1 .. n : item(i) \in Seq(Octet)
  BY EncodeItemType DEF LayoutsAgree, Matches, HasRoom
<1>3. PICK body : IsBody(body, encode, m) /\ EncodeBody(encode, m) = body[n]
  BY <1>1, <1>2, EncodeBodyFacts
<1>4. PICK reader : /\ IsReading(reader, decode, zero, body[n])
                    /\ DecodeBody(decode, zero, body[n]) = reader[n]
  BY <1>1, DecodeBodyFacts
<1> DEFINE all == body[n]
<1>5. /\ \A i \in 0 .. n : body[i] \in Seq(Octet)
      /\ body[0] = <<>>
      /\ \A i \in 1 .. n : body[i] = body[i - 1] \o item(i)
  BY <1>3 DEF IsBody
<1>6. /\ reader[0] = Reader(all, zero)
      /\ \A i \in 1 .. n : reader[i] = DecodeItem(reader[i - 1], decode[i])
  BY <1>1, <1>4 DEF IsReading
<1> HIDE DEF n, item
<1>7. \A i \in 0 .. n : Begins(all, body[i])
  <2>1. n \in 0 .. n /\ \A i \in 1 .. n : i \in 0 .. n /\ i - 1 \in 0 .. n
    BY <1>1
  <2>2. /\ \A i \in 1 .. n : body[i - 1] \in Seq(Octet)
        /\ \A i \in 1 .. n : \E c \in Seq(Octet) : Joins(body[i], body[i - 1], c)
    BY <1>2, <1>5, <2>1 DEF Joins
  <2>3. body[n] \in Seq(Octet)
    BY <1>5, <2>1
  <2> QED
    BY <1>1, <2>2, <2>3, BodyBegins
<1> DEFINE Left(i, rest, msg) ==
             /\ all = body[i] \o rest
             /\ reader[i] = Reader(rest, msg)
             /\ IsFilled(msg, i, encode, m, zero)
           S == {i \in 0 .. n :
                  \E rest \in Seq(Octet) : \E msg : Left(i, rest, msg)}
<1>8. 0 \in S
  <2>1. all \in Seq(Octet) /\ 0 \in 0 .. n
    BY <1>1, <1>5
  <2>2. all = body[0] \o all
    BY <1>5, <2>1, ConcatEmptySeq, Zenon
  <2>3. IsFilled(zero, 0, encode, m, zero)
    BY DEF IsFilled
  <2> HIDE DEF all
  <2>4. Left(0, all, zero)
    BY <1>6, <2>2, <2>3
  <2> HIDE DEF Left
  <2> QED
    BY <2>1, <2>4
<1>9. ASSUME NEW i \in 0 .. n - 1, i \in S PROVE i + 1 \in S
  <2> DEFINE j == i + 1
             x == encode[j]
  <2>0. PICK rest \in Seq(Octet) : \E msg : Left(i, rest, msg)
    BY <1>9
  <2>1. PICK msg : Left(i, rest, msg)
    BY <2>0
  <2>2. j \in 1 .. n /\ j - 1 = i /\ i \in Nat /\ j \in 0 .. n /\ i \in 0 .. n
        /\ n \in 0 .. n
    BY <1>1
  <2> HIDE DEF j
  <2>3. /\ item(j) \in Seq(Octet) /\ body[i] \in Seq(Octet)
        /\ body[j] = body[i] \o item(j) /\ all \in Seq(Octet)
        /\ Begins(all, body[j])
    BY <1>2, <1>5, <1>7, <2>2
  <2>4. PICK rest2 \in Seq(Octet) : /\ all = body[j] \o rest2
                                    /\ rest = item(j) \o rest2
    <3> HIDE DEF all
    <3>1. Joins(all, body[i], rest) /\ Joins(body[j], body[i], item(j))
      BY <2>1, <2>3 DEF Joins
    <3>2. \E r \in Seq(Octet) : Joins(all, body[j], r) /\ Joins(rest, item(j), r)
      BY <2>3, <3>1, BeginsRest
    <3> QED
      BY <3>2 DEF Joins
  <2>5. Matches(x, decode[j]) /\ HasRoom(m, x) /\ x.field \in DOMAIN zero
    BY <2>2 DEF LayoutsAgree, n
  <2>6. x.kind = "failedMsg" => msg.ResultCode = m.ResultCode
    <3>1. SUFFICES ASSUME x.kind = "failedMsg"
                   PROVE  msg.ResultCode = m.ResultCode
      OBVIOUS
    <3>2. PICK k \in 1 .. j - 1 : encode[k].field = "ResultCode"
                                  /\ encode[k].kind = "unsigned"
      BY <2>2, <3>1 DEF LayoutsAgree, n
    <3>3. Written(m, encode[k]) /\ Carried(m, encode[k]) = m.ResultCode
      BY <3>2 DEF Written, Carried
    <3>4. k \in 1 .. i
      BY <2>2
    <3> QED
      BY <2>1, <3>2, <3>3, <3>4 DEF IsFilled
  <2> DEFINE msg2 == After(msg, m, x)
  <2>7. reader[j] = Reader(rest2, msg2)
    <3>1. reader[j] = DecodeItem(reader[i], decode[j])
      BY <1>6, <2>2
    <3>2. reader[i] = Reader(item(j) \o rest2, msg)
      BY <2>1, <2>4
    <3> HIDE DEF x
    <3>3. DecodeItem(Reader(EncodeItem(m, x) \o rest2, msg), decode[j]) =
            Reader(rest2, msg2)
      BY <2>5, <2>6, ItemRoundTrip
    <3>4. item(j) = EncodeItem(m, x)
      BY DEF item, x
    <3> HIDE DEF msg2
    <3> QED
      BY <3>1, <3>2, <3>3, <3>4, Zenon
  <2>8. \A k \in 1 .. i : encode[k].field # x.field
    <3>1. \A k \in 1 .. i : k \in 1 .. n /\ k # j
      BY <1>1, <2>2
    <3> QED
      BY <2>2, <3>1 DEF LayoutsAgree, n
  <2>9. IsFilled(msg2, j, encode, m, zero)
    <3>1. j = i + 1
      BY DEF j
    <3>2. IsFilled(msg, i, encode, m, zero) /\ i \in Nat
      BY <2>1, <2>2
    <3>3. x = encode[i + 1]
      BY <3>1
    <3> HIDE DEF x
    <3>4. IsFilled(After(msg, m, encode[i + 1]), i + 1, encode, m, zero)
      BY <2>5, <2>8, <3>2, <3>3, FilledStep, Zenon
    <3> QED
      BY <3>1, <3>3, <3>4
  <2> HIDE DEF msg2, all
  <2>10. Left(j, rest2, msg2)
    BY <2>4, <2>7, <2>9
  <2> HIDE DEF Left
  <2>11. j \in S
    BY <2>2, <2>10
  <2> QED
    BY <2>11 DEF j
<1> HIDE DEF S
<1>10. n \in S
  <2>1. \A i \in 0 .. n : i \in S
    BY <1>1, <1>8, <1>9, RangeInduction
  <2> QED
    BY <1>1, <2>1
<1>10b. PICK rest \in Seq(Octet) : \E msg : Left(n, rest, msg)
  BY <1>10 DEF S
<1>11. PICK msg : Left(n, rest, msg)
  BY <1>10b
<1>12. rest = <<>>
  <2>1. body[n] \in Seq(Octet)
    BY <1>1, <1>5
  <2> QED
    BY <1>11, <2>1, ConcatSimplifications!idRight
<1> QED
  BY <1>3, <1>4, <1>11, <1>12 DEF n
=============================================================================
