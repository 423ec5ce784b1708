----------------------------- MODULE ByteBuffer -----------------------------
(***************************************************************************)
(* The byte buffer of seata-go/pkg/util/bytes, which is not part of this   *)
(* repository, as the codecs use it: big-endian integers of a fixed width  *)
(* and strings behind a length of 1, 2 or 4 octets.  A string or []byte is *)
(* the sequence of its octets.                                             *)
(***************************************************************************)
EXTENDS Integers, Sequences

CONSTANT Octets   \* values of an octet: 256 in the program

ASSUME OctetsAssumption == Octets \in Nat /\ Octets >= 2 /\ Octets % 2 = 0

Octet == 0 .. Octets - 1

\* n without its low octet, without its two low octets, and so on.
Quotients(w, n) ==
  LET quotient[i \in 0 .. w] ==
        IF i = 0 THEN n ELSE quotient[i - 1] \div Octets
  IN  quotient

\* The low w octets of the two's complement of n, high octet first: what
\* WriteByte, WriteUint16, WriteUint32 and WriteInt64 append after the Go
\* conversion to that width.
Integer(w, n) == [i \in 1 .. w |-> Quotients(w, n)[w - i] % Octets]

\* ReadByte, ReadUInt16, ReadUInt32 of the octets b; and the same followed by
\* a conversion to a signed type.
BigEndian(start, b) ==
  LET value[i \in 0 .. Len(b)] ==
        IF i = 0 THEN start ELSE value[i - 1] * Octets + b[i]
  IN  value[Len(b)]

UnsignedOf(b) == BigEndian(0, b)
SignedOf(b) == BigEndian(IF b[1] >= Octets \div 2 THEN -1 ELSE 0, b)

\* An unsigned, a signed integer of w octets.
FitsUnsigned(w, n) == n >= 0 /\ Quotients(w, n)[w] = 0
FitsSigned(w, n) ==
  Quotients(w, n)[w - 1] \in -(Octets \div 2) .. (Octets \div 2) - 1

\* WriteString8Length (w = 1), WriteString16Length (2), WriteString32Length
\* (4): the length is converted to the prefix's width, all octets follow.
LengthPrefixed(w, s) == Integer(w, Len(s)) \o s

\* A buffer being read: ok turns FALSE when a read asks for more than is
\* left (what the library then returns is not visible in this repository).
Buffer(b) == [octets |-> b, ok |-> TRUE]

CanRead(buf, n) == buf.ok /\ n <= Len(buf.octets)

Peek(buf, n) == SubSeq(buf.octets, 1, n)

Skip(buf, n) ==
  [octets |-> SubSeq(buf.octets, n + 1, Len(buf.octets)),
   ok |-> CanRead(buf, n)]
=============================================================================
