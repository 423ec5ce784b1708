---------------------------- MODULE MCCodecLink ----------------------------
(***************************************************************************)
(* Messages for CodecLink.  Every field takes the values where its         *)
(* encoding changes: the empty string, a string longer than one octet can  *)
(* count, one longer than two octets can count where the length has four,  *)
(* messages just over the cut, the smallest and largest integers, both     *)
(* result codes.                                                           *)
(***************************************************************************)
EXTENDS CodecLink, FiniteSetsExt, TLC

Text(n) == [i \in 1 .. n |-> (i * 7) % Octets]

MsgValues(name) ==
  IF name = "BranchRollbackResponse"
  THEN {<<>>, Text(MaxInt8), Text(2 * MaxInt8 + 1)}
  ELSE IF name \in ShortMsg
       THEN {<<>>, Text(MaxInt8), Text(2 * MaxInt8 + 2)}
       ELSE {<<>>, Text(MaxInt16 + 1)}

\* The constants of a field that has some.
Constants(f) ==
  LET values(r) == {r[c] : c \in DOMAIN r} IN
  CASE f = "BranchType" -> values(BranchType)
    [] f \in {"Status", "BranchStatus"} -> values(BranchStatus)
    [] f = "GlobalStatus" -> values(GlobalStatus)
    [] OTHER -> {}

FieldValues(name, f) ==
  CASE f = "Msg" -> MsgValues(name)
    [] f \in FreeText -> {<<1>>, Text(Octets * Octets)}
    [] f \in Names -> {<<>>, Text(Octets)}
    [] f \in BooleanFields -> BOOLEAN
    [] f = "BranchId" -> {-2147483647, -1, 0, 2147483647}
    [] f = "BranchType" -> {BranchType.Unknow, BranchType.XA}
    [] f = "ResultCode" -> {ResultCodeFailed, ResultCodeSuccess}
    [] f = "Timeout" -> {0, Millisecond - 1, 60 * Millisecond,
                         60 * Millisecond + 1}
    [] f = "SaveDays" -> {7}
    [] f \in {"Status", "BranchStatus", "GlobalStatus"} ->
         {CHOOSE c \in Constants(f) : \A d \in Constants(f) : d <= c}
    [] f = "TransactionErrorCode" -> {0, 3}

Extend(name, f, partial) ==
  {v @@ (f :> x) : v \in partial, x \in FieldValues(name, f)}

Values(name) ==
  FoldSet(LAMBDA f, partial : Extend(name, f, partial),
          {<<>>}, Messages[name].fields)

Sent(names, pointers) ==
  UNION {{[name |-> n, value |-> v, pointer |-> p] :
            v \in Values(n), p \in pointers} : n \in names}

\* The codec Init leaves out.
MCNoExtra == <<>>
MCReportRequest == <<GlobalReportRequestCodec>>

AllNames == DOMAIN RequestMessages \cup DOMAIN ResponseMessages

\* The zero message but for one field, which is one of its constants.
EveryConstant(name) ==
  {[Zero(name) EXCEPT ![f] = c] : <<f, c>> \in
     UNION {{f} \X Constants(f) : f \in Messages[name].fields}}

\* Every request and every response, in all its values.
MCEveryMessage ==
  Sent(AllNames, {FALSE}) \cup
  UNION {{[name |-> n, value |-> v, pointer |-> FALSE] :
            v \in EveryConstant(n)} : n \in AllNames}

\* A few messages, by value and by pointer, for the races with Init: types
\* registered first, in the middle and last, strict and lenient, and one
\* that Init does not register.
MCFewMessages ==
  {[name |-> n, value |-> Zero(n), pointer |-> p] :
     n \in {"GlobalReportResponse", "BranchReportResponse",
            "RegisterTMResponse", "GlobalReportRequest"},
     p \in BOOLEAN}
  \cup {[name |-> "BranchReportResponse",
         value |-> [ResultCode |-> 1, Msg |-> <<>>,
                    TransactionErrorCode |-> 3],
         pointer |-> TRUE]}

\* The messages of global reports.
MCReports ==
  {[name |-> n, value |-> Zero(n), pointer |-> FALSE] :
     n \in {"GlobalReportRequest", "GlobalReportResponse"}}

\* Timeouts around zero, and around the end of a uint32 of milliseconds, and
\* strings around the end of their length prefix (small octets).
Timeouts ==
  LET wrap == Octets * Octets * Octets * Octets * Millisecond IN
  {[name |-> "GlobalBeginRequest",
    value |-> [Timeout |-> t, TransactionName |-> <<1>>], pointer |-> FALSE] :
     t \in (-20 .. 40) \cup ((wrap - 20) .. (wrap + 20))}

\* One long string in a message that is empty otherwise.
LongStrings ==
  UNION {{[name |-> n,
           value |-> [Zero(n) EXCEPT ![f] = Text(length)],
           pointer |-> FALSE] :
            f \in Messages[n].fields \cap StringFields,
            length \in {Octets - 1, Octets, Octets^2 - 1, Octets^2}} :
         n \in AllNames}

MCLimits == Timeouts \cup LongStrings

\* Failed rollbacks whose message is as long as one octet counts, and longer.
MCRollbacks ==
  {[name |-> "BranchRollbackResponse",
    value |-> [ResultCode |-> ResultCodeFailed, Msg |-> Text(n),
               TransactionErrorCode |-> 0, Xid |-> <<1, 2>>, BranchId |-> 5,
               BranchStatus |-> 10],
    pointer |-> FALSE] : n \in {6, Octets - 1, Octets}}
=============================================================================
