--------------------------- MODULE GrpcStreamProofs ---------------------------
(***************************************************************************)
(* The generated stub implements DuplexStream, for any messages and any    *)
(* number of them.                                                         *)
(***************************************************************************)
EXTENDS GrpcStream, SequenceTheorems, TLAPS

StreamTypeOK ==
  /\ service \in Services
  /\ handler \in {"none", "running", "returned"}
  /\ status \in {"none", "OK", "Error", "Unimplemented"}
  /\ closed \in BOOLEAN
  /\ broken \in BOOLEAN
  /\ sent \in [End -> Seq(Value)]
  /\ channel \in [End -> Seq(Value)]
  /\ heap \in Seq(Value \cup {NewMessage})
  /\ receiving \in [End -> Nat]
  /\ held \in [End -> Seq(Nat)]
  /\ failed \in [End -> {"none", "EOF", "Unavailable", "Canceled",
                         "Error", "Unimplemented"}]

\* A struct that waits to be filled is in nobody's hands, so that filling it
\* changes no message returned before.
HeapInv ==
  /\ \A e \in End : \A i \in 1 .. Len(held[e]) : held[e][i] \in 1 .. Len(heap)
  /\ \A e \in End : receiving[e] \in 0 .. Len(heap)
  /\ \A e, f \in End : \A i \in 1 .. Len(held[e]) : held[e][i] # receiving[f]
  /\ receiving["client"] = receiving["server"] => receiving["client"] = 0

\* rest is all of s but its first n elements.
Follows(s, n, rest) ==
  /\ Len(s) = n + Len(rest)
  /\ \A i \in 1 .. Len(rest) : rest[i] = s[n + i]

\* What an end sent is what the other one sees, and then what is on its way.
QueueInv ==
  \A e \in End :
    /\ Follows(sent[Other(e)], Len(held[e]), channel[e])
    /\ \A i \in 1 .. Len(held[e]) : heap[held[e][i]] = sent[Other(e)][i]

\* There is no status before the handler has returned, and an end that was
\* given an error is not receiving any more.
EndInv ==
  /\ status # "none" => handler = "returned"
  /\ \A e \in End : failed[e] # "none" => receiving[e] = 0

StreamInv == StreamTypeOK /\ HeapInv /\ QueueInv /\ EndInv

\* A step of the call itself: no message moves.
CallStep ==
  /\ \/ SendRequest \/ Dispatch \/ Unimplemented \/ HandlerReturn
     \/ CloseSend \/ LoseConnection \/ UNCHANGED streamVars
  /\ UNCHANGED <<sendVars, recvVars>>

----------------------------------------------------------------------------
(* The invariant.                                                          *)

\* Adding to both ends keeps what follows.
LEMMA FollowsAppend ==
  ASSUME NEW S, NEW s \in Seq(S), NEW rest \in Seq(S), NEW n \in Nat,
         NEW v \in S, Follows(s, n, rest)
  PROVE  /\ Follows(Append(s, v), n, Append(rest, v))
         /\ \A i \in 1 .. n : Append(s, v)[i] = s[i]
<1> DEFINE m == Len(rest)
           s1 == Append(s, v)
           r1 == Append(rest, v)
<1>1. /\ m \in Nat /\ Len(s) = n + m
      /\ \A i \in 1 .. m : rest[i] = s[n + i]
  BY DEF Follows
<1>2. /\ Len(s1) = n + m + 1 /\ s1[n + m + 1] = v
      /\ \A i \in 1 .. n + m : s1[i] = s[i]
  BY <1>1
<1>3. /\ Len(r1) = m + 1 /\ r1[m + 1] = v
      /\ \A i \in 1 .. m : r1[i] = rest[i]
  OBVIOUS
<1> HIDE DEF m, s1, r1
<1>4. ASSUME NEW i \in 1 .. m + 1 PROVE r1[i] = s1[n + i]
  <2>1. CASE i \in 1 .. m
    <3>1. n + i \in 1 .. n + m
      BY <1>1, <2>1
    <3> QED
      BY <1>1, <1>2, <1>3, <2>1, <3>1
  <2>2. CASE i = m + 1
    <3>1. n + i = n + m + 1
      BY <1>1, <2>2
    <3> QED
      BY <1>2, <1>3, <2>2, <3>1
  <2> QED
    BY <1>1, <2>1, <2>2
<1>5. Len(s1) = n + Len(r1) /\ \A i \in 1 .. n : i \in 1 .. n + m
  BY <1>1, <1>2, <1>3
<1> QED
  BY <1>2, <1>3, <1>4, <1>5 DEF Follows, s1, r1

\* Taking the first of what follows.
LEMMA FollowsTail ==
  ASSUME NEW S, NEW s \in Seq(S), NEW rest \in Seq(S), NEW n \in Nat,
         Follows(s, n, rest), rest # <<>>
  PROVE  /\ Follows(s, n + 1, Tail(rest))
         /\ Head(rest) = s[n + 1]
<1> DEFINE m == Len(rest)
           t == Tail(rest)
<1>1. /\ m \in Nat /\ m > 0 /\ Len(s) = n + m
      /\ \A i \in 1 .. m : rest[i] = s[n + i]
  BY DEF Follows
<1>2. /\ Len(t) = m - 1
      /\ \A i \in 1 .. m - 1 : t[i] = rest[i + 1]
      /\ Head(rest) = rest[1]
  BY <1>1
<1> HIDE DEF m, t
<1>3. ASSUME NEW i \in 1 .. m - 1 PROVE t[i] = s[(n + 1) + i]
  <2>1. i + 1 \in 1 .. m /\ n + (i + 1) = (n + 1) + i
    BY <1>1
  <2> QED
    BY <1>1, <1>2, <2>1
<1>4. Len(s) = (n + 1) + Len(t) /\ 1 \in 1 .. m
  BY <1>1, <1>2
<1> QED
  BY <1>1, <1>2, <1>3, <1>4 DEF Follows, t

\* There are two ends.
LEMMA EndFacts == \A e \in End : Other(e) \in End /\ Other(e) # e
                                  /\ Other(Other(e)) = e
  BY DEF End, Other

\* The steps of a call, and those of each end.
LEMMA StreamSteps ==
  [Next]_streamVars =>
    CallStep \/ \E e \in End :
                  Send(e) \/ Recv(e) \/ RecvMessage(e) \/ RecvError(e)
  BY DEF Next, CallStep, SendRequest, Dispatch, Unimplemented, HandlerReturn,
         Finish, CloseSend, LoseConnection, streamVars

\* Which errors there are, and that none of them is "none".
LEMMA ErrorTypes ==
  ASSUME StreamTypeOK, EndInv, NEW e \in End
  PROVE  RecvErrors(e) \subseteq {"EOF", "Unavailable", "Canceled", "Error",
                                  "Unimplemented"}
  BY DEF StreamTypeOK, EndInv, RecvErrors, EndErrors

\* Every step keeps the types.
LEMMA StreamTypeStep ==
  StreamTypeOK /\ HeapInv /\ EndInv /\ [Next]_streamVars => StreamTypeOK'
<1> SUFFICES ASSUME StreamTypeOK, HeapInv, EndInv, [Next]_streamVars
             PROVE  StreamTypeOK'
  OBVIOUS
<1>1. CASE CallStep
  <2>1. UNCHANGED <<sent, channel, heap, receiving, held, failed>>
    BY <1>1 DEF CallStep, sendVars, recvVars
  <2>2. /\ service' = service
        /\ handler' \in {handler, "running", "returned"}
        /\ status' \in {status, "OK", "Error", "Unimplemented"}
        /\ closed' \in {closed, TRUE} /\ broken' \in {broken, TRUE}
    BY <1>1 DEF CallStep, SendRequest, Dispatch, Unimplemented, HandlerReturn,
                Finish, CloseSend, LoseConnection, streamVars, callVars
  <2> QED
    BY <2>1, <2>2 DEF StreamTypeOK
<1>2. ASSUME NEW e \in End, Send(e) PROVE StreamTypeOK'
  BY <1>2, EndFacts DEF StreamTypeOK, Send, callVars, recvVars
<1>3. ASSUME NEW e \in End, Recv(e) PROVE StreamTypeOK'
  BY <1>3 DEF StreamTypeOK, Recv, callVars, sendVars
<1>4. ASSUME NEW e \in End, RecvMessage(e) PROVE StreamTypeOK'
  <2>1. receiving[e] \in 1 .. Len(heap)
    BY <1>4 DEF StreamTypeOK, HeapInv, RecvMessage
  <2>2. Head(channel[e]) \in Value /\ Tail(channel[e]) \in Seq(Value)
    BY <1>4 DEF StreamTypeOK, RecvMessage
  <2>3. heap' \in Seq(Value \cup {NewMessage})
    BY <1>4, <2>1, <2>2 DEF StreamTypeOK, RecvMessage
  <2>4. held' \in [End -> Seq(Nat)] /\ channel' \in [End -> Seq(Value)]
    BY <1>4, <2>1, <2>2 DEF StreamTypeOK, RecvMessage
  <2> QED
    BY <1>4, <2>3, <2>4 DEF StreamTypeOK, RecvMessage, callVars
<1>5. ASSUME NEW e \in End, RecvError(e) PROVE StreamTypeOK'
  BY <1>5, ErrorTypes DEF StreamTypeOK, RecvError, callVars, sendVars
<1> QED
  BY <1>1, <1>2, <1>3, <1>4, <1>5, StreamSteps

\* Every step keeps how a call ends.
LEMMA EndStep == StreamTypeOK /\ EndInv /\ [Next]_streamVars => EndInv'
<1> SUFFICES ASSUME StreamTypeOK, EndInv, [Next]_streamVars PROVE EndInv'
  OBVIOUS
<1>1. CASE CallStep
  <2>1. UNCHANGED <<receiving, failed>>
    BY <1>1 DEF CallStep, recvVars
  <2>2. status' # "none" => handler' = "returned"
    BY <1>1 DEF CallStep, EndInv, SendRequest, Dispatch, Unimplemented,
                HandlerReturn, Finish, CloseSend, LoseConnection, streamVars,
                callVars
  <2> QED
    BY <2>1, <2>2 DEF EndInv
<1>2. ASSUME NEW e \in End, Send(e) PROVE EndInv'
  BY <1>2 DEF EndInv, Send, callVars, recvVars
<1>3. ASSUME NEW e \in End, Recv(e) PROVE EndInv'
  BY <1>3 DEF StreamTypeOK, EndInv, Recv, callVars
<1>4. ASSUME NEW e \in End, RecvMessage(e) PROVE EndInv'
  BY <1>4 DEF StreamTypeOK, EndInv, RecvMessage, callVars
<1>5. ASSUME NEW e \in End, RecvError(e) PROVE EndInv'
  BY <1>5 DEF StreamTypeOK, EndInv, RecvError, callVars
<1> QED
  BY <1>1, <1>2, <1>3, <1>4, <1>5, StreamSteps

\* Every step keeps what the heap is for.
LEMMA HeapStep == StreamTypeOK /\ HeapInv /\ [Next]_streamVars => HeapInv'
<1> SUFFICES ASSUME StreamTypeOK, HeapInv, [Next]_streamVars PROVE HeapInv'
  OBVIOUS
<1>1. CASE UNCHANGED <<heap, receiving, held>>
  BY <1>1 DEF HeapInv
<1>2. ASSUME NEW e \in End, Recv(e) PROVE HeapInv'
  <2>1. /\ Len(heap') = Len(heap) + 1 /\ Len(heap) \in Nat
        /\ held' = held
        /\ \A f \in End : receiving'[f] = IF f = e THEN Len(heap) + 1
                                          ELSE receiving[f]
    BY <1>2 DEF Recv, StreamTypeOK
  <2>2. /\ \A f \in End : \A i \in 1 .. Len(held'[f]) :
             held'[f][i] \in 1 .. Len(heap)
        /\ \A f \in End : receiving[f] \in 0 .. Len(heap)
    BY <2>1 DEF HeapInv
  <2>3. /\ \A f \in End : \A i \in 1 .. Len(held'[f]) :
             held'[f][i] \in 1 .. Len(heap')
        /\ \A f \in End : receiving'[f] \in 0 .. Len(heap')
    BY <2>1, <2>2
  <2>4. \A f, k \in End : \A i \in 1 .. Len(held'[f]) : held'[f][i] # receiving'[k]
    <3> SUFFICES ASSUME NEW f \in End, NEW k \in End, NEW i \in 1 .. Len(held'[f])
                 PROVE  held'[f][i] # receiving'[k]
      OBVIOUS
    <3>1. CASE k = e
      BY <2>1, <2>2, <3>1
    <3>2. CASE k # e
      BY <2>1, <3>2 DEF HeapInv
    <3> QED
      BY <3>1, <3>2
  <2>5. receiving'["client"] = receiving'["server"] => receiving'["client"] = 0
    BY <2>1, <2>2 DEF End
  <2> QED
    BY <2>3, <2>4, <2>5 DEF HeapInv
<1>3. ASSUME NEW e \in End, RecvMessage(e) PROVE HeapInv'
  <2>1. /\ Len(heap') = Len(heap) /\ Len(heap) \in Nat
        /\ \A f \in End : receiving'[f] = IF f = e THEN 0 ELSE receiving[f]
        /\ receiving[e] \in 1 .. Len(heap)
    BY <1>3 DEF RecvMessage, HeapInv, StreamTypeOK
  <2>2. \A f \in End :
          f # e => held'[f] = held[f]
    BY <1>3 DEF RecvMessage, StreamTypeOK
  <2>3. /\ Len(held[e]) \in Nat /\ Len(held'[e]) = Len(held[e]) + 1
        /\ \A i \in 1 .. Len(held[e]) : held'[e][i] = held[e][i]
        /\ held'[e][Len(held[e]) + 1] = receiving[e]
    BY <1>3 DEF RecvMessage, StreamTypeOK
  <2>4. \A f \in End : \A i \in 1 .. Len(held'[f]) :
          \/ i \in 1 .. Len(held[f]) /\ held'[f][i] = held[f][i]
          \/ f = e /\ held'[f][i] = receiving[e]
    <3> SUFFICES ASSUME NEW f \in End, NEW i \in 1 .. Len(held'[f])
                 PROVE  \/ i \in 1 .. Len(held[f]) /\ held'[f][i] = held[f][i]
                        \/ f = e /\ held'[f][i] = receiving[e]
      OBVIOUS
    <3>1. CASE f # e
      BY <2>2, <3>1
    <3>2. CASE f = e
      <4>1. i \in 1 .. Len(held[e]) \/ i = Len(held[e]) + 1
        BY <2>3, <3>2
      <4> QED
        BY <2>3, <3>2, <4>1
    <3> QED
      BY <3>1, <3>2
  <2>5. \A f \in End : \A i \in 1 .. Len(held'[f]) : held'[f][i] \in 1 .. Len(heap)
    BY <2>1, <2>4 DEF HeapInv
  <2>6. \A f \in End : receiving'[f] # receiving[e]
    BY <2>1 DEF HeapInv, End
  <2>7. \A f, k \in End : \A i \in 1 .. Len(held'[f]) : held'[f][i] # receiving'[k]
    <3> SUFFICES ASSUME NEW f \in End, NEW k \in End, NEW i \in 1 .. Len(held'[f])
                 PROVE  held'[f][i] # receiving'[k]
      OBVIOUS
    <3>1. CASE k = e
      BY <2>1, <2>5, <3>1
    <3>2. CASE k # e
      <4>1. receiving'[k] = receiving[k] /\ receiving'[k] # receiving[e]
        BY <2>1, <2>6, <3>2
      <4> QED
        BY <2>4, <4>1 DEF HeapInv
    <3> QED
      BY <3>1, <3>2
  <2>8. /\ \A f \in End : receiving'[f] \in 0 .. Len(heap)
        /\ receiving'["client"] = receiving'["server"] => receiving'["client"] = 0
    BY <2>1 DEF HeapInv, End
  <2> QED
    BY <2>1, <2>5, <2>7, <2>8 DEF HeapInv
<1>4. ASSUME NEW e \in End, RecvError(e) PROVE HeapInv'
  <2>1. /\ heap' = heap /\ held' = held /\ Len(heap) \in Nat
        /\ \A f \in End : receiving'[f] = IF f = e THEN 0 ELSE receiving[f]
    BY <1>4 DEF RecvError, StreamTypeOK
  <2>2. \A f \in End : \A i \in 1 .. Len(held[f]) : held[f][i] \in 1 .. Len(heap)
    BY DEF HeapInv
  <2>3. \A f, k \in End : \A i \in 1 .. Len(held[f]) : held[f][i] # receiving'[k]
    BY <2>1, <2>2 DEF HeapInv
  <2>4. /\ \A f \in End : receiving'[f] \in 0 .. Len(heap)
        /\ receiving'["client"] = receiving'["server"] => receiving'["client"] = 0
    BY <2>1 DEF HeapInv, End
  <2> QED
    BY <2>1, <2>2, <2>3, <2>4 DEF HeapInv
<1> QED
  BY <1>1, <1>2, <1>3, <1>4, StreamSteps DEF CallStep, Send, sendVars, recvVars

\* Every step keeps messages in order.
LEMMA QueueStep == StreamInv /\ [Next]_streamVars => QueueInv'
<1> SUFFICES ASSUME StreamInv, [Next]_streamVars PROVE QueueInv'
  OBVIOUS
<1>0. StreamTypeOK /\ HeapInv /\ QueueInv
  BY DEF StreamInv
<1>1. CASE UNCHANGED <<heap, held, sent, channel>>
  BY <1>0, <1>1 DEF QueueInv
<1>2. ASSUME NEW e \in End, Send(e) PROVE QueueInv'
  <2> DEFINE o == Other(e)
  <2>1. PICK v \in Value :
          /\ sent' = [sent EXCEPT ![e] = Append(@, v)]
          /\ channel' = [channel EXCEPT ![o] = Append(@, v)]
    BY <1>2 DEF Send
  <2>2. heap' = heap /\ held' = held
    BY <1>2 DEF Send, recvVars
  <2>3. o \in End /\ Other(o) = e
    BY EndFacts
  <2>4. ASSUME NEW f \in End, f # o
        PROVE  sent'[Other(f)] = sent[Other(f)] /\ channel'[f] = channel[f]
    BY <1>0, <2>1, <2>4, EndFacts DEF StreamTypeOK
  <2>5. /\ sent'[e] = Append(sent[e], v) /\ channel'[o] = Append(channel[o], v)
        /\ sent[e] \in Seq(Value) /\ channel[o] \in Seq(Value)
        /\ Len(held[o]) \in Nat
    BY <1>0, <2>1, <2>3 DEF StreamTypeOK
  <2>6. /\ Follows(sent[e], Len(held[o]), channel[o])
        /\ \A i \in 1 .. Len(held[o]) : heap[held[o][i]] = sent[e][i]
    BY <1>0, <2>3 DEF QueueInv
  <2>7. /\ Follows(sent'[e], Len(held[o]), channel'[o])
        /\ \A i \in 1 .. Len(held[o]) : heap[held[o][i]] = sent'[e][i]
    <3> HIDE DEF o
    <3>1. /\ Follows(Append(sent[e], v), Len(held[o]), Append(channel[o], v))
          /\ \A i \in 1 .. Len(held[o]) : Append(sent[e], v)[i] = sent[e][i]
      <4> DEFINE s == sent[e]
                 rest == channel[o]
                 n == Len(held[o])
      <4>1. /\ s \in Seq(Value) /\ rest \in Seq(Value) /\ n \in Nat
            /\ v \in Value /\ Follows(s, n, rest)
        BY <2>5, <2>6
      <4> HIDE DEF s, rest, n
      <4>2. /\ Follows(Append(s, v), n, Append(rest, v))
            /\ \A i \in 1 .. n : Append(s, v)[i] = s[i]
        BY <4>1, FollowsAppend
      <4> QED
        BY <4>2 DEF s, rest, n
    <3> QED
      BY <2>5, <2>6, <3>1
  <2>8. ASSUME NEW f \in End
        PROVE  /\ Follows(sent'[Other(f)], Len(held'[f]), channel'[f])
               /\ \A i \in 1 .. Len(held'[f]) :
                    heap'[held'[f][i]] = sent'[Other(f)][i]
    <3>1. CASE f = o
      BY <2>2, <2>3, <2>7, <3>1
    <3>2. CASE f # o
      <4>1. /\ Follows(sent[Other(f)], Len(held[f]), channel[f])
            /\ \A i \in 1 .. Len(held[f]) : heap[held[f][i]] = sent[Other(f)][i]
        BY <1>0 DEF QueueInv
      <4> QED
        BY <2>2, <2>4, <3>2, <4>1
    <3> QED
      BY <3>1, <3>2
  <2> QED
    BY <2>8 DEF QueueInv
<1>3. ASSUME NEW e \in End, Recv(e) PROVE QueueInv'
  <2>1. UNCHANGED <<held, sent, channel>>
    BY <1>3 DEF Recv, sendVars
  <2>2. \A i \in 1 .. Len(heap) : heap'[i] = heap[i]
    BY <1>0, <1>3 DEF Recv, StreamTypeOK
  <2>3. \A f \in End : \A i \in 1 .. Len(held[f]) :
          heap'[held[f][i]] = heap[held[f][i]]
    BY <1>0, <2>2 DEF HeapInv
  <2>4. \A f \in End : \A i \in 1 .. Len(held[f]) :
          heap'[held[f][i]] = sent[Other(f)][i]
    BY <1>0, <2>3 DEF QueueInv
  <2> QED
    BY <1>0, <2>1, <2>4 DEF QueueInv
<1>4. ASSUME NEW e \in End, RecvMessage(e) PROVE QueueInv'
  <2> DEFINE o == Other(e)
  <2>1. sent' = sent /\ receiving[e] \in 1 .. Len(heap)
    BY <1>0, <1>4 DEF RecvMessage, HeapInv, StreamTypeOK
  <2>2. /\ heap'[receiving[e]] = Head(channel[e])
        /\ \A i \in 1 .. Len(heap) : i # receiving[e] => heap'[i] = heap[i]
    BY <1>0, <1>4, <2>1 DEF RecvMessage, StreamTypeOK
  <2>3. \A f \in End : \A i \in 1 .. Len(held[f]) :
          heap'[held[f][i]] = heap[held[f][i]]
    BY <1>0, <2>2 DEF HeapInv
  <2>4. \A f \in End : f # e => held'[f] = held[f] /\ channel'[f] = channel[f]
    BY <1>0, <1>4 DEF RecvMessage, StreamTypeOK
  <2>5. /\ Len(held[e]) \in Nat /\ Len(held'[e]) = Len(held[e]) + 1
        /\ \A i \in 1 .. Len(held[e]) : held'[e][i] = held[e][i]
        /\ held'[e][Len(held[e]) + 1] = receiving[e]
    BY <1>0, <1>4 DEF RecvMessage, StreamTypeOK
  <2>6. /\ channel[e] \in Seq(Value) /\ channel[e] # <<>>
        /\ channel'[e] = Tail(channel[e])
        /\ sent[o] \in Seq(Value)
    BY <1>0, <1>4, EndFacts DEF RecvMessage, StreamTypeOK
  <2>7. /\ Follows(sent[o], Len(held[e]), channel[e])
        /\ \A i \in 1 .. Len(held[e]) : heap[held[e][i]] = sent[o][i]
    BY <1>0 DEF QueueInv
  <2>8. /\ Follows(sent[o], Len(held'[e]), channel'[e])
        /\ Head(channel[e]) = sent[o][Len(held[e]) + 1]
    BY <2>5, <2>6, <2>7, FollowsTail
  <2>9. ASSUME NEW i \in 1 .. Len(held'[e])
        PROVE  heap'[held'[e][i]] = sent[o][i]
    <3>1. CASE i \in 1 .. Len(held[e])
      BY <2>3, <2>5, <2>7, <3>1
    <3>2. CASE i = Len(held[e]) + 1
      BY <2>2, <2>5, <2>8, <3>2
    <3> QED
      BY <2>5, <3>1, <3>2
  <2>10. ASSUME NEW f \in End
         PROVE  /\ Follows(sent'[Other(f)], Len(held'[f]), channel'[f])
                /\ \A i \in 1 .. Len(held'[f]) :
                     heap'[held'[f][i]] = sent'[Other(f)][i]
    <3>1. CASE f = e
      BY <2>1, <2>8, <2>9, <3>1
    <3>2. CASE f # e
      <4>1. /\ Follows(sent[Other(f)], Len(held[f]), channel[f])
            /\ \A i \in 1 .. Len(held[f]) : heap[held[f][i]] = sent[Other(f)][i]
        BY <1>0 DEF QueueInv
      <4> QED
        BY <2>1, <2>3, <2>4, <3>2, <4>1
    <3> QED
      BY <3>1, <3>2
  <2> QED
    BY <2>10 DEF QueueInv
<1> QED
  BY <1>1, <1>2, <1>3, <1>4, StreamSteps
     DEF CallStep, RecvError, sendVars, recvVars

\* What the stub relies on and keeps, for any messages and any number of them.
THEOREM StreamInductive == Spec => []StreamInv
<1>1. Init => StreamInv
  <2> SUFFICES ASSUME Init PROVE StreamInv
    OBVIOUS
  <2>1. StreamTypeOK
    <3>1. <<>> \in Seq(Value) /\ <<>> \in Seq(Nat)
          /\ <<>> \in Seq(Value \cup {NewMessage})
      OBVIOUS
    <3> QED
      BY <3>1 DEF Init, StreamTypeOK
  <2>2. HeapInv
    BY DEF Init, HeapInv, End
  <2>3. QueueInv /\ EndInv
    BY EndFacts DEF Init, QueueInv, Follows, EndInv
  <2> QED
    BY <2>1, <2>2, <2>3 DEF StreamInv
<1>2. StreamInv /\ [Next]_streamVars => StreamInv'
  BY StreamTypeStep, HeapStep, QueueStep, EndStep DEF StreamInv
<1> QED
  BY <1>1, <1>2, PTL DEF Spec

----------------------------------------------------------------------------
(* The refinement.                                                         *)

gotBar == [e \in End |-> Seen(e)]

doneBar == [e \in End |-> IF e = "client" THEN closed ELSE handler = "returned"]

ToldBar(error) == CASE error = "none" -> "nothing"
                    [] error = "EOF" -> "end"
                    [] OTHER -> "error"

toldBar == [e \in End |-> CASE failed[e] = "none" -> "nothing"
                            [] failed[e] = "EOF" -> "end"
                            [] OTHER -> "error"]

\* The other end is the same one in the abstract stream.
LEMMA DuplexOther == \A e \in End : Duplex!Other(e) = Other(e)
<1>1. ASSUME NEW e \in End PROVE \A f \in End : f # e <=> f = Other(e)
  BY DEF End, Other
<1> QED
  BY <1>1, EndFacts DEF Duplex!Other

\* What an end was told, in the abstract stream.
LEMMA ToldFacts ==
  /\ toldBar \in [End -> {"nothing", "end", "error"}]
  /\ \A e \in End : toldBar[e] = ToldBar(failed[e])
  BY DEF toldBar, ToldBar

\* What an end sees is a first part of what the other one sent.
SeenInv ==
  \A e \in End :
    /\ Seen(e) \in Seq(Value)
    /\ Len(Seen(e)) = Len(held[e])
    /\ \A i \in 1 .. Len(held[e]) : Seen(e)[i] = sent[Other(e)][i]

\* It follows from the invariant.
LEMMA SeenFacts == StreamInv => SeenInv
<1> SUFFICES ASSUME StreamInv, NEW e \in End
             PROVE  /\ Seen(e) \in Seq(Value)
                    /\ Len(Seen(e)) = Len(held[e])
                    /\ \A i \in 1 .. Len(held[e]) :
                         Seen(e)[i] = sent[Other(e)][i]
  BY DEF SeenInv
<1>1. /\ held[e] \in Seq(Nat) /\ Len(held[e]) \in Nat
      /\ DOMAIN held[e] = 1 .. Len(held[e])
      /\ sent[Other(e)] \in Seq(Value) /\ channel[e] \in Seq(Value)
  BY EndFacts DEF StreamInv, StreamTypeOK
<1>2. /\ Len(sent[Other(e)]) = Len(held[e]) + Len(channel[e])
      /\ \A i \in 1 .. Len(held[e]) : heap[held[e][i]] = sent[Other(e)][i]
  BY DEF StreamInv, QueueInv, Follows
<1>3. \A i \in 1 .. Len(held[e]) : sent[Other(e)][i] \in Value
  <2> DEFINE n == Len(held[e])
             m == Len(channel[e])
             s == sent[Other(e)]
  <2>1. n \in Nat /\ m \in Nat /\ Len(s) = n + m /\ s \in Seq(Value)
    BY <1>1, <1>2
  <2> HIDE DEF n, m, s
  <2>2. \A i \in 1 .. n : i \in 1 .. Len(s)
    BY <2>1
  <2>3. \A i \in 1 .. n : s[i] \in Value
    BY <2>1, <2>2, ElementOfSeq
  <2> QED
    BY <2>3 DEF n, s
<1>4. Seen(e) = [i \in 1 .. Len(held[e]) |-> sent[Other(e)][i]]
  BY <1>1, <1>2 DEF Seen
<1> QED
  BY <1>1, <1>3, <1>4

\* And after a step.
LEMMA SeenFactsNext == StreamInv' => SeenInv'
  BY SeenFacts, PTL

\* What was seen before an end is given no message is what is seen after.
LEMMA SeenKept ==
  ASSUME StreamInv, StreamInv', NEW e \in End, held'[e] = held[e],
         \A i \in 1 .. Len(held[e]) : sent'[Other(e)][i] = sent[Other(e)][i]
  PROVE  Seen(e)' = Seen(e)
<1>1. /\ Seen(e)' \in Seq(Value) /\ Seen(e) \in Seq(Value)
      /\ Len(Seen(e)') = Len(Seen(e)) /\ Len(Seen(e)) = Len(held[e])
  BY SeenFacts, SeenFactsNext DEF SeenInv
<1>2. \A i \in 1 .. Len(held[e]) : Seen(e)'[i] = Seen(e)[i]
  BY SeenFacts, SeenFactsNext DEF SeenInv
<1> QED
  BY <1>1, <1>2, SeqEqual

\* The same of both ends.
LEMMA GotKept ==
  ASSUME StreamInv, StreamInv', UNCHANGED <<held, sent>>
  PROVE  gotBar' = gotBar
  BY SeenKept DEF gotBar

\* A step of the call finishes the abstract one, or stutters.
LEMMA CallRefines ==
  StreamInv /\ StreamInv' /\ CallStep => [Duplex!Next]_(Duplex!duplexVars)
<1> SUFFICES ASSUME StreamInv, StreamInv', CallStep
             PROVE  [Duplex!Next]_(Duplex!duplexVars)
  OBVIOUS
<1>1. UNCHANGED <<sent, held, failed>>
  BY DEF CallStep, sendVars, recvVars
<1>2. gotBar' = gotBar /\ toldBar' = toldBar
  BY <1>1, GotKept DEF toldBar
<1>3. \/ doneBar' = doneBar
      \/ \E e \in End : doneBar' = [doneBar EXCEPT ![e] = TRUE]
  <2>1. CASE UNCHANGED <<handler, closed>>
    BY <2>1 DEF doneBar
  <2>2. CASE closed' = TRUE /\ handler' = handler
    BY <2>2 DEF doneBar, End
  <2>3. CASE handler' = "returned" /\ closed' = closed
    BY <2>3 DEF doneBar, End
  <2>4. CASE handler # "returned" /\ handler' # "returned" /\ closed' = closed
    BY <2>4 DEF doneBar
  <2> QED
    BY <2>1, <2>2, <2>3, <2>4
       DEF CallStep, SendRequest, Dispatch, Unimplemented, HandlerReturn,
           Finish, CloseSend, LoseConnection, streamVars, callVars
<1> QED
  BY <1>1, <1>2, <1>3
     DEF Duplex!Next, Duplex!Finish, Duplex!duplexVars, gotBar, doneBar, toldBar

\* Sending is the abstract Put.
LEMMA SendRefines ==
  ASSUME StreamInv, StreamInv', NEW e \in End, Send(e)
  PROVE  Duplex!Put(e)
<1>1. PICK v \in Value : sent' = [sent EXCEPT ![e] = Append(@, v)]
  BY DEF Send
<1>2. UNCHANGED <<handler, closed, heap, held, failed>>
  BY DEF Send, callVars, recvVars
<1>3. doneBar' = doneBar /\ toldBar' = toldBar
  BY <1>2 DEF doneBar, toldBar
<1>4. ~doneBar[e]
  BY DEF Send, InUse, HalfClosed, doneBar, End
<1>5. \A f \in End : Seen(f)' = Seen(f)
  BY <1>2 DEF Seen
<1>6. gotBar' = gotBar
  BY <1>5 DEF gotBar
<1> QED
  BY <1>1, <1>3, <1>4, <1>6 DEF Duplex!Put, gotBar, doneBar, toldBar

\* Receiving is the abstract Get.
LEMMA RecvMessageRefines ==
  ASSUME StreamInv, StreamInv', NEW e \in End, RecvMessage(e)
  PROVE  Duplex!Get(e)
<1> DEFINE n == Len(held[e])
           m == Len(channel[e])
<1>1. UNCHANGED <<handler, closed, sent, failed>>
  BY DEF RecvMessage, callVars
<1>2. toldBar[e] = "nothing"
  BY ToldFacts DEF RecvMessage, StreamInv, EndInv, ToldBar
<1>3. n \in Nat /\ m \in Nat /\ m > 0 /\ Len(held'[e]) = n + 1
  BY DEF RecvMessage, StreamInv, StreamTypeOK
<1>4. Len(sent[Other(e)]) = n + m
  BY DEF StreamInv, QueueInv, Follows
<1>5. /\ Seen(e) \in Seq(Value) /\ Len(Seen(e)) = n
      /\ \A i \in 1 .. n : Seen(e)[i] = sent[Other(e)][i]
  BY SeenFacts DEF SeenInv
<1>6. /\ Seen(e)' \in Seq(Value) /\ Len(Seen(e)') = n + 1
      /\ \A i \in 1 .. n + 1 : Seen(e)'[i] = sent[Other(e)][i]
  BY <1>1, <1>3, SeenFactsNext DEF SeenInv
<1>7. Seen(e)' = Append(Seen(e), sent[Other(e)][n + 1])
  <2> DEFINE x == sent[Other(e)][n + 1]
             s == Append(Seen(e), x)
  <2>1. x \in Value
    BY <1>3, <1>6, ElementOfSeq
  <2>2. s \in Seq(Value) /\ Len(s) = n + 1
    BY <1>5, <2>1
  <2>3. \A i \in 1 .. n + 1 : s[i] = Seen(e)'[i]
    BY <1>3, <1>5, <1>6
  <2> QED
    BY <1>6, <2>2, <2>3, SeqEqual
<1>8. \A f \in End : f # e => Seen(f)' = Seen(f)
  BY <1>1, SeenKept DEF RecvMessage, StreamInv, StreamTypeOK
<1>9. gotBar' = [gotBar EXCEPT ![e] = Append(@, sent[Other(e)][Len(@) + 1])]
  BY <1>5, <1>7, <1>8 DEF gotBar
<1>10. doneBar' = doneBar /\ toldBar' = toldBar
  BY <1>1 DEF doneBar, toldBar
<1>11. Len(gotBar[e]) < Len(sent[Other(e)])
  <2>1. n < n + m
    <3> HIDE DEF n, m
    <3> QED
      BY <1>3
  <2> QED
    BY <1>4, <1>5, <2>1 DEF gotBar
<1> QED
  BY <1>1, <1>2, <1>9, <1>10, <1>11, DuplexOther
     DEF Duplex!Get, gotBar, doneBar, toldBar

\* An error is the abstract Tell.
LEMMA RecvErrorRefines ==
  ASSUME StreamInv, StreamInv', NEW e \in End, RecvError(e)
  PROVE  Duplex!Tell(e)
<1>1. UNCHANGED <<handler, closed, sent, held>>
  BY DEF RecvError, callVars, sendVars
<1>2. gotBar' = gotBar /\ doneBar' = doneBar
  BY <1>1, GotKept DEF doneBar
<1>3. toldBar[e] = "nothing"
  BY ToldFacts DEF RecvError, StreamInv, EndInv, ToldBar
<1>4. PICK error \in RecvErrors(e) : failed' = [failed EXCEPT ![e] = error]
  BY DEF RecvError
<1>5. toldBar' = [toldBar EXCEPT ![e] = ToldBar(error)]
  BY <1>4 DEF toldBar, ToldBar, StreamInv, StreamTypeOK
<1>6. error \in {"EOF", "Unavailable", "Canceled", "Error", "Unimplemented"}
  BY ErrorTypes DEF StreamInv
<1>7. ASSUME error = "EOF"
      PROVE  doneBar[Other(e)] /\ gotBar[e] = sent[Other(e)]
  <2>1. channel[e] = <<>>
    BY <1>7 DEF RecvErrors, EndErrors, StreamInv, StreamTypeOK
  <2>2. doneBar[Other(e)]
    BY <1>7, EndFacts
       DEF RecvErrors, EndErrors, HalfClosed, SendRequestDesc, doneBar, End,
           Other,
           StreamInv, StreamTypeOK, EndInv
  <2>3. /\ sent[Other(e)] \in Seq(Value)
        /\ Len(held[e]) \in Nat
        /\ Len(sent[Other(e)]) = Len(held[e])
    <3>1. Other(e) \in End
      BY EndFacts
    <3>2. /\ sent[Other(e)] \in Seq(Value) /\ held[e] \in Seq(Nat)
          /\ Len(sent[Other(e)]) = Len(held[e]) + Len(channel[e])
      BY <3>1 DEF StreamInv, StreamTypeOK, QueueInv, Follows
    <3> QED
      BY <2>1, <3>2
  <2>4. Seen(e) = sent[Other(e)]
    BY <2>3, SeenFacts, SeqEqual DEF SeenInv
  <2> QED
    BY <2>2, <2>4 DEF gotBar
<1>8. \/ toldBar' = [toldBar EXCEPT ![e] = "error"]
      \/ toldBar' = [toldBar EXCEPT ![e] = "end"] /\ error = "EOF"
  BY <1>5, <1>6 DEF ToldBar
<1> QED
  BY <1>1, <1>2, <1>3, <1>7, <1>8, DuplexOther
     DEF Duplex!Tell, gotBar, doneBar, toldBar

\* Each end of a call sees what the other one sent, in order and once, through
\* pointers whose messages no later Recv changes, and is told of a regular
\* end only when the other end meant it and nothing is missing: however many
\* messages are sent, whatever they hold.
THEOREM StreamImplementsDuplex == Spec => RefinesDuplex
<1>1. Init => Duplex!Init
  <2> SUFFICES ASSUME Init PROVE Duplex!Init
    OBVIOUS
  <2>1. \A e \in End : Seen(e) = <<>>
    BY DEF Init, Seen
  <2> QED
    BY <2>1 DEF Init, Duplex!Init
<1>2. StreamInv /\ StreamInv' /\ [Next]_streamVars
        => [Duplex!Next]_(Duplex!duplexVars)
  <2> SUFFICES ASSUME StreamInv, StreamInv', [Next]_streamVars
               PROVE  [Duplex!Next]_(Duplex!duplexVars)
    OBVIOUS
  <2>1. ASSUME NEW e \in End, Recv(e) PROVE UNCHANGED Duplex!duplexVars
    <3>1. UNCHANGED <<handler, closed, sent, held, failed>>
      BY <2>1 DEF Recv, callVars, sendVars
    <3>2. gotBar' = gotBar
      BY <3>1, GotKept
    <3> QED
      BY <3>1, <3>2 DEF Duplex!duplexVars, gotBar
  <2> QED
    BY <2>1, CallRefines, SendRefines, RecvMessageRefines, RecvErrorRefines,
       StreamSteps
       DEF Duplex!Next
<1> QED
  BY <1>1, <1>2, StreamInductive, PTL DEF Spec, RefinesDuplex, Duplex!Spec
=============================================================================
