----------------------------- MODULE GrpcStream -----------------------------
(***************************************************************************)
(* The generated stub of SeataService (grpcMessage_grpc.pb.go): one call   *)
(* of sendRequest, a stream of GrpcMessageProto in both directions.  The   *)
(* stub allocates the messages that Recv returns and forwards all else to  *)
(* the gRPC runtime, which is external: it dispatches the call, keeps the  *)
(* messages of a direction in order, carries the handler's result behind   *)
(* the server's messages, and may lose the connection at any time.         *)
(*                                                                         *)
(* Each end has at most one Send and one Recv under way, as the runtime    *)
(* demands; both ends may send and receive at the same time.               *)
(***************************************************************************)
EXTENDS Naturals, Sequences

CONSTANTS
  Value,      \* what a message can hold
  MaxSends    \* bound on the messages an end sends

ASSUME GrpcStreamAssumption == MaxSends \in Nat

VARIABLES
  service,     \* what the server has registered
  stream,      \* what SendRequest returned: "none" yet, "open", "refused"
  handler,     \* "none", "running" or "returned"
  status,      \* the handler's result on its way to the client, or "none"
  closed,      \* the client has called CloseSend
  broken,      \* the connection is lost
  sent,        \* what each end's Send calls took
  channel,     \* messages on their way to each end
  heap,        \* the GrpcMessageProto structs that Recv has allocated
  receiving,   \* the struct an end's Recv waits to be filled, 0 outside
  held,        \* the structs an end's Recv calls returned
  failed       \* the error an end's Recv returned, "none" before

callVars == <<service, stream, handler, status, closed, broken>>
sendVars == <<sent, channel>>
recvVars == <<heap, receiving, held, failed>>
streamVars == <<callVars, sendVars, recvVars>>

End == {"client", "server"}
Other(e) == IF e = "client" THEN "server" ELSE "client"
Services == {"nothing", "unimplemented", "implemented"}
NewMessage == "zero"

\* Mutant: the client may send one message only.
MutantUnary == [name |-> "sendRequest", ServerStreams |-> TRUE,
                ClientStreams |-> FALSE]

\* The one stream of SeataService_ServiceDesc.
SendRequestDesc == [name |-> "sendRequest", ServerStreams |-> TRUE,
                    ClientStreams |-> TRUE]

SendRequestMethod == "sendRequest"

Init ==
  /\ service \in Services
  /\ stream = "none" /\ handler = "none" /\ status = "none"
  /\ closed = FALSE /\ broken = FALSE
  /\ sent = [e \in End |-> <<>>]
  /\ channel = [e \in End |-> <<>>]
  /\ heap = <<>>
  /\ receiving = [e \in End |-> 0]
  /\ held = [e \in End |-> <<>>]
  /\ failed = [e \in End |-> "none"]

----------------------------------------------------------------------------
(* The call.                                                               *)

\* seataServiceClient.SendRequest: a stream, or nil and an error.
SendRequest ==
  /\ stream = "none"
  /\ stream' \in {"open", "refused"}
  /\ UNCHANGED <<service, handler, status, closed, broken, sendVars, recvVars>>

\* The runtime looks the method up among the registered ones.
Dispatch ==
  /\ stream = "open" /\ handler = "none" /\ ~broken
  /\ IF service # "nothing" /\ SendRequestMethod = SendRequestDesc.name
     THEN handler' = "running" /\ UNCHANGED status
     ELSE handler' = "returned" /\ status' = "Unimplemented"
  /\ UNCHANGED <<service, stream, closed, broken, sendVars, recvVars>>

\* The handler is over; its result gets through while there is a connection.
Finish(result) ==
  /\ handler = "running"
  /\ handler' = "returned"
  /\ status' = IF broken THEN status ELSE result
  /\ UNCHANGED <<service, stream, closed, broken, sendVars, recvVars>>

\* Mutant: no error.
MutantSilent == service = "unimplemented" /\ Finish("OK")

\* UnimplementedSeataServiceServer.SendRequest
Unimplemented == service = "unimplemented" /\ Finish("Unimplemented")

\* An implementation of SendRequest returns nil or an error, at any time.
HandlerReturn ==
  service = "implemented" /\ \E result \in {"OK", "Error"} : Finish(result)

\* Without a connection this does nothing.
CloseSend ==
  /\ stream = "open"
  /\ ~closed /\ ~broken
  /\ closed' = TRUE
  /\ UNCHANGED <<service, stream, handler, status, broken, sendVars, recvVars>>

LoseConnection ==
  /\ stream = "open"
  /\ ~broken
  /\ broken' = TRUE
  /\ UNCHANGED <<service, stream, handler, status, closed, sendVars, recvVars>>

----------------------------------------------------------------------------
(* Send: SendMsg of the runtime, which takes the message or returns an     *)
(* error.  A client may still be able to send when the handler has         *)
(* returned: nobody reads it then.                                         *)

InUse(e) ==
  IF e = "client" THEN stream = "open"
  ELSE handler = "running" /\ service = "implemented"

\* The client's last message has been sent, in the eyes of the runtime.
HalfClosed ==
  closed \/ (~SendRequestDesc.ClientStreams /\ sent["client"] # <<>>)

Send(e) ==
  /\ InUse(e)
  /\ ~broken
  /\ Len(sent[e]) < MaxSends
  /\ e = "client" => ~HalfClosed
  /\ \E v \in Value :
       /\ sent' = [sent EXCEPT ![e] = Append(@, v)]
       /\ channel' = [channel EXCEPT ![Other(e)] = Append(@, v)]
  /\ UNCHANGED <<callVars, recvVars>>

----------------------------------------------------------------------------
(* Recv: a new message, RecvMsg of the runtime, and the message or an      *)
(* error.  A caller stops at the first error.                              *)

\* Mutant: the message returned last is used again.
MutantReuse(e) ==
  /\ InUse(e)
  /\ receiving[e] = 0 /\ failed[e] = "none"
  /\ IF held[e] = <<>>
     THEN /\ heap' = Append(heap, NewMessage)
          /\ receiving' = [receiving EXCEPT ![e] = Len(heap) + 1]
     ELSE /\ receiving' = [receiving EXCEPT ![e] = held[e][Len(held[e])]]
          /\ UNCHANGED heap
  /\ UNCHANGED <<callVars, sendVars, held, failed>>

Recv(e) ==
  /\ InUse(e)
  /\ receiving[e] = 0 /\ failed[e] = "none"
  /\ heap' = Append(heap, NewMessage)
  /\ receiving' = [receiving EXCEPT ![e] = Len(heap) + 1]
  /\ UNCHANGED <<callVars, sendVars, held, failed>>

\* return m, nil
RecvMessage(e) ==
  /\ receiving[e] # 0
  /\ channel[e] # <<>>
  /\ e = "server" => handler = "running"
  /\ heap' = [heap EXCEPT ![receiving[e]] = Head(channel[e])]
  /\ channel' = [channel EXCEPT ![e] = Tail(@)]
  /\ held' = [held EXCEPT ![e] = Append(@, receiving[e])]
  /\ receiving' = [receiving EXCEPT ![e] = 0]
  /\ UNCHANGED <<callVars, sent, failed>>

\* How the other end has ended: io.EOF is its regular end, which comes after
\* its messages.
EndErrors(e) ==
  IF e = "client"
  THEN IF channel[e] = <<>> /\ status # "none"
       THEN {IF status = "OK" THEN "EOF" ELSE status} ELSE {}
  ELSE IF handler = "returned" THEN {"Canceled"}
       ELSE IF channel[e] = <<>> /\ HalfClosed THEN {"EOF"} ELSE {}

\* What RecvMsg fails with.  The end of the other end, as its messages, may
\* have arrived before the connection was lost, or not.
RecvErrors(e) ==
  EndErrors(e) \cup (IF broken THEN {"Unavailable"} ELSE {})

\* return nil, err
RecvError(e) ==
  /\ receiving[e] # 0
  /\ \E err \in RecvErrors(e) : failed' = [failed EXCEPT ![e] = err]
  /\ receiving' = [receiving EXCEPT ![e] = 0]
  /\ UNCHANGED <<callVars, sendVars, heap, held>>

----------------------------------------------------------------------------
Next ==
  \/ SendRequest \/ Dispatch \/ Unimplemented \/ HandlerReturn
  \/ CloseSend \/ LoseConnection
  \/ \E e \in End : Send(e) \/ Recv(e) \/ RecvMessage(e) \/ RecvError(e)

Spec == Init /\ [][Next]_streamVars

\* The runtime dispatches, and returns from RecvMsg when it can; the handler
\* that only returns an error does so.
FairSpec ==
  /\ Spec
  /\ WF_streamVars(Dispatch)
  /\ WF_streamVars(Unimplemented)
  /\ \A e \in End : WF_streamVars(RecvMessage(e) \/ RecvError(e))

----------------------------------------------------------------------------
\* What the caller of Recv sees through the pointers it was given, now.
Seen(e) == [i \in DOMAIN held[e] |-> heap[held[e][i]]]

Duplex ==
  INSTANCE DuplexStream
  WITH put <- sent,
       got <- [e \in End |-> Seen(e)],
       done <- [e \in End |-> IF e = "client" THEN closed
                              ELSE handler = "returned"],
       told <- [e \in End |-> CASE failed[e] = "none" -> "nothing"
                                [] failed[e] = "EOF" -> "end"
                                [] OTHER -> "error"]

\* Each end sees what the other one sent, in order, once and for good (a
\* later Recv does not change a message returned before); and is told of a
\* regular end only when the other end meant it and nothing is missing.
RefinesDuplex == Duplex!Spec

\* A client that waits for an answer of a server that does not implement the
\* call is told so: not left waiting, and not told that all is well.
UnimplementedTold ==
  service # "implemented" /\ receiving["client"] # 0 ~>
    failed["client"] \in {"Unimplemented", "Unavailable"}
=============================================================================
