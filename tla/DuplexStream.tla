---------------------------- MODULE DuplexStream ----------------------------
(***************************************************************************)
(* What the two ends of a sendRequest call may count on: two queues.  An   *)
(* end gets what the other one has put, in order and once; it is told of a *)
(* regular end only when the other end has decided to put nothing more and *)
(* everything has been got; it may be told of an error at any time, and    *)
(* gets nothing after either.                                              *)
(***************************************************************************)
EXTENDS Naturals, Sequences

CONSTANTS End, Value

VARIABLES
  put,    \* what each end has put
  got,    \* what each end has got
  done,   \* an end has decided to put nothing more
  told    \* what an end was told: "nothing", "end" or "error"

duplexVars == <<put, got, done, told>>

Other(e) == CHOOSE f \in End : f # e

Init ==
  /\ put = [e \in End |-> <<>>]
  /\ got = [e \in End |-> <<>>]
  /\ done = [e \in End |-> FALSE]
  /\ told = [e \in End |-> "nothing"]

Put(e) ==
  /\ ~done[e]
  /\ \E v \in Value : put' = [put EXCEPT ![e] = Append(@, v)]
  /\ UNCHANGED <<got, done, told>>

Get(e) ==
  /\ told[e] = "nothing"
  /\ Len(got[e]) < Len(put[Other(e)])
  /\ got' = [got EXCEPT ![e] = Append(@, put[Other(e)][Len(@) + 1])]
  /\ UNCHANGED <<put, done, told>>

Finish(e) ==
  /\ done' = [done EXCEPT ![e] = TRUE]
  /\ UNCHANGED <<put, got, told>>

Tell(e) ==
  /\ told[e] = "nothing"
  /\ \/ told' = [told EXCEPT ![e] = "error"]
     \/ /\ done[Other(e)]
        /\ got[e] = put[Other(e)]
        /\ told' = [told EXCEPT ![e] = "end"]
  /\ UNCHANGED <<put, got, done>>

Next == \E e \in End : Put(e) \/ Get(e) \/ Finish(e) \/ Tell(e)

Spec == Init /\ [][Next]_duplexVars
=============================================================================
