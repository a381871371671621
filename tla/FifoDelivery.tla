---------------------------- MODULE FifoDelivery ----------------------------
(***************************************************************************)
(* What one channel of a connection promises to the code above it          *)
(* (Connection::Send with reliable = true, Connection::Receive): messages  *)
(* come out complete, once each and in the order they were put in, and     *)
(* each of them does come out.                                             *)
(***************************************************************************)
EXTENDS Sequences, Naturals

CONSTANT Message

VARIABLES accepted,     \* messages given to Send, in order
          delivered     \* messages that Receive returned, in order

vars == <<accepted, delivered>>

Init == accepted = << >> /\ delivered = << >>

Accept == \E m \in Message : accepted' = Append(accepted, m)
                             /\ UNCHANGED delivered

Deliver == /\ Len(delivered) < Len(accepted)
           /\ delivered' = Append(delivered, accepted[Len(delivered) + 1])
           /\ UNCHANGED accepted

Next == Accept \/ Deliver

Spec == Init /\ [][Next]_vars

FairSpec == Spec /\ WF_vars(Deliver)
=============================================================================
