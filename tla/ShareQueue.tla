----------------------------- MODULE ShareQueue -----------------------------
(***************************************************************************)
(* What the proxy's share path promises (C5 and C7), with no threads,       *)
(* locks or connections: shares get consecutive ids and join a FIFO queue; *)
(* the head of the queue leaves it either written upstream or dropped,     *)
(* and nothing else is ever written.                                       *)
(***************************************************************************)
EXTENDS Naturals, Sequences

CONSTANT MaxShares

VARIABLES
    pending,  \* ids of the shares queued and not yet written or dropped
    sent,     \* ids of the shares written upstream, in order
    next      \* the id the next share gets

queueVars == <<pending, sent, next>>

Init == pending = <<>> /\ sent = <<>> /\ next = 0

(* A share is accepted from the stratifier and queued. *)
Enqueue ==
    /\ next < MaxShares
    /\ pending' = Append(pending, next)
    /\ next' = next + 1
    /\ UNCHANGED sent

(* The oldest queued share is written upstream. *)
Send ==
    /\ pending # <<>>
    /\ sent' = Append(sent, Head(pending))
    /\ pending' = Tail(pending)
    /\ UNCHANGED next

(* The oldest queued share is dropped. *)
Drop ==
    /\ pending # <<>>
    /\ pending' = Tail(pending)
    /\ UNCHANGED <<sent, next>>

Next == Enqueue \/ Send \/ Drop

Spec == Init /\ [][Next]_queueVars

=============================================================================
