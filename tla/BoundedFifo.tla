---------------------------- MODULE BoundedFifo ----------------------------
(***************************************************************************)
(* What a ring buffer promises to the threads on its two ends: a queue     *)
(* with a limited capacity.  An item that is pushed is either accepted,    *)
(* and then comes out once and in its turn, or rejected, and that only     *)
(* because the queue is full.                                              *)
(***************************************************************************)
EXTENDS Integers, Sequences

CONSTANTS
  Items,     \* what can be pushed, each item once
  Capacity   \* how many items the queue holds

VARIABLES
  queue,    \* the accepted items that have not come out
  out,      \* the items that have come out, in their order
  rejected  \* the items that were not accepted

vars == <<queue, out, rejected>>

Init ==
  /\ queue = << >>
  /\ out = << >>
  /\ rejected = {}

Push(v) ==
  /\ Len(queue) < Capacity
  /\ queue' = Append(queue, v)
  /\ UNCHANGED <<out, rejected>>

Reject(v) ==
  /\ Len(queue) = Capacity
  /\ rejected' = rejected \cup {v}
  /\ UNCHANGED <<queue, out>>

Pop ==
  /\ queue # << >>
  /\ queue' = Tail(queue)
  /\ out' = Append(out, Head(queue))
  /\ UNCHANGED rejected

Next ==
  \/ \E v \in Items : Push(v) \/ Reject(v)
  \/ Pop

Spec == Init /\ [][Next]_vars
=============================================================================
