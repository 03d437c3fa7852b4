---------------------------- MODULE BoundedQueue ----------------------------
(***************************************************************************)
(* What a pointer channel promises: pointers leave in the order in which    *)
(* they were put, at most Cap of them wait, and a pointer that waits is not *)
(* put a second time.                                                       *)
(***************************************************************************)
EXTENDS Naturals, Sequences

CONSTANTS Item,   \* the pointers
          Cap     \* the capacity of the channel

VARIABLE queue    \* the pointers that wait, the next one to leave first

Init == queue = <<>>

Put(x) ==
  /\ Len(queue) < Cap
  /\ \A i \in 1..Len(queue) : queue[i] # x
  /\ queue' = Append(queue, x)

Take ==
  /\ queue # <<>>
  /\ queue' = Tail(queue)

Next == Take \/ \E x \in Item : Put(x)

Spec == Init /\ [][Next]_queue
=============================================================================
