---------------------------- MODULE BoundedQueue ----------------------------
(* What a FIFO promises: words leave in the order they came in, each once, *)
(* and there are never more than Capacity of them.  A word may come in at  *)
(* the instant at which another leaves.                                    *)
EXTENDS Naturals, Sequences

CONSTANTS Words, Capacity

VARIABLES
  queue,
  out      \* the word that left last

Init == queue = <<>> /\ out \in Words

Accept(w, rest) == Len(queue) < Capacity /\ queue' = Append(rest, w)
Deliver == queue # <<>> /\ out' = Head(queue)

Put == \E w \in Words : Accept(w, queue) /\ UNCHANGED out
Get == Deliver /\ queue' = Tail(queue)
Exchange == Deliver /\ \E w \in Words : Accept(w, Tail(queue))

Next == Put \/ Get \/ Exchange
Spec == Init /\ [][Next]_<<queue, out>>
=============================================================================
