--------------------------- MODULE MCAxisVerdict ---------------------------
(* An instance of AxisVerdict for TLC: a frame that finds the FIFO full, *)
(* between two that do not.                                              *)
EXTENDS AxisVerdict

Frame(data, id) == [data |-> data, id |-> id, dest |-> 1, user |-> id, sof |-> FALSE]
NoBeat == [tdata |-> [l \in 1 .. 2 |-> 0], tlast |-> FALSE, tid |-> 0,
           tdest |-> 0, tuser |-> 0]
NoAux == [tkeep |-> {}, bad |-> FALSE]

\* Lanes of two bytes, FIFOs of two beats: the second frame fits the FIFO, but
\* not behind the first.
MisfitBetween == {<<Frame(<<1>>, 0), Frame(<<2, 3, 4, 5>>, 1), Frame(<<6, 7>>, 2)>>}
=============================================================================
