----------------------------- MODULE MCAxisBench -----------------------------
(* Instances of the AXI4-Stream bench for TLC. *)
EXTENDS AxisBench

Frame(data, id, sof) ==
  [data |-> data, id |-> id, dest |-> 1, user |-> id, sof |-> sof]
NoBeat == [tdata |-> [l \in 1 .. 2 |-> 0], tlast |-> FALSE, tid |-> 0,
           tdest |-> 0, tuser |-> 0]
NoAux == [tkeep |-> {}, bad |-> FALSE]

\* Lanes of two bytes, FIFOs of two beats.  Frames of one beat or several, partial
\* and empty ones, and streams and frames longer than the FIFO, back to back.
MCStreamPlans ==
  {<<Frame(<<1, 2, 3>>, 0, TRUE), Frame(<<>>, 1, TRUE), Frame(<<4, 5, 6, 7, 8>>, 2, TRUE)>>,
   <<Frame(<<1>>, 0, FALSE), Frame(<<2, 3, 4, 5, 6, 7>>, 1, FALSE)>>}
MCFramePlans ==
  {<<Frame(<<1>>, 0, TRUE), Frame(<<>>, 1, FALSE), Frame(<<2, 3>>, 2, FALSE)>>,
   <<Frame(<<1, 2, 3, 4>>, 0, TRUE), Frame(<<5, 6, 7, 8, 9>>, 1, FALSE)>>}

\* The hypothesis of the theorems on whole frames holds of this instance.
ASSUME PlansHandled == \A p \in FramePlans : FrameFifoHandles(p)
=============================================================================
