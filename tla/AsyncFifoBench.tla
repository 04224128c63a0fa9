--------------------------- MODULE AsyncFifoBench ---------------------------
(***************************************************************************)
(* async_fifo_tb.cpp: the FIFO with a registered read, driven by           *)
(* coroutines.  A tick in which clocks rise is one step: the DUT is        *)
(* evaluated with the inputs committed before the edge, then the           *)
(* coroutines waiting for the edge run and read its outputs, and what they *)
(* stage is committed in the next delta of the tick (module Scheduler).    *)
(* The two clocks rise in any order, and together.                         *)
(***************************************************************************)
EXTENDS AsyncFifo

CONSTANTS
  WordMod,      \* words are wr_ok & (WordMod - 1)
  ResetEdges    \* how long the first coroutine holds rst

ASSUME BenchAssumption ==
  /\ WordMod \in Nat \ {0} /\ ResetEdges \in Nat \ {0}
  /\ ~FWFT /\ Blank \in 0 .. WordMod - 1 /\ GrayCode

VARIABLES
  rst, wr_en, wr_data, rd_en,   \* the signals the bench drives
  resetLeft,  \* edges the reset coroutine still waits for
  go,         \* the software event the write driver waits for
  wr_ok,      \* the write driver's local variable
  expected    \* history: the word the next read must show

vars == <<wr, rd, rst, wr_en, wr_data, rd_en, resetLeft, go, wr_ok, expected>>
writeVars == <<wr, rst, wr_en, wr_data, resetLeft, wr_ok>>
readVars == <<rd, rd_en, expected>>
Words == 0 .. WordMod - 1

BenchInit ==
  /\ Init
  /\ rst = TRUE /\ resetLeft = ResetEdges
  /\ wr_en = FALSE /\ wr_data = 0 /\ wr_ok = 0 /\ rd_en = FALSE
  /\ go = FALSE /\ expected = 0

\* The event is set after a delay; the driver then waits for clock edges.
SetGo ==
  /\ ~go /\ go' = TRUE
  /\ UNCHANGED <<writeVars, readVars>>

ResetProcess ==
  /\ resetLeft' = IF resetLeft > 0 THEN resetLeft - 1 ELSE 0
  /\ rst' = IF resetLeft = 1 THEN FALSE ELSE rst

\* wr_full is read after the edge, and holds until the next one.
CountAlways(full) == (wr_ok + 1) % WordMod                      \* mutant
CountUnmasked(full) == IF full THEN wr_ok ELSE wr_ok + 1        \* mutant
CountUnless(full) == IF full THEN wr_ok ELSE (wr_ok + 1) % WordMod

WriteDriver ==
  IF go /\ ~rst
  THEN wr_en' = TRUE /\ wr_data' = wr_ok /\ wr_ok' = CountUnless(wr_full')
  ELSE UNCHANGED <<wr_en, wr_data, wr_ok>>

WrTick == WrEdge(rst, wr_en, wr_data) /\ ResetProcess /\ WriteDriver

\* always(posedge(rd_clk)): rd_empty is read after the edge too.
RequestAlways(empty) == TRUE                                    \* mutant
Request(empty) == ~empty

RdTick ==
  /\ RdEdge(rst, rd_en)
  /\ rd_en' = Request(rd_empty')
  /\ expected' = IF rd'.ptr # rd.ptr THEN (expected + 1) % WordMod ELSE expected

WrClock == WrTick /\ UNCHANGED <<go, readVars>>
RdClock == RdTick /\ UNCHANGED <<go, writeVars>>
BothClocks == WrTick /\ RdTick /\ UNCHANGED go

Next == SetGo \/ WrClock \/ RdClock \/ BothClocks

Spec == BenchInit /\ [][Next]_vars

\* sim.clock never stops toggling, and the delay before the event is finite.
LiveSpec ==
  /\ Spec
  /\ WF_vars(SetGo)
  /\ WF_vars(WrClock \/ BothClocks) /\ WF_vars(RdClock \/ BothClocks)

-----------------------------------------------------------------------------
(* Properties *)

TypeOK ==
  /\ wr \in [ptr : Pointers, gray : [0 .. AWID -> {0, 1}],
             rd_gray_ms : [0 .. AWID -> {0, 1}],
             rd_gray_wr : [0 .. AWID -> {0, 1}],
             overflow : BOOLEAN, mem : [0 .. DEPTH - 1 -> Words]]
  /\ rd \in [ptr : Pointers, gray : [0 .. AWID -> {0, 1}],
             wr_gray_ms : [0 .. AWID -> {0, 1}],
             wr_gray_rd : [0 .. AWID -> {0, 1}],
             underflow : BOOLEAN, data : Words]
  /\ rst \in BOOLEAN /\ wr_en \in BOOLEAN /\ rd_en \in BOOLEAN /\ go \in BOOLEAN
  /\ wr_data \in Words /\ wr_ok \in Words /\ expected \in Words
  /\ resetLeft \in 0 .. ResetEdges

\* Pointers that crossed the clock boundary are late but never wrong: each side
\* errs on its safe side, the writer by seeing too many words, the reader by
\* seeing too few, and the FIFO never holds more than DEPTH.
LevelsConservative ==
  /\ Size <= DEPTH
  /\ rd_level <= Size /\ Size <= wr_level /\ wr_level <= DEPTH

\* The request the bench computes after one read edge is still right at the
\* next: nothing is read from an empty FIFO.
NoUnderflow == ~rd.underflow

\* Each read shows the word the write driver counted next: none is lost because
\* the FIFO was full, none written twice, none reordered.
ReadsInOrder == [][rd'.ptr # rd.ptr => rd'.data = expected]_vars

\* The FIFO is a bounded queue, although no side knows the other's pointer.
Queue == INSTANCE BoundedQueue WITH
  Capacity <- DEPTH, queue <- Contents, out <- rd.data
ImplementsQueue == Queue!Spec

\* Full and empty are reported too long but not for ever: at any ratio of the
\* two clocks every word is read in the end, and the next one after it.
ReadsGoOn == []<>(expected = 0) /\ []<>(expected # 0)
=============================================================================
