---------------------------- MODULE AxisVerdict ----------------------------
(***************************************************************************)
(* The frame FIFO's own word on what it took.  At the last beat of a frame *)
(* axis_async_fifo.sv registers s_good_frame or s_bad_frame; the bench     *)
(* connects neither.  They are the RTL's promise for plans in which frames *)
(* follow one that did not fit, of which AxisBench says nothing.           *)
(***************************************************************************)
EXTENDS AxisBench

VARIABLE
  good  \* history: the data of the frames s_good_frame was raised for

\* The frame whose last beat the FIFO takes: frames without beats have none.
Ended ==
  LET seen == SelectSeq(plan, LAMBDA frame : Beats(frame) > 0)
  IN seen[Len(SelectSeq(accepted, LAMBDA beat : beat.tlast)) + 1]

s_good_frame ==
  FRAME_FIFO /\ Takes("s") /\ s_axis.tlast /\ ~Dut!FrameIsBad(TRUE)

VerdictInit == Init /\ good = <<>>
VerdictNext ==
  /\ Next
  /\ good' = IF step = "eval" /\ s_good_frame
             THEN Append(good, Ended["data"]) ELSE good
VerdictSpec == VerdictInit /\ [][VerdictNext]_<<vars, good>>

\* "Bad frames are detected and discarded" (README.md), and no others: once the
\* FIFO is empty, each frame it called good has come out, whatever came before
\* that frame.  The code violates this: DISCARD ends at a tlast, and when the
\* bad frame's own tlast was refused by the full FIFO it runs on to that of the
\* frame behind it.
GoodFramesForwarded ==
  Dut!D!Size = 0 /\ step # "drive" => IsPrefix(good, Delivered)
=============================================================================
