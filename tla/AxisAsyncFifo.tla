---------------------------- MODULE AxisAsyncFifo ----------------------------
(***************************************************************************)
(* axis_async_fifo.sv: an AXI4-Stream FIFO between two clocks, built from  *)
(* two asynchronous FIFOs.  As a frame FIFO it always takes a beat, stores *)
(* tkeep once per frame together with a flag that says whether the frame   *)
(* overflowed, and forwards a frame when it is complete; otherwise each    *)
(* beat carries its tkeep and tready holds the sender back.  tkeep is the  *)
(* one side channel in the auxiliary FIFO, as the bench configures it; the *)
(* level, flag and strobe outputs are left out.                            *)
(***************************************************************************)
EXTENDS Integers, Sequences

CONSTANTS
  DEPTH, AUX_DEPTH, AWID, AUX_AWID,  \* AWID is $clog2(DEPTH)
  Lanes, BlankBeat, BlankAux

VARIABLES
  FRAME_FIFO,      \* the parameter: it never changes
  dwr, drd,        \* data_fifo_inst
  awr, ard,        \* aux_fifo_inst
  frame_beat_cnt, frame_overflow,
  state, skip_cnt, afifo_rd_en_fsm, frame_dfifo_rd_en, frame_tkeep

sideS == <<dwr, awr, frame_beat_cnt, frame_overflow>>
sideM == <<drd, ard, state, skip_cnt, afifo_rd_en_fsm, frame_dfifo_rd_en, frame_tkeep>>

D == INSTANCE AsyncFifo WITH
  FWFT <- TRUE, Blank <- BlankBeat, wr <- dwr, rd <- drd
A == INSTANCE AsyncFifo WITH
  DEPTH <- AUX_DEPTH, AWID <- AUX_AWID, FWFT <- TRUE, Blank <- BlankAux,
  wr <- awr, rd <- ard

Init ==
  /\ FRAME_FIFO \in BOOLEAN /\ D!Init /\ A!Init
  /\ frame_beat_cnt = 0 /\ frame_overflow = FALSE
  /\ state = "WAIT" /\ skip_cnt = 0
  /\ afifo_rd_en_fsm = FALSE /\ frame_dfifo_rd_en = FALSE /\ frame_tkeep = {}

-----------------------------------------------------------------------------
(* Slave side *)

s_tready == FRAME_FIFO \/ ~D!wr_full

BadAtLastPlace(wr_en) ==                                        \* mutant
  frame_overflow \/ (wr_en /\ D!wr_full) \/ frame_beat_cnt >= DEPTH - 1

\* Overflow at an earlier beat, at this one, or more beats than the FIFO holds.
FrameIsBad(wr_en) ==
  \/ frame_overflow
  \/ wr_en /\ D!wr_full
  \/ frame_beat_cnt >= DEPTH

SEdge(rst, axis) ==
  LET wr_en == axis.tvalid /\ s_tready
      frame_tlast == wr_en /\ axis.tlast
      word == [tdata |-> axis.tdata, tlast |-> axis.tlast, tid |-> axis.tid,
               tdest |-> axis.tdest, tuser |-> axis.tuser]
      aux == [tkeep |-> axis.tkeep, bad |-> FRAME_FIFO /\ FrameIsBad(wr_en)]
  IN /\ D!WrEdge(rst, wr_en, word)
     /\ A!WrEdge(rst, IF FRAME_FIFO THEN frame_tlast ELSE wr_en, aux)
     /\ IF rst \/ frame_tlast
        THEN frame_beat_cnt' = 0 /\ frame_overflow' = FALSE
        ELSE /\ frame_beat_cnt' = IF FRAME_FIFO /\ wr_en
                                  THEN D!Inc(frame_beat_cnt) ELSE frame_beat_cnt
             /\ frame_overflow' = (frame_overflow \/ (FRAME_FIFO /\ wr_en /\ D!wr_full))

-----------------------------------------------------------------------------
(* Master side *)

m_tvalid == (FRAME_FIFO => state = "FORWARD") /\ ~D!rd_empty
m_tdata == drd.data.tdata
m_tlast == drd.data.tlast
m_tkeep == IF FRAME_FIFO THEN frame_tkeep ELSE ard.data.tkeep

FrameReady == ~A!rd_empty /\ ~D!rd_empty

nstate(tready) ==
  CASE state = "WAIT" -> IF ~FrameReady THEN "WAIT"
                         ELSE IF ard.data.bad THEN "DISCARD" ELSE "FORWARD"
    [] state = "FORWARD" -> IF m_tvalid /\ tready /\ m_tlast THEN "WAIT" ELSE "FORWARD"
    [] state = "DISCARD" -> IF \/ m_tlast
                               \/ D!rd_empty /\ skip_cnt # 0
                               \/ skip_cnt = DEPTH
                            THEN "WAIT" ELSE "DISCARD"

\* The frame state machine; afifo_rd_en_fsm and frame_dfifo_rd_en are registers,
\* so the FIFOs move one edge after the state does.
FrameEdge(rst, tready) ==
  LET skips == state = "DISCARD" /\ ~m_tlast /\ ~D!rd_empty
      begins == state = "WAIT" /\ FrameReady
  IN /\ D!RdEdge(rst, IF state = "FORWARD" THEN m_tvalid /\ tready
                                           ELSE frame_dfifo_rd_en)
     /\ A!RdEdge(rst, afifo_rd_en_fsm)
     /\ state' = IF rst THEN "WAIT" ELSE nstate(tready)
     /\ afifo_rd_en_fsm' = (~rst /\ begins)
     /\ frame_dfifo_rd_en' = (~rst /\ skips)
     /\ frame_tkeep' = IF rst THEN 1 .. Lanes
                       ELSE IF begins /\ ~ard.data.bad THEN ard.data.tkeep
                       ELSE frame_tkeep
     /\ skip_cnt' = IF rst \/ (begins /\ ard.data.bad) THEN 0
                    ELSE IF skips /\ skip_cnt # DEPTH THEN skip_cnt + 1
                    ELSE skip_cnt

BeatEdge(rst, tready) ==
  /\ D!RdEdge(rst, tready /\ ~D!rd_empty)
  /\ A!RdEdge(rst, tready /\ ~D!rd_empty)
  /\ UNCHANGED <<state, skip_cnt, afifo_rd_en_fsm, frame_dfifo_rd_en, frame_tkeep>>

MEdge(rst, tready) ==
  IF FRAME_FIFO THEN FrameEdge(rst, tready) ELSE BeatEdge(rst, tready)
=============================================================================
