----------------------------- MODULE AxisBench -----------------------------
(***************************************************************************)
(* axis_async_fifo_tb.cpp: the driver, the FIFO and the receiver, put      *)
(* together by hooks and coroutines.  In a tick at least one clock rises.  *)
(* Module Scheduler orders what happens in it: sample hooks of the risen   *)
(* clocks, the DUT, their drive hooks, then the coroutines waiting for the *)
(* edge.  Nothing runs between ticks, and falling edges only let the DUT   *)
(* compute outputs from its registers, which are definitions here.         *)
(*                                                                         *)
(* The bench sends one frame; here the writer sends the frames of a plan,  *)
(* one at an edge, with any pause.  A frame FIFO never holds the sender    *)
(* back and loses what it has no room for: FrameFifoHandles says for which *)
(* plans, the bench's among them, it forwards every frame that fits.       *)
(***************************************************************************)
EXTENDS Integers, SequencesExt

CONSTANTS
  DEPTH, AUX_DEPTH, AWID, AUX_AWID, Lanes, BlankBeat, BlankAux,
  StreamPlans, FramePlans,  \* sequences of frames as send() takes them
  ResetEdges,               \* edges of s_clk for which both resets are held
  WriteAfter,               \* edges of s_clk before the writer sends
  ReadAfter,                \* edges of m_clk before the reader reads
  ExpWords                  \* words after which the reader stops

VARIABLES
  tx_queue, tx, tx_buf_idx, mst_tready_i, s_axis,          \* AxisMaster
  slv_i, recv_buf, rx_queue, tready_o, m_tready,           \* AxisSlave
  FRAME_FIFO, dwr, drd, awr, ard, frame_beat_cnt, frame_overflow,
  state, skip_cnt, afifo_rd_en_fsm, frame_dfifo_rd_en, frame_tkeep, \* AxisAsyncFifo
  rising,     \* the clocks that rise in this tick
  step,       \* where in the tick the scheduler is
  rst,        \* s_rst and m_rst: one coroutine writes both
  sEdges, mEdges, \* edges seen by the coroutines that count them
  sent,       \* frames of the plan the writer has sent
  rx,         \* the reader's count of words
  plan,       \* the frames to send: it never changes
  handshake,  \* history: the sides on which this tick's edge took a beat
  accepted,   \* history: the beats the FIFO took
  received    \* history: the frames the reader got

masterVars == <<tx_queue, tx, tx_buf_idx, mst_tready_i, s_axis>>
slaveVars == <<slv_i, recv_buf, rx_queue, tready_o, m_tready>>
dutVars == <<dwr, awr, frame_beat_cnt, frame_overflow, drd, ard, state, skip_cnt,
             afifo_rd_en_fsm, frame_dfifo_rd_en, frame_tkeep>>
benchVars == <<rst, sEdges, mEdges, sent, rx, received>>
fixed == <<FRAME_FIFO, plan>>
vars == <<masterVars, slaveVars, dutVars, benchVars, fixed, rising, step,
          handshake, accepted>>

Mst == INSTANCE AxisMaster
Slv == INSTANCE AxisSlave
Dut == INSTANCE AxisAsyncFifo

Beats(frame) == (Len(frame["data"]) + Lanes - 1) \div Lanes
Fits(frame) == Beats(frame) <= DEPTH

\* The beats of a frame, as AXI4-Stream has them: every lane but those after
\* the last byte of the frame is kept, tlast marks the last beat, sof sets bit 0
\* of the first beat's tuser.
BeatOf(frame, k) ==
  LET lanes == {l \in 1 .. Lanes : (k - 1) * Lanes + l <= Len(frame["data"])}
  IN [keep |-> lanes,
      bytes |-> [l \in lanes |-> frame["data"][(k - 1) * Lanes + l]],
      last |-> k = Beats(frame), id |-> frame["id"], dest |-> frame["dest"],
      user |-> IF k = 1 /\ frame["sof"] /\ frame["user"] % 2 = 0
               THEN frame["user"] + 1 ELSE frame["user"]]
Packed(frames) ==
  FlattenSeq([i \in DOMAIN frames |->
                [k \in 1 .. Beats(frames[i]) |-> BeatOf(frames[i], k)]])

\* Frames as send() takes them, the bytes of the plans and of the FIFO's memory
\* at power-up, and the words of the two memories.
Frames == [data : Seq(0 .. 255), id : Nat, dest : Nat, user : Nat, sof : BOOLEAN]
Bytes == {b \in 0 .. 255 : \E p \in StreamPlans \cup FramePlans :
            \E i \in DOMAIN p : b \in Range(p[i]["data"])} \cup {0}
Words == [tdata : [1 .. Lanes -> Bytes], tlast : BOOLEAN, tid : Nat, tdest : Nat, tuser : Nat]
AuxWords == [tkeep : SUBSET (1 .. Lanes), bad : BOOLEAN]

ASSUME AxisBenchAssumption ==
  /\ DEPTH \in Nat \ {0} /\ AWID \in Nat \ {0} /\ DEPTH = 2 ^ AWID
  /\ AUX_DEPTH = DEPTH /\ AUX_AWID = AWID /\ Lanes \in Nat \ {0}
  /\ Dut!D!GrayCode /\ Dut!A!GrayCode
  /\ ResetEdges \in Nat \ {0} /\ WriteAfter \in Nat /\ WriteAfter >= ResetEdges
  /\ ReadAfter \in Nat /\ ExpWords \in Nat
  /\ StreamPlans \cup FramePlans \subseteq Seq(Frames)
  /\ BlankBeat \in Words /\ BlankAux \in AuxWords

\* The plans a frame FIFO handles: frames that fit, all of them together, and
\* after them at most one that does not; a frame of several beats fills its last
\* one, as the FIFO keeps one tkeep of a frame.
FrameFifoHandles(p) ==
  \E n \in 0 .. Len(p) :
    /\ Len(p) <= n + 1 /\ \A i \in DOMAIN p : Fits(p[i]) <=> i <= n
    /\ Len(Packed(SubSeq(p, 1, n))) <= DEPTH
    /\ \A i \in 1 .. n :
         Len(p[i]["data"]) <= Lanes \/ Len(p[i]["data"]) % Lanes = 0
Handled == FRAME_FIFO => FrameFifoHandles(plan)

Init ==
  /\ Mst!Init /\ Slv!Init /\ Dut!Init
  /\ rising = {} /\ step = "sample" /\ rst = TRUE
  /\ sEdges = 0 /\ mEdges = 0 /\ sent = 0 /\ rx = 0
  /\ plan \in IF FRAME_FIFO THEN FramePlans ELSE StreamPlans
  /\ handshake = {} /\ accepted = <<>> /\ received = <<>>

-----------------------------------------------------------------------------
(* A tick *)

Goto(from, to) == step = from /\ step' = to

\* sample(posedge): each BFM registers what the edge will see.
Sample(clocks) ==
  /\ Goto("sample", "eval")
  /\ rising' = clocks
  /\ IF "s" \in clocks THEN Mst!update_input(Dut!s_tready)
                       ELSE UNCHANGED masterVars
  /\ IF "m" \in clocks
     THEN Slv!update_input(Dut!m_tvalid, Dut!m_tdata, Dut!m_tkeep, Dut!m_tlast)
          /\ UNCHANGED tready_o
     ELSE UNCHANGED slaveVars
  /\ handshake' = {}
  /\ UNCHANGED <<dutVars, benchVars, fixed, accepted>>

Takes(side) == side \in rising /\ ~rst /\
  CASE side = "s" -> s_axis.tvalid /\ Dut!s_tready
    [] side = "m" -> Dut!m_tvalid /\ m_tready

Eval ==
  /\ Goto("eval", "drive")
  /\ IF "s" \in rising THEN Dut!SEdge(rst, s_axis)
     ELSE UNCHANGED <<dwr, awr, frame_beat_cnt, frame_overflow>>
  /\ IF "m" \in rising THEN Dut!MEdge(rst, m_tready)
     ELSE UNCHANGED <<drd, ard, state, skip_cnt, afifo_rd_en_fsm,
                      frame_dfifo_rd_en, frame_tkeep>>
  /\ handshake' = {side \in {"s", "m"} : Takes(side)}
  /\ accepted' = IF Takes("s") THEN Append(accepted, s_axis) ELSE accepted
  /\ UNCHANGED <<masterVars, slaveVars, benchVars, fixed, rising>>

\* drive(posedge): each BFM sets the wires for the next edge.
Drive ==
  /\ Goto("drive", "wake")
  /\ IF "s" \in rising THEN Mst!update_output ELSE UNCHANGED masterVars
  /\ IF "m" \in rising THEN Slv!update_output /\ UNCHANGED tready_o
                       ELSE UNCHANGED slaveVars
  /\ UNCHANGED <<dutVars, benchVars, fixed, rising, handshake, accepted>>

\* An edge wakes the reset coroutine and the writer.
Reset == rst' = (rst /\ sEdges + 1 < ResetEdges)
Count(edges, bound) == IF edges < bound THEN edges + 1 ELSE edges

Send ==
  /\ sEdges + 1 >= WriteAfter /\ sent < Len(plan)
  /\ Mst!send(plan[sent + 1]) /\ sent' = sent + 1
Pause == UNCHANGED <<masterVars, sent>>

WakeS == Reset /\ sEdges' = Count(sEdges, WriteAfter) /\ (Send \/ Pause)

\* The reader takes one frame at an edge, until it has ExpWords words.
CountAllWords(n) == n                                           \* mutant
CountWords(n) == IF n < ExpWords THEN n ELSE ExpWords

Read ==
  IF mEdges = ReadAfter /\ rx < ExpWords /\ rx_queue # <<>>
  THEN /\ Slv!recv
       /\ received' = Append(received, Head(rx_queue))
       /\ rx' = CountWords(rx + Len(Head(rx_queue)) \div Lanes)
  ELSE UNCHANGED <<rx_queue, received, rx>>

WakeM(ready) ==
  /\ Slv!set_tready(ready) /\ mEdges' = Count(mEdges, ReadAfter) /\ Read
  /\ UNCHANGED <<slv_i, recv_buf, m_tready>>

Wake(ready) ==
  /\ Goto("wake", "sample")
  /\ IF "s" \in rising THEN WakeS ELSE UNCHANGED <<masterVars, rst, sEdges, sent>>
  /\ IF "m" \in rising THEN WakeM(ready)
     ELSE UNCHANGED <<slaveVars, mEdges, rx, received>>
  /\ rising' = {}
  /\ UNCHANGED <<dutVars, fixed, handshake, accepted>>

Next ==
  \/ \E clocks \in (SUBSET {"s", "m"}) \ {{}} : Sample(clocks)
  \/ Eval \/ Drive
  \/ \E ready \in BOOLEAN : Wake(ready)

Spec == Init /\ [][Next]_vars

\* Both clocks toggle for ever and the scheduler finishes every tick; the
\* writer does not pause for ever; and rand() makes the receiver ready, at one
\* edge or another, again and again.
Rises(c) == step = "sample" /\ Next /\ c \in rising'
LiveSpec ==
  /\ Spec /\ WF_vars(Next)
  /\ SF_vars(Rises("s")) /\ SF_vars(Rises("m"))
  /\ SF_vars(Next /\ sent' # sent)
  /\ SF_vars("m" \in rising /\ Wake(TRUE))

-----------------------------------------------------------------------------
(* Properties *)

Seen(axis) ==
  [keep |-> axis.tkeep, bytes |-> [l \in axis.tkeep |-> axis.tdata[l]],
   last |-> axis.tlast, id |-> axis.tid, dest |-> axis.tdest, user |-> axis.tuser]

\* What must come out: frames of no beats are never seen, and a frame FIFO
\* drops those that do not fit.
Delivers(frame) == Beats(frame) > 0 /\ (FRAME_FIFO => Fits(frame))
Due(frames) ==
  FlattenSeq([i \in DOMAIN frames |->
                IF Delivers(frames[i]) THEN <<frames[i]>> ELSE <<>>])
Promised(frames) == [i \in DOMAIN Due(frames) |-> Due(frames)[i]["data"]]
Delivered == received \o rx_queue

TypeOK ==
  /\ step \in {"sample", "eval", "drive", "wake"}
  /\ rising \subseteq {"s", "m"} /\ handshake \subseteq {"s", "m"}
  /\ sent \in 0 .. Len(plan) /\ rx \in 0 .. ExpWords
  /\ sEdges \in 0 .. WriteAfter /\ mEdges \in 0 .. ReadAfter
  /\ s_axis.tkeep \subseteq 1 .. Lanes /\ s_axis.tdata \in [1 .. Lanes -> Bytes]
  /\ tx_buf_idx \in Nat /\ tx_buf_idx % Lanes = 0
  /\ frame_beat_cnt \in 0 .. 2 * DEPTH - 1 /\ skip_cnt \in 0 .. DEPTH
  /\ state \in {"WAIT", "FORWARD", "DISCARD"}

\* The FIFO takes every beat of every frame once, in order, with the side
\* channels of its own frame, whenever tready stalls the driver and however
\* late the frames are queued.
BeatsAsSent ==
  LET taken == [i \in DOMAIN accepted |-> Seen(accepted[i])]
  IN IsPrefix(taken, Packed(SubSeq(plan, 1, sent)))

\* Whatever the receiver's stalls and the phase of the two clocks, frames come
\* out whole and in the order they were sent; from a frame FIFO those of the
\* plans it handles.
FramesInOrder == IsPrefix(Delivered, Promised(SubSeq(plan, 1, sent)))

\* What the FIFO took and holds no more is with the receiver, but for the beat it
\* puts away after the edge: no beat of a frame that is due is dropped on the way,
\* whatever the writer believes of the FIFO's level, and no frame that fits is
\* taken for a bad one.  Of a frame FIFO that is said for the plans it handles,
\* where no frame follows a bad one: module AxisVerdict has the others.
NothingLost ==
  Dut!D!Size = 0 /\ step # "drive" =>
    \A n \in 0 .. Len(plan) :
      Len(Packed(SubSeq(plan, 1, n))) <= Len(accepted) =>
        IsPrefix(Promised(SubSeq(plan, 1, n)), Delivered)

\* AXI4-Stream: a beat that is offered stays as it is until an edge takes it.
\* The driver's tready and the receiver's tvalid were read before that edge.
MasterSide == <<Dut!m_tvalid, Dut!m_tdata, Dut!m_tkeep, Dut!m_tlast>>
OfferedBeatsHold ==
  [][/\ s_axis.tvalid /\ s_axis' # s_axis => "s" \in handshake'
     /\ Dut!m_tvalid /\ MasterSide' # MasterSide => "m" \in handshake']_vars

\* Nothing waits for ever: driver, FIFO and receiver do not wait for one
\* another's valid and ready in a circle, and every frame that fits arrives.
AllDelivered == <>(Delivered = Promised(plan))
=============================================================================
