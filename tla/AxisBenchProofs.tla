--------------------------- MODULE AxisBenchProofs ---------------------------
(***************************************************************************)
(* What holds of the AXI4-Stream bench for every depth, width and set of   *)
(* plans: offered beats are held, the beats taken are those of the sent    *)
(* frames in order, types; and, of a frame FIFO for the plans it handles,  *)
(* frames come out whole, in order, and all.  DP and AP are the generic    *)
(* theorems of AsyncFifoProofs for the data FIFO and for the side          *)
(* channel's.                                                              *)
(*                                                                         *)
(* The last two theorems take most of the module.  Their invariant FlowInv *)
(* says where the receiver is in the frames due (Reached), and what both   *)
(* FIFOs hold between it and the writer: beat by beat in stream mode       *)
(* (StreamAt), and in frame mode, where the writer and the frame state     *)
(* machine are followed too (FrameAt: Writing, AuxHeld, Reading).          *)
(***************************************************************************)
EXTENDS AxisBench, SeqLemmas

DP == INSTANCE AsyncFifoProofs WITH
  FWFT <- TRUE, Blank <- BlankBeat, wr <- dwr, rd <- drd
AP == INSTANCE AsyncFifoProofs WITH
  DEPTH <- AUX_DEPTH, AWID <- AUX_AWID, FWFT <- TRUE, Blank <- BlankAux,
  wr <- awr, rd <- ard

\* The DUT and AsyncFifoProofs mean the same by AsyncFifo.
LEMMA SameData ==
  /\ \A r, en, word : Dut!D!WrEdge(r, en, word) <=> DP!WrEdge(r, en, word)
  /\ \A r, en : Dut!D!RdEdge(r, en) <=> DP!RdEdge(r, en)
  /\ Dut!D!Init <=> DP!Init
  /\ Dut!D!wr_full <=> DP!wr_full
  /\ Dut!D!rd_empty <=> DP!rd_empty
  /\ Dut!D!GrayCode <=> DP!GrayCode
<1>1. Dut!D!bin2gray = DP!bin2gray
  BY DEF Dut!D!bin2gray, DP!bin2gray, Dut!D!Pointers, DP!Pointers, Dut!D!Xor, DP!Xor,
         Dut!D!Shr, DP!Shr, Dut!D!Bits, DP!Bits
<1>2. Dut!D!gray2bin = DP!gray2bin
  BY Zenon DEF Dut!D!gray2bin, DP!gray2bin, Dut!D!Pointers, DP!Pointers, Dut!D!Xor, DP!Xor,
         Dut!D!Shr, DP!Shr, Dut!D!Bits, DP!Bits, Dut!D!PrefixXor, DP!PrefixXor,
         Dut!D!Passes, DP!Passes, Dut!D!PTRW, DP!PTRW
<1>3. /\ \A n : Dut!D!Addr(n) = DP!Addr(n) /\ Dut!D!Inc(n) = DP!Inc(n) /\ Dut!D!Bits(n) = DP!Bits(n)
      /\ \A p, r, m : Dut!D!Moved(p, r, m) = DP!Moved(p, r, m)
  BY DEF Dut!D!Addr, DP!Addr, Dut!D!Inc, DP!Inc, Dut!D!Bits, DP!Bits, Dut!D!Moved, DP!Moved
<1>4. (Dut!D!wr_full <=> DP!wr_full) /\ (Dut!D!rd_empty <=> DP!rd_empty)
  BY <1>2, <1>3 DEF Dut!D!wr_full, DP!wr_full, Dut!D!rd_empty, DP!rd_empty,
       Dut!D!rd_ptr_bin, DP!rd_ptr_bin, Dut!D!wr_ptr_bin, DP!wr_ptr_bin
<1>5. \A pop : Dut!D!Shown(pop) = DP!Shown(pop)
  BY <1>3 DEF Dut!D!Shown, DP!Shown
<1>6. \A r, en, word : Dut!D!WrEdge(r, en, word) <=> DP!WrEdge(r, en, word)
  BY <1>1, <1>3, <1>4 DEF Dut!D!WrEdge, DP!WrEdge
<1>7. \A r, en : Dut!D!RdEdge(r, en) <=> DP!RdEdge(r, en)
  BY <1>1, <1>3, <1>4, <1>5 DEF Dut!D!RdEdge, DP!RdEdge
<1>8. Dut!D!Init <=> DP!Init
  BY <1>3 DEF Dut!D!Init, DP!Init
<1>9. Dut!D!GrayCode <=> DP!GrayCode
  BY <1>1, <1>2, <1>3 DEF Dut!D!GrayCode, DP!GrayCode, Dut!D!Pointers, DP!Pointers
<1> QED
  BY <1>4, <1>6, <1>7, <1>8, <1>9

LEMMA SameAux ==
  /\ \A r, en, word : Dut!A!WrEdge(r, en, word) <=> AP!WrEdge(r, en, word)
  /\ \A r, en : Dut!A!RdEdge(r, en) <=> AP!RdEdge(r, en)
  /\ Dut!A!Init <=> AP!Init
  /\ Dut!A!wr_full <=> AP!wr_full
  /\ Dut!A!rd_empty <=> AP!rd_empty
  /\ Dut!A!GrayCode <=> AP!GrayCode
<1>1. Dut!A!bin2gray = AP!bin2gray
  BY DEF Dut!A!bin2gray, AP!bin2gray, Dut!A!Pointers, AP!Pointers, Dut!A!Xor, AP!Xor,
         Dut!A!Shr, AP!Shr, Dut!A!Bits, AP!Bits
<1>2. Dut!A!gray2bin = AP!gray2bin
  BY Zenon DEF Dut!A!gray2bin, AP!gray2bin, Dut!A!Pointers, AP!Pointers, Dut!A!Xor, AP!Xor,
         Dut!A!Shr, AP!Shr, Dut!A!Bits, AP!Bits, Dut!A!PrefixXor, AP!PrefixXor,
         Dut!A!Passes, AP!Passes, Dut!A!PTRW, AP!PTRW
<1>3. /\ \A n : Dut!A!Addr(n) = AP!Addr(n) /\ Dut!A!Inc(n) = AP!Inc(n) /\ Dut!A!Bits(n) = AP!Bits(n)
      /\ \A p, r, m : Dut!A!Moved(p, r, m) = AP!Moved(p, r, m)
  BY DEF Dut!A!Addr, AP!Addr, Dut!A!Inc, AP!Inc, Dut!A!Bits, AP!Bits, Dut!A!Moved, AP!Moved
<1>4. (Dut!A!wr_full <=> AP!wr_full) /\ (Dut!A!rd_empty <=> AP!rd_empty)
  BY <1>2, <1>3 DEF Dut!A!wr_full, AP!wr_full, Dut!A!rd_empty, AP!rd_empty,
       Dut!A!rd_ptr_bin, AP!rd_ptr_bin, Dut!A!wr_ptr_bin, AP!wr_ptr_bin
<1>5. \A pop : Dut!A!Shown(pop) = AP!Shown(pop)
  BY <1>3 DEF Dut!A!Shown, AP!Shown
<1>6. \A r, en, word : Dut!A!WrEdge(r, en, word) <=> AP!WrEdge(r, en, word)
  BY <1>1, <1>3, <1>4 DEF Dut!A!WrEdge, AP!WrEdge
<1>7. \A r, en : Dut!A!RdEdge(r, en) <=> AP!RdEdge(r, en)
  BY <1>1, <1>3, <1>4, <1>5 DEF Dut!A!RdEdge, AP!RdEdge
<1>8. Dut!A!Init <=> AP!Init
  BY <1>3 DEF Dut!A!Init, AP!Init
<1>9. Dut!A!GrayCode <=> AP!GrayCode
  BY <1>1, <1>2, <1>3 DEF Dut!A!GrayCode, AP!GrayCode, Dut!A!Pointers, AP!Pointers
<1> QED
  BY <1>4, <1>6, <1>7, <1>8, <1>9

LEMMA EmptyAlike == Dut!D!rd_empty' <=> DP!rd_empty'
<1>1. Dut!D!gray2bin = DP!gray2bin
  BY Zenon DEF Dut!D!gray2bin, DP!gray2bin, Dut!D!Pointers, DP!Pointers, Dut!D!Xor, DP!Xor,
         Dut!D!Shr, DP!Shr, Dut!D!Bits, DP!Bits, Dut!D!PrefixXor, DP!PrefixXor,
         Dut!D!Passes, DP!Passes, Dut!D!PTRW, DP!PTRW
<1> QED
  BY <1>1 DEF Dut!D!rd_empty, DP!rd_empty, Dut!D!wr_ptr_bin, DP!wr_ptr_bin

\* The two FIFOs have one depth, so the same codes.
LEMMA SameDepth ==
  /\ AP!Pointers = DP!Pointers /\ AP!bin2gray = DP!bin2gray
  /\ \A n : AP!Addr(n) = DP!Addr(n) /\ AP!Inc(n) = DP!Inc(n)
<1>1. AUX_DEPTH = DEPTH /\ AUX_AWID = AWID
  BY AxisBenchAssumption
<1>2. AP!Pointers = DP!Pointers /\ \A n : AP!Addr(n) = DP!Addr(n) /\ AP!Inc(n) = DP!Inc(n)
  BY <1>1 DEF AP!Pointers, DP!Pointers, AP!Addr, DP!Addr, AP!Inc, DP!Inc
<1>3. \A u, v : AP!Xor(u, v) = DP!Xor(u, v)
  BY <1>1 DEF AP!Xor, DP!Xor
<1>4. \A n : AP!Bits(n) = DP!Bits(n)
  BY <1>1 DEF AP!Bits, DP!Bits
<1>5. \A v, n : AP!Shr(v, n) = DP!Shr(v, n)
  BY <1>1 DEF AP!Shr, DP!Shr
<1>6. AP!bin2gray = DP!bin2gray
  BY <1>2, <1>3, <1>4, <1>5 DEF AP!bin2gray, DP!bin2gray
<1> QED
  BY <1>2, <1>6

-----------------------------------------------------------------------------
(* The two FIFOs inside the DUT *)

LEMMA Codes == DP!GrayCode /\ AP!GrayCode
BY AxisBenchAssumption, SameData, SameAux

\* Without frames both FIFOs hold one word for each beat, so they move together.
InStep ==
  /\ dwr.ptr = awr.ptr /\ dwr.gray = awr.gray
  /\ dwr.rd_gray_ms = awr.rd_gray_ms /\ dwr.rd_gray_wr = awr.rd_gray_wr
  /\ drd.ptr = ard.ptr /\ drd.gray = ard.gray
  /\ drd.wr_gray_ms = ard.wr_gray_ms /\ drd.wr_gray_rd = ard.wr_gray_rd

DutInv ==
  /\ rst \in BOOLEAN /\ FRAME_FIFO \in BOOLEAN
  /\ DP!FifoInv /\ DP!HeadShown /\ DP!HasMemory /\ (rst => DP!AllZero)
  /\ AP!FifoInv /\ AP!HeadShown /\ AP!HasMemory /\ (rst => AP!AllZero)
  /\ ~FRAME_FIFO => InStep

LEMMA DutInit == Init => DutInv
<1> SUFFICES ASSUME Init PROVE DutInv
  OBVIOUS
<1>1. DP!Init /\ AP!Init /\ FRAME_FIFO \in BOOLEAN /\ rst = TRUE
  BY SameData, SameAux DEF Init, Dut!Init
<1>2. DP!FifoInv /\ DP!AllZero /\ AP!FifoInv /\ AP!AllZero
  BY <1>1, Codes, DP!FifoInit, AP!FifoInit, AxisBenchAssumption
<1>3. DP!HasMemory /\ AP!HasMemory
  BY <1>1 DEF DP!Init, AP!Init, DP!HasMemory, AP!HasMemory
<1>4. DP!rd_empty /\ AP!rd_empty
  <2>1. 0 \in DP!Pointers /\ 0 \in AP!Pointers
    BY <1>2, <1>1 DEF DP!FifoInv, AP!FifoInv, DP!AllZero, AP!AllZero
  <2>2. DP!gray2bin[DP!bin2gray[0]] = 0 /\ AP!gray2bin[AP!bin2gray[0]] = 0
    BY <2>1, Codes, DP!Decoded, AP!Decoded, AxisBenchAssumption
  <2> QED
    BY <1>2, <2>2 DEF DP!AllZero, AP!AllZero, DP!Synchronised, AP!Synchronised,
         DP!rd_empty, AP!rd_empty, DP!wr_ptr_bin, AP!wr_ptr_bin
<1>5. InStep
  <2>1. \A n : AP!Bits(n) = DP!Bits(n)
    BY AxisBenchAssumption DEF AP!Bits, DP!Bits
  <2> QED
    BY <1>1, <2>1 DEF DP!Init, AP!Init, InStep
<1> QED
  BY <1>1, <1>2, <1>3, <1>4, <1>5 DEF DutInv, DP!HeadShown, AP!HeadShown

\* An edge of a clock is an edge of both FIFOs.
LEMMA EvalMoves ==
  ASSUME Eval
  PROVE  /\ UNCHANGED dwr \/ \E en, word : DP!WrEdge(rst, en, word)
         /\ UNCHANGED drd \/ \E en : DP!RdEdge(rst, en)
         /\ UNCHANGED awr \/ \E en, word : AP!WrEdge(rst, en, word)
         /\ UNCHANGED ard \/ \E en : AP!RdEdge(rst, en)
<1>1. ASSUME "s" \in rising
      PROVE  /\ \E en, word : DP!WrEdge(rst, en, word)
             /\ \E en, word : AP!WrEdge(rst, en, word)
  <2> DEFINE wr_en == s_axis.tvalid /\ Dut!s_tready
             last == wr_en /\ s_axis.tlast
             word == [tdata |-> s_axis.tdata, tlast |-> s_axis.tlast, tid |-> s_axis.tid,
                      tdest |-> s_axis.tdest, tuser |-> s_axis.tuser]
             aux == [tkeep |-> s_axis.tkeep, bad |-> FRAME_FIFO /\ Dut!FrameIsBad(wr_en)]
  <2>1. /\ Dut!D!WrEdge(rst, wr_en, word)
        /\ Dut!A!WrEdge(rst, IF FRAME_FIFO THEN last ELSE wr_en, aux)
    BY <1>1 DEF Eval, Dut!SEdge
  <2> HIDE DEF wr_en, last, word, aux
  <2> QED
    BY <2>1, SameData, SameAux
<1>2. /\ UNCHANGED drd \/ \E en : DP!RdEdge(rst, en)
      /\ UNCHANGED ard \/ \E en : AP!RdEdge(rst, en)
  BY SameData, SameAux DEF Eval, Dut!MEdge, Dut!FrameEdge, Dut!BeatEdge
<1>3. /\ UNCHANGED dwr \/ \E en, word : DP!WrEdge(rst, en, word)
      /\ UNCHANGED awr \/ \E en, word : AP!WrEdge(rst, en, word)
  BY <1>1 DEF Eval
<1> QED
  BY <1>2, <1>3

LEMMA FlagsInStep ==
  ASSUME DP!FifoInv, AP!FifoInv, InStep
  PROVE  (DP!wr_full <=> AP!wr_full) /\ (DP!rd_empty <=> AP!rd_empty)
<1>1. PICK c \in AP!Pointers, a \in AP!Pointers :
        awr.rd_gray_wr = AP!bin2gray[a] /\ ard.wr_gray_rd = AP!bin2gray[c]
  BY DEF AP!FifoInv, AP!InOrder, AP!Synchronised
<1>2. AP!rd_ptr_bin = a /\ AP!wr_ptr_bin = c
  BY <1>1, Codes, AP!Decoded, AxisBenchAssumption DEF AP!rd_ptr_bin, AP!wr_ptr_bin
<1>3. DP!rd_ptr_bin = a /\ DP!wr_ptr_bin = c
  <2>1. /\ a \in DP!Pointers /\ dwr.rd_gray_wr = DP!bin2gray[a]
        /\ c \in DP!Pointers /\ drd.wr_gray_rd = DP!bin2gray[c]
    BY <1>1, SameDepth DEF InStep
  <2> QED
    BY <2>1, Codes, DP!Decoded, AxisBenchAssumption DEF DP!rd_ptr_bin, DP!wr_ptr_bin
<1>4. DP!rd_empty <=> AP!rd_empty
  BY <1>2, <1>3 DEF DP!rd_empty, AP!rd_empty, InStep
<1>5. DP!wr_full <=> AP!wr_full
  <2>1. AUX_DEPTH = DEPTH
    BY AxisBenchAssumption
  <2> QED
    BY <1>2, <1>3, <2>1, SameDepth DEF DP!wr_full, AP!wr_full, InStep
<1> QED
  BY <1>4, <1>5

LEMMA InStepKept ==
  ASSUME DutInv, ~FRAME_FIFO, Eval
  PROVE  InStep'
<1>1. /\ InStep /\ (DP!wr_full <=> AP!wr_full) /\ (DP!rd_empty <=> AP!rd_empty)
      /\ AP!bin2gray = DP!bin2gray
      /\ \A p, r, m : AP!Moved(p, r, m) = DP!Moved(p, r, m)
  <2>1. \A p, r, m : AP!Moved(p, r, m) = DP!Moved(p, r, m)
    BY SameDepth DEF AP!Moved, DP!Moved
  <2> QED
    BY <2>1, FlagsInStep, SameDepth DEF DutInv
<1>2. UNCHANGED <<dwr, awr>>
        \/ \E en, word, aux : DP!WrEdge(rst, en, word) /\ AP!WrEdge(rst, en, aux)
  <2>1. ASSUME "s" \in rising
        PROVE  \E en, word, aux : DP!WrEdge(rst, en, word) /\ AP!WrEdge(rst, en, aux)
    <3> DEFINE wr_en == s_axis.tvalid /\ Dut!s_tready
               word == [tdata |-> s_axis.tdata, tlast |-> s_axis.tlast, tid |-> s_axis.tid,
                        tdest |-> s_axis.tdest, tuser |-> s_axis.tuser]
               aux == [tkeep |-> s_axis.tkeep, bad |-> FRAME_FIFO /\ Dut!FrameIsBad(wr_en)]
    <3>1. Dut!D!WrEdge(rst, wr_en, word) /\ Dut!A!WrEdge(rst, wr_en, aux)
      BY <2>1 DEF Eval, Dut!SEdge
    <3> HIDE DEF wr_en, word, aux
    <3> QED
      BY <3>1, SameData, SameAux
  <2> QED
    BY <2>1 DEF Eval
<1>3. UNCHANGED <<drd, ard>>
        \/ \E en : DP!RdEdge(rst, en) /\ AP!RdEdge(rst, en)
  BY SameData, SameAux DEF Eval, Dut!MEdge, Dut!BeatEdge
<1>4. /\ dwr'.ptr = awr'.ptr /\ dwr'.gray = awr'.gray
      /\ dwr'.rd_gray_ms = awr'.rd_gray_ms /\ dwr'.rd_gray_wr = awr'.rd_gray_wr
  BY <1>1, <1>2 DEF InStep, DP!WrEdge, AP!WrEdge
<1>5. /\ drd'.ptr = ard'.ptr /\ drd'.gray = ard'.gray
      /\ drd'.wr_gray_ms = ard'.wr_gray_ms /\ drd'.wr_gray_rd = ard'.wr_gray_rd
  BY <1>1, <1>3 DEF InStep, DP!RdEdge, AP!RdEdge
<1> QED
  BY <1>4, <1>5 DEF InStep

LEMMA EvalKeepsDut == ASSUME DutInv, Eval PROVE DutInv'
<1>1. rst \in BOOLEAN /\ UNCHANGED <<rst, FRAME_FIFO>>
  BY DEF DutInv, Eval, benchVars, fixed
<1>2. DP!FifoInv' /\ DP!HeadShown' /\ DP!HasMemory' /\ (rst => DP!AllZero')
  <2>1. /\ DP!WrMoves(rst) \/ UNCHANGED dwr
        /\ DP!RdMoves(rst) \/ UNCHANGED drd
    BY <1>1, EvalMoves, DP!EdgesMove, AxisBenchAssumption
  <2>2. DP!FifoInv'
    BY <1>1, <2>1, Codes, DP!EdgesKeep, AxisBenchAssumption DEF DutInv
  <2>3. rst => DP!AllZero'
    BY <1>1, <2>1, DP!ZeroStays, AxisBenchAssumption DEF DutInv
  <2>4. DP!HasMemory'
    BY <1>1, EvalMoves, DP!MemoryStays, AxisBenchAssumption DEF DutInv
  <2>5. PICK en : DP!RdEdge(rst, en) \/ UNCHANGED drd
    BY EvalMoves
  <2>6. DP!HeadShown'
    BY <1>1, <2>1, <2>5, Codes, DP!HeadKept, AxisBenchAssumption DEF DutInv
  <2> QED
    BY <2>2, <2>3, <2>4, <2>6
<1>3. AP!FifoInv' /\ AP!HeadShown' /\ AP!HasMemory' /\ (rst => AP!AllZero')
  <2>1. /\ AP!WrMoves(rst) \/ UNCHANGED awr
        /\ AP!RdMoves(rst) \/ UNCHANGED ard
    BY <1>1, EvalMoves, AP!EdgesMove, AxisBenchAssumption
  <2>2. AP!FifoInv'
    BY <1>1, <2>1, Codes, AP!EdgesKeep, AxisBenchAssumption DEF DutInv
  <2>3. rst => AP!AllZero'
    BY <1>1, <2>1, AP!ZeroStays, AxisBenchAssumption DEF DutInv
  <2>4. AP!HasMemory'
    BY <1>1, EvalMoves, AP!MemoryStays, AxisBenchAssumption DEF DutInv
  <2>5. PICK en : AP!RdEdge(rst, en) \/ UNCHANGED ard
    BY EvalMoves
  <2>6. AP!HeadShown'
    BY <1>1, <2>1, <2>5, Codes, AP!HeadKept, AxisBenchAssumption DEF DutInv
  <2> QED
    BY <2>2, <2>3, <2>4, <2>6
<1>4. ~FRAME_FIFO => InStep'
  BY InStepKept
<1> QED
  BY <1>1, <1>2, <1>3, <1>4 DEF DutInv

LEMMA OthersKeepDut ==
  ASSUME DutInv, UNCHANGED <<dwr, drd, awr, ard, FRAME_FIFO>>, rst' \in BOOLEAN, rst' => rst
  PROVE  DutInv'
<1> USE DEF DutInv
<1>1. DP!FifoInv' /\ DP!HeadShown' /\ DP!HasMemory' /\ (rst => DP!AllZero')
  BY DEF DP!FifoInv, DP!InOrder, DP!Synchronised, DP!HeadShown, DP!HasMemory, DP!AllZero,
         DP!rd_empty, DP!wr_ptr_bin
<1>2. AP!FifoInv' /\ AP!HeadShown' /\ AP!HasMemory' /\ (rst => AP!AllZero')
  BY DEF AP!FifoInv, AP!InOrder, AP!Synchronised, AP!HeadShown, AP!HasMemory, AP!AllZero,
         AP!rd_empty, AP!wr_ptr_bin
<1>3. ~FRAME_FIFO => InStep'
  BY DEF InStep
<1> QED
  BY <1>1, <1>2, <1>3

LEMMA DutStep == DutInv /\ [Next]_vars => DutInv'
<1> SUFFICES ASSUME DutInv, [Next]_vars PROVE DutInv'
  OBVIOUS
<1>1. CASE Eval
  BY <1>1, EvalKeepsDut
<1>2. CASE ~Eval
  <2>1. UNCHANGED <<dwr, drd, awr, ard, FRAME_FIFO>>
    BY <1>2 DEF Next, Sample, Drive, Wake, vars, dutVars, fixed
  <2>2. Reset \/ UNCHANGED rst
    BY <1>2 DEF Next, Sample, Drive, Wake, WakeS, vars, benchVars
  <2>3. Reset => rst' \in BOOLEAN /\ (rst' => rst)
    BY Zenon DEF Reset
  <2> QED
    BY <2>1, <2>2, <2>3, OthersKeepDut DEF DutInv
<1> QED
  BY <1>1, <1>2


-----------------------------------------------------------------------------
(* The driver's types *)

Sendable == [data : Seq(Bytes), id : Nat, dest : Nat, user : Nat, sof : BOOLEAN]
Wires == [tvalid : BOOLEAN, tdata : [1 .. Lanes -> Bytes], tkeep : SUBSET (1 .. Lanes),
          tlast : BOOLEAN, tid : Nat, tdest : Nat, tuser : Nat]
Queues == [data : Seq(Seq(Bytes)), id : Seq(Nat), dest : Seq(Nat), user : Seq(Nat),
           sof : Seq(BOOLEAN)]

MasterTypes ==
  /\ plan \in Seq(Sendable) /\ sent \in 0 .. Len(plan)
  /\ tx \in Sendable /\ tx_queue \in Queues /\ s_axis \in Wires
  /\ mst_tready_i \in BOOLEAN /\ tx_buf_idx \in Nat

\* What update_output works on: the next frame, or the rest of this one.
Current == IF Mst!Starts THEN [f \in Mst!Fields |-> Mst!Front(f)] ELSE tx
At == IF Mst!Starts THEN 0 ELSE tx_buf_idx

LEMMA AdvanceIs ==
  ASSUME Mst!Advance
  PROVE  /\ UNCHANGED mst_tready_i
         /\ tx_queue' = IF Mst!Starts THEN [f \in Mst!Fields |-> Mst!Rest(f)] ELSE tx_queue
         /\ Current["data"] = <<>> =>
              /\ s_axis' = [s_axis EXCEPT !.tvalid = FALSE]
              /\ tx' = Current /\ tx_buf_idx' = At
         /\ Current["data"] # <<>> =>
              /\ s_axis' = Mst!Beat(Current, At)
              /\ tx' = IF Len(Current["data"]) - At <= Lanes
                       THEN [Current EXCEPT !["data"] = <<>>] ELSE Current
              /\ tx_buf_idx' = IF Len(Current["data"]) - At <= Lanes THEN 0 ELSE At + Lanes
BY DEF Mst!Advance, Current, At

LEMMA PlanTypes == Init => plan \in Seq(Sendable)
<1> SUFFICES ASSUME Init PROVE plan \in Seq(Sendable)
  OBVIOUS
<1>1. plan \in StreamPlans \cup FramePlans /\ plan \in Seq(Frames)
  BY AxisBenchAssumption DEF Init
<1>2. ASSUME NEW i \in DOMAIN plan PROVE plan[i] \in Sendable
  <2>1. plan[i] \in Frames
    BY <1>1
  <2>2. \A j \in DOMAIN plan[i]["data"] : plan[i]["data"][j] \in Bytes
    <3> SUFFICES ASSUME NEW j \in DOMAIN plan[i]["data"] PROVE plan[i]["data"][j] \in Bytes
      OBVIOUS
    <3>1. plan[i]["data"][j] \in 0 .. 255
      <4>1. plan[i]["data"] \in Seq(0 .. 255)
        BY <2>1 DEF Frames
      <4>2. \A T : \A q \in Seq(T) : \A k \in DOMAIN q : q[k] \in T
        OBVIOUS
      <4> QED
        BY <4>1, <4>2
    <3>2. plan[i]["data"][j] \in Range(plan[i]["data"])
      BY DEF Range
    <3> QED
      BY <1>1, <3>1, <3>2 DEF Bytes
  <2>3. plan[i]["data"] \in Seq(Bytes)
    BY <2>1, <2>2 DEF Frames
  <2> QED
    BY <2>1, <2>3 DEF Frames, Sendable
<1> QED
  BY <1>1, <1>2

LEMMA MasterInit == Init => MasterTypes
<1> SUFFICES ASSUME Init PROVE MasterTypes
  OBVIOUS
<1>1. plan \in Seq(Sendable) /\ sent = 0
  BY PlanTypes DEF Init
<1>2. 0 \in Bytes
  BY DEF Bytes
<1>3. /\ <<>> \in Seq(Bytes) /\ <<>> \in Seq(Seq(Bytes)) /\ <<>> \in Seq(Nat)
      /\ <<>> \in Seq(BOOLEAN)
  OBVIOUS
<1>4. tx \in Sendable /\ tx_buf_idx \in Nat
  BY <1>3 DEF Init, Mst!Init, Sendable
<1>5. tx_queue \in Queues
  BY <1>3 DEF Init, Mst!Init, Queues, Mst!Fields
<1>6. s_axis \in Wires
  <2>1. [l \in 1 .. Lanes |-> 0] \in [1 .. Lanes -> Bytes]
    BY <1>2
  <2> QED
    BY <2>1 DEF Init, Mst!Init, Wires
<1>7. mst_tready_i \in BOOLEAN
  BY DEF Init, Mst!Init
<1> QED
  BY <1>1, <1>4, <1>5, <1>6, <1>7 DEF MasterTypes

LEMMA CurrentType ==
  ASSUME MasterTypes
  PROVE  /\ Current \in Sendable /\ At \in Nat
         /\ [Current EXCEPT !["data"] = <<>>] \in Sendable
<1>1. At \in Nat
  BY DEF At, MasterTypes
<1>2. Current \in Sendable
  <2>1. ASSUME NEW T, NEW q \in Seq(T), NEW x \in T
        PROVE  (IF q # <<>> THEN Head(q) ELSE x) \in T
    OBVIOUS
  <2>2. CASE Mst!Starts
    <3>1. Mst!Front("data") \in Seq(Bytes)
      BY <2>1 DEF Mst!Front, MasterTypes, Queues, Sendable
    <3>2. Mst!Front("id") \in Nat /\ Mst!Front("dest") \in Nat /\ Mst!Front("user") \in Nat
      BY <2>1 DEF Mst!Front, MasterTypes, Queues, Sendable
    <3>3. Mst!Front("sof") \in BOOLEAN
      BY <2>1 DEF Mst!Front, MasterTypes, Queues, Sendable
    <3> QED
      BY <2>2, <3>1, <3>2, <3>3 DEF Current, Mst!Fields, Sendable
  <2>3. CASE ~Mst!Starts
    BY <2>3 DEF Current, MasterTypes
  <2> QED
    BY <2>2, <2>3
<1>3. [Current EXCEPT !["data"] = <<>>] \in Sendable
  <2>1. <<>> \in Seq(Bytes)
    OBVIOUS
  <2> QED
    BY <1>2, <2>1 DEF Sendable
<1> QED
  BY <1>1, <1>2, <1>3

LEMMA BeatType ==
  ASSUME s_axis \in Wires, NEW t \in Sendable, NEW idx \in Nat
  PROVE  Mst!Beat(t, idx) \in Wires
<1> DEFINE left == Len(t["data"]) - idx
           lanes == {l \in 1 .. Lanes : l <= left}
           tdata == [l \in 1 .. Lanes |-> IF l \in lanes THEN t["data"][idx + l]
                                                         ELSE s_axis.tdata[l]]
           last == left <= Lanes
           user == IF Mst!SofOn(t, idx) THEN Mst!SetBit0(t["user"]) ELSE t["user"]
<1>1. /\ t["data"] \in Seq(Bytes) /\ t["id"] \in Nat /\ t["dest"] \in Nat
      /\ t["user"] \in Nat /\ s_axis.tdata \in [1 .. Lanes -> Bytes]
  BY DEF Sendable, Wires
<1>2. tdata \in [1 .. Lanes -> Bytes]
  <2>1. ASSUME NEW l \in 1 .. Lanes, l \in lanes PROVE t["data"][idx + l] \in Bytes
    <3>1. idx + l \in 1 .. Len(t["data"])
      BY <1>1, <2>1
    <3> QED
      BY <1>1, <3>1
  <2> QED
    BY <1>1, <2>1
<1>3. user \in Nat
  BY <1>1 DEF Mst!SetBit0
<1>4. lanes \in SUBSET (1 .. Lanes) /\ last \in BOOLEAN
  OBVIOUS
<1>5. Mst!Beat(t, idx) = [tvalid |-> TRUE, tdata |-> tdata, tkeep |-> lanes, tlast |-> last,
                          tid |-> t["id"], tdest |-> t["dest"], tuser |-> user]
  BY DEF Mst!Beat
<1> HIDE DEF left, lanes, tdata, last, user
<1> QED
  BY <1>1, <1>2, <1>3, <1>4, <1>5 DEF Wires

LEMMA AdvanceTypes ==
  ASSUME MasterTypes, Mst!Advance
  PROVE  /\ tx' \in Sendable /\ tx_queue' \in Queues /\ s_axis' \in Wires
         /\ mst_tready_i' \in BOOLEAN /\ tx_buf_idx' \in Nat
<1>1. s_axis \in Wires /\ mst_tready_i \in BOOLEAN /\ tx_queue \in Queues
  BY DEF MasterTypes
<1>2. /\ Current \in Sendable /\ At \in Nat /\ Lanes \in Nat
      /\ [Current EXCEPT !["data"] = <<>>] \in Sendable
  BY CurrentType, AxisBenchAssumption
<1>3. Mst!Beat(Current, At) \in Wires /\ [s_axis EXCEPT !.tvalid = FALSE] \in Wires
  BY <1>1, <1>2, BeatType DEF Wires
<1>4. [f \in Mst!Fields |-> Mst!Rest(f)] \in Queues
  <2>1. ASSUME NEW T, NEW q \in Seq(T) PROVE (IF q # <<>> THEN Tail(q) ELSE <<>>) \in Seq(T)
    OBVIOUS
  <2>2. Mst!Rest("data") \in Seq(Seq(Bytes)) /\ Mst!Rest("sof") \in Seq(BOOLEAN)
    BY <1>1, <2>1 DEF Mst!Rest, Queues
  <2>3. Mst!Rest("id") \in Seq(Nat) /\ Mst!Rest("dest") \in Seq(Nat) /\ Mst!Rest("user") \in Seq(Nat)
    BY <1>1, <2>1 DEF Mst!Rest, Queues
  <2> QED
    BY <2>2, <2>3 DEF Mst!Fields, Queues
<1>5. CASE Current["data"] = <<>>
  BY <1>1, <1>2, <1>3, <1>4, <1>5, AdvanceIs
<1>6. CASE Current["data"] # <<>>
  BY <1>1, <1>2, <1>3, <1>4, <1>6, AdvanceIs
<1> QED
  BY <1>5, <1>6

LEMMA SendTypes ==
  ASSUME MasterTypes, Send
  PROVE  tx_queue' \in Queues /\ sent' \in 0 .. Len(plan)
<1> DEFINE frame == plan[sent + 1]
<1>1. sent + 1 \in 1 .. Len(plan) /\ sent' = sent + 1 /\ Mst!send(frame)
  BY DEF Send, MasterTypes
<1>2. frame \in Sendable
  BY <1>1 DEF MasterTypes
<1>3. tx_queue' = [f \in Mst!Fields |-> Append(tx_queue[f], frame[f])]
  BY <1>1 DEF Mst!send
<1> HIDE DEF frame
<1>4. tx_queue' \in Queues
  <2>1. ASSUME NEW T, NEW q \in Seq(T), NEW x \in T PROVE Append(q, x) \in Seq(T)
    OBVIOUS
  <2>2. /\ frame["data"] \in Seq(Bytes) /\ frame["id"] \in Nat /\ frame["dest"] \in Nat
        /\ frame["user"] \in Nat /\ frame["sof"] \in BOOLEAN
    BY <1>2 DEF Sendable
  <2>3. /\ tx_queue["data"] \in Seq(Seq(Bytes)) /\ tx_queue["id"] \in Seq(Nat)
        /\ tx_queue["dest"] \in Seq(Nat) /\ tx_queue["user"] \in Seq(Nat)
        /\ tx_queue["sof"] \in Seq(BOOLEAN)
    BY DEF MasterTypes, Queues
  <2>4. /\ Append(tx_queue["data"], frame["data"]) \in Seq(Seq(Bytes))
        /\ Append(tx_queue["id"], frame["id"]) \in Seq(Nat)
        /\ Append(tx_queue["dest"], frame["dest"]) \in Seq(Nat)
        /\ Append(tx_queue["user"], frame["user"]) \in Seq(Nat)
        /\ Append(tx_queue["sof"], frame["sof"]) \in Seq(BOOLEAN)
    BY <2>1, <2>2, <2>3
  <2> QED
    BY <1>3, <2>4 DEF Queues, Mst!Fields
<1> QED
  BY <1>1, <1>4

LEMMA MasterStep == MasterTypes /\ [Next]_vars => MasterTypes'
<1> SUFFICES ASSUME MasterTypes, [Next]_vars PROVE MasterTypes'
  OBVIOUS
<1>1. UNCHANGED plan
  BY DEF Next, Sample, Eval, Drive, Wake, fixed, vars
<1>2. CASE UNCHANGED <<masterVars, sent>>
  BY <1>1, <1>2 DEF MasterTypes, masterVars
<1>3. ASSUME Mst!update_input(Dut!s_tready), UNCHANGED sent PROVE MasterTypes'
  <2>1. mst_tready_i' \in BOOLEAN
    BY <1>3 DEF Mst!update_input, Dut!s_tready
  <2> QED
    BY <1>1, <1>3, <2>1 DEF Mst!update_input, MasterTypes
<1>4. ASSUME Mst!Advance, UNCHANGED sent PROVE MasterTypes'
  BY <1>1, <1>4, AdvanceTypes DEF MasterTypes
<1>5. ASSUME Send PROVE MasterTypes'
  BY <1>1, <1>5, SendTypes DEF MasterTypes, Send, Mst!send
<1> QED
  BY <1>2, <1>3, <1>4, <1>5
  DEF Next, Sample, Eval, Drive, Wake, WakeS, Pause, vars, masterVars, benchVars,
      Mst!update_output, Mst!vars

-----------------------------------------------------------------------------
(* Offered beats hold *)

\* Nothing is sent before the reset is over.
QuietInReset ==
  rst => sent = 0 /\ tx_queue["data"] = <<>> /\ tx.data = <<>> /\ ~s_axis.tvalid

\* What the driver sampled before the edge is what the edge saw.
DriverKnows ==
  /\ step = "eval" /\ "s" \in rising => (mst_tready_i <=> Dut!s_tready)
  /\ step = "drive" =>
       ("s" \in handshake <=> "s" \in rising /\ mst_tready_i /\ s_axis.tvalid)

BusInv ==
  /\ mst_tready_i \in BOOLEAN /\ s_axis.tvalid \in BOOLEAN /\ sEdges \in Nat
  /\ QuietInReset /\ DriverKnows

LEMMA BusInit == Init => BusInv
<1> SUFFICES ASSUME Init PROVE BusInv
  OBVIOUS
<1>1. /\ mst_tready_i = FALSE /\ s_axis.tvalid = FALSE /\ tx.data = <<>>
      /\ tx_queue["data"] = <<>> /\ sEdges = 0 /\ sent = 0 /\ step = "sample"
  BY DEF Init, Mst!Init, Mst!Fields
<1> QED
  BY <1>1 DEF BusInv, QuietInReset, DriverKnows

LEMMA SampleKeepsBus ==
  ASSUME BusInv, DutInv, NEW clocks, Sample(clocks)
  PROVE  BusInv'
<1>1. /\ UNCHANGED <<tx_queue, tx, s_axis, rst, sEdges, sent, dwr, FRAME_FIFO>>
      /\ "s" \in clocks => (mst_tready_i' <=> Dut!s_tready) /\ mst_tready_i' \in BOOLEAN
      /\ "s" \notin clocks => UNCHANGED mst_tready_i
      /\ rising' = clocks /\ step' = "eval"
  BY DEF Sample, Goto, Mst!update_input, masterVars, benchVars, fixed, dutVars, Dut!s_tready
<1>2. Dut!s_tready' <=> Dut!s_tready
  BY <1>1 DEF Dut!s_tready, Dut!D!wr_full, Dut!D!rd_ptr_bin
<1> QED
  BY <1>1, <1>2 DEF BusInv, QuietInReset, DriverKnows

LEMMA EvalKeepsBus ==
  ASSUME BusInv, DutInv, Eval
  PROVE  BusInv'
<1>1. /\ UNCHANGED <<tx_queue, tx, s_axis, rst, sEdges, sent, mst_tready_i, rising>>
      /\ step = "eval" /\ step' = "drive"
      /\ "s" \in handshake' <=> Takes("s")
  BY DEF Eval, Goto, masterVars, benchVars
<1>2. Takes("s") <=> "s" \in rising /\ mst_tready_i /\ s_axis.tvalid
  BY <1>1 DEF Takes, BusInv, QuietInReset, DriverKnows
<1> QED
  BY <1>1, <1>2 DEF BusInv, QuietInReset, DriverKnows

LEMMA DriveKeepsBus ==
  ASSUME BusInv, MasterTypes, Drive
  PROVE  BusInv'
<1>1. UNCHANGED <<rst, sEdges, sent>> /\ step' = "wake"
  BY DEF Drive, Goto, benchVars
<1>2. CASE UNCHANGED masterVars
  BY <1>1, <1>2 DEF BusInv, QuietInReset, DriverKnows, masterVars
<1>3. CASE Mst!Advance
  <2>1. s_axis'.tvalid \in BOOLEAN /\ mst_tready_i' \in BOOLEAN
    BY <1>3, AdvanceTypes DEF Wires
  <2>2. ASSUME rst
        PROVE  tx_queue'["data"] = <<>> /\ tx'.data = <<>> /\ ~s_axis'.tvalid
    <3>1. tx_queue["data"] = <<>> /\ tx.data = <<>>
      BY <2>2 DEF BusInv, QuietInReset
    <3>2. ~Mst!Starts /\ Current = tx
      BY <3>1 DEF Mst!Starts, Current
    <3>3. tx_queue' = tx_queue /\ tx' = tx /\ s_axis' = [s_axis EXCEPT !.tvalid = FALSE]
      <4>1. Current["data"] = <<>>
        BY <3>1, <3>2
      <4> QED
        BY <1>3, <3>2, <4>1, AdvanceIs
    <3>4. s_axis \in Wires
      BY DEF MasterTypes
    <3>5. s_axis'.tvalid = FALSE
      BY <3>3, <3>4 DEF Wires
    <3> QED
      BY <3>1, <3>3, <3>5
  <2> QED
    BY <1>1, <2>1, <2>2 DEF BusInv, QuietInReset, DriverKnows
<1> QED
  BY <1>2, <1>3 DEF Drive, Mst!update_output, Mst!vars, masterVars

LEMMA WakeKeepsBus ==
  ASSUME BusInv, DutInv, NEW ready, Wake(ready)
  PROVE  BusInv'
<1>1. UNCHANGED <<tx, s_axis, mst_tready_i>> /\ step' = "sample"
  BY DEF Wake, WakeS, Send, Pause, Mst!send, Goto, masterVars
<1>2. sEdges' \in Nat
  BY DEF Wake, WakeS, Count, BusInv
<1>3. ASSUME rst'
      PROVE  rst /\ UNCHANGED <<sent, tx_queue>>
  <2>1. CASE "s" \notin rising
    BY <1>3, <2>1 DEF Wake, masterVars
  <2>2. CASE "s" \in rising
    <3>1. Reset /\ (Send \/ Pause)
      BY <2>2 DEF Wake, WakeS
    <3>2. rst /\ sEdges + 1 < ResetEdges
      BY <1>3, <3>1 DEF Reset
    <3>3. ~(sEdges + 1 >= WriteAfter)
      BY <3>2, AxisBenchAssumption DEF BusInv
    <3> QED
      BY <3>1, <3>2, <3>3 DEF Send, Pause, masterVars
  <2> QED
    BY <2>1, <2>2
<1> QED
  BY <1>1, <1>2, <1>3 DEF BusInv, QuietInReset, DriverKnows

LEMMA BusStep == DutInv /\ MasterTypes /\ BusInv /\ [Next]_vars => BusInv'
<1>1. BusInv /\ UNCHANGED vars => BusInv'
  BY DEF vars, masterVars, dutVars, benchVars, fixed, BusInv, QuietInReset, DriverKnows,
         Dut!s_tready, Dut!D!wr_full, Dut!D!rd_ptr_bin
<1> QED
  BY <1>1, SampleKeepsBus, EvalKeepsBus, DriveKeepsBus, WakeKeepsBus DEF Next

LEMMA BusInvariant == Spec => [](DutInv /\ MasterTypes /\ BusInv)
BY DutInit, DutStep, MasterInit, MasterStep, BusInit, BusStep, PTL DEF Spec

\* A beat that the FIFO offers and that is not taken stays: in front of it
\* nothing is written, and what is behind does not show.
LEMMA MasterSideWaits ==
  ASSUME DutInv, Eval, Dut!m_tvalid, ~Takes("m")
  PROVE  UNCHANGED MasterSide
<1>1. ~DP!rd_empty /\ ~rst
  <2>1. ~DP!rd_empty
    BY SameData DEF Dut!m_tvalid
  <2>2. 0 \in DP!Pointers
    BY AxisBenchAssumption, SMT DEF DP!Pointers
  <2>3. DP!AllZero => DP!rd_empty
    <3>1. DP!gray2bin[DP!bin2gray[0]] = 0
      BY <2>2, Codes, DP!Decoded, AxisBenchAssumption
    <3> QED
      BY <3>1 DEF DP!AllZero, DP!Synchronised, DP!rd_empty, DP!wr_ptr_bin
  <2> QED
    BY <2>1, <2>3 DEF DutInv
<1>2. CASE "m" \notin rising
  BY <1>2 DEF Eval, MasterSide, Dut!m_tvalid, Dut!m_tdata, Dut!m_tkeep, Dut!m_tlast,
              Dut!D!rd_empty, Dut!D!wr_ptr_bin, fixed
<1>3. CASE "m" \in rising
  <2>1. ~m_tready /\ Dut!MEdge(rst, m_tready) /\ FRAME_FIFO' = FRAME_FIFO
    BY <1>1, <1>3 DEF Takes, Eval, fixed
  <2>2. CASE FRAME_FIFO
    <3>1. state = "FORWARD"
      BY <2>2 DEF Dut!m_tvalid
    <3> DEFINE en == Dut!m_tvalid /\ m_tready
    <3>2. /\ DP!RdEdge(rst, en) /\ ~en /\ state' = "FORWARD"
          /\ frame_tkeep' = frame_tkeep
      <4>1. Dut!FrameEdge(rst, m_tready)
        BY <2>1, <2>2 DEF Dut!MEdge
      <4>2. Dut!D!RdEdge(rst, en)
        BY <3>1, <4>1 DEF Dut!FrameEdge
      <4>3. Dut!nstate(m_tready) = "FORWARD"
        BY <2>1, <3>1 DEF Dut!nstate
      <4>4. state' = "FORWARD" /\ frame_tkeep' = frame_tkeep
        BY <1>1, <3>1, <4>1, <4>3 DEF Dut!FrameEdge
      <4>5. ~en
        BY <2>1
      <4> HIDE DEF en
      <4> QED
        BY <4>2, <4>4, <4>5, SameData
    <3> HIDE DEF en
    <3>3. ~DP!rd_empty' /\ drd'.data = drd.data
      BY <1>1, <3>2, Codes, DP!HeadWaits, AxisBenchAssumption DEF DutInv
    <3>4. ~Dut!D!rd_empty'
      BY <3>3, EmptyAlike
    <3> QED
      BY <2>1, <2>2, <3>1, <3>2, <3>3, <3>4
      DEF MasterSide, Dut!m_tvalid, Dut!m_tdata, Dut!m_tkeep, Dut!m_tlast
  <2>3. CASE ~FRAME_FIFO
    <3> DEFINE en == m_tready /\ ~Dut!D!rd_empty
    <3>1. DP!RdEdge(rst, en) /\ AP!RdEdge(rst, en) /\ ~en
      <4>1. Dut!D!RdEdge(rst, en) /\ Dut!A!RdEdge(rst, en)
        BY <2>1, <2>3 DEF Dut!MEdge, Dut!BeatEdge
      <4>2. ~en
        BY <2>1
      <4> HIDE DEF en
      <4> QED
        BY <4>1, <4>2, SameData, SameAux
    <3> HIDE DEF en
    <3>2. ~AP!rd_empty
      BY <1>1, <2>3, FlagsInStep DEF DutInv
    <3>3. ~DP!rd_empty' /\ drd'.data = drd.data
      BY <1>1, <3>1, Codes, DP!HeadWaits, AxisBenchAssumption DEF DutInv
    <3>4. ard'.data = ard.data
      <4>1. AP!FifoInv /\ AP!HeadShown /\ AP!GrayCode
        BY Codes DEF DutInv
      <4> QED
        BY <1>1, <3>1, <3>2, <4>1, AP!HeadWaits, AxisBenchAssumption
    <3>5. ~Dut!D!rd_empty'
      BY <3>3, EmptyAlike
    <3> QED
      BY <2>1, <2>3, <3>3, <3>4, <3>5
      DEF MasterSide, Dut!m_tvalid, Dut!m_tdata, Dut!m_tkeep, Dut!m_tlast
  <2> QED
    BY <2>2, <2>3
<1> QED
  BY <1>2, <1>3

\* The handshake rule of AXI4-Stream, on both sides of the FIFO, for every depth
\* and whatever the two clocks, the writer and the receiver's tready do.
THEOREM BeatsHold == Spec => OfferedBeatsHold
<1> DEFINE Holds == /\ s_axis.tvalid /\ s_axis' # s_axis => "s" \in handshake'
                    /\ Dut!m_tvalid /\ MasterSide' # MasterSide => "m" \in handshake'
<1>1. DutInv /\ MasterTypes /\ BusInv /\ [Next]_vars => [Holds]_vars
  <2> SUFFICES ASSUME DutInv, BusInv, Next PROVE Holds
    OBVIOUS
  <2>1. ASSUME s_axis.tvalid, s_axis' # s_axis PROVE "s" \in handshake'
    <3>1. Drive /\ "s" \in rising /\ mst_tready_i
      BY <2>1
      DEF Next, Sample, Eval, Drive, Wake, WakeS, Send, Pause, masterVars,
          Mst!update_input, Mst!send, Mst!update_output, Mst!vars, Mst!Taken
    <3> QED
      BY <2>1, <3>1 DEF Drive, Goto, BusInv, DriverKnows
  <2>2. ASSUME Dut!m_tvalid, MasterSide' # MasterSide PROVE "m" \in handshake'
    <3>1. CASE Eval
      <4>1. Takes("m")
        BY <2>2, <3>1, MasterSideWaits
      <4> QED
        BY <3>1, <4>1 DEF Eval
    <3>2. CASE ~Eval
      <4>1. UNCHANGED <<drd, ard, state, frame_tkeep, FRAME_FIFO>>
        BY <3>2 DEF Next, Sample, Drive, Wake, dutVars, fixed
      <4> QED
        BY <2>2, <4>1
        DEF MasterSide, Dut!m_tvalid, Dut!m_tdata, Dut!m_tkeep, Dut!m_tlast,
            Dut!D!rd_empty, Dut!D!wr_ptr_bin
    <3> QED
      BY <3>1, <3>2
  <2> QED
    BY <2>1, <2>2
<1> QED
  BY <1>1, BusInvariant, PTL DEF Spec, OfferedBeatsHold

-----------------------------------------------------------------------------
(* The beats of the frames *)

FirstBeats(frame, n) == [k \in 1 .. n |-> BeatOf(frame, k)]
ShownBeats == {BeatOf(frame, k) : frame \in Sendable, k \in Nat}

LEMMA FirstBeatsType ==
  ASSUME NEW frame \in Sendable, NEW n \in Nat
  PROVE  FirstBeats(frame, n) \in Seq(ShownBeats) /\ Len(FirstBeats(frame, n)) = n
<1>1. \A k \in 1 .. n : BeatOf(frame, k) \in ShownBeats
  BY DEF ShownBeats
<1> QED
  BY <1>1 DEF FirstBeats

\* How many beats a frame has, seen from the beat after k of them.
LEMMA BeatsAre ==
  ASSUME NEW frame \in Sendable
  PROVE  /\ Beats(frame) \in Nat
         /\ frame["data"] = <<>> => Beats(frame) = 0
         /\ \A k \in Nat : k * Lanes < Len(frame["data"]) =>
              /\ Len(frame["data"]) - k * Lanes <= Lanes <=> k + 1 = Beats(frame)
              /\ k + 1 # Beats(frame) => (k + 1) * Lanes < Len(frame["data"])
<1> DEFINE n == Len(frame["data"])
<1>1. n \in Nat /\ Lanes \in Nat \ {0}
  BY AxisBenchAssumption DEF Sendable
<1>2. frame["data"] = <<>> => n = 0
  OBVIOUS
<1>3. Beats(frame) = (n + Lanes - 1) \div Lanes
  BY DEF Beats
<1> HIDE DEF n
<1>4. Beats(frame) \in Nat
  BY <1>1, <1>3, SMT
<1>5. n = 0 => Beats(frame) = 0
  BY <1>1, <1>3, SMT
<1>6. ASSUME NEW k \in Nat, k * Lanes < n
      PROVE  n - k * Lanes <= Lanes <=> k + 1 = Beats(frame)
  <2>1. n - k * Lanes <= Lanes <=> k + 1 = (n + Lanes - 1) \div Lanes
    BY <1>1, <1>6, SMT
  <2> QED
    BY <1>3, <2>1
<1>7. ASSUME NEW k \in Nat, k * Lanes < n, k + 1 # Beats(frame)
      PROVE  (k + 1) * Lanes < n
  <2>1. ~(n - k * Lanes <= Lanes)
    BY <1>6, <1>7
  <2>2. (k + 1) * Lanes = k * Lanes + Lanes
    BY <1>1, SMT
  <2>3. k * Lanes \in Nat
    BY <1>1, SMT
  <2> HIDE DEF n
  <2> QED
    BY <1>1, <2>1, <2>2, <2>3
<1> QED
  BY <1>2, <1>4, <1>5, <1>6, <1>7 DEF n

LEMMA PackedIs ==
  ASSUME NEW p \in Seq(Sendable), NEW i \in 0 .. Len(p)
  PROVE  LET s == [j \in 1 .. i |-> FirstBeats(p[j], Beats(p[j]))]
         IN /\ s \in Seq(Seq(ShownBeats))
            /\ Packed(SubSeq(p, 1, i)) = FlattenSeq(s)
            /\ Packed(SubSeq(p, 1, i)) \in Seq(ShownBeats)
<1> DEFINE B(frame) == FirstBeats(frame, Beats(frame))
           s == [j \in 1 .. i |-> B(p[j])]
<1>1. \A frame \in Sendable : B(frame) \in Seq(ShownBeats)
  BY BeatsAre, FirstBeatsType
<1>2. i \in Nat /\ \A j \in 1 .. i : p[j] \in Sendable
  OBVIOUS
<1>3. Packed(SubSeq(p, 1, i)) = FlattenSeq(s)
  <2>1. DOMAIN SubSeq(p, 1, i) = 1 .. i /\ \A j \in 1 .. i : SubSeq(p, 1, i)[j] = p[j]
    BY <1>2
  <2> QED
    BY <2>1 DEF Packed, FirstBeats
<1> HIDE DEF B
<1>4. s \in Seq(Seq(ShownBeats))
  BY <1>1, <1>2
<1> HIDE DEF s
<1>5. FlattenSeq(s) \in Seq(ShownBeats)
  BY <1>4, FlattenAppend, EmptySeq
<1> QED
  BY <1>3, <1>4, <1>5 DEF s, B

LEMMA PackedStep ==
  ASSUME NEW p \in Seq(Sendable), NEW i \in 0 .. Len(p) - 1
  PROVE  Packed(SubSeq(p, 1, i + 1)) =
           Packed(SubSeq(p, 1, i)) \o FirstBeats(p[i + 1], Beats(p[i + 1]))
<1> DEFINE B(frame) == FirstBeats(frame, Beats(frame))
           s == [j \in 1 .. i |-> B(p[j])]
           r == [j \in 1 .. i + 1 |-> B(p[j])]
<1>1. i \in 0 .. Len(p) /\ i + 1 \in 0 .. Len(p) /\ p[i + 1] \in Sendable
  OBVIOUS
<1>2. s \in Seq(Seq(ShownBeats)) /\ Packed(SubSeq(p, 1, i)) = FlattenSeq(s)
  BY <1>1, PackedIs
<1>3. Packed(SubSeq(p, 1, i + 1)) = FlattenSeq(r)
  BY <1>1, PackedIs
<1>4. B(p[i + 1]) \in Seq(ShownBeats)
  BY <1>1, BeatsAre, FirstBeatsType
<1> HIDE DEF B
<1>5. r = Append(s, B(p[i + 1]))
  OBVIOUS
<1> HIDE DEF r, s
<1>6. FlattenSeq(r) = FlattenSeq(s) \o B(p[i + 1])
  BY <1>2, <1>4, <1>5, FlattenAppend
<1> QED
  BY <1>2, <1>3, <1>6 DEF B

LEMMA PackedNone ==
  ASSUME NEW p \in Seq(Sendable)
  PROVE  Packed(SubSeq(p, 1, 0)) = <<>>
<1>1. SubSeq(p, 1, 0) = <<>>
  OBVIOUS
<1>2. [i \in DOMAIN <<>> |-> [k \in 1 .. Beats(<<>>[i]) |-> BeatOf(<<>>[i], k)]] = <<>>
  OBVIOUS
<1> QED
  BY <1>1, <1>2 DEF Packed, FlattenSeq

LEMMA PackedPrefix ==
  ASSUME NEW p \in Seq(Sendable), NEW i \in 0 .. Len(p), NEW j \in i .. Len(p)
  PROVE  GoesOn(Packed(SubSeq(p, 1, i)), Packed(SubSeq(p, 1, j)), ShownBeats)
<1> DEFINE n == Len(p)
           P == [k \in 0 .. n |-> Packed(SubSeq(p, 1, k))]
<1>1. n \in Nat /\ i \in 0 .. n /\ j \in i .. n /\ j \in 0 .. n
  OBVIOUS
<1>2. P \in [0 .. n -> Seq(ShownBeats)]
  BY PackedIs
<1>3. ASSUME NEW k \in 0 .. n - 1
      PROVE  GoesOn(P[k], P[k + 1], ShownBeats)
  <2>1. k \in 0 .. n /\ k + 1 \in 0 .. n /\ p[k + 1] \in Sendable
    OBVIOUS
  <2>2. Packed(SubSeq(p, 1, k + 1)) =
          Packed(SubSeq(p, 1, k)) \o FirstBeats(p[k + 1], Beats(p[k + 1]))
    BY PackedStep
  <2>3. FirstBeats(p[k + 1], Beats(p[k + 1])) \in Seq(ShownBeats)
    BY <2>1, BeatsAre, FirstBeatsType
  <2> QED
    BY <2>1, <2>2, <2>3 DEF GoesOn
<1>4. P[i] = Packed(SubSeq(p, 1, i)) /\ P[j] = Packed(SubSeq(p, 1, j))
  BY <1>1
<1> HIDE DEF P, n
<1>5. Growing(P, n, ShownBeats)
  BY <1>1, <1>2, <1>3 DEF Growing
<1> QED
  BY <1>1, <1>4, <1>5, Grows

\* What the wires show is the beat of the frame that BeatOf describes.
LEMMA BeatShown ==
  ASSUME s_axis \in Wires, NEW t \in Sendable, NEW k \in Nat, k * Lanes < Len(t["data"])
  PROVE  Seen(Mst!Beat(t, k * Lanes)) = BeatOf(t, k + 1)
<1> DEFINE idx == k * Lanes
           n == Len(t["data"])
           lanes == {l \in 1 .. Lanes : l <= n - idx}
           kept == {l \in 1 .. Lanes : ((k + 1) - 1) * Lanes + l <= n}
           beat == Mst!Beat(t, idx)
<1>1. n \in Nat /\ Lanes \in Nat \ {0} /\ idx \in Nat /\ ((k + 1) - 1) * Lanes = idx
  <2>1. n \in Nat /\ Lanes \in Nat \ {0} /\ (k + 1) - 1 = k
    BY AxisBenchAssumption DEF Sendable
  <2>2. idx \in Nat
    BY <2>1, SMT
  <2> QED
    BY <2>1, <2>2
<1>2. /\ beat.tkeep = lanes /\ beat.tlast = (n - idx <= Lanes)
      /\ beat.tid = t["id"] /\ beat.tdest = t["dest"]
      /\ beat.tuser = IF Mst!SofOn(t, idx) THEN Mst!SetBit0(t["user"]) ELSE t["user"]
      /\ \A l \in lanes : beat.tdata[l] = t["data"][idx + l]
  BY DEF Mst!Beat
<1>3. kept = lanes
  <2> HIDE DEF idx, n
  <2> QED
    BY <1>1
<1>4. [l \in beat.tkeep |-> beat.tdata[l]] = [l \in kept |-> t["data"][((k + 1) - 1) * Lanes + l]]
  <2> HIDE DEF idx, n, beat, lanes, kept
  <2> QED
    BY <1>1, <1>2, <1>3
<1>5. (n - idx <= Lanes) = (k + 1 = Beats(t))
  <2>1. n - idx <= Lanes <=> k + 1 = Beats(t)
    BY BeatsAre
  <2> HIDE DEF idx, n
  <2> QED
    BY <2>1
<1>6. beat.tuser = IF k + 1 = 1 /\ t["sof"] /\ t["user"] % 2 = 0
                   THEN t["user"] + 1 ELSE t["user"]
  <2>1. idx = 0 <=> k = 0
    BY <1>1, SMT
  <2>2. t["user"] \in Nat
    BY DEF Sendable
  <2>3. t["user"] % 2 = 0 \/ t["user"] % 2 = 1
    BY <2>2
  <2>4. k + 1 = 1 <=> k = 0
    OBVIOUS
  <2> HIDE DEF idx, beat
  <2> QED
    BY <1>2, <2>1, <2>3, <2>4 DEF Mst!SofOn, Mst!SetBit0
<1>7. Seen(beat) = [keep |-> kept, bytes |-> [l \in kept |-> t["data"][((k + 1) - 1) * Lanes + l]],
                    last |-> (k + 1 = Beats(t)), id |-> t["id"], dest |-> t["dest"],
                    user |-> IF k + 1 = 1 /\ t["sof"] /\ t["user"] % 2 = 0
                             THEN t["user"] + 1 ELSE t["user"]]
  <2> HIDE DEF idx, n, beat, lanes, kept
  <2> QED
    BY <1>2, <1>3, <1>4, <1>5, <1>6 DEF Seen
<1> QED
  BY <1>7 DEF BeatOf

-----------------------------------------------------------------------------
(* Beats as sent *)

Taken == [i \in DOMAIN accepted |-> Seen(accepted[i])]
Sent(n) == Packed(SubSeq(plan, 1, n))

\* A beat on the wires that no edge has taken yet, and the beats up to it.
OnWire == s_axis.tvalid /\ ~(step = "drive" /\ "s" \in handshake)
Emitted == IF OnWire THEN Append(Taken, Seen(s_axis)) ELSE Taken

\* The frames whose transaction has begun; the queues hold the others.
Started == sent - Len(tx_queue["data"])
QueueHolds ==
  /\ Started \in 0 .. sent
  /\ \A f \in Mst!Fields :
       /\ Len(tx_queue[f]) = Len(tx_queue["data"])
       /\ \A i \in 1 .. Len(tx_queue["data"]) : tx_queue[f][i] = plan[Started + i][f]

\* k beats of the current frame have been put on the wires, or all of it.
Partly(k) ==
  /\ k \in Nat /\ Started > 0 /\ tx = plan[Started]
  /\ tx_buf_idx = k * Lanes /\ k * Lanes < Len(tx.data)
  /\ Emitted = Sent(Started - 1) \o FirstBeats(plan[Started], k)
SendInv ==
  /\ accepted \in Seq(Wires) /\ QueueHolds
  /\ IF tx.data = <<>> THEN Emitted = Sent(Started) ELSE \E k \in Nat : Partly(k)

LEMMA SendInit == Init => SendInv
<1> SUFFICES ASSUME Init PROVE SendInv
  OBVIOUS
<1>1. /\ accepted = <<>> /\ sent = 0 /\ s_axis.tvalid = FALSE /\ tx.data = <<>>
      /\ \A f \in Mst!Fields : tx_queue[f] = <<>>
  BY DEF Init, Mst!Init
<1>2. "data" \in Mst!Fields
  BY DEF Mst!Fields
<1>3. Started = 0
  BY <1>1, <1>2 DEF Started
<1>4. QueueHolds
  BY <1>1, <1>2, <1>3 DEF QueueHolds
<1>5. Emitted = <<>>
  BY <1>1 DEF Emitted, OnWire, Taken
<1>6. Sent(0) = <<>>
  BY PlanTypes, PackedNone DEF Sent
<1>7. accepted \in Seq(Wires)
  BY <1>1
<1> QED
  BY <1>1, <1>3, <1>4, <1>5, <1>6, <1>7 DEF SendInv

\* Only the driver puts a beat on the wires; an edge that takes it adds it to
\* those taken.
LEMMA EmittedKept ==
  ASSUME SendInv, MasterTypes, BusInv, Next, ~(Drive /\ Mst!Advance)
  PROVE  Emitted' = Emitted /\ accepted' \in Seq(Wires)
<1>1. s_axis \in Wires /\ accepted \in Seq(Wires) /\ s_axis.tvalid \in BOOLEAN
  BY DEF MasterTypes, SendInv, Wires
<1>2. ASSUME UNCHANGED <<s_axis, accepted>>, OnWire' <=> OnWire
      PROVE  Emitted' = Emitted /\ accepted' \in Seq(Wires)
  BY <1>1, <1>2 DEF Emitted, Taken
<1>3. CASE \E clocks : Sample(clocks)
  <2>1. UNCHANGED <<s_axis, accepted>> /\ step = "sample" /\ step' = "eval"
    BY <1>3 DEF Sample, Goto, Mst!update_input, masterVars
  <2> QED
    BY <1>2, <2>1 DEF OnWire
<1>4. CASE Eval
  <2>1. UNCHANGED s_axis /\ step = "eval" /\ step' = "drive" /\ ("s" \in handshake' <=> Takes("s"))
    BY <1>4 DEF Eval, Goto, masterVars
  <2>2. CASE ~Takes("s")
    <3>1. accepted' = accepted
      BY <1>4, <2>2 DEF Eval
    <3> QED
      BY <1>2, <2>1, <2>2, <3>1 DEF OnWire
  <2>3. CASE Takes("s")
    <3>1. accepted' = Append(accepted, s_axis)
      BY <1>4, <2>3 DEF Eval
    <3>2. s_axis.tvalid
      BY <2>3 DEF Takes
    <3>3. OnWire /\ ~OnWire'
      BY <2>1, <2>3, <3>2 DEF OnWire
    <3>4. Taken' = Append(Taken, Seen(s_axis))
      <4>1. /\ Len(accepted) \in Nat /\ DOMAIN accepted = 1 .. Len(accepted)
            /\ DOMAIN accepted' = 1 .. Len(accepted) + 1
            /\ \A i \in 1 .. Len(accepted) : accepted'[i] = accepted[i]
            /\ accepted'[Len(accepted) + 1] = s_axis
        BY <1>1, <3>1
      <4>2. Taken' = [i \in 1 .. Len(accepted) + 1 |-> Seen(accepted'[i])]
        BY <4>1 DEF Taken, Seen
      <4> DEFINE S(i) == Seen(accepted[i])
      <4>3. Taken = [i \in 1 .. Len(accepted) |-> Seen(accepted[i])]
        BY <4>1 DEF Taken
      <4>4. \A i \in 1 .. Len(accepted) : Seen(accepted'[i]) = Seen(accepted[i])
        BY <4>1
      <4>5. Seen(accepted'[Len(accepted) + 1]) = Seen(s_axis)
        BY <4>1
      <4> QED
        BY <4>1, <4>2, <4>3, <4>4, <4>5
    <3>5. accepted' \in Seq(Wires)
      BY <1>1, <3>1
    <3> QED
      BY <3>3, <3>4, <3>5 DEF Emitted
  <2> QED
    BY <2>2, <2>3
<1>5. CASE Drive
  <2>1. UNCHANGED <<s_axis, accepted>> /\ ~("s" \in rising /\ mst_tready_i)
    BY <1>5 DEF Drive, Mst!update_output, Mst!Taken, Mst!vars, masterVars
  <2>2. "s" \notin handshake /\ step' = "wake"
    BY <1>5, <2>1 DEF Drive, Goto, BusInv, DriverKnows
  <2> QED
    BY <1>2, <2>1, <2>2 DEF OnWire
<1>6. CASE \E ready : Wake(ready)
  <2>1. UNCHANGED <<s_axis, accepted>> /\ step = "wake" /\ step' = "sample"
    BY <1>6 DEF Wake, Goto, WakeS, Send, Pause, Mst!send, masterVars
  <2> QED
    BY <1>2, <2>1 DEF OnWire
<1> QED
  BY <1>3, <1>4, <1>5, <1>6 DEF Next

LEMMA OthersKeepSend ==
  ASSUME SendInv, Emitted' = Emitted, accepted' \in Seq(Wires),
         UNCHANGED <<tx_queue, tx, tx_buf_idx, sent, plan>>
  PROVE  SendInv'
<1>1. Started' = Started /\ QueueHolds'
  BY DEF SendInv, QueueHolds, Started
<1>2. \A n : Sent(n)' = Sent(n)
  BY DEF Sent
<1>3. \A k \in Nat : Partly(k) => Partly(k)'
  BY <1>1 DEF Partly, Sent
<1>4. tx.data = <<>> => Emitted' = Sent(Started)'
  BY <1>1 DEF SendInv, Sent
<1> QED
  BY <1>1, <1>3, <1>4 DEF SendInv

\* A frame that is queued is the next of the plan.
LEMMA SendKeeps ==
  ASSUME SendInv, MasterTypes, Emitted' = Emitted, accepted' \in Seq(Wires), Send,
         UNCHANGED plan
  PROVE  SendInv'
<1> DEFINE n == Len(tx_queue["data"])
<1>1. /\ tx_queue \in Queues /\ sent \in Nat /\ sent < Len(plan) /\ sent' = sent + 1
      /\ tx_queue' = [f \in Mst!Fields |-> Append(tx_queue[f], plan[sent + 1][f])]
      /\ UNCHANGED <<tx, tx_buf_idx>>
  BY DEF MasterTypes, Send, Mst!send
<1>2. \A f \in Mst!Fields : \E S : tx_queue[f] \in Seq(S)
  BY <1>1 DEF Queues, Mst!Fields
<1>3. /\ n \in Nat /\ Started = sent - n /\ Started \in 0 .. sent
      /\ \A f \in Mst!Fields : Len(tx_queue[f]) = n
  BY <1>1 DEF SendInv, QueueHolds, Started, Queues
<1>4. ASSUME NEW f \in Mst!Fields
      PROVE  /\ Len(tx_queue'[f]) = n + 1
             /\ tx_queue'[f][n + 1] = plan[sent + 1][f]
             /\ \A i \in 1 .. n : tx_queue'[f][i] = tx_queue[f][i]
  <2>1. tx_queue'[f] = Append(tx_queue[f], plan[sent + 1][f])
    BY <1>1
  <2>2. PICK S : tx_queue[f] \in Seq(S)
    BY <1>2
  <2>3. Len(tx_queue[f]) = n
    BY <1>3
  <2> HIDE DEF n
  <2>4. /\ Len(Append(tx_queue[f], plan[sent + 1][f])) = n + 1
        /\ Append(tx_queue[f], plan[sent + 1][f])[n + 1] = plan[sent + 1][f]
        /\ \A i \in 1 .. n : Append(tx_queue[f], plan[sent + 1][f])[i] = tx_queue[f][i]
    BY <2>2, <2>3
  <2> QED
    BY <2>1, <2>4
<1>5. "data" \in Mst!Fields
  BY DEF Mst!Fields
<1>6. Len(tx_queue'["data"]) = n + 1 /\ Started' = Started
  <2>1. Len(tx_queue'["data"]) = n + 1
    BY <1>4, <1>5
  <2> HIDE DEF n
  <2>2. Started' = sent' - Len(tx_queue'["data"])
    BY DEF Started
  <2> QED
    BY <1>1, <1>3, <2>1, <2>2
<1>7. QueueHolds'
  <2>1. Started' \in 0 .. sent'
    BY <1>1, <1>3, <1>6
  <2>2. ASSUME NEW f \in Mst!Fields, NEW i \in 1 .. n + 1
        PROVE  tx_queue'[f][i] = plan[Started + i][f]
    <3>1. CASE i = n + 1
      <4>1. Started + i = sent + 1
        <5> HIDE DEF n
        <5> QED
          BY <1>1, <1>3, <3>1
      <4> QED
        BY <1>4, <3>1, <4>1
    <3>2. CASE i # n + 1
      <4>1. i \in 1 .. n
        BY <1>3, <3>2
      <4>2. tx_queue[f][i] = plan[Started + i][f]
        BY <4>1 DEF SendInv, QueueHolds
      <4> QED
        BY <1>4, <4>1, <4>2
    <3> QED
      BY <3>1, <3>2
  <2>3. \A f \in Mst!Fields : Len(tx_queue'[f]) = Len(tx_queue'["data"])
    BY <1>4, <1>6
  <2> HIDE DEF n
  <2> QED
    BY <1>6, <2>1, <2>2, <2>3 DEF QueueHolds
<1>8. \A k \in Nat : Partly(k) => Partly(k)'
  BY <1>1, <1>6 DEF Partly, Sent
<1>9. tx.data = <<>> => Emitted' = Sent(Started)'
  BY <1>6 DEF SendInv, Sent
<1> QED
  BY <1>1, <1>7, <1>8, <1>9 DEF SendInv

\* The transaction that begins is that of the next frame, and the queues, whose
\* lengths are one, move together.
LEMMA AdvanceQueue ==
  ASSUME SendInv, MasterTypes, Mst!Advance, UNCHANGED <<sent, plan>>
  PROVE  /\ QueueHolds' /\ Started' = IF Mst!Starts THEN Started + 1 ELSE Started
         /\ Mst!Starts => Started + 1 \in 1 .. Len(plan) /\ Current = plan[Started + 1]
<1> DEFINE n == Len(tx_queue["data"])
<1>1. /\ tx_queue \in Queues /\ sent \in 0 .. Len(plan) /\ plan \in Seq(Sendable)
      /\ tx_queue' = IF Mst!Starts THEN [f \in Mst!Fields |-> Mst!Rest(f)] ELSE tx_queue
  BY AdvanceIs DEF MasterTypes
<1>2. /\ n \in Nat /\ Started = sent - n /\ Started \in 0 .. sent
      /\ \A f \in Mst!Fields : Len(tx_queue[f]) = n /\ \E S : tx_queue[f] \in Seq(S)
  BY <1>1 DEF SendInv, QueueHolds, Started, Queues, Mst!Fields
<1>3. CASE ~Mst!Starts
  BY <1>1, <1>3 DEF SendInv, QueueHolds, Started
<1>4. CASE Mst!Starts
  <2>1. tx_queue["data"] # <<>> /\ n > 0
    <3>1. tx_queue["data"] # <<>> /\ tx_queue["data"] \in Seq(Seq(Bytes))
      BY <1>1, <1>4 DEF Mst!Starts, Queues
    <3> QED
      BY <3>1, EmptySeq
  <2>2. ASSUME NEW f \in Mst!Fields
        PROVE  /\ Mst!Front(f) = tx_queue[f][1] /\ Len(Mst!Rest(f)) = n - 1
               /\ \A i \in 1 .. n - 1 : Mst!Rest(f)[i] = tx_queue[f][i + 1]
    <3>1. PICK S : tx_queue[f] \in Seq(S)
      BY <1>2
    <3>2. Len(tx_queue[f]) = n /\ tx_queue[f] # <<>>
      BY <1>2, <2>1
    <3> HIDE DEF n
    <3>3. /\ Head(tx_queue[f]) = tx_queue[f][1] /\ Len(Tail(tx_queue[f])) = n - 1
          /\ \A i \in 1 .. n - 1 : Tail(tx_queue[f])[i] = tx_queue[f][i + 1]
      BY <3>1, <3>2, TailElems
    <3> QED
      BY <3>2, <3>3 DEF Mst!Front, Mst!Rest
  <2>3. Started + 1 \in 1 .. Len(plan) /\ 1 \in 1 .. n
    <3> HIDE DEF n
    <3> QED
      BY <1>1, <1>2, <2>1
  <2>4. Current = plan[Started + 1]
    <3>1. \A f \in Mst!Fields : Mst!Front(f) = plan[Started + 1][f]
      BY <2>2, <2>3 DEF SendInv, QueueHolds
    <3>2. plan[Started + 1] \in Sendable
      BY <1>1, <2>3
    <3>3. Current = [f \in Mst!Fields |-> plan[Started + 1][f]]
      BY <1>4, <3>1 DEF Current
    <3>4. \A frame \in Sendable : frame = [f \in Mst!Fields |-> frame[f]]
      BY DEF Sendable, Mst!Fields
    <3> QED
      BY <3>2, <3>3, <3>4
  <2>5. \A f \in Mst!Fields : tx_queue'[f] = Mst!Rest(f)
    BY <1>1, <1>4
  <2>6. "data" \in Mst!Fields
    BY DEF Mst!Fields
  <2>7. Len(tx_queue'["data"]) = n - 1 /\ Started' = Started + 1
    <3>1. Len(tx_queue'["data"]) = n - 1
      BY <2>2, <2>5, <2>6
    <3>2. Started' = sent - Len(tx_queue'["data"])
      BY DEF Started
    <3> HIDE DEF n
    <3> QED
      BY <1>1, <1>2, <3>1, <3>2
  <2>8. QueueHolds'
    <3>1. Started' \in 0 .. sent'
      <4> HIDE DEF n
      <4> QED
        BY <1>1, <1>2, <2>1, <2>7
    <3>2. ASSUME NEW f \in Mst!Fields, NEW i \in 1 .. n - 1
          PROVE  tx_queue'[f][i] = plan[Started' + i][f]
      <4>1. i + 1 \in 1 .. n /\ Started' + i = Started + (i + 1)
        <5> HIDE DEF n
        <5> QED
          BY <1>1, <1>2, <2>7
      <4>2. tx_queue'[f][i] = tx_queue[f][i + 1]
        BY <2>2, <2>5
      <4>3. tx_queue[f][i + 1] = plan[Started + (i + 1)][f]
        BY <4>1 DEF SendInv, QueueHolds
      <4> QED
        BY <4>1, <4>2, <4>3
    <3>3. \A f \in Mst!Fields : Len(tx_queue'[f]) = Len(tx_queue'["data"])
      BY <2>2, <2>5, <2>7
    <3> HIDE DEF n
    <3> QED
      BY <2>7, <3>1, <3>2, <3>3 DEF QueueHolds
  <2> QED
    BY <1>4, <2>3, <2>4, <2>7, <2>8
<1> QED
  BY <1>3, <1>4

LEMMA NextBeat ==
  ASSUME NEW frame \in Sendable, NEW k \in Nat, NEW x \in Seq(ShownBeats)
  PROVE  Append(x \o FirstBeats(frame, k), BeatOf(frame, k + 1)) = x \o FirstBeats(frame, k + 1)
<1>1. PICK y \in Seq(ShownBeats) : y = FirstBeats(frame, k)
  BY FirstBeatsType
<1>2. PICK b \in ShownBeats : b = BeatOf(frame, k + 1)
  BY DEF ShownBeats
<1>3. FirstBeats(frame, k + 1) = Append(y, b)
  BY <1>1, <1>2 DEF FirstBeats
<1>4. Append(x \o y, b) = x \o Append(y, b)
  <2>1. PICK z \in Seq(ShownBeats) : z = <<b>>
    <3>1. <<b>> \in Seq(ShownBeats)
      OBVIOUS
    <3> QED
      BY <3>1
  <2>2. \A w \in Seq(ShownBeats) : Append(w, b) = w \o z
    BY <2>1
  <2>3. (x \o y) \o z = x \o (y \o z)
    BY ConcatRegroups, SMTT(30)
  <2>4. x \o y \in Seq(ShownBeats)
    BY ConcatProperties
  <2> QED
    BY <2>2, <2>3, <2>4
<1> QED
  BY <1>1, <1>2, <1>3, <1>4

LEMMA AdvanceKeeps ==
  ASSUME SendInv, MasterTypes, BusInv, Drive, Mst!Advance, "s" \in rising, mst_tready_i
  PROVE  SendInv'
<1>1. UNCHANGED <<accepted, sent, plan>> /\ step = "drive" /\ step' = "wake"
  BY DEF Drive, Goto, benchVars, fixed
<1>2. /\ s_axis \in Wires /\ plan \in Seq(Sendable) /\ Lanes \in Nat \ {0}
      /\ accepted \in Seq(Wires) /\ Started \in 0 .. sent /\ sent \in 0 .. Len(plan)
  BY AxisBenchAssumption DEF MasterTypes, SendInv, QueueHolds
<1>3. Emitted = Taken /\ Taken' = Taken /\ (OnWire' <=> s_axis'.tvalid)
  <2>1. s_axis.tvalid => "s" \in handshake
    BY <1>1 DEF BusInv, DriverKnows
  <2> QED
    BY <1>1, <2>1 DEF Emitted, OnWire, Taken
<1>4. /\ QueueHolds' /\ Started' = IF Mst!Starts THEN Started + 1 ELSE Started
      /\ Mst!Starts => Started + 1 \in 1 .. Len(plan) /\ Current = plan[Started + 1]
  BY <1>1, AdvanceQueue
<1>5. Mst!Starts => tx.data = <<>>
  BY DEF Mst!Starts
<1>6. \A i \in 0 .. Len(plan) : Sent(i) \in Seq(ShownBeats)
  BY <1>1, <1>2, PackedIs DEF Sent
<1>7. \A i \in 0 .. Len(plan) - 1 :
        Sent(i + 1) = Sent(i) \o FirstBeats(plan[i + 1], Beats(plan[i + 1]))
  BY <1>2, PackedStep DEF Sent
<1>8. PICK c \in 0 .. Len(plan) : c = Started' /\ c = IF Mst!Starts THEN Started + 1 ELSE Started
  BY <1>2, <1>4
<1>11. Sent(Started)' = Sent(c) /\ Sent(Started - 1)' = Sent(c - 1)
  BY <1>1, <1>8 DEF Sent
<1>9. CASE Current["data"] = <<>>
  <2>1. s_axis'.tvalid = FALSE /\ tx'.data = <<>>
    BY <1>2, <1>9, AdvanceIs DEF Wires
  <2>2. Taken = Sent(c)
    <3>1. tx.data = <<>>
      BY <1>5, <1>9 DEF Current
    <3>2. Taken = Sent(Started)
      BY <1>3, <3>1 DEF SendInv
    <3>3. CASE ~Mst!Starts
      BY <1>8, <3>2, <3>3
    <3>4. CASE Mst!Starts
      <4>1. Started \in 0 .. Len(plan) - 1 /\ plan[Started + 1] \in Sendable
        BY <1>2, <1>4, <3>4
      <4>2. plan[Started + 1]["data"] = <<>>
        BY <1>4, <1>9, <3>4
      <4>3. Beats(plan[Started + 1]) = 0
        BY <4>1, <4>2, BeatsAre
      <4>4. FirstBeats(plan[Started + 1], 0) = <<>>
        BY DEF FirstBeats
      <4>5. Sent(Started) \in Seq(ShownBeats)
        BY <1>6, <4>1
      <4>6. Sent(Started) \o <<>> = Sent(Started)
        BY <4>5, ConcatEmptySeq
      <4> QED
        BY <1>7, <1>8, <3>2, <3>4, <4>1, <4>3, <4>4, <4>6
    <3> QED
      BY <3>3, <3>4
  <2>3. Emitted' = Sent(Started)'
    BY <1>3, <1>11, <2>1, <2>2 DEF Emitted
  <2> QED
    BY <1>1, <1>2, <1>4, <2>1, <2>3 DEF SendInv
<1>10. CASE Current["data"] # <<>>
  <2>1. PICK k \in Nat :
          /\ c \in 1 .. Len(plan) /\ Current = plan[c] /\ At = k * Lanes
          /\ k * Lanes < Len(plan[c]["data"])
          /\ Taken = Sent(c - 1) \o FirstBeats(plan[c], k)
    <3>1. CASE Mst!Starts
      <4>1. c = Started + 1 /\ c \in 1 .. Len(plan) /\ Current = plan[c] /\ c - 1 = Started
        BY <1>2, <1>4, <1>8, <3>1
      <4>2. plan[c] \in Sendable
        BY <1>2, <4>1
      <4>3. At = 0 /\ 0 * Lanes = 0
        BY <1>2, <3>1 DEF At
      <4>4. 0 < Len(plan[c]["data"])
        <5>1. plan[c]["data"] \in Seq(Bytes) /\ plan[c]["data"] # <<>>
          BY <1>10, <4>1, <4>2 DEF Sendable
        <5> QED
          BY <5>1, EmptySeq
      <4>5. Taken = Sent(Started)
        BY <1>3, <1>5, <3>1 DEF SendInv
      <4>6. Sent(Started) \o FirstBeats(plan[c], 0) = Sent(Started)
        <5>1. FirstBeats(plan[c], 0) = <<>>
          BY DEF FirstBeats
        <5>2. Sent(Started) \in Seq(ShownBeats)
          BY <1>2, <1>6
        <5> QED
          BY <5>1, <5>2, ConcatEmptySeq
      <4> QED
        BY <4>1, <4>3, <4>4, <4>5, <4>6
    <3>2. CASE ~Mst!Starts
      <4>1. Current = tx /\ At = tx_buf_idx /\ c = Started
        BY <1>8, <3>2 DEF Current, At
      <4>2. tx.data # <<>>
        BY <1>10, <4>1
      <4>3. PICK k \in Nat : Partly(k)
        BY <4>2 DEF SendInv
      <4>4. c \in 1 .. Len(plan)
        BY <1>2, <4>1, <4>3 DEF Partly
      <4> QED
        BY <1>3, <4>1, <4>3, <4>4 DEF Partly
    <3> QED
      BY <3>1, <3>2
  <2> DEFINE frame == plan[c]
  <2>2. frame \in Sendable /\ c - 1 \in 0 .. Len(plan) - 1 /\ (c - 1) + 1 = c
    BY <1>2, <2>1
  <2>3. s_axis' = Mst!Beat(frame, k * Lanes)
    BY <1>10, <2>1, AdvanceIs
  <2>4. Seen(s_axis') = BeatOf(frame, k + 1)
    BY <1>2, <2>1, <2>2, <2>3, BeatShown
  <2>5. s_axis'.tvalid
    BY <2>3 DEF Mst!Beat
  <2>6. Sent(c - 1) \in Seq(ShownBeats)
    BY <1>6, <2>2
  <2>7. Emitted' = Sent(c - 1) \o FirstBeats(frame, k + 1)
    <3>1. Emitted' = Append(Taken, Seen(s_axis'))
      BY <1>3, <2>5 DEF Emitted
    <3> HIDE DEF frame
    <3>2. Append(Sent(c - 1) \o FirstBeats(frame, k), BeatOf(frame, k + 1))
            = Sent(c - 1) \o FirstBeats(frame, k + 1)
      BY <2>2, <2>6, NextBeat
    <3> QED
      BY <2>1, <2>4, <3>1, <3>2 DEF frame
  <2>8. /\ Len(frame["data"]) - k * Lanes <= Lanes <=> k + 1 = Beats(frame)
        /\ k + 1 # Beats(frame) => (k + 1) * Lanes < Len(frame["data"])
    BY <2>1, <2>2, BeatsAre
  <2>9. CASE Len(frame["data"]) - k * Lanes <= Lanes
    <3>1. tx'.data = <<>>
      <4>1. tx' = [Current EXCEPT !["data"] = <<>>]
        BY <1>10, <2>1, <2>9, AdvanceIs
      <4> QED
        BY <2>1, <2>2, <4>1 DEF Sendable
    <3>2. Emitted' = Sent(c)
      BY <1>7, <2>2, <2>7, <2>8, <2>9
    <3>3. Emitted' = Sent(Started)'
      BY <1>11, <3>2
    <3> QED
      BY <1>1, <1>2, <1>4, <3>1, <3>3 DEF SendInv
  <2>10. CASE ~(Len(frame["data"]) - k * Lanes <= Lanes)
    <3>1. tx' = frame /\ tx_buf_idx' = k * Lanes + Lanes
      BY <1>10, <2>1, <2>10, AdvanceIs
    <3>2. k * Lanes + Lanes = (k + 1) * Lanes /\ k + 1 \in Nat
      BY <1>2, SMT
    <3>3. (k + 1) * Lanes < Len(frame["data"])
      BY <2>8, <2>10
    <3>4. tx'.data # <<>>
      <4>1. Len(frame["data"]) \in Nat /\ Len(frame["data"]) # 0
        <5>1. Len(frame["data"]) \in Nat
          BY <2>2 DEF Sendable
        <5>2. k * Lanes \in Nat
          BY <1>2, SMT
        <5> QED
          BY <2>1, <5>1, <5>2
      <4>2. frame["data"] # <<>>
        BY <4>1
      <4> QED
        BY <3>1, <4>2
    <3>5. Partly(k + 1)'
      <4>1. /\ Started' = c /\ c > 0 /\ tx' = plan'[Started'] /\ plan'[Started'] = frame
            /\ tx'["data"] = frame["data"]
        BY <1>1, <1>8, <2>1, <3>1
      <4>2. Emitted' = Sent(Started - 1)' \o FirstBeats(frame, k + 1)
        BY <1>11, <2>7
      <4> HIDE DEF frame
      <4> QED
        BY <3>1, <3>2, <3>3, <4>1, <4>2 DEF Partly
    <3> QED
      BY <1>1, <1>2, <1>4, <3>2, <3>4, <3>5 DEF SendInv
  <2> QED
    BY <2>9, <2>10
<1> QED
  BY <1>9, <1>10

LEMMA SendStep == MasterTypes /\ BusInv /\ SendInv /\ [Next]_vars => SendInv'
<1> SUFFICES ASSUME MasterTypes, BusInv, SendInv, [Next]_vars PROVE SendInv'
  OBVIOUS
<1>1. UNCHANGED plan
  BY DEF Next, Sample, Eval, Drive, Wake, fixed, vars
<1>2. CASE UNCHANGED vars
  <2>1. Emitted' = Emitted /\ accepted' = accepted
    BY <1>2 DEF vars, masterVars, Emitted, OnWire, Taken
  <2>2. accepted' \in Seq(Wires)
    BY <2>1 DEF SendInv
  <2>3. UNCHANGED <<tx_queue, tx, tx_buf_idx, sent, plan>>
    BY <1>2 DEF vars, masterVars, benchVars, fixed
  <2> QED
    BY <2>1, <2>2, <2>3, OthersKeepSend
<1>3. CASE Next /\ Drive /\ Mst!Advance /\ "s" \in rising /\ mst_tready_i
  BY <1>3, AdvanceKeeps
<1>4. CASE Next /\ ~(Drive /\ Mst!Advance)
  <2>1. Emitted' = Emitted /\ accepted' \in Seq(Wires)
    BY <1>4, EmittedKept
  <2>2. CASE Send
    BY <1>1, <2>1, <2>2, SendKeeps
  <2>3. CASE ~Send
    <3>1. UNCHANGED <<tx_queue, tx, tx_buf_idx, sent, plan>>
      BY <1>4, <2>3
      DEF Next, Sample, Eval, Drive, Wake, WakeS, Pause, fixed, masterVars, benchVars,
          Mst!update_input, Mst!update_output, Mst!vars
    <3> QED
      BY <2>1, <3>1, OthersKeepSend
  <2> QED
    BY <2>2, <2>3
<1>5. Drive /\ ~("s" \in rising /\ mst_tready_i) => UNCHANGED masterVars
  BY DEF Drive, Mst!update_output, Mst!Taken, Mst!vars, masterVars
<1>6. CASE Next /\ Drive /\ ~("s" \in rising /\ mst_tready_i)
  <2>1. UNCHANGED <<masterVars, sent, accepted>> /\ step' = "wake" /\ "s" \notin handshake
    BY <1>5, <1>6 DEF Drive, Goto, benchVars, BusInv, DriverKnows
  <2>2. Emitted' = Emitted
    BY <2>1 DEF Emitted, OnWire, Taken, masterVars
  <2>3. accepted' \in Seq(Wires) /\ UNCHANGED <<tx_queue, tx, tx_buf_idx, sent, plan>>
    BY <1>1, <2>1 DEF SendInv, masterVars
  <2> QED
    BY <2>2, <2>3, OthersKeepSend
<1> QED
  BY <1>2, <1>3, <1>4, <1>6

\* What has been put on the wires is a prefix of what must be.
LEMMA EmittedGoesOn ==
  ASSUME SendInv, MasterTypes
  PROVE  GoesOn(Emitted, Sent(sent), ShownBeats) /\ Emitted \in Seq(ShownBeats)
<1>1. /\ Started \in 0 .. sent /\ sent \in 0 .. Len(plan) /\ plan \in Seq(Sendable)
  BY DEF SendInv, QueueHolds, MasterTypes
<1>2. CASE tx.data = <<>>
  <2>1. Emitted = Sent(Started)
    BY <1>2 DEF SendInv
  <2>2. Started \in 0 .. Len(plan) /\ sent \in Started .. Len(plan)
    BY <1>1
  <2> QED
    BY <1>1, <2>1, <2>2, PackedPrefix, PackedIs DEF Sent
<1>3. CASE tx.data # <<>>
  <2>1. PICK k \in Nat : Partly(k)
    BY <1>3 DEF SendInv
  <2>2. PICK c \in 1 .. Len(plan) : c = Started
    BY <1>1, <2>1 DEF Partly
  <2> DEFINE frame == plan[c]
             n == Beats(frame)
  <2>3. /\ c - 1 \in 0 .. Len(plan) - 1 /\ c - 1 \in 0 .. Len(plan) /\ (c - 1) + 1 = c
        /\ c \in 0 .. Len(plan) /\ sent \in c .. Len(plan) /\ frame \in Sendable
    BY <1>1, <2>2
  <2>4. Emitted = Sent(c - 1) \o FirstBeats(frame, k)
    BY <2>1, <2>2 DEF Partly
  <2>5. Sent(c) = Sent(c - 1) \o FirstBeats(frame, n)
    BY <1>1, <2>3, PackedStep DEF Sent
  <2>6. PICK r \in Seq(ShownBeats) : Sent(sent) = Sent(c) \o r
    BY <1>1, <2>3, PackedPrefix DEF Sent, GoesOn
  <2>7. PICK x \in Seq(ShownBeats) : x = Sent(c - 1)
    BY <1>1, <2>3, PackedIs DEF Sent
  <2>8. k <= n /\ n \in Nat
    <3>1. k * Lanes < Len(frame["data"])
      BY <2>1, <2>2 DEF Partly
    <3>2. Len(frame["data"]) \in Nat /\ Lanes \in Nat \ {0}
      BY <2>3, AxisBenchAssumption DEF Sendable
    <3>3. n \in Nat
      BY <2>3, BeatsAre
    <3>4. n = (Len(frame["data"]) + Lanes - 1) \div Lanes
      BY DEF Beats
    <3> DEFINE m == Len(frame["data"])
    <3> HIDE DEF n, frame, m
    <3>5. m \in Nat /\ n = (m + Lanes - 1) \div Lanes /\ k * Lanes < m
      BY <3>1, <3>2, <3>4 DEF m
    <3>6. k <= n
      BY <3>2, <3>5, SMT
    <3> QED
      BY <3>3, <3>6
  <2>9. PICK y \in Seq(ShownBeats), z \in Seq(ShownBeats) :
          y = FirstBeats(frame, k) /\ FirstBeats(frame, n) = y \o z
    <3> DEFINE y == FirstBeats(frame, k)
               z == [i \in 1 .. n - k |-> BeatOf(frame, k + i)]
               w == FirstBeats(frame, n)
    <3>1. /\ y \in Seq(ShownBeats) /\ Len(y) = k /\ w \in Seq(ShownBeats) /\ Len(w) = n
          /\ \A i \in 1 .. k : y[i] = BeatOf(frame, i)
          /\ \A i \in 1 .. n : w[i] = BeatOf(frame, i)
      <4> HIDE DEF frame, n
      <4> QED
        BY <2>3, <2>8, FirstBeatsType DEF FirstBeats
    <3>2. /\ z \in Seq(ShownBeats) /\ Len(z) = n - k
          /\ \A i \in 1 .. n - k : z[i] = BeatOf(frame, k + i)
      <4>1. \A i \in 1 .. n - k : BeatOf(frame, k + i) \in ShownBeats
        <5>1. ASSUME NEW i \in 1 .. n - k PROVE k + i \in Nat
          BY <2>8
        <5> QED
          BY <2>3, <5>1 DEF ShownBeats
      <4> HIDE DEF frame, n
      <4> QED
        BY <2>8, <4>1
    <3> HIDE DEF y, z, w, frame, n
    <3>3. /\ y \o z \in Seq(ShownBeats) /\ Len(y \o z) = n
          /\ \A i \in 1 .. n : (y \o z)[i] = IF i <= k THEN y[i] ELSE z[i - k]
      <4>1. Len(y) + Len(z) = n
        BY <2>8, <3>1, <3>2
      <4>2. /\ y \o z \in Seq(ShownBeats) /\ Len(y \o z) = Len(y) + Len(z)
            /\ \A i \in 1 .. Len(y) + Len(z) :
                 (y \o z)[i] = IF i <= Len(y) THEN y[i] ELSE z[i - Len(y)]
        <5>1. y \in Seq(ShownBeats) /\ z \in Seq(ShownBeats)
          BY <3>1, <3>2
        <5> QED
          BY <5>1, ConcatProperties
      <4>3. Len(y) = k
        BY <3>1
      <4> QED
        BY <4>1, <4>2, <4>3
    <3> DEFINE yz == y \o z
    <3>4. ASSUME NEW i \in 1 .. n PROVE yz[i] = w[i]
      <4>1. CASE i <= k
        BY <2>8, <3>1, <3>3, <4>1
      <4>2. CASE ~(i <= k)
        <5>1. i - k \in 1 .. n - k /\ k + (i - k) = i
          BY <2>8, <4>2
        <5> QED
          BY <3>1, <3>2, <3>3, <4>2, <5>1
      <4> QED
        BY <4>1, <4>2
    <3>5. yz \in Seq(ShownBeats) /\ Len(yz) = n
      BY <3>3
    <3> HIDE DEF yz
    <3>6. w = yz
      BY <3>1, <3>4, <3>5, SeqEqual
    <3> QED
      BY <3>1, <3>2, <3>6 DEF y, w, yz
  <2> HIDE DEF frame, n
  <2>10. Emitted = x \o y
    BY <2>4, <2>7, <2>9
  <2>11. Sent(sent) = (x \o y) \o (z \o r)
    <3>1. Sent(sent) = (x \o (y \o z)) \o r
      BY <2>5, <2>6, <2>7, <2>9
    <3>2. (x \o y) \o z = x \o (y \o z)
      BY ConcatRegroups, SMTT(30)
    <3>3. PICK a \in Seq(ShownBeats) : a = x \o y
      BY ConcatCloses
    <3>4. (a \o z) \o r = a \o (z \o r)
      BY ConcatRegroups, SMTT(30)
    <3> QED
      BY <3>1, <3>2, <3>3, <3>4
  <2>12. x \o y \in Seq(ShownBeats) /\ z \o r \in Seq(ShownBeats)
    BY ConcatCloses
  <2> QED
    BY <2>10, <2>11, <2>12 DEF GoesOn
<1> QED
  BY <1>2, <1>3

LEMMA TakenIsPrefix ==
  ASSUME SendInv, MasterTypes
  PROVE  BeatsAsSent
<1>1. PICK r \in Seq(ShownBeats) : Sent(sent) = Emitted \o r
  BY EmittedGoesOn DEF GoesOn
<1>2. Taken \in Seq({Seen(w) : w \in Wires})
  BY DEF Taken, SendInv
<1>3. CASE ~OnWire
  <2>1. Emitted = Taken /\ Emitted \in Seq(ShownBeats)
    BY <1>3, EmittedGoesOn DEF Emitted
  <2>2. IsPrefix(Taken, Sent(sent))
    BY <1>1, <2>1, PrefixConcat
  <2> QED
    BY <2>2 DEF BeatsAsSent, Taken, Sent
<1>4. CASE OnWire
  <2> DEFINE b == Seen(s_axis)
             T == {Seen(w) : w \in Wires} \cup ShownBeats \cup {b}
  <2>1. Emitted = Append(Taken, b)
    BY <1>4 DEF Emitted
  <2>2. Taken \in Seq(T) /\ r \in Seq(T) /\ b \in T
    BY <1>2, SeqMonotonic
  <2> HIDE DEF b, T
  <2>3. Append(Taken, b) = Taken \o <<b>> /\ <<b>> \in Seq(T)
    BY <2>2
  <2>4. (Taken \o <<b>>) \o r = Taken \o (<<b>> \o r)
    BY <2>2, <2>3, ConcatRegroups
  <2>5. <<b>> \o r \in Seq(T)
    BY <2>2, <2>3, ConcatProperties
  <2>6. IsPrefix(Taken, Taken \o (<<b>> \o r))
    BY <2>2, <2>5, PrefixConcat
  <2>7. IsPrefix(Taken, Sent(sent))
    BY <1>1, <2>1, <2>3, <2>4, <2>6
  <2> QED
    BY <2>7 DEF BeatsAsSent, Taken, Sent
<1> QED
  BY <1>3, <1>4

LEMMA SendInvariant == Spec => [](MasterTypes /\ SendInv)
BY DutInit, DutStep, MasterInit, MasterStep, BusInit, BusStep, SendInit, SendStep, PTL DEF Spec

\* The beats the FIFO takes are those of the frames in the order they were sent,
\* for every plan, depth and width and whatever tready and the writer do.
THEOREM BeatsInOrder == Spec => []BeatsAsSent
<1>1. MasterTypes /\ SendInv => BeatsAsSent
  BY TakenIsPrefix
<1> QED
  BY <1>1, SendInvariant, PTL

-----------------------------------------------------------------------------
(* Types *)

WordInv ==
  /\ dwr.mem \in [0 .. DEPTH - 1 -> Words] /\ drd.data \in Words
  /\ awr.mem \in [0 .. AUX_DEPTH - 1 -> AuxWords] /\ ard.data \in AuxWords
SlaveInv ==
  /\ slv_i.tvalid => slv_i.tdata \in [1 .. Lanes -> Bytes]
  /\ recv_buf \in Seq(Bytes) /\ rx_queue \in Seq(Seq(Bytes)) /\ rx \in 0 .. ExpWords
CountInv ==
  /\ step \in {"sample", "eval", "drive", "wake"}
  /\ rising \subseteq {"s", "m"} /\ handshake \subseteq {"s", "m"}
  /\ sEdges \in 0 .. WriteAfter /\ mEdges \in 0 .. ReadAfter
  /\ \E k \in Nat : tx_buf_idx = k * Lanes
  /\ frame_beat_cnt \in 0 .. 2 * DEPTH - 1 /\ skip_cnt \in 0 .. DEPTH
  /\ state \in {"WAIT", "FORWARD", "DISCARD"}
TypeInv == WordInv /\ SlaveInv /\ CountInv

LEMMA TypeInit == Init => TypeInv
<1> SUFFICES ASSUME Init PROVE TypeInv
  OBVIOUS
<1>1. WordInv
  <2>1. BlankBeat \in Words /\ BlankAux \in AuxWords
    BY AxisBenchAssumption
  <2>2. /\ dwr.mem = [a \in 0 .. DEPTH - 1 |-> BlankBeat] /\ drd.data = BlankBeat
        /\ awr.mem = [a \in 0 .. AUX_DEPTH - 1 |-> BlankAux] /\ ard.data = BlankAux
    BY DEF Init, Dut!Init, Dut!D!Init, Dut!A!Init
  <2> QED
    BY <2>1, <2>2 DEF WordInv
<1>2. SlaveInv
  <2>1. slv_i.tvalid = FALSE /\ recv_buf = <<>> /\ rx_queue = <<>> /\ rx = 0
    BY DEF Init, Slv!Init
  <2>2. <<>> \in Seq(Bytes) /\ <<>> \in Seq(Seq(Bytes)) /\ 0 \in 0 .. ExpWords
    BY AxisBenchAssumption
  <2> QED
    BY <2>1, <2>2 DEF SlaveInv
<1>3. CountInv
  <2>1. /\ step = "sample" /\ rising = {} /\ handshake = {} /\ sEdges = 0 /\ mEdges = 0
        /\ tx_buf_idx = 0 /\ frame_beat_cnt = 0 /\ skip_cnt = 0 /\ state = "WAIT"
    BY DEF Init, Mst!Init, Dut!Init
  <2>2. /\ 0 \in 0 .. WriteAfter /\ 0 \in 0 .. ReadAfter /\ 0 \in 0 .. DEPTH
        /\ 0 \in 0 .. 2 * DEPTH - 1
    BY AxisBenchAssumption, SMT
  <2>3. 0 = 0 * Lanes
    BY AxisBenchAssumption
  <2> QED
    BY <2>1, <2>2, <2>3 DEF CountInv
<1> QED
  BY <1>1, <1>2, <1>3 DEF TypeInv

LEMMA EvalKeepsWords ==
  ASSUME DutInv, MasterTypes, WordInv, Eval
  PROVE  WordInv'
<1> DEFINE wr_en == s_axis.tvalid /\ Dut!s_tready
           last == wr_en /\ s_axis.tlast
           word == [tdata |-> s_axis.tdata, tlast |-> s_axis.tlast, tid |-> s_axis.tid,
                    tdest |-> s_axis.tdest, tuser |-> s_axis.tuser]
           bad == FRAME_FIFO /\ Dut!FrameIsBad(wr_en)
           aux == [tkeep |-> s_axis.tkeep, bad |-> bad]
           aux_en == IF FRAME_FIFO THEN last ELSE wr_en
<1>1. word \in Words /\ aux \in AuxWords
  <2>1. s_axis \in Wires
    BY DEF MasterTypes
  <2>2. word \in Words
    BY <2>1 DEF Wires, Words
  <2>3. bad \in BOOLEAN
    OBVIOUS
  <2> HIDE DEF bad
  <2>4. aux \in AuxWords
    BY <2>1, <2>3 DEF Wires, AuxWords
  <2> QED
    BY <2>2, <2>4
<1>2. "s" \in rising => Dut!D!WrEdge(rst, wr_en, word) /\ Dut!A!WrEdge(rst, aux_en, aux)
  BY DEF Eval, Dut!SEdge
<1>3. "s" \notin rising => UNCHANGED <<dwr, awr>>
  BY DEF Eval
<1> HIDE DEF wr_en, last, word, aux, aux_en, bad
<1>4. /\ DP!WrEdge(rst, wr_en, word) \/ UNCHANGED dwr
      /\ AP!WrEdge(rst, aux_en, aux) \/ UNCHANGED awr
  BY <1>2, <1>3, SameData, SameAux
<1>5. PICK pop : DP!RdEdge(rst, pop) \/ UNCHANGED drd
  BY EvalMoves
<1>6. PICK go : AP!RdEdge(rst, go) \/ UNCHANGED ard
  BY EvalMoves
<1>7. dwr'.mem \in [0 .. DEPTH - 1 -> Words] /\ drd'.data \in Words
  BY <1>1, <1>4, <1>5, DP!WordsStay, AxisBenchAssumption DEF DutInv, WordInv
<1>8. awr'.mem \in [0 .. AUX_DEPTH - 1 -> AuxWords] /\ ard'.data \in AuxWords
  BY <1>1, <1>4, <1>6, AP!WordsStay, AxisBenchAssumption DEF DutInv, WordInv
<1> QED
  BY <1>7, <1>8 DEF WordInv

LEMMA WordStep == DutInv /\ MasterTypes /\ WordInv /\ [Next]_vars => WordInv'
<1> SUFFICES ASSUME DutInv, MasterTypes, WordInv, [Next]_vars PROVE WordInv'
  OBVIOUS
<1>1. CASE Eval
  BY <1>1, EvalKeepsWords
<1>2. CASE ~Eval
  <2>1. UNCHANGED <<dwr, drd, awr, ard>>
    BY <1>2 DEF Next, Sample, Drive, Wake, vars, dutVars
  <2> QED
    BY <2>1 DEF WordInv
<1> QED
  BY <1>1, <1>2

LEMMA KeptBytesType ==
  ASSUME NEW tdata \in [1 .. Lanes -> Bytes], NEW tkeep
  PROVE  Slv!KeptBytes(tdata, tkeep) \in Seq(Bytes)
<1> DEFINE s == [l \in 1 .. Lanes |-> IF l \in tkeep THEN <<tdata[l]>> ELSE <<>>]
<1>1. s \in Seq(Seq(Bytes))
  <2>1. Lanes \in Nat
    BY AxisBenchAssumption
  <2>2. ASSUME NEW l \in 1 .. Lanes PROVE (IF l \in tkeep THEN <<tdata[l]>> ELSE <<>>) \in Seq(Bytes)
    <3>1. tdata[l] \in Bytes
      OBVIOUS
    <3> QED
      BY <3>1
  <2> QED
    BY <2>1, <2>2
<1> HIDE DEF s
<1>2. FlattenSeq(s) \in Seq(Bytes)
  BY <1>1, FlattenAppend, EmptySeq
<1>3. Slv!FlattenSeq(s) = FlattenSeq(s)
  BY DEF Slv!FlattenSeq, FlattenSeq
<1>4. Slv!KeptBytes(tdata, tkeep) = Slv!FlattenSeq(s)
  BY DEF Slv!KeptBytes, s
<1> QED
  BY <1>2, <1>3, <1>4

LEMMA SlaveStep == WordInv /\ SlaveInv /\ [Next]_vars => SlaveInv'
<1> SUFFICES ASSUME WordInv, SlaveInv, [Next]_vars PROVE SlaveInv'
  OBVIOUS
<1>1. CASE UNCHANGED <<slaveVars, rx>>
  BY <1>1 DEF SlaveInv, slaveVars
<1>2. ASSUME Slv!update_input(Dut!m_tvalid, Dut!m_tdata, Dut!m_tkeep, Dut!m_tlast), UNCHANGED rx
      PROVE  SlaveInv'
  <2>1. slv_i'.tdata = drd.data.tdata /\ UNCHANGED <<recv_buf, rx_queue>>
    BY <1>2 DEF Slv!update_input, Dut!m_tdata
  <2>2. drd.data.tdata \in [1 .. Lanes -> Bytes]
    BY DEF WordInv, Words
  <2> QED
    BY <1>2, <2>1, <2>2 DEF SlaveInv
<1>3. ASSUME Slv!update_output, UNCHANGED rx PROVE SlaveInv'
  <2> DEFINE buf == recv_buf \o Slv!KeptBytes(slv_i.tdata, slv_i.tkeep)
  <2>1. Slv!Transfer => buf \in Seq(Bytes)
    <3> SUFFICES ASSUME Slv!Transfer PROVE buf \in Seq(Bytes)
      OBVIOUS
    <3>1. Slv!KeptBytes(slv_i.tdata, slv_i.tkeep) \in Seq(Bytes)
      BY KeptBytesType DEF SlaveInv, Slv!Transfer
    <3> QED
      BY <3>1, ConcatProperties DEF SlaveInv
  <2>2. /\ UNCHANGED <<slv_i, rx>>
        /\ ~Slv!Transfer => UNCHANGED <<recv_buf, rx_queue>>
        /\ Slv!Transfer => \/ rx_queue' = Append(rx_queue, buf) /\ recv_buf' = <<>>
                           \/ rx_queue' = rx_queue /\ recv_buf' = buf
    BY <1>3 DEF Slv!update_output
  <2> HIDE DEF buf
  <2>3. recv_buf' \in Seq(Bytes) /\ rx_queue' \in Seq(Seq(Bytes))
    <3>1. recv_buf \in Seq(Bytes) /\ rx_queue \in Seq(Seq(Bytes)) /\ <<>> \in Seq(Bytes)
      BY DEF SlaveInv
    <3>2. buf \in Seq(Bytes) => Append(rx_queue, buf) \in Seq(Seq(Bytes))
      BY <3>1
    <3> QED
      BY <2>1, <2>2, <3>1, <3>2
  <2> QED
    BY <2>2, <2>3 DEF SlaveInv
<1>4. ASSUME Read, UNCHANGED <<slv_i, recv_buf>> PROVE SlaveInv'
  <2>1. CASE ~(mEdges = ReadAfter /\ rx < ExpWords /\ rx_queue # <<>>)
    BY <1>4, <2>1 DEF Read, SlaveInv
  <2>2. CASE mEdges = ReadAfter /\ rx < ExpWords /\ rx_queue # <<>>
    <3>1. /\ rx_queue' = Tail(rx_queue)
          /\ rx' = CountWords(rx + Len(Head(rx_queue)) \div Lanes)
      BY <1>4, <2>2 DEF Read, Slv!recv
    <3>2. Head(rx_queue) \in Seq(Bytes) /\ Tail(rx_queue) \in Seq(Seq(Bytes))
      BY <2>2, HeadTailProperties DEF SlaveInv
    <3> DEFINE n == Len(Head(rx_queue))
    <3>3. n \in Nat /\ Lanes \in Nat \ {0} /\ ExpWords \in Nat /\ rx \in 0 .. ExpWords
      BY <3>2, AxisBenchAssumption DEF SlaveInv
    <3>4. rx' = CountWords(rx + n \div Lanes)
      BY <3>1
    <3> HIDE DEF n
    <3>5. n \div Lanes \in Nat
      BY <3>3, SMT
    <3>6. rx' \in 0 .. ExpWords
      BY <3>3, <3>4, <3>5 DEF CountWords
    <3> QED
      BY <1>4, <3>1, <3>2, <3>6 DEF SlaveInv
  <2> QED
    BY <2>1, <2>2
<1> QED
  BY <1>1, <1>2, <1>3, <1>4
  DEF Next, Sample, Eval, Drive, Wake, WakeM, vars, slaveVars, benchVars, Slv!set_tready

LEMMA CountStep == DutInv /\ MasterTypes /\ CountInv /\ [Next]_vars => CountInv'
<1> SUFFICES ASSUME DutInv, MasterTypes, CountInv, [Next]_vars PROVE CountInv'
  OBVIOUS
<1>1. /\ step' \in {"sample", "eval", "drive", "wake"}
      /\ rising' \subseteq {"s", "m"} /\ handshake' \subseteq {"s", "m"}
  BY DEF Next, Sample, Eval, Drive, Wake, Goto, vars, CountInv
<1>2. sEdges' \in 0 .. WriteAfter /\ mEdges' \in 0 .. ReadAfter
  <2>1. /\ sEdges' = sEdges \/ sEdges' = Count(sEdges, WriteAfter)
        /\ mEdges' = mEdges \/ mEdges' = Count(mEdges, ReadAfter)
    BY DEF Next, Sample, Eval, Drive, Wake, WakeS, WakeM, benchVars, vars
  <2>2. WriteAfter \in Nat /\ ReadAfter \in Nat
    BY AxisBenchAssumption
  <2> QED
    BY <2>1, <2>2 DEF Count, CountInv
<1>3. \E k \in Nat : tx_buf_idx' = k * Lanes
  <2>1. CASE UNCHANGED tx_buf_idx
    BY <2>1 DEF CountInv
  <2>2. CASE Mst!Advance
    <3>1. tx_buf_idx' = At \/ tx_buf_idx' = 0 \/ tx_buf_idx' = At + Lanes
      BY <2>2, AdvanceIs
    <3>2. PICK k \in Nat : At = k * Lanes
      <4>1. 0 = 0 * Lanes
        BY AxisBenchAssumption
      <4> QED
        BY <4>1 DEF At, CountInv
    <3>3. 0 = 0 * Lanes /\ k * Lanes + Lanes = (k + 1) * Lanes /\ k + 1 \in Nat
      BY AxisBenchAssumption, SMT
    <3> QED
      BY <3>1, <3>2, <3>3
  <2> QED
    BY <2>1, <2>2
    DEF Next, Sample, Eval, Drive, Wake, WakeS, Send, Pause, vars, masterVars,
        Mst!update_input, Mst!send, Mst!update_output, Mst!vars
<1>4. /\ frame_beat_cnt' \in 0 .. 2 * DEPTH - 1 /\ skip_cnt' \in 0 .. DEPTH
      /\ state' \in {"WAIT", "FORWARD", "DISCARD"}
  <2>1. DEPTH \in Nat \ {0}
    BY AxisBenchAssumption
  <2>2. frame_beat_cnt' \in 0 .. 2 * DEPTH - 1
    <3>1. /\ frame_beat_cnt' = 0 \/ frame_beat_cnt' = frame_beat_cnt
              \/ frame_beat_cnt' = Dut!D!Inc(frame_beat_cnt)
      BY DEF Next, Sample, Eval, Drive, Wake, Dut!SEdge, vars, dutVars
    <3>2. Dut!D!Inc(frame_beat_cnt) \in 0 .. 2 * DEPTH - 1 /\ 0 \in 0 .. 2 * DEPTH - 1
      BY <2>1, SMT DEF Dut!D!Inc, CountInv
    <3> QED
      BY <3>1, <3>2 DEF CountInv
  <2>3. skip_cnt' \in 0 .. DEPTH
    <3>1. \/ skip_cnt' = 0 \/ skip_cnt' = skip_cnt
          \/ skip_cnt # DEPTH /\ skip_cnt' = skip_cnt + 1
      BY DEF Next, Sample, Eval, Drive, Wake, Dut!MEdge, Dut!FrameEdge, Dut!BeatEdge, vars, dutVars
    <3> QED
      BY <2>1, <3>1 DEF CountInv
  <2>4. state' \in {"WAIT", "FORWARD", "DISCARD"}
    BY DEF Next, Sample, Eval, Drive, Wake, Dut!MEdge, Dut!FrameEdge, Dut!BeatEdge,
           Dut!nstate, vars, dutVars, CountInv
  <2> QED
    BY <2>2, <2>3, <2>4
<1> QED
  BY <1>1, <1>2, <1>3, <1>4 DEF CountInv

LEMMA TypeStep == DutInv /\ MasterTypes /\ TypeInv /\ [Next]_vars => TypeInv'
BY WordStep, SlaveStep, CountStep DEF TypeInv

LEMMA TypesFollow == MasterTypes /\ TypeInv => TypeOK
<1> SUFFICES ASSUME MasterTypes, TypeInv PROVE TypeOK
  OBVIOUS
<1>1. s_axis.tkeep \subseteq 1 .. Lanes /\ s_axis.tdata \in [1 .. Lanes -> Bytes]
  BY DEF MasterTypes, Wires
<1>2. tx_buf_idx \in Nat /\ tx_buf_idx % Lanes = 0
  <2>1. PICK k \in Nat : tx_buf_idx = k * Lanes
    BY DEF TypeInv, CountInv
  <2>2. (k * Lanes) % Lanes = 0 /\ k * Lanes \in Nat
    BY AxisBenchAssumption, SMT
  <2> QED
    BY <2>1, <2>2
<1> QED
  BY <1>1, <1>2 DEF MasterTypes, TypeInv, SlaveInv, CountInv, TypeOK

\* The types of the bench, its counters within their bounds and the driver's
\* index at the start of a beat, for every plan, depth and width.
THEOREM TypeCorrect == Spec => []TypeOK
BY DutInit, DutStep, MasterInit, MasterStep, TypeInit, TypeStep, TypesFollow, PTL DEF Spec

-----------------------------------------------------------------------------
(* What must come out *)

Wanted == {frame \in Sendable : Delivers(frame)}
Pieces(p, i) == [j \in 1 .. i |-> IF Delivers(p[j]) THEN <<p[j]>> ELSE <<>>]

LEMMA PiecesType ==
  ASSUME NEW p \in Seq(Sendable), NEW i \in 0 .. Len(p)
  PROVE  /\ Pieces(p, i) \in Seq(Seq(Wanted))
         /\ Due(SubSeq(p, 1, i)) = FlattenSeq(Pieces(p, i))
         /\ Due(SubSeq(p, 1, i)) \in Seq(Wanted)
<1>1. i \in Nat /\ \A j \in 1 .. i : p[j] \in Sendable
  OBVIOUS
<1>2. Due(SubSeq(p, 1, i)) = FlattenSeq(Pieces(p, i))
  <2>1. DOMAIN SubSeq(p, 1, i) = 1 .. i /\ \A j \in 1 .. i : SubSeq(p, 1, i)[j] = p[j]
    BY <1>1
  <2> QED
    BY <2>1 DEF Due, Pieces
<1>3. Pieces(p, i) \in Seq(Seq(Wanted))
  <2>1. ASSUME NEW j \in 1 .. i
        PROVE  (IF Delivers(p[j]) THEN <<p[j]>> ELSE <<>>) \in Seq(Wanted)
    <3>1. CASE Delivers(p[j])
      <4>1. p[j] \in Wanted
        BY <1>1, <3>1 DEF Wanted
      <4> QED
        BY <3>1, <4>1
    <3>2. CASE ~Delivers(p[j])
      BY <3>2
    <3> QED
      BY <3>1, <3>2
  <2> QED
    BY <1>1, <2>1 DEF Pieces
<1>4. FlattenSeq(Pieces(p, i)) \in Seq(Wanted)
  BY <1>3, FlattenAppend, EmptySeq
<1> QED
  BY <1>2, <1>3, <1>4

\* One more frame of the plan is one more frame due, or none.
LEMMA DueStep ==
  ASSUME NEW p \in Seq(Sendable), NEW i \in 0 .. Len(p) - 1
  PROVE  Due(SubSeq(p, 1, i + 1)) =
           IF Delivers(p[i + 1]) THEN Append(Due(SubSeq(p, 1, i)), p[i + 1])
           ELSE Due(SubSeq(p, 1, i))
<1> DEFINE t == IF Delivers(p[i + 1]) THEN <<p[i + 1]>> ELSE <<>>
<1>1. i \in 0 .. Len(p) /\ i + 1 \in 0 .. Len(p) /\ p[i + 1] \in Sendable
  OBVIOUS
<1>2. /\ Pieces(p, i) \in Seq(Seq(Wanted)) /\ Pieces(p, i + 1) \in Seq(Seq(Wanted))
      /\ Due(SubSeq(p, 1, i)) = FlattenSeq(Pieces(p, i))
      /\ Due(SubSeq(p, 1, i + 1)) = FlattenSeq(Pieces(p, i + 1))
  BY <1>1, PiecesType
<1>3. t \in Seq(Wanted)
  <2>1. Delivers(p[i + 1]) => p[i + 1] \in Wanted
    BY <1>1 DEF Wanted
  <2> QED
    BY <2>1
<1>4. Pieces(p, i + 1) = Append(Pieces(p, i), t)
  BY DEF Pieces
<1> HIDE DEF t
<1>5. Due(SubSeq(p, 1, i + 1)) = Due(SubSeq(p, 1, i)) \o t
  BY <1>2, <1>3, <1>4, FlattenAppend
<1>6. PICK q \in Seq(Wanted) : q = Due(SubSeq(p, 1, i))
  BY <1>1, PiecesType
<1>7. CASE Delivers(p[i + 1])
  <2>1. t = <<p[i + 1]>> /\ p[i + 1] \in Wanted
    BY <1>1, <1>7 DEF t, Wanted
  <2>2. \A x \in Wanted : q \o <<x>> = Append(q, x)
    OBVIOUS
  <2> QED
    BY <1>5, <1>6, <1>7, <2>1, <2>2
<1>8. CASE ~Delivers(p[i + 1])
  <2>1. t = <<>>
    BY <1>8 DEF t
  <2>2. q \o <<>> = q
    BY ConcatEmptySeq
  <2> QED
    BY <1>5, <1>6, <1>8, <2>1, <2>2
<1> QED
  BY <1>7, <1>8

LEMMA DueNone == ASSUME NEW p \in Seq(Sendable) PROVE Due(SubSeq(p, 1, 0)) = <<>>
<1>1. SubSeq(p, 1, 0) = <<>>
  OBVIOUS
<1>2. [i \in DOMAIN <<>> |-> IF Delivers(<<>>[i]) THEN <<<<>>[i]>> ELSE <<>>] = <<>>
  OBVIOUS
<1> QED
  BY <1>1, <1>2 DEF Due, FlattenSeq

\* The frames due of a prefix of the plan come first.
LEMMA DuePrefix ==
  ASSUME NEW p \in Seq(Sendable), NEW i \in 0 .. Len(p), NEW j \in i .. Len(p)
  PROVE  GoesOn(Due(SubSeq(p, 1, i)), Due(SubSeq(p, 1, j)), Wanted)
<1> DEFINE n == Len(p)
           P == [k \in 0 .. n |-> Due(SubSeq(p, 1, k))]
<1>1. n \in Nat /\ i \in 0 .. n /\ j \in i .. n /\ j \in 0 .. n
  OBVIOUS
<1>2. P \in [0 .. n -> Seq(Wanted)]
  BY PiecesType
<1>3. ASSUME NEW k \in 0 .. n - 1
      PROVE  GoesOn(P[k], P[k + 1], Wanted)
  <2>1. k \in 0 .. n /\ k + 1 \in 0 .. n /\ p[k + 1] \in Sendable /\ k \in 0 .. Len(p) - 1
    OBVIOUS
  <2>2. PICK q \in Seq(Wanted) : q = Due(SubSeq(p, 1, k))
    BY <2>1, PiecesType
  <2>3. CASE Delivers(p[k + 1])
    <3>1. Due(SubSeq(p, 1, k + 1)) = Append(q, p[k + 1])
      BY <2>1, <2>2, <2>3, DueStep
    <3>2. p[k + 1] \in Wanted
      BY <2>1, <2>3 DEF Wanted
    <3>3. \A x \in Wanted : <<x>> \in Seq(Wanted) /\ Append(q, x) = q \o <<x>>
      OBVIOUS
    <3> QED
      BY <2>1, <2>2, <3>1, <3>2, <3>3 DEF GoesOn
  <2>4. CASE ~Delivers(p[k + 1])
    <3>1. Due(SubSeq(p, 1, k + 1)) = q
      BY <2>1, <2>2, <2>4, DueStep
    <3>2. <<>> \in Seq(Wanted) /\ q = q \o <<>>
      BY ConcatEmptySeq
    <3> QED
      BY <2>1, <2>2, <3>1, <3>2 DEF GoesOn
  <2> QED
    BY <2>3, <2>4
<1>4. P[i] = Due(SubSeq(p, 1, i)) /\ P[j] = Due(SubSeq(p, 1, j))
  BY <1>1
<1> HIDE DEF P, n
<1>5. Growing(P, n, Wanted)
  BY <1>1, <1>2, <1>3 DEF Growing
<1> QED
  BY <1>1, <1>4, <1>5, Grows

-----------------------------------------------------------------------------
(* Where the beats of a frame are *)

LEMMA PackedType ==
  ASSUME NEW q \in Seq(Sendable)
  PROVE  Packed(q) \in Seq(ShownBeats) /\ SubSeq(q, 1, Len(q)) = q
<1>1. SubSeq(q, 1, Len(q)) = q /\ Len(q) \in 0 .. Len(q)
  OBVIOUS
<1>2. Packed(SubSeq(q, 1, Len(q))) \in Seq(ShownBeats)
  BY <1>1, PackedIs
<1> QED
  BY <1>1, <1>2

LEMMA PackedAppend ==
  ASSUME NEW q \in Seq(Sendable), NEW x \in Sendable
  PROVE  Packed(Append(q, x)) = Packed(q) \o FirstBeats(x, Beats(x))
<1>1. PICK p \in Seq(Sendable) : p = Append(q, x)
  <2>1. Append(q, x) \in Seq(Sendable)
    OBVIOUS
  <2> QED
    BY <2>1
<1>2. Len(p) = Len(q) + 1 /\ Len(q) \in 0 .. Len(p) - 1 /\ p[Len(q) + 1] = x
  BY <1>1
<1>3. SubSeq(p, 1, Len(q) + 1) = p /\ SubSeq(p, 1, Len(q)) = q
  BY <1>1, <1>2
<1> QED
  BY <1>1, <1>2, <1>3, PackedStep

Start(q, j) == Len(Packed(SubSeq(q, 1, j)))

LEMMA Starts0 ==
  ASSUME NEW q \in Seq(Sendable)
  PROVE  Start(q, 0) = 0 /\ Start(q, Len(q)) = Len(Packed(q))
<1>1. Packed(SubSeq(q, 1, 0)) = <<>> /\ SubSeq(q, 1, Len(q)) = q
  BY PackedNone, PackedType
<1> QED
  BY <1>1 DEF Start

LEMMA StartNat ==
  ASSUME NEW q \in Seq(Sendable), NEW j \in 0 .. Len(q)
  PROVE  Start(q, j) \in Nat
BY PackedIs DEF Start

LEMMA StartStep ==
  ASSUME NEW q \in Seq(Sendable), NEW j \in 0 .. Len(q) - 1
  PROVE  Start(q, j + 1) = Start(q, j) + Beats(q[j + 1])
<1>1. j \in 0 .. Len(q) /\ q[j + 1] \in Sendable
  OBVIOUS
<1>2. PICK x \in Seq(ShownBeats) : x = Packed(SubSeq(q, 1, j))
  BY <1>1, PackedIs
<1>3. PICK y \in Seq(ShownBeats) : y = FirstBeats(q[j + 1], Beats(q[j + 1])) /\ Len(y) = Beats(q[j + 1])
  BY <1>1, BeatsAre, FirstBeatsType
<1>4. Packed(SubSeq(q, 1, j + 1)) = x \o y
  BY <1>2, <1>3, PackedStep
<1>5. Len(x \o y) = Len(x) + Len(y)
  OBVIOUS
<1> QED
  BY <1>2, <1>3, <1>4, <1>5 DEF Start

LEMMA StartGrows ==
  ASSUME NEW q \in Seq(Sendable), NEW i \in 0 .. Len(q), NEW j \in i .. Len(q)
  PROVE  Start(q, i) <= Start(q, j)
<1>1. PICK r \in Seq(ShownBeats) : Packed(SubSeq(q, 1, j)) = Packed(SubSeq(q, 1, i)) \o r
  BY PackedPrefix DEF GoesOn
<1>2. PICK x \in Seq(ShownBeats) : x = Packed(SubSeq(q, 1, i))
  BY PackedIs
<1>3. Len(x \o r) = Len(x) + Len(r) /\ Len(x) \in Nat /\ Len(r) \in Nat
  OBVIOUS
<1> QED
  BY <1>1, <1>2, <1>3 DEF Start

\* Beat k of frame j + 1 is that many after the beats of the first j frames.
LEMMA BeatAt ==
  ASSUME NEW q \in Seq(Sendable), NEW j \in 0 .. Len(q) - 1, NEW k \in 1 .. Beats(q[j + 1])
  PROVE  /\ Start(q, j) + k \in 1 .. Len(Packed(q))
         /\ Packed(q)[Start(q, j) + k] = BeatOf(q[j + 1], k)
<1>1. j \in 0 .. Len(q) /\ j + 1 \in 0 .. Len(q) /\ q[j + 1] \in Sendable
      /\ Len(q) \in j + 1 .. Len(q)
  OBVIOUS
<1>2. PICK x \in Seq(ShownBeats) : x = Packed(SubSeq(q, 1, j))
  BY <1>1, PackedIs
<1>3. PICK y \in Seq(ShownBeats) : y = FirstBeats(q[j + 1], Beats(q[j + 1])) /\ Len(y) = Beats(q[j + 1])
  BY <1>1, BeatsAre, FirstBeatsType
<1>4. Packed(SubSeq(q, 1, j + 1)) = x \o y
  BY <1>2, <1>3, PackedStep
<1>5. PICK r \in Seq(ShownBeats) : Packed(q) = (x \o y) \o r
  <2>1. PICK r \in Seq(ShownBeats) :
          Packed(SubSeq(q, 1, Len(q))) = Packed(SubSeq(q, 1, j + 1)) \o r
    BY <1>1, PackedPrefix DEF GoesOn
  <2> QED
    BY <1>4, <2>1, PackedType
<1>6. y[k] = BeatOf(q[j + 1], k)
  BY <1>3 DEF FirstBeats
<1>7. k \in 1 .. Len(y)
  BY <1>3
<1>8. /\ Len(x) + k \in 1 .. Len(x \o y) /\ (x \o y)[Len(x) + k] = y[k]
  BY <1>7
<1>9. PICK z \in Seq(ShownBeats) : z = x \o y
  BY ConcatCloses
<1>10. /\ Len(x) + k \in 1 .. Len(z \o r) /\ (z \o r)[Len(x) + k] = z[Len(x) + k]
  BY <1>8, <1>9
<1> QED
  BY <1>2, <1>5, <1>6, <1>8, <1>9, <1>10 DEF Start

\* A plan of which nothing is dropped has the beats of its frames that are due.
LEMMA SamePacked ==
  ASSUME NEW p \in Seq(Sendable), NEW n \in 0 .. Len(p),
         \A j \in 1 .. n : Beats(p[j]) > 0 => Delivers(p[j])
  PROVE  Packed(SubSeq(p, 1, n)) = Packed(Due(SubSeq(p, 1, n)))
<1> DEFINE Same(k) == Packed(SubSeq(p, 1, k)) = Packed(Due(SubSeq(p, 1, k)))
           S == {k \in Nat : k <= n => Same(k)}
<1>1. n \in Nat
  OBVIOUS
<1>2. 0 \in S
  <2>1. SubSeq(p, 1, 0) = <<>> /\ Due(SubSeq(p, 1, 0)) = <<>>
    BY DueNone
  <2>2. Same(0)
    BY <2>1
  <2> QED
    BY <2>2
<1>3. ASSUME NEW k \in Nat, k \in S PROVE k + 1 \in S
  <2> SUFFICES ASSUME k + 1 <= n PROVE Same(k + 1)
    OBVIOUS
  <2>1. k \in 0 .. Len(p) - 1 /\ k \in 0 .. Len(p) /\ k + 1 \in 1 .. n /\ p[k + 1] \in Sendable
        /\ k <= n
    BY <1>1
  <2>2. Same(k)
    BY <1>3, <2>1
  <2> DEFINE x == p[k + 1]
  <2>3. Packed(SubSeq(p, 1, k + 1)) = Packed(SubSeq(p, 1, k)) \o FirstBeats(x, Beats(x))
    BY <2>1, PackedStep
  <2>4. PICK q \in Seq(Sendable) : q = Due(SubSeq(p, 1, k))
    <3>1. Due(SubSeq(p, 1, k)) \in Seq(Wanted)
      BY <2>1, PiecesType
    <3>2. Seq(Wanted) \subseteq Seq(Sendable)
      BY SeqMonotonic DEF Wanted
    <3> QED
      BY <3>1, <3>2
  <2>5. CASE Delivers(x)
    <3>1. Due(SubSeq(p, 1, k + 1)) = Append(q, x)
      BY <2>1, <2>4, <2>5, DueStep
    <3>2. Packed(Append(q, x)) = Packed(q) \o FirstBeats(x, Beats(x))
      BY <2>1, PackedAppend
    <3> QED
      BY <2>2, <2>3, <2>4, <3>1, <3>2
  <2>6. CASE ~Delivers(x)
    <3>1. Due(SubSeq(p, 1, k + 1)) = q
      BY <2>1, <2>4, <2>6, DueStep
    <3>2. Beats(x) = 0
      <4>1. Beats(x) \in Nat /\ ~(Beats(x) > 0)
        BY <2>1, <2>6, BeatsAre
      <4> QED
        BY <4>1
    <3>3. FirstBeats(x, 0) = <<>>
      BY DEF FirstBeats
    <3>4. Packed(SubSeq(p, 1, k)) \in Seq(ShownBeats)
      BY <2>1, PackedIs
    <3>5. Packed(SubSeq(p, 1, k)) \o <<>> = Packed(SubSeq(p, 1, k))
      BY <3>4, ConcatEmptySeq
    <3> QED
      BY <2>2, <2>3, <2>4, <3>1, <3>2, <3>3, <3>5
  <2> QED
    BY <2>5, <2>6
<1> HIDE DEF S
<1>4. Nat \subseteq S
  BY <1>2, <1>3, NatSetInduction
<1> USE DEF S
<1> QED
  BY <1>1, <1>4

Whole == Due(plan)
Fit == Len(Packed(Whole))
All == Len(Packed(plan))

\* The frames of a frame FIFO's plan that fit, and the one after them.
FitsUpTo(n) ==
  /\ n \in 0 .. Len(plan) /\ Len(plan) <= n + 1
  /\ \A i \in DOMAIN plan : Fits(plan[i]) <=> i <= n
  /\ Len(Packed(SubSeq(plan, 1, n))) <= DEPTH
  /\ \A i \in 1 .. n : Len(plan[i]["data"]) <= Lanes \/ Len(plan[i]["data"]) % Lanes = 0

LEMMA FramePlan ==
  ASSUME Handled, FRAME_FIFO
  PROVE  \E n \in 0 .. Len(plan) : FitsUpTo(n)
BY DEF Handled, FrameFifoHandles, FitsUpTo

LEMMA FitsDelivers ==
  ASSUME plan \in Seq(Sendable), NEW n \in 0 .. Len(plan), FRAME_FIFO => FitsUpTo(n)
  PROVE  \A j \in 1 .. n : Beats(plan[j]) > 0 => Delivers(plan[j])
<1> TAKE j \in 1 .. n
<1>1. j \in DOMAIN plan /\ j <= n
  OBVIOUS
<1> QED
  BY <1>1 DEF FitsUpTo, Delivers

LEMMA WholeType ==
  ASSUME plan \in Seq(Sendable)
  PROVE  /\ Whole \in Seq(Wanted) /\ Whole \in Seq(Sendable)
         /\ \A j \in 1 .. Len(Whole) : Beats(Whole[j]) \in Nat \ {0}
<1>1. SubSeq(plan, 1, Len(plan)) = plan /\ Len(plan) \in 0 .. Len(plan)
  OBVIOUS
<1>2. Whole \in Seq(Wanted)
  BY <1>1, PiecesType DEF Whole
<1>3. Whole \in Seq(Sendable)
  <2>1. Seq(Wanted) \subseteq Seq(Sendable)
    BY SeqMonotonic DEF Wanted
  <2> QED
    BY <1>2, <2>1
<1>4. ASSUME NEW j \in 1 .. Len(Whole) PROVE Beats(Whole[j]) \in Nat \ {0}
  <2>1. Whole[j] \in Wanted
    BY <1>2
  <2>2. Beats(Whole[j]) > 0 /\ Beats(Whole[j]) \in Nat
    BY <2>1, BeatsAre DEF Wanted, Delivers
  <2> QED
    BY <2>2
<1> QED
  BY <1>2, <1>3, <1>4

LEMMA StreamWhole ==
  ASSUME plan \in Seq(Sendable), ~FRAME_FIFO
  PROVE  Packed(Whole) = Packed(plan)
<1>1. SubSeq(plan, 1, Len(plan)) = plan /\ Len(plan) \in 0 .. Len(plan)
  OBVIOUS
<1>2. \A j \in 1 .. Len(plan) : Beats(plan[j]) > 0 => Delivers(plan[j])
  BY DEF Delivers
<1> QED
  BY <1>1, <1>2, SamePacked DEF Whole

\* The frames due are those that fit; what follows them is one frame too long.
LEMMA FrameWhole ==
  ASSUME plan \in Seq(Sendable), FRAME_FIFO, NEW n \in 0 .. Len(plan), FitsUpTo(n)
  PROVE  /\ Whole = Due(SubSeq(plan, 1, n))
         /\ Packed(Whole) = Packed(SubSeq(plan, 1, n)) /\ Fit <= DEPTH
         /\ \/ n = Len(plan) /\ Packed(plan) = Packed(Whole)
            \/ /\ n + 1 = Len(plan) /\ plan[n + 1] \in Sendable /\ Beats(plan[n + 1]) > DEPTH
               /\ Packed(plan) = Packed(Whole) \o FirstBeats(plan[n + 1], Beats(plan[n + 1]))
<1>1. SubSeq(plan, 1, Len(plan)) = plan /\ Len(plan) \in 0 .. Len(plan) /\ Len(plan) <= n + 1
  BY DEF FitsUpTo
<1>2. \A j \in 1 .. n : Beats(plan[j]) > 0 => Delivers(plan[j])
  BY FitsDelivers
<1>3. Packed(SubSeq(plan, 1, n)) = Packed(Due(SubSeq(plan, 1, n)))
  BY <1>2, SamePacked
<1>4. Len(Packed(SubSeq(plan, 1, n))) <= DEPTH
  BY DEF FitsUpTo
<1>5. CASE n = Len(plan)
  BY <1>1, <1>3, <1>4, <1>5 DEF Whole, Fit
<1>6. CASE n # Len(plan)
  <2>1. /\ n + 1 = Len(plan) /\ n \in 0 .. Len(plan) - 1 /\ n + 1 \in DOMAIN plan
        /\ plan[n + 1] \in Sendable
    <3>1. Len(plan) \in Nat /\ DOMAIN plan = 1 .. Len(plan)
      OBVIOUS
    <3>2. n + 1 = Len(plan)
      <4>1. PICK m \in Nat : m = Len(plan)
        BY <3>1
      <4>2. n \in 0 .. m /\ m <= n + 1 /\ n # m
        BY <1>1, <1>6, <4>1
      <4>3. n + 1 = m
        BY <4>2
      <4> QED
        BY <4>1, <4>3
    <3>3. n \in 0 .. Len(plan) - 1 /\ n + 1 \in DOMAIN plan
      BY <3>1, <3>2
    <3> QED
      BY <3>2, <3>3
  <2>2. ~Fits(plan[n + 1])
    BY <2>1 DEF FitsUpTo
  <2>3. Beats(plan[n + 1]) > DEPTH
    <3>1. Beats(plan[n + 1]) \in Nat /\ DEPTH \in Nat
      BY <2>1, BeatsAre, AxisBenchAssumption
    <3> QED
      BY <2>2, <3>1 DEF Fits
  <2>4. ~Delivers(plan[n + 1])
    BY <2>2 DEF Delivers
  <2>5. Due(SubSeq(plan, 1, n + 1)) = Due(SubSeq(plan, 1, n))
    BY <2>1, <2>4, DueStep
  <2>6. Packed(SubSeq(plan, 1, n + 1)) =
          Packed(SubSeq(plan, 1, n)) \o FirstBeats(plan[n + 1], Beats(plan[n + 1]))
    BY <2>1, PackedStep
  <2> QED
    BY <1>1, <1>3, <1>4, <2>1, <2>3, <2>5, <2>6 DEF Whole, Fit
<1> QED
  BY <1>5, <1>6

LEMMA FrameShape ==
  ASSUME plan \in Seq(Sendable), FRAME_FIFO, Handled
  PROVE  /\ Fit \in Nat /\ All \in Nat /\ Fit <= DEPTH /\ Fit <= All
         /\ All = Fit \/ All - Fit > DEPTH
         /\ \A i \in Fit + 1 .. All : Packed(plan)[i].last <=> i = All
<1>1. PICK n \in 0 .. Len(plan) : FitsUpTo(n)
  BY FramePlan
<1>2. Fit \in Nat /\ All \in Nat
  BY PackedType, WholeType DEF Fit, All
<1>3. Fit <= DEPTH
  BY <1>1, FrameWhole
<1>4. CASE Packed(plan) = Packed(Whole)
  BY <1>2, <1>3, <1>4 DEF Fit, All
<1>5. CASE /\ n + 1 = Len(plan) /\ plan[n + 1] \in Sendable /\ Beats(plan[n + 1]) > DEPTH
           /\ Packed(plan) = Packed(Whole) \o FirstBeats(plan[n + 1], Beats(plan[n + 1]))
  <2> DEFINE x == plan[n + 1]
  <2>1. PICK b \in Nat : b = Beats(x)
    BY <1>5, BeatsAre
  <2>2. PICK y \in Seq(ShownBeats) : y = FirstBeats(x, b) /\ Len(y) = b
    BY <1>5, FirstBeatsType
  <2>3. PICK w \in Seq(ShownBeats) : w = Packed(Whole) /\ Len(w) = Fit
    BY PackedType, WholeType DEF Fit
  <2>4. Packed(plan) = w \o y
    BY <1>5, <2>1, <2>2, <2>3
  <2>5. All = Fit + b
    <3>1. Len(w \o y) = Len(w) + Len(y)
      OBVIOUS
    <3> QED
      BY <2>2, <2>3, <2>4, <3>1 DEF All
  <2>6. ASSUME NEW i \in Fit + 1 .. All
        PROVE  Packed(plan)[i].last <=> i = All
    <3>1. i - Fit \in 1 .. b
      BY <1>2, <2>5
    <3>2. (w \o y)[i] = y[i - Fit]
      BY <1>2, <2>2, <2>3, <2>5
    <3>3. y[i - Fit] = BeatOf(x, i - Fit)
      BY <2>2, <3>1 DEF FirstBeats
    <3>4. BeatOf(x, i - Fit).last <=> i - Fit = b
      BY <2>1 DEF BeatOf
    <3>5. i - Fit = b <=> i = All
      BY <1>2, <2>5
    <3> QED
      BY <2>4, <3>2, <3>3, <3>4, <3>5
  <2>7. DEPTH \in Nat
    BY AxisBenchAssumption
  <2>8. b > DEPTH
    BY <1>5, <2>1
  <2>9. Fit <= All /\ All - Fit > DEPTH
    BY <1>2, <2>5, <2>7, <2>8
  <2> QED
    BY <1>2, <1>3, <2>6, <2>9
<1> QED
  BY <1>1, <1>4, <1>5, FrameWhole

\* One side channel entry stands for all the beats of a frame: it fills one beat,
\* or all its beats are full.
Aligned(frame) == Len(frame["data"]) <= Lanes \/ Len(frame["data"]) % Lanes = 0
Keep(frame) == BeatOf(frame, Beats(frame)).keep

LEMMA KeepIs ==
  ASSUME NEW frame \in Sendable, Aligned(frame), NEW k \in 1 .. Beats(frame)
  PROVE  BeatOf(frame, k).keep = Keep(frame)
<1> DEFINE n == Len(frame["data"])
           b == Beats(frame)
           Kept(j) == {l \in 1 .. Lanes : (j - 1) * Lanes + l <= n}
<1>1. n \in Nat /\ Lanes \in Nat \ {0} /\ b = (n + Lanes - 1) \div Lanes
  BY AxisBenchAssumption DEF Sendable, Beats
<1>2. b \in Nat /\ k \in 1 .. b
  BY BeatsAre
<1>3. BeatOf(frame, k).keep = Kept(k) /\ Keep(frame) = Kept(b)
  BY DEF BeatOf, Keep
<1>4. n <= Lanes \/ n % Lanes = 0
  BY DEF Aligned
<1> HIDE DEF n, b
<1>5. CASE n <= Lanes
  <2>1. (n + Lanes - 1) \div Lanes <= 1
    BY <1>1, <1>5, SMT
  <2>2. k = b
    BY <1>1, <1>2, <2>1
  <2> QED
    BY <1>3, <2>2
<1>6. CASE n % Lanes = 0
  <2>1. n = b * Lanes
    <3>1. PICK c \in Nat : c = n \div Lanes
      BY <1>1, SMT
    <3>2. n = c * Lanes
      BY <1>1, <1>6, <3>1, SMT
    <3>3. (c * Lanes + Lanes - 1) \div Lanes = c
      BY <1>1, SMT
    <3> QED
      BY <1>1, <3>2, <3>3
  <2>2. ASSUME NEW j \in 1 .. b PROVE Kept(j) = 1 .. Lanes
    <3>1. ASSUME NEW l \in 1 .. Lanes PROVE (j - 1) * Lanes + l <= n
      <4>1. (j - 1) * Lanes + Lanes = j * Lanes /\ j * Lanes <= b * Lanes
            /\ (j - 1) * Lanes \in Nat
        BY <1>1, <1>2, SMT
      <4> QED
        BY <1>1, <1>2, <2>1, <4>1, SMT
    <3> QED
      BY <3>1
  <2>3. b \in 1 .. b
    BY <1>2
  <2> QED
    BY <1>2, <1>3, <2>2, <2>3
<1> QED
  BY <1>4, <1>5, <1>6

LEMMA WholeAligned ==
  ASSUME plan \in Seq(Sendable), FRAME_FIFO, Handled
  PROVE  \A j \in 1 .. Len(Whole) : Aligned(Whole[j])
<1>1. PICK n \in 0 .. Len(plan) : FitsUpTo(n)
  BY FramePlan
<1> DEFINE W == {frame \in Sendable : Aligned(frame)}
           S == {k \in Nat : k <= n => Due(SubSeq(plan, 1, k)) \in Seq(W)}
<1>2. 0 \in S
  <2>1. Due(SubSeq(plan, 1, 0)) = <<>>
    BY DueNone
  <2> HIDE DEF W
  <2>2. <<>> \in Seq(W)
    OBVIOUS
  <2> QED
    BY <2>1, <2>2
<1>3. ASSUME NEW k \in Nat, k \in S PROVE k + 1 \in S
  <2> SUFFICES ASSUME k + 1 <= n PROVE Due(SubSeq(plan, 1, k + 1)) \in Seq(W)
    OBVIOUS
  <2>1. k \in 0 .. Len(plan) - 1 /\ k + 1 \in 1 .. n /\ plan[k + 1] \in Sendable /\ k <= n
    OBVIOUS
  <2>2. plan[k + 1] \in W
    BY <1>1, <2>1 DEF FitsUpTo, Aligned
  <2>3. Due(SubSeq(plan, 1, k)) \in Seq(W)
    BY <1>3, <2>1
  <2> HIDE DEF W
  <2>4. Append(Due(SubSeq(plan, 1, k)), plan[k + 1]) \in Seq(W)
    BY <2>2, <2>3
  <2> QED
    BY <2>1, <2>3, <2>4, DueStep
<1> HIDE DEF S
<1>4. Nat \subseteq S
  BY <1>2, <1>3, NatSetInduction
<1> USE DEF S
<1>5. Due(SubSeq(plan, 1, n)) \in Seq(W)
  <2>1. n \in S /\ n <= n
    BY <1>4
  <2> QED
    BY <2>1
<1>6. Whole \in Seq(W)
  BY <1>1, <1>5, FrameWhole
<1> QED
  BY <1>6

\* Frames whose beats have been taken have been sent.
LEMMA EnoughSent ==
  ASSUME plan \in Seq(Sendable), Handled, sent \in 0 .. Len(plan),
         NEW f \in 0 .. Len(Whole), Start(Whole, f) <= Len(Sent(sent))
  PROVE  /\ Due(SubSeq(plan, 1, sent)) \in Seq(Sendable)
         /\ f <= Len(Due(SubSeq(plan, 1, sent)))
         /\ \A i \in 1 .. f : Due(SubSeq(plan, 1, sent))[i] = Whole[i]
<1>1. SubSeq(plan, 1, Len(plan)) = plan /\ Len(plan) \in sent .. Len(plan)
  OBVIOUS
<1>2. Whole \in Seq(Sendable) /\ \A j \in 1 .. Len(Whole) : Beats(Whole[j]) \in Nat \ {0}
  BY WholeType
<1>3. PICK d \in Seq(Sendable) : d = Due(SubSeq(plan, 1, sent))
  <2>1. Due(SubSeq(plan, 1, sent)) \in Seq(Wanted)
    BY PiecesType
  <2>2. Seq(Wanted) \subseteq Seq(Sendable)
    BY SeqMonotonic DEF Wanted
  <2> QED
    BY <2>1, <2>2
<1>4. PICK r \in Seq(Sendable) : Whole = d \o r
  <2>1. PICK r \in Seq(Wanted) : Due(SubSeq(plan, 1, Len(plan))) = Due(SubSeq(plan, 1, sent)) \o r
    BY <1>1, DuePrefix DEF GoesOn
  <2>2. Seq(Wanted) \subseteq Seq(Sendable)
    BY SeqMonotonic DEF Wanted
  <2> QED
    BY <1>1, <1>3, <2>1, <2>2 DEF Whole
<1>5. /\ Len(Whole) = Len(d) + Len(r) /\ Len(d) \in Nat /\ Len(r) \in Nat
      /\ \A i \in 1 .. Len(d) : Whole[i] = d[i]
  BY <1>4
<1>6. f <= Len(d)
  <2>1. CASE \A j \in 1 .. sent : Beats(plan[j]) > 0 => Delivers(plan[j])
    <3> SUFFICES ASSUME f > Len(d) PROVE FALSE
      BY <1>5
    <3>1. Len(d) \in 0 .. Len(Whole) - 1 /\ Len(d) \in 0 .. Len(Whole)
          /\ Len(d) + 1 \in 0 .. Len(Whole) /\ Len(d) + 1 \in 1 .. Len(Whole)
          /\ f \in Len(d) + 1 .. Len(Whole)
      BY <1>5
    <3>2. Packed(SubSeq(plan, 1, sent)) = Packed(d)
      BY <1>3, <2>1, SamePacked
    <3>3. SubSeq(Whole, 1, Len(d)) = d
      BY <1>4
    <3>4. Start(Whole, Len(d)) = Len(Sent(sent))
      BY <3>2, <3>3 DEF Start, Sent
    <3>5. Start(Whole, Len(d) + 1) = Start(Whole, Len(d)) + Beats(Whole[Len(d) + 1])
      BY <1>2, <3>1, StartStep
    <3>6. Start(Whole, Len(d) + 1) <= Start(Whole, f)
      BY <1>2, <3>1, StartGrows
    <3>7. Start(Whole, Len(d)) \in Nat /\ Start(Whole, Len(d) + 1) \in Nat /\ Start(Whole, f) \in Nat
      BY <1>2, <3>1, StartNat
    <3>8. Beats(Whole[Len(d) + 1]) \in Nat \ {0}
      BY <1>2, <3>1
    <3> QED
      BY <3>4, <3>5, <3>6, <3>7, <3>8
  <2>2. CASE ~\A j \in 1 .. sent : Beats(plan[j]) > 0 => Delivers(plan[j])
    <3>1. PICK n \in 0 .. Len(plan) : FRAME_FIFO /\ FitsUpTo(n)
      <4>1. FRAME_FIFO
        BY <2>2 DEF Delivers
      <4> QED
        BY <4>1, FramePlan
    <3>2. \A j \in 1 .. n : Beats(plan[j]) > 0 => Delivers(plan[j])
      BY <3>1, FitsDelivers
    <3>3. ~(sent <= n)
      BY <2>2, <3>2
    <3>4. sent = Len(plan)
      <4>1. Len(plan) <= n + 1 /\ Len(plan) \in Nat
        BY <3>1 DEF FitsUpTo
      <4> QED
        BY <3>3, <4>1
    <3>5. d = Whole
      BY <1>1, <1>3, <3>4 DEF Whole
    <3> QED
      BY <3>5
  <2> QED
    BY <2>1, <2>2
<1> QED
  BY <1>3, <1>5, <1>6

-----------------------------------------------------------------------------
(* What the receiver puts together *)

\* The bytes of a beat whose first c lanes are kept.
LEMMA KeptIs ==
  ASSUME NEW tdata \in [1 .. Lanes -> Bytes], NEW c \in 0 .. Lanes
  PROVE  Slv!KeptBytes(tdata, 1 .. c) = [l \in 1 .. c |-> tdata[l]]
<1> DEFINE Piece(l) == IF l \in 1 .. c THEN <<tdata[l]>> ELSE <<>>
           Up(j) == [l \in 1 .. j |-> Piece(l)]
           Got(j) == [l \in 1 .. IF j <= c THEN j ELSE c |-> tdata[l]]
           S == {j \in Nat : j <= Lanes => FlattenSeq(Up(j)) = Got(j)}
<1>1. Lanes \in Nat \ {0} /\ c \in Nat /\ c <= Lanes
  BY AxisBenchAssumption
<1>2. ASSUME NEW l \in 1 .. Lanes PROVE Piece(l) \in Seq(Bytes)
  <2>1. tdata[l] \in Bytes
    OBVIOUS
  <2> QED
    BY <2>1
<1>3. 0 \in S
  <2>1. Up(0) = <<>> /\ Got(0) = <<>>
    BY <1>1
  <2>2. FlattenSeq(<<>>) = <<>>
    BY DEF FlattenSeq
  <2> QED
    BY <2>1, <2>2
<1>4. ASSUME NEW j \in Nat, j \in S PROVE j + 1 \in S
  <2> SUFFICES ASSUME j + 1 <= Lanes PROVE FlattenSeq(Up(j + 1)) = Got(j + 1)
    OBVIOUS
  <2>1. j + 1 \in 1 .. Lanes /\ j <= Lanes /\ FlattenSeq(Up(j)) = Got(j)
    BY <1>1, <1>4
  <2>2. Up(j) \in Seq(Seq(Bytes))
    <3>1. \A l \in 1 .. j : Piece(l) \in Seq(Bytes)
      BY <1>1, <1>2, <2>1
    <3> HIDE DEF Piece
    <3> QED
      BY <3>1
  <2>3. Piece(j + 1) \in Seq(Bytes)
    BY <1>2, <2>1
  <2>4. Up(j + 1) = Append(Up(j), Piece(j + 1))
    <3> HIDE DEF Piece
    <3> QED
      OBVIOUS
  <2>5. FlattenSeq(Up(j + 1)) = FlattenSeq(Up(j)) \o Piece(j + 1)
    <3> HIDE DEF Piece, Up
    <3> QED
      BY <2>2, <2>3, <2>4, FlattenAppend
  <2>6. Got(j) \o Piece(j + 1) = Got(j + 1)
    <3>1. CASE j + 1 <= c
      <4>1. Piece(j + 1) = <<tdata[j + 1]>>
        BY <1>1, <3>1
      <4>2. Got(j) = [l \in 1 .. j |-> tdata[l]] /\ Got(j + 1) = [l \in 1 .. j + 1 |-> tdata[l]]
        BY <1>1, <3>1
      <4>3. [l \in 1 .. j |-> tdata[l]] \o <<tdata[j + 1]>> = [l \in 1 .. j + 1 |-> tdata[l]]
        OBVIOUS
      <4> HIDE DEF Got, Piece
      <4> QED
        BY <4>1, <4>2, <4>3
    <3>2. CASE ~(j + 1 <= c)
      <4>1. Piece(j + 1) = <<>>
        BY <1>1, <3>2
      <4>2. Got(j) = [l \in 1 .. c |-> tdata[l]] /\ Got(j + 1) = [l \in 1 .. c |-> tdata[l]]
        <5>1. (IF j <= c THEN j ELSE c) = c /\ (IF j + 1 <= c THEN j + 1 ELSE c) = c
          BY <1>1, <3>2
        <5> QED
          BY <5>1
      <4>3. [l \in 1 .. c |-> tdata[l]] \o <<>> = [l \in 1 .. c |-> tdata[l]]
        <5>1. \A l \in 1 .. c : tdata[l] \in Bytes
          BY <1>1
        <5>2. [l \in 1 .. c |-> tdata[l]] \in Seq(Bytes)
          BY <1>1, <5>1
        <5> QED
          BY <5>2, ConcatEmptySeq
      <4> HIDE DEF Got, Piece
      <4> QED
        BY <4>1, <4>2, <4>3
    <3> QED
      BY <3>1, <3>2
  <2> QED
    BY <2>1, <2>5, <2>6
<1> HIDE DEF S
<1>5. Nat \subseteq S
  BY <1>3, <1>4, NatSetInduction
<1> USE DEF S
<1>6. FlattenSeq(Up(Lanes)) = Got(Lanes)
  <2>1. Lanes \in S /\ Lanes <= Lanes
    BY <1>1, <1>5
  <2> QED
    BY <2>1
<1>7. Got(Lanes) = [l \in 1 .. c |-> tdata[l]]
  <2>1. (IF Lanes <= c THEN Lanes ELSE c) = c
    BY <1>1
  <2> QED
    BY <2>1
<1>8. Slv!KeptBytes(tdata, 1 .. c) = Slv!FlattenSeq(Up(Lanes))
  BY DEF Slv!KeptBytes
<1>9. Slv!FlattenSeq(Up(Lanes)) = FlattenSeq(Up(Lanes))
  BY DEF Slv!FlattenSeq, FlattenSeq
<1> QED
  BY <1>6, <1>7, <1>8, <1>9

Part(frame, k) == SubSeq(frame["data"], 1, k * Lanes)

\* A beat adds its bytes to those of the beats before it; the last completes the
\* frame.
LEMMA PartGrows ==
  ASSUME NEW frame \in Sendable, NEW k \in Nat, k < Beats(frame),
         NEW tdata \in [1 .. Lanes -> Bytes], NEW tkeep,
         tkeep = BeatOf(frame, k + 1).keep,
         \A l \in tkeep : tdata[l] = BeatOf(frame, k + 1).bytes[l]
  PROVE  Part(frame, k) \o Slv!KeptBytes(tdata, tkeep) =
           IF k + 1 = Beats(frame) THEN frame["data"] ELSE Part(frame, k + 1)
<1>1. PICK d \in Seq(Bytes) : d = frame["data"]
  BY DEF Sendable
<1>2. PICK n \in Nat : n = Len(d)
  OBVIOUS
<1>3. Lanes \in Nat \ {0} /\ Beats(frame) = (n + Lanes - 1) \div Lanes /\ Beats(frame) \in Nat
  BY <1>1, <1>2, BeatsAre, AxisBenchAssumption DEF Beats
<1>4. PICK idx \in Nat : idx = k * Lanes
  BY <1>3, SMT
<1>5. idx < n
  <2>1. ASSUME k * Lanes >= n PROVE (n + Lanes - 1) \div Lanes <= k
    BY <1>3, <2>1, SMT
  <2>2. ~(k * Lanes >= n)
    BY <1>3, <2>1
  <2> QED
    BY <1>4, <2>2
<1>6. /\ n - idx <= Lanes <=> k + 1 = Beats(frame)
  BY <1>1, <1>2, <1>4, <1>5, BeatsAre
<1>7. ((k + 1) - 1) * Lanes = idx /\ (k + 1) * Lanes = idx + Lanes
  <2>1. (k + 1) - 1 = k
    OBVIOUS
  <2>2. (k + 1) * Lanes = k * Lanes + Lanes
    BY <1>3, SMT
  <2> QED
    BY <1>4, <2>1, <2>2
<1>8. PICK c \in 0 .. Lanes : c = IF n - idx <= Lanes THEN n - idx ELSE Lanes
  <2>1. (IF n - idx <= Lanes THEN n - idx ELSE Lanes) \in 0 .. Lanes
    BY <1>3, <1>5
  <2> QED
    BY <2>1
<1>9. tkeep = 1 .. c
  <2>1. BeatOf(frame, k + 1).keep = {l \in 1 .. Lanes : idx + l <= n}
    BY <1>1, <1>2, <1>7 DEF BeatOf
  <2>2. {l \in 1 .. Lanes : idx + l <= n} = 1 .. c
    BY <1>3, <1>5, <1>8
  <2> QED
    BY <2>1, <2>2
<1>10. \A l \in 1 .. c : tdata[l] = d[idx + l]
  <2> TAKE l \in 1 .. c
  <2>1. l \in {i \in 1 .. Lanes : idx + i <= Len(d)}
    BY <1>2, <1>3, <1>5, <1>8
  <2>2. BeatOf(frame, k + 1).bytes[l] = d[idx + l]
    BY <1>1, <1>7, <2>1 DEF BeatOf
  <2> QED
    BY <1>9, <2>2
<1>11. Slv!KeptBytes(tdata, tkeep) = [l \in 1 .. c |-> d[idx + l]]
  <2>1. Slv!KeptBytes(tdata, tkeep) = [l \in 1 .. c |-> tdata[l]]
    BY <1>9, KeptIs
  <2> QED
    BY <1>10, <2>1
<1>12. SubSeq(d, 1, idx) \o [l \in 1 .. c |-> d[idx + l]] = SubSeq(d, 1, idx + c)
  <2>1. idx + c \in 0 .. n
    BY <1>3, <1>5, <1>8
  <2> DEFINE x == SubSeq(d, 1, idx)
             y == [l \in 1 .. c |-> d[idx + l]]
             z == SubSeq(d, 1, idx + c)
  <2>2. x \in Seq(Bytes) /\ Len(x) = idx /\ \A i \in 1 .. idx : x[i] = d[i]
    BY <1>2, <1>5
  <2>3. y \in Seq(Bytes) /\ Len(y) = c /\ \A i \in 1 .. c : y[i] = d[idx + i]
    <3>1. \A l \in 1 .. c : d[idx + l] \in Bytes
      BY <1>2, <2>1
    <3> QED
      BY <3>1
  <2>4. z \in Seq(Bytes) /\ Len(z) = idx + c /\ \A i \in 1 .. idx + c : z[i] = d[i]
    BY <1>2, <2>1
  <2> HIDE DEF x, y, z
  <2> DEFINE xy == x \o y
  <2>5. xy \in Seq(Bytes) /\ Len(xy) = idx + c
        /\ \A i \in 1 .. idx + c : xy[i] = IF i <= idx THEN x[i] ELSE y[i - idx]
    <3>1. /\ x \o y \in Seq(Bytes) /\ Len(x \o y) = Len(x) + Len(y)
          /\ \A i \in 1 .. Len(x) + Len(y) :
               (x \o y)[i] = IF i <= Len(x) THEN x[i] ELSE y[i - Len(x)]
      <4>1. x \in Seq(Bytes) /\ y \in Seq(Bytes)
        BY <2>2, <2>3
      <4> QED
        BY <4>1, ConcatProperties
    <3> QED
      BY <2>2, <2>3, <3>1
  <2> HIDE DEF xy
  <2>6. ASSUME NEW i \in 1 .. idx + c PROVE xy[i] = z[i]
    <3>1. CASE i <= idx
      BY <2>2, <2>4, <2>5, <3>1
    <3>2. CASE ~(i <= idx)
      <4>1. i - idx \in 1 .. c /\ idx + (i - idx) = i
        BY <3>2
      <4> QED
        BY <2>3, <2>4, <2>5, <3>2, <4>1
    <3> QED
      BY <3>1, <3>2
  <2>7. xy = z
    BY <2>4, <2>5, <2>6, SeqEqual
  <2> QED
    BY <2>7 DEF x, y, z, xy
<1>13. Part(frame, k) = SubSeq(d, 1, idx) /\ Part(frame, k + 1) = SubSeq(d, 1, idx + Lanes)
  BY <1>1, <1>4, <1>7 DEF Part
<1>14. CASE k + 1 = Beats(frame)
  <2>1. idx + c = n
    BY <1>5, <1>6, <1>8, <1>14
  <2>2. SubSeq(d, 1, n) = d
    BY <1>2
  <2> QED
    BY <1>1, <1>11, <1>12, <1>13, <1>14, <2>1, <2>2
<1>15. CASE k + 1 # Beats(frame)
  <2>1. c = Lanes
    BY <1>6, <1>8, <1>15
  <2> QED
    BY <1>11, <1>12, <1>13, <1>15, <2>1
<1> QED
  BY <1>14, <1>15

\* In reset nothing is offered.
LEMMA OfferedOutOfReset ==
  ASSUME DutInv, ~DP!rd_empty
  PROVE  ~rst
<1>1. 0 \in DP!Pointers
  BY AxisBenchAssumption, SMT DEF DP!Pointers
<1>2. DP!gray2bin[DP!bin2gray[0]] = 0
  BY <1>1, Codes, DP!Decoded, AxisBenchAssumption
<1>3. DP!AllZero => DP!rd_empty
  BY <1>2 DEF DP!AllZero, DP!Synchronised, DP!rd_empty, DP!wr_ptr_bin
<1> QED
  BY <1>3 DEF DutInv

\* An edge has given a beat to the receiver, which has not put it away yet.
Pending == step = "drive" /\ "m" \in handshake
Buf == recv_buf \o Slv!KeptBytes(slv_i.tdata, slv_i.tkeep)
InHand == IF ~Pending THEN recv_buf ELSE IF slv_i.tlast THEN <<>> ELSE Buf
PutTogether == IF Pending /\ slv_i.tlast THEN Append(Delivered, Buf) ELSE Delivered

\* What the receiver sampled before the edge is what the edge saw.
ReceiverKnows ==
  /\ step = "eval" /\ "m" \in rising =>
       slv_i = [tready |-> m_tready, tvalid |-> Dut!m_tvalid, tdata |-> Dut!m_tdata,
                tkeep |-> Dut!m_tkeep, tlast |-> Dut!m_tlast]
  /\ step = "drive" => ("m" \in handshake <=> "m" \in rising /\ Slv!Transfer)
  /\ received \in Seq(Seq(Bytes))

LEMMA KnowsInit == Init => ReceiverKnows
<1> SUFFICES ASSUME Init PROVE ReceiverKnows
  OBVIOUS
<1>1. step = "sample" /\ received = <<>>
  BY DEF Init
<1>2. <<>> \in Seq(Seq(Bytes))
  OBVIOUS
<1> QED
  BY <1>1, <1>2 DEF ReceiverKnows

SameOutputs ==
  /\ Dut!m_tvalid' = Dut!m_tvalid /\ Dut!m_tdata' = Dut!m_tdata
  /\ Dut!m_tkeep' = Dut!m_tkeep /\ Dut!m_tlast' = Dut!m_tlast

LEMMA SampleKnows ==
  ASSUME ReceiverKnows, NEW clocks, Sample(clocks)
  PROVE  ReceiverKnows' /\ InHand' = InHand /\ PutTogether' = PutTogether
<1>1. /\ step = "sample" /\ step' = "eval" /\ rising' = clocks
      /\ UNCHANGED <<received, recv_buf, rx_queue, m_tready>>
      /\ UNCHANGED <<drd, ard, state, frame_tkeep, FRAME_FIFO>>
      /\ "m" \in clocks => Slv!update_input(Dut!m_tvalid, Dut!m_tdata, Dut!m_tkeep, Dut!m_tlast)
  BY DEF Sample, Goto, Slv!update_input, slaveVars, benchVars, fixed, dutVars
<1>2. "m" \in clocks =>
        slv_i' = [tready |-> m_tready, tvalid |-> Dut!m_tvalid, tdata |-> Dut!m_tdata,
                  tkeep |-> Dut!m_tkeep, tlast |-> Dut!m_tlast]
  BY <1>1 DEF Slv!update_input
<1>3. SameOutputs
  BY <1>1 DEF SameOutputs, Dut!m_tvalid, Dut!m_tdata, Dut!m_tkeep, Dut!m_tlast,
              Dut!D!rd_empty, Dut!D!wr_ptr_bin
<1>4. ReceiverKnows'
  BY <1>1, <1>2, <1>3 DEF ReceiverKnows, SameOutputs
<1>5. ~Pending /\ ~Pending' /\ Delivered' = Delivered
  BY <1>1 DEF Pending, Delivered
<1> QED
  BY <1>1, <1>4, <1>5 DEF InHand, PutTogether

LEMMA EvalKnows ==
  ASSUME ReceiverKnows, DutInv, Eval
  PROVE  /\ ReceiverKnows'
         /\ ~Takes("m") => InHand' = InHand /\ PutTogether' = PutTogether
         /\ Takes("m") =>
              LET buf == InHand \o Slv!KeptBytes(Dut!m_tdata, Dut!m_tkeep)
              IN /\ InHand' = IF Dut!m_tlast THEN <<>> ELSE buf
                 /\ PutTogether' = IF Dut!m_tlast THEN Append(PutTogether, buf) ELSE PutTogether
<1>1. /\ step = "eval" /\ step' = "drive" /\ UNCHANGED <<rising, received, recv_buf, rx_queue, slv_i>>
      /\ "m" \in handshake' <=> Takes("m")
  BY DEF Eval, Goto, slaveVars, benchVars
<1>2. "m" \in rising =>
        /\ slv_i.tready = m_tready /\ slv_i.tvalid = Dut!m_tvalid /\ slv_i.tdata = Dut!m_tdata
        /\ slv_i.tkeep = Dut!m_tkeep /\ slv_i.tlast = Dut!m_tlast
  BY <1>1 DEF ReceiverKnows
<1>3. Dut!m_tvalid => ~rst
  BY SameData, OfferedOutOfReset DEF Dut!m_tvalid
<1>4. Takes("m") <=> "m" \in rising /\ ~rst /\ Dut!m_tvalid /\ m_tready
  BY DEF Takes
<1>5. Takes("m") <=> "m" \in rising /\ Slv!Transfer
  BY <1>2, <1>3, <1>4 DEF Slv!Transfer
<1>6. ReceiverKnows'
  BY <1>1, <1>5 DEF ReceiverKnows, Slv!Transfer
<1>7. /\ ~Pending /\ (Pending' <=> Takes("m")) /\ Delivered' = Delivered /\ Buf' = Buf
  BY <1>1 DEF Pending, Delivered, Buf, Slv!KeptBytes
<1>8. InHand = recv_buf /\ PutTogether = Delivered
  BY <1>7 DEF InHand, PutTogether
<1>9. CASE ~Takes("m")
  BY <1>1, <1>6, <1>7, <1>8, <1>9 DEF InHand, PutTogether
<1>10. CASE Takes("m")
  <2>1. "m" \in rising
    BY <1>10 DEF Takes
  <2>2. Buf = InHand \o Slv!KeptBytes(Dut!m_tdata, Dut!m_tkeep)
    BY <1>2, <1>8, <2>1 DEF Buf
  <2>3. slv_i'.tlast = Dut!m_tlast
    BY <1>1, <1>2, <2>1
  <2> QED
    BY <1>1, <1>6, <1>7, <1>8, <1>10, <2>2, <2>3 DEF InHand, PutTogether
<1> QED
  BY <1>9, <1>10

LEMMA DriveKnows ==
  ASSUME ReceiverKnows, SlaveInv, Drive
  PROVE  ReceiverKnows' /\ InHand' = InHand /\ PutTogether' = PutTogether
<1>1. step = "drive" /\ step' = "wake" /\ UNCHANGED <<received, slv_i, rising, handshake>>
  BY DEF Drive, Goto, slaveVars, benchVars, Slv!update_output
<1>2. ReceiverKnows'
  BY <1>1 DEF ReceiverKnows
<1>3. /\ Pending <=> "m" \in rising /\ Slv!Transfer
      /\ ~Pending'
  BY <1>1 DEF ReceiverKnows, Pending
<1>4. CASE ~Pending
  <2>1. UNCHANGED <<recv_buf, rx_queue>>
    BY <1>3, <1>4 DEF Drive, slaveVars, Slv!update_output
  <2> QED
    BY <1>1, <1>2, <1>3, <1>4, <2>1 DEF InHand, PutTogether, Delivered
<1>5. CASE Pending
  <2>1. /\ slv_i.tlast => rx_queue' = Append(rx_queue, Buf) /\ recv_buf' = <<>>
        /\ ~slv_i.tlast => recv_buf' = Buf /\ rx_queue' = rx_queue
    BY <1>3, <1>5 DEF Drive, Slv!update_output, Buf
  <2>2. CASE ~slv_i.tlast
    BY <1>1, <1>2, <1>3, <1>5, <2>1, <2>2 DEF InHand, PutTogether, Delivered
  <2>3. CASE slv_i.tlast
    <3>1. Buf \in Seq(Bytes)
      <4>1. slv_i.tdata \in [1 .. Lanes -> Bytes]
        BY <1>3, <1>5 DEF SlaveInv, Slv!Transfer
      <4>2. Slv!KeptBytes(slv_i.tdata, slv_i.tkeep) \in Seq(Bytes)
        BY <4>1, KeptBytesType
      <4> QED
        BY <4>2, ConcatCloses DEF SlaveInv, Buf
    <3>2. PICK x \in Seq(Seq(Bytes)), y \in Seq(Seq(Bytes)), b \in Seq(Bytes) :
            x = received /\ y = rx_queue /\ b = Buf
      BY <3>1 DEF ReceiverKnows, SlaveInv
    <3>3. x \o Append(y, b) = Append(x \o y, b)
      <4>1. PICK z \in Seq(Seq(Bytes)) : z = <<b>>
        <5>1. <<b>> \in Seq(Seq(Bytes))
          OBVIOUS
        <5> QED
          BY <5>1
      <4>2. \A w \in Seq(Seq(Bytes)) : Append(w, b) = w \o z
        BY <4>1
      <4>3. (x \o y) \o z = x \o (y \o z)
        BY ConcatRegroups, SMTT(30)
      <4>4. x \o y \in Seq(Seq(Bytes))
        BY ConcatCloses
      <4> QED
        BY <4>2, <4>3, <4>4
    <3>4. Delivered' = Append(Delivered, Buf)
      BY <1>1, <2>1, <2>3, <3>2, <3>3 DEF Delivered
    <3> QED
      BY <1>2, <1>3, <1>5, <2>1, <2>3, <3>4 DEF InHand, PutTogether
  <2> QED
    BY <2>2, <2>3
<1> QED
  BY <1>4, <1>5

LEMMA WakeKnows ==
  ASSUME ReceiverKnows, SlaveInv, NEW ready, Wake(ready)
  PROVE  ReceiverKnows' /\ InHand' = InHand /\ PutTogether' = PutTogether
<1>1. step = "wake" /\ step' = "sample" /\ UNCHANGED recv_buf
  BY DEF Wake, Goto, WakeM, slaveVars
<1>2. /\ UNCHANGED <<received, rx_queue>>
      \/ /\ rx_queue # <<>> /\ rx_queue' = Tail(rx_queue)
         /\ received' = Append(received, Head(rx_queue))
  BY DEF Wake, WakeM, Read, Slv!recv, slaveVars
<1>3. received' \in Seq(Seq(Bytes)) /\ Delivered' = Delivered
  <2>1. CASE UNCHANGED <<received, rx_queue>>
    BY <2>1 DEF Delivered, ReceiverKnows
  <2>2. CASE /\ rx_queue # <<>> /\ rx_queue' = Tail(rx_queue)
             /\ received' = Append(received, Head(rx_queue))
    <3>1. PICK x \in Seq(Seq(Bytes)), y \in Seq(Seq(Bytes)) : x = received /\ y = rx_queue
      BY DEF ReceiverKnows, SlaveInv
    <3>2. PICK h \in Seq(Bytes), t \in Seq(Seq(Bytes)) : h = Head(y) /\ t = Tail(y)
      BY <2>2, <3>1, TailLemma
    <3>3. PICK z \in Seq(Seq(Bytes)) : z = <<h>>
      <4>1. <<h>> \in Seq(Seq(Bytes))
        OBVIOUS
      <4> QED
        BY <4>1
    <3>4. y = z \o t
      BY <2>2, <3>1, <3>2, <3>3
    <3>5. (x \o z) \o t = x \o (z \o t)
      BY ConcatRegroups, SMTT(30)
    <3>6. Append(x, h) = x \o z /\ Append(x, h) \in Seq(Seq(Bytes))
      BY <3>3
    <3> QED
      BY <2>2, <3>1, <3>2, <3>4, <3>5, <3>6 DEF Delivered
  <2> QED
    BY <1>2, <2>1, <2>2
<1>4. ReceiverKnows'
  BY <1>1, <1>3 DEF ReceiverKnows
<1>5. ~Pending /\ ~Pending'
  BY <1>1 DEF Pending
<1> QED
  BY <1>1, <1>3, <1>4, <1>5 DEF InHand, PutTogether

LEMMA OthersKnow ==
  ASSUME ReceiverKnows, SlaveInv, [Next]_vars, ~Eval
  PROVE  ReceiverKnows' /\ InHand' = InHand /\ PutTogether' = PutTogether
<1>1. CASE UNCHANGED vars
  <2>1. UNCHANGED <<step, rising, handshake, slv_i, recv_buf, rx_queue, received, m_tready,
                    drd, ard, state, frame_tkeep, FRAME_FIFO>>
    BY <1>1 DEF vars, slaveVars, benchVars, dutVars, fixed
  <2>2. SameOutputs
    BY <2>1 DEF SameOutputs, Dut!m_tvalid, Dut!m_tdata, Dut!m_tkeep, Dut!m_tlast,
                Dut!D!rd_empty, Dut!D!wr_ptr_bin
  <2> QED
    BY <2>1, <2>2 DEF ReceiverKnows, SameOutputs, Slv!Transfer, InHand, PutTogether, Pending,
                      Delivered, Buf, Slv!KeptBytes
<1> QED
  BY <1>1, SampleKnows, DriveKnows, WakeKnows DEF Next

-----------------------------------------------------------------------------
(* The two queues in the DUT *)

Word(axis) == [tdata |-> axis.tdata, tlast |-> axis.tlast, tid |-> axis.tid,
               tdest |-> axis.tdest, tuser |-> axis.tuser]
Aux(axis) == [tkeep |-> axis.tkeep, bad |-> FRAME_FIFO /\ Dut!FrameIsBad(Takes("s"))]

DataPush == Takes("s") /\ ~DP!wr_full
AuxPush == Takes("s") /\ (FRAME_FIFO => s_axis.tlast) /\ ~AP!wr_full
DataGo == "m" \in rising /\
            IF ~FRAME_FIFO THEN m_tready /\ ~DP!rd_empty
            ELSE IF state = "FORWARD" THEN Dut!m_tvalid /\ m_tready ELSE frame_dfifo_rd_en
AuxGo == "m" \in rising /\ IF FRAME_FIFO THEN afifo_rd_en_fsm ELSE m_tready /\ ~DP!rd_empty
DataPop == DataGo /\ ~DP!rd_empty
AuxPop == AuxGo /\ ~AP!rd_empty

LEMMA TakesS ==
  ASSUME DutInv, ~rst
  PROVE  Takes("s") <=> "s" \in rising /\ s_axis.tvalid /\ Dut!s_tready
BY DEF Takes

LEMMA WriteEdges ==
  ASSUME DutInv, Eval, ~rst
  PROVE  /\ DP!WrEdge(FALSE, Takes("s"), Word(s_axis)) \/ (~Takes("s") /\ UNCHANGED dwr)
         /\ \/ AP!WrEdge(FALSE, Takes("s") /\ (FRAME_FIFO => s_axis.tlast), Aux(s_axis))
            \/ ~Takes("s") /\ UNCHANGED awr
<1>1. rst = FALSE
  BY DEF DutInv
<1>2. CASE "s" \notin rising
  BY <1>2 DEF Eval, Takes
<1>3. CASE "s" \in rising
  <2> DEFINE wr_en == s_axis.tvalid /\ Dut!s_tready
             last == wr_en /\ s_axis.tlast
             aux == [tkeep |-> s_axis.tkeep, bad |-> FRAME_FIFO /\ Dut!FrameIsBad(wr_en)]
  <2>1. /\ Dut!D!WrEdge(rst, wr_en, Word(s_axis))
        /\ Dut!A!WrEdge(rst, IF FRAME_FIFO THEN last ELSE wr_en, aux)
    BY <1>3 DEF Eval, Dut!SEdge, Word
  <2>2. Takes("s") <=> wr_en
    BY <1>3, TakesS
  <2>3. Takes("s") = wr_en
    BY <2>2 DEF Takes
  <2>4. (IF FRAME_FIFO THEN last ELSE wr_en) = (Takes("s") /\ (FRAME_FIFO => s_axis.tlast))
    BY <2>2 DEF DutInv
  <2>5. aux = Aux(s_axis)
    BY <2>3 DEF Aux
  <2> HIDE DEF wr_en, last, aux
  <2>6. /\ Dut!D!WrEdge(FALSE, Takes("s"), Word(s_axis))
        /\ Dut!A!WrEdge(FALSE, Takes("s") /\ (FRAME_FIFO => s_axis.tlast), Aux(s_axis))
    BY <1>1, <2>1, <2>3, <2>4, <2>5
  <2> QED
    BY <2>6, SameData, SameAux
<1> QED
  BY <1>2, <1>3

Registered ==
  /\ frame_dfifo_rd_en \in BOOLEAN /\ afifo_rd_en_fsm \in BOOLEAN
  /\ m_tready \in BOOLEAN /\ tready_o \in BOOLEAN

LEMMA ReadEdges ==
  ASSUME DutInv, Eval, ~rst, Registered
  PROVE  /\ DP!RdEdge(FALSE, DataGo) \/ (~DataGo /\ UNCHANGED drd)
         /\ AP!RdEdge(FALSE, AuxGo) \/ (~AuxGo /\ UNCHANGED ard)
<1>1. rst = FALSE
  BY DEF DutInv
<1>2. CASE "m" \notin rising
  BY <1>2 DEF Eval, DataGo, AuxGo
<1>3. CASE "m" \in rising /\ FRAME_FIFO
  <2>1. Dut!FrameEdge(FALSE, m_tready)
    BY <1>1, <1>3 DEF Eval, Dut!MEdge
  <2>2. /\ Dut!D!RdEdge(FALSE, IF state = "FORWARD" THEN Dut!m_tvalid /\ m_tready
                               ELSE frame_dfifo_rd_en)
        /\ Dut!A!RdEdge(FALSE, afifo_rd_en_fsm)
    BY <2>1 DEF Dut!FrameEdge
  <2>3. /\ DataGo = (IF state = "FORWARD" THEN Dut!m_tvalid /\ m_tready ELSE frame_dfifo_rd_en)
        /\ AuxGo = afifo_rd_en_fsm
    BY <1>3 DEF DataGo, AuxGo, Registered
  <2> QED
    BY <2>2, <2>3, SameData, SameAux
<1>4. CASE "m" \in rising /\ ~FRAME_FIFO
  <2> DEFINE go == m_tready /\ ~Dut!D!rd_empty
  <2>1. Dut!D!RdEdge(FALSE, go) /\ Dut!A!RdEdge(FALSE, go)
    BY <1>1, <1>4 DEF Eval, Dut!MEdge, Dut!BeatEdge
  <2>2. DP!RdEdge(FALSE, go) /\ AP!RdEdge(FALSE, go)
    <3> HIDE DEF go
    <3> QED
      BY <2>1, SameData, SameAux
  <2>3. AuxGo = go /\ DataGo = go
    BY <1>4, SameData DEF AuxGo, DataGo, Registered
  <2> QED
    BY <2>2, <2>3
<1> QED
  BY <1>2, <1>3, <1>4

DQ == DP!Contents
AQ == AP!Contents

LEMMA DataQueue ==
  ASSUME DutInv, WordInv
  PROVE  /\ DQ \in Seq(Words) /\ Len(DQ) \in 0 .. DEPTH
         /\ ~DP!wr_full => Len(DQ) < DEPTH
         /\ ~DP!rd_empty => DQ # <<>> /\ drd.data = DQ[1]
<1>1. DP!FifoInv /\ DP!HeadShown /\ DP!GrayCode /\ dwr.mem \in DP!Memory(Words)
  BY Codes DEF DutInv, WordInv, DP!Memory
<1>2. /\ DQ \in Seq(Words) /\ Len(DQ) \in 0 .. DEPTH
      /\ ~DP!wr_full => Len(DQ) < DEPTH
      /\ ~DP!rd_empty => DQ # <<>> /\ Head(DQ) = dwr.mem[DP!Addr(drd.ptr)]
  BY <1>1, DP!QueueIs, AxisBenchAssumption DEF DQ
<1>3. DQ # <<>> => Head(DQ) = DQ[1]
  BY <1>2
<1>4. ~DP!rd_empty => drd.data = dwr.mem[DP!Addr(drd.ptr)]
  BY <1>1 DEF DP!HeadShown
<1> QED
  BY <1>2, <1>3, <1>4

LEMMA AuxQueue ==
  ASSUME DutInv, WordInv
  PROVE  /\ AQ \in Seq(AuxWords) /\ Len(AQ) \in 0 .. DEPTH
         /\ ~AP!wr_full => Len(AQ) < DEPTH
         /\ ~AP!rd_empty => AQ # <<>> /\ ard.data = AQ[1]
<1>1. AP!FifoInv /\ AP!HeadShown /\ AP!GrayCode /\ awr.mem \in AP!Memory(AuxWords)
      /\ AUX_DEPTH = DEPTH
  BY Codes, AxisBenchAssumption DEF DutInv, WordInv, AP!Memory
<1>2. /\ AQ \in Seq(AuxWords) /\ Len(AQ) \in 0 .. AUX_DEPTH
      /\ ~AP!wr_full => Len(AQ) < AUX_DEPTH
      /\ ~AP!rd_empty => AQ # <<>> /\ Head(AQ) = awr.mem[AP!Addr(ard.ptr)]
  BY <1>1, AP!QueueIs, AxisBenchAssumption DEF AQ
<1>3. AQ # <<>> => Head(AQ) = AQ[1]
  BY <1>2
<1>4. ~AP!rd_empty => ard.data = awr.mem[AP!Addr(ard.ptr)]
  BY <1>1 DEF AP!HeadShown
<1> QED
  BY <1>1, <1>2, <1>3, <1>4

LEMMA WordsFit ==
  ASSUME MasterTypes
  PROVE  Word(s_axis) \in Words /\ Aux(s_axis) \in AuxWords
<1>1. s_axis \in Wires
  BY DEF MasterTypes
<1> DEFINE bad == FRAME_FIFO /\ Dut!FrameIsBad(Takes("s"))
<1>2. bad \in BOOLEAN
  OBVIOUS
<1>3. Aux(s_axis) = [tkeep |-> s_axis.tkeep, bad |-> bad]
  BY DEF Aux
<1> HIDE DEF bad
<1> QED
  BY <1>1, <1>2, <1>3 DEF Word, Wires, Words, AuxWords

LEMMA DataMoves ==
  ASSUME DutInv, MasterTypes, WordInv, Registered, Eval, ~rst
  PROVE  Moves(DQ, DQ', DataPop, DataPush, Word(s_axis)) /\ DQ' \in Seq(Words)
<1>1. DP!FifoInv /\ DP!GrayCode /\ dwr.mem \in DP!Memory(Words)
  BY Codes DEF DutInv, WordInv, DP!Memory
<1>2. Word(s_axis) \in Words
  BY WordsFit
<1>3. Takes("s") \in BOOLEAN /\ DataGo \in BOOLEAN
  BY DEF Takes, DataGo
<1>4. /\ DP!WrEdge(FALSE, Takes("s"), Word(s_axis)) \/ (~Takes("s") /\ UNCHANGED dwr)
      /\ DP!RdEdge(FALSE, DataGo) \/ (~DataGo /\ UNCHANGED drd)
  BY WriteEdges, ReadEdges
<1>5. LET left == DP!LeftOf(DQ, DataGo /\ ~DP!rd_empty)
      IN DQ' = IF Takes("s") /\ ~DP!wr_full THEN Append(left, Word(s_axis)) ELSE left
  BY <1>1, <1>2, <1>3, <1>4, DP!QueueMoves, AxisBenchAssumption DEF DQ
<1>6. DQ' = LET left == IF DataPop THEN Tail(DQ) ELSE DQ
            IN IF DataPush THEN Append(left, Word(s_axis)) ELSE left
  BY <1>5 DEF DP!LeftOf, DataPop, DataPush
<1>7. DataPop \in BOOLEAN /\ DataPush \in BOOLEAN /\ (DataPop => DQ # <<>>) /\ DQ \in Seq(Words)
  BY DataQueue DEF DataPop, DataPush
<1>8. PICK q \in Seq(Words), w \in Words, pop \in BOOLEAN, push \in BOOLEAN, r \in {DQ'} :
        q = DQ /\ w = Word(s_axis) /\ pop = DataPop /\ push = DataPush /\ r = DQ'
  BY <1>2, <1>7
<1>9. r = Updated(q, pop, push, w)
  BY <1>6, <1>8 DEF Updated
<1>10. r \in Seq(Words) /\ Moves(q, r, pop, push, w)
  BY <1>7, <1>8, <1>9, MovesBy
<1> QED
  BY <1>8, <1>10

LEMMA AuxMoves ==
  ASSUME DutInv, MasterTypes, WordInv, Registered, Eval, ~rst
  PROVE  Moves(AQ, AQ', AuxPop, AuxPush, Aux(s_axis)) /\ AQ' \in Seq(AuxWords)
<1>1. AP!FifoInv /\ AP!GrayCode /\ awr.mem \in AP!Memory(AuxWords)
  BY Codes DEF DutInv, WordInv, AP!Memory
<1>2. Aux(s_axis) \in AuxWords
  BY WordsFit
<1> DEFINE en == Takes("s") /\ (FRAME_FIFO => s_axis.tlast)
<1>3. en \in BOOLEAN /\ AuxGo \in BOOLEAN
  BY DEF AuxGo
<1>4. AP!WrEdge(FALSE, en, Aux(s_axis)) \/ (~en /\ UNCHANGED awr)
  BY WriteEdges
<1>5. AP!RdEdge(FALSE, AuxGo) \/ (~AuxGo /\ UNCHANGED ard)
  BY ReadEdges
<1>6. AuxPush <=> en /\ ~AP!wr_full
  BY DEF AuxPush
<1> HIDE DEF en
<1>7. LET left == AP!LeftOf(AQ, AuxGo /\ ~AP!rd_empty)
      IN AQ' = IF en /\ ~AP!wr_full THEN Append(left, Aux(s_axis)) ELSE left
  BY <1>1, <1>2, <1>3, <1>4, <1>5, AP!QueueMoves, AxisBenchAssumption DEF AQ
<1>8. AQ' = LET left == IF AuxPop THEN Tail(AQ) ELSE AQ
            IN IF AuxPush THEN Append(left, Aux(s_axis)) ELSE left
  BY <1>6, <1>7 DEF AP!LeftOf, AuxPop
<1>9. AuxPop \in BOOLEAN /\ AuxPush \in BOOLEAN /\ (AuxPop => AQ # <<>>) /\ AQ \in Seq(AuxWords)
  BY AuxQueue DEF AuxPop, AuxPush
<1>10. PICK q \in Seq(AuxWords), w \in AuxWords, pop \in BOOLEAN, push \in BOOLEAN, r \in {AQ'} :
        q = AQ /\ w = Aux(s_axis) /\ pop = AuxPop /\ push = AuxPush /\ r = AQ'
  BY <1>2, <1>9
<1>11. r = Updated(q, pop, push, w)
  BY <1>8, <1>10 DEF Updated
<1>12. r \in Seq(AuxWords) /\ Moves(q, r, pop, push, w)
  BY <1>9, <1>10, <1>11, MovesBy
<1> QED
  BY <1>10, <1>12

LEMMA QueuesKept ==
  ASSUME UNCHANGED <<dwr, drd, awr, ard>>
  PROVE  DQ' = DQ /\ AQ' = AQ
BY DEF DQ, AQ, DP!Contents, AP!Contents, DP!Size, AP!Size

\* In reset nothing is stored and nothing is taken.
LEMMA EmptyInReset ==
  ASSUME DutInv, WordInv, rst
  PROVE  DQ = <<>> /\ AQ = <<>> /\ ~Takes("s") /\ ~Takes("m")
<1>1. DP!AllZero /\ AP!AllZero /\ DP!FifoInv /\ AP!FifoInv
  BY DEF DutInv
<1>2. dwr.ptr = 0 /\ drd.ptr = 0 /\ awr.ptr = 0 /\ ard.ptr = 0
  BY <1>1 DEF DP!AllZero, AP!AllZero
<1>3. DEPTH \in Nat \ {0} /\ AUX_DEPTH = DEPTH
  BY AxisBenchAssumption
<1>4. DP!Size = 0 /\ AP!Size = 0
  BY <1>2, <1>3, SMT DEF DP!Size, AP!Size
<1>5. DQ = <<>> /\ AQ = <<>>
  BY <1>4 DEF DQ, AQ, DP!Contents, AP!Contents
<1> QED
  BY <1>5 DEF Takes

-----------------------------------------------------------------------------
(* The beats taken *)

LEMMA TakenBeats ==
  ASSUME SendInv, MasterTypes
  PROVE  /\ Len(accepted) \in Nat /\ All \in Nat /\ Len(accepted) <= All
         /\ Len(accepted) <= Len(Sent(sent))
         /\ \A i \in 1 .. Len(accepted) : Seen(accepted[i]) = Packed(plan)[i]
<1>1. accepted \in Seq(Wires) /\ plan \in Seq(Sendable) /\ sent \in 0 .. Len(plan)
  BY DEF SendInv, MasterTypes
<1>2. SubSeq(plan, 1, Len(plan)) = plan /\ Len(plan) \in sent .. Len(plan)
  BY <1>1
<1>3. PICK x \in Seq(ShownBeats) : x = Emitted
  BY EmittedGoesOn
<1>4. PICK y \in Seq(ShownBeats) : Sent(sent) = x \o y
  BY <1>3, EmittedGoesOn DEF GoesOn
<1>5. PICK z \in Seq(ShownBeats) : Packed(plan) = (x \o y) \o z
  <2>1. PICK z \in Seq(ShownBeats) : Packed(SubSeq(plan, 1, Len(plan))) = Sent(sent) \o z
    BY <1>1, <1>2, PackedPrefix DEF GoesOn, Sent
  <2> QED
    BY <1>2, <1>4, <2>1
<1>6. PICK N \in Nat : N = Len(accepted)
  BY <1>1
<1>7. Len(Taken) = N /\ \A i \in 1 .. N : Taken[i] = Seen(accepted[i])
  BY <1>1, <1>6 DEF Taken
<1>8. N <= Len(x) /\ \A i \in 1 .. N : x[i] = Seen(accepted[i])
  <2>1. CASE OnWire
    <3> DEFINE b == Seen(s_axis)
               t == Taken
               S == {Seen(w) : w \in Wires} \cup {b}
    <3>1. t \in Seq(S)
      <4>1. \A i \in 1 .. N : accepted[i] \in Wires
        BY <1>1, <1>6
      <4>2. t = [i \in 1 .. N |-> Seen(accepted[i])]
        BY <1>1, <1>6 DEF Taken
      <4>3. \A i \in 1 .. N : Seen(accepted[i]) \in S
        BY <4>1
      <4> HIDE DEF S, t
      <4> QED
        BY <4>2, <4>3
    <3>2. x = Append(t, b) /\ b \in S
      BY <1>3, <2>1 DEF Emitted
    <3>3. Len(t) = N /\ \A i \in 1 .. N : t[i] = Seen(accepted[i])
      BY <1>7
    <3> HIDE DEF S, t, b
    <3>4. Len(Append(t, b)) = N + 1 /\ \A i \in 1 .. N : Append(t, b)[i] = t[i]
      BY <3>1, <3>2, <3>3
    <3> QED
      BY <3>2, <3>3, <3>4
  <2>2. CASE ~OnWire
    BY <1>3, <1>7, <2>2 DEF Emitted
  <2> QED
    BY <2>1, <2>2
<1>9. PICK w \in Seq(ShownBeats) : w = x \o y
  BY ConcatCloses
<1>10. Len(x) <= Len(w) /\ \A i \in 1 .. Len(x) : w[i] = x[i]
  BY <1>9
<1>11. Len(w) <= Len(w \o z) /\ \A i \in 1 .. Len(w) : (w \o z)[i] = w[i]
  OBVIOUS
<1>12. All \in Nat /\ Len(w) <= All /\ \A i \in 1 .. Len(w) : Packed(plan)[i] = w[i]
  <2>1. Packed(plan) = w \o z /\ All = Len(w \o z)
    BY <1>5, <1>9 DEF All
  <2>2. Len(w \o z) \in Nat
    OBVIOUS
  <2> QED
    BY <1>11, <2>1, <2>2
<1>13. PICK m \in Nat : m = Len(x)
  OBVIOUS
<1>14. PICK n \in Nat : n = Len(w)
  OBVIOUS
<1>15. N <= n /\ n <= All
  BY <1>8, <1>10, <1>12, <1>13, <1>14
<1>16. Len(Sent(sent)) = n
  BY <1>4, <1>9, <1>14
<1>17. ASSUME NEW i \in 1 .. N PROVE Seen(accepted[i]) = Packed(plan)[i]
  <2>1. i \in 1 .. Len(x) /\ i \in 1 .. Len(w)
    BY <1>8, <1>13, <1>14, <1>15
  <2> QED
    BY <1>8, <1>10, <1>12, <2>1
<1> QED
  BY <1>6, <1>12, <1>15, <1>16, <1>17

-----------------------------------------------------------------------------
(* How far the receiver is *)

\* The receiver has f frames and k beats of the next, Got(f, k) beats in all.
Position(f, k) ==
  /\ f \in 0 .. Len(Whole) /\ k \in Nat
  /\ k > 0 => f < Len(Whole) /\ k < Beats(Whole[f + 1])
Got(f, k) == Start(Whole, f) + k
Reached(f, k) ==
  /\ Position(f, k)
  /\ PutTogether = [i \in 1 .. f |-> Whole[i]["data"]]
  /\ InHand = IF k = 0 THEN <<>> ELSE Part(Whole[f + 1], k)

LEMMA WholeKept ==
  ASSUME UNCHANGED <<plan, FRAME_FIFO>>
  PROVE  Whole' = Whole /\ Fit' = Fit /\ All' = All
<1>1. \A p : Due(p)' = Due(p)
  BY DEF Due, Delivers
<1> QED
  BY <1>1 DEF Whole, Fit, All

LEMMA WholeFirst ==
  ASSUME plan \in Seq(Sendable), Handled, FRAME_FIFO \in BOOLEAN
  PROVE  /\ Fit \in Nat /\ All \in Nat /\ Fit <= All
         /\ \A i \in 1 .. Fit : Packed(plan)[i] = Packed(Whole)[i]
<1>1. Whole \in Seq(Sendable)
  BY WholeType
<1>2. PICK w \in Seq(ShownBeats) : w = Packed(Whole)
  BY <1>1, PackedType
<1>3. CASE ~FRAME_FIFO
  BY <1>2, <1>3, StreamWhole DEF Fit, All
<1>4. CASE FRAME_FIFO
  <2>1. PICK n \in 0 .. Len(plan) : FitsUpTo(n)
    BY <1>4, FramePlan
  <2>2. CASE n = Len(plan) /\ Packed(plan) = Packed(Whole)
    BY <1>2, <2>2 DEF Fit, All
  <2>3. CASE /\ n + 1 = Len(plan) /\ plan[n + 1] \in Sendable /\ Beats(plan[n + 1]) > DEPTH
             /\ Packed(plan) = Packed(Whole) \o FirstBeats(plan[n + 1], Beats(plan[n + 1]))
    <3>1. Beats(plan[n + 1]) \in Nat
      BY <2>3, BeatsAre
    <3>2. PICK b \in Seq(ShownBeats) : b = FirstBeats(plan[n + 1], Beats(plan[n + 1]))
      BY <2>3, <3>1, FirstBeatsType
    <3>3. Packed(plan) = w \o b
      BY <1>2, <2>3, <3>2
    <3>4. Len(w \o b) \in Nat /\ Len(w) <= Len(w \o b) /\ \A i \in 1 .. Len(w) : (w \o b)[i] = w[i]
      OBVIOUS
    <3> QED
      BY <1>2, <3>3, <3>4 DEF Fit, All
  <2> QED
    BY <1>4, <2>1, <2>2, <2>3, FrameWhole
<1> QED
  BY <1>3, <1>4

LEMMA GotBounds ==
  ASSUME plan \in Seq(Sendable), NEW f, NEW k, Position(f, k)
  PROVE  /\ Got(f, k) \in Nat /\ Fit \in Nat /\ Got(f, k) <= Fit
         /\ k = 0 => Got(f, k) = Start(Whole, f)
         /\ k > 0 => Got(f, k) < Fit
         /\ Got(f, k) < Fit =>
              /\ f \in 0 .. Len(Whole) - 1 /\ k + 1 \in 1 .. Beats(Whole[f + 1])
              /\ Got(f, k) < Start(Whole, f + 1)
              /\ Packed(Whole)[Got(f, k) + 1] = BeatOf(Whole[f + 1], k + 1)
<1>1. PICK q \in Seq(Sendable) : q = Whole /\ \A j \in 1 .. Len(q) : Beats(q[j]) \in Nat \ {0}
  BY WholeType
<1>2. PICK G \in Nat : G = Len(q)
  OBVIOUS
<1>3. f \in 0 .. G /\ k \in Nat /\ (k > 0 => f < G /\ k < Beats(q[f + 1]))
  BY <1>1, <1>2 DEF Position
<1>4. Start(q, f) \in Nat /\ Start(q, G) = Fit /\ Fit \in Nat
  BY <1>1, <1>2, <1>3, StartNat, Starts0 DEF Fit
<1>5. Got(f, k) = Start(q, f) + k /\ Got(f, k) \in Nat
  BY <1>1, <1>3, <1>4 DEF Got
<1>6. ASSUME f < G
      PROVE  /\ Beats(q[f + 1]) \in Nat \ {0} /\ k + 1 \in 1 .. Beats(q[f + 1])
             /\ Got(f, k) < Start(q, f + 1) /\ Start(q, f + 1) <= Fit
             /\ Packed(q)[Got(f, k) + 1] = BeatOf(q[f + 1], k + 1)
  <2>1. f + 1 \in 1 .. G /\ f \in 0 .. Len(q) - 1 /\ f + 1 \in 0 .. Len(q) /\ Len(q) \in f + 1 .. Len(q)
    BY <1>2, <1>3, <1>6
  <2>2. PICK b \in Nat \ {0} : b = Beats(q[f + 1])
    BY <1>1, <1>2, <2>1
  <2>3. k + 1 \in 1 .. b
    BY <1>3, <2>2
  <2>4. Start(q, f + 1) = Start(q, f) + b
    BY <2>1, <2>2, StartStep
  <2>5. Start(q, f + 1) <= Start(q, Len(q))
    BY <2>1, StartGrows
  <2>6. Packed(q)[Start(q, f) + (k + 1)] = BeatOf(q[f + 1], k + 1)
    BY <2>1, <2>2, <2>3, BeatAt
  <2>7. Start(q, f) + (k + 1) = Got(f, k) + 1
    BY <1>3, <1>4, <1>5
  <2> QED
    BY <1>2, <1>3, <1>4, <1>5, <2>2, <2>3, <2>4, <2>5, <2>6, <2>7
<1>7. f < G \/ (f = G /\ k = 0)
  BY <1>3
<1>8. Got(f, k) <= Fit /\ (k > 0 => Got(f, k) < Fit) /\ (Got(f, k) < Fit => f < G)
      /\ (k = 0 => Got(f, k) = Start(q, f))
  <2>1. CASE f < G
    <3>1. PICK s \in Nat : s = Start(q, f + 1)
      BY <1>1, <1>2, <1>3, <2>1, StartNat
    <3>2. Got(f, k) < s /\ s <= Fit
      BY <1>6, <2>1, <3>1
    <3> QED
      BY <1>4, <1>5, <2>1, <3>2
  <2>2. CASE f = G /\ k = 0
    <3>1. Got(f, k) = Fit
      BY <1>4, <1>5, <2>2
    <3> QED
      BY <1>2, <1>4, <1>5, <2>2, <3>1
  <2> QED
    BY <1>7, <2>1, <2>2
<1>9. f < G => f \in 0 .. Len(Whole) - 1
  BY <1>1, <1>2, <1>3
<1> QED
  BY <1>1, <1>4, <1>5, <1>6, <1>8, <1>9

\* The beat after those the receiver has, as the FIFO took it.
LEMMA BeatTaken ==
  ASSUME SendInv, MasterTypes, Handled, FRAME_FIFO \in BOOLEAN,
         NEW f, NEW k, Position(f, k), Got(f, k) < Len(accepted), Got(f, k) < Fit
  PROVE  LET axis == accepted[Got(f, k) + 1]
             beat == BeatOf(Whole[f + 1], k + 1)
         IN axis.tkeep = beat.keep /\ axis.tlast = beat.last
            /\ \A l \in beat.keep : axis.tdata[l] = beat.bytes[l]
<1> DEFINE beat == BeatOf(Whole[f + 1], k + 1)
<1>1. plan \in Seq(Sendable)
  BY DEF MasterTypes
<1>2. PICK c \in Nat, N \in Nat, F \in Nat : c = Got(f, k) /\ N = Len(accepted) /\ F = Fit
  BY <1>1, GotBounds, TakenBeats
<1>3. c + 1 \in 1 .. N /\ c + 1 \in 1 .. F
  BY <1>2
<1>4. Seen(accepted[c + 1]) = Packed(plan)[c + 1]
  BY <1>2, <1>3, TakenBeats
<1>5. Packed(plan)[c + 1] = Packed(Whole)[c + 1]
  BY <1>1, <1>2, <1>3, WholeFirst
<1>6. Packed(Whole)[c + 1] = beat
  BY <1>1, <1>2, GotBounds
<1>7. Seen(accepted[c + 1]) = beat
  BY <1>4, <1>5, <1>6
<1> HIDE DEF beat
<1>8. /\ beat.keep = accepted[c + 1].tkeep /\ beat.last = accepted[c + 1].tlast
      /\ beat.bytes = [l \in accepted[c + 1].tkeep |-> accepted[c + 1].tdata[l]]
  BY <1>7 DEF Seen
<1> QED
  BY <1>2, <1>8 DEF beat

\* The edge takes that beat.
LEMMA ReceiverTakes ==
  ASSUME ReceiverKnows, DutInv, WordInv, MasterTypes, Eval, Takes("m"),
         NEW f, NEW k, Reached(f, k), Got(f, k) < Fit,
         Dut!m_tkeep = BeatOf(Whole[f + 1], k + 1).keep,
         Dut!m_tlast = BeatOf(Whole[f + 1], k + 1).last,
         \A l \in BeatOf(Whole[f + 1], k + 1).keep :
            Dut!m_tdata[l] = BeatOf(Whole[f + 1], k + 1).bytes[l]
  PROVE  /\ Dut!m_tlast => Reached(f + 1, 0)' /\ Got(f + 1, 0)' = Got(f, k) + 1
         /\ ~Dut!m_tlast => Reached(f, k + 1)' /\ Got(f, k + 1)' = Got(f, k) + 1
<1>1. PICK q \in Seq(Sendable) : q = Whole /\ \A j \in 1 .. Len(q) : Beats(q[j]) \in Nat \ {0}
  BY WholeType DEF MasterTypes
<1>2. Whole' = q
  BY <1>1, WholeKept DEF Eval, fixed
<1>3. f \in 0 .. Len(q) - 1 /\ k \in Nat /\ k + 1 \in 1 .. Beats(q[f + 1])
  BY <1>1, GotBounds DEF Reached, Position, MasterTypes
<1>4. PICK frame \in Sendable, b \in Nat \ {0} : frame = q[f + 1] /\ b = Beats(frame)
  <2>1. f + 1 \in 1 .. Len(q)
    BY <1>3
  <2> QED
    BY <1>1, <2>1
<1>5. k < b
  BY <1>3, <1>4
<1>6. Dut!m_tlast <=> k + 1 = b
  <2>1. BeatOf(frame, k + 1).last = (k + 1 = Beats(frame))
    BY DEF BeatOf
  <2> QED
    BY <1>1, <1>4, <2>1
<1> DEFINE buf == InHand \o Slv!KeptBytes(Dut!m_tdata, Dut!m_tkeep)
<1>7. buf = IF k + 1 = b THEN frame["data"] ELSE Part(frame, k + 1)
  <2>1. Dut!m_tdata \in [1 .. Lanes -> Bytes]
    BY DEF WordInv, Words, Dut!m_tdata
  <2>2. Part(frame, k) \o Slv!KeptBytes(Dut!m_tdata, Dut!m_tkeep) =
          IF k + 1 = b THEN frame["data"] ELSE Part(frame, k + 1)
    <3>1. BeatOf(Whole[f + 1], k + 1) = BeatOf(frame, k + 1)
      BY <1>1, <1>4
    <3>2. PICK keep \in {Dut!m_tkeep}, data \in [1 .. Lanes -> Bytes] : keep = Dut!m_tkeep /\ data = Dut!m_tdata
      BY <2>1
    <3>3. /\ keep = BeatOf(frame, k + 1).keep
          /\ \A l \in keep : data[l] = BeatOf(frame, k + 1).bytes[l]
      BY <3>1, <3>2
    <3>4. k \in Nat /\ k < Beats(frame)
      BY <1>3, <1>4, <1>5
    <3>5. Part(frame, k) \o Slv!KeptBytes(data, keep) =
            IF k + 1 = Beats(frame) THEN frame["data"] ELSE Part(frame, k + 1)
      BY <3>3, <3>4, PartGrows
    <3> QED
      BY <1>4, <3>2, <3>5
  <2>3. InHand = Part(frame, k)
    <3>1. CASE k = 0
      <4>1. Part(frame, 0) = <<>>
        <5>1. 0 * Lanes = 0
          BY AxisBenchAssumption
        <5>2. SubSeq(frame["data"], 1, 0) = <<>>
          BY DEF Sendable
        <5> QED
          BY <5>1, <5>2 DEF Part
      <4> QED
        BY <3>1, <4>1 DEF Reached
    <3>2. CASE k # 0
      BY <1>1, <1>4, <3>2 DEF Reached
    <3> QED
      BY <3>1, <3>2
  <2> QED
    BY <2>2, <2>3
<1>8. /\ InHand' = IF Dut!m_tlast THEN <<>> ELSE buf
      /\ PutTogether' = IF Dut!m_tlast THEN Append(PutTogether, buf) ELSE PutTogether
  BY EvalKnows
<1>9. PutTogether = [i \in 1 .. f |-> q[i]["data"]]
  BY <1>1 DEF Reached
<1> HIDE DEF buf
<1>10. CASE Dut!m_tlast
  <2>1. k + 1 = b
    BY <1>6, <1>10
  <2>2. Append([i \in 1 .. f |-> q[i]["data"]], frame["data"]) = [i \in 1 .. f + 1 |-> q[i]["data"]]
    <3> DEFINE T == {q[i]["data"] : i \in 1 .. Len(q)}
               s == [i \in 1 .. f |-> q[i]["data"]]
    <3>1. f \in Nat /\ \A i \in 1 .. f : q[i]["data"] \in T
      BY <1>3
    <3>2. s \in Seq(T) /\ Len(s) = f /\ \A i \in 1 .. f : s[i] = q[i]["data"]
      <4> HIDE DEF T
      <4> QED
        BY <3>1
    <3>3. frame["data"] = q[f + 1]["data"]
      BY <1>4
    <3> HIDE DEF s, T
    <3> QED
      BY <3>1, <3>2, <3>3 DEF s
  <2>3. PutTogether' = [i \in 1 .. f + 1 |-> q[i]["data"]] /\ InHand' = <<>>
    BY <1>7, <1>8, <1>9, <1>10, <2>1, <2>2
  <2>4. Position(f + 1, 0)'
    BY <1>2, <1>3 DEF Position
  <2>5. Got(f + 1, 0)' = Got(f, k) + 1
    <3>1. Start(q, f + 1) = Start(q, f) + b
      BY <1>3, <1>4, StartStep
    <3>2. Start(q, f) \in Nat
      BY <1>3, StartNat
    <3>3. Got(f + 1, 0)' = Start(q, f + 1) + 0
      BY <1>2 DEF Got, Start
    <3>4. PICK x \in Nat, y \in {Start(q, f + 1)} : x = Start(q, f) /\ y = Start(q, f + 1) /\ y = x + b
      BY <3>1, <3>2
    <3>5. y + 0 = (x + k) + 1
      BY <1>3, <2>1, <3>4
    <3> QED
      BY <1>1, <3>3, <3>4, <3>5 DEF Got
  <2> QED
    BY <1>2, <1>10, <2>3, <2>4, <2>5 DEF Reached
<1>11. CASE ~Dut!m_tlast
  <2>1. k + 1 < b
    BY <1>5, <1>6, <1>11, <1>3
  <2>2. PutTogether' = [i \in 1 .. f |-> q[i]["data"]] /\ InHand' = Part(frame, k + 1)
    BY <1>7, <1>8, <1>9, <1>11, <2>1
  <2>3. Position(f, k + 1)'
    BY <1>2, <1>3, <1>4, <2>1 DEF Position
  <2>4. Got(f, k + 1)' = Got(f, k) + 1
    <3>1. Start(q, f) \in Nat
      BY <1>3, StartNat
    <3>2. Got(f, k + 1)' = Start(q, f) + (k + 1)
      BY <1>2 DEF Got, Start
    <3> QED
      BY <1>1, <1>3, <3>1, <3>2 DEF Got
  <2>5. k + 1 # 0 /\ Whole'[f + 1] = frame
    BY <1>2, <1>3, <1>4
  <2>6. InHand' = IF k + 1 = 0 THEN <<>> ELSE Part(Whole[f + 1], k + 1)'
    BY <2>2, <2>5 DEF Part
  <2> QED
    BY <1>2, <1>11, <2>2, <2>3, <2>4, <2>6 DEF Reached
<1> QED
  BY <1>10, <1>11

LEMMA ReachedKept ==
  ASSUME UNCHANGED <<plan, FRAME_FIFO>>, InHand' = InHand, PutTogether' = PutTogether,
         NEW f, NEW k
  PROVE  /\ Position(f, k) => Position(f, k)'
         /\ Reached(f, k) => Reached(f, k)'
         /\ Got(f, k)' = Got(f, k)
BY WholeKept DEF Reached, Position, Got, Start, Part

WordLog == [i \in DOMAIN accepted |-> Word(accepted[i])]
AuxLog == [i \in DOMAIN accepted |-> [tkeep |-> accepted[i].tkeep, bad |-> FALSE]]

\* An edge of s_clk adds a beat to what the FIFO took, and nothing else does.
LEMMA AcceptedMoves ==
  ASSUME MasterTypes, SendInv, Eval
  PROVE  /\ Len(accepted) \in Nat /\ Len(accepted') = Len(accepted) + One(Takes("s"))
         /\ \A i \in 1 .. Len(accepted) :
              accepted'[i] = accepted[i] /\ WordLog'[i] = WordLog[i] /\ AuxLog'[i] = AuxLog[i]
         /\ Takes("s") =>
              /\ accepted'[Len(accepted) + 1] = s_axis
              /\ WordLog'[Len(accepted) + 1] = Word(s_axis)
              /\ AuxLog'[Len(accepted) + 1] = [tkeep |-> s_axis.tkeep, bad |-> FALSE]
<1>1. accepted \in Seq(Wires) /\ s_axis \in Wires
  BY DEF SendInv, MasterTypes
<1>2. PICK s \in Seq(Wires), w \in Wires, N \in Nat : s = accepted /\ w = s_axis /\ N = Len(s)
  BY <1>1
<1>3. PICK t \in Seq(Wires) : t = accepted' /\ t = IF Takes("s") THEN Append(s, w) ELSE s
  BY <1>2 DEF Eval
<1>4. /\ Len(t) = N + One(Takes("s")) /\ \A i \in 1 .. N : t[i] = s[i] /\ i \in 1 .. Len(t)
      /\ Takes("s") => t[N + 1] = w /\ N + 1 \in 1 .. Len(t)
  <2>1. CASE Takes("s")
    <3>1. /\ t = Append(s, w) /\ Len(Append(s, w)) = N + 1 /\ Append(s, w)[N + 1] = w
          /\ \A i \in 1 .. N : Append(s, w)[i] = s[i] /\ i \in 1 .. N + 1
      BY <1>2, <1>3, <2>1
    <3>2. N + 1 \in 1 .. N + 1 /\ One(Takes("s")) = 1
      BY <2>1 DEF One
    <3> QED
      BY <3>1, <3>2
  <2>2. CASE ~Takes("s")
    BY <1>2, <1>3, <2>2 DEF One
  <2> QED
    BY <2>1, <2>2
<1>5. DOMAIN s = 1 .. N /\ DOMAIN t = 1 .. Len(t)
  BY <1>2
<1>6. /\ \A i \in 1 .. N : WordLog[i] = Word(s[i]) /\ AuxLog[i] = [tkeep |-> s[i].tkeep, bad |-> FALSE]
      /\ \A i \in 1 .. Len(t) :
           WordLog'[i] = Word(t[i]) /\ AuxLog'[i] = [tkeep |-> t[i].tkeep, bad |-> FALSE]
  BY <1>2, <1>3, <1>5 DEF WordLog, AuxLog, Word
<1>7. ASSUME NEW i \in 1 .. N
      PROVE  t[i] = s[i] /\ WordLog'[i] = WordLog[i] /\ AuxLog'[i] = AuxLog[i]
  <2>1. t[i] = s[i] /\ i \in 1 .. Len(t)
    BY <1>4
  <2> QED
    BY <1>6, <2>1
<1>8. ASSUME Takes("s")
      PROVE  /\ t[N + 1] = w /\ WordLog'[N + 1] = Word(w)
             /\ AuxLog'[N + 1] = [tkeep |-> w.tkeep, bad |-> FALSE]
  <2>1. t[N + 1] = w /\ N + 1 \in 1 .. Len(t)
    BY <1>4, <1>8
  <2> QED
    BY <1>6, <2>1
<1> QED
  BY <1>2, <1>3, <1>4, <1>7, <1>8

LEMMA NoneInReset ==
  ASSUME MasterTypes, BusInv, SendInv, rst
  PROVE  Len(accepted) = 0
<1>1. sent = 0
  BY DEF BusInv, QuietInReset
<1>2. plan \in Seq(Sendable) /\ 0 \in 0 .. Len(plan)
  BY DEF MasterTypes
<1>3. Sent(sent) = <<>>
  BY <1>1, <1>2, PackedNone DEF Sent
<1>4. Len(accepted) \in Nat /\ Len(accepted) <= Len(Sent(sent))
  BY TakenBeats
<1> QED
  BY <1>3, <1>4

LEMMA EmptyAfterReset ==
  ASSUME DutInv', rst'
  PROVE  DQ' = <<>> /\ AQ' = <<>> /\ DP!rd_empty' /\ AP!rd_empty' /\ (\A x : ~Takes(x)')
<1>1. DP!AllZero' /\ AP!AllZero' /\ DP!FifoInv' /\ AP!FifoInv'
  BY DEF DutInv
<1>2. dwr'.ptr = 0 /\ drd'.ptr = 0 /\ awr'.ptr = 0 /\ ard'.ptr = 0
  BY <1>1 DEF DP!AllZero, AP!AllZero
<1>3. DEPTH \in Nat \ {0} /\ AUX_DEPTH = DEPTH
  BY AxisBenchAssumption
<1>4. DP!Size' = 0 /\ AP!Size' = 0
  BY <1>2, <1>3, SMT DEF DP!Size, AP!Size
<1>5. DQ' = <<>> /\ AQ' = <<>>
  BY <1>4 DEF DQ, AQ, DP!Contents, AP!Contents
<1>6. 0 \in DP!Pointers /\ 0 \in AP!Pointers
  BY <1>3, SMT DEF DP!Pointers, AP!Pointers
<1>7. DP!gray2bin[DP!bin2gray[0]] = 0 /\ AP!gray2bin[AP!bin2gray[0]] = 0
  BY <1>6, Codes, DP!Decoded, AP!Decoded, AxisBenchAssumption
<1>8. DP!rd_empty' /\ AP!rd_empty'
  BY <1>1, <1>7 DEF DP!AllZero, AP!AllZero, DP!Synchronised, AP!Synchronised,
     DP!rd_empty, AP!rd_empty, DP!wr_ptr_bin, AP!wr_ptr_bin
<1> QED
  BY <1>5, <1>8 DEF Takes

\* What every case of the flow knows.
FlowBase ==
  /\ DutInv /\ MasterTypes /\ BusInv /\ SendInv /\ TypeInv /\ Handled
  /\ ReceiverKnows /\ Registered

LEMMA BaseStep ==
  ASSUME FlowBase, [Next]_vars
  PROVE  FlowBase'
<1>1. DutInv' /\ MasterTypes' /\ BusInv' /\ SendInv' /\ TypeInv'
  BY DutStep, MasterStep, BusStep, SendStep, TypeStep DEF FlowBase
<1>2. Handled'
  <2>1. UNCHANGED <<plan, FRAME_FIFO>>
    BY DEF Next, Sample, Eval, Drive, Wake, vars, fixed
  <2> QED
    BY <2>1 DEF FlowBase, Handled
<1>3. ReceiverKnows'
  BY EvalKnows, OthersKnow DEF FlowBase, TypeInv
<1>4. Registered'
  <2>1. /\ UNCHANGED frame_dfifo_rd_en \/ frame_dfifo_rd_en' \in BOOLEAN
        /\ UNCHANGED afifo_rd_en_fsm \/ afifo_rd_en_fsm' \in BOOLEAN
    BY DEF Next, Sample, Eval, Drive, Wake, vars, dutVars, Dut!MEdge, Dut!FrameEdge, Dut!BeatEdge
  <2>2. /\ UNCHANGED m_tready \/ m_tready' = tready_o
        /\ UNCHANGED tready_o \/ tready_o' \in BOOLEAN
    BY DEF Next, Sample, Eval, Drive, Wake, WakeM, vars, slaveVars, Slv!update_input,
           Slv!update_output, Slv!set_tready
  <2> QED
    BY <2>1, <2>2 DEF FlowBase, Registered
<1> QED
  BY <1>1, <1>2, <1>3, <1>4 DEF FlowBase

\* If what the FIFO shows is the beat it took, the receiver goes on by it.
LEMMA ReceiverMoves ==
  ASSUME FlowBase, Eval, NEW f, NEW k, Reached(f, k),
         Takes("m") =>
           /\ Got(f, k) < Len(accepted) /\ Got(f, k) < Fit
           /\ Dut!m_tdata = accepted[Got(f, k) + 1].tdata
           /\ Dut!m_tlast = accepted[Got(f, k) + 1].tlast
           /\ Dut!m_tkeep = BeatOf(Whole[f + 1], k + 1).keep
  PROVE  /\ ~Takes("m") => Reached(f, k)' /\ Got(f, k)' = Got(f, k)
         /\ Takes("m") /\ Dut!m_tlast => Reached(f + 1, 0)' /\ Got(f + 1, 0)' = Got(f, k) + 1
         /\ Takes("m") /\ ~Dut!m_tlast => Reached(f, k + 1)' /\ Got(f, k + 1)' = Got(f, k) + 1
<1>1. DutInv /\ MasterTypes /\ SendInv /\ Handled /\ ReceiverKnows /\ WordInv /\ FRAME_FIFO \in BOOLEAN
  BY DEF FlowBase, TypeInv, DutInv
<1>2. Position(f, k)
  BY DEF Reached
<1>3. CASE ~Takes("m")
  <2>1. InHand' = InHand /\ PutTogether' = PutTogether
    BY <1>1, <1>3, EvalKnows
  <2>2. UNCHANGED <<plan, FRAME_FIFO>>
    BY DEF Eval, fixed
  <2> QED
    BY <1>3, <2>1, <2>2, ReachedKept
<1>4. CASE Takes("m")
  <2>1. /\ Got(f, k) < Len(accepted) /\ Got(f, k) < Fit
        /\ Dut!m_tdata = accepted[Got(f, k) + 1].tdata
        /\ Dut!m_tlast = accepted[Got(f, k) + 1].tlast
        /\ Dut!m_tkeep = BeatOf(Whole[f + 1], k + 1).keep
    BY <1>4
  <2>2. /\ Dut!m_tlast = BeatOf(Whole[f + 1], k + 1).last
        /\ \A l \in BeatOf(Whole[f + 1], k + 1).keep :
             Dut!m_tdata[l] = BeatOf(Whole[f + 1], k + 1).bytes[l]
    BY <1>1, <1>2, <2>1, BeatTaken
  <2> QED
    BY <1>1, <1>4, <2>1, <2>2, ReceiverTakes
<1> QED
  BY <1>3, <1>4

-----------------------------------------------------------------------------
(* Without frames *)

\* Both FIFOs hold the beats taken that the receiver does not have yet.
StreamAt(f, k) ==
  LET N == Len(accepted)
      c == Got(f, k)
  IN /\ Reached(f, k) /\ c <= N
     /\ Len(DQ) = N - c /\ Tracks(DQ, WordLog, c, N)
     /\ Len(AQ) = N - c /\ Tracks(AQ, AuxLog, c, N)
StreamFlow == \E f \in 0 .. Len(Whole), k \in Nat : StreamAt(f, k)

LEMMA StreamMoves ==
  ASSUME DutInv, ~FRAME_FIFO, ~rst, Registered
  PROVE  /\ DataPush = Takes("s") /\ AuxPush = Takes("s")
         /\ DataPop = Takes("m") /\ AuxPop = Takes("m")
<1>1. (DP!wr_full <=> AP!wr_full) /\ (DP!rd_empty <=> AP!rd_empty)
  BY FlagsInStep DEF DutInv
<1>2. Takes("s") => ~DP!wr_full
  BY SameData DEF Takes, Dut!s_tready
<1>3. Takes("m") <=> "m" \in rising /\ ~DP!rd_empty /\ m_tready
  BY SameData DEF Takes, Dut!m_tvalid
<1>4. Takes("m") \in BOOLEAN /\ Takes("s") \in BOOLEAN
  BY DEF Takes
<1>5. DataPush <=> Takes("s")
  BY <1>2 DEF DataPush
<1>6. AuxPush <=> Takes("s")
  BY <1>1, <1>2 DEF AuxPush
<1>7. DataPop <=> Takes("m")
  BY <1>3 DEF DataPop, DataGo
<1>8. AuxPop <=> Takes("m")
  BY <1>1, <1>3 DEF AuxPop, AuxGo
<1>9. DataPush \in BOOLEAN /\ AuxPush \in BOOLEAN /\ DataPop \in BOOLEAN /\ AuxPop \in BOOLEAN
  BY DEF DataPush, AuxPush, DataPop, AuxPop
<1> QED
  BY <1>4, <1>5, <1>6, <1>7, <1>8, <1>9

\* The receiver goes on to (g, j), and both queues by what both edges do.
LEMMA StreamOnward ==
  ASSUME FlowBase, ~FRAME_FIFO, ~rst, Eval, NEW f, NEW k, StreamAt(f, k),
         NEW g, NEW j, Reached(g, j)', Got(g, j)' = Got(f, k) + One(Takes("m")),
         Takes("m") => Got(f, k) < Len(accepted)
  PROVE  StreamAt(g, j)'
<1>1. DutInv /\ MasterTypes /\ SendInv /\ WordInv /\ Registered /\ plan \in Seq(Sendable)
  BY DEF FlowBase, TypeInv, MasterTypes
<1>2. Position(f, k) /\ Got(f, k) <= Len(accepted)
  BY DEF StreamAt, Reached
<1>3. PICK c \in Nat, N \in Nat, pop \in BOOLEAN, push \in BOOLEAN :
        /\ c = Got(f, k) /\ N = Len(accepted) /\ pop = Takes("m") /\ push = Takes("s")
  <2>1. Takes("m") \in BOOLEAN /\ Takes("s") \in BOOLEAN
    BY DEF Takes
  <2> QED
    BY <1>1, <1>2, <2>1, GotBounds, AcceptedMoves
<1>4. PICK d \in Nat, n \in Nat : d = c + One(pop) /\ n = N + One(push)
  BY DEF One
<1>5. Got(g, j)' = d /\ Len(accepted') = n
  BY <1>1, <1>3, <1>4, AcceptedMoves
<1>6. d <= N /\ n \in {N, N + 1} /\ (push => n = N + 1) /\ (n = N + 1 => push) /\ d <= n
  BY <1>2, <1>3, <1>4 DEF One
<1>7. PICK q \in Seq(Words), r \in Seq(Words), w \in {Word(s_axis)}, log \in {WordLog}, later \in {WordLog'} :
        q = DQ /\ r = DQ'
  BY <1>1, DataQueue, DataMoves
<1>8. Len(r) = n - d /\ Tracks(r, later, d, n)
  <2>1. Len(q) \in Nat /\ Len(q) = N - c /\ Tracks(q, log, c, N)
    BY <1>3, <1>7 DEF StreamAt
  <2>2. Moves(q, r, pop, push, w)
    BY <1>1, <1>3, <1>7, DataMoves, StreamMoves
  <2>3. (\A i \in 1 .. N : later[i] = log[i]) /\ (push => later[N + 1] = w)
    BY <1>1, <1>3, <1>7, AcceptedMoves
  <2> QED
    <3>1. Follows(q, w, pop, push, c, N, d, n, log, later)
      BY <1>4, <1>6, <2>1, <2>3 DEF Follows
    <3>2. /\ Tracks(r, later, d, n)
          /\ (Len(q) = N - c /\ (push => n = N + 1)) => Len(r) = n - d
      BY <2>1, <2>2, <3>1, TracksMoves
    <3> QED
      BY <1>6, <2>1, <3>2
<1>9. PICK a \in Seq(AuxWords), b \in Seq(AuxWords), x \in {Aux(s_axis)}, aux \in {AuxLog}, next \in {AuxLog'} :
        a = AQ /\ b = AQ'
  BY <1>1, AuxQueue, AuxMoves
<1>10. Len(b) = n - d /\ Tracks(b, next, d, n)
  <2>1. Len(a) \in Nat /\ Len(a) = N - c /\ Tracks(a, aux, c, N)
    BY <1>3, <1>9 DEF StreamAt
  <2>2. Moves(a, b, pop, push, x)
    BY <1>1, <1>3, <1>9, AuxMoves, StreamMoves
  <2>3. x = [tkeep |-> s_axis.tkeep, bad |-> FALSE]
    BY <1>9 DEF Aux
  <2>4. (\A i \in 1 .. N : next[i] = aux[i]) /\ (push => next[N + 1] = x)
    BY <1>1, <1>3, <1>9, <2>3, AcceptedMoves
  <2> QED
    <3>1. Follows(a, x, pop, push, c, N, d, n, aux, next)
      BY <1>4, <1>6, <2>1, <2>4 DEF Follows
    <3>2. /\ Tracks(b, next, d, n)
          /\ (Len(a) = N - c /\ (push => n = N + 1)) => Len(b) = n - d
      BY <2>1, <2>2, <3>1, TracksMoves
    <3> QED
      BY <1>6, <2>1, <3>2
<1> QED
  BY <1>5, <1>6, <1>7, <1>8, <1>9, <1>10 DEF StreamAt

LEMMA StreamStep ==
  ASSUME FlowBase, ~FRAME_FIFO, Eval, StreamFlow
  PROVE  StreamFlow'
<1> PICK f \in 0 .. Len(Whole), k \in Nat : StreamAt(f, k)
  BY DEF StreamFlow
<1>1. /\ DutInv /\ MasterTypes /\ BusInv /\ SendInv /\ WordInv /\ Registered /\ Handled
      /\ plan \in Seq(Sendable) /\ FRAME_FIFO \in BOOLEAN
  BY DEF FlowBase, TypeInv, MasterTypes, DutInv
<1>2. UNCHANGED <<plan, FRAME_FIFO, rst>> /\ Whole' = Whole
  BY WholeKept DEF Eval, fixed, benchVars
<1>3. Reached(f, k) /\ Position(f, k) /\ Got(f, k) \in Nat
  BY <1>1, GotBounds DEF StreamAt, Reached
<1>4. CASE rst
  <2>1. ~Takes("s") /\ ~Takes("m") /\ DQ = <<>> /\ AQ = <<>> /\ Len(accepted) = 0
    BY <1>1, <1>4, EmptyInReset, NoneInReset
  <2>2. DQ' = <<>> /\ AQ' = <<>>
    <3>1. DutInv' /\ rst'
      BY <1>1, <1>2, <1>4, EvalKeepsDut
    <3> QED
      BY <3>1, EmptyAfterReset
  <2>3. accepted' = accepted /\ WordLog' = WordLog /\ AuxLog' = AuxLog
    BY <2>1 DEF Eval, WordLog, AuxLog, Word
  <2>4. Reached(f, k)' /\ Got(f, k)' = Got(f, k)
    BY <1>3, <2>1, ReceiverMoves
  <2>5. StreamAt(f, k)'
    BY <2>1, <2>2, <2>3, <2>4 DEF StreamAt, Tracks
  <2> QED
    BY <1>2, <2>5 DEF StreamFlow
<1>5. CASE ~rst
  <2>1. PICK c \in Nat, N \in Nat : c = Got(f, k) /\ N = Len(accepted) /\ c <= N /\ N <= Fit
    <3>1. Fit = All
      BY <1>1, StreamWhole DEF Fit, All
    <3>2. Got(f, k) <= Len(accepted)
      BY DEF StreamAt
    <3> QED
      BY <1>1, <1>3, <3>1, <3>2, TakenBeats
  <2>2. Takes("m") =>
           /\ c < N /\ c < Fit
           /\ Dut!m_tdata = accepted[c + 1].tdata /\ Dut!m_tlast = accepted[c + 1].tlast
           /\ Dut!m_tkeep = BeatOf(Whole[f + 1], k + 1).keep
    <3> SUFFICES ASSUME Takes("m")
                 PROVE  /\ c < N /\ c < Fit
                        /\ Dut!m_tdata = accepted[c + 1].tdata
                        /\ Dut!m_tlast = accepted[c + 1].tlast
                        /\ Dut!m_tkeep = BeatOf(Whole[f + 1], k + 1).keep
      OBVIOUS
    <3>1. ~DP!rd_empty /\ ~AP!rd_empty
      <4>1. ~DP!rd_empty
        BY SameData DEF Takes, Dut!m_tvalid
      <4> QED
        BY <1>1, <4>1, FlagsInStep DEF DutInv
    <3>2. DQ # <<>> /\ drd.data = DQ[1] /\ AQ # <<>> /\ ard.data = AQ[1] /\ DQ \in Seq(Words)
      BY <1>1, <3>1, DataQueue, AuxQueue
    <3>3. Len(DQ) = N - c /\ Tracks(DQ, WordLog, c, N) /\ Tracks(AQ, AuxLog, c, N)
      BY <2>1 DEF StreamAt
    <3>4. c < N /\ c < Fit
      <4>1. Len(DQ) \in Nat \ {0}
        BY <3>2
      <4>2. PICK F \in Nat : F = Fit
        BY <1>1, <1>3, GotBounds
      <4> QED
        BY <2>1, <3>3, <4>1, <4>2
    <3>5. DQ[1] = WordLog[c + 1] /\ AQ[1] = AuxLog[c + 1]
      <4>1. 1 \in 1 .. N - c
        BY <2>1, <3>4
      <4> QED
        BY <3>3, <4>1 DEF Tracks
    <3>6. c + 1 \in DOMAIN accepted
      <4>1. accepted \in Seq(Wires) /\ c + 1 \in 1 .. N
        BY <1>1, <2>1, <3>4 DEF SendInv
      <4> QED
        BY <2>1, <4>1
    <3>7. drd.data = Word(accepted[c + 1]) /\ ard.data.tkeep = accepted[c + 1].tkeep
      BY <3>2, <3>5, <3>6 DEF WordLog, AuxLog
    <3>8. accepted[c + 1].tkeep = BeatOf(Whole[f + 1], k + 1).keep
      BY <1>1, <1>3, <2>1, <3>4, BeatTaken
    <3> QED
      BY <3>4, <3>7, <3>8 DEF Word, Dut!m_tdata, Dut!m_tlast, Dut!m_tkeep
  <2>3. /\ ~Takes("m") => Reached(f, k)' /\ Got(f, k)' = c
        /\ Takes("m") /\ Dut!m_tlast => Reached(f + 1, 0)' /\ Got(f + 1, 0)' = c + 1
        /\ Takes("m") /\ ~Dut!m_tlast => Reached(f, k + 1)' /\ Got(f, k + 1)' = c + 1
    BY <1>3, <2>1, <2>2, ReceiverMoves
  <2>4. One(Takes("m")) = IF Takes("m") THEN 1 ELSE 0
    BY DEF One
  <2>5. PICK g, j : Reached(g, j)' /\ Got(g, j)' = c + One(Takes("m"))
    BY <2>1, <2>3, <2>4
  <2>6. StreamAt(g, j)'
    BY <1>5, <2>1, <2>2, <2>5, StreamOnward
  <2>7. g \in 0 .. Len(Whole') /\ j \in Nat
    BY <2>5 DEF Reached, Position
  <2> QED
    BY <2>6, <2>7 DEF StreamFlow
<1> QED
  BY <1>4, <1>5

-----------------------------------------------------------------------------
(* Frames *)

Ins == Len(accepted)
TakenWithin ==
  /\ Ins \in Nat /\ All \in Nat /\ Ins <= All
  /\ \A i \in 1 .. Ins : Seen(accepted[i]) = Packed(plan)[i]

LEMMA Within == SendInv /\ MasterTypes => TakenWithin
BY TakenBeats DEF TakenWithin, Ins

LEMMA WithinNext ==
  ASSUME SendInv', MasterTypes'
  PROVE  TakenWithin'
<1>1. (SendInv /\ MasterTypes => TakenWithin)'
  BY Within, PTL
<1> QED
  BY <1>1

\* The beat an edge takes is the next one of the plan.
LEMMA BeatOffered ==
  ASSUME FlowBase, Eval, Takes("s")
  PROVE  Ins \in Nat /\ All \in Nat /\ Ins < All /\ Seen(s_axis) = Packed(plan)[Ins + 1]
<1>1. MasterTypes /\ SendInv
  BY DEF FlowBase
<1>2. TakenWithin' /\ All' = All /\ plan' = plan
  <2>1. SendInv' /\ MasterTypes'
    BY BaseStep DEF FlowBase, Next
  <2>2. UNCHANGED <<plan, FRAME_FIFO>>
    BY DEF Eval, fixed
  <2> QED
    BY <2>1, <2>2, WithinNext, WholeKept
<1>3. Len(accepted') = Ins + 1 /\ accepted'[Ins + 1] = s_axis /\ Ins \in Nat
  BY <1>1, AcceptedMoves DEF Ins, One
<1>4. Ins + 1 <= All /\ All \in Nat
  BY <1>2, <1>3 DEF TakenWithin, Ins
<1>5. Ins + 1 \in 1 .. Len(accepted')
  BY <1>3
<1> QED
  BY <1>2, <1>3, <1>4, <1>5 DEF TakenWithin, Ins, Seen

\* The writer has put in e frames and part of the next, or all those that fit
\* and part of one that does not.
Writing(e) ==
  /\ e \in 0 .. Len(Whole)
  /\ Ins <= Fit => /\ Start(Whole, e) <= Ins
                   /\ e < Len(Whole) => Ins < Start(Whole, e + 1)
                   /\ frame_beat_cnt = Ins - Start(Whole, e) /\ ~frame_overflow
  /\ Ins > Fit => /\ e = Len(Whole)
                  /\ Ins < All => frame_overflow \/ frame_beat_cnt = Ins - Fit

\* Nothing the FIFO took has been dropped yet.
AllStored == Ins <= Fit \/ (Ins < All /\ ~frame_overflow)
Stored(c) == AllStored => Len(DQ) = Ins - c

\* wr_full needs DEPTH words written, whatever the reader did.
SeenLevels ==
  /\ DP!wr_level \in Nat /\ DP!wr_level <= Ins
  /\ AP!wr_level \in Nat /\ AP!wr_level <= Ins

LEMMA NotFull ==
  ASSUME DutInv, SeenLevels, Ins \in Nat, Ins < DEPTH
  PROVE  ~DP!wr_full /\ ~AP!wr_full
<1>1. DP!FifoInv /\ DP!GrayCode /\ AP!FifoInv /\ AP!GrayCode /\ AUX_DEPTH = DEPTH /\ DEPTH \in Nat
  BY Codes, AxisBenchAssumption DEF DutInv
<1>2. DP!wr_full => DP!wr_level = DEPTH
  BY <1>1, DP!FullIsDepth, AxisBenchAssumption
<1>3. AP!wr_full => AP!wr_level = AUX_DEPTH
  BY <1>1, AP!FullIsDepth, AxisBenchAssumption
<1> QED
  BY <1>1, <1>2, <1>3 DEF SeenLevels

LEMMA LevelsStep ==
  ASSUME FlowBase, ~rst, Eval, SeenLevels
  PROVE  SeenLevels'
<1>1. /\ DutInv /\ MasterTypes /\ SendInv
      /\ DP!FifoInv /\ DP!GrayCode /\ AP!FifoInv /\ AP!GrayCode
  BY Codes DEF FlowBase, DutInv
<1> DEFINE en == Takes("s") /\ (FRAME_FIFO => s_axis.tlast)
<1>2. Takes("s") \in BOOLEAN /\ en \in BOOLEAN
  BY DEF Takes
<1>3. /\ DP!WrEdge(FALSE, Takes("s"), Word(s_axis)) \/ (~Takes("s") /\ UNCHANGED dwr)
      /\ AP!WrEdge(FALSE, en, Aux(s_axis)) \/ (~en /\ UNCHANGED awr)
  BY <1>1, WriteEdges
<1>4. en => Takes("s")
  OBVIOUS
<1> HIDE DEF en
<1>5. /\ DP!wr_level \in Nat /\ DP!wr_level' \in Nat
      /\ DP!wr_level' <= IF Takes("s") /\ ~DP!wr_full THEN DP!wr_level + 1 ELSE DP!wr_level
  BY <1>1, <1>2, <1>3, DP!SeenGrowth, AxisBenchAssumption
<1>6. /\ AP!wr_level \in Nat /\ AP!wr_level' \in Nat
      /\ AP!wr_level' <= IF en /\ ~AP!wr_full THEN AP!wr_level + 1 ELSE AP!wr_level
  BY <1>1, <1>2, <1>3, AP!SeenGrowth, AxisBenchAssumption
<1>7. PICK n \in Nat, later \in Nat, u \in 0 .. 1 :
        /\ n = Ins /\ later = Ins' /\ later = n + u /\ (Takes("s") => u = 1)
  BY <1>1, AcceptedMoves DEF Ins, One
<1>8. PICK x \in Nat, y \in Nat, xx \in Nat, yy \in Nat :
        /\ x = DP!wr_level /\ y = AP!wr_level /\ xx = DP!wr_level' /\ yy = AP!wr_level'
        /\ x <= n /\ y <= n
        /\ (xx <= x \/ (xx <= x + 1 /\ u = 1)) /\ (yy <= y \/ (yy <= y + 1 /\ u = 1))
  BY <1>4, <1>5, <1>6, <1>7 DEF SeenLevels
<1>9. xx <= later /\ yy <= later
  BY <1>7, <1>8
<1> QED
  BY <1>7, <1>8, <1>9 DEF SeenLevels

LEMMA FrameCounts ==
  ASSUME DutInv, Eval, FRAME_FIFO, ~rst
  PROVE  /\ ~Takes("s") => frame_beat_cnt' = frame_beat_cnt /\ (frame_overflow' <=> frame_overflow)
         /\ Takes("s") /\ s_axis.tlast => frame_beat_cnt' = 0 /\ ~frame_overflow'
         /\ Takes("s") /\ ~s_axis.tlast =>
              /\ frame_beat_cnt' = DP!Inc(frame_beat_cnt)
              /\ frame_overflow' <=> frame_overflow \/ DP!wr_full
<1>1. Takes("s") <=> "s" \in rising /\ s_axis.tvalid /\ Dut!s_tready
  BY TakesS
<1>2. CASE "s" \notin rising
  BY <1>1, <1>2 DEF Eval
<1>3. CASE "s" \in rising
  <2>1. Dut!SEdge(rst, s_axis) /\ \A n : Dut!D!Inc(n) = DP!Inc(n)
    BY <1>3 DEF Eval, Dut!D!Inc, DP!Inc
  <2> DEFINE wr_en == s_axis.tvalid /\ Dut!s_tready
             last == wr_en /\ s_axis.tlast
  <2>2. IF rst \/ last
        THEN frame_beat_cnt' = 0 /\ frame_overflow' = FALSE
        ELSE /\ frame_beat_cnt' = IF FRAME_FIFO /\ wr_en
                                  THEN Dut!D!Inc(frame_beat_cnt) ELSE frame_beat_cnt
             /\ frame_overflow' = (frame_overflow \/ (FRAME_FIFO /\ wr_en /\ Dut!D!wr_full))
    BY <2>1 DEF Dut!SEdge
  <2>3. (wr_en <=> Takes("s")) /\ (last <=> Takes("s") /\ s_axis.tlast)
    BY <1>1, <1>3
  <2> HIDE DEF wr_en, last
  <2>4. CASE last
    BY <2>2, <2>3, <2>4
  <2>5. CASE ~last /\ wr_en
    BY <2>1, <2>2, <2>3, <2>5, SameData
  <2>6. CASE ~wr_en
    <3>1. ~last /\ ~Takes("s")
      BY <2>3, <2>6
    <3>2. frame_beat_cnt' = frame_beat_cnt /\ (frame_overflow' = (frame_overflow \/ FALSE))
      BY <2>2, <2>6, <3>1
    <3> QED
      BY <3>1, <3>2
  <2> QED
    BY <2>4, <2>5, <2>6
<1> QED
  BY <1>2, <1>3

LEMMA IncIs ==
  ASSUME NEW n \in Nat, n + 1 < 2 * DEPTH
  PROVE  DP!Inc(n) = n + 1
<1>1. DEPTH \in Nat \ {0}
  BY AxisBenchAssumption
<1>2. \A m \in Nat, x \in Nat : x < m => x % m = x
  BY SMT
<1> QED
  BY <1>1, <1>2 DEF DP!Inc

\* The edge moves the writer from e frames to i.
Wrote(e, i) ==
  /\ i \in {e, e + 1}
  /\ i = e + 1 => /\ Takes("s") /\ s_axis.tlast /\ Ins < Fit
                  /\ s_axis.tkeep = Keep(Whole[e + 1]) /\ ~Dut!FrameIsBad(Takes("s"))
  /\ i = e /\ Takes("s") /\ s_axis.tlast =>
       Dut!FrameIsBad(Takes("s")) /\ Ins + 1 = All /\ Ins + 1 > Fit

LEMMA WritesFrame ==
  ASSUME FlowBase, FRAME_FIFO, ~rst, Eval, SeenLevels, Takes("s"),
         NEW e, Writing(e), Ins < Fit
  PROVE  \E i \in {e, e + 1} : Wrote(e, i) /\ Writing(i)'
<1>1. /\ DutInv /\ MasterTypes /\ SendInv /\ Handled /\ FRAME_FIFO \in BOOLEAN
      /\ plan \in Seq(Sendable)
  BY DEF FlowBase, MasterTypes, DutInv
<1>2. PICK q \in Seq(Sendable) : q = Whole /\ \A j \in 1 .. Len(q) : Beats(q[j]) \in Nat \ {0}
  BY <1>1, WholeType
<1>3. PICK n \in Nat, F \in Nat, A \in Nat, G \in Nat :
        /\ n = Ins /\ F = Fit /\ A = All /\ G = Len(q)
        /\ n < F /\ n < A /\ F <= DEPTH
  BY <1>1, BeatOffered, FrameShape
<1>4. DEPTH \in Nat \ {0}
  BY AxisBenchAssumption
<1>5. /\ e \in 0 .. G /\ Start(q, e) <= n /\ (e < G => n < Start(q, e + 1))
      /\ frame_beat_cnt = n - Start(q, e) /\ ~frame_overflow
  BY <1>2, <1>3 DEF Writing
<1>6. Start(q, G) = F
  BY <1>2, <1>3, Starts0 DEF Fit
<1>7. e < G
  BY <1>3, <1>5, <1>6
<1>8. PICK s \in Nat, b \in Nat \ {0} :
        /\ s = Start(q, e) /\ b = Beats(q[e + 1]) /\ Start(q, e + 1) = s + b
        /\ e \in 0 .. Len(q) - 1 /\ e + 1 \in 0 .. Len(q)
        /\ q[e + 1] \in Sendable
  <2>1. e \in 0 .. Len(q) - 1 /\ e \in 0 .. Len(q) /\ e + 1 \in 1 .. Len(q) /\ e + 1 \in 0 .. Len(q)
    BY <1>3, <1>5, <1>7
  <2> QED
    BY <1>2, <2>1, StartNat, StartStep
<1>9. PICK k \in 1 .. b : k = n - s + 1 /\ n + 1 = s + k /\ frame_beat_cnt = k - 1
  <2>1. s <= n /\ n < s + b /\ frame_beat_cnt = n - s
    BY <1>5, <1>7, <1>8
  <2>2. n - s + 1 \in 1 .. b /\ n + 1 = s + (n - s + 1) /\ n - s = (n - s + 1) - 1
    BY <1>3, <1>8, <2>1, SMTT(40)
  <2> QED
    BY <2>1, <2>2
<1>10. k <= DEPTH /\ DP!Inc(k - 1) = k
  <2>1. k <= DEPTH
    <3>1. k <= n + 1 /\ n < F /\ F <= DEPTH
      BY <1>3, <1>8, <1>9
    <3> QED
      BY <1>4, <3>1
  <2>2. k - 1 \in Nat /\ (k - 1) + 1 = k /\ k < 2 * DEPTH
    BY <1>4, <1>9, <2>1
  <2> QED
    BY <2>1, <2>2, IncIs
<1>11. s_axis.tkeep = Keep(q[e + 1]) /\ (s_axis.tlast <=> k = b)
  <2>1. Packed(q)[s + k] = BeatOf(q[e + 1], k)
    BY <1>8, <1>9, BeatAt
  <2>2. n + 1 \in 1 .. F
    BY <1>3
  <2>3. Packed(plan)[n + 1] = Packed(q)[n + 1]
    BY <1>1, <1>2, <1>3, <2>2, WholeFirst
  <2>4. Seen(s_axis) = BeatOf(q[e + 1], k)
    BY <1>3, <1>9, <2>1, <2>3, BeatOffered
  <2>5. Aligned(q[e + 1])
    <3>1. e + 1 \in 1 .. Len(q)
      BY <1>3, <1>5, <1>7
    <3> QED
      BY <1>1, <1>2, <3>1, WholeAligned
  <2>6. BeatOf(q[e + 1], k).keep = Keep(q[e + 1])
    BY <1>8, <1>9, <2>5, KeepIs
  <2>7. BeatOf(q[e + 1], k).last = (k = b)
    BY <1>8 DEF BeatOf
  <2>8. PICK beat \in {BeatOf(q[e + 1], k)} :
          beat = Seen(s_axis) /\ beat.keep = Keep(q[e + 1]) /\ beat.last = (k = b)
    BY <2>4, <2>6, <2>7
  <2>9. beat.keep = s_axis.tkeep /\ beat.last = s_axis.tlast
    BY <2>8 DEF Seen
  <2> QED
    BY <2>8, <2>9
<1>12. ~DP!wr_full /\ ~Dut!D!wr_full
  <2>1. Ins \in Nat /\ Ins < DEPTH
    BY <1>3, <1>4
  <2> QED
    BY <1>1, <2>1, NotFull, SameData
<1>13. ~Dut!FrameIsBad(Takes("s"))
  <2>1. ~(frame_beat_cnt >= DEPTH)
    BY <1>4, <1>9, <1>10
  <2> QED
    BY <1>5, <1>12, <2>1 DEF Dut!FrameIsBad
<1>14. Ins' = n + 1 /\ Whole' = q /\ Fit' = F /\ All' = A
  <2>1. UNCHANGED <<plan, FRAME_FIFO>>
    BY DEF Eval, fixed
  <2>2. Len(accepted') = n + 1
    BY <1>1, <1>3, AcceptedMoves DEF Ins, One
  <2> QED
    BY <1>2, <1>3, <2>1, <2>2, WholeKept DEF Ins
<1>15. CASE k = b
  <2>1. frame_beat_cnt' = 0 /\ ~frame_overflow'
    BY <1>1, <1>11, <1>15, FrameCounts
  <2>2. n + 1 = Start(q, e + 1) /\ n + 1 <= F
    BY <1>3, <1>8, <1>9, <1>15
  <2>3. e + 1 < G => n + 1 < Start(q, (e + 1) + 1)
    <3> SUFFICES ASSUME e + 1 < G PROVE n + 1 < Start(q, (e + 1) + 1)
      OBVIOUS
    <3>1. e + 1 \in 0 .. Len(q) - 1 /\ (e + 1) + 1 \in 1 .. Len(q)
      BY <1>3, <1>5
    <3>2. PICK x \in Nat \ {0} : x = Beats(q[(e + 1) + 1])
      BY <1>2, <3>1
    <3>3. Start(q, (e + 1) + 1) = Start(q, e + 1) + Beats(q[(e + 1) + 1])
      BY <3>1, StartStep
    <3> QED
      BY <1>3, <2>2, <3>2, <3>3
  <2>4. e + 1 \in 0 .. G /\ 0 = (n + 1) - Start(q, e + 1) /\ Start(q, e + 1) <= n + 1
    BY <1>3, <1>5, <1>7, <2>2
  <2>5. Writing(e + 1)'
    <3>1. Start(Whole, e + 1)' = Start(q, e + 1) /\ Start(Whole, (e + 1) + 1)' = Start(q, (e + 1) + 1)
      BY <1>14 DEF Start
    <3>2. ~(n + 1 > F)
      BY <1>3
    <3> QED
      BY <1>3, <1>14, <2>1, <2>3, <2>4, <3>1, <3>2 DEF Writing
  <2>6. Wrote(e, e + 1)
    <3>1. e + 1 \in {e, e + 1} /\ ~(e + 1 = e)
      BY <1>5
    <3> QED
      BY <1>2, <1>3, <1>11, <1>13, <1>15, <3>1 DEF Wrote
  <2> QED
    BY <2>5, <2>6
<1>16. CASE k # b
  <2>1. frame_beat_cnt' = k /\ ~frame_overflow'
    BY <1>1, <1>5, <1>9, <1>10, <1>11, <1>12, <1>16, FrameCounts
  <2>2. /\ s <= n + 1 /\ n + 1 < s + b /\ k = (n + 1) - s
    <3>1. n + 1 = s + k /\ k # b /\ 1 <= k /\ k <= b /\ k \in Int
      BY <1>9, <1>16
    <3> QED
      BY <3>1
  <2>3. Writing(e)'
    <3>1. Start(Whole, e)' = s /\ Start(Whole, e + 1)' = s + b
      BY <1>8, <1>14 DEF Start
    <3>2. ~(n + 1 > F)
      BY <1>3
    <3> QED
      BY <1>3, <1>5, <1>14, <2>1, <2>2, <3>1, <3>2 DEF Writing
  <2>4. Wrote(e, e)
    <3>1. e \in {e, e + 1} /\ ~(e = e + 1)
      BY <1>5
    <3> QED
      BY <1>11, <1>16, <3>1 DEF Wrote
  <2> QED
    BY <2>3, <2>4
<1> QED
  BY <1>15, <1>16

LEMMA WritesPast ==
  ASSUME FlowBase, FRAME_FIFO, ~rst, Eval, Takes("s"),
         NEW e, Writing(e), ~(Ins < Fit), NEW c \in 0 .. Fit, Stored(c)
  PROVE  Wrote(e, e) /\ Writing(e)'
<1>1. /\ DutInv /\ MasterTypes /\ SendInv /\ Handled /\ WordInv /\ FRAME_FIFO \in BOOLEAN
      /\ plan \in Seq(Sendable)
  BY DEF FlowBase, MasterTypes, DutInv, TypeInv
<1>2. Whole \in Seq(Sendable)
  BY <1>1, WholeType
<1>3. PICK n \in Nat, F \in Nat, A \in Nat, G \in Nat, D \in Nat :
        /\ n = Ins /\ F = Fit /\ A = All /\ G = Len(Whole) /\ D = DEPTH
        /\ F <= n /\ n < A /\ A - F > D
  <2>1. Ins \in Nat /\ All \in Nat /\ Ins < All /\ Fit \in Nat /\ (All = Fit \/ All - Fit > DEPTH)
    BY <1>1, BeatOffered, FrameShape
  <2>2. DEPTH \in Nat /\ Len(Whole) \in Nat
    BY <1>2, AxisBenchAssumption
  <2>3. Fit <= Ins /\ All - Fit > DEPTH
    BY <2>1
  <2> QED
    BY <2>1, <2>2, <2>3
<1>4. e \in 0 .. G /\ e = G /\ (frame_overflow \/ frame_beat_cnt = n - F) /\ (n = F => ~frame_overflow)
  <2>1. CASE n = F
    <3>1. /\ e \in 0 .. G /\ Start(Whole, e) <= n /\ (e < G => n < Start(Whole, e + 1))
          /\ frame_beat_cnt = n - Start(Whole, e) /\ ~frame_overflow
      BY <1>3, <2>1 DEF Writing
    <3>2. Start(Whole, G) = F
      BY <1>2, <1>3, Starts0 DEF Fit
    <3>3. e = G
      <4> SUFFICES ASSUME e < G PROVE FALSE
        BY <1>3, <3>1
      <4>1. e + 1 \in 0 .. Len(Whole) /\ Len(Whole) \in e + 1 .. Len(Whole)
        BY <1>3, <3>1
      <4>2. Start(Whole, e + 1) <= Start(Whole, Len(Whole)) /\ Start(Whole, e + 1) \in Nat
        BY <1>2, <4>1, StartGrows, StartNat
      <4> QED
        BY <1>3, <2>1, <3>1, <3>2, <4>2
    <3> QED
      BY <3>1, <3>2, <3>3
  <2>2. CASE n # F
    <3>1. n > F /\ n < A
      BY <1>3, <2>2
    <3> QED
      BY <1>3, <2>2, <3>1 DEF Writing
  <2> QED
    BY <2>1, <2>2
<1>5. s_axis.tlast <=> n + 1 = A
  <2>1. n + 1 \in F + 1 .. A
    BY <1>3
  <2>2. Packed(plan)[n + 1].last <=> n + 1 = A
    BY <1>1, <1>3, <2>1, FrameShape
  <2>3. Seen(s_axis) = Packed(plan)[n + 1]
    BY <1>3, BeatOffered
  <2>4. Seen(s_axis).last = s_axis.tlast
    BY DEF Seen
  <2> QED
    BY <2>2, <2>3, <2>4
<1>6. Ins' = n + 1 /\ Whole' = Whole /\ Fit' = F /\ All' = A
  <2>1. UNCHANGED <<plan, FRAME_FIFO>>
    BY DEF Eval, fixed
  <2>2. Len(accepted') = n + 1
    BY <1>1, <1>3, AcceptedMoves DEF Ins, One
  <2> QED
    BY <1>3, <2>1, <2>2, WholeKept DEF Ins
<1>7. CASE n + 1 = A
  <2>1. Dut!FrameIsBad(Takes("s"))
    <3>1. frame_beat_cnt = n - F => frame_beat_cnt >= DEPTH
      BY <1>3, <1>7
    <3> QED
      BY <1>4, <3>1 DEF Dut!FrameIsBad
  <2>2. Wrote(e, e)
    <3>1. e \in {e, e + 1} /\ ~(e = e + 1) /\ n + 1 > F
      BY <1>3, <1>4
    <3> QED
      BY <1>3, <1>7, <2>1, <3>1 DEF Wrote
  <2>3. Writing(e)'
    <3>1. n + 1 > F /\ ~(n + 1 <= F) /\ ~(n + 1 < A)
      BY <1>3, <1>7
    <3> QED
      BY <1>3, <1>4, <1>6, <3>1 DEF Writing
  <2> QED
    BY <2>2, <2>3
<1>8. CASE n + 1 # A
  <2>1. /\ frame_beat_cnt' = DP!Inc(frame_beat_cnt)
        /\ frame_overflow' <=> frame_overflow \/ DP!wr_full
    BY <1>1, <1>5, <1>8, FrameCounts
  <2>2. frame_overflow' \/ frame_beat_cnt' = (n + 1) - F
    <3> SUFFICES ASSUME ~frame_overflow' PROVE frame_beat_cnt' = (n + 1) - F
      OBVIOUS
    <3>1. ~frame_overflow /\ ~DP!wr_full /\ frame_beat_cnt = n - F
      BY <1>4, <2>1
    <3>2. Len(DQ) = n - c
      BY <1>3, <3>1 DEF Stored, AllStored
    <3>3. Len(DQ) < DEPTH
      BY <1>1, <3>1, DataQueue
    <3>4. n - F \in Nat /\ (n - F) + 1 < 2 * DEPTH /\ (n - F) + 1 = (n + 1) - F
      <4>1. n - c < D /\ c \in 0 .. F
        BY <1>3, <3>2, <3>3
      <4> QED
        BY <1>3, <4>1
    <3>5. DP!Inc(n - F) = (n - F) + 1
      BY <3>4, IncIs
    <3> QED
      BY <2>1, <3>1, <3>4, <3>5
  <2>3. Wrote(e, e)
    <3>1. e \in {e, e + 1} /\ ~(e = e + 1)
      BY <1>3, <1>4
    <3> QED
      BY <1>5, <1>8, <3>1 DEF Wrote
  <2>4. Writing(e)'
    <3>1. n + 1 > F /\ ~(n + 1 <= F)
      BY <1>3
    <3> QED
      BY <1>3, <1>4, <1>6, <2>2, <3>1 DEF Writing
  <2> QED
    BY <2>3, <2>4
<1> QED
  BY <1>7, <1>8

LEMMA WriterGoesOn ==
  ASSUME FlowBase, FRAME_FIFO, ~rst, Eval, SeenLevels,
         NEW e, Writing(e), NEW c \in 0 .. Fit, Stored(c)
  PROVE  \E i \in {e, e + 1} : Wrote(e, i) /\ Writing(i)'
<1>1. CASE Takes("s") /\ Ins < Fit
  BY <1>1, WritesFrame
<1>2. CASE Takes("s") /\ ~(Ins < Fit)
  BY <1>2, WritesPast
<1>3. CASE ~Takes("s")
  <2>1. /\ DutInv /\ MasterTypes /\ SendInv
    BY DEF FlowBase
  <2>2. frame_beat_cnt' = frame_beat_cnt /\ (frame_overflow' <=> frame_overflow)
    BY <1>3, <2>1, FrameCounts
  <2>3. Ins' = Ins /\ Whole' = Whole /\ Fit' = Fit /\ All' = All
    <3>1. UNCHANGED <<plan, FRAME_FIFO>> /\ accepted' = accepted
      BY <1>3 DEF Eval, fixed
    <3> QED
      BY <3>1, WholeKept DEF Ins
  <2>4. Writing(e)'
    BY <2>2, <2>3 DEF Writing, Start
  <2>5. Wrote(e, e)
    <3>1. e \in {e, e + 1} /\ ~(e = e + 1)
      BY DEF Writing
    <3> QED
      BY <1>3, <3>1 DEF Wrote
  <2> QED
    BY <2>4, <2>5
<1> QED
  BY <1>1, <1>2, <1>3

\* As long as nothing has been dropped, both FIFOs take what is taken.
LEMMA StoredBefore ==
  ASSUME FlowBase, FRAME_FIFO, ~rst, Eval, SeenLevels, AllStored'
  PROVE  AllStored /\ (Takes("s") => DataPush)
<1>1. /\ DutInv /\ MasterTypes /\ SendInv /\ Handled
      /\ plan \in Seq(Sendable)
  BY DEF FlowBase, MasterTypes
<1>2. UNCHANGED <<plan, FRAME_FIFO>>
  BY DEF Eval, fixed
<1>3. CASE ~Takes("s")
  <2>1. Ins' = Ins /\ (frame_overflow' <=> frame_overflow)
    BY <1>1, <1>3, FrameCounts DEF Eval, Ins
  <2> QED
    BY <1>2, <1>3, <2>1, WholeKept DEF AllStored
<1>4. CASE Takes("s")
  <2>1. PICK n \in Nat, F \in Nat, A \in Nat :
          n = Ins /\ F = Fit /\ A = All /\ n < A /\ F <= DEPTH
    BY <1>1, <1>4, BeatOffered, FrameShape
  <2>2. Ins' = n + 1 /\ Fit' = F /\ All' = A
    <3>1. Len(accepted') = n + 1
      BY <1>1, <1>4, <2>1, AcceptedMoves DEF Ins, One
    <3> QED
      BY <1>2, <2>1, <3>1, WholeKept DEF Ins
  <2>3. DEPTH \in Nat
    BY AxisBenchAssumption
  <2>4. CASE n < F
    <3>1. ~DP!wr_full
      <4>1. Ins \in Nat /\ Ins < DEPTH
        BY <2>1, <2>3, <2>4
      <4> QED
        BY <1>1, <4>1, NotFull
    <3>2. n <= F
      BY <2>4
    <3> QED
      BY <1>4, <2>1, <3>1, <3>2 DEF AllStored, DataPush
  <2>5. CASE ~(n < F)
    <3>1. n + 1 < A /\ ~frame_overflow'
      BY <2>1, <2>2, <2>5 DEF AllStored
    <3>2. ~s_axis.tlast
      <4>1. n + 1 \in F + 1 .. A /\ n + 1 # A
        BY <2>1, <2>5, <3>1
      <4>2. Packed(plan)[n + 1].last <=> n + 1 = A
        BY <1>1, <2>1, <4>1, FrameShape
      <4>3. Seen(s_axis) = Packed(plan)[n + 1]
        BY <1>4, <2>1, BeatOffered
      <4>4. Seen(s_axis).last = s_axis.tlast
        BY DEF Seen
      <4> QED
        BY <4>1, <4>2, <4>3, <4>4
    <3>3. ~frame_overflow /\ ~DP!wr_full
      BY <1>1, <1>4, <3>1, <3>2, FrameCounts
    <3> QED
      BY <1>4, <2>1, <3>3 DEF AllStored, DataPush
  <2> QED
    BY <2>4, <2>5
<1> QED
  BY <1>3, <1>4

\* What the auxiliary FIFO holds of each frame, and of the beats taken those
\* that belong to frames that fit.
KeepLog == [j \in 1 .. Len(Whole) |-> [tkeep |-> Keep(Whole[j]), bad |-> FALSE]]
Kept == IF Ins <= Fit THEN Ins ELSE Fit

\* The frame whose tkeep has been read is the one being forwarded, and is still
\* in the auxiliary FIFO for one edge.
AuxHead(f) == IF state = "FORWARD" /\ ~afifo_rd_en_fsm THEN f + 1 ELSE f
AuxHeld(a, e) ==
  /\ a <= e /\ Tracks(AQ, KeepLog, a, e)
  /\ \A x \in 1 .. Len(AQ) : x > e - a => AQ[x].bad /\ Ins = All /\ Ins > Fit
Reading(f, k, e) ==
  /\ state = "FORWARD" => /\ f + 1 <= e /\ frame_tkeep = Keep(Whole[f + 1])
                          /\ afifo_rd_en_fsm => ~AP!rd_empty
  /\ k > 0 => state = "FORWARD"
  /\ state = "WAIT" => ~afifo_rd_en_fsm
  /\ state = "DISCARD" \/ frame_dfifo_rd_en => f = Len(Whole) /\ Ins = All /\ Ins > Fit

FrameAt(f, k, e) ==
  /\ Reached(f, k) /\ Got(f, k) <= Ins /\ Writing(e) /\ Stored(Got(f, k))
  /\ Tracks(DQ, WordLog, Got(f, k), Kept)
  /\ AuxHeld(AuxHead(f), e) /\ Reading(f, k, e)
FrameFlow ==
  /\ SeenLevels
  /\ \E f \in 0 .. Len(Whole), k \in Nat, e \in 0 .. Len(Whole) : FrameAt(f, k, e)

-----------------------------------------------------------------------------
(* The frame state machine *)

LEMMA FrameIdle ==
  ASSUME FRAME_FIFO, Eval, "m" \notin rising
  PROVE  /\ UNCHANGED <<drd, ard, state, afifo_rd_en_fsm, frame_dfifo_rd_en, frame_tkeep>>
         /\ ~Takes("m") /\ ~DataPop /\ ~AuxPop
BY DEF Eval, Takes, DataPop, AuxPop, DataGo, AuxGo

LEMMA FrameRuns ==
  ASSUME DutInv, FRAME_FIFO, ~rst, Eval, "m" \in rising
  PROVE  /\ state = "WAIT" =>
              /\ IF AP!rd_empty \/ DP!rd_empty
                 THEN state' = "WAIT" /\ ~afifo_rd_en_fsm' /\ frame_tkeep' = frame_tkeep
                 ELSE /\ afifo_rd_en_fsm'
                      /\ ard.data.bad => state' = "DISCARD"
                      /\ ~ard.data.bad => state' = "FORWARD" /\ frame_tkeep' = ard.data.tkeep
              /\ ~frame_dfifo_rd_en'
         /\ state = "FORWARD" =>
              /\ ~afifo_rd_en_fsm' /\ ~frame_dfifo_rd_en' /\ frame_tkeep' = frame_tkeep
              /\ state' = IF Takes("m") /\ Dut!m_tlast THEN "WAIT" ELSE "FORWARD"
         /\ state = "DISCARD" => state' \in {"WAIT", "DISCARD"} /\ ~afifo_rd_en_fsm'
         /\ Takes("m") <=> state = "FORWARD" /\ Dut!m_tvalid /\ m_tready
<1>1. Dut!FrameEdge(rst, m_tready)
  BY DEF Eval, Dut!MEdge
<1>2. (Dut!A!rd_empty <=> AP!rd_empty) /\ (Dut!D!rd_empty <=> DP!rd_empty)
  BY SameData, SameAux
<1>3. Takes("m") <=> state = "FORWARD" /\ Dut!m_tvalid /\ m_tready
  BY DEF Takes, Dut!m_tvalid
<1>4. /\ state' = Dut!nstate(m_tready)
      /\ afifo_rd_en_fsm' <=> state = "WAIT" /\ Dut!FrameReady
      /\ frame_dfifo_rd_en' => state = "DISCARD"
      /\ frame_tkeep' = IF (state = "WAIT" /\ Dut!FrameReady) /\ ~ard.data.bad THEN ard.data.tkeep
                        ELSE frame_tkeep
  BY <1>1 DEF Dut!FrameEdge
<1>5. Dut!FrameReady <=> ~AP!rd_empty /\ ~DP!rd_empty
  BY <1>2 DEF Dut!FrameReady
<1>6. ASSUME state = "WAIT"
      PROVE  Dut!nstate(m_tready) = IF ~Dut!FrameReady THEN "WAIT"
                                    ELSE IF ard.data.bad THEN "DISCARD" ELSE "FORWARD"
  BY <1>6 DEF Dut!nstate
<1>7. ASSUME state = "FORWARD"
      PROVE  Dut!nstate(m_tready) = IF Dut!m_tvalid /\ m_tready /\ Dut!m_tlast
                                    THEN "WAIT" ELSE "FORWARD"
  BY <1>7 DEF Dut!nstate
<1>8. ASSUME state = "DISCARD"
      PROVE  Dut!nstate(m_tready) \in {"WAIT", "DISCARD"}
  BY <1>8 DEF Dut!nstate
<1>9. state = "WAIT" =>
              /\ IF AP!rd_empty \/ DP!rd_empty
                 THEN state' = "WAIT" /\ ~afifo_rd_en_fsm' /\ frame_tkeep' = frame_tkeep
                 ELSE /\ afifo_rd_en_fsm'
                      /\ ard.data.bad => state' = "DISCARD"
                      /\ ~ard.data.bad => state' = "FORWARD" /\ frame_tkeep' = ard.data.tkeep
              /\ ~frame_dfifo_rd_en'
  BY <1>4, <1>5, <1>6
<1>10. state = "FORWARD" =>
              /\ ~afifo_rd_en_fsm' /\ ~frame_dfifo_rd_en' /\ frame_tkeep' = frame_tkeep
              /\ state' = IF Takes("m") /\ Dut!m_tlast THEN "WAIT" ELSE "FORWARD"
  BY <1>3, <1>4, <1>7
<1>11. state = "DISCARD" => state' \in {"WAIT", "DISCARD"} /\ ~afifo_rd_en_fsm'
  BY <1>4, <1>8
<1> QED
  BY <1>3, <1>9, <1>10, <1>11

\* A frame that is wholly in is ahead of the receiver.
LEMMA Ahead ==
  ASSUME FlowBase, FRAME_FIFO, NEW f, NEW k, Position(f, k), NEW e, Writing(e), f + 1 <= e
  PROVE  Got(f, k) < Kept /\ Got(f, k) < Fit /\ Kept <= Ins
<1>1. plan \in Seq(Sendable) /\ SendInv /\ MasterTypes /\ Handled
  BY DEF FlowBase, MasterTypes
<1>2. PICK q \in Seq(Sendable) : q = Whole
  BY <1>1, WholeType
<1>3. f \in 0 .. Len(q) /\ e \in 0 .. Len(q) /\ f < Len(q)
      /\ f + 1 \in 0 .. Len(q) /\ e \in f + 1 .. Len(q)
  BY <1>2 DEF Position, Writing
<1>4. PICK c \in Nat, n \in Nat, F \in Nat, s \in Nat, x \in Nat :
        /\ c = Got(f, k) /\ n = Ins /\ F = Fit /\ s = Start(q, f + 1) /\ x = Start(q, e)
        /\ c <= F /\ s <= x
  <2>1. Got(f, k) \in Nat /\ Fit \in Nat /\ Got(f, k) <= Fit
    BY <1>1, GotBounds
  <2>2. Start(q, f + 1) \in Nat /\ Start(q, e) \in Nat /\ Start(q, f + 1) <= Start(q, e)
    BY <1>3, StartNat, StartGrows
  <2>3. Ins \in Nat
    BY <1>1, Within DEF TakenWithin
  <2> QED
    BY <2>1, <2>2, <2>3
<1>5. c < F
  <2>1. CASE k = 0
    <3>1. c = Start(q, f) /\ Start(q, f + 1) = Start(q, f) + Beats(q[f + 1]) /\ Beats(q[f + 1]) \in Nat \ {0}
      <4>1. f \in 0 .. Len(q) - 1 /\ f + 1 \in 1 .. Len(q)
        BY <1>3
      <4> QED
        BY <1>1, <1>2, <1>4, <2>1, <4>1, GotBounds, StartStep, WholeType
    <3>2. Start(q, f + 1) <= F
      <4>1. f + 1 \in 0 .. Len(q) /\ Len(q) \in f + 1 .. Len(q)
        BY <1>3
      <4>2. Start(q, f + 1) <= Start(q, Len(q))
        BY <4>1, StartGrows
      <4> QED
        BY <1>2, <1>4, <4>2, Starts0 DEF Fit
    <3> QED
      BY <1>4, <3>1, <3>2
  <2>2. CASE k # 0
    <3>1. k > 0
      BY <2>2 DEF Position
    <3> QED
      BY <1>1, <1>4, <3>1, GotBounds
  <2> QED
    BY <2>1, <2>2
<1>6. c < s
  BY <1>1, <1>2, <1>4, <1>5, GotBounds
<1>7. CASE n <= F
  <2>1. x <= n /\ Kept = n
    BY <1>2, <1>4, <1>7 DEF Writing, Kept
  <2> QED
    BY <1>4, <1>5, <1>6, <2>1
<1>8. CASE n > F
  <2>1. Kept = F
    BY <1>4, <1>8 DEF Kept
  <2> QED
    BY <1>4, <1>5, <1>8, <2>1
<1> QED
  BY <1>4, <1>7, <1>8

LEMMA AllTaken ==
  ASSUME FlowBase, Eval
  PROVE  /\ UNCHANGED <<plan, FRAME_FIFO>> /\ Whole' = Whole /\ Fit' = Fit /\ All' = All
         /\ Ins = All => ~Takes("s") /\ Ins' = Ins
<1>1. UNCHANGED <<plan, FRAME_FIFO>>
  BY DEF Eval, fixed
<1>2. ASSUME Ins = All PROVE ~Takes("s")
  <2>1. ASSUME Takes("s") PROVE FALSE
    <3>1. Ins \in Nat /\ All \in Nat /\ Ins < All
      BY <2>1, BeatOffered
    <3> QED
      BY <1>2, <3>1
  <2> QED
    BY <2>1
<1>3. ~Takes("s") => Ins' = Ins
  BY DEF Eval, Ins
<1> QED
  BY <1>1, <1>2, <1>3, WholeKept

\* The edge moves the receiver from (f, k) to (g, j): either both queues give
\* what they are asked for, or what they hold is being thrown away.
Onward(f, e, g) ==
  \/ /\ DataPop = Takes("m")
     /\ AuxHead(g)' = AuxHead(f) + One(AuxPop) /\ AuxHead(g)' <= e
  \/ /\ ~Takes("m") /\ f = e /\ e = Len(Whole) /\ Ins = All /\ Ins > Fit
     /\ AuxHead(f) = e /\ AuxHead(g)' = e
Reads(f, k, e, g, j) ==
  /\ Reached(g, j)' /\ Got(g, j)' = Got(f, k) + One(Takes("m"))
  /\ Takes("m") => Got(f, k) < Kept
  /\ Reading(g, j, e)' /\ Onward(f, e, g)

LEMMA StaysThere ==
  ASSUME FlowBase, Eval, ~Takes("m"), NEW f, NEW k, Reached(f, k)
  PROVE  Reached(f, k)' /\ Got(f, k)' = Got(f, k) + One(Takes("m"))
<1>1. Reached(f, k)' /\ Got(f, k)' = Got(f, k)
  BY ReceiverMoves
<1>2. Got(f, k) \in Nat
  BY GotBounds DEF FlowBase, MasterTypes, Reached
<1> QED
  BY <1>1, <1>2 DEF One

LEMMA ReadsIdle ==
  ASSUME FlowBase, FRAME_FIFO, Eval, "m" \notin rising,
         NEW f, NEW k, NEW e, Reached(f, k), AuxHeld(AuxHead(f), e), Reading(f, k, e),
         Writing(e)
  PROVE  Reads(f, k, e, f, k)
<1>1. /\ UNCHANGED <<drd, ard, state, afifo_rd_en_fsm, frame_dfifo_rd_en, frame_tkeep>>
      /\ ~Takes("m") /\ ~DataPop /\ ~AuxPop
  BY FrameIdle
<1>2. Reached(f, k)' /\ Got(f, k)' = Got(f, k) + One(Takes("m"))
  BY <1>1, StaysThere
<1>3. AP!rd_empty' <=> AP!rd_empty
  BY <1>1 DEF AP!rd_empty, AP!wr_ptr_bin
<1>4. Whole' = Whole /\ (Ins = All /\ Ins > Fit => Ins' = All' /\ Ins' > Fit')
  BY AllTaken
<1>5. Reading(f, k, e)'
  BY <1>1, <1>3, <1>4 DEF Reading, Keep
<1>6. Onward(f, e, f)
  <2>1. AuxHead(f)' = AuxHead(f) /\ AuxHead(f) <= e
    BY <1>1 DEF AuxHead, AuxHeld
  <2>2. AuxHead(f) \in Nat
    BY DEF AuxHead, Reached, Position
  <2>3. One(AuxPop) = 0 /\ DataPop = Takes("m")
    BY <1>1 DEF One, DataPop, Takes
  <2> QED
    BY <2>1, <2>2, <2>3 DEF Onward
<1> QED
  BY <1>1, <1>2, <1>5, <1>6 DEF Reads

LEMMA ReadsForward ==
  ASSUME FlowBase, FRAME_FIFO, ~rst, Eval, "m" \in rising, state = "FORWARD",
         NEW f, NEW k, NEW e, Reached(f, k), Tracks(DQ, WordLog, Got(f, k), Kept),
         AuxHeld(AuxHead(f), e), Reading(f, k, e), Writing(e)
  PROVE  \E g, j : Reads(f, k, e, g, j)
<1>1. /\ DutInv /\ MasterTypes /\ SendInv /\ WordInv /\ Registered /\ Handled
      /\ plan \in Seq(Sendable)
  BY DEF FlowBase, MasterTypes, TypeInv
<1>2. /\ ~afifo_rd_en_fsm' /\ ~frame_dfifo_rd_en' /\ frame_tkeep' = frame_tkeep
      /\ state' = IF Takes("m") /\ Dut!m_tlast THEN "WAIT" ELSE "FORWARD"
  BY <1>1, FrameRuns
<1>3. /\ f \in Nat /\ e \in Nat /\ f + 1 <= e /\ frame_tkeep = Keep(Whole[f + 1])
      /\ afifo_rd_en_fsm => ~AP!rd_empty
  BY DEF Reading, Reached, Position, Writing
<1>4. Position(f, k) /\ Got(f, k) < Kept /\ Got(f, k) < Fit /\ Kept <= Ins
  BY <1>3, Ahead DEF Reached
<1>5. PICK c \in Nat, m \in Nat, F \in Nat, n \in Nat :
        c = Got(f, k) /\ m = Kept /\ F = Fit /\ n = Ins /\ c < m /\ c < F /\ m <= n
  <2>1. Ins \in Nat /\ Fit \in Nat /\ Got(f, k) \in Nat
    BY <1>1, <1>4, Within, GotBounds DEF TakenWithin
  <2>2. Kept \in Nat
    BY <2>1 DEF Kept
  <2> QED
    BY <1>4, <2>1, <2>2
<1>6. /\ DataPop = Takes("m") /\ (AuxPop <=> afifo_rd_en_fsm)
  <2>1. Takes("m") <=> Dut!m_tvalid /\ m_tready
    BY <1>1, FrameRuns
  <2>2. DataGo <=> Takes("m")
    BY <2>1 DEF DataGo
  <2>3. Takes("m") => ~DP!rd_empty
    BY <2>1, SameData DEF Dut!m_tvalid
  <2>4. DataPop \in BOOLEAN /\ Takes("m") \in BOOLEAN
    BY DEF DataPop, Takes
  <2>5. DataPop = Takes("m")
    BY <2>2, <2>3, <2>4 DEF DataPop
  <2> QED
    BY <1>3, <2>5 DEF AuxPop, AuxGo
<1>7. AuxHead(f) + One(AuxPop) = f + 1
  BY <1>3, <1>6 DEF AuxHead, One
<1>8. ASSUME Takes("m")
      PROVE  /\ Dut!m_tdata = accepted[c + 1].tdata /\ Dut!m_tlast = accepted[c + 1].tlast
             /\ Dut!m_tkeep = BeatOf(Whole[f + 1], k + 1).keep
  <2>1. ~DP!rd_empty
    BY <1>8, SameData DEF Takes, Dut!m_tvalid
  <2>2. drd.data = DQ[1]
    BY <1>1, <2>1, DataQueue
  <2>3. DQ[1] = WordLog[c + 1]
    <3>1. 1 \in 1 .. m - c
      BY <1>5
    <3> QED
      BY <1>5, <3>1 DEF Tracks
  <2>4. WordLog[c + 1] = Word(accepted[c + 1])
    <3>1. c + 1 \in DOMAIN accepted
      <4>1. c + 1 \in 1 .. Len(accepted) /\ accepted \in Seq(Wires)
        BY <1>1, <1>5 DEF Ins, SendInv
      <4> QED
        BY <4>1
    <3> QED
      BY <3>1 DEF WordLog
  <2>5. BeatOf(Whole[f + 1], k + 1).keep = Keep(Whole[f + 1])
    <3>1. f \in 0 .. Len(Whole) - 1 /\ k + 1 \in 1 .. Beats(Whole[f + 1])
      BY <1>1, <1>4, GotBounds
    <3>2. f + 1 \in 1 .. Len(Whole) /\ Whole \in Seq(Sendable)
      BY <1>1, <3>1, WholeType
    <3>3. Whole[f + 1] \in Sendable /\ Aligned(Whole[f + 1])
      BY <1>1, <3>2, WholeAligned
    <3> QED
      BY <3>1, <3>3, KeepIs
  <2> QED
    BY <1>3, <2>2, <2>3, <2>4, <2>5 DEF Word, Dut!m_tdata, Dut!m_tlast, Dut!m_tkeep
<1>9. /\ ~Takes("m") => Reached(f, k)' /\ Got(f, k)' = c
      /\ Takes("m") /\ Dut!m_tlast => Reached(f + 1, 0)' /\ Got(f + 1, 0)' = c + 1
      /\ Takes("m") /\ ~Dut!m_tlast => Reached(f, k + 1)' /\ Got(f, k + 1)' = c + 1
  <2>1. Takes("m") =>
           /\ Got(f, k) < Len(accepted) /\ Got(f, k) < Fit
           /\ Dut!m_tdata = accepted[Got(f, k) + 1].tdata
           /\ Dut!m_tlast = accepted[Got(f, k) + 1].tlast
           /\ Dut!m_tkeep = BeatOf(Whole[f + 1], k + 1).keep
    BY <1>5, <1>8 DEF Ins
  <2> QED
    BY <1>5, <2>1, ReceiverMoves
<1>10. Whole' = Whole /\ frame_tkeep' = Keep(Whole[f + 1])'
  BY <1>2, <1>3, AllTaken DEF Keep
<1>11. Got(f, k) + One(Takes("m")) = IF Takes("m") THEN c + 1 ELSE c
  BY <1>5 DEF One
<1>12. CASE Takes("m") /\ Dut!m_tlast
  <2>1. state' = "WAIT" /\ AuxHead(f + 1)' = f + 1
    BY <1>2, <1>12 DEF AuxHead
  <2>2. Reading(f + 1, 0, e)'
    BY <1>2, <2>1 DEF Reading
  <2>3. Onward(f, e, f + 1)
    BY <1>3, <1>6, <1>7, <2>1 DEF Onward
  <2>4. Reads(f, k, e, f + 1, 0)
    BY <1>4, <1>9, <1>11, <1>12, <2>2, <2>3 DEF Reads
  <2> QED
    BY <2>4
<1>13. ASSUME ~(Takes("m") /\ Dut!m_tlast), NEW j
       PROVE  Reading(f, j, e)' /\ Onward(f, e, f)
  <2>1. state' = "FORWARD" /\ AuxHead(f)' = f + 1
    BY <1>2, <1>13 DEF AuxHead
  <2>2. Reading(f, j, e)'
    BY <1>2, <1>3, <1>10, <2>1 DEF Reading
  <2>3. Onward(f, e, f)
    BY <1>3, <1>6, <1>7, <2>1 DEF Onward
  <2> QED
    BY <2>2, <2>3
<1>14. CASE Takes("m") /\ ~Dut!m_tlast
  <2>1. Reads(f, k, e, f, k + 1)
    BY <1>4, <1>9, <1>11, <1>13, <1>14 DEF Reads
  <2> QED
    BY <2>1
<1>15. CASE ~Takes("m")
  <2>1. Reads(f, k, e, f, k)
    BY <1>4, <1>9, <1>11, <1>13, <1>15 DEF Reads
  <2> QED
    BY <2>1
<1> QED
  BY <1>12, <1>14, <1>15

LEMMA ReadsWait ==
  ASSUME FlowBase, FRAME_FIFO, ~rst, Eval, "m" \in rising, state = "WAIT",
         NEW f, NEW k, NEW e, Reached(f, k),
         AuxHeld(AuxHead(f), e), Reading(f, k, e), Writing(e)
  PROVE  Reads(f, k, e, f, k)
<1>1. /\ DutInv /\ WordInv /\ Registered /\ MasterTypes
  BY DEF FlowBase, TypeInv
<1>2. /\ IF AP!rd_empty \/ DP!rd_empty
         THEN state' = "WAIT" /\ ~afifo_rd_en_fsm' /\ frame_tkeep' = frame_tkeep
         ELSE /\ afifo_rd_en_fsm'
              /\ ard.data.bad => state' = "DISCARD"
              /\ ~ard.data.bad => state' = "FORWARD" /\ frame_tkeep' = ard.data.tkeep
      /\ ~frame_dfifo_rd_en'
      /\ ~Takes("m")
  BY <1>1, FrameRuns
<1>3. /\ f \in 0 .. Len(Whole) /\ e \in 0 .. Len(Whole) /\ Len(Whole) \in Nat /\ ~(k > 0)
      /\ ~afifo_rd_en_fsm
      /\ frame_dfifo_rd_en => f = Len(Whole) /\ Ins = All /\ Ins > Fit
  <2>1. Whole \in Seq(Sendable)
    BY <1>1, WholeType DEF MasterTypes
  <2> QED
    BY <2>1 DEF Reading, Reached, Position, Writing
<1>4. /\ f <= e /\ Len(AQ) \in Nat /\ e - f <= Len(AQ)
      /\ \A x \in 1 .. e - f : AQ[x] = KeepLog[f + x]
      /\ \A x \in 1 .. Len(AQ) : x > e - f => AQ[x].bad /\ Ins = All /\ Ins > Fit
  <2>1. AuxHead(f) = f
    BY DEF AuxHead
  <2> QED
    BY <1>1, <2>1, AuxQueue DEF AuxHeld, Tracks
<1>5. ~AuxPop /\ ~AuxGo /\ (DataPop => frame_dfifo_rd_en)
  BY <1>3 DEF AuxPop, AuxGo, DataPop, DataGo
<1>6. Reached(f, k)' /\ Got(f, k)' = Got(f, k) + One(Takes("m"))
  BY <1>2, StaysThere
<1>7. Whole' = Whole /\ (Ins = All /\ Ins > Fit => Ins' = All' /\ Ins' > Fit')
  BY AllTaken
<1>8. AuxHead(f)' = f
  BY <1>2 DEF AuxHead
<1>9. Ins = All /\ Ins > Fit => e = Len(Whole)
  BY DEF Writing
<1>10. ~DataPop => DataPop = Takes("m")
  BY <1>2 DEF DataPop, Takes
<1>11. AuxHead(f) = f /\ One(AuxPop) = 0
  BY <1>5 DEF AuxHead, One
<1>12. frame_dfifo_rd_en => f = e
  BY <1>3, <1>4, <1>9
<1>13. Onward(f, e, f)
  <2>1. CASE frame_dfifo_rd_en
    BY <1>2, <1>3, <1>8, <1>9, <1>11, <1>12, <2>1 DEF Onward
  <2>2. CASE ~frame_dfifo_rd_en
    <3>1. DataPop = Takes("m")
      BY <1>5, <1>10, <2>2
    <3>2. f = f + 0
      BY <1>3
    <3> QED
      BY <1>4, <1>8, <1>11, <3>1, <3>2 DEF Onward
  <2> QED
    BY <2>1, <2>2
<1>14. CASE AP!rd_empty \/ DP!rd_empty
  <2>1. Reading(f, k, e)'
    BY <1>2, <1>3, <1>14 DEF Reading
  <2> QED
    BY <1>2, <1>6, <1>13, <2>1 DEF Reads
<1>15. CASE ~(AP!rd_empty \/ DP!rd_empty)
  <2>1. AQ # <<>> /\ ard.data = AQ[1] /\ AQ \in Seq(AuxWords)
    BY <1>1, <1>15, AuxQueue
  <2>2. 1 \in 1 .. Len(AQ)
    BY <2>1
  <2>3. CASE f + 1 <= e
    <3>1. 1 \in 1 .. e - f
      BY <1>3, <2>3
    <3>2. AQ[1] = KeepLog[f + 1]
      BY <1>4, <3>1
    <3>3. f + 1 \in 1 .. Len(Whole)
      BY <1>3, <2>3
    <3>4. ard.data = [tkeep |-> Keep(Whole[f + 1]), bad |-> FALSE]
      BY <2>1, <3>2, <3>3 DEF KeepLog
    <3>5. state' = "FORWARD" /\ frame_tkeep' = Keep(Whole[f + 1])
      BY <1>2, <1>15, <3>4
    <3>6. ~AP!rd_empty'
      <4>1. AP!RdEdge(FALSE, AuxGo) \/ UNCHANGED ard
        BY <1>1, ReadEdges
      <4>2. CASE UNCHANGED ard
        BY <1>15, <4>2 DEF AP!rd_empty, AP!wr_ptr_bin
      <4>3. CASE AP!RdEdge(FALSE, AuxGo)
        <5>1. AP!FifoInv /\ AP!HeadShown /\ AP!GrayCode
          BY <1>1, Codes DEF DutInv
        <5>2. PICK en \in {AuxGo} : AP!RdEdge(rst, en) /\ ~en
          <6>1. rst = FALSE
            BY <1>1 DEF DutInv
          <6> QED
            BY <1>5, <4>3, <6>1
        <5>3. ~AP!rd_empty /\ ~rst
          BY <1>15
        <5> QED
          BY <5>1, <5>2, <5>3, AP!HeadWaits, AxisBenchAssumption
      <4> QED
        BY <4>1, <4>2, <4>3
    <3>7. frame_tkeep' = Keep(Whole[f + 1])'
      BY <1>7, <3>5 DEF Keep
    <3>8. Reading(f, k, e)'
      BY <1>2, <1>3, <2>3, <3>5, <3>6, <3>7 DEF Reading
    <3> QED
      BY <1>2, <1>6, <1>13, <3>8 DEF Reads
  <2>4. CASE ~(f + 1 <= e)
    <3>1. f = e /\ 1 > e - f
      BY <1>3, <1>4, <2>4
    <3>2. ard.data.bad /\ Ins = All /\ Ins > Fit
      BY <1>4, <2>1, <2>2, <3>1
    <3>3. state' = "DISCARD" /\ f = Len(Whole)
      BY <1>2, <1>9, <1>15, <3>1, <3>2
    <3>4. Reading(f, k, e)'
      BY <1>2, <1>3, <1>7, <3>2, <3>3 DEF Reading
    <3> QED
      BY <1>2, <1>6, <1>13, <3>4 DEF Reads
  <2> QED
    BY <2>3, <2>4
<1> QED
  BY <1>14, <1>15

LEMMA ReadsDiscard ==
  ASSUME FlowBase, FRAME_FIFO, ~rst, Eval, "m" \in rising, state = "DISCARD",
         NEW f, NEW k, NEW e, Reached(f, k),
         AuxHeld(AuxHead(f), e), Reading(f, k, e), Writing(e)
  PROVE  Reads(f, k, e, f, k)
<1>1. DutInv
  BY DEF FlowBase
<1>2. state' \in {"WAIT", "DISCARD"} /\ ~afifo_rd_en_fsm' /\ ~Takes("m")
  BY <1>1, FrameRuns
<1>3. ~(k > 0) /\ f = Len(Whole) /\ Ins = All /\ Ins > Fit /\ e = Len(Whole)
  BY DEF Reading, Writing
<1>4. Whole' = Whole /\ Ins' = All' /\ Ins' > Fit'
  BY <1>3, AllTaken
<1>5. AuxHead(f) = f /\ AuxHead(f)' = f
  BY <1>2 DEF AuxHead
<1>6. Reached(f, k)' /\ Got(f, k)' = Got(f, k) + One(Takes("m"))
  BY <1>2, StaysThere
<1>7. Reading(f, k, e)'
  BY <1>2, <1>3, <1>4 DEF Reading
<1>8. Onward(f, e, f)
  BY <1>2, <1>3, <1>5 DEF Onward
<1> QED
  BY <1>2, <1>6, <1>7, <1>8 DEF Reads

LEMMA ReaderGoesOn ==
  ASSUME FlowBase, FRAME_FIFO, ~rst, Eval,
         NEW f, NEW k, NEW e, Reached(f, k), Tracks(DQ, WordLog, Got(f, k), Kept),
         AuxHeld(AuxHead(f), e), Reading(f, k, e), Writing(e)
  PROVE  \E g, j : Reads(f, k, e, g, j)
<1>1. CASE "m" \notin rising
  <2>1. Reads(f, k, e, f, k)
    BY <1>1, ReadsIdle
  <2> QED
    BY <2>1
<1>2. CASE "m" \in rising
  <2>1. state \in {"WAIT", "FORWARD", "DISCARD"}
    BY DEF FlowBase, TypeInv, CountInv
  <2>2. CASE state = "FORWARD"
    BY <1>2, <2>2, ReadsForward
  <2>3. CASE state # "FORWARD"
    <3>1. Reads(f, k, e, f, k)
      BY <1>2, <2>1, <2>3, ReadsWait, ReadsDiscard
    <3> QED
      BY <3>1
  <2> QED
    BY <2>2, <2>3
<1> QED
  BY <1>1, <1>2

\* How many beats of frames that fit are in, before and after an edge.
LEMMA KeptGrows ==
  ASSUME FlowBase, FRAME_FIFO, Eval
  PROVE  /\ Ins \in Nat /\ Fit \in Nat /\ Kept \in Nat /\ Kept' \in {Kept, Kept + 1}
         /\ Ins' = Ins + One(Takes("s")) /\ Kept <= Ins
         /\ Kept' = Kept + 1 => Takes("s") /\ Ins < Fit /\ Kept = Ins
<1>1. SendInv /\ MasterTypes /\ Handled /\ plan \in Seq(Sendable)
  BY DEF FlowBase, MasterTypes
<1>2. PICK n \in Nat, F \in Nat, u \in 0 .. 1 :
        /\ n = Ins /\ F = Fit /\ u = One(Takes("s")) /\ (Takes("s") <=> u = 1) /\ Ins' = n + u
  BY <1>1, AcceptedMoves, FrameShape DEF Ins, One
<1>3. Fit' = F
  BY <1>2, AllTaken
<1>4. Kept = (IF n <= F THEN n ELSE F) /\ Kept' = (IF n + u <= F THEN n + u ELSE F)
  BY <1>2, <1>3 DEF Kept
<1>5. PICK m \in Nat, mm \in Nat : m = Kept /\ mm = Kept'
  BY <1>2, <1>4
<1>6. m <= n /\ mm \in {m, m + 1} /\ (mm = m + 1 => u = 1 /\ n < F /\ m = n)
  BY <1>2, <1>4, <1>5
<1> QED
  BY <1>2, <1>5, <1>6

LEMMA DataGoesOn ==
  ASSUME FlowBase, FRAME_FIFO, ~rst, Eval, SeenLevels,
         NEW f, NEW k, NEW e, FrameAt(f, k, e), NEW g, NEW j, Reads(f, k, e, g, j)
  PROVE  /\ Got(g, j)' <= Ins' /\ Stored(Got(g, j))'
         /\ Tracks(DQ, WordLog, Got(g, j), Kept)'
<1>1. /\ DutInv /\ MasterTypes /\ SendInv /\ WordInv /\ Registered /\ Handled
      /\ plan \in Seq(Sendable)
  BY DEF FlowBase, MasterTypes, TypeInv
<1>2. Position(f, k)
  BY DEF FrameAt, Reached
<1>3. PICK c \in Nat, n \in Nat, F \in Nat, m \in Nat, mm \in Nat, u \in 0 .. 1, o \in 0 .. 1 :
        /\ c = Got(f, k) /\ n = Ins /\ F = Fit /\ m = Kept /\ mm = Kept'
        /\ u = One(Takes("s")) /\ o = One(Takes("m"))
        /\ (Takes("s") <=> u = 1) /\ (Takes("m") <=> o = 1) /\ m <= n /\ mm \in {m, m + 1}
        /\ mm = m + 1 => u = 1 /\ n < F /\ m = n
  <2>1. Kept' \in Nat /\ Got(f, k) \in Nat
    BY <1>1, <1>2, KeptGrows, GotBounds
  <2> QED
    BY <2>1, KeptGrows, SMTT(40) DEF One
<1>4. PICK d \in Nat : d = Got(g, j)' /\ d = c + o
  BY <1>3 DEF Reads
<1>5. Ins' = n + u /\ c <= n /\ (o = 1 => c < m)
  BY <1>3, KeptGrows DEF FrameAt, Reads
<1>6. d <= n /\ d <= n + u /\ (c <= m => d <= m)
  BY <1>3, <1>4, <1>5
<1>7. PICK q \in Seq(Words), r \in Seq(Words), w \in {Word(s_axis)} :
        q = DQ /\ r = DQ' /\ Moves(q, r, DataPop, DataPush, w)
  BY <1>1, DataQueue, DataMoves
<1>8. PICK L \in Nat, LL \in Nat : L = Len(q) /\ LL = Len(r)
  OBVIOUS
<1>9. Stored(Got(f, k)) /\ Tracks(q, WordLog, c, m)
  BY <1>3, <1>7 DEF FrameAt
<1>10. CASE DataPop = Takes("m")
  <2>1. Stored(Got(g, j))'
    <3> SUFFICES ASSUME AllStored' PROVE Len(DQ') = Ins' - Got(g, j)'
      BY DEF Stored
    <3>1. AllStored /\ (Takes("s") => DataPush)
      BY StoredBefore
    <3>2. L = n - c
      BY <1>3, <1>7, <1>8, <1>9, <3>1 DEF Stored
    <3>3. One(DataPush) = u
      BY <1>3, <3>1 DEF One, DataPush
    <3>4. LL = L - o + u
      BY <1>3, <1>7, <1>8, <1>10, <3>3 DEF Moves
    <3>5. LL = (n + u) - d
      BY <1>4, <3>2, <3>4
    <3> QED
      BY <1>4, <1>5, <1>7, <1>8, <3>5
  <2>2. c <= m
    <3>1. c <= F
      BY <1>1, <1>2, <1>3, GotBounds
    <3>2. m = IF n <= F THEN n ELSE F
      BY <1>3 DEF Kept
    <3> QED
      BY <1>3, <1>5, <3>1, <3>2
  <2>3. mm = m + 1 => DataPush /\ L = m - c /\ WordLog'[m + 1] = w
    <3> SUFFICES ASSUME mm = m + 1 PROVE DataPush /\ L = m - c /\ WordLog'[m + 1] = w
      OBVIOUS
    <3>1. Takes("s") /\ n < F /\ m = n
      BY <1>3
    <3>2. ~DP!wr_full
      <4>1. F <= DEPTH /\ DEPTH \in Nat
        BY <1>1, <1>3, FrameShape, AxisBenchAssumption
      <4>2. Ins \in Nat /\ Ins < DEPTH
        BY <1>3, <3>1, <4>1
      <4> QED
        BY <1>1, <4>2, NotFull
    <3>3. L = n - c
      <4>1. AllStored
        BY <1>3, <3>1 DEF AllStored
      <4> QED
        BY <1>3, <1>7, <1>8, <1>9, <4>1 DEF Stored
    <3>4. WordLog'[n + 1] = w
      BY <1>1, <1>3, <1>7, <3>1, AcceptedMoves DEF Ins
    <3> QED
      BY <3>1, <3>2, <3>3, <3>4 DEF DataPush
  <2>4. PICK pop \in BOOLEAN, push \in BOOLEAN, log \in {WordLog}, later \in {WordLog'} :
          pop = DataPop /\ push = DataPush
    BY DEF DataPop, DataPush
  <2>5. \A i \in 1 .. m : later[i] = log[i]
    <3>1. \A i \in 1 .. n : later[i] = log[i]
      BY <1>1, <1>3, <2>4, AcceptedMoves DEF Ins
    <3>2. \A i \in 1 .. m : i \in 1 .. n
      BY <1>3
    <3> QED
      BY <3>1, <3>2
  <2>6. Follows(q, w, pop, push, c, m, d, mm, log, later)
    <3>1. d = c + One(pop) /\ d <= m /\ mm \in {m, m + 1}
      BY <1>3, <1>4, <1>6, <1>10, <2>2, <2>4
    <3>2. mm = m + 1 => push /\ Len(q) = m - c /\ later[m + 1] = w
      BY <1>8, <2>3, <2>4
    <3> QED
      BY <2>5, <3>1, <3>2 DEF Follows
  <2>7. Tracks(r, later, d, mm)
    <3>1. Len(q) \in Nat /\ Moves(q, r, pop, push, w) /\ Tracks(q, log, c, m)
      BY <1>7, <1>9, <2>4
    <3> QED
      BY <2>6, <3>1, TracksMoves
  <2> QED
    BY <1>3, <1>4, <1>5, <1>6, <1>7, <2>1, <2>4, <2>7
<1>11. CASE /\ ~Takes("m") /\ f = e /\ e = Len(Whole) /\ Ins = All /\ Ins > Fit
  <2>1. k = 0
    BY <1>2, <1>11 DEF Position
  <2>2. c = F
    <3>1. Whole \in Seq(Sendable)
      BY <1>1, WholeType
    <3>2. Start(Whole, f) = Fit
      BY <1>11, <3>1, Starts0 DEF Fit
    <3> QED
      BY <1>1, <1>2, <1>3, <2>1, <3>2, GotBounds
  <2>3. Ins' > Fit' /\ Ins' = All'
    BY <1>11, AllTaken
  <2>4. mm = F /\ d = F
    <3>1. Fit' = F
      BY <1>3, AllTaken
    <3>2. ~(Ins' <= F)
      BY <1>3, <1>5, <2>3, <3>1
    <3>3. mm = F
      BY <1>3, <3>1, <3>2 DEF Kept
    <3>4. o = 0
      BY <1>3, <1>11
    <3> QED
      BY <1>4, <2>2, <3>3, <3>4
  <2>5. Stored(Got(g, j))'
    <3>1. ~(Ins' <= Fit') /\ ~(Ins' < All')
      <4>1. Ins' = n + u /\ Fit' = F
        BY <1>3, <1>5, AllTaken
      <4> QED
        BY <1>3, <2>3, <4>1
    <3> QED
      BY <3>1 DEF Stored, AllStored
  <2>6. Tracks(r, WordLog', d, mm)
    <3>1. mm - d <= LL /\ \A i : ~(i \in 1 .. mm - d)
      BY <1>3, <2>4
    <3> QED
      BY <1>8, <3>1 DEF Tracks
  <2> QED
    BY <1>3, <1>4, <1>5, <1>6, <1>7, <2>5, <2>6
<1> QED
  BY <1>10, <1>11 DEF Reads, Onward

LEMMA AuxGoesOn ==
  ASSUME FlowBase, FRAME_FIFO, ~rst, Eval, SeenLevels,
         NEW f, NEW k, NEW e, FrameAt(f, k, e), NEW g, NEW j, Reads(f, k, e, g, j),
         NEW i, Wrote(e, i), Writing(i)'
  PROVE  AuxHeld(AuxHead(g), i)'
<1>1. /\ DutInv /\ MasterTypes /\ SendInv /\ WordInv /\ Registered /\ Handled
      /\ plan \in Seq(Sendable)
  BY DEF FlowBase, MasterTypes, TypeInv
<1>2. PICK a \in Nat, n \in Nat, F \in Nat, A \in Nat, ee \in Nat, ii \in Nat, G \in Nat :
        /\ a = AuxHead(f) /\ n = Ins /\ F = Fit /\ A = All /\ ee = e /\ ii = i /\ G = Len(Whole)
        /\ ii \in {ee, ee + 1} /\ ee <= G /\ a <= ee
  <2>1. f \in Nat /\ e \in Nat /\ Len(Whole) \in Nat /\ e <= Len(Whole)
    <3>1. Whole \in Seq(Sendable)
      BY <1>1, WholeType
    <3> QED
      BY <3>1 DEF FrameAt, Reached, Position, Writing
  <2>2. AuxHead(f) \in Nat /\ AuxHead(f) <= e
    BY <2>1 DEF AuxHead, FrameAt, AuxHeld
  <2>3. Ins \in Nat /\ Fit \in Nat /\ All \in Nat
    BY <1>1, FrameShape, KeptGrows
  <2>4. i \in {e, e + 1} /\ i \in Nat
    BY <2>1 DEF Wrote
  <2> QED
    BY <2>1, <2>2, <2>3, <2>4
<1>3. PICK q \in Seq(AuxWords), r \in Seq(AuxWords), w \in {Aux(s_axis)},
           pop \in BOOLEAN, push \in BOOLEAN, o \in 0 .. 1, log \in {KeepLog} :
        /\ q = AQ /\ r = AQ' /\ pop = AuxPop /\ push = AuxPush /\ o = One(pop)
        /\ Moves(q, r, pop, push, w)
  <2>1. AuxPop \in BOOLEAN /\ AuxPush \in BOOLEAN
    BY DEF AuxPop, AuxPush
  <2> QED
    BY <1>1, <2>1, AuxQueue, AuxMoves DEF One
<1>4. PICK L \in Nat, LL \in Nat : L = Len(q) /\ LL = Len(r)
  OBVIOUS
<1>5. /\ Tracks(q, log, a, ee)
      /\ \A x \in 1 .. L : x > ee - a => q[x].bad /\ n = A /\ n > F
  BY <1>2, <1>3, <1>4 DEF FrameAt, AuxHeld
<1>6. /\ KeepLog' = log /\ Whole' = Whole
      /\ n = A => ~Takes("s") /\ Ins' = n
      /\ All' = A /\ Fit' = F /\ (Takes("s") => Ins' = n + 1)
  <2>1. Takes("s") => Ins' = n + 1
    BY <1>2, KeptGrows DEF One
  <2> QED
    BY <1>2, <1>3, <2>1, AllTaken DEF KeepLog, Keep
<1>7. push => Takes("s") /\ s_axis.tlast
  BY <1>3 DEF AuxPush
<1>8. ii = ee + 1 => push /\ L = ee - a /\ log[ee + 1] = w /\ n < F
  <2> SUFFICES ASSUME ii = ee + 1 PROVE push /\ L = ee - a /\ log[ee + 1] = w /\ n < F
    OBVIOUS
  <2>1. /\ Takes("s") /\ s_axis.tlast /\ n < F
        /\ s_axis.tkeep = Keep(Whole[ee + 1]) /\ ~Dut!FrameIsBad(Takes("s"))
    BY <1>2 DEF Wrote
  <2>2. push
    <3>1. F <= DEPTH /\ DEPTH \in Nat
      BY <1>1, <1>2, FrameShape, AxisBenchAssumption
    <3>2. Ins \in Nat /\ Ins < DEPTH
      BY <1>2, <2>1, <3>1
    <3> QED
      BY <1>1, <1>3, <2>1, <3>2, NotFull DEF AuxPush
  <2>3. L = ee - a
    <3>1. ee - a <= L
      BY <1>4, <1>5 DEF Tracks
    <3>2. ~(n > F)
      BY <1>2, <2>1
    <3>3. \A x \in 1 .. L : ~(x > ee - a)
      BY <1>5, <3>2
    <3> QED
      BY <1>2, <3>1, <3>3
  <2>4. log[ee + 1] = w
    <3>1. ee + 1 \in 1 .. Len(Whole)
      <4>1. i \in 0 .. Len(Whole')
        BY DEF Writing
      <4> QED
        BY <1>2, <1>6, <4>1
    <3>2. (FRAME_FIFO /\ Dut!FrameIsBad(Takes("s"))) = FALSE
      BY <2>1
    <3>3. w = [tkeep |-> Keep(Whole[ee + 1]), bad |-> FALSE]
      BY <1>3, <2>1, <3>2 DEF Aux
    <3> QED
      BY <1>3, <3>1, <3>3 DEF KeepLog
  <2> QED
    BY <2>1, <2>2, <2>3, <2>4
<1>9. push /\ ii = ee => w.bad /\ Ins' = A /\ Ins' > F
  <2> SUFFICES ASSUME push, ii = ee PROVE w.bad /\ Ins' = A /\ Ins' > F
    OBVIOUS
  <2>1. Dut!FrameIsBad(Takes("s")) /\ n + 1 = A /\ n + 1 > F
    BY <1>2, <1>7 DEF Wrote
  <2>2. w.bad
    <3>1. w = Aux(s_axis) /\ (FRAME_FIFO /\ Dut!FrameIsBad(Takes("s"))) = TRUE
      <4>1. FRAME_FIFO = TRUE /\ Dut!FrameIsBad(Takes("s")) = TRUE
        <5>1. Dut!FrameIsBad(Takes("s")) \in BOOLEAN
          BY DEF Dut!FrameIsBad
        <5> QED
          BY <2>1, <5>1, AxisBenchAssumption
      <4> QED
        BY <1>3, <4>1
    <3> QED
      BY <3>1 DEF Aux
  <2>3. Ins' = n + 1
    BY <1>6, <1>7
  <2> QED
    BY <1>2, <2>1, <2>2, <2>3
<1>10. PICK b \in Nat :
         /\ b = AuxHead(g)'
         /\ \/ b = a + o /\ b <= ee
            \/ b = a /\ a = ee /\ n = A /\ n > F
  <2>1. CASE AuxHead(g)' = AuxHead(f) + One(AuxPop) /\ AuxHead(g)' <= e
    <3>1. a + o \in Nat /\ AuxHead(g)' = a + o /\ a + o <= ee
      BY <1>2, <1>3, <2>1
    <3> QED
      BY <3>1
  <2>2. CASE AuxHead(f) = e /\ AuxHead(g)' = e /\ Ins = All /\ Ins > Fit
    BY <1>2, <2>2
  <2> QED
    BY <2>1, <2>2 DEF Reads, Onward
<1>11. Tracks(r, log, b, ii)
  <2>1. CASE b = a + o /\ b <= ee
    <3>1. Follows(q, w, pop, push, a, ee, b, ii, log, log)
      BY <1>2, <1>3, <1>4, <1>8, <2>1 DEF Follows
    <3> QED
      BY <1>3, <1>5, <3>1, TracksMoves
  <2>2. CASE b = a /\ a = ee /\ n = A /\ n > F
    <3>1. ii = ee
      BY <1>2, <1>8, <2>2
    <3>2. ii - b <= LL /\ \A x : ~(x \in 1 .. ii - b)
      BY <2>2, <3>1
    <3> QED
      BY <1>4, <3>2 DEF Tracks
  <2> QED
    BY <1>10, <2>1, <2>2
<1>12. ASSUME NEW x \in 1 .. LL, x > ii - b
       PROVE  r[x].bad /\ Ins' = A /\ Ins' > F
  <2>1. CASE x + o \in 1 .. L /\ r[x] = q[x + o]
    <3>1. x + o > ee - a
      <4>1. ee <= ii /\ (b = a + o \/ b = a)
        BY <1>2, <1>10
      <4> QED
        BY <1>2, <1>12, <4>1
    <3>2. q[x + o].bad /\ n = A /\ n > F
      BY <1>5, <2>1, <3>1
    <3> QED
      BY <1>6, <2>1, <3>2
  <2>2. CASE push /\ x = L - o + 1 /\ r[x] = w
    <3>1. ii = ee
      <4> SUFFICES ASSUME ii = ee + 1 PROVE FALSE
        BY <1>2
      <4>1. L = ee - a /\ n < F
        BY <1>8
      <4>2. b = a + o
        BY <1>2, <1>10, <4>1
      <4>3. x = ee - a - o + 1 /\ x > ee + 1 - (a + o)
        BY <1>12, <2>2, <4>1, <4>2
      <4> QED
        BY <1>2, <1>3, <4>3, SMTT(40)
    <3> QED
      BY <1>9, <2>2, <3>1
  <2>3. \/ x + o \in 1 .. L /\ r[x] = q[x + o]
        \/ push /\ x = LL /\ x = L - o + 1 /\ r[x] = w
    <3>1. /\ pop \in BOOLEAN /\ push \in BOOLEAN
          /\ Len(q) \in Nat /\ x \in 1 .. Len(r) /\ Moves(q, r, pop, push, w)
      BY <1>3, <1>4
    <3>2. CameFrom(q, r, pop, push, w, x)
      BY <3>1, MovesLast
    <3> QED
      BY <1>3, <1>4, <3>2 DEF CameFrom
  <2> QED
    BY <2>1, <2>2, <2>3
<1>13. b <= ii
  BY <1>2, <1>10
<1>14. AuxHead(g)' = b /\ AQ' = r /\ KeepLog' = log /\ All' = A /\ Fit' = F /\ Len(AQ') = LL
  BY <1>3, <1>4, <1>6, <1>10
<1> QED
  BY <1>2, <1>11, <1>12, <1>13, <1>14 DEF AuxHeld

LEMMA FrameAtStep ==
  ASSUME FlowBase, FRAME_FIFO, ~rst, Eval, SeenLevels,
         NEW f, NEW k, NEW e, FrameAt(f, k, e), NEW g, NEW j, Reads(f, k, e, g, j),
         NEW i, Wrote(e, i), Writing(i)'
  PROVE  FrameAt(g, j, i)'
<1>1. /\ Got(g, j)' <= Ins' /\ Stored(Got(g, j))'
      /\ Tracks(DQ, WordLog, Got(g, j), Kept)'
  BY DataGoesOn
<1>2. AuxHeld(AuxHead(g), i)'
  BY AuxGoesOn
<1>3. Reached(g, j)' /\ Reading(g, j, e)'
  BY DEF Reads
<1>4. Reading(g, j, i)'
  <2>1. g \in Nat
    BY <1>3 DEF Reached, Position
  <2>2. e \in Nat
    BY DEF FrameAt, Writing
  <2>3. i \in {e, e + 1}
    BY DEF Wrote
  <2>4. g + 1 <= e => g + 1 <= i
    BY <2>1, <2>2, <2>3
  <2> QED
    BY <1>3, <2>4 DEF Reading
<1> QED
  BY <1>1, <1>2, <1>3, <1>4 DEF FrameAt

LEMMA FrameStepRuns ==
  ASSUME FlowBase, FRAME_FIFO, ~rst, Eval, FrameFlow
  PROVE  FrameFlow'
<1>1. SeenLevels /\ SeenLevels'
  BY LevelsStep DEF FrameFlow
<1>2. PICK f \in 0 .. Len(Whole), k \in Nat, e \in 0 .. Len(Whole) : FrameAt(f, k, e)
  BY DEF FrameFlow
<1>3. /\ Reached(f, k) /\ Tracks(DQ, WordLog, Got(f, k), Kept) /\ AuxHeld(AuxHead(f), e)
      /\ Reading(f, k, e) /\ Writing(e) /\ Stored(Got(f, k))
  BY <1>2 DEF FrameAt
<1>4. Got(f, k) \in 0 .. Fit
  <2>1. plan \in Seq(Sendable)
    BY DEF FlowBase, MasterTypes
  <2>2. Position(f, k)
    BY <1>3 DEF Reached
  <2> QED
    BY <2>1, <2>2, GotBounds
<1>5. PICK i \in {e, e + 1} : Wrote(e, i) /\ Writing(i)'
  BY <1>1, <1>3, <1>4, WriterGoesOn
<1>6. \E g, j : Reads(f, k, e, g, j)
  BY <1>3, ReaderGoesOn
<1>7. PICK g, j : Reads(f, k, e, g, j)
  BY <1>6
<1>8. FrameAt(g, j, i)'
  BY <1>1, <1>2, <1>5, <1>7, FrameAtStep
<1>9. g \in (0 .. Len(Whole))' /\ j \in Nat /\ i \in (0 .. Len(Whole))'
  BY <1>8 DEF FrameAt, Reached, Position, Writing
<1> QED
  BY <1>1, <1>8, <1>9 DEF FrameFlow

\* Every frame due has a beat, so with no beat in there is no frame in.
LEMMA NoFrameYet ==
  ASSUME plan \in Seq(Sendable), NEW f \in 0 .. Len(Whole), Start(Whole, f) <= 0
  PROVE  f = 0
<1> SUFFICES ASSUME f # 0 PROVE FALSE
  OBVIOUS
<1>1. /\ Whole \in Seq(Sendable) /\ Len(Whole) \in Nat
      /\ \A j \in 1 .. Len(Whole) : Beats(Whole[j]) \in Nat \ {0}
  BY WholeType
<1>2. PICK g \in 0 .. Len(Whole) - 1 : f = g + 1
  <2>1. f - 1 \in 0 .. Len(Whole) - 1 /\ f = (f - 1) + 1
    BY <1>1
  <2> QED
    BY <2>1
<1>3. g \in 0 .. Len(Whole) /\ g + 1 \in 1 .. Len(Whole)
  BY <1>1, <1>2
<1>4. PICK s \in Nat, b \in Nat \ {0} : s = Start(Whole, g) /\ b = Beats(Whole[g + 1])
  BY <1>1, <1>3, StartNat
<1>5. Start(Whole, f) = s + b
  BY <1>1, <1>2, <1>4, StartStep
<1> QED
  BY <1>4, <1>5

\* Nothing is in, and nothing is under way.
Empty ==
  /\ Ins = 0 /\ DQ = <<>> /\ AQ = <<>> /\ Reached(0, 0)
  /\ state = "WAIT" /\ ~afifo_rd_en_fsm /\ ~frame_dfifo_rd_en
  /\ frame_beat_cnt = 0 /\ ~frame_overflow
  /\ DP!wr_level = 0 /\ AP!wr_level = 0

LEMMA EmptyFlow == plan \in Seq(Sendable) /\ Empty => FrameFlow
<1> SUFFICES ASSUME plan \in Seq(Sendable), Empty PROVE FrameFlow
  OBVIOUS
<1>1. /\ Whole \in Seq(Sendable) /\ Len(Whole) \in Nat /\ Fit \in Nat
      /\ \A j \in 1 .. Len(Whole) : Beats(Whole[j]) \in Nat \ {0}
  <2>1. Whole \in Seq(Sendable)
    BY WholeType
  <2> QED
    BY <2>1, WholeType, PackedType DEF Fit
<1>2. Start(Whole, 0) = 0 /\ Got(0, 0) = 0
  BY <1>1, Starts0 DEF Got
<1>3. Writing(0)
  <2>1. ASSUME 0 < Len(Whole) PROVE Start(Whole, 0 + 1) > 0
    <3>1. 0 \in 0 .. Len(Whole) - 1 /\ 0 + 1 \in 1 .. Len(Whole)
      BY <1>1, <2>1
    <3>2. Start(Whole, 0 + 1) = 0 + Beats(Whole[0 + 1])
      BY <1>1, <1>2, <3>1, StartStep
    <3> QED
      BY <1>1, <3>1, <3>2
  <2>2. ~(Ins > Fit)
    BY <1>1 DEF Empty
  <2> QED
    BY <1>1, <1>2, <2>1, <2>2 DEF Writing, Empty
<1>4. Kept = 0
  BY <1>1 DEF Kept, Empty
<1>5. Stored(Got(0, 0)) /\ Tracks(DQ, WordLog, Got(0, 0), Kept)
  BY <1>2, <1>4 DEF Stored, Tracks, Empty
<1>6. AuxHeld(AuxHead(0), 0)
  BY DEF AuxHeld, AuxHead, Tracks, Empty
<1>7. Reading(0, 0, 0)
  BY DEF Reading, Empty
<1>8. FrameAt(0, 0, 0)
  BY <1>2, <1>3, <1>5, <1>6, <1>7 DEF FrameAt, Empty
<1>9. SeenLevels
  BY DEF SeenLevels, Empty
<1> QED
  BY <1>1, <1>8, <1>9 DEF FrameFlow

LEMMA EmptyFlowNext ==
  ASSUME plan' \in Seq(Sendable), Empty'
  PROVE  FrameFlow'
<1>1. (plan \in Seq(Sendable) /\ Empty => FrameFlow)'
  BY EmptyFlow, PTL
<1> QED
  BY <1>1

LEMMA LevelsInReset == DutInv /\ rst => DP!wr_level = 0 /\ AP!wr_level = 0
<1> SUFFICES ASSUME DutInv, rst PROVE DP!wr_level = 0 /\ AP!wr_level = 0
  OBVIOUS
<1>1. DP!AllZero /\ AP!AllZero
  BY DEF DutInv
<1>2. DEPTH \in Nat \ {0} /\ AUX_DEPTH = DEPTH
  BY AxisBenchAssumption
<1>3. 0 \in DP!Pointers /\ 0 \in AP!Pointers
  BY <1>2, SMT DEF DP!Pointers, AP!Pointers
<1>4. DP!gray2bin[DP!bin2gray[0]] = 0 /\ AP!gray2bin[AP!bin2gray[0]] = 0
  BY <1>3, Codes, DP!Decoded, AP!Decoded, AxisBenchAssumption
<1>5. dwr.ptr = 0 /\ awr.ptr = 0 /\ DP!rd_ptr_bin = 0 /\ AP!rd_ptr_bin = 0
  BY <1>1, <1>4 DEF DP!AllZero, AP!AllZero, DP!Synchronised, AP!Synchronised,
     DP!rd_ptr_bin, AP!rd_ptr_bin
<1>6. \A D \in Nat \ {0} : (0 - 0) % (2 * D) = 0
  BY SMT
<1> QED
  BY <1>2, <1>5, <1>6 DEF DP!wr_level, AP!wr_level

LEMMA LevelsInResetNext ==
  ASSUME DutInv', rst'
  PROVE  DP!wr_level' = 0 /\ AP!wr_level' = 0
<1>1. (DutInv /\ rst => DP!wr_level = 0 /\ AP!wr_level = 0)'
  BY LevelsInReset, PTL
<1> QED
  BY <1>1

LEMMA EmptyUntilReset ==
  ASSUME FlowBase, FRAME_FIFO, rst, NEW f, NEW k, NEW e, FrameAt(f, k, e)
  PROVE  Empty
<1>1. /\ DutInv /\ MasterTypes /\ BusInv /\ SendInv /\ WordInv /\ Handled
      /\ plan \in Seq(Sendable) /\ state \in {"WAIT", "FORWARD", "DISCARD"}
  BY DEF FlowBase, MasterTypes, TypeInv, CountInv
<1>2. Ins = 0 /\ DQ = <<>> /\ AQ = <<>>
  BY <1>1, EmptyInReset, NoneInReset DEF Ins
<1>3. /\ Reached(f, k) /\ Position(f, k) /\ Got(f, k) <= 0 /\ Writing(e) /\ Reading(f, k, e)
      /\ AuxHeld(AuxHead(f), e)
  BY <1>2 DEF FrameAt, Reached
<1>4. Fit \in Nat /\ Got(f, k) \in Nat /\ (k = 0 => Got(f, k) = Start(Whole, f))
  BY <1>1, <1>3, GotBounds
<1>5. ~(Ins > Fit) /\ Ins <= Fit /\ Kept = 0
  BY <1>2, <1>4 DEF Kept
<1>6. state = "WAIT"
  <2>1. state # "DISCARD"
    BY <1>3, <1>5 DEF Reading
  <2>2. state # "FORWARD"
    <3> SUFFICES ASSUME state = "FORWARD" PROVE FALSE
      OBVIOUS
    <3>1. f + 1 <= e
      BY <1>3 DEF Reading
    <3>2. Got(f, k) < Kept
      BY <1>3, <3>1, Ahead
    <3> QED
      BY <1>4, <1>5, <3>2
  <2> QED
    BY <1>1, <2>1, <2>2
<1>7. ~afifo_rd_en_fsm /\ ~frame_dfifo_rd_en
  BY <1>3, <1>5, <1>6 DEF Reading
<1>8. f = 0 /\ k = 0
  <2>1. k = 0
    <3>1. k \in Nat /\ ~(k > 0)
      BY <1>3, <1>6 DEF Reading, Position
    <3> QED
      BY <3>1
  <2>2. f \in 0 .. Len(Whole) /\ Start(Whole, f) <= 0
    BY <1>3, <1>4, <2>1 DEF Position
  <2> QED
    BY <1>1, <2>1, <2>2, NoFrameYet
<1>9. frame_beat_cnt = 0 /\ ~frame_overflow
  <2>1. /\ e \in 0 .. Len(Whole) /\ Start(Whole, e) <= 0
        /\ frame_beat_cnt = 0 - Start(Whole, e) /\ ~frame_overflow
    BY <1>2, <1>3, <1>5 DEF Writing
  <2>2. e = 0 /\ Whole \in Seq(Sendable)
    BY <1>1, <2>1, NoFrameYet, WholeType
  <2>3. Start(Whole, e) = 0
    BY <2>2, Starts0
  <2> QED
    BY <2>1, <2>3
<1>10. DP!wr_level = 0 /\ AP!wr_level = 0
  BY <1>1, LevelsInReset
<1> QED
  BY <1>2, <1>3, <1>6, <1>7, <1>8, <1>9, <1>10 DEF Empty

LEMMA FrameStepReset ==
  ASSUME FlowBase, FRAME_FIFO, rst, Eval, FrameFlow
  PROVE  FrameFlow'
<1>1. /\ DutInv /\ MasterTypes /\ SendInv /\ WordInv
      /\ plan \in Seq(Sendable)
  BY DEF FlowBase, MasterTypes, TypeInv
<1>2. PICK f \in 0 .. Len(Whole), k \in Nat, e \in 0 .. Len(Whole) : FrameAt(f, k, e)
  BY DEF FrameFlow
<1>3. Empty
  BY <1>2, EmptyUntilReset
<1>4. UNCHANGED <<plan, FRAME_FIFO, rst>>
  BY DEF Eval, fixed, benchVars
<1>5. DutInv' /\ rst'
  BY <1>1, <1>4, EvalKeepsDut
<1>6. DQ' = <<>> /\ AQ' = <<>> /\ DP!wr_level' = 0 /\ AP!wr_level' = 0
  BY <1>5, EmptyAfterReset, LevelsInResetNext
<1>7. ~Takes("s") /\ ~Takes("m")
  BY <1>1, EmptyInReset
<1>8. Ins' = 0
  BY <1>3, <1>7 DEF Empty, Ins, Eval
<1>9. Reached(0, 0)'
  BY <1>3, <1>7, StaysThere DEF Empty
<1>10. frame_beat_cnt' = 0 /\ ~frame_overflow'
  <2>1. CASE "s" \in rising
    <3>1. Dut!SEdge(rst, s_axis)
      BY <2>1 DEF Eval
    <3> QED
      BY <3>1 DEF Dut!SEdge
  <2>2. CASE "s" \notin rising
    BY <1>3, <2>2 DEF Eval, Empty
  <2> QED
    BY <2>1, <2>2
<1>11. state' = "WAIT" /\ ~afifo_rd_en_fsm' /\ ~frame_dfifo_rd_en'
  <2>1. CASE "m" \in rising
    <3>1. Dut!FrameEdge(rst, m_tready)
      BY <2>1 DEF Eval, Dut!MEdge
    <3> QED
      BY <3>1 DEF Dut!FrameEdge
  <2>2. CASE "m" \notin rising
    BY <1>3, <2>2 DEF Eval, Empty
  <2> QED
    BY <2>1, <2>2
<1>12. Empty'
  BY <1>6, <1>8, <1>9, <1>10, <1>11 DEF Empty
<1> QED
  BY <1>1, <1>4, <1>12, EmptyFlowNext

LEMMA FrameStep ==
  ASSUME FlowBase, FRAME_FIFO, Eval, FrameFlow
  PROVE  FrameFlow'
BY FrameStepRuns, FrameStepReset

-----------------------------------------------------------------------------
(* The flow *)

FlowInv ==
  /\ FlowBase
  /\ ~FRAME_FIFO => StreamFlow
  /\ FRAME_FIFO => FrameFlow

LEMMA FlowInit == Init /\ Handled => FlowInv
<1> SUFFICES ASSUME Init, Handled PROVE FlowInv
  OBVIOUS
<1>1. /\ frame_dfifo_rd_en = FALSE /\ afifo_rd_en_fsm = FALSE /\ m_tready = TRUE
      /\ tready_o = TRUE /\ state = "WAIT" /\ frame_beat_cnt = 0 /\ frame_overflow = FALSE
      /\ rst = TRUE /\ step = "sample" /\ accepted = <<>> /\ received = <<>>
      /\ rx_queue = <<>> /\ recv_buf = <<>>
  BY DEF Init, Slv!Init, Dut!Init
<1>2. FlowBase
  <2>1. DutInv /\ MasterTypes /\ BusInv /\ SendInv /\ TypeInv /\ ReceiverKnows
    BY DutInit, MasterInit, BusInit, SendInit, TypeInit, KnowsInit
  <2>2. Handled
    OBVIOUS
  <2>3. Registered
    BY <1>1 DEF Registered
  <2> QED
    BY <2>1, <2>2, <2>3 DEF FlowBase
<1>3. DutInv /\ WordInv /\ plan \in Seq(Sendable)
  BY <1>2 DEF FlowBase, TypeInv, MasterTypes
<1>4. /\ DQ = <<>> /\ AQ = <<>> /\ DP!wr_level = 0 /\ AP!wr_level = 0
  BY <1>1, <1>3, EmptyInReset, LevelsInReset
<1>5. Reached(0, 0)
  <2>1. Len(Whole) \in Nat
    BY <1>3, WholeType
  <2>2. Position(0, 0)
    BY <2>1 DEF Position
  <2>3. InHand = <<>> /\ PutTogether = <<>>
    <3>1. ~Pending
      BY <1>1 DEF Pending
    <3>2. Delivered = <<>>
      BY <1>1 DEF Delivered
    <3> QED
      BY <1>1, <3>1, <3>2 DEF InHand, PutTogether
  <2> QED
    BY <2>2, <2>3 DEF Reached
<1>6. Ins = 0
  BY <1>1 DEF Ins
<1>7. Empty
  BY <1>1, <1>4, <1>5, <1>6 DEF Empty
<1>8. FrameFlow
  BY <1>3, <1>7, EmptyFlow
<1>9. StreamFlow
  <2>1. Got(0, 0) = 0 /\ Len(Whole) \in Nat
    <3>1. Whole \in Seq(Sendable)
      BY <1>3, WholeType
    <3> QED
      BY <3>1, Starts0 DEF Got
  <2>2. StreamAt(0, 0)
    BY <1>4, <1>5, <1>6, <2>1 DEF StreamAt, Tracks, Ins
  <2> QED
    BY <2>1, <2>2 DEF StreamFlow
<1> QED
  BY <1>2, <1>8, <1>9 DEF FlowInv

\* Nothing but an edge moves what the flow is about.
LEMMA FlowKept ==
  ASSUME FlowInv, [Next]_vars, ~Eval
  PROVE  FlowInv'
<1>1. FlowBase /\ FlowBase'
  BY BaseStep DEF FlowInv
<1>2. UNCHANGED <<dwr, awr, frame_beat_cnt, frame_overflow, drd, ard, state,
                  afifo_rd_en_fsm, frame_dfifo_rd_en, frame_tkeep, plan, FRAME_FIFO, accepted>>
  BY DEF Next, Sample, Drive, Wake, vars, dutVars, fixed
<1>3. /\ Whole' = Whole /\ Fit' = Fit /\ All' = All /\ DQ' = DQ /\ AQ' = AQ
      /\ WordLog' = WordLog /\ AuxLog' = AuxLog /\ Ins' = Ins
  BY <1>2, WholeKept, QueuesKept DEF WordLog, Word, AuxLog, Ins
<1>4. InHand' = InHand /\ PutTogether' = PutTogether
  BY <1>1, OthersKnow DEF FlowBase, TypeInv
<1>5. \A f, k : Got(f, k)' = Got(f, k) /\ (Reached(f, k) => Reached(f, k)')
  <2> TAKE f, k
  <2> QED
    BY <1>2, <1>4, ReachedKept
<1>6. ASSUME ~FRAME_FIFO PROVE StreamFlow'
  <2>1. PICK f \in 0 .. Len(Whole), k \in Nat : StreamAt(f, k)
    BY <1>6 DEF FlowInv, StreamFlow
  <2>2. StreamAt(f, k)'
    BY <1>2, <1>3, <1>5, <2>1 DEF StreamAt, Tracks
  <2> QED
    BY <1>3, <2>1, <2>2 DEF StreamFlow
<1>7. ASSUME FRAME_FIFO PROVE FrameFlow'
  <2>1. PICK f \in 0 .. Len(Whole), k \in Nat, e \in 0 .. Len(Whole) : FrameAt(f, k, e)
    BY <1>7 DEF FlowInv, FrameFlow
  <2>2. Kept' = Kept /\ KeepLog' = KeepLog /\ AuxHead(f)' = AuxHead(f)
    BY <1>2, <1>3 DEF Kept, KeepLog, AuxHead, Keep
  <2>3. Writing(e)'
    BY <1>2, <1>3, <2>1 DEF FrameAt, Writing, Start
  <2>4. Stored(Got(f, k))'
    BY <1>2, <1>3, <1>5, <2>1 DEF FrameAt, Stored, AllStored
  <2>5. AuxHeld(AuxHead(f), e)'
    BY <1>3, <2>1, <2>2 DEF FrameAt, AuxHeld, Tracks
  <2>6. Reading(f, k, e)'
    <3>1. AP!rd_empty' <=> AP!rd_empty
      BY <1>2 DEF AP!rd_empty, AP!wr_ptr_bin
    <3> QED
      BY <1>2, <1>3, <2>1, <3>1 DEF FrameAt, Reading, Keep
  <2>7. FrameAt(f, k, e)'
    BY <1>3, <1>5, <2>1, <2>2, <2>3, <2>4, <2>5, <2>6 DEF FrameAt, Tracks
  <2>8. SeenLevels'
    <3>1. DP!wr_level' = DP!wr_level /\ AP!wr_level' = AP!wr_level
      BY <1>2 DEF DP!wr_level, AP!wr_level, DP!rd_ptr_bin, AP!rd_ptr_bin
    <3> QED
      BY <1>3, <1>7, <3>1 DEF FlowInv, FrameFlow, SeenLevels
  <2> QED
    BY <1>3, <2>1, <2>7, <2>8 DEF FrameFlow
<1> QED
  BY <1>1, <1>2, <1>6, <1>7 DEF FlowInv

LEMMA FlowStep == FlowInv /\ [Next]_vars => FlowInv'
<1> SUFFICES ASSUME FlowInv, [Next]_vars PROVE FlowInv'
  OBVIOUS
<1>1. CASE Eval
  <2>1. FlowBase /\ FlowBase'
    BY BaseStep DEF FlowInv
  <2>2. FRAME_FIFO' = FRAME_FIFO
    BY <1>1 DEF Eval, fixed
  <2>3. ~FRAME_FIFO => StreamFlow'
    BY <1>1, <2>1, StreamStep DEF FlowInv
  <2>4. FRAME_FIFO => FrameFlow'
    BY <1>1, <2>1, FrameStep DEF FlowInv
  <2> QED
    BY <2>1, <2>2, <2>3, <2>4 DEF FlowInv
<1>2. CASE ~Eval
  BY <1>2, FlowKept
<1> QED
  BY <1>1, <1>2

-----------------------------------------------------------------------------
(* Whole frames, in order *)

\* The receiver has no more beats than the FIFO took.
LEMMA FlowReached ==
  ASSUME FlowInv
  PROVE  \E f \in 0 .. Len(Whole), k \in Nat : Reached(f, k) /\ Got(f, k) <= Ins
BY DEF FlowInv, StreamFlow, StreamAt, FrameFlow, FrameAt, Ins

LEMMA FramesFollow == FlowInv => FramesInOrder
<1> SUFFICES ASSUME FlowInv PROVE FramesInOrder
  OBVIOUS
<1>1. /\ MasterTypes /\ SendInv /\ Handled /\ ReceiverKnows /\ SlaveInv
      /\ plan \in Seq(Sendable) /\ sent \in 0 .. Len(plan)
  BY DEF FlowInv, FlowBase, MasterTypes, TypeInv
<1>2. PICK f \in 0 .. Len(Whole), k \in Nat : Reached(f, k) /\ Got(f, k) <= Ins
  BY FlowReached
<1>3. Whole \in Seq(Sendable)
  BY <1>1, WholeType
<1>4. Start(Whole, f) <= Len(Sent(sent))
  <2>1. Start(Whole, f) \in Nat
    BY <1>3, StartNat
  <2>2. Len(Sent(sent)) \in Nat /\ Ins \in Nat /\ Ins <= Len(Sent(sent))
    BY <1>1, TakenBeats DEF Ins
  <2> QED
    BY <1>2, <2>1, <2>2 DEF Got
<1> DEFINE due == Due(SubSeq(plan, 1, sent))
<1>5. /\ due \in Seq(Sendable) /\ f <= Len(due)
      /\ \A i \in 1 .. f : due[i] = Whole[i]
  BY <1>1, <1>4, EnoughSent
<1>6. PICK n \in 0 .. f : /\ Len(Delivered) = n /\ Delivered \in Seq(Seq(Bytes))
                          /\ \A i \in 1 .. n : Delivered[i] = Whole[i]["data"]
  <2>1. Delivered \in Seq(Seq(Bytes))
    BY <1>1, ConcatProperties DEF Delivered, ReceiverKnows, SlaveInv
  <2>2. PutTogether = [i \in 1 .. f |-> Whole[i]["data"]]
    BY <1>2 DEF Reached
  <2>3. Len(PutTogether) = f
    BY <2>2
  <2>4. CASE Pending /\ slv_i.tlast
    <3>1. PICK b \in {Buf} : PutTogether = Append(Delivered, b)
      BY <2>4 DEF PutTogether
    <3>2. Len(PutTogether) = Len(Delivered) + 1
          /\ \A i \in 1 .. Len(Delivered) : PutTogether[i] = Delivered[i]
      BY <2>1, <3>1
    <3>3. Len(Delivered) \in 0 .. f
      BY <2>1, <2>3, <3>2
    <3>4. \A i \in 1 .. Len(Delivered) : i \in 1 .. f
      BY <3>3
    <3>5. \A i \in 1 .. Len(Delivered) : Delivered[i] = Whole[i]["data"]
      BY <2>2, <3>2, <3>4
    <3> QED
      BY <2>1, <3>3, <3>5
  <2>5. CASE ~(Pending /\ slv_i.tlast)
    <3>1. PutTogether = Delivered
      BY <2>5 DEF PutTogether
    <3> QED
      BY <2>1, <2>2, <2>3, <3>1
  <2> QED
    BY <2>4, <2>5
<1> DEFINE P == Promised(SubSeq(plan, 1, sent))
<1>7. /\ P \in Seq({frame["data"] : frame \in Sendable}) /\ Len(P) = Len(due)
      /\ \A i \in 1 .. Len(due) : P[i] = due[i]["data"]
  <2>1. P = [i \in 1 .. Len(due) |-> due[i]["data"]]
    BY <1>5 DEF Promised
  <2> QED
    BY <1>5, <2>1
<1>8. PICK N \in Nat : N = Len(due) /\ n <= N /\ f <= N
  BY <1>5, <1>6
<1> HIDE DEF due, P
<1>9. \A i \in 1 .. n : Delivered[i] = P[i]
  <2> TAKE i \in 1 .. n
  <2>1. i \in 1 .. f /\ i \in 1 .. N
    BY <1>8
  <2> QED
    BY <1>5, <1>6, <1>7, <1>8, <2>1
<1>10. /\ SubSeq(Delivered, 1, n) = [i \in 1 .. n |-> Delivered[i]]
       /\ SubSeq(P, 1, n) = [i \in 1 .. n |-> P[i]]
  BY <1>6, <1>7, <1>8
<1>11. SubSeq(Delivered, 1, n) = SubSeq(P, 1, n)
  BY <1>9, <1>10
<1> QED
  BY <1>6, <1>7, <1>8, <1>11 DEF FramesInOrder, IsPrefix, P

\* Frames come out whole and in the order they were sent, whatever the two
\* clocks, the writer and the receiver's stalls do, for every depth and width:
\* in stream mode for every plan, in frame mode for every plan the frame FIFO
\* handles, where a frame that does not fit comes last and never comes out.
THEOREM FramesArrive == Spec /\ Handled => []FramesInOrder
BY FlowInit, FlowStep, FramesFollow, PTL DEF Spec

-----------------------------------------------------------------------------
(* Nothing lost *)

\* The frames due of the first n are the first of all, and their beats are among
\* those of the n.
LEMMA DueTaken ==
  ASSUME plan \in Seq(Sendable), Handled, NEW n \in 0 .. Len(plan)
  PROVE  LET d == Due(SubSeq(plan, 1, n))
         IN /\ d \in Seq(Sendable) /\ Len(d) <= Len(Whole)
            /\ \A i \in 1 .. Len(d) : d[i] = Whole[i]
            /\ Start(Whole, Len(d)) <= Len(Packed(SubSeq(plan, 1, n)))
<1>1. SubSeq(plan, 1, Len(plan)) = plan /\ Len(plan) \in n .. Len(plan)
  OBVIOUS
<1>2. Whole \in Seq(Sendable)
  BY WholeType
<1>3. PICK d \in Seq(Sendable) : d = Due(SubSeq(plan, 1, n))
  <2>1. Due(SubSeq(plan, 1, n)) \in Seq(Wanted)
    BY PiecesType
  <2>2. Seq(Wanted) \subseteq Seq(Sendable)
    BY SeqMonotonic DEF Wanted
  <2> QED
    BY <2>1, <2>2
<1>4. PICK r \in Seq(Sendable) : Whole = d \o r
  <2>1. PICK r \in Seq(Wanted) : Due(SubSeq(plan, 1, Len(plan))) = Due(SubSeq(plan, 1, n)) \o r
    BY <1>1, DuePrefix DEF GoesOn
  <2>2. Seq(Wanted) \subseteq Seq(Sendable)
    BY SeqMonotonic DEF Wanted
  <2> QED
    BY <1>1, <1>3, <2>1, <2>2 DEF Whole
<1>5. /\ Len(d) \in Nat /\ Len(Whole) \in Nat /\ Len(d) <= Len(Whole)
      /\ \A i \in 1 .. Len(d) : d[i] = Whole[i]
      /\ SubSeq(Whole, 1, Len(d)) = d
  BY <1>4
<1>6. Start(Whole, Len(d)) <= Len(Packed(SubSeq(plan, 1, n)))
  <2>1. Len(Packed(d)) \in Nat
    BY PackedType
  <2>2. CASE \A j \in 1 .. n : Beats(plan[j]) > 0 => Delivers(plan[j])
    <3>1. Packed(SubSeq(plan, 1, n)) = Packed(d)
      BY <1>3, <2>2, SamePacked
    <3>2. Start(Whole, Len(d)) = Len(Packed(d))
      BY <1>5 DEF Start
    <3>3. Start(Whole, Len(d)) = Len(Packed(SubSeq(plan, 1, n)))
      BY <3>1, <3>2
    <3> QED
      BY <2>1, <3>2, <3>3
  <2>3. CASE ~\A j \in 1 .. n : Beats(plan[j]) > 0 => Delivers(plan[j])
    <3>1. FRAME_FIFO
      BY <2>3 DEF Delivers
    <3>2. PICK good \in 0 .. Len(plan) : FitsUpTo(good)
      BY <3>1, FramePlan
    <3>3. ~(n <= good)
      BY <2>3, <3>1, <3>2, FitsDelivers
    <3>4. n = Len(plan)
      <4>1. Len(plan) <= good + 1 /\ Len(plan) \in Nat
        BY <3>2 DEF FitsUpTo
      <4> QED
        BY <3>3, <4>1
    <3>5. d = Whole /\ SubSeq(plan, 1, n) = plan
      BY <1>1, <1>3, <3>4 DEF Whole
    <3>6. Fit \in Nat /\ All \in Nat /\ Fit <= All
      BY <3>1, FrameShape
    <3> QED
      BY <1>5, <3>5, <3>6 DEF Start, Fit, All
  <2> QED
    BY <2>2, <2>3
<1> QED
  BY <1>3, <1>5, <1>6

\* A receiver that has all the beats of m frames has m frames.
LEMMA EnoughGot ==
  ASSUME plan \in Seq(Sendable), NEW f, NEW k, Position(f, k),
         NEW m \in 0 .. Len(Whole), Start(Whole, m) <= Got(f, k)
  PROVE  m <= f
<1> SUFFICES ASSUME ~(m <= f) PROVE FALSE
  OBVIOUS
<1>1. /\ Whole \in Seq(Sendable) /\ Len(Whole) \in Nat /\ f \in Nat
      /\ \A j \in 1 .. Len(Whole) : Beats(Whole[j]) \in Nat \ {0}
  BY WholeType DEF Position
<1>2. f \in 0 .. Len(Whole) - 1 /\ f + 1 \in 1 .. Len(Whole) /\ m \in f + 1 .. Len(Whole)
      /\ f + 1 \in 0 .. Len(Whole) /\ f \in 0 .. Len(Whole)
  BY <1>1
<1>3. PICK s \in Nat, b \in Nat \ {0}, t \in Nat, u \in Nat :
        s = Start(Whole, f) /\ b = Beats(Whole[f + 1]) /\ t = Start(Whole, m)
        /\ u = Start(Whole, f + 1)
  BY <1>1, <1>2, StartNat
<1>4. u = s + b /\ u <= t
  BY <1>1, <1>2, <1>3, StartStep, StartGrows
<1>5. k \in Nat /\ (k > 0 => k < b)
  BY <1>3 DEF Position
<1> QED
  BY <1>3, <1>4, <1>5, SMTT(30) DEF Got

\* With nothing in the data FIFO the receiver has every beat taken that is due.
LEMMA EmptyMeansGot ==
  ASSUME FlowInv, DQ = <<>>, NEW m \in 0 .. Len(Whole), Start(Whole, m) <= Ins
  PROVE  \E f \in m .. Len(Whole), k \in Nat : Reached(f, k)
<1>1. /\ plan \in Seq(Sendable) /\ Handled /\ MasterTypes /\ SendInv /\ Ins \in Nat
      /\ FRAME_FIFO \in BOOLEAN
  <2>1. MasterTypes /\ SendInv
    BY DEF FlowInv, FlowBase
  <2> QED
    BY <2>1, TakenBeats DEF FlowInv, FlowBase, MasterTypes, DutInv, Ins
<1>2. Len(DQ) = 0
  OBVIOUS
<1>3. \E f \in 0 .. Len(Whole), k \in Nat : Reached(f, k) /\ Start(Whole, m) <= Got(f, k)
  <2>1. CASE ~FRAME_FIFO
    <3>1. PICK f \in 0 .. Len(Whole), k \in Nat : StreamAt(f, k)
      BY <2>1 DEF FlowInv, StreamFlow
    <3>2. Reached(f, k) /\ 0 = Ins - Got(f, k)
      BY <1>2, <3>1 DEF StreamAt, Ins
    <3>3. Got(f, k) \in Nat
      BY <1>1, <3>2, GotBounds DEF Reached
    <3> QED
      BY <1>1, <3>2, <3>3
  <2>2. CASE FRAME_FIFO
    <3>1. PICK f \in 0 .. Len(Whole), k \in Nat, e \in 0 .. Len(Whole) : FrameAt(f, k, e)
      BY <2>2 DEF FlowInv, FrameFlow
    <3>2. Reached(f, k) /\ Kept - Got(f, k) <= 0
      BY <1>2, <3>1 DEF FrameAt, Tracks
    <3>3. Got(f, k) \in Nat /\ Fit \in Nat
      BY <1>1, <3>2, GotBounds DEF Reached
    <3>4. Start(Whole, m) \in Nat /\ Start(Whole, m) <= Fit
      <4>1. Whole \in Seq(Sendable) /\ Len(Whole) \in m .. Len(Whole)
        BY <1>1, WholeType
      <4>2. Start(Whole, m) \in Nat /\ Start(Whole, m) <= Start(Whole, Len(Whole))
        BY <4>1, StartNat, StartGrows
      <4>3. Start(Whole, Len(Whole)) = Fit
        BY <4>1, Starts0 DEF Fit
      <4> QED
        BY <4>2, <4>3
    <3>5. Start(Whole, m) <= Kept /\ Kept \in Nat
      BY <1>1, <3>3, <3>4 DEF Kept
    <3>6. Start(Whole, m) <= Got(f, k)
      BY <3>2, <3>3, <3>4, <3>5
    <3> QED
      BY <3>2, <3>6
  <2> QED
    BY <1>1, <2>1, <2>2
<1>4. PICK f \in 0 .. Len(Whole), k \in Nat : Reached(f, k) /\ Start(Whole, m) <= Got(f, k)
  BY <1>3
<1>5. m <= f
  BY <1>1, <1>4, EnoughGot DEF Reached
<1>6. f \in m .. Len(Whole)
  BY <1>4, <1>5
<1> QED
  BY <1>4, <1>6

LEMMA NothingLostFollows == FlowInv => NothingLost
<1> SUFFICES ASSUME FlowInv, Dut!D!Size = 0, step # "drive", NEW n \in 0 .. Len(plan),
                    Len(Packed(SubSeq(plan, 1, n))) <= Len(accepted)
             PROVE  IsPrefix(Promised(SubSeq(plan, 1, n)), Delivered)
  BY DEF NothingLost
<1>1. plan \in Seq(Sendable) /\ Handled /\ ReceiverKnows /\ SlaveInv /\ Ins \in Nat
  <2>1. MasterTypes /\ SendInv
    BY DEF FlowInv, FlowBase
  <2> QED
    BY <2>1, TakenBeats DEF FlowInv, FlowBase, MasterTypes, TypeInv, Ins
<1>2. DQ = <<>>
  <2>1. DP!Size = 0
    BY DEF DP!Size, Dut!D!Size, DP!rd_ptr_bin
  <2> QED
    BY <2>1 DEF DQ, DP!Contents
<1>3. PICK d \in Seq(Sendable), m \in Nat :
        /\ d = Due(SubSeq(plan, 1, n)) /\ m = Len(d) /\ m \in 0 .. Len(Whole)
        /\ \A i \in 1 .. m : d[i] = Whole[i]
        /\ Start(Whole, m) <= Len(Packed(SubSeq(plan, 1, n)))
  <2>1. Len(Whole) \in Nat
    BY <1>1, WholeType
  <2>2. PICK d \in Seq(Sendable) : d = Due(SubSeq(plan, 1, n))
    BY <1>1, DueTaken
  <2>3. /\ Len(d) <= Len(Whole) /\ \A i \in 1 .. Len(d) : d[i] = Whole[i]
        /\ Start(Whole, Len(d)) <= Len(Packed(SubSeq(plan, 1, n)))
    BY <1>1, <2>2, DueTaken
  <2>4. Len(d) \in Nat /\ Len(d) \in 0 .. Len(Whole)
    BY <2>1, <2>2, <2>3
  <2> QED
    BY <2>2, <2>3, <2>4
<1>4. Start(Whole, m) <= Ins
  <2>1. Start(Whole, m) \in Nat /\ Len(Packed(SubSeq(plan, 1, n))) \in Nat
    <3>1. Whole \in Seq(Sendable) /\ SubSeq(plan, 1, n) \in Seq(Sendable)
      BY <1>1, WholeType
    <3> QED
      BY <1>3, <3>1, StartNat, PackedType
  <2> QED
    BY <1>1, <1>3, <2>1 DEF Ins
<1>5. PICK f \in m .. Len(Whole), k \in Nat : Reached(f, k)
  BY <1>2, <1>3, <1>4, EmptyMeansGot
<1>6. Delivered = [i \in 1 .. f |-> Whole[i]["data"]] /\ Delivered \in Seq(Seq(Bytes))
  <2>1. Delivered \in Seq(Seq(Bytes))
    BY <1>1, ConcatProperties DEF Delivered, ReceiverKnows, SlaveInv
  <2> QED
    BY <1>5, <2>1 DEF Reached, PutTogether, Pending
<1> DEFINE P == Promised(SubSeq(plan, 1, n))
<1>7. P = [i \in 1 .. m |-> d[i]["data"]]
  BY <1>3 DEF Promised
<1>8. Len(P) = m /\ Len(Delivered) = f /\ m <= f /\ f \in Nat
  BY <1>3, <1>5, <1>6, <1>7
<1> HIDE DEF P
<1>9. \A i \in 1 .. m : P[i] = Delivered[i]
  <2> TAKE i \in 1 .. m
  <2>1. i \in 1 .. f
    BY <1>3, <1>8
  <2> QED
    BY <1>3, <1>6, <1>7, <2>1
<1>10. SubSeq(P, 1, m) = [i \in 1 .. m |-> P[i]]
       /\ SubSeq(Delivered, 1, m) = [i \in 1 .. m |-> Delivered[i]]
  BY <1>3, <1>6, <1>7, <1>8
<1> QED
  BY <1>8, <1>9, <1>10 DEF IsPrefix, P

\* No beat of a frame that is due is lost between the two sides, for every depth
\* and width: in stream mode for every plan, in frame mode for every plan the
\* frame FIFO handles.  Once the FIFO is empty, each frame it took whole has been
\* handed over.  Without the hypothesis it is not so: see module AxisVerdict.
THEOREM NothingDropped == Spec /\ Handled => []NothingLost
BY FlowInit, FlowStep, NothingLostFollows, PTL DEF Spec
=============================================================================
