------------------------------ MODULE AsyncFifo ------------------------------
(***************************************************************************)
(* async_fifo.v: a FIFO between two clocks.  Each side keeps its pointer   *)
(* in binary and in Gray code, and sees the other side's Gray pointer      *)
(* through two registers.  wr holds the registers clocked by wr_clk, rd    *)
(* those clocked by rd_clk; assignments are nonblocking, so an edge reads  *)
(* the other side as it was, and edges of both clocks at one instant are   *)
(* the conjunction of WrEdge and RdEdge.                                   *)
(*                                                                         *)
(* The benches assert reset only before the first edge, where it changes   *)
(* nothing but what the edges do: there is no action for its rise.         *)
(***************************************************************************)
EXTENDS Integers, Sequences

CONSTANTS
  DEPTH,   \* a power of two
  AWID,    \* $clog2(DEPTH)
  FWFT,    \* first-word fall-through, or a registered read
  Blank    \* the word memory and output hold at power-up

ASSUME AsyncFifoAssumption ==
  /\ AWID \in Nat \ {0} /\ DEPTH \in Nat \ {0} /\ DEPTH = 2 ^ AWID
  /\ FWFT \in BOOLEAN

VARIABLES wr, rd

PTRW == AWID + 1
Pointers == 0 .. 2 * DEPTH - 1
Inc(ptr) == (ptr + 1) % (2 * DEPTH)
Addr(ptr) == ptr % DEPTH

-----------------------------------------------------------------------------
(* Gray code *)

Bits(n) == [i \in 0 .. AWID |-> (n \div 2 ^ i) % 2]
Shr(v, n) == [i \in 0 .. AWID |-> IF i + n <= AWID THEN v[i + n] ELSE 0]
Xor(u, v) == [i \in 0 .. AWID |-> (u[i] + v[i]) % 2]

bin2gray == [bin \in Pointers |-> Xor(Shr(Bits(bin), 1), Bits(bin))]

\* tmp after the passes i = 1, 2, 4, ... 2 ^ (k - 1); the last has i < PTRW.
Passes == CHOOSE k \in 1 .. PTRW : 2 ^ (k - 1) < PTRW /\ PTRW <= 2 ^ k
PrefixXor(gray) ==
  LET tmp[k \in 0 .. Passes] ==
        IF k = 0 THEN gray
        ELSE LET before == tmp[k - 1] IN Xor(before, Shr(before, 2 ^ (k - 1)))
  IN tmp[Passes]
gray2bin == [gray \in [0 .. AWID -> {0, 1}] |->
               LET bits == PrefixXor(gray)
               IN CHOOSE bin \in Pointers : Bits(bin) = bits]

\* What the synchronisers rely on: zero is its own code, as registers that are
\* reset together need, the code can be undone, and a pointer that moves by one
\* changes one bit.
GrayCode ==
  bin2gray[0] = Bits(0) /\ \A p \in Pointers :
    /\ gray2bin[bin2gray[p]] = p
    /\ \E i \in 0 .. AWID : bin2gray[Inc(p)] = [bin2gray[p] EXCEPT ![i] = 1 - @]

-----------------------------------------------------------------------------
(* Outputs *)

rd_ptr_bin == gray2bin[wr.rd_gray_wr]
wr_ptr_bin == gray2bin[rd.wr_gray_rd]

FullWithoutMsb == Addr(wr.ptr) = Addr(rd_ptr_bin)               \* mutant
FullOneLate == FALSE                                            \* mutant
wr_full == /\ wr.ptr \div DEPTH # rd_ptr_bin \div DEPTH
           /\ Addr(wr.ptr) = Addr(rd_ptr_bin)
rd_empty == rd.ptr = wr_ptr_bin

wr_level == (wr.ptr - rd_ptr_bin) % (2 * DEPTH)
rd_level == (wr_ptr_bin - rd.ptr) % (2 * DEPTH)

-----------------------------------------------------------------------------
(* Clock edges *)

Init ==
  /\ wr = [ptr |-> 0, gray |-> Bits(0), rd_gray_ms |-> Bits(0),
           rd_gray_wr |-> Bits(0), overflow |-> FALSE,
           mem |-> [a \in 0 .. DEPTH - 1 |-> Blank]]
  /\ rd = [ptr |-> 0, gray |-> Bits(0), wr_gray_ms |-> Bits(0),
           wr_gray_rd |-> Bits(0), underflow |-> FALSE, data |-> Blank]

Moved(ptr, rst, moves) == IF rst THEN 0 ELSE IF moves THEN Inc(ptr) ELSE ptr

\* always @(posedge wr_clk): pointer, flag, synchroniser and memory.
WrEdge(rst, en, word) ==
  LET push == en /\ ~wr_full
      ptr == Moved(wr.ptr, rst, push)
  IN wr' = [ptr |-> ptr, gray |-> bin2gray[ptr],
            rd_gray_ms |-> rd.gray, rd_gray_wr |-> wr.rd_gray_ms,
            overflow |-> ~rst /\ en /\ wr_full,
            mem |-> IF push THEN [wr.mem EXCEPT ![Addr(wr.ptr)] = word]
                            ELSE wr.mem]

\* The word rd_data takes at an edge.  The RTL computes the address behind a pop,
\* rd_ptr[AWID-1:0] + 1, with 32 bits: behind the last word it is DEPTH, out of
\* the memory's range by IEEE 1800.  Verilator, the build here, cuts the index to
\* AWID bits, so that it wraps as Addr does.
Shown(pop) ==
  IF FWFT THEN wr.mem[Addr(IF pop THEN rd.ptr + 1 ELSE rd.ptr)]
  ELSE IF pop THEN wr.mem[Addr(rd.ptr)] ELSE rd.data

\* always @(posedge rd_clk).
RdEdge(rst, en) ==
  LET pop == en /\ ~rd_empty
      ptr == Moved(rd.ptr, rst, pop)
  IN rd' = [ptr |-> ptr, gray |-> bin2gray[ptr],
            wr_gray_ms |-> wr.gray, wr_gray_rd |-> rd.wr_gray_ms,
            underflow |-> ~rst /\ en /\ rd_empty,
            data |-> Shown(pop)]

-----------------------------------------------------------------------------
\* What the FIFO holds, whatever either side has seen of the other yet.
Size == (wr.ptr - rd.ptr) % (2 * DEPTH)
Contents == [i \in 1 .. Size |-> wr.mem[Addr(rd.ptr + i - 1)]]
=============================================================================
