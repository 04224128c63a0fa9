--------------------------- MODULE AsyncFifoProofs ---------------------------
(***************************************************************************)
(* The asynchronous FIFO for every depth, every interleaving of its two    *)
(* clocks and every environment, as its benches share it.                  *)
(*                                                                         *)
(* The argument: each side's pointer travels to the other through two      *)
(* registers, so at any time there are six pointers on the circle of       *)
(* 2 * DEPTH, none of which overtakes the next:                            *)
(*   wr.ptr >= wr_gray_ms >= wr_gray_rd >= rd.ptr >= rd_gray_ms >= rd_gray_wr *)
(* and the five distances between them add up to at most DEPTH.  That the  *)
(* Gray code can be undone is a hypothesis, which TLC evaluates.           *)
(***************************************************************************)
EXTENDS AsyncFifo, SequenceTheorems, TLAPS

Dist(p, q) == (p - q) % (2 * DEPTH)
Chain(p, d, c, q, b, a) ==
  Dist(p, d) + Dist(d, c) + Dist(c, q) + Dist(q, b) + Dist(b, a)

-----------------------------------------------------------------------------
(* Arithmetic on the circle of pointers *)

LEMMA DistValue ==
  ASSUME NEW p \in Pointers, NEW q \in Pointers
  PROVE  Dist(p, q) = IF p >= q THEN p - q ELSE p - q + 2 * DEPTH
BY AsyncFifoAssumption, SMT DEF Dist, Pointers

LEMMA Positive == DEPTH \in Nat /\ DEPTH > 0
BY AsyncFifoAssumption

LEMMA IncValue ==
  ASSUME NEW p \in Pointers
  PROVE  /\ Inc(p) \in Pointers
         /\ Inc(p) = IF p + 1 = 2 * DEPTH THEN 0 ELSE p + 1
BY AsyncFifoAssumption, SMT DEF Inc, Pointers

LEMMA FullValue ==
  ASSUME NEW p \in Pointers, NEW r \in Pointers,
         p \div DEPTH = r \div DEPTH \/ Addr(p) # Addr(r)
  PROVE  Dist(p, r) # DEPTH
<1>1. ASSUME NEW n \in Pointers
      PROVE  /\ Addr(n) = IF n >= DEPTH THEN n - DEPTH ELSE n
             /\ n \div DEPTH = IF n >= DEPTH THEN 1 ELSE 0
  <2>1. n \in 0 .. 2 * DEPTH - 1
    BY DEF Pointers
  <2>2. Addr(n) = IF n >= DEPTH THEN n - DEPTH ELSE n
    BY <2>1, Positive, SMT DEF Addr
  <2>3. n \div DEPTH = IF n >= DEPTH THEN 1 ELSE 0
    BY <2>1, Positive, SMT
  <2> QED
    BY <2>2, <2>3
<1>2. p \in 0 .. 2 * DEPTH - 1 /\ r \in 0 .. 2 * DEPTH - 1
  BY DEF Pointers
<1>3. Dist(p, r) = IF p >= r THEN p - r ELSE p - r + 2 * DEPTH
  BY DistValue
<1>4. /\ Addr(p) = IF p >= DEPTH THEN p - DEPTH ELSE p
      /\ p \div DEPTH = IF p >= DEPTH THEN 1 ELSE 0
      /\ Addr(r) = IF r >= DEPTH THEN r - DEPTH ELSE r
      /\ r \div DEPTH = IF r >= DEPTH THEN 1 ELSE 0
  BY <1>1
<1> QED
  BY <1>2, <1>3, <1>4, Positive, SMT

LEMMA Shorter ==
  ASSUME NEW x \in Pointers, NEW y \in Pointers, NEW z \in Pointers,
         Dist(x, y) + Dist(y, z) <= DEPTH
  PROVE  Dist(x, z) = Dist(x, y) + Dist(y, z)
<1>1. /\ x \in 0 .. 2 * DEPTH - 1
      /\ y \in 0 .. 2 * DEPTH - 1
      /\ z \in 0 .. 2 * DEPTH - 1
  BY DEF Pointers
<1>2. /\ Dist(x, y) = IF x >= y THEN x - y ELSE x - y + 2 * DEPTH
      /\ Dist(y, z) = IF y >= z THEN y - z ELSE y - z + 2 * DEPTH
      /\ Dist(x, z) = IF x >= z THEN x - z ELSE x - z + 2 * DEPTH
  BY DistValue
<1> QED
  BY <1>1, <1>2, Positive, SMT

LEMMA DistNat ==
  ASSUME NEW p \in Pointers, NEW q \in Pointers
  PROVE  Dist(p, q) \in Nat /\ Dist(p, p) = 0
<1>1. p \in 0 .. 2 * DEPTH - 1 /\ q \in 0 .. 2 * DEPTH - 1
  BY DEF Pointers
<1>2. /\ Dist(p, q) = IF p >= q THEN p - q ELSE p - q + 2 * DEPTH
      /\ Dist(p, p) = IF p >= p THEN p - p ELSE p - p + 2 * DEPTH
  BY DistValue
<1> QED
  BY <1>1, <1>2, Positive, SMT

\* A chain that is not longer than the FIFO measures the distance of its ends.
LEMMA ChainEnds ==
  ASSUME NEW p \in Pointers, NEW d \in Pointers, NEW c \in Pointers,
         NEW q \in Pointers, NEW b \in Pointers, NEW a \in Pointers,
         Chain(p, d, c, q, b, a) <= DEPTH
  PROVE  /\ Dist(p, a) = Chain(p, d, c, q, b, a)
         /\ Dist(p, q) = Dist(p, d) + Dist(d, c) + Dist(c, q)
<1>1. /\ Dist(p, d) \in Nat /\ Dist(d, c) \in Nat /\ Dist(c, q) \in Nat
      /\ Dist(q, b) \in Nat /\ Dist(b, a) \in Nat
  BY DistNat
<1>2. Dist(p, d) + Dist(d, c) + Dist(c, q) + Dist(q, b) + Dist(b, a) <= DEPTH
  BY DEF Chain
<1>3. Dist(p, c) = Dist(p, d) + Dist(d, c)
  <2>1. Dist(p, d) + Dist(d, c) <= DEPTH
    BY <1>1, <1>2, Positive, SMT
  <2> QED
    BY <2>1, Shorter
<1>4. Dist(p, q) = Dist(p, d) + Dist(d, c) + Dist(c, q)
  <2>1. Dist(p, c) + Dist(c, q) <= DEPTH
    BY <1>1, <1>2, <1>3, Positive, SMT
  <2> QED
    BY <2>1, <1>3, Shorter
<1>5. Dist(p, b) = Dist(p, d) + Dist(d, c) + Dist(c, q) + Dist(q, b)
  <2>1. Dist(p, q) + Dist(q, b) <= DEPTH
    BY <1>1, <1>2, <1>4, Positive, SMT
  <2> QED
    BY <2>1, <1>4, Shorter
<1>6. Dist(p, a) = Dist(p, b) + Dist(b, a)
  <2>1. Dist(p, b) + Dist(b, a) <= DEPTH
    BY <1>1, <1>2, <1>5, Positive, SMT
  <2> QED
    BY <2>1, Shorter
<1> QED
  BY <1>4, <1>5, <1>6 DEF Chain

LEMMA MovedDistance ==
  ASSUME NEW p \in Pointers, NEW q \in Pointers
  PROVE  /\ Dist(Inc(p), p) = 1
         /\ Dist(p, q) < 2 * DEPTH - 1 => Dist(Inc(p), q) = Dist(p, q) + 1
         /\ p # q => Dist(p, Inc(q)) = Dist(p, q) - 1 /\ Dist(p, q) > 0
<1>1. p \in 0 .. 2 * DEPTH - 1 /\ q \in 0 .. 2 * DEPTH - 1
  BY DEF Pointers
<1>2. /\ Inc(p) \in Pointers /\ Inc(p) = IF p + 1 = 2 * DEPTH THEN 0 ELSE p + 1
      /\ Inc(q) \in Pointers /\ Inc(q) = IF q + 1 = 2 * DEPTH THEN 0 ELSE q + 1
  BY IncValue
<1>3. \A x, y \in Pointers : Dist(x, y) = IF x >= y THEN x - y ELSE x - y + 2 * DEPTH
  BY DistValue
<1>4. Dist(Inc(p), p) = 1
  BY <1>1, <1>2, <1>3, Positive, SMT
<1>5. Dist(p, q) < 2 * DEPTH - 1 => Dist(Inc(p), q) = Dist(p, q) + 1
  BY <1>1, <1>2, <1>3, Positive, SMT
<1>6. p # q => Dist(p, Inc(q)) = Dist(p, q) - 1 /\ Dist(p, q) > 0
  BY <1>1, <1>2, <1>3, Positive, SMT
<1> QED
  BY <1>4, <1>5, <1>6

-----------------------------------------------------------------------------
(* The chain through a clock edge *)

\* An edge of wr_clk: the reader's pointer moves one register on.
LEMMA WriterStep ==
  ASSUME NEW p \in Pointers, NEW d \in Pointers, NEW c \in Pointers,
         NEW q \in Pointers, NEW b \in Pointers, NEW a \in Pointers,
         Chain(p, d, c, q, b, a) <= DEPTH,
         NEW p2 \in Pointers, p2 = p \/ (p2 = Inc(p) /\ Dist(p, a) # DEPTH)
  PROVE  /\ Chain(p2, d, c, q, q, b) <= DEPTH
         /\ Dist(p2, p) + Chain(p, d, c, q, q, b) <= DEPTH
<1>1. DEPTH \in Nat /\ DEPTH > 0
  BY Positive
<1>2. \A x, y \in Pointers : Dist(x, y) \in Nat /\ Dist(x, x) = 0
  BY DistNat
<1>3. Chain(p, d, c, q, q, b) <= Chain(p, d, c, q, b, a)
  BY <1>2, SMT DEF Chain
<1>4. CASE p2 = p
  BY <1>2, <1>3, <1>4, Positive, SMT DEF Chain
<1>5. CASE p2 = Inc(p) /\ Dist(p, a) # DEPTH
  <2>1. Chain(p, d, c, q, b, a) < DEPTH
    <3>1. Dist(p, a) = Chain(p, d, c, q, b, a)
      BY ChainEnds, SMTT(30)
    <3> QED
      BY <1>1, <1>2, <1>5, <3>1, SMT
  <2>2. Dist(p2, p) = 1
    BY <1>5, MovedDistance
  <2>3. Dist(p2, d) = Dist(p, d) + 1
    <3>1. Dist(p, d) < 2 * DEPTH - 1
      BY <1>1, <1>2, <2>1, SMT DEF Chain
    <3> QED
      BY <1>5, <3>1, MovedDistance
  <2> QED
    BY <1>1, <1>2, <1>3, <2>1, <2>2, <2>3, SMT DEF Chain
<1> QED
  BY <1>4, <1>5

\* An edge of rd_clk: the writer's pointer moves one register on.
LEMMA ReaderStep ==
  ASSUME NEW p \in Pointers, NEW d \in Pointers, NEW c \in Pointers,
         NEW q \in Pointers, NEW q2 \in Pointers,
         q2 = q \/ (q2 = Inc(q) /\ q # c)
  PROVE  Dist(c, q2) + Dist(q2, q) = Dist(c, q)
<1>1. CASE q2 = q
  BY <1>1, DistNat, SMT
<1>2. CASE q2 = Inc(q) /\ q # c
  <2>1. Dist(Inc(q), q) = 1 /\ Dist(c, Inc(q)) = Dist(c, q) - 1
    BY <1>2, MovedDistance
  <2>2. Dist(c, q) \in Nat
    BY DistNat
  <2> QED
    BY <1>2, <2>1, <2>2, SMT
<1> QED
  BY <1>1, <1>2


-----------------------------------------------------------------------------
(* The invariant of the FIFO *)

\* The pointers whose Gray codes the synchroniser registers hold.
Synchronised(d, c, b, a) ==
  /\ wr.rd_gray_ms = bin2gray[b] /\ wr.rd_gray_wr = bin2gray[a]
  /\ rd.wr_gray_ms = bin2gray[d] /\ rd.wr_gray_rd = bin2gray[c]

InOrder(d, c, b, a) ==
  Synchronised(d, c, b, a) /\ Chain(wr.ptr, d, c, rd.ptr, b, a) <= DEPTH

FifoInv ==
  /\ wr.ptr \in Pointers /\ rd.ptr \in Pointers
  /\ wr.gray = bin2gray[wr.ptr] /\ rd.gray = bin2gray[rd.ptr]
  /\ \E d, c, b, a \in Pointers : InOrder(d, c, b, a)

\* Until the reset is released every pointer is zero.
AllZero == wr.ptr = 0 /\ rd.ptr = 0 /\ Synchronised(0, 0, 0, 0)

LEMMA Decoded ==
  ASSUME GrayCode, NEW p \in Pointers
  PROVE  gray2bin[bin2gray[p]] = p
BY DEF GrayCode

LEMMA FifoInit ==
  ASSUME GrayCode, Init
  PROVE  FifoInv /\ AllZero
<1>1. 0 \in Pointers
  BY Positive, SMT DEF Pointers
<1>2. bin2gray[0] = Bits(0)
  BY DEF GrayCode
<1>3. Synchronised(0, 0, 0, 0) /\ wr.ptr = 0 /\ rd.ptr = 0
  BY <1>2 DEF Synchronised, Init
<1>4. Chain(0, 0, 0, 0, 0, 0) <= DEPTH
  <2>1. Dist(0, 0) = 0
    BY <1>1, DistNat
  <2> QED
    BY <2>1, Positive, SMT DEF Chain
<1> QED
  BY <1>1, <1>2, <1>3, <1>4 DEF FifoInv, InOrder, AllZero, Init

\* What an edge does to its side, whatever it is asked to do: the pointer moves
\* only if there is room, or a word.
WrMoves(rst) ==
  /\ wr'.gray = bin2gray[wr'.ptr]
  /\ wr'.rd_gray_ms = rd.gray /\ wr'.rd_gray_wr = wr.rd_gray_ms
  /\ rst => wr'.ptr = 0
  /\ ~rst => \/ wr'.ptr = wr.ptr /\ wr'.mem = wr.mem
             \/ /\ ~wr_full /\ wr'.ptr = Inc(wr.ptr)
                /\ \E word : wr'.mem = [wr.mem EXCEPT ![Addr(wr.ptr)] = word]

RdMoves(rst) ==
  /\ rd'.gray = bin2gray[rd'.ptr]
  /\ rd'.wr_gray_ms = wr.gray /\ rd'.wr_gray_rd = rd.wr_gray_ms
  /\ rst => rd'.ptr = 0
  /\ ~rst => rd'.ptr = rd.ptr \/ (~rd_empty /\ rd'.ptr = Inc(rd.ptr))

LEMMA EdgesMove ==
  ASSUME NEW rst \in BOOLEAN, NEW en
  PROVE  /\ \A word : WrEdge(rst, en, word) => WrMoves(rst)
         /\ RdEdge(rst, en) => RdMoves(rst)
<1>1. ASSUME NEW word, WrEdge(rst, en, word) PROVE WrMoves(rst)
  <2> DEFINE push == en /\ ~wr_full
  <2>1. /\ wr'.ptr = Moved(wr.ptr, rst, push) /\ wr'.gray = bin2gray[wr'.ptr]
        /\ wr'.rd_gray_ms = rd.gray /\ wr'.rd_gray_wr = wr.rd_gray_ms
        /\ wr'.mem = IF push THEN [wr.mem EXCEPT ![Addr(wr.ptr)] = word] ELSE wr.mem
    BY <1>1 DEF WrEdge
  <2>2. CASE push
    BY <2>1, <2>2 DEF WrMoves, Moved
  <2>3. CASE ~push
    BY <2>1, <2>3 DEF WrMoves, Moved
  <2> QED
    BY <2>2, <2>3
<1>2. ASSUME RdEdge(rst, en) PROVE RdMoves(rst)
  <2> DEFINE pop == en /\ ~rd_empty
  <2>1. /\ rd'.ptr = Moved(rd.ptr, rst, pop) /\ rd'.gray = bin2gray[rd'.ptr]
        /\ rd'.wr_gray_ms = wr.gray /\ rd'.wr_gray_rd = rd.wr_gray_ms
    BY <1>2 DEF RdEdge
  <2>2. CASE pop
    BY <2>1, <2>2 DEF RdMoves, Moved
  <2>3. CASE ~pop
    BY <2>1, <2>3 DEF RdMoves, Moved
  <2> QED
    BY <2>2, <2>3
<1> QED
  BY <1>1, <1>2

-----------------------------------------------------------------------------
(* Every tick keeps the order *)

\* A pointer moves by one or not at all, and never past what its side knows.
LEMMA WriterMoves ==
  ASSUME GrayCode, FifoInv, NEW rst \in BOOLEAN, rst => AllZero, WrMoves(rst),
         NEW a \in Pointers, wr.rd_gray_wr = bin2gray[a]
  PROVE  /\ wr'.ptr \in Pointers /\ wr'.gray = bin2gray[wr'.ptr]
         /\ wr'.rd_gray_ms = rd.gray /\ wr'.rd_gray_wr = wr.rd_gray_ms
         /\ wr'.ptr = wr.ptr \/ (wr'.ptr = Inc(wr.ptr) /\ Dist(wr.ptr, a) # DEPTH)
<1>1. wr.ptr \in Pointers
  BY DEF FifoInv
<1>2. rd_ptr_bin = a
  BY Decoded DEF rd_ptr_bin
<1>3. ~wr_full => Dist(wr.ptr, a) # DEPTH
  BY <1>1, <1>2, FullValue DEF wr_full
<1>4. CASE rst
  BY <1>1, <1>4 DEF WrMoves, AllZero
<1>5. CASE ~rst
  BY <1>1, <1>3, <1>5, IncValue DEF WrMoves
<1> QED
  BY <1>4, <1>5

LEMMA ReaderMoves ==
  ASSUME GrayCode, FifoInv, NEW rst \in BOOLEAN, rst => AllZero, RdMoves(rst),
         NEW c \in Pointers, rd.wr_gray_rd = bin2gray[c]
  PROVE  /\ rd'.ptr \in Pointers /\ rd'.gray = bin2gray[rd'.ptr]
         /\ rd'.wr_gray_ms = wr.gray /\ rd'.wr_gray_rd = rd.wr_gray_ms
         /\ rd'.ptr = rd.ptr \/ (rd'.ptr = Inc(rd.ptr) /\ rd.ptr # c)
<1>1. rd.ptr \in Pointers
  BY DEF FifoInv
<1>2. ~rd_empty => rd.ptr # c
  BY Decoded DEF rd_empty, wr_ptr_bin
<1>3. CASE rst
  BY <1>1, <1>3 DEF RdMoves, AllZero
<1>4. CASE ~rst
  BY <1>1, <1>2, <1>4, IncValue DEF RdMoves
<1> QED
  BY <1>3, <1>4

LEMMA ZeroStays ==
  ASSUME FifoInv, AllZero, WrMoves(TRUE) \/ UNCHANGED wr, RdMoves(TRUE) \/ UNCHANGED rd
  PROVE  AllZero'
<1>1. wr.gray = bin2gray[0] /\ rd.gray = bin2gray[0]
  BY DEF FifoInv, AllZero
<1>2. wr'.ptr = 0 /\ wr'.rd_gray_ms = bin2gray[0] /\ wr'.rd_gray_wr = bin2gray[0]
  BY <1>1 DEF WrMoves, AllZero, Synchronised
<1>3. rd'.ptr = 0 /\ rd'.wr_gray_ms = bin2gray[0] /\ rd'.wr_gray_rd = bin2gray[0]
  BY <1>1 DEF RdMoves, AllZero, Synchronised
<1> QED
  BY <1>2, <1>3 DEF AllZero, Synchronised

-----------------------------------------------------------------------------
(* What the order means for the levels and the flags *)

LEMMA LevelsInOrder ==
  ASSUME GrayCode, FifoInv
  PROVE  /\ Size = Dist(wr.ptr, rd.ptr) /\ Size \in 0 .. DEPTH
         /\ rd_level <= Size /\ Size <= wr_level /\ wr_level <= DEPTH
         /\ ~wr_full => Size < DEPTH
         /\ ~rd_empty => wr.ptr # rd.ptr
<1> PICK d \in Pointers, c \in Pointers, b \in Pointers, a \in Pointers :
      InOrder(d, c, b, a)
  BY DEF FifoInv
<1>1. PICK p \in Pointers, q \in Pointers : p = wr.ptr /\ q = rd.ptr
  BY DEF FifoInv
<1>2. rd_ptr_bin = a /\ wr_ptr_bin = c
  BY Decoded DEF InOrder, Synchronised, rd_ptr_bin, wr_ptr_bin
<1>3. Chain(p, d, c, q, b, a) <= DEPTH
  BY <1>1 DEF InOrder
<1>4. /\ Dist(p, a) = Chain(p, d, c, q, b, a)
      /\ Dist(p, q) = Dist(p, d) + Dist(d, c) + Dist(c, q)
  BY <1>3, ChainEnds
<1>5. /\ Dist(p, d) \in Nat /\ Dist(d, c) \in Nat /\ Dist(c, q) \in Nat
      /\ Dist(q, b) \in Nat /\ Dist(b, a) \in Nat /\ Dist(p, q) \in Nat
  BY DistNat
<1>6. /\ Dist(p, q) \in 0 .. DEPTH
      /\ Dist(c, q) <= Dist(p, q) /\ Dist(p, q) <= Dist(p, a)
      /\ Dist(p, a) <= DEPTH
      /\ Dist(p, a) # DEPTH => Dist(p, q) < DEPTH
  BY <1>3, <1>4, <1>5, Positive, SMT DEF Chain
<1>7. Size = Dist(p, q) /\ rd_level = Dist(c, q) /\ wr_level = Dist(p, a)
  BY <1>1, <1>2 DEF Size, rd_level, wr_level, Dist
<1>8. ~wr_full => Dist(p, a) # DEPTH
  BY <1>1, <1>2, FullValue DEF wr_full
<1>9. ~rd_empty => p # q
  <2>1. c # q => Dist(c, q) > 0
    BY MovedDistance
  <2>2. c # q => Dist(p, q) > 0
    BY <1>4, <1>5, <2>1, SMT
  <2>3. Dist(p, p) = 0
    BY DistNat
  <2> QED
    BY <1>1, <1>2, <2>2, <2>3 DEF rd_empty
<1> QED
  BY <1>1, <1>6, <1>7, <1>8, <1>9

-----------------------------------------------------------------------------
(* Addresses *)

LEMMA AddrValue ==
  ASSUME NEW x \in 0 .. 3 * DEPTH
  PROVE  /\ Addr(x) \in 0 .. DEPTH - 1
         /\ Addr(x) = IF x < DEPTH THEN x ELSE IF x < 2 * DEPTH THEN x - DEPTH
                      ELSE IF x < 3 * DEPTH THEN x - 2 * DEPTH ELSE 0
BY Positive, SMT DEF Addr

\* The word i places after the oldest is at the writer's address exactly when
\* it would be the next one to be written.
LEMMA WriterAddress ==
  ASSUME NEW p \in Pointers, NEW q \in Pointers, Dist(p, q) < DEPTH,
         NEW i \in 1 .. Dist(p, q) + 1
  PROVE  /\ Addr(q + i - 1) \in 0 .. DEPTH - 1
         /\ Addr(q + i - 1) = Addr(p) <=> i = Dist(p, q) + 1
<1>1. p \in 0 .. 2 * DEPTH - 1 /\ q \in 0 .. 2 * DEPTH - 1
  BY DEF Pointers
<1>2. Dist(p, q) = IF p >= q THEN p - q ELSE p - q + 2 * DEPTH
  BY DistValue
<1>3. q + i - 1 \in 0 .. 3 * DEPTH /\ p \in 0 .. 3 * DEPTH
  BY <1>1, <1>2, Positive, SMT
<1> DEFINE x == q + i - 1
<1>4. /\ Addr(x) \in 0 .. DEPTH - 1
      /\ Addr(x) = IF x < DEPTH THEN x ELSE IF x < 2 * DEPTH THEN x - DEPTH
                   ELSE IF x < 3 * DEPTH THEN x - 2 * DEPTH ELSE 0
      /\ Addr(p) = IF p < DEPTH THEN p ELSE IF p < 2 * DEPTH THEN p - DEPTH
                   ELSE IF p < 3 * DEPTH THEN p - 2 * DEPTH ELSE 0
  BY <1>3, AddrValue
<1> QED
  BY <1>1, <1>2, <1>4, Positive, SMT

LEMMA ReaderAddress ==
  ASSUME NEW q \in Pointers, NEW i \in 1 .. DEPTH
  PROVE  /\ Addr(Inc(q) + i - 1) = Addr(q + i)
         /\ Addr(q + i - 1) \in 0 .. DEPTH - 1
<1>1. q \in 0 .. 2 * DEPTH - 1
  BY DEF Pointers
<1>2. Inc(q) = IF q + 1 = 2 * DEPTH THEN 0 ELSE q + 1
  BY IncValue
<1>3. /\ Inc(q) + i - 1 \in 0 .. 3 * DEPTH /\ q + i \in 0 .. 3 * DEPTH
      /\ q + i - 1 \in 0 .. 3 * DEPTH
  BY <1>1, <1>2, Positive, SMT
<1> DEFINE x == q + i
           y == Inc(q) + i - 1
<1>4. /\ Addr(x) = IF x < DEPTH THEN x ELSE IF x < 2 * DEPTH THEN x - DEPTH
                   ELSE IF x < 3 * DEPTH THEN x - 2 * DEPTH ELSE 0
      /\ Addr(y) = IF y < DEPTH THEN y ELSE IF y < 2 * DEPTH THEN y - DEPTH
                   ELSE IF y < 3 * DEPTH THEN y - 2 * DEPTH ELSE 0
      /\ Addr(q + i - 1) \in 0 .. DEPTH - 1
  BY <1>3, AddrValue
<1> QED
  BY <1>1, <1>2, <1>4, Positive, SMT

-----------------------------------------------------------------------------
(* Every edge keeps the order, whichever clocks rise and whatever is asked *)

LEMMA WrEdgeKeeps ==
  ASSUME GrayCode, FifoInv, NEW rst \in BOOLEAN, rst => AllZero,
         WrMoves(rst), UNCHANGED rd
  PROVE  FifoInv'
<1> PICK d \in Pointers, c \in Pointers, b \in Pointers, a \in Pointers :
      InOrder(d, c, b, a)
  BY DEF FifoInv
<1>1. PICK p \in Pointers, q \in Pointers :
        p = wr.ptr /\ q = rd.ptr /\ rd.gray = bin2gray[q]
  BY DEF FifoInv
<1>2. PICK p2 \in Pointers :
      /\ p2 = wr'.ptr /\ wr'.gray = bin2gray[p2]
      /\ wr'.rd_gray_ms = rd.gray /\ wr'.rd_gray_wr = wr.rd_gray_ms
      /\ p2 = p \/ (p2 = Inc(p) /\ Dist(p, a) # DEPTH)
  BY <1>1, WriterMoves DEF InOrder, Synchronised
<1>3. Chain(p2, d, c, q, q, b) <= DEPTH
  BY <1>1, <1>2, WriterStep DEF InOrder
<1>4. InOrder(d, c, q, b)'
  BY <1>1, <1>2, <1>3 DEF InOrder, Synchronised, Chain
<1> QED
  BY <1>1, <1>2, <1>4 DEF FifoInv

LEMMA RdEdgeKeeps ==
  ASSUME GrayCode, FifoInv, NEW rst \in BOOLEAN, rst => AllZero,
         RdMoves(rst), UNCHANGED wr
  PROVE  FifoInv'
<1> PICK d \in Pointers, c \in Pointers, b \in Pointers, a \in Pointers :
      InOrder(d, c, b, a)
  BY DEF FifoInv
<1>1. PICK p \in Pointers, q \in Pointers :
        p = wr.ptr /\ q = rd.ptr /\ wr.gray = bin2gray[p]
  BY DEF FifoInv
<1>2. PICK q2 \in Pointers :
      /\ q2 = rd'.ptr /\ rd'.gray = bin2gray[q2]
      /\ rd'.wr_gray_ms = wr.gray /\ rd'.wr_gray_rd = rd.wr_gray_ms
      /\ q2 = q \/ (q2 = Inc(q) /\ q # c)
  BY <1>1, ReaderMoves DEF InOrder, Synchronised
<1>3. Chain(p, p, d, q2, b, a) <= DEPTH
  <2>1. Dist(p, d) + Dist(d, c) + Dist(c, q) + Dist(q, b) + Dist(b, a) <= DEPTH
    BY <1>1 DEF InOrder, Chain
  <2>2. Dist(c, q2) + Dist(q2, q) = Dist(c, q)
    BY <1>2, ReaderStep
  <2>3. /\ Dist(p, d) \in Nat /\ Dist(d, c) \in Nat /\ Dist(c, q) \in Nat
        /\ Dist(q, b) \in Nat /\ Dist(b, a) \in Nat /\ Dist(c, q2) \in Nat
        /\ Dist(q2, q) \in Nat /\ Dist(p, p) = 0
    BY DistNat
  <2>4. Dist(d, q2) = Dist(d, c) + Dist(c, q2)
    <3>1. Dist(d, c) + Dist(c, q2) <= DEPTH
      BY <2>1, <2>2, <2>3, Positive, SMT
    <3> QED
      BY <3>1, Shorter
  <2>5. Dist(q2, b) = Dist(q2, q) + Dist(q, b)
    <3>1. Dist(q2, q) + Dist(q, b) <= DEPTH
      BY <2>1, <2>2, <2>3, Positive, SMT
    <3> QED
      BY <3>1, Shorter
  <2>6. Dist(p, p) + Dist(p, d) + Dist(d, q2) + Dist(q2, b) + Dist(b, a) <= DEPTH
    BY <2>1, <2>2, <2>3, <2>4, <2>5, Positive, SMT
  <2> QED
    BY <2>6 DEF Chain
<1>4. InOrder(p, d, b, a)'
  BY <1>1, <1>2, <1>3 DEF InOrder, Synchronised, Chain
<1> QED
  BY <1>1, <1>2, <1>4 DEF FifoInv

LEMMA BothEdgesKeep ==
  ASSUME GrayCode, FifoInv, NEW rst \in BOOLEAN, rst => AllZero,
         WrMoves(rst), RdMoves(rst)
  PROVE  FifoInv'
<1> PICK d \in Pointers, c \in Pointers, b \in Pointers, a \in Pointers :
      InOrder(d, c, b, a)
  BY DEF FifoInv
<1>1. PICK p \in Pointers, q \in Pointers :
        /\ p = wr.ptr /\ wr.gray = bin2gray[p]
        /\ q = rd.ptr /\ rd.gray = bin2gray[q]
  BY DEF FifoInv
<1>2. PICK p2 \in Pointers :
      /\ p2 = wr'.ptr /\ wr'.gray = bin2gray[p2]
      /\ wr'.rd_gray_ms = rd.gray /\ wr'.rd_gray_wr = wr.rd_gray_ms
      /\ p2 = p \/ (p2 = Inc(p) /\ Dist(p, a) # DEPTH)
  BY <1>1, WriterMoves DEF InOrder, Synchronised
<1>3. PICK q2 \in Pointers :
      /\ q2 = rd'.ptr /\ rd'.gray = bin2gray[q2]
      /\ rd'.wr_gray_ms = wr.gray /\ rd'.wr_gray_rd = rd.wr_gray_ms
      /\ q2 = q \/ (q2 = Inc(q) /\ q # c)
  BY <1>1, ReaderMoves DEF InOrder, Synchronised
<1>4. Chain(p2, p, d, q2, q, b) <= DEPTH
  <2>1. Dist(p2, p) + Chain(p, d, c, q, q, b) <= DEPTH
    BY <1>1, <1>2, WriterStep DEF InOrder
  <2>2. Dist(c, q2) + Dist(q2, q) = Dist(c, q)
    BY <1>3, ReaderStep
  <2>3. /\ Dist(p2, p) \in Nat /\ Dist(p, d) \in Nat /\ Dist(d, c) \in Nat
        /\ Dist(c, q) \in Nat /\ Dist(q, q) = 0 /\ Dist(q, b) \in Nat
        /\ Dist(c, q2) \in Nat /\ Dist(q2, q) \in Nat
    BY DistNat
  <2>4. Dist(p2, p) + (Dist(p, d) + Dist(d, c) + Dist(c, q) + Dist(q, q) + Dist(q, b))
          <= DEPTH
    BY <2>1 DEF Chain
  <2>5. Dist(d, q2) = Dist(d, c) + Dist(c, q2)
    <3>1. Dist(d, c) + Dist(c, q2) <= DEPTH
      BY <2>2, <2>3, <2>4, Positive, SMT
    <3> QED
      BY <3>1, Shorter
  <2>6. Dist(p2, p) + Dist(p, d) + Dist(d, q2) + Dist(q2, q) + Dist(q, b) <= DEPTH
    BY <2>2, <2>3, <2>4, <2>5, Positive, SMT
  <2> QED
    BY <2>6 DEF Chain
<1>5. InOrder(p, d, q, b)'
  BY <1>1, <1>2, <1>3, <1>4 DEF InOrder, Synchronised, Chain
<1> QED
  BY <1>2, <1>3, <1>5 DEF FifoInv

LEMMA EdgesKeep ==
  ASSUME GrayCode, FifoInv, NEW rst \in BOOLEAN, rst => AllZero,
         WrMoves(rst) \/ UNCHANGED wr, RdMoves(rst) \/ UNCHANGED rd
  PROVE  FifoInv'
<1>1. CASE UNCHANGED wr /\ UNCHANGED rd
  BY <1>1 DEF FifoInv, InOrder, Synchronised
<1> QED
  BY <1>1, WrEdgeKeeps, RdEdgeKeeps, BothEdgesKeep

-----------------------------------------------------------------------------
(* First-word fall-through: rd_data is the oldest word before it is asked  *)
(* for, and stays so while nobody takes it.                                *)

HeadShown == ~rd_empty => rd.data = wr.mem[Addr(rd.ptr)]
HasMemory == DOMAIN wr.mem = 0 .. DEPTH - 1

LEMMA MemoryStays ==
  ASSUME HasMemory, NEW rst \in BOOLEAN, NEW en, NEW word,
         WrEdge(rst, en, word) \/ UNCHANGED wr
  PROVE  HasMemory'
<1>1. wr'.mem = wr.mem \/ wr'.mem = [wr.mem EXCEPT ![Addr(wr.ptr)] = word]
  BY DEF WrEdge
<1> QED
  BY <1>1 DEF HasMemory

\* What comes out was put in.
LEMMA WordsStay ==
  ASSUME NEW W, FifoInv, wr.mem \in [0 .. DEPTH - 1 -> W], rd.data \in W,
         NEW rst, NEW en, NEW pop, NEW word \in W,
         WrEdge(rst, en, word) \/ UNCHANGED wr, RdEdge(rst, pop) \/ UNCHANGED rd
  PROVE  wr'.mem \in [0 .. DEPTH - 1 -> W] /\ rd'.data \in W
<1>1. wr'.mem = wr.mem \/ wr'.mem = [wr.mem EXCEPT ![Addr(wr.ptr)] = word]
  BY DEF WrEdge
<1>2. wr'.mem \in [0 .. DEPTH - 1 -> W]
  BY <1>1
<1>3. PICK q \in Pointers : q = rd.ptr
  BY DEF FifoInv
<1>4. Addr(q) \in 0 .. DEPTH - 1 /\ Addr(q + 1) \in 0 .. DEPTH - 1
  <2>1. q \in 0 .. 3 * DEPTH /\ q + 1 \in 0 .. 3 * DEPTH
    BY Positive, SMT DEF Pointers
  <2> QED
    BY <2>1, AddrValue
<1>5. \A p : Shown(p) \in W
  BY <1>3, <1>4 DEF Shown
<1>6. rd'.data \in W
  BY <1>5 DEF RdEdge
<1> QED
  BY <1>2, <1>6

LEMMA Apart ==
  ASSUME NEW p \in Pointers, NEW q \in Pointers
  PROVE  p # q <=> Dist(p, q) > 0
<1>1. p # q => Dist(p, q) > 0
  BY MovedDistance
<1>2. Dist(p, p) = 0
  BY DistNat
<1> QED
  BY <1>1, <1>2

\* What a reader that sees a word sees is behind what the writer has written.
LEMMA SeesOldest ==
  ASSUME GrayCode, FifoInv, NEW rst \in BOOLEAN, rst => AllZero,
         RdMoves(rst) \/ UNCHANGED rd, ~rd_empty'
  PROVE  /\ rd'.ptr \in Pointers
         /\ 0 < Dist(wr.ptr, rd'.ptr) /\ Dist(wr.ptr, rd'.ptr) <= Dist(wr.ptr, rd.ptr)
<1> PICK d \in Pointers, c \in Pointers, b \in Pointers, a \in Pointers :
      InOrder(d, c, b, a)
  BY DEF FifoInv
<1>1. PICK p \in Pointers, q \in Pointers : p = wr.ptr /\ q = rd.ptr
  BY DEF FifoInv
<1>2. Dist(p, q) = Dist(p, d) + Dist(d, c) + Dist(c, q)
  <2>1. Chain(p, d, c, q, b, a) <= DEPTH
    BY <1>1 DEF InOrder
  <2> QED
    BY <2>1, ChainEnds, SMTT(20)
<1>3. /\ Dist(p, d) \in Nat /\ Dist(d, c) \in Nat /\ Dist(c, q) \in Nat
      /\ Dist(p, q) \in Nat
  BY DistNat
<1>4. CASE UNCHANGED rd
  <2>1. rd'.ptr = q /\ q # c
    <3>1. rd_ptr_bin = rd_ptr_bin /\ wr_ptr_bin' = c
      BY <1>4, Decoded DEF wr_ptr_bin, InOrder, Synchronised
    <3> QED
      BY <1>1, <1>4, <3>1 DEF rd_empty
  <2>2. Dist(c, q) > 0
    BY <2>1, Apart
  <2> QED
    BY <1>1, <1>2, <1>3, <2>1, <2>2, SMT
<1>5. CASE RdMoves(rst)
  <2>1. PICK q2 \in Pointers :
        /\ q2 = rd'.ptr /\ rd'.wr_gray_rd = bin2gray[d]
        /\ q2 = q \/ (q2 = Inc(q) /\ q # c)
    BY <1>1, <1>5, ReaderMoves DEF InOrder, Synchronised
  <2>2. q2 # d
    BY <2>1, Decoded DEF rd_empty, wr_ptr_bin
  <2>3. q2 # q => Dist(c, q) > 0 /\ Dist(p, q2) = Dist(p, q) - 1
    <3>1. q # c => Dist(c, q) > 0
      BY Apart
    <3>2. q # c => p # q
      <4>1. Dist(c, q) > 0 => Dist(p, q) > 0
        BY <1>2, <1>3, SMT
      <4> QED
        BY <3>1, <4>1, Apart
    <3> QED
      BY <2>1, <3>1, <3>2, MovedDistance
  <2>4. Dist(p, q2) \in Nat
    BY DistNat
  <2>5. Dist(p, q2) # 0
    <3> SUFFICES ASSUME Dist(p, q2) = 0 PROVE FALSE
      OBVIOUS
    <3>1. Dist(p, d) = 0
      BY <1>2, <1>3, <2>3, SMT
    <3>2. p = d /\ p = q2
      BY <3>1, Apart, <2>4
    <3> QED
      BY <2>2, <3>2
  <2> QED
    BY <1>1, <1>3, <2>1, <2>3, <2>4, <2>5, SMT
<1> QED
  BY <1>4, <1>5

LEMMA HeadKept ==
  ASSUME GrayCode, FifoInv, FWFT, HeadShown, HasMemory,
         NEW rst \in BOOLEAN, rst => AllZero, NEW en,
         WrMoves(rst) \/ UNCHANGED wr, RdEdge(rst, en) \/ UNCHANGED rd
  PROVE  HeadShown'
<1> SUFFICES ASSUME ~rd_empty' PROVE rd'.data = wr'.mem[Addr(rd'.ptr)]
  BY DEF HeadShown
<1>1. RdMoves(rst) \/ UNCHANGED rd
  BY EdgesMove
<1>2. ~rst
  <2>1. ASSUME rst PROVE FALSE
    <3>1. AllZero'
      BY <1>1, <2>1, ZeroStays
    <3>2. 0 \in Pointers
      BY Positive, SMT DEF Pointers
    <3>3. rd_empty'
      BY <3>1, <3>2, Decoded DEF AllZero, Synchronised, rd_empty, wr_ptr_bin
    <3> QED
      BY <3>3
  <2> QED
    BY <2>1
<1>3. PICK p \in Pointers, q \in Pointers : p = wr.ptr /\ q = rd.ptr
  BY DEF FifoInv
<1>4. PICK q2 \in Pointers :
        /\ q2 = rd'.ptr /\ 0 < Dist(p, q2) /\ Dist(p, q2) <= Dist(p, q)
  BY <1>1, <1>3, SeesOldest
<1>5. rd'.data = wr.mem[Addr(q2)]
  <2>1. CASE UNCHANGED rd
    BY <1>4, <2>1 DEF HeadShown, rd_empty, wr_ptr_bin
  <2>2. CASE RdEdge(rst, en)
    <3> DEFINE pop == en /\ ~rd_empty
    <3>1. /\ rd'.ptr = Moved(rd.ptr, rst, pop) /\ rd'.data = Shown(pop)
      BY <2>2 DEF RdEdge
    <3>2. CASE pop
      <4>1. q2 = Inc(q) /\ rd'.data = wr.mem[Addr(q + 1)]
        BY <1>2, <1>3, <1>4, <3>1, <3>2 DEF Moved, Shown
      <4>2. Addr(Inc(q) + 1 - 1) = Addr(q + 1) /\ Inc(q) \in Nat
        <5>1. 1 \in 1 .. DEPTH
          BY Positive, SMT
        <5> QED
          BY <5>1, ReaderAddress, IncValue, Positive DEF Pointers
      <4>3. Inc(q) + 1 - 1 = Inc(q)
        BY <4>2, SMT
      <4> QED
        BY <4>1, <4>2, <4>3
    <3>3. CASE ~pop
      BY <1>2, <1>3, <1>4, <3>1, <3>3 DEF Moved, Shown
    <3> QED
      BY <3>2, <3>3
  <2> QED
    BY <2>1, <2>2
<1>6. wr'.mem[Addr(q2)] = wr.mem[Addr(q2)]
  <2>1. CASE wr'.mem = wr.mem
    BY <2>1
  <2>2. ASSUME ~wr_full, NEW word, wr'.mem = [wr.mem EXCEPT ![Addr(p)] = word]
        PROVE  wr'.mem[Addr(q2)] = wr.mem[Addr(q2)]
    <3> PICK d \in Pointers, c \in Pointers, b \in Pointers, a \in Pointers :
          InOrder(d, c, b, a)
      BY DEF FifoInv
    <3>1. Dist(p, a) # DEPTH
      BY <1>3, <2>2, FullValue, Decoded DEF wr_full, rd_ptr_bin, InOrder, Synchronised
    <3>2. Chain(p, d, c, q, b, a) <= DEPTH
      BY <1>3 DEF InOrder
    <3>3. /\ Dist(p, a) = Chain(p, d, c, q, b, a)
          /\ Dist(p, q) = Dist(p, d) + Dist(d, c) + Dist(c, q)
      BY <3>2, ChainEnds, SMTT(20)
    <3>4. /\ Dist(p, d) \in Nat /\ Dist(d, c) \in Nat /\ Dist(c, q) \in Nat
          /\ Dist(q, b) \in Nat /\ Dist(b, a) \in Nat /\ Dist(p, a) \in Nat
          /\ Dist(p, q2) \in Nat /\ Dist(p, q) \in Nat
      BY DistNat
    <3>5. Dist(p, q2) < DEPTH
      BY <1>4, <3>1, <3>2, <3>3, <3>4, Positive, SMT DEF Chain
    <3>6. /\ Addr(q2 + 1 - 1) \in 0 .. DEPTH - 1
          /\ Addr(q2 + 1 - 1) = Addr(p) <=> 1 = Dist(p, q2) + 1
      <4>1. 1 \in 1 .. Dist(p, q2) + 1
        BY <3>4, SMT
      <4> QED
        BY <3>5, <4>1, WriterAddress
    <3>7. q2 + 1 - 1 = q2
      <4>1. q2 \in Int
        BY Positive DEF Pointers
      <4> QED
        BY <4>1, SMT
    <3>8. Addr(q2) # Addr(p)
      BY <1>4, <3>4, <3>6, <3>7
    <3> QED
      BY <2>2, <3>6, <3>7, <3>8 DEF HasMemory
  <2> QED
    BY <1>2, <1>3, <2>1, <2>2 DEF WrMoves
<1> QED
  BY <1>4, <1>5, <1>6

\* A word that is shown and not taken stays.
LEMMA HeadWaits ==
  ASSUME GrayCode, FifoInv, FWFT, HeadShown, ~rd_empty,
         NEW rst, ~rst, NEW en, ~en, RdEdge(rst, en)
  PROVE  ~rd_empty' /\ rd'.data = rd.data
<1> PICK d \in Pointers, c \in Pointers, b \in Pointers, a \in Pointers :
      InOrder(d, c, b, a)
  BY DEF FifoInv
<1>1. PICK p \in Pointers, q \in Pointers : p = wr.ptr /\ q = rd.ptr
  BY DEF FifoInv
<1>2. /\ rd'.ptr = q /\ rd'.wr_gray_rd = bin2gray[d]
      /\ rd'.data = wr.mem[Addr(q)]
  BY <1>1 DEF RdEdge, Moved, Shown, InOrder, Synchronised
<1>3. q # c
  BY <1>1, Decoded DEF rd_empty, wr_ptr_bin, InOrder, Synchronised
<1>4. q # d
  <2>1. /\ Dist(p, d) \in Nat /\ Dist(d, c) \in Nat /\ Dist(c, q) \in Nat
        /\ Dist(q, b) \in Nat /\ Dist(b, a) \in Nat
    BY DistNat
  <2>2. Dist(d, c) + Dist(c, q) <= DEPTH
    BY <1>1, <2>1, Positive, SMT DEF InOrder, Chain
  <2>3. Dist(d, q) = Dist(d, c) + Dist(c, q)
    BY <2>2, Shorter
  <2>4. Dist(c, q) > 0
    BY <1>3, Apart
  <2>5. Dist(d, q) > 0
    BY <2>1, <2>3, <2>4, SMT
  <2> QED
    BY <2>5, Apart
<1>5. ~rd_empty'
  BY <1>2, <1>4, Decoded DEF rd_empty, wr_ptr_bin
<1> QED
  BY <1>1, <1>2, <1>5 DEF HeadShown
-----------------------------------------------------------------------------
(* The queue: what the memory holds between the pointers *)

Held(p, q, mem) == [i \in 1 .. Dist(p, q) |-> mem[Addr(q + i - 1)]]
Memory(W) == [0 .. DEPTH - 1 -> W]
Written(mem, p, w) == [mem EXCEPT ![Addr(p)] = w]

LEMMA HeldIsSeq ==
  ASSUME NEW W, NEW p \in Pointers, NEW q \in Pointers, Dist(p, q) <= DEPTH,
         NEW mem \in Memory(W)
  PROVE  /\ Held(p, q, mem) \in Seq(W)
         /\ Len(Held(p, q, mem)) = Dist(p, q)
         /\ \A i \in 1 .. Dist(p, q) : Held(p, q, mem)[i] = mem[Addr(q + i - 1)]
<1>1. Dist(p, q) \in Nat
  BY DistNat
<1>2. \A i \in 1 .. Dist(p, q) : mem[Addr(q + i - 1)] \in W
  <2> TAKE i \in 1 .. Dist(p, q)
  <2>1. i \in 1 .. DEPTH
    BY <1>1, Positive, SMT
  <2> QED
    BY <2>1, ReaderAddress DEF Memory
<1>3. Held(p, q, mem) \in [1 .. Dist(p, q) -> W]
  BY <1>2 DEF Held
<1> QED
  BY <1>1, <1>2, <1>3, SMT DEF Held

LEMMA WriteAppends ==
  ASSUME NEW W, NEW p \in Pointers, NEW q \in Pointers, Dist(p, q) < DEPTH,
         NEW mem \in Memory(W), NEW w \in W
  PROVE  /\ Written(mem, p, w) \in Memory(W)
         /\ Held(Inc(p), q, Written(mem, p, w)) = Append(Held(p, q, mem), w)
<1> DEFINE n == Dist(p, q)
           new == Written(mem, p, w)
           s == Held(Inc(p), q, new)
           t == Held(p, q, mem)
<1>1. n \in Nat
  BY DistNat
<1>2. new \in Memory(W)
  BY DEF Memory, Written
<1>3. Inc(p) \in Pointers /\ Dist(Inc(p), q) = n + 1
  <2>1. n < 2 * DEPTH - 1
    BY <1>1, Positive, SMT
  <2> QED
    BY <2>1, IncValue, MovedDistance
<1>4. t \in Seq(W) /\ Len(t) = n /\ \A i \in 1 .. n : t[i] = mem[Addr(q + i - 1)]
  <2>1. n <= DEPTH
    BY <1>1, Positive, SMT
  <2> QED
    BY <2>1, HeldIsSeq
<1>5. /\ s \in Seq(W) /\ Len(s) = n + 1
      /\ \A i \in 1 .. n + 1 : s[i] = new[Addr(q + i - 1)]
  <2>1. Inc(p) \in Pointers /\ Dist(Inc(p), q) <= DEPTH
    BY <1>1, <1>3, Positive, SMT
  <2> HIDE DEF n, new
  <2>2. /\ s \in Seq(W) /\ Len(s) = Dist(Inc(p), q)
        /\ \A i \in 1 .. Dist(Inc(p), q) : s[i] = new[Addr(q + i - 1)]
    BY <1>2, <2>1, HeldIsSeq
  <2> QED
    BY <1>3, <2>2
<1>6. ASSUME NEW i \in 1 .. n + 1
      PROVE  /\ i = n + 1 => s[i] = w
             /\ i # n + 1 => s[i] = t[i]
  <2>1. /\ Addr(q + i - 1) \in 0 .. DEPTH - 1
        /\ Addr(q + i - 1) = Addr(p) <=> i = n + 1
    BY WriterAddress
  <2>2. s[i] = new[Addr(q + i - 1)]
    BY <1>5
  <2>3. CASE i = n + 1
    BY <2>1, <2>2, <2>3 DEF Memory, Written
  <2>4. CASE i # n + 1
    <3>1. i \in 1 .. n
      BY <1>1, <2>4, SMT
    <3>2. new[Addr(q + i - 1)] = mem[Addr(q + i - 1)]
      BY <2>1, <2>4 DEF Memory, Written
    <3> QED
      BY <1>4, <2>2, <2>4, <3>1, <3>2
  <2> QED
    BY <2>3, <2>4
<1> HIDE DEF n, s, t, new
<1>7. /\ Append(t, w) \in Seq(W) /\ Len(Append(t, w)) = n + 1
      /\ \A i \in 1 .. n + 1 : Append(t, w)[i] = IF i = n + 1 THEN w ELSE t[i]
  BY <1>1, <1>4, SMT
<1>8. s = Append(t, w)
  BY <1>5, <1>6, <1>7, SeqEqual
<1> QED
  BY <1>2, <1>8 DEF n, s, t, new

LEMMA ReadTakesHead ==
  ASSUME NEW W, NEW p \in Pointers, NEW q \in Pointers, p # q, Dist(p, q) <= DEPTH,
         NEW mem \in Memory(W)
  PROVE  /\ Held(p, q, mem) # <<>>
         /\ Head(Held(p, q, mem)) = mem[Addr(q)]
         /\ Held(p, Inc(q), mem) = Tail(Held(p, q, mem))
         /\ Dist(p, Inc(q)) < DEPTH
<1> DEFINE n == Dist(p, q)
           s == Held(p, Inc(q), mem)
           t == Held(p, q, mem)
<1>1. n \in Nat /\ n > 0
  BY DistNat, MovedDistance
<1>2. Inc(q) \in Pointers /\ Dist(p, Inc(q)) = n - 1 /\ n - 1 < DEPTH
  <2>1. Inc(q) \in Pointers /\ Dist(p, Inc(q)) = n - 1
    BY IncValue, MovedDistance
  <2>2. n - 1 < DEPTH
    BY <1>1, Positive, SMT
  <2> QED
    BY <2>1, <2>2
<1>3. t \in Seq(W) /\ Len(t) = n /\ \A i \in 1 .. n : t[i] = mem[Addr(q + i - 1)]
  BY HeldIsSeq
<1>4. /\ s \in Seq(W) /\ Len(s) = n - 1
      /\ \A i \in 1 .. n - 1 : s[i] = mem[Addr(Inc(q) + i - 1)]
  <2>1. Dist(p, Inc(q)) <= DEPTH
    BY <1>1, <1>2, Positive, SMT
  <2> QED
    BY <1>2, <2>1, HeldIsSeq
<1>5. t[1] = mem[Addr(q)]
  <2>1. 1 \in 1 .. n /\ q + 1 - 1 = q
    BY <1>1, SMT DEF Pointers
  <2> QED
    BY <1>3, <2>1
<1>6. ASSUME NEW i \in 1 .. n - 1
      PROVE  s[i] = t[i + 1]
  <2>1. i \in 1 .. DEPTH /\ i + 1 \in 1 .. n /\ q + (i + 1) - 1 = q + i
    BY <1>1, <1>2, Positive, SMT DEF Pointers
  <2>2. Addr(Inc(q) + i - 1) = Addr(q + i)
    BY <2>1, ReaderAddress
  <2> QED
    BY <1>3, <1>4, <2>1, <2>2
<1> HIDE DEF n, s, t
<1>7. t # <<>> /\ Head(t) = t[1]
  BY <1>1, <1>3, SMT
<1>8. /\ Tail(t) \in Seq(W) /\ Len(Tail(t)) = n - 1
      /\ \A i \in 1 .. n - 1 : Tail(t)[i] = t[i + 1]
  BY <1>1, <1>3, <1>7, HeadTailProperties
<1>9. s = Tail(t)
  BY <1>4, <1>6, <1>8, SeqEqual
<1> QED
  BY <1>2, <1>5, <1>7, <1>9 DEF n, s, t

LEMMA NothingHeld ==
  ASSUME NEW m, NEW n
  PROVE  Held(0, 0, m) = Held(0, 0, n)
<1>1. 0 \in Pointers
  BY Positive, SMT DEF Pointers
<1>2. Dist(0, 0) = 0
  BY <1>1, DistNat
<1> QED
  BY <1>2, SMT DEF Held

\* The queue is what the module calls Contents; its length is the level that
\* neither side sees, and the flags are on the safe side of it.
LEMMA QueueIs ==
  ASSUME GrayCode, FifoInv, NEW W, wr.mem \in Memory(W)
  PROVE  /\ Contents = Held(wr.ptr, rd.ptr, wr.mem) /\ Contents \in Seq(W)
         /\ Len(Contents) = Dist(wr.ptr, rd.ptr) /\ Len(Contents) \in 0 .. DEPTH
         /\ ~wr_full => Len(Contents) < DEPTH
         /\ ~rd_empty => Contents # <<>> /\ Head(Contents) = wr.mem[Addr(rd.ptr)]
<1>1. PICK p \in Pointers, q \in Pointers, m \in Memory(W) :
        p = wr.ptr /\ q = rd.ptr /\ m = wr.mem
  BY DEF FifoInv
<1>2. /\ Size = Dist(p, q) /\ Size \in 0 .. DEPTH
      /\ ~wr_full => Size < DEPTH
      /\ ~rd_empty => p # q
  BY <1>1, LevelsInOrder
<1>3. Dist(p, q) <= DEPTH
  BY <1>2, Positive, SMT
<1>4. Held(p, q, m) \in Seq(W) /\ Len(Held(p, q, m)) = Dist(p, q)
  BY <1>3, HeldIsSeq
<1>5. Contents = Held(p, q, m)
  BY <1>1 DEF Contents, Size, Held, Dist
<1>6. p # q => Held(p, q, m) # <<>> /\ Head(Held(p, q, m)) = m[Addr(q)]
  BY <1>3, ReadTakesHead
<1> QED
  BY <1>1, <1>2, <1>4, <1>5, <1>6

\* What the edges of one instant do to the queue, with or without an edge of
\* either clock: a word that is written comes last, one that is read was first.
LeftOf(queue, reads) == IF reads THEN Tail(queue) ELSE queue

LEMMA QueueMoves ==
  ASSUME GrayCode, FifoInv, NEW W, wr.mem \in Memory(W), NEW word \in W,
         NEW en \in BOOLEAN, NEW go \in BOOLEAN,
         WrEdge(FALSE, en, word) \/ (~en /\ UNCHANGED wr),
         RdEdge(FALSE, go) \/ (~go /\ UNCHANGED rd)
  PROVE  LET left == LeftOf(Contents, go /\ ~rd_empty)
         IN Contents' = IF en /\ ~wr_full THEN Append(left, word) ELSE left
<1>1. PICK p \in Pointers, q \in Pointers, m \in Memory(W) :
        p = wr.ptr /\ q = rd.ptr /\ m = wr.mem
  BY DEF FifoInv
<1> DEFINE push == en /\ ~wr_full
           pop == go /\ ~rd_empty
<1>2. /\ Contents = Held(p, q, m)
      /\ Contents' = Held(wr'.ptr, rd'.ptr, wr'.mem)
      /\ Dist(p, q) \in 0 .. DEPTH /\ (push => Dist(p, q) < DEPTH) /\ (pop => p # q)
  <2>1. Contents' = Held(wr'.ptr, rd'.ptr, wr'.mem)
    BY DEF Contents, Size, Held, Dist
  <2>2. Contents = Held(p, q, m)
    BY <1>1, QueueIs
  <2>3. /\ Size = Dist(p, q) /\ Size \in 0 .. DEPTH
        /\ ~wr_full => Size < DEPTH
        /\ ~rd_empty => p # q
    BY <1>1, LevelsInOrder
  <2> QED
    BY <2>1, <2>2, <2>3
<1>3. /\ push => wr'.ptr = Inc(p) /\ wr'.mem = Written(m, p, word)
      /\ ~push => wr'.ptr = p /\ wr'.mem = m
  BY <1>1 DEF WrEdge, Moved, Written
<1>4. /\ pop => rd'.ptr = Inc(q)
      /\ ~pop => rd'.ptr = q
  BY <1>1 DEF RdEdge, Moved
<1>5. Inc(q) \in Pointers
  BY IncValue
<1>6. Dist(p, q) <= DEPTH
  BY <1>2, Positive, SMT
<1>7. /\ push \in BOOLEAN /\ pop \in BOOLEAN
  OBVIOUS
<1> HIDE DEF push, pop
<1>8. pop => /\ Held(p, Inc(q), m) = Tail(Held(p, q, m))
             /\ Dist(p, Inc(q)) < DEPTH
  BY <1>2, <1>6, ReadTakesHead
<1>9. push /\ ~pop => Held(Inc(p), q, Written(m, p, word)) = Append(Held(p, q, m), word)
  BY <1>2, WriteAppends
<1>10. push /\ pop =>
         Held(Inc(p), Inc(q), Written(m, p, word)) = Append(Held(p, Inc(q), m), word)
  BY <1>5, <1>8, WriteAppends
<1>11. Contents' = IF push THEN Append(LeftOf(Contents, pop), word) ELSE LeftOf(Contents, pop)
  BY <1>2, <1>3, <1>4, <1>7, <1>8, <1>9, <1>10 DEF LeftOf
<1> QED
  BY <1>11 DEF push, pop

\* Pointers of different laps that name the same word.
LEMMA HalfApart ==
  ASSUME NEW p \in 0 .. 2 * DEPTH - 1, NEW a \in 0 .. 2 * DEPTH - 1, NEW x, NEW y,
         x = IF p >= DEPTH THEN p - DEPTH ELSE p,
         y = IF a >= DEPTH THEN a - DEPTH ELSE a,
         x = y, p >= DEPTH <=> a < DEPTH
  PROVE  (p >= DEPTH => p - DEPTH = a) /\ (p < DEPTH => p = a - DEPTH)
BY Positive

\* wr_full needs DEPTH words that the writer does not know to have been read, so
\* it needs DEPTH words to have been written; and what the writer sees never
\* grows by more than it writes.
LEMMA FullIsDepth ==
  ASSUME GrayCode, FifoInv, wr_full
  PROVE  wr_level = DEPTH
<1>1. PICK p \in Pointers, a \in Pointers : p = wr.ptr /\ wr.rd_gray_wr = bin2gray[a]
  BY DEF FifoInv, InOrder, Synchronised
<1>2. rd_ptr_bin = a
  BY <1>1, Decoded DEF rd_ptr_bin
<1>3. /\ p \div DEPTH # a \div DEPTH /\ Addr(p) = Addr(a)
      /\ wr_level = Dist(p, a)
  BY <1>1, <1>2 DEF wr_full, wr_level, Dist
<1>4. ASSUME NEW n \in Pointers
      PROVE  /\ Addr(n) = IF n >= DEPTH THEN n - DEPTH ELSE n
             /\ n \div DEPTH = IF n >= DEPTH THEN 1 ELSE 0
  <2>1. n \in 0 .. 2 * DEPTH - 1
    BY DEF Pointers
  <2>2. Addr(n) = IF n >= DEPTH THEN n - DEPTH ELSE n
    BY <2>1, Positive, SMT DEF Addr
  <2>3. n \div DEPTH = IF n >= DEPTH THEN 1 ELSE 0
    BY <2>1, Positive, SMT
  <2> QED
    BY <2>2, <2>3
<1>5. p \in 0 .. 2 * DEPTH - 1 /\ a \in 0 .. 2 * DEPTH - 1
  BY DEF Pointers
<1>6. Dist(p, a) = IF p >= a THEN p - a ELSE p - a + 2 * DEPTH
  BY DistValue
<1>7. /\ Addr(p) = IF p >= DEPTH THEN p - DEPTH ELSE p
      /\ p \div DEPTH = IF p >= DEPTH THEN 1 ELSE 0
      /\ Addr(a) = IF a >= DEPTH THEN a - DEPTH ELSE a
      /\ a \div DEPTH = IF a >= DEPTH THEN 1 ELSE 0
  BY <1>4
<1>8. Addr(p) = Addr(a) /\ (p >= DEPTH <=> a < DEPTH)
  BY <1>3, <1>5, <1>7, Positive
<1>9. /\ Addr(p) = IF p >= DEPTH THEN p - DEPTH ELSE p
      /\ Addr(a) = IF a >= DEPTH THEN a - DEPTH ELSE a
  BY <1>7
<1>10. /\ p >= DEPTH => p - DEPTH = a
       /\ p < DEPTH => p = a - DEPTH
  BY <1>5, <1>8, <1>9, HalfApart
<1>11. Dist(p, a) = DEPTH
  BY <1>5, <1>6, <1>8, <1>10, Positive, SMT
<1> QED
  BY <1>3, <1>11

LEMMA SeenGrowth ==
  ASSUME GrayCode, FifoInv, NEW en \in BOOLEAN, NEW word,
         WrEdge(FALSE, en, word) \/ (~en /\ UNCHANGED wr)
  PROVE  /\ wr_level \in Nat /\ wr_level' \in Nat
         /\ wr_level' <= IF en /\ ~wr_full THEN wr_level + 1 ELSE wr_level
<1> PICK d \in Pointers, c \in Pointers, b \in Pointers, a \in Pointers :
      InOrder(d, c, b, a)
  BY DEF FifoInv
<1>1. PICK p \in Pointers, q \in Pointers : p = wr.ptr /\ q = rd.ptr
  BY DEF FifoInv
<1> DEFINE push == en /\ ~wr_full
<1>2. Chain(p, d, c, q, b, a) <= DEPTH
  BY <1>1 DEF InOrder
<1>3. /\ Dist(p, d) \in Nat /\ Dist(d, c) \in Nat /\ Dist(c, q) \in Nat
      /\ Dist(q, b) \in Nat /\ Dist(b, a) \in Nat
      /\ Dist(p, a) \in Nat /\ Dist(p, b) \in Nat
  BY DistNat
<1>4. /\ Dist(p, a) = Chain(p, d, c, q, b, a)
      /\ Dist(p, q) = Dist(p, d) + Dist(d, c) + Dist(c, q)
  BY <1>2, ChainEnds, SMTT(20)
<1>5. Dist(p, b) = Dist(p, q) + Dist(q, b) /\ Dist(p, b) <= Dist(p, a) /\ Dist(p, a) <= DEPTH
  <2>1. Dist(p, q) + Dist(q, b) <= DEPTH
    BY <1>2, <1>3, <1>4, Positive, SMT DEF Chain
  <2>2. Dist(p, b) = Dist(p, q) + Dist(q, b)
    BY <2>1, Shorter
  <2> QED
    BY <1>2, <1>3, <1>4, <2>2, Positive, SMT DEF Chain
<1>6. wr_level = Dist(p, a) /\ rd_ptr_bin = a
  BY <1>1, Decoded DEF wr_level, rd_ptr_bin, Dist, InOrder, Synchronised
<1>7. CASE UNCHANGED wr /\ ~en
  <2>1. wr_level' = wr_level
    BY <1>7 DEF wr_level, rd_ptr_bin
  <2> QED
    BY <1>3, <1>6, <1>7, <2>1
<1>8. CASE WrEdge(FALSE, en, word)
  <2>1. wr'.ptr = (IF push THEN Inc(p) ELSE p) /\ wr'.rd_gray_wr = bin2gray[b]
    BY <1>1, <1>8 DEF WrEdge, Moved, InOrder, Synchronised
  <2>2. rd_ptr_bin' = b
    BY <2>1, Decoded DEF rd_ptr_bin
  <2>3. wr_level' = IF push THEN Dist(Inc(p), b) ELSE Dist(p, b)
    BY <2>1, <2>2 DEF wr_level, Dist
  <2>4. push => Dist(Inc(p), b) = Dist(p, b) + 1
    <3>1. push => Dist(p, a) # DEPTH
      BY <1>1, <1>6, FullValue DEF wr_full
    <3>2. push => Dist(p, b) < 2 * DEPTH - 1
      BY <1>3, <1>5, <3>1, Positive, SMT
    <3> QED
      BY <3>2, MovedDistance
  <2> HIDE DEF push
  <2> QED
    BY <1>3, <1>5, <1>6, <2>3, <2>4, Positive, SMT DEF push
<1> QED
  BY <1>7, <1>8
=============================================================================
