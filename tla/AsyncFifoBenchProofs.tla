------------------------ MODULE AsyncFifoBenchProofs ------------------------
(***************************************************************************)
(* For every depth: the asynchronous FIFO in its bench keeps its levels    *)
(* and implements the bounded queue.  The queue is what the memory holds   *)
(* from the reader's pointer up to the writer's; that a write falls        *)
(* outside of it, and that a read finds something in it, follows from the  *)
(* order of the pointers proved in AsyncFifoProofs, although neither side  *)
(* compares the two.  Hence, for every word width too, the bench reads the *)
(* words it wrote.                                                         *)
(***************************************************************************)
EXTENDS AsyncFifoBench, AsyncFifoProofs, SequenceTheorems

-----------------------------------------------------------------------------
(* The pointers under the bench's reset *)

PointerInv ==
  /\ FifoInv
  /\ rst \in BOOLEAN /\ (rst => AllZero)
  /\ resetLeft \in Nat /\ (rst <=> resetLeft > 0)

LEMMA PointerInit == BenchInit => PointerInv
BY FifoInit, BenchAssumption DEF PointerInv, BenchInit

LEMMA ResetTick ==
  ASSUME PointerInv, ResetProcess
  PROVE  /\ rst' => rst
         /\ rst' <=> resetLeft' > 0
         /\ resetLeft' \in Nat /\ rst' \in BOOLEAN
<1>1. resetLeft \in Nat /\ (rst <=> resetLeft > 0)
  BY DEF PointerInv
<1>2. resetLeft' = (IF resetLeft > 0 THEN resetLeft - 1 ELSE 0)
  BY DEF ResetProcess
<1>3. resetLeft' \in Nat /\ (resetLeft' > 0 <=> resetLeft > 0 /\ resetLeft # 1)
  BY <1>1, <1>2, SMT
<1>4. rst \in BOOLEAN /\ rst' = IF resetLeft = 1 THEN FALSE ELSE rst
  BY DEF PointerInv, ResetProcess
<1>5. CASE resetLeft = 1
  BY <1>3, <1>4, <1>5
<1>6. CASE resetLeft # 1
  BY <1>1, <1>3, <1>4, <1>6
<1> QED
  BY <1>5, <1>6

\* The six pointers keep their order whichever clock rises.
THEOREM PointersInOrder == Spec => []PointerInv
<1>1. PointerInv /\ [Next]_vars => PointerInv'
  <2> SUFFICES ASSUME PointerInv, [Next]_vars PROVE PointerInv'
    OBVIOUS
  <2>1. CASE UNCHANGED <<wr, rd, rst, resetLeft>>
    BY <2>1 DEF PointerInv, FifoInv, InOrder, AllZero, Synchronised
  <2>2. CASE WrClock \/ RdClock \/ BothClocks
    <3>1. WrMoves(rst) \/ UNCHANGED wr
      BY <2>2, EdgesMove DEF WrClock, RdClock, BothClocks, WrTick, writeVars, PointerInv
    <3>2. RdMoves(rst) \/ UNCHANGED rd
      BY <2>2, EdgesMove DEF WrClock, RdClock, BothClocks, RdTick, readVars, PointerInv
    <3>3. FifoInv'
      BY <3>1, <3>2, EdgesKeep, BenchAssumption DEF PointerInv
    <3>4. /\ rst' => rst
          /\ rst' <=> resetLeft' > 0
          /\ resetLeft' \in Nat /\ rst' \in BOOLEAN
      BY <2>2, ResetTick DEF WrClock, RdClock, BothClocks, WrTick, writeVars, PointerInv
    <3>5. rst => AllZero'
      BY <3>1, <3>2, ZeroStays DEF PointerInv
    <3> QED
      BY <3>3, <3>4, <3>5 DEF PointerInv
  <2> QED
    BY <2>1, <2>2 DEF Next, SetGo, vars, writeVars, readVars
<1> QED
  BY <1>1, PointerInit, PTL DEF Spec

\* The FIFO never holds more than DEPTH words, the writer never sees fewer than
\* there are and the reader never more: wr_full and rd_empty are on the safe side
\* at every depth.
THEOREM LevelsAreConservative == Spec => []LevelsConservative
<1>1. PointerInv => LevelsConservative
  BY LevelsInOrder, BenchAssumption, Positive DEF PointerInv, LevelsConservative
<1> QED
  BY <1>1, PointersInOrder, PTL

\* The request for a word is computed from rd_empty and registered; by the edge
\* at which the FIFO sees it, rd_empty has not become true again.
RequestInv == (rd_en => ~rd_empty) /\ ~rd.underflow

THEOREM NothingReadFromEmpty == Spec => []NoUnderflow
<1>1. BenchInit => RequestInv
  BY DEF BenchInit, Init, RequestInv
<1>2. RequestInv /\ [Next]_vars => RequestInv'
  <2> SUFFICES ASSUME RequestInv, [Next]_vars PROVE RequestInv'
    OBVIOUS
  <2>1. CASE UNCHANGED <<rd, rd_en>>
    BY <2>1 DEF RequestInv, rd_empty, wr_ptr_bin
  <2>2. CASE RdTick
    <3>1. rd'.underflow = (~rst /\ rd_en /\ rd_empty)
      BY <2>2 DEF RdTick, RdEdge
    <3>2. ~(rd_en /\ rd_empty)
      BY DEF RequestInv
    <3>3. rd_en' = ~rd_empty'
      BY <2>2 DEF RdTick, Request
    <3> QED
      BY <3>1, <3>2, <3>3 DEF RequestInv
  <2> QED
    BY <2>1, <2>2 DEF Next, SetGo, WrClock, RdClock, BothClocks, vars, readVars
<1> QED
  BY <1>1, <1>2, PTL DEF Spec, RequestInv, NoUnderflow

-----------------------------------------------------------------------------
(* The steps of the bench *)

DataInv ==
  /\ wr.mem \in Memory(Words) /\ rd.data \in Words
  /\ wr_data \in Words /\ wr_ok \in Words

Held0 == Held(wr.ptr, rd.ptr, wr.mem)

LEMMA ContentsHeld == Contents = Held0 /\ Contents' = Held0'
BY DEF Contents, Size, Held0, Held, Dist

LEMMA Flags ==
  ASSUME PointerInv
  PROVE  /\ wr.ptr \in Pointers /\ rd.ptr \in Pointers
         /\ Dist(wr.ptr, rd.ptr) <= DEPTH
         /\ ~wr_full => Dist(wr.ptr, rd.ptr) < DEPTH
         /\ ~rd_empty => wr.ptr # rd.ptr
         /\ rst => wr.ptr = 0 /\ rd.ptr = 0 /\ rd_empty
<1>1. /\ wr.ptr \in Pointers /\ rd.ptr \in Pointers
      /\ Dist(wr.ptr, rd.ptr) <= DEPTH
      /\ ~wr_full => Dist(wr.ptr, rd.ptr) < DEPTH
      /\ ~rd_empty => wr.ptr # rd.ptr
  BY LevelsInOrder, BenchAssumption, Positive DEF PointerInv, FifoInv
<1>2. rst => wr.ptr = 0 /\ rd.ptr = 0 /\ rd_empty
  <2>1. gray2bin[bin2gray[0]] = 0
    <3>1. 0 \in Pointers
      BY Positive, SMT DEF Pointers
    <3> QED
      BY <3>1, Decoded, BenchAssumption
  <2> QED
    BY <2>1 DEF PointerInv, AllZero, Synchronised, rd_empty, wr_ptr_bin
<1> QED
  BY <1>1, <1>2

LEMMA DataInit == BenchInit => DataInv
<1> SUFFICES ASSUME BenchInit PROVE DataInv
  OBVIOUS
<1>1. 0 \in Words /\ Blank \in Words
  BY BenchAssumption, SMT DEF Words
<1> QED
  BY <1>1 DEF BenchInit, Init, DataInv, Memory

\* What an edge of wr_clk writes, and what one of rd_clk shows.
LEMMA WrEdgeWrites ==
  ASSUME PointerInv, DataInv, WrTick
  PROVE  /\ wr'.mem \in Memory(Words)
         /\ ~rst => \/ /\ wr'.ptr = Inc(wr.ptr) /\ Dist(wr.ptr, rd.ptr) < DEPTH
                       /\ wr'.mem = [wr.mem EXCEPT ![Addr(wr.ptr)] = wr_data]
                    \/ wr'.ptr = wr.ptr /\ wr'.mem = wr.mem
         /\ rst => wr'.ptr = 0
         /\ wr_data' \in Words /\ wr_ok' \in Words
<1> DEFINE push == wr_en /\ ~wr_full
<1>1. /\ wr'.ptr = Moved(wr.ptr, rst, push)
      /\ wr'.mem = IF push THEN [wr.mem EXCEPT ![Addr(wr.ptr)] = wr_data] ELSE wr.mem
  BY DEF WrTick, WrEdge
<1>2. wr.mem \in Memory(Words) /\ wr_data \in Words /\ wr_ok \in Words
  BY DEF DataInv
<1>3. wr'.mem \in Memory(Words)
  BY <1>1, <1>2 DEF Memory
<1>4. wr_data' \in Words /\ wr_ok' \in Words
  <2>1. (wr_ok + 1) % WordMod \in Words
    BY <1>2, BenchAssumption, SMT DEF Words
  <2> QED
    BY <1>2, <2>1 DEF WrTick, WriteDriver, CountUnless
<1>5. CASE push
  BY <1>1, <1>3, <1>4, <1>5, Flags DEF Moved
<1>6. CASE ~push
  BY <1>1, <1>3, <1>4, <1>6 DEF Moved
<1> QED
  BY <1>5, <1>6

LEMMA RdEdgeShows ==
  ASSUME PointerInv, DataInv, RdTick
  PROVE  \/ /\ ~rst /\ wr.ptr # rd.ptr /\ rd'.ptr = Inc(rd.ptr)
            /\ rd'.data = wr.mem[Addr(rd.ptr)]
         \/ rd'.ptr = rd.ptr /\ rd'.data = rd.data
<1> DEFINE pop == rd_en /\ ~rd_empty
<1>1. /\ rd'.ptr = Moved(rd.ptr, rst, pop)
      /\ rd'.data = IF pop THEN wr.mem[Addr(rd.ptr)] ELSE rd.data
  BY BenchAssumption DEF RdTick, RdEdge, Shown
<1>2. CASE pop
  BY <1>1, <1>2, Flags DEF Moved
<1>3. CASE ~pop
  BY <1>1, <1>3, Flags DEF Moved
<1> QED
  BY <1>2, <1>3

LEMMA WordInMemory ==
  ASSUME NEW mem \in Memory(Words), NEW q \in Pointers
  PROVE  mem[Addr(q)] \in Words
<1>1. q \in 0 .. 3 * DEPTH
  BY Positive, SMT DEF Pointers
<1> QED
  BY <1>1, AddrValue DEF Memory

LEMMA DataStep ==
  ASSUME PointerInv, DataInv, [Next]_vars
  PROVE  DataInv'
<1>1. wr.mem \in Memory(Words) /\ rd.data \in Words /\ rd.ptr \in Pointers
  BY DEF DataInv, PointerInv, FifoInv
<1>2. RdTick => rd'.data \in Words
  BY <1>1, RdEdgeShows, WordInMemory
<1>3. WrTick => wr'.mem \in Memory(Words) /\ wr_data' \in Words /\ wr_ok' \in Words
  BY WrEdgeWrites
<1> QED
  BY <1>2, <1>3 DEF DataInv, Next, SetGo, WrClock, RdClock, BothClocks, vars,
                    writeVars, readVars

-----------------------------------------------------------------------------
(* The refinement *)

\* Until the reset is released the queue stays empty.
LEMMA ResetStutters ==
  ASSUME PointerInv, DataInv, rst, WrTick \/ UNCHANGED wr, RdTick \/ UNCHANGED rd
  PROVE  UNCHANGED <<Contents, rd.data>>
<1>1. wr.ptr = 0 /\ rd.ptr = 0
  BY Flags
<1>2. wr'.ptr = 0
  BY <1>1, WrEdgeWrites
<1>3. rd'.ptr = 0 /\ rd'.data = rd.data
  BY <1>1, RdEdgeShows
<1>4. Held0' = Held0
  BY <1>1, <1>2, <1>3, NothingHeld DEF Held0
<1> QED
  BY <1>3, <1>4, ContentsHeld

LEMMA IncMoves ==
  ASSUME NEW p \in Pointers
  PROVE  Inc(p) # p
BY IncValue, Positive, SMT DEF Pointers

\* What the edges of one tick do to the queue: a side whose pointer moved has
\* put wr_data in at the end, or shown the first word and taken it away.
LEMMA ContentsMove ==
  ASSUME PointerInv, DataInv, ~rst, WrTick \/ UNCHANGED wr, RdTick \/ UNCHANGED rd
  PROVE  /\ Contents \in Seq(Words)
         /\ rd'.ptr # rd.ptr => Contents # <<>> /\ rd'.data = Head(Contents)
         /\ rd'.ptr = rd.ptr => rd'.data = rd.data
         /\ wr'.ptr # wr.ptr =>
              /\ Len(Contents) < DEPTH
              /\ Contents' = Append(LeftOf(Contents, rd'.ptr # rd.ptr), wr_data)
         /\ wr'.ptr = wr.ptr => Contents' = LeftOf(Contents, rd'.ptr # rd.ptr)
<1>1. PICK p \in Pointers, q \in Pointers, m \in Memory(Words), w \in Words :
        p = wr.ptr /\ q = rd.ptr /\ m = wr.mem /\ w = wr_data
  BY DEF PointerInv, FifoInv, DataInv
<1>2. Dist(p, q) <= DEPTH
  BY <1>1, Flags
<1>3. Contents = Held(p, q, m) /\ Contents' = Held(wr'.ptr, rd'.ptr, wr'.mem)
  BY <1>1, ContentsHeld DEF Held0
<1>4. Held(p, q, m) \in Seq(Words) /\ Len(Held(p, q, m)) = Dist(p, q)
  BY <1>2, HeldIsSeq
<1> DEFINE Writes == /\ wr'.ptr = Inc(p) /\ Dist(p, q) < DEPTH
                     /\ wr'.mem = Written(m, p, w)
           Reads == p # q /\ rd'.ptr = Inc(q) /\ rd'.data = m[Addr(q)]
<1>5. /\ Writes \/ (wr'.ptr = p /\ wr'.mem = m)
      /\ Reads \/ (rd'.ptr = q /\ rd'.data = rd.data)
  BY <1>1, WrEdgeWrites, RdEdgeShows DEF Written
<1>6. Inc(p) # p /\ Inc(q) # q
  BY IncMoves
<1>7. CASE Writes /\ rd'.ptr = q /\ rd'.data = rd.data
  <2>1. Dist(p, q) < DEPTH
    BY <1>7
  <2>2. Held(Inc(p), q, Written(m, p, w)) = Append(Held(p, q, m), w)
    BY <2>1, WriteAppends
  <2> QED
    BY <1>1, <1>3, <1>4, <1>6, <1>7, <2>1, <2>2 DEF LeftOf
<1>8. CASE Reads /\ wr'.ptr = p /\ wr'.mem = m
  <2>1. /\ Contents # <<>> /\ rd'.data = Head(Contents)
        /\ Contents' = Tail(Contents)
    BY <1>2, <1>3, <1>8, ReadTakesHead
  <2> QED
    BY <1>1, <1>3, <1>4, <1>6, <1>8, <2>1 DEF LeftOf
<1>9. CASE Writes /\ Reads
  <2>1. /\ Contents # <<>> /\ rd'.data = Head(Contents)
        /\ Held(p, Inc(q), m) = Tail(Contents) /\ Dist(p, Inc(q)) < DEPTH
    BY <1>2, <1>3, <1>9, ReadTakesHead
  <2>2. Inc(q) \in Pointers
    BY IncValue
  <2>3. Held(Inc(p), Inc(q), Written(m, p, w)) = Append(Held(p, Inc(q), m), w)
    BY <2>1, <2>2, WriteAppends
  <2> QED
    BY <1>1, <1>3, <1>4, <1>6, <1>9, <2>1, <2>3 DEF LeftOf
<1>10. CASE wr'.ptr = p /\ wr'.mem = m /\ rd'.ptr = q /\ rd'.data = rd.data
  BY <1>1, <1>3, <1>4, <1>10 DEF LeftOf
<1> QED
  BY <1>5, <1>7, <1>8, <1>9, <1>10

LEMMA QueueStep ==
  ASSUME PointerInv, DataInv, [Next]_vars
  PROVE  [Queue!Next]_<<Contents, rd.data>>
<1>1. (WrTick \/ UNCHANGED wr) /\ (RdTick \/ UNCHANGED rd)
  BY DEF Next, SetGo, WrClock, RdClock, BothClocks, vars, writeVars, readVars
<1>2. CASE rst
  BY <1>1, <1>2, ResetStutters
<1>3. CASE ~rst
  <2>1. CASE wr'.ptr # wr.ptr /\ rd'.ptr = rd.ptr
    BY <1>1, <1>3, <2>1, ContentsMove
    DEF LeftOf, DataInv, Queue!Next, Queue!Put, Queue!Accept
  <2>2. CASE wr'.ptr = wr.ptr /\ rd'.ptr # rd.ptr
    BY <1>1, <1>3, <2>2, ContentsMove DEF LeftOf, Queue!Next, Queue!Get, Queue!Deliver
  <2>3. CASE wr'.ptr # wr.ptr /\ rd'.ptr # rd.ptr
    BY <1>1, <1>3, <2>3, ContentsMove
    DEF LeftOf, DataInv, Queue!Next, Queue!Exchange, Queue!Deliver, Queue!Accept
  <2>4. CASE wr'.ptr = wr.ptr /\ rd'.ptr = rd.ptr
    BY <1>1, <1>3, <2>4, ContentsMove DEF LeftOf
  <2> QED
    BY <2>1, <2>2, <2>3, <2>4
<1> QED
  BY <1>2, <1>3

\* At every depth, whichever clock rises when, the FIFO is a queue that holds at
\* most DEPTH words: none is lost, repeated or reordered on its way.
THEOREM FifoImplementsQueue == Spec => ImplementsQueue
<1>1. BenchInit => Queue!Init
  <2> SUFFICES ASSUME BenchInit PROVE Queue!Init
    OBVIOUS
  <2>1. PointerInv /\ DataInv
    BY PointerInit, DataInit
  <2>2. wr.ptr = 0 /\ rd.ptr = 0
    BY DEF BenchInit, Init
  <2>3. Held0 \in Seq(Words) /\ Len(Held0) = 0
    BY <2>1, <2>2, Flags, HeldIsSeq, DistNat DEF Held0, DataInv
  <2> QED
    BY <2>1, <2>3, ContentsHeld, EmptySeq DEF Queue!Init, DataInv
<1>2. DataInv /\ PointerInv /\ [Next]_vars => DataInv'
  BY DataStep
<1>3. DataInv /\ PointerInv /\ [Next]_vars => [Queue!Next]_<<Contents, rd.data>>
  BY QueueStep
<1>4. Spec => []DataInv
  BY DataInit, <1>2, PointersInOrder, PTL DEF Spec
<1> QED
  BY <1>1, <1>3, <1>4, PointersInOrder, PTL DEF Spec, ImplementsQueue, Queue!Spec

-----------------------------------------------------------------------------
(* For every depth and word width: the words the bench reads are those its *)
(* write driver counted, in order.  The driver decides whether a word was  *)
(* taken from wr_full one edge early, so its counter runs ahead of what    *)
(* the FIFO holds by the word on the wires, or by none.                    *)

Succ(w) == (w + 1) % WordMod

\* The words of a queue are consecutive from first on.
Consecutive(first, queue) ==
  /\ queue # <<>> => Head(queue) = first
  /\ \A i \in 1 .. Len(queue) - 1 : queue[i + 1] = Succ(queue[i])

\* The word that goes on from there.
After(first, queue) == IF queue = <<>> THEN first ELSE Succ(queue[Len(queue)])
NextWord == After(expected, Contents)

CountInv ==
  /\ Consecutive(expected, Contents)
  /\ rst \/ ~go => ~wr_en
  /\ wr_en => /\ wr_data = NextWord
              /\ wr_ok = IF wr_full THEN NextWord ELSE Succ(NextWord)
  /\ ~wr_en => wr_ok = NextWord

-----------------------------------------------------------------------------
(* Counting through a write and a read *)

LEMMA AppendCounts ==
  ASSUME NEW e, NEW q \in Seq(Words), Consecutive(e, q), After(e, q) \in Words
  PROVE  /\ Consecutive(e, Append(q, After(e, q)))
         /\ After(e, Append(q, After(e, q))) = Succ(After(e, q))
<1> DEFINE w == After(e, q)
           t == Append(q, w)
<1>1. /\ t \in Seq(Words) /\ Len(t) = Len(q) + 1 /\ Len(q) \in Nat
      /\ t[Len(q) + 1] = w /\ \A i \in 1 .. Len(q) : t[i] = q[i]
      /\ t # <<>> /\ Head(t) = t[1]
  OBVIOUS
<1>2. CASE q = <<>>
  <2>1. Len(q) = 0 /\ w = e
    BY <1>2 DEF After
  <2>2. Len(t) = 1 /\ t[1] = w
    BY <1>1, <2>1
  <2>3. Consecutive(e, t)
    BY <1>1, <2>1, <2>2 DEF Consecutive
  <2> QED
    BY <1>1, <2>1, <2>2, <2>3 DEF After
<1>3. CASE q # <<>>
  <2>1. Len(q) >= 1 /\ Head(q) = q[1] /\ w = Succ(q[Len(q)])
    BY <1>3 DEF After
  <2>2. Head(t) = e
    BY <1>1, <1>3, <2>1 DEF Consecutive
  <2>3. ASSUME NEW i \in 1 .. Len(q) PROVE t[i + 1] = Succ(t[i])
    <3>1. CASE i = Len(q)
      BY <1>1, <2>1, <3>1
    <3>2. CASE i # Len(q)
      <4>1. i \in 1 .. Len(q) - 1 /\ i + 1 \in 1 .. Len(q)
        BY <1>1, <3>2
      <4> QED
        BY <1>1, <4>1 DEF Consecutive
    <3> QED
      BY <3>1, <3>2
  <2>4. Len(t) - 1 = Len(q)
    BY <1>1
  <2>5. Consecutive(e, t)
    BY <2>2, <2>3, <2>4 DEF Consecutive
  <2> QED
    BY <1>1, <2>5 DEF After
<1> QED
  BY <1>2, <1>3

LEMMA TailCounts ==
  ASSUME NEW e, NEW q \in Seq(Words), Consecutive(e, q), q # <<>>
  PROVE  /\ Head(q) = e
         /\ Consecutive(Succ(e), Tail(q))
         /\ After(Succ(e), Tail(q)) = After(e, q)
<1> DEFINE t == Tail(q)
<1>1. /\ t \in Seq(Words) /\ Len(t) = Len(q) - 1 /\ Len(q) \in Nat \ {0}
      /\ \A i \in 1 .. Len(q) - 1 : t[i] = q[i + 1]
      /\ Head(q) = q[1]
  BY HeadTailProperties
<1>2. Head(q) = e
  BY DEF Consecutive
<1> HIDE DEF t
<1>3. CASE Len(q) = 1
  <2>1. t = <<>>
    BY <1>1, <1>3, EmptySeq
  <2>2. ASSUME NEW i \in 1 .. Len(t) - 1 PROVE FALSE
    BY <1>1, <1>3
  <2>3. Consecutive(Succ(e), t)
    BY <2>1, <2>2 DEF Consecutive
  <2>4. q # <<>> /\ q[Len(q)] = e
    BY <1>1, <1>2, <1>3
  <2> QED
    BY <1>2, <2>1, <2>3, <2>4 DEF After, t
<1>4. CASE Len(q) # 1
  <2>1. /\ t # <<>> /\ Len(t) \in 1 .. Len(q) - 1
        /\ t[1] = q[2] /\ Head(t) = t[1] /\ t[Len(t)] = q[Len(q)]
    <3>1. Len(t) >= 1 /\ 1 \in 1 .. Len(q) - 1 /\ Len(t) + 1 = Len(q)
      BY <1>1, <1>4
    <3>2. t # <<>>
      BY <3>1
    <3> QED
      BY <1>1, <3>1, <3>2
  <2>2. q[2] = Succ(q[1])
    <3>1. 1 \in 1 .. Len(q) - 1 /\ 1 + 1 = 2
      BY <1>1, <1>4
    <3> QED
      BY <3>1 DEF Consecutive
  <2>3. ASSUME NEW i \in 1 .. Len(t) - 1 PROVE t[i + 1] = Succ(t[i])
    <3>1. /\ i \in 1 .. Len(q) - 1 /\ i + 1 \in 1 .. Len(q) - 1
      BY <1>1
    <3> QED
      BY <1>1, <3>1 DEF Consecutive
  <2>4. Consecutive(Succ(e), t)
    BY <1>1, <1>2, <2>1, <2>2, <2>3 DEF Consecutive
  <2> QED
    BY <1>2, <2>1, <2>4 DEF After, t
<1> QED
  BY <1>3, <1>4

-----------------------------------------------------------------------------
(* The steps of the bench *)

\* The word an edge of wr_clk puts in, if it does, is the one that goes on.
LEMMA WriteIsNext ==
  ASSUME PointerInv, CountInv, ~rst, WrTick \/ UNCHANGED wr
  PROVE  wr'.ptr # wr.ptr => wr_en /\ ~wr_full /\ wr_data = NextWord
<1>1. WrTick => wr'.ptr = Moved(wr.ptr, rst, wr_en /\ ~wr_full)
  BY DEF WrTick, WrEdge
<1> QED
  BY <1>1 DEF Moved, CountInv

\* And it puts one in when the request stands and the FIFO is not full.
LEMMA NoWriteMeans ==
  ASSUME PointerInv, ~rst, WrTick, wr'.ptr = wr.ptr
  PROVE  ~wr_en \/ wr_full
<1>1. wr'.ptr = Moved(wr.ptr, rst, wr_en /\ ~wr_full)
  BY DEF WrTick, WrEdge
<1>2. wr.ptr \in Pointers
  BY DEF PointerInv, FifoInv
<1> QED
  BY <1>1, <1>2, IncMoves DEF Moved

LEMMA NextWordIsWord ==
  ASSUME DataInv, expected \in Words, NEW q \in Seq(Words)
  PROVE  After(expected, q) \in Words
<1>1. \A w \in Words : Succ(w) \in Words
  BY BenchAssumption, SMT DEF Words, Succ
<1>2. q # <<>> => q[Len(q)] \in Words
  OBVIOUS
<1> QED
  BY <1>1, <1>2 DEF After

\* What is counted, through the edges of one tick.
LEMMA QueueCounts ==
  ASSUME PointerInv, DataInv, CountInv, expected \in Words, ~rst,
         WrTick \/ UNCHANGED wr,
         RdTick \/ UNCHANGED <<rd, expected>>
  PROVE  /\ rd'.ptr # rd.ptr => rd'.data = expected
         /\ Consecutive(expected', Contents')
         /\ NextWord' = IF wr'.ptr # wr.ptr THEN Succ(NextWord) ELSE NextWord
<1> DEFINE reads == rd'.ptr # rd.ptr
           writes == wr'.ptr # wr.ptr
           e == IF reads THEN Succ(expected) ELSE expected
           r == LeftOf(Contents, reads)
<1>1. expected' = e
  BY DEF RdTick, Succ
<1>2. /\ Contents \in Seq(Words)
      /\ reads => Contents # <<>> /\ rd'.data = Head(Contents)
      /\ writes => Contents' = Append(r, wr_data)
      /\ ~writes => Contents' = r
  BY ContentsMove
<1>3. Consecutive(expected, Contents)
  BY DEF CountInv
<1>4. /\ r \in Seq(Words) /\ Consecutive(e, r) /\ After(e, r) = NextWord
      /\ reads => rd'.data = expected
  <2>1. CASE reads
    <3>1. Tail(Contents) \in Seq(Words)
      BY <1>2, <2>1
    <3> QED
      BY <1>2, <1>3, <2>1, <3>1, TailCounts DEF LeftOf, NextWord
  <2>2. CASE ~reads
    BY <1>2, <1>3, <2>2 DEF LeftOf, NextWord
  <2> QED
    BY <2>1, <2>2
<1>5. NextWord' = After(expected', Contents')
  BY DEF NextWord
<1> HIDE DEF e, r
<1>6. CASE writes
  <2>1. wr_data = After(e, r)
    BY <1>4, <1>6, WriteIsNext
  <2>2. After(e, r) \in Words
    BY <1>2, <1>4, NextWordIsWord DEF NextWord
  <2>3. /\ Consecutive(e, Append(r, After(e, r)))
        /\ After(e, Append(r, After(e, r))) = Succ(After(e, r))
    BY <1>4, <2>2, AppendCounts
  <2> QED
    BY <1>1, <1>2, <1>4, <1>5, <1>6, <2>1, <2>3
<1>7. CASE ~writes
  BY <1>1, <1>2, <1>4, <1>5, <1>7
<1> QED
  BY <1>6, <1>7

LEMMA ExpectedStep ==
  ASSUME expected \in Words, [Next]_vars
  PROVE  expected' \in Words
<1>1. (expected + 1) % WordMod \in Words
  BY BenchAssumption, SMT DEF Words
<1> QED
  BY <1>1 DEF Next, SetGo, WrClock, RdClock, BothClocks, RdTick, vars, readVars

\* The write driver's counter, against the word that goes on after the step.
LEMMA DriverStep ==
  ASSUME PointerInv, CountInv, ~rst, WrTick,
         NextWord' = IF wr'.ptr # wr.ptr THEN Succ(NextWord) ELSE NextWord
  PROVE  /\ ~go => ~wr_en'
         /\ wr_en' => /\ wr_data' = NextWord'
                      /\ wr_ok' = IF wr_full' THEN NextWord' ELSE Succ(NextWord')
         /\ ~wr_en' => wr_ok' = NextWord'
<1>1. wr_ok = NextWord'
  <2>1. CASE wr'.ptr # wr.ptr
    BY <2>1, WriteIsNext DEF CountInv
  <2>2. CASE wr'.ptr = wr.ptr
    BY <2>2, NoWriteMeans DEF CountInv
  <2> QED
    BY <2>1, <2>2
<1>2. CASE go
  <2>1. wr_en' = TRUE /\ wr_data' = wr_ok /\ wr_ok' = CountUnless(wr_full')
    BY <1>2 DEF WrTick, WriteDriver
  <2> QED
    BY <1>1, <1>2, <2>1 DEF CountUnless, Succ
<1>3. CASE ~go
  <2>1. UNCHANGED <<wr_en, wr_ok>> /\ ~wr_en
    BY <1>3 DEF WrTick, WriteDriver, CountInv
  <2> QED
    BY <1>1, <1>3, <2>1
<1> QED
  BY <1>2, <1>3

LEMMA CountStep ==
  ASSUME PointerInv, DataInv, CountInv, expected \in Words, [Next]_vars
  PROVE  /\ CountInv'
         /\ rd'.ptr # rd.ptr => rd'.data = expected
<1>1. /\ WrTick \/ UNCHANGED <<wr, rst, wr_en, wr_data, wr_ok>>
      /\ RdTick \/ UNCHANGED <<rd, expected>>
      /\ go' = go \/ go'
  BY DEF Next, SetGo, WrClock, RdClock, BothClocks, vars, writeVars, readVars
<1>2. rst' => rst
  BY <1>1, ResetTick DEF WrTick
<1>3. CASE rst
  <2>1. UNCHANGED <<Contents, rd.data>>
    BY <1>1, <1>3, ResetStutters
  <2>2. rd'.ptr = rd.ptr /\ expected' = expected
    <3>1. RdTick => rd'.ptr = 0
      BY <1>3 DEF RdTick, RdEdge, Moved
    <3>2. rd.ptr = 0
      BY <1>3, Flags
    <3> QED
      BY <1>1, <3>1, <3>2 DEF RdTick
  <2>3. ~wr_en /\ UNCHANGED <<wr_en, wr_data, wr_ok>>
    BY <1>1, <1>3 DEF WrTick, WriteDriver, CountInv
  <2>4. NextWord' = NextWord
    BY <2>1, <2>2 DEF NextWord
  <2> QED
    BY <2>1, <2>2, <2>3, <2>4 DEF CountInv
<1>4. CASE ~rst
  <2>1. /\ rd'.ptr # rd.ptr => rd'.data = expected
        /\ Consecutive(expected', Contents')
        /\ NextWord' = IF wr'.ptr # wr.ptr THEN Succ(NextWord) ELSE NextWord
    BY <1>1, <1>4, QueueCounts
  <2>2. CASE WrTick
    BY <1>1, <1>2, <1>4, <2>1, <2>2, DriverStep DEF CountInv
  <2>3. CASE UNCHANGED <<wr, rst, wr_en, wr_data, wr_ok>>
    <3>1. wr_full' = wr_full /\ NextWord' = NextWord
      BY <2>1, <2>3 DEF wr_full, rd_ptr_bin
    <3> QED
      BY <1>1, <1>4, <2>1, <2>3, <3>1 DEF CountInv
  <2> QED
    BY <1>1, <2>1, <2>2, <2>3
<1> QED
  BY <1>3, <1>4

\* Every read shows the word that was counted next, at every depth and for
\* every width of the words: deciding from wr_full an edge early loses nothing.
THEOREM WordsInOrder == Spec => ReadsInOrder
<1>1. BenchInit => CountInv /\ expected \in Words
  <2> SUFFICES ASSUME BenchInit PROVE CountInv /\ expected \in Words
    OBVIOUS
  <2>1. PointerInv /\ DataInv
    BY PointerInit, DataInit
  <2>2. wr.ptr = 0 /\ rd.ptr = 0
    BY DEF BenchInit, Init
  <2>3. Contents \in Seq(Words) /\ Len(Contents) = 0
    BY <2>1, <2>2, Flags, HeldIsSeq, DistNat, ContentsHeld DEF Held0, DataInv
  <2>4. Contents = <<>>
    BY <2>3, EmptySeq
  <2>5. \A i \in 1 .. Len(Contents) - 1 : FALSE
    BY <2>3
  <2>6. Consecutive(expected, Contents) /\ NextWord = expected
    BY <2>4, <2>5 DEF Consecutive, NextWord, After
  <2>7. expected = 0 /\ wr_ok = 0 /\ ~wr_en
    BY DEF BenchInit
  <2>8. 0 \in Words
    BY BenchAssumption, SMT DEF Words
  <2> QED
    BY <2>6, <2>7, <2>8 DEF CountInv
<1>2. DataInv /\ PointerInv /\ [Next]_vars => DataInv'
  BY DataStep
<1>3. /\ PointerInv /\ DataInv /\ CountInv /\ expected \in Words /\ [Next]_vars
      => /\ CountInv' /\ (expected \in Words)'
         /\ [rd'.ptr # rd.ptr => rd'.data = expected]_vars
  BY CountStep, ExpectedStep
<1>4. Spec => []DataInv
  BY DataInit, <1>2, PointersInOrder, PTL DEF Spec
<1> DEFINE Exp == expected \in Words
<1>5. BenchInit => CountInv /\ Exp
  BY <1>1
<1>6. /\ PointerInv /\ DataInv /\ CountInv /\ Exp /\ [Next]_vars
      => CountInv' /\ Exp' /\ [rd'.ptr # rd.ptr => rd'.data = expected]_vars
  BY <1>3
<1> HIDE DEF Exp
<1> QED
  BY <1>4, <1>5, <1>6, PointersInOrder, PTL DEF Spec, ReadsInOrder

-----------------------------------------------------------------------------
(* Types *)

Codes == [0 .. AWID -> {0, 1}]
WrTypes == [ptr : Pointers, gray : Codes, rd_gray_ms : Codes, rd_gray_wr : Codes,
            overflow : BOOLEAN, mem : Memory(Words)]
RdTypes == [ptr : Pointers, gray : Codes, wr_gray_ms : Codes, wr_gray_rd : Codes,
            underflow : BOOLEAN, data : Words]

\* A Gray code is a vector of bits.
LEMMA BitsType == ASSUME NEW n \in Nat PROVE Bits(n) \in Codes
<1>1. \A i \in Nat : (n \div (2 ^ i)) % 2 \in {0, 1}
  OBVIOUS
<1>2. 0 .. AWID \subseteq Nat
  OBVIOUS
<1> QED
  BY <1>1, <1>2 DEF Bits, Codes

LEMMA GrayType == ASSUME NEW p \in Pointers PROVE bin2gray[p] \in Codes
<1>1. Bits(p) \in Codes
  BY BitsType DEF Pointers
<1>2. Shr(Bits(p), 1) \in Codes
  BY <1>1, AsyncFifoAssumption DEF Shr, Codes
<1>3. \A x \in {0, 1}, y \in {0, 1} : (x + y) % 2 \in {0, 1}
  OBVIOUS
<1> QED
  BY <1>1, <1>2, <1>3 DEF bin2gray, Xor, Codes

\* An edge stores a word of memory width and codes of pointers.
LEMMA WrEdgeType ==
  ASSUME PointerInv, DataInv, wr \in WrTypes, rd \in RdTypes, WrTick
  PROVE  wr' \in WrTypes
<1>1. WrMoves(rst)
  BY EdgesMove DEF PointerInv, WrTick
<1>2. wr'.ptr \in Pointers
  <2>1. PICK a \in Pointers : wr.rd_gray_wr = bin2gray[a]
    BY DEF PointerInv, FifoInv, InOrder, Synchronised
  <2> QED
    BY <1>1, <2>1, WriterMoves, BenchAssumption DEF PointerInv
<1>3. wr'.mem \in Memory(Words)
  BY WrEdgeWrites
<1> DEFINE ptr == Moved(wr.ptr, rst, wr_en /\ ~wr_full)
           mem == IF wr_en /\ ~wr_full THEN [wr.mem EXCEPT ![Addr(wr.ptr)] = wr_data]
                                       ELSE wr.mem
           flag == ~rst /\ wr_en /\ wr_full
<1>4. wr' = [ptr |-> ptr, gray |-> bin2gray[ptr],
             rd_gray_ms |-> rd.gray, rd_gray_wr |-> wr.rd_gray_ms,
             overflow |-> flag, mem |-> mem]
  BY DEF WrTick, WrEdge
<1>5. flag \in BOOLEAN
  OBVIOUS
<1> HIDE DEF ptr, mem, flag
<1>6. ptr \in Pointers /\ mem \in Memory(Words)
  BY <1>2, <1>3, <1>4
<1>7. bin2gray[ptr] \in Codes /\ rd.gray \in Codes /\ wr.rd_gray_ms \in Codes
  BY <1>6, GrayType DEF WrTypes, RdTypes
<1> QED
  BY <1>4, <1>5, <1>6, <1>7 DEF WrTypes

LEMMA RdEdgeType ==
  ASSUME PointerInv, DataInv, wr \in WrTypes, rd \in RdTypes, RdTick
  PROVE  rd' \in RdTypes
<1>1. RdMoves(rst)
  BY EdgesMove DEF PointerInv, RdTick
<1>2. rd'.ptr \in Pointers
  <2>1. PICK c \in Pointers : rd.wr_gray_rd = bin2gray[c]
    BY DEF PointerInv, FifoInv, InOrder, Synchronised
  <2> QED
    BY <1>1, <2>1, ReaderMoves, BenchAssumption DEF PointerInv
<1>3. rd'.data \in Words
  BY RdEdgeShows, WordInMemory DEF PointerInv, FifoInv, DataInv
<1> DEFINE ptr == Moved(rd.ptr, rst, rd_en /\ ~rd_empty)
           data == Shown(rd_en /\ ~rd_empty)
           flag == ~rst /\ rd_en /\ rd_empty
<1>4. rd' = [ptr |-> ptr, gray |-> bin2gray[ptr],
             wr_gray_ms |-> wr.gray, wr_gray_rd |-> rd.wr_gray_ms,
             underflow |-> flag, data |-> data]
  BY DEF RdTick, RdEdge
<1>5. flag \in BOOLEAN
  OBVIOUS
<1> HIDE DEF ptr, data, flag
<1>6. ptr \in Pointers /\ data \in Words
  BY <1>2, <1>3, <1>4
<1>7. bin2gray[ptr] \in Codes /\ wr.gray \in Codes /\ rd.wr_gray_ms \in Codes
  BY <1>6, GrayType DEF WrTypes, RdTypes
<1> QED
  BY <1>4, <1>5, <1>6, <1>7 DEF RdTypes

\* What the bench itself drives and counts.
BenchTypes ==
  /\ rst \in BOOLEAN /\ wr_en \in BOOLEAN /\ rd_en \in BOOLEAN /\ go \in BOOLEAN
  /\ wr_data \in Words /\ wr_ok \in Words /\ expected \in Words
  /\ resetLeft \in 0 .. ResetEdges

LEMMA BenchTypesStep ==
  ASSUME PointerInv, DataInv, BenchTypes, [Next]_vars
  PROVE  BenchTypes'
<1>1. DataInv' /\ expected' \in Words
  BY DataStep, ExpectedStep DEF BenchTypes
<1>2. resetLeft' \in 0 .. ResetEdges /\ rst' \in BOOLEAN
  <2>1. ResetProcess => resetLeft' \in 0 .. ResetEdges /\ rst' \in BOOLEAN
    <3>1. ResetEdges \in Nat
      BY BenchAssumption
    <3>2. resetLeft \in 0 .. ResetEdges
      BY DEF BenchTypes
    <3>3. (IF resetLeft > 0 THEN resetLeft - 1 ELSE 0) \in 0 .. ResetEdges
      BY <3>1, <3>2, SMT
    <3> QED
      BY <3>3, ResetTick DEF ResetProcess
  <2> QED
    BY <2>1 DEF BenchTypes, Next, SetGo, WrClock, RdClock, BothClocks, WrTick, vars,
                writeVars
<1>3. wr_en' \in BOOLEAN /\ rd_en' \in BOOLEAN /\ go' \in BOOLEAN
  <2>1. WrTick => wr_en' \in BOOLEAN
    BY DEF BenchTypes, WrTick, WriteDriver
  <2>2. RdTick => rd_en' \in BOOLEAN
    BY DEF RdTick, Request, rd_empty
  <2> QED
    BY <2>1, <2>2 DEF BenchTypes, Next, SetGo, WrClock, RdClock, BothClocks, vars,
                      writeVars, readVars
<1> QED
  BY <1>1, <1>2, <1>3 DEF BenchTypes, DataInv

FifoTypes == wr \in WrTypes /\ rd \in RdTypes /\ BenchTypes

\* At every depth and word width the registers of both sides hold pointers, codes
\* of pointers and words, and the driver's counter is masked.
THEOREM BenchTypeCorrect == Spec => []TypeOK
<1>1. BenchInit => FifoTypes
  <2> SUFFICES ASSUME BenchInit PROVE FifoTypes
    OBVIOUS
  <2>1. Bits(0) \in Codes /\ 0 \in Pointers /\ 0 \in Words /\ Blank \in Words
    BY BitsType, Positive, BenchAssumption, SMT DEF Pointers, Words
  <2>2. wr \in WrTypes /\ rd \in RdTypes
    BY <2>1 DEF BenchInit, Init, WrTypes, RdTypes, Memory
  <2>3. ResetEdges \in 0 .. ResetEdges
    BY BenchAssumption
  <2> QED
    BY <2>1, <2>2, <2>3 DEF BenchInit, FifoTypes, BenchTypes
<1>2. PointerInv /\ DataInv /\ FifoTypes /\ [Next]_vars => FifoTypes'
  <2> SUFFICES ASSUME PointerInv, DataInv, FifoTypes, [Next]_vars PROVE FifoTypes'
    OBVIOUS
  <2>1. (WrTick \/ UNCHANGED wr) /\ (RdTick \/ UNCHANGED rd)
    BY DEF Next, SetGo, WrClock, RdClock, BothClocks, vars, writeVars, readVars
  <2> QED
    BY <2>1, WrEdgeType, RdEdgeType, BenchTypesStep DEF FifoTypes
<1>3. Spec => []DataInv
  BY DataInit, DataStep, PointersInOrder, PTL DEF Spec
<1>4. FifoTypes => TypeOK
  BY DEF FifoTypes, WrTypes, RdTypes, BenchTypes, Codes, Memory, TypeOK
<1> QED
  BY <1>1, <1>2, <1>3, <1>4, PointersInOrder, PTL DEF Spec
=============================================================================
