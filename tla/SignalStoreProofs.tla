-------------------------- MODULE SignalStoreProofs --------------------------
(***************************************************************************)
(* For any signals, fields and values: the tables of SignalRegistry and    *)
(* the flags inside the signals say the same, only values that somebody    *)
(* wrote are committed, and the last next() of a field decides.            *)
(***************************************************************************)
EXTENDS SignalStore, SeqLemmas

\* TypeOK alone is not inductive: apply_pending() stores what it finds in
\* next_val_, so whoever is pending must have been given a value; and find and
\* erase remove a signal only because no table holds it twice.
StoreInv ==
  /\ TypeOK
  /\ IsInjective(registry) /\ IsInjective(pending)
  /\ Range(pending) = flagged /\ flagged \subseteq Registered
  /\ \A s \in flagged : staged[s] \in Values /\ CellOf[s] \in Inputs

LEMMA StoreInit == Init => StoreInv
<1> SUFFICES ASSUME Init PROVE StoreInv
  OBVIOUS
<1>1. IsInjective(<<>>) /\ Range(<<>>) = {} /\ <<>> \in Seq(Signals)
  BY DEF IsInjective, Range
<1>2. 0 \in Values
  BY SignalStoreAssumption
<1> QED
  BY <1>1, <1>2 DEF Init, StoreInv, TypeOK, Registered

LEMMA CreateStore ==
  ASSUME StoreInv, NEW s \in Signals, Create(s)
  PROVE  StoreInv'
<1>1. Value(s) \in Values
  BY SignalStoreAssumption DEF StoreInv, TypeOK, Value
<1>2. /\ Append(registry, s) \in Seq(Signals)
      /\ Range(Append(registry, s)) = Range(registry) \cup {s}
  BY AppendLemma DEF StoreInv, TypeOK
<1>3. IsInjective(Append(registry, s))
  BY AppendInjectiveLemma DEF StoreInv, TypeOK, Create, Registered
<1>4. s \notin flagged
  BY DEF StoreInv, Create
<1>5. TypeOK'
  BY <1>1, <1>2 DEF StoreInv, TypeOK, Create, Garbage
<1>6. \A r \in flagged : staged'[r] = staged[r]
  BY <1>4 DEF StoreInv, TypeOK, Create
<1> QED
  BY <1>2, <1>3, <1>5, <1>6 DEF StoreInv, Create, Registered

LEMMA DestroyStore ==
  ASSUME StoreInv, NEW s \in Signals, Destroy(s)
  PROVE  StoreInv'
<1>1. /\ RemoveFirst(registry, s) \in Seq(Signals)
      /\ Range(RemoveFirst(registry, s)) = Range(registry) \ {s}
      /\ IsInjective(RemoveFirst(registry, s))
  BY RemoveFirstLemma DEF StoreInv, TypeOK
<1>2. /\ PendingWithout(s) \in Seq(Signals)
      /\ Range(PendingWithout(s)) = Range(pending) \ {s}
      /\ IsInjective(PendingWithout(s))
  BY RemoveFirstLemma DEF StoreInv, TypeOK, PendingWithout
<1>3. TypeOK'
  BY <1>1, <1>2, SignalStoreAssumption DEF StoreInv, TypeOK, Destroy
<1> QED
  BY <1>1, <1>2, <1>3 DEF StoreInv, Destroy, Registered

LEMMA NbaStore ==
  ASSUME StoreInv, NEW s \in Signals, NEW v \in Values, Nba(s, v)
  PROVE  StoreInv'
<1>1. /\ pending' \in Seq(Signals) /\ IsInjective(pending')
      /\ Range(pending') = Range(pending) \cup {s}
  <2>1. CASE s \in flagged
    BY <2>1 DEF StoreInv, TypeOK, Nba
  <2>2. CASE s \notin flagged
    <3>1. /\ Append(pending, s) \in Seq(Signals)
          /\ Range(Append(pending, s)) = Range(pending) \cup {s}
      BY AppendLemma DEF StoreInv, TypeOK
    <3>2. IsInjective(Append(pending, s))
      BY <2>2, AppendInjectiveLemma DEF StoreInv, TypeOK
    <3> QED
      BY <2>2, <3>1, <3>2 DEF Nba
  <2> QED
    BY <2>1, <2>2
<1>2. TypeOK'
  BY <1>1, SignalStoreAssumption DEF StoreInv, TypeOK, Nba, StagedLast
<1>3. \A r \in flagged' : staged'[r] \in Values /\ CellOf[r] \in Inputs
  BY DEF StoreInv, TypeOK, Nba, StagedLast
<1> QED
  BY <1>1, <1>2, <1>3 DEF StoreInv, Nba, Registered

LEMMA DutStore ==
  ASSUME StoreInv, NEW out, DutWrites(out)
  PROVE  StoreInv'
<1>1. TypeOK'
  BY SignalStoreAssumption DEF StoreInv, TypeOK, DutWrites
<1> QED
  BY <1>1 DEF StoreInv, DutWrites, Registered

\* The signal that decides about a cell is pending, has that cell and has been
\* given a value.
LEMMA LastWriterPending ==
  ASSUME StoreInv, NEW c \in Cells, WritersOf(c) # {}
  PROVE  /\ LastWriter(c) \in flagged
         /\ CellOf[LastWriter(c)] = c
         /\ staged[LastWriter(c)] \in Values
<1> DEFINE W == WritersOf(c)
           i == CHOOSE k \in W : \A j \in W : j <= k
<1>1. W \in SUBSET (1 .. Len(pending)) /\ Len(pending) \in Nat
  BY DEF StoreInv, TypeOK, WritersOf
<1>2. \E k \in W : \A j \in W : j <= k
  BY <1>1, LastPosition
<1>3. i \in W
  BY <1>2
<1>4. LastWriter(c) = pending[i]
  BY DEF LastWriter
<1> HIDE DEF i
<1>5. i \in DOMAIN pending /\ CellOf[pending[i]] = c
  BY <1>3 DEF WritersOf
<1>6. pending[i] \in Range(pending)
  BY <1>5 DEF Range
<1> QED
  BY <1>4, <1>5, <1>6 DEF StoreInv

LEMMA ApplyStore ==
  ASSUME StoreInv, ApplyPending
  PROVE  /\ StoreInv'
         /\ pending' = <<>> /\ flagged' = {}
         /\ \A c \in Cells : cells'[c] # cells[c] => \E s \in flagged : CellOf[s] = c
<1>1. IsInjective(<<>>) /\ Range(<<>>) = {} /\ <<>> \in Seq(Signals)
  BY DEF IsInjective, Range
<1>2. pending' = <<>> /\ flagged' = {}
  BY DEF StoreInv, ApplyPending
<1>3. cells' \in [Cells -> Values]
  BY LastWriterPending DEF StoreInv, TypeOK, ApplyPending
<1>4. TypeOK'
  BY <1>1, <1>2, <1>3 DEF StoreInv, TypeOK, ApplyPending
<1>5. StoreInv'
  BY <1>1, <1>2, <1>4 DEF StoreInv, ApplyPending, Registered
<1>6. ASSUME NEW c \in Cells, cells'[c] # cells[c]
      PROVE  \E s \in flagged : CellOf[s] = c
  <2>1. WritersOf(c) # {}
    BY <1>6 DEF ApplyPending
  <2> QED
    BY <2>1, LastWriterPending
<1> QED
  BY <1>2, <1>5, <1>6

LEMMA ObserveStore ==
  ASSUME StoreInv, Observe
  PROVE  /\ StoreInv'
         /\ \A s \in Registered' : prev'[s] = Value(s)'
<1>1. Registered \subseteq Signals
  BY RangeIn DEF StoreInv, TypeOK, Registered
<1>2. \A s \in Signals : Value(s) \in Values
  BY SignalStoreAssumption DEF StoreInv, TypeOK, Value
<1>3. \A s : Trigs(s) \in SUBSET {"POSEDGE", "NEGEDGE", "CHANGE"}
  BY DEF Trigs
<1>4. prev' \in [Signals -> Values]
  BY <1>2 DEF StoreInv, TypeOK, Observe, UpdatedPrev
<1>5. changed' \subseteq [sig : Signals, trig : SUBSET {"POSEDGE", "NEGEDGE", "CHANGE"}]
  BY <1>1, <1>3 DEF Observe
<1>6. TypeOK'
  BY <1>4, <1>5 DEF StoreInv, TypeOK, Observe
<1>7. StoreInv'
  BY <1>6 DEF StoreInv, Observe, Registered
<1>8. \A s \in Registered' : prev'[s] = Value(s)'
  BY <1>1 DEF Observe, UpdatedPrev, Registered, Value
<1> QED
  BY <1>7, <1>8

LEMMA EndTickStore ==
  ASSUME StoreInv, EndTick
  PROVE  StoreInv'
BY DEF StoreInv, TypeOK, EndTick, Registered

LEMMA StoreStep ==
  ASSUME StoreInv, [Next]_vars
  PROVE  StoreInv'
<1>1. ASSUME UNCHANGED vars PROVE StoreInv'
  BY <1>1 DEF vars, StoreInv, TypeOK, Registered
<1> QED
  BY <1>1, CreateStore, DestroyStore, NbaStore, DutStore, ApplyStore, ObserveStore,
     EndTickStore
  DEF Next

THEOREM StoreInvariant == Spec => []StoreInv
BY StoreInit, StoreStep, PTL DEF Spec

\* next_val_ is committed only after it was written, whatever is bound, staged,
\* committed and destroyed in which order.
THEOREM StoreTypeCorrect == Spec => []TypeOK
<1>1. StoreInv => TypeOK
  BY DEF StoreInv
<1> QED
  BY <1>1, StoreInvariant, PTL

LEMMA InvGivesFlags == StoreInv => PendingMatchesFlags
<1> SUFFICES ASSUME StoreInv PROVE PendingMatchesFlags
  OBVIOUS
<1>1. Cardinality(DOMAIN pending) = Cardinality(Range(pending))
  BY InjectiveCount DEF StoreInv, TypeOK
<1> QED
  BY <1>1 DEF StoreInv, PendingMatchesFlags

\* No pointer of a destroyed signal is left in pending_, no staged value is
\* lost because a flag is stale and none is committed twice.
THEOREM FlagsMatchPending == Spec => []PendingMatchesFlags
BY InvGivesFlags, StoreInvariant, PTL

-----------------------------------------------------------------------------
(* Which next() decides *)

\* No two signals are views of one field.  Without this the order of the first
\* next() of each decides, not that of the last (see the README).
OneSignalPerField == \A s, t \in Signals : CellOf[s] = CellOf[t] => s = t

\* Whatever was asked for last is still staged.
AskedIsStaged ==
  \A c \in Cells : \A v \in asked[c] :
    \E s \in flagged : CellOf[s] = c /\ staged[s] = v

LEMMA AskedStep ==
  ASSUME OneSignalPerField, StoreInv, AskedIsStaged, [Next]_vars
  PROVE  AskedIsStaged'
<1>1. ASSUME NEW c \in Cells, NEW v, v \in asked'[c]
      PROVE  \E s \in flagged' : CellOf[s] = c /\ staged'[s] = v
  <2>1. ASSUME v \in asked[c], \A s \in flagged : CellOf[s] = c => s \in flagged',
               \A s \in flagged : CellOf[s] = c => staged'[s] = staged[s]
        PROVE  \E s \in flagged' : CellOf[s] = c /\ staged'[s] = v
    BY <2>1 DEF AskedIsStaged
  <2>2. ASSUME NEW s \in Signals, Create(s)
        PROVE  \E r \in flagged' : CellOf[r] = c /\ staged'[r] = v
    <3>1. s \notin flagged
      BY <2>2 DEF StoreInv, Create
    <3> QED
      BY <1>1, <2>1, <2>2, <3>1 DEF Create, StoreInv, TypeOK
  <2>3. ASSUME NEW s \in Signals, Destroy(s)
        PROVE  \E r \in flagged' : CellOf[r] = c /\ staged'[r] = v
    <3>1. CellOf[s] # c /\ v \in asked[c]
      BY <1>1, <2>3 DEF Destroy, StoreInv, TypeOK
    <3> QED
      BY <2>1, <2>3, <3>1 DEF Destroy
  <2>4. ASSUME NEW s \in Signals, NEW w \in Values, Nba(s, w)
        PROVE  \E r \in flagged' : CellOf[r] = c /\ staged'[r] = v
    <3>1. CASE c = CellOf[s]
      <4>1. v = w
        BY <1>1, <2>4, <3>1 DEF Nba, StoreInv, TypeOK
      <4> QED
        BY <2>4, <3>1, <4>1 DEF Nba, StagedLast, StoreInv, TypeOK
    <3>2. CASE c # CellOf[s]
      <4>1. v \in asked[c]
        BY <1>1, <2>4, <3>2 DEF Nba, StoreInv, TypeOK
      <4>2. \A r \in flagged : CellOf[r] = c => staged'[r] = staged[r]
        BY <2>4, <3>2 DEF Nba, StagedLast, StoreInv, TypeOK
      <4>3. \A r \in flagged : r \in flagged'
        BY <2>4 DEF Nba
      <4> QED
        BY <2>1, <4>1, <4>2, <4>3
    <3> QED
      BY <3>1, <3>2
  <2>5. ~ApplyPending
    BY <1>1 DEF ApplyPending
  <2>6. ASSUME UNCHANGED <<asked, flagged, staged>>
        PROVE  \E s \in flagged' : CellOf[s] = c /\ staged'[s] = v
    BY <1>1, <2>1, <2>6
  <2> QED
    BY <2>2, <2>3, <2>4, <2>5, <2>6 DEF Next, vars, DutWrites, Observe, EndTick
<1> QED
  BY <1>1 DEF AskedIsStaged

LEMMA CommitsWhatWasAsked ==
  ASSUME OneSignalPerField, StoreInv, AskedIsStaged, ApplyPending,
         NEW c \in Cells, NEW v \in asked[c]
  PROVE  cells'[c] = v
<1>1. PICK s \in flagged : CellOf[s] = c /\ staged[s] = v
  BY DEF AskedIsStaged
<1>2. PICK i \in DOMAIN pending : pending[i] = s
  BY <1>1 DEF StoreInv, Range
<1>3. WritersOf(c) # {}
  BY <1>1, <1>2 DEF WritersOf
<1>4. LastWriter(c) = s
  BY <1>1, <1>3, LastWriterPending DEF OneSignalPerField, StoreInv, TypeOK
<1> QED
  BY <1>1, <1>3, <1>4 DEF ApplyPending

\* A non-blocking assignment: the last next() to a field before a commit is the
\* one the commit stores, however many signals were staged in between.
THEOREM LastNextDecides ==
  ASSUME OneSignalPerField
  PROVE  Spec => LastNextWins
<1>1. Init => AskedIsStaged
  BY DEF Init, AskedIsStaged
<1>2. StoreInv /\ AskedIsStaged /\ [Next]_vars => AskedIsStaged'
  BY AskedStep
<1>3. StoreInv /\ AskedIsStaged
      => [ApplyPending => \A c \in Cells : \A v \in asked[c] : cells'[c] = v]_vars
  BY CommitsWhatWasAsked
<1> QED
  BY <1>1, <1>2, <1>3, StoreInvariant, PTL DEF Spec, LastNextWins
=============================================================================
