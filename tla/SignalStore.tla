----------------------------- MODULE SignalStore -----------------------------
(***************************************************************************)
(* Signal<T>, SignalRegistry and the data part of DeltaEngine: signals are *)
(* views of storage cells (a Verilator field, or a signal's own store_),   *)
(* next() stages a value that apply_pending() commits, and observe()       *)
(* compares every registered signal with its previous value.               *)
(* The module is open: the order of these calls is the scheduler's.        *)
(***************************************************************************)
EXTENDS Integers, SequencesExt

CONSTANTS
  Signals,   \* bound: the Signal objects that may be constructed
  Cells,     \* Verilator fields, and the store_ of signals that are never destroyed
  CellOf,    \* [Signals -> Cells]: Signal::ptr_; two signals may share a cell
  Inputs,    \* the cells the testbench writes; the others belong to the DUT
  Wide,      \* the signals of type Signal<VlWide<N>>, without edges
  Values     \* the values a cell may hold

ASSUME SignalStoreAssumption ==
  /\ CellOf \in [Signals -> Cells]
  /\ Inputs \subseteq Cells
  /\ Wide \subseteq Signals
  /\ Values \subseteq Nat /\ 0 \in Values

VARIABLES
  cells,      \* [Cells -> Values]: *ptr_
  prev,       \* [Signals -> Values]: prev_val_
  staged,     \* [Signals -> Values]: next_val_, uninitialised until next()
  flagged,    \* the signals whose pending_ is true
  registry,   \* SignalRegistry::signals_, in registration order
  pending,    \* SignalRegistry::pending_, in the order of first next()
  changed,    \* DeltaEngine::changed_, as a set: its order is that of the registry
  asked       \* history: per cell, the value of the last next() yet to commit

vars == <<cells, prev, staged, flagged, registry, pending, changed, asked>>

Garbage == -1
Value(s) == cells[CellOf[s]]
Registered == Range(registry)

Init ==
  /\ cells \in [Cells -> {0}]
  /\ prev = [s \in Signals |-> 0] /\ staged = [s \in Signals |-> Garbage]
  /\ flagged = {}
  /\ registry = <<>> /\ pending = <<>> /\ changed = {}
  /\ asked = [c \in Cells |-> {}]

-----------------------------------------------------------------------------
\* A wide signal is compared as a whole.
Moved(s) == prev[s] # Value(s)

\* Signal::trig_info: the triggers a signal satisfies now.  Edges compare whole
\* values with 0; a wide signal only changes.
Trigs(s) ==
  {t \in {"POSEDGE", "NEGEDGE", "CHANGE"} :
     CASE t = "POSEDGE" -> s \notin Wide /\ prev[s] = 0 /\ Value(s) # 0
       [] t = "NEGEDGE" -> s \notin Wide /\ prev[s] # 0 /\ Value(s) = 0
       [] t = "CHANGE"  -> Moved(s)}

\* Signal(reg, ptr): the baseline is what the field holds now.
Create(s) ==
  /\ s \notin Registered
  /\ registry' = Append(registry, s)
  /\ prev' = [prev EXCEPT ![s] = Value(s)]
  /\ staged' = [staged EXCEPT ![s] = Garbage]
  /\ UNCHANGED <<cells, flagged, pending, changed, asked>>

\* ~Signal and SignalRegistry::remove: std::find and erase, in both tables.  What
\* it had staged is dropped.
StillPending(s) == pending                                      \* mutant
PendingWithout(s) == RemoveFirst(pending, s)

Destroy(s) ==
  /\ s \in Registered
  /\ registry' = RemoveFirst(registry, s)
  /\ pending' = PendingWithout(s)
  /\ flagged' = flagged \ {s}
  /\ asked' = [asked EXCEPT ![CellOf[s]] = {}]
  /\ UNCHANGED <<cells, prev, staged, changed>>

\* Signal::next.
StagedFirst(s, v) == IF s \in flagged THEN staged ELSE [staged EXCEPT ![s] = v] \* mutant
StagedIfPending(s, v) == IF s \in flagged THEN [staged EXCEPT ![s] = v] ELSE staged \* mutant
StagedLast(s, v) == [staged EXCEPT ![s] = v]

Nba(s, v) ==
  /\ s \in Registered /\ CellOf[s] \in Inputs
  /\ pending' = IF s \in flagged THEN pending ELSE Append(pending, s)
  /\ staged' = StagedLast(s, v)
  /\ flagged' = flagged \cup {s}
  /\ asked' = [asked EXCEPT ![CellOf[s]] = {v}]
  /\ UNCHANGED <<cells, prev, registry, changed>>

\* Verilator's eval() assigns the fields of the DUT.
DutWrites(out) ==
  /\ out \in [Cells \ Inputs -> Values]
  /\ cells' = [c \in Cells |-> IF c \in Inputs THEN cells[c] ELSE out[c]]
  /\ UNCHANGED <<prev, staged, flagged, registry, pending, changed, asked>>

\* apply_pending: in pending order, so the signal that came last decides.
WritersOf(c) == {i \in DOMAIN pending : CellOf[pending[i]] = c}
LastWriter(c) == pending[CHOOSE i \in WritersOf(c) : \A j \in WritersOf(c) : j <= i]

ApplyPending ==
  /\ cells' = [c \in Cells |-> IF WritersOf(c) = {} THEN cells[c]
                               ELSE staged[LastWriter(c)]]
  /\ flagged' = flagged \ Range(pending)
  /\ pending' = <<>>
  /\ asked' = [c \in Cells |-> {}]
  /\ UNCHANGED <<prev, staged, registry, changed>>

\* observe(): one scan of the registry; update_prev moves every baseline.
StalePrev == prev                                               \* mutant
UpdatedPrev == [s \in Signals |-> IF s \in Registered THEN Value(s) ELSE prev[s]]

Observe ==
  /\ changed' = {[sig |-> s, trig |-> Trigs(s)] : s \in {r \in Registered : Moved(r)}}
  /\ prev' = UpdatedPrev
  /\ UNCHANGED <<cells, staged, flagged, registry, pending, asked>>

EndTick ==
  /\ changed' = {}
  /\ UNCHANGED <<cells, prev, staged, flagged, registry, pending, asked>>

Next ==
  \/ \E s \in Signals : Create(s) \/ Destroy(s) \/ \E v \in Values : Nba(s, v)
  \/ \E out \in [Cells \ Inputs -> Values] : DutWrites(out)
  \/ ApplyPending \/ Observe \/ EndTick

Spec == Init /\ [][Next]_vars

-----------------------------------------------------------------------------
(* Properties *)

\* cells only ever hold values somebody wrote: an uninitialised next_val_ is
\* never committed.
TypeOK ==
  /\ cells \in [Cells -> Values]
  /\ prev \in [Signals -> Values] /\ staged \in [Signals -> Values \cup {Garbage}]
  /\ flagged \subseteq Signals
  /\ registry \in Seq(Signals) /\ pending \in Seq(Signals)
  /\ changed \subseteq [sig : Signals, trig : SUBSET {"POSEDGE", "NEGEDGE", "CHANGE"}]
  /\ asked \in [Cells -> SUBSET Values]

\* pending_ holds exactly the live signals whose own flag says so, each once:
\* no pointer of a destroyed signal is left in it, no staged value is lost
\* because the flag is stale, and none is committed twice.
PendingMatchesFlags ==
  /\ Range(pending) = flagged /\ flagged \subseteq Registered
  /\ Cardinality(DOMAIN pending) = Cardinality(flagged)

\* As for a Verilog non-blocking assignment, the last next() to a field before
\* a commit is the one the commit stores.
LastNextWins ==
  [][ApplyPending =>
       \A c \in Cells : \A v \in asked[c] : cells'[c] = v]_vars
=============================================================================
