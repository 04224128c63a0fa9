-------------------------------- MODULE Clock --------------------------------
(***************************************************************************)
(* Simulator::clock: the coroutine that drives a clock signal.  It is one  *)
(* client of the engine and uses two of its promises, checked elsewhere: a *)
(* delay ends at its deadline (WaitEngine's DelaysAhead), and what is      *)
(* staged while time advances is committed in that tick (Scheduler).       *)
(* Half periods are a division, and an odd period must not lose a unit.    *)
(***************************************************************************)
EXTENDS Integers, TLAPS

CONSTANTS
  Periods,   \* the arguments of clock()
  MaxTime    \* bound: no toggle beyond it

ASSUME ClockAssumption ==
  /\ Periods \subseteq Nat /\ \A p \in Periods : p >= 2     \* COROSIM_ASSERT
  /\ MaxTime \in Nat

VARIABLES
  period,
  level,     \* the value the coroutine drives, 0 or 1
  now,       \* simulation time
  wake,      \* the deadline of the delay it awaits, 0 before its first segment
  rise       \* history: when the signal last rose, or Never

vars == <<period, level, now, wake, rise>>
Never == -1

\* high_time and low_time.
HighTime == period \div 2
LowTimeHalved == period \div 2                                  \* mutant
LowTime == period - HighTime

\* start_high; the signal is low before the coroutine runs.
Init ==
  /\ period \in Periods /\ level \in {0, 1}
  /\ now = 0 /\ wake = 0 /\ rise = Never

\* next(), then the delay for the new level.
Drive(v, t) ==
  /\ level' = v
  /\ wake' = t + IF v = 1 THEN HighTime ELSE LowTime
  /\ rise' = IF v = 1 THEN t ELSE rise

\* The first segment, inside Kernel::instance.
Start ==
  /\ wake = 0
  /\ Drive(level, now)
  /\ UNCHANGED <<period, now>>

\* The delay ends: the other level, and the delay for that level.
Toggle ==
  /\ 0 < wake /\ wake <= MaxTime
  /\ now' = wake
  /\ Drive(1 - level, wake)
  /\ UNCHANGED period

Next == Start \/ Toggle
Spec == Init /\ [][Next]_vars

-----------------------------------------------------------------------------
TypeOK ==
  /\ period \in Periods
  /\ level \in {0, 1}
  /\ now \in Nat /\ wake \in Nat /\ rise \in Nat \cup {Never}

\* Whatever the parity of the period and the initial level, each rising edge
\* follows the one before it by exactly one full period.
FullPeriod == [][rise # Never /\ rise' # rise => rise' = rise + period]_vars

-----------------------------------------------------------------------------
(* A clock of any period of at least 2 keeps it. *)

\* Where the clock is within its period, read off its last rising edge.  This
\* is what FullPeriod needs of the past: after a rise the high half is under
\* way, and afterwards the low half, which ends one period after the rise.
InPeriod ==
  /\ wake = 0 => now = 0 /\ rise = Never
  /\ wake # 0 => wake > now
  /\ wake # 0 /\ level = 1 => rise = now /\ wake = rise + HighTime
  /\ wake # 0 /\ level = 0 /\ rise # Never => wake = rise + period

ClockInv == TypeOK /\ InPeriod

\* Both halves of a period are whole, positive and make up the period, so that
\* delay() never meets the zero interval it asserts against.
LEMMA Halves ==
  ASSUME TypeOK
  PROVE  /\ HighTime \in Nat /\ HighTime >= 1
         /\ LowTime \in Nat /\ LowTime >= 1
         /\ HighTime + LowTime = period
<1>1. period \in Nat /\ period >= 2  BY ClockAssumption DEF TypeOK
<1>2. QED  BY <1>1 DEF HighTime, LowTime

LEMMA ClockInit == Init => ClockInv
  BY ClockAssumption DEF Init, ClockInv, TypeOK, InPeriod, Never

\* One step keeps the place in the period, and a rise moves it by a period.
LEMMA ClockStep ==
  ASSUME ClockInv, [Next]_vars
  PROVE  ClockInv' /\ (rise # Never /\ rise' # rise => rise' = rise + period)
<1> USE DEF ClockInv, TypeOK, InPeriod, Never
<1>1. period \in Nat  BY ClockAssumption
<1>2. HighTime \in Nat /\ HighTime >= 1 /\ LowTime \in Nat /\ LowTime >= 1
      /\ HighTime + LowTime = period
  BY Halves
<1>3. CASE Start  BY <1>1, <1>2, <1>3 DEF Start, Drive, HighTime, LowTime
<1>4. CASE Toggle
  <2>1. /\ period' = period /\ HighTime' = HighTime /\ 0 < wake /\ now' = wake
        /\ level' = 1 - level
        /\ wake' = wake + (IF 1 - level = 1 THEN HighTime ELSE LowTime)
        /\ rise' = IF 1 - level = 1 THEN wake ELSE rise
    BY <1>4 DEF Toggle, Drive, HighTime
  <2>2. CASE level = 1  BY <1>1, <1>2, <2>1, <2>2
  <2>3. CASE level = 0  BY <1>1, <1>2, <2>1, <2>3
  <2>4. QED  BY <2>2, <2>3
<1>5. CASE UNCHANGED vars  BY <1>5 DEF vars, HighTime
<1>6. QED  BY <1>3, <1>4, <1>5 DEF Next

\* Simulator::clock keeps its period, for every period and both start levels.
THEOREM ClockKeepsPeriod == Spec => []TypeOK /\ FullPeriod
<1>1. Init => ClockInv  BY ClockInit
<1>2. ClockInv /\ [Next]_vars => ClockInv'  BY ClockStep
<1>3. ClockInv /\ [Next]_vars =>
        [rise # Never /\ rise' # rise => rise' = rise + period]_vars
  BY ClockStep
<1>4. ClockInv => TypeOK  BY DEF ClockInv
<1>5. QED  BY <1>1, <1>2, <1>3, <1>4, PTL DEF Spec, FullPeriod
=============================================================================
