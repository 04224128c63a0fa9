--------------------------- MODULE SchedulerProofs ---------------------------
(***************************************************************************)
(* Kernel::run for any signals, coroutines, hooks, delta limit and number  *)
(* of runs, and any DUT: what holds when a tick is dumped, what a sample   *)
(* hook can see, and that no instant is skipped.  What happens to the      *)
(* signals is taken from SignalStoreProofs.                                *)
(***************************************************************************)
EXTENDS Scheduler, SeqLemmas

P == INSTANCE SignalStoreProofs

USE DEF restVars, loopVars, outcomeVars, historyVars

\* Scheduler and SignalStoreProofs mean the same by SignalStore.
LEMMA SameStore ==
  /\ \A s : (S!Create(s) <=> P!Create(s)) /\ (S!Destroy(s) <=> P!Destroy(s))
  /\ \A s, v : S!Nba(s, v) <=> P!Nba(s, v)
  /\ \A out : S!DutWrites(out) <=> P!DutWrites(out)
  /\ S!ApplyPending <=> P!ApplyPending
  /\ S!Observe <=> P!Observe
  /\ S!EndTick <=> P!EndTick
  /\ S!Init <=> P!Init
  /\ S!TypeOK <=> P!TypeOK
  /\ S!Registered = P!Registered
  /\ \A s : S!Value(s) = P!Value(s)
<1>1. S!Registered = P!Registered /\ \A q : S!Range(q) = P!Range(q)
  BY DEF S!Registered, P!Registered, S!Range, P!Range
<1>2. \A s : S!Value(s) = P!Value(s)
  BY DEF S!Value, P!Value
<1>3. \A s : S!Create(s) <=> P!Create(s)
  BY <1>1, <1>2 DEF S!Create, P!Create, S!Garbage, P!Garbage
<1>4. \A q, s : S!RemoveFirst(q, s) = P!RemoveFirst(q, s)
  BY Zenon DEF S!RemoveFirst, P!RemoveFirst, S!RemoveAt, P!RemoveAt, S!SelectInSeq,
               P!SelectInSeq, S!Min, P!Min
<1>5. \A s : S!Destroy(s) <=> P!Destroy(s)
  BY <1>1, <1>4 DEF S!Destroy, P!Destroy, S!PendingWithout, P!PendingWithout
<1>6. \A s, v : S!Nba(s, v) <=> P!Nba(s, v)
  BY <1>1 DEF S!Nba, P!Nba, S!StagedLast, P!StagedLast
<1>7. \A out : S!DutWrites(out) <=> P!DutWrites(out)
  BY DEF S!DutWrites, P!DutWrites
<1>8. S!ApplyPending <=> P!ApplyPending
  <2>1. \A c : S!WritersOf(c) = P!WritersOf(c)
    BY DEF S!WritersOf, P!WritersOf
  <2>2. \A c : S!LastWriter(c) = P!LastWriter(c)
    BY <2>1 DEF S!LastWriter, P!LastWriter
  <2> QED
    BY <1>1, <2>1, <2>2 DEF S!ApplyPending, P!ApplyPending
<1>9. S!Observe <=> P!Observe
  <2>1. \A s : S!Trigs(s) = P!Trigs(s) /\ (S!Moved(s) <=> P!Moved(s))
    BY <1>2, Zenon DEF S!Trigs, P!Trigs, S!Moved, P!Moved
  <2>2. S!UpdatedPrev = P!UpdatedPrev
    BY <1>1, <1>2 DEF S!UpdatedPrev, P!UpdatedPrev
  <2> QED
    BY <1>1, <2>1, <2>2 DEF S!Observe, P!Observe
<1>10. S!EndTick <=> P!EndTick
  BY DEF S!EndTick, P!EndTick
<1>11. S!Init <=> P!Init
  BY DEF S!Init, P!Init, S!Garbage, P!Garbage
<1>12. S!TypeOK <=> P!TypeOK
  BY DEF S!TypeOK, P!TypeOK, S!Garbage, P!Garbage
<1> QED
  BY <1>1, <1>2, <1>3, <1>5, <1>6, <1>7, <1>8, <1>9, <1>10, <1>11, <1>12

-----------------------------------------------------------------------------
(* The invariant *)

Phases == {"unborn", "awake", "arming", "waiting", "over"}
AwaitTypes ==
  /\ phase \in [Coroutines -> Phases]
  /\ later \in [Coroutines -> SUBSET A!EdgeConds]

RunTypes ==
  /\ pc \in PCs /\ walked \subseteq Signals
  /\ cycle \in 0 .. MaxDelta - 1
  /\ limit \in Durations \cup {0}
  /\ calls \in 0 .. Runs
  /\ finish \in BOOLEAN
  /\ failed \in Seq(Coroutines) /\ rethrown \in Coroutines \cup {Nobody}
  /\ dutSaw \in [Inputs -> Values]
  /\ late \subseteq Cells /\ aborted \in BOOLEAN

\* Where no user code can be on the C++ stack.
EnginePCs == {"eval", "dut", "observe", "monitor", "commit", "giveup", "dump", "loop"}
QuietInEngine == pc \in EnginePCs => Quiet

\* While an eval is under way, only its hooks stage values.
HooksAreLate == pc \in {"pre", "dut", "post"} => \A s \in flagged : CellOf[s] \in late

\* From the eval on the DUT has seen the inputs, but for what hooks wrote.
DutCurrent ==
  pc \in {"post", "observe", "monitor", "process", "commit", "dump"} =>
    \A i \in Inputs : i \notin late => dutSaw[i] = cells[i]

\* From observe() to the next commit nothing moves under prev_val_.
AllObserved ==
  pc \in {"monitor", "process", "commit", "dump"} =>
    \A s \in S!Registered : prev[s] = S!Value(s)

\* Nothing is parked for later outside a pass of the monitor.
LaterOnlyInPass ==
  /\ pc # "process" => seen = {}
  /\ seen = {} => \A c \in Coroutines : later[c] = {}

NothingStagedAtDump == pc = "dump" => pending = <<>>

\* Before run() asks for a deadline, the present instant is dumped too.
DumpedBeforeLoop == undumped \subseteq {clock} /\ (pc = "loop" => undumped = {})

SchedInv ==
  /\ P!StoreInv /\ AwaitTypes /\ RunTypes
  /\ QuietInEngine /\ HooksAreLate /\ DutCurrent /\ AllObserved
  /\ LaterOnlyInPass /\ NothingStagedAtDump /\ DumpedBeforeLoop

-----------------------------------------------------------------------------
(* What a step does to each component *)

\* To the signals every step is one of the store's, or nothing.
LEMMA StepOfStore == Next => [P!Next]_(P!vars)
<1> SUFFICES ASSUME Next PROVE [P!Next]_(P!vars)
  OBVIOUS
<1> USE DEF signalVars
<1>1. CASE UNCHANGED signalVars
  BY <1>1 DEF P!vars
<1>2. CASE UserStep
  BY <1>1, <1>2, SameStore
  DEF UserStep, Bind, Unbind, Write, Spawn, AwaitDelay, AwaitTrigger, Sleep, Return,
      Throw, Cancel, HookThrows, P!Next
<1>3. CASE EngineStep
  BY <1>1, <1>3, SameStore
  DEF EngineStep, StartEval, CommitBeforeEval, EndSample, DutEval, EndDrive,
      ObserveSignals, SkipMonitor, BeginMonitor, EndMonitor, FireNext, Followup, Settled,
      TooManyDeltas, GiveUp, Dump, AdvanceTo, Advanced, Stop, P!Next
<1>4. ASSUME NEW d \in Durations, Run(d) PROVE [P!Next]_(P!vars)
  BY <1>1, <1>4 DEF Run
<1> QED
  BY <1>2, <1>3, <1>4 DEF Next

LEMMA StoreKept == P!StoreInv /\ [Next]_vars => P!StoreInv'
<1>1. P!StoreInv /\ UNCHANGED vars => P!StoreInv'
  BY P!StoreStep, SchedulerAssumption DEF vars, signalVars, P!vars
<1> QED
  BY <1>1, StepOfStore, P!StoreStep, SchedulerAssumption

\* User code moves no field of the DUT, no prev_val_ of a live signal and no time.
LEMMA UserFrame ==
  ASSUME UserStep
  PROVE  /\ UNCHANGED <<cells, clock, seen, walked, loopVars, finish, rethrown, dutSaw, undumped>>
         /\ UNCHANGED aborted \/ aborted' = TRUE
         /\ pc' = pc \/ (pc \in {"pre", "post"} /\ pc' = "main" /\ MayThrow)
         /\ late \subseteq late'
BY DEF UserStep, Bind, Unbind, Write, Spawn, AwaitDelay, AwaitTrigger, Sleep, Return,
       Throw, Cancel, HookThrows, HookRuns, runVars, awaitVars, signalVars,
       S!Create, S!Destroy, S!Nba, A!Forget, A!Begin, A!AwaitDelay, A!AwaitEdge, A!Sleep,
       A!End, A!Disarm

\* There is none where the engine works and no coroutine runs.
LEMMA NoUserCode ==
  ASSUME pc \in EnginePCs, Quiet
  PROVE  ~UserStep
<1>1. ~UserRuns /\ ~HookRuns
  BY DEF UserRuns, Quiet, EnginePCs, HookRuns
<1>2. \A c \in Coroutines : phase[c] \notin {"awake", "arming"}
  BY DEF Quiet
<1> QED
  BY <1>1, <1>2
  DEF UserStep, Bind, Unbind, Write, Spawn, AwaitDelay, AwaitTrigger, Sleep, Return, Throw,
      Cancel, HookThrows, A!AwaitDelay, A!AwaitEdge, A!Sleep, A!End, A!Move

\* Every other step leaves from a place where no coroutine runs.
LEMMA EngineFromQuiet ==
  ASSUME EngineStep \/ \E d \in Durations : Run(d)
  PROVE  Quiet
BY DEF EngineStep, StartEval, EndSample, DutEval, EndDrive, ObserveSignals, SkipMonitor,
       BeginMonitor, EndMonitor, FireNext, Followup, Settled, TooManyDeltas, GiveUp,
       Dump, AdvanceTo, Advanced, Stop, Run, FirstStop, Goto

\* Between two places of the engine no coroutine is resumed.
LEMMA EngineKeepsPhases ==
  ASSUME EngineStep \/ \E d \in Durations : Run(d)
  PROVE  UNCHANGED phase \/ (pc' = pc /\ pc \in {"process", "advance"})
BY DEF EngineStep, StartEval, EndSample, DutEval, EndDrive, ObserveSignals, SkipMonitor,
       BeginMonitor, EndMonitor, FireNext, Followup, Settled, TooManyDeltas, GiveUp,
       Dump, AdvanceTo, Advanced, Stop, Run, FirstStop, awaitVars, runVars, A!Observe,
       A!EndObservation, A!Tick

LEMMA QuietKept ==
  ASSUME QuietInEngine, Next
  PROVE  QuietInEngine'
<1>1. CASE UserStep
  <2>1. pc \notin EnginePCs
    BY <1>1, NoUserCode DEF QuietInEngine
  <2> QED
    BY <1>1, <2>1, UserFrame DEF QuietInEngine, EnginePCs
<1>2. CASE EngineStep \/ \E d \in Durations : Run(d)
  BY <1>2, EngineFromQuiet, EngineKeepsPhases DEF QuietInEngine, EnginePCs, Quiet
<1> QED
  BY <1>1, <1>2 DEF Next

-----------------------------------------------------------------------------
(* Types *)

LEMMA AwaitTypesKept ==
  ASSUME P!StoreInv, AwaitTypes, Next
  PROVE  AwaitTypes'
<1>1. ASSUME NEW c \in Coroutines, NEW from, NEW to \in Phases, A!Move(c, from, to)
      PROVE  phase' \in [Coroutines -> Phases]
  BY <1>1 DEF AwaitTypes, A!Move
<1>2. ASSUME NEW c \in Coroutines, NEW s \in S!Registered, NEW ty \in Types,
             A!AwaitEdge(c, s, ty)
      PROVE  AwaitTypes'
  <2>1. s \in Signals
    BY SameStore DEF P!StoreInv, P!TypeOK, P!Registered, P!Range
  <2>2. {[sig |-> s, edge |-> ty, idx |-> A!NextIndex(c)]} \subseteq A!EdgeConds
    BY <1>2, <2>1, SchedulerAssumption DEF A!AwaitEdge, A!EdgeConds, A!Edge
  <2> QED
    BY <1>1, <1>2, <2>2 DEF A!AwaitEdge, AwaitTypes, Phases
<1>3. ASSUME NEW c \in Coroutines, A!Disarm(c) PROVE AwaitTypes'
  BY <1>3 DEF A!Disarm, AwaitTypes
<1>4. ASSUME NEW s, A!Forget(s) PROVE AwaitTypes'
  BY <1>4 DEF A!Forget, AwaitTypes
<1>5. ASSUME NEW c \in Coroutines, NEW cond, A!Wake(c, cond) PROVE AwaitTypes'
  BY <1>1, <1>5 DEF A!Wake, AwaitTypes, Phases
<1>6. ASSUME NEW c \in Coroutines, A!Begin(c) \/ A!End(c) \/ A!Sleep(c) PROVE AwaitTypes'
  BY <1>1, <1>6 DEF A!Begin, A!End, A!Sleep, AwaitTypes, Phases
<1>7. ASSUME NEW c \in Coroutines, NEW n, A!AwaitDelay(c, n) PROVE AwaitTypes'
  BY <1>1, <1>7 DEF A!AwaitDelay, AwaitTypes, Phases
<1>8. CASE A!EndObservation
  BY <1>8 DEF A!EndObservation, AwaitTypes
<1>9. CASE UNCHANGED <<phase, later>>
  BY <1>9 DEF AwaitTypes
<1>10. CASE UserStep
  BY <1>2, <1>3, <1>4, <1>6, <1>7, <1>9, <1>10
  DEF UserStep, Bind, Unbind, Write, Spawn, AwaitDelay, AwaitTrigger, Sleep, Return,
      Throw, Cancel, HookThrows, awaitVars
<1>11. CASE EngineStep
  BY <1>5, <1>8, <1>9, <1>11
  DEF EngineStep, StartEval, EndSample, DutEval, EndDrive, ObserveSignals, SkipMonitor,
      BeginMonitor, EndMonitor, FireNext, Followup, Settled, TooManyDeltas, GiveUp, Dump,
      AdvanceTo, Advanced, Stop, awaitVars, A!Observe, A!Tick
<1>12. CASE \E d \in Durations : Run(d)
  BY <1>9, <1>12 DEF Run, awaitVars
<1> QED
  BY <1>10, <1>11, <1>12 DEF Next

LEMMA RunTypesKept ==
  ASSUME P!StoreInv, RunTypes, Next
  PROVE  RunTypes'
<1>1. InputValues \in [Inputs -> Values]
  BY SchedulerAssumption DEF InputValues, P!StoreInv, P!TypeOK
<1>2. CASE UserStep
  <2>1. failed' \in Seq(Coroutines)
    BY <1>2
    DEF UserStep, Bind, Unbind, Write, Spawn, AwaitDelay, AwaitTrigger, Sleep, Return,
        Throw, Cancel, HookThrows, runVars, RunTypes
  <2>2. late' \subseteq Cells
    BY <1>2, SchedulerAssumption
    DEF UserStep, Bind, Unbind, Write, Spawn, AwaitDelay, AwaitTrigger, Sleep, Return,
        Throw, Cancel, HookThrows, runVars, RunTypes
  <2> QED
    BY <1>2, <2>1, <2>2, UserFrame DEF RunTypes, PCs
<1>3. CASE EngineStep
  <2> USE DEF RunTypes, PCs, runVars, Goto
  <2>1. CASE StartEval \/ EndSample \/ EndDrive \/ ObserveSignals \/ SkipMonitor \/ BeginMonitor
    BY <2>1 DEF StartEval, EndSample, EndDrive, ObserveSignals, SkipMonitor, BeginMonitor
  <2>2. CASE DutEval
    BY <1>1, <2>2 DEF DutEval
  <2>3. CASE EndMonitor \/ FireNext \/ Settled \/ TooManyDeltas \/ GiveUp \/ Dump \/ AdvanceTo
    BY <2>3 DEF EndMonitor, FireNext, Settled, TooManyDeltas, GiveUp, Dump, AdvanceTo
  <2>4. CASE Followup
    BY <2>4, SchedulerAssumption DEF Followup, DeltaLeft, CountedCycle
  <2>5. CASE Advanced
    BY <2>5, SchedulerAssumption DEF Advanced
  <2>6. CASE Stop
    <3>1. \A c \in S!Range(failed) : c \in Coroutines
      BY DEF S!Range
    <3> QED
      BY <2>6 DEF Stop, Range
  <2> QED
    BY <1>3, <2>1, <2>2, <2>3, <2>4, <2>5, <2>6 DEF EngineStep
<1>4. ASSUME NEW d \in Durations, Run(d) PROVE RunTypes'
  <2>1. cycle' \in 0 .. MaxDelta - 1 /\ calls' \in 0 .. Runs
    BY <1>4, SchedulerAssumption DEF Run, RunTypes
  <2>2. pc' \in PCs /\ limit' \in Durations \cup {0} /\ aborted' \in BOOLEAN
    BY <1>4 DEF Run, FirstStop, Goto, PCs
  <2>3. UNCHANGED <<walked, finish, failed, rethrown, dutSaw, late>>
    BY <1>4 DEF Run
  <2> QED
    BY <2>1, <2>2, <2>3 DEF RunTypes
<1> QED
  BY <1>2, <1>3, <1>4 DEF Next

-----------------------------------------------------------------------------
(* What the DUT has seen *)

\* A commit leaves nothing pending and moves only fields somebody staged.
LEMMA CommitFacts ==
  ASSUME P!StoreInv, S!ApplyPending
  PROVE  /\ pending' = <<>> /\ flagged' = {}
         /\ \A c \in Cells : cells'[c] # cells[c] => \E s \in flagged : CellOf[s] = c
BY SameStore, P!ApplyStore, SchedulerAssumption

LEMMA HooksKept ==
  ASSUME P!StoreInv, QuietInEngine, HooksAreLate, Next
  PROVE  HooksAreLate'
<1>1. CASE UserStep
  <2>1. pc # "dut"
    BY <1>1, NoUserCode DEF QuietInEngine, EnginePCs
  <2>2. CASE pc \in {"pre", "post"} /\ pc' = pc
    <3>1. flagged' \subseteq flagged \/ \E s \in Signals, v \in Values : Write(s, v)
      BY <1>1
      DEF UserStep, Bind, Unbind, Spawn, AwaitDelay, AwaitTrigger, Sleep, Return, Throw,
          Cancel, HookThrows, signalVars, S!Create, S!Destroy
    <3>2. ASSUME NEW s \in Signals, NEW v \in Values, Write(s, v)
          PROVE  HooksAreLate'
      BY <2>2, <3>2 DEF Write, S!Nba, HooksAreLate
    <3> QED
      BY <1>1, <2>2, <3>1, <3>2, UserFrame DEF HooksAreLate
  <2>3. CASE pc' \notin {"pre", "dut", "post"}
    BY <2>3 DEF HooksAreLate
  <2> QED
    BY <1>1, <2>1, <2>2, <2>3, UserFrame
<1>2. CASE StartEval
  BY <1>2, CommitFacts DEF StartEval, CommitBeforeEval, HooksAreLate
<1>3. CASE EndSample
  BY <1>3 DEF EndSample, Goto, HooksAreLate, signalVars
<1>4. CASE DutEval
  BY <1>4 DEF DutEval, Goto, HooksAreLate, S!DutWrites
<1>5. CASE pc' \notin {"pre", "dut", "post"}
  BY <1>5 DEF HooksAreLate
<1> QED
  BY <1>1, <1>2, <1>3, <1>4, <1>5
  DEF Next, EngineStep, EndDrive, ObserveSignals, SkipMonitor, BeginMonitor, EndMonitor,
      FireNext, Followup, Settled, TooManyDeltas, GiveUp, Dump, AdvanceTo, Advanced, Stop,
      Run, FirstStop, Goto, runVars

LEMMA DutCurrentKept ==
  ASSUME P!StoreInv, HooksAreLate, DutCurrent, Next
  PROVE  DutCurrent'
<1> DEFINE Places == {"post", "observe", "monitor", "process", "commit", "dump"}
<1>1. CASE UserStep
  BY <1>1, UserFrame DEF DutCurrent
<1>2. CASE DutEval
  BY <1>2, SchedulerAssumption DEF DutEval, S!DutWrites, InputValues, DutCurrent
<1>3. CASE EndDrive
  <2>1. \A i \in Inputs : i \notin late => cells'[i] = cells[i]
    BY <1>3, CommitFacts, SchedulerAssumption DEF EndDrive, Goto, HooksAreLate
  <2> QED
    BY <1>3, <2>1 DEF EndDrive, Goto, DutCurrent
<1>4. CASE UNCHANGED <<cells, dutSaw, late>> /\ pc \in Places
  BY <1>4 DEF DutCurrent
<1>5. CASE pc' \notin Places
  BY <1>5 DEF DutCurrent
<1> QED
  BY <1>1, <1>2, <1>3, <1>4, <1>5
  DEF Next, EngineStep, StartEval, EndSample, ObserveSignals, SkipMonitor, BeginMonitor,
      EndMonitor, FireNext, Followup, Settled, TooManyDeltas, GiveUp, Dump, AdvanceTo,
      Advanced, Stop, Run, FirstStop, Goto, runVars, signalVars, S!Observe, S!EndTick

-----------------------------------------------------------------------------
(* What has been observed *)

\* User code adds signals whose baseline is their value and may take some away.
LEMMA UserKeepsBaselines ==
  ASSUME P!StoreInv, UserStep
  PROVE  \A s \in S!Registered' :
           \/ s \in S!Registered /\ prev'[s] = prev[s] /\ S!Value(s)' = S!Value(s)
           \/ prev'[s] = S!Value(s)'
<1>1. \A s : S!Value(s)' = S!Value(s)
  BY UserFrame DEF S!Value
<1>2. registry \in Seq(Signals) /\ prev \in [Signals -> Values] /\ P!IsInjective(registry)
  BY DEF P!StoreInv, P!TypeOK
<1>3. ASSUME NEW s \in Signals, S!Create(s)
      PROVE  \A r \in S!Registered' : \/ r \in S!Registered /\ prev'[r] = prev[r]
                                      \/ prev'[r] = S!Value(r)'
  <2>1. S!Registered' = S!Registered \cup {s}
    <3>1. Range(Append(registry, s)) = Range(registry) \cup {s}
      BY <1>2, AppendLemma
    <3> QED
      BY <1>3, <3>1 DEF S!Create, S!Registered, S!Range, Range
  <2>2. S!Registered \subseteq Signals
    BY <1>2 DEF S!Registered, S!Range
  <2> QED
    BY <1>1, <1>2, <1>3, <2>1, <2>2 DEF S!Create
<1>4. ASSUME NEW s \in Signals, S!Destroy(s)
      PROVE  S!Registered' \subseteq S!Registered /\ prev' = prev
  <2>1. P!Destroy(s) /\ P!Registered = S!Registered
    BY <1>4, SameStore
  <2>2. P!Registered' = P!Registered \ {s}
    BY <1>2, <2>1, P!RemoveFirstLemma, SchedulerAssumption DEF P!Destroy, P!Registered
  <2>3. S!Registered' = P!Registered'
    BY DEF S!Registered, P!Registered, S!Range, P!Range
  <2> QED
    BY <2>1, <2>2, <2>3, <1>4 DEF S!Destroy
<1>5. CASE UNCHANGED <<registry, prev>>
  BY <1>1, <1>5 DEF S!Registered
<1> QED
  BY <1>1, <1>3, <1>4, <1>5
  DEF UserStep, Bind, Unbind, Write, Spawn, AwaitDelay, AwaitTrigger, Sleep, Return,
      Throw, Cancel, HookThrows, signalVars, S!Nba

LEMMA ObservedKept ==
  ASSUME P!StoreInv, AllObserved, Next
  PROVE  AllObserved'
<1> DEFINE Places == {"monitor", "process", "commit", "dump"}
<1>1. CASE UserStep
  BY <1>1, UserFrame, UserKeepsBaselines DEF AllObserved
<1>2. CASE ObserveSignals
  <2>1. \A s \in P!Registered' : prev'[s] = P!Value(s)'
    BY <1>2, SameStore, P!ObserveStore, SchedulerAssumption DEF ObserveSignals
  <2>2. S!Registered' = P!Registered' /\ \A s : S!Value(s)' = P!Value(s)'
    BY DEF S!Registered, P!Registered, S!Range, P!Range, S!Value, P!Value
  <2> QED
    BY <2>1, <2>2 DEF AllObserved
<1>3. CASE UNCHANGED <<cells, prev, registry>> /\ pc \in Places
  BY <1>3 DEF AllObserved, S!Registered, S!Value
<1>4. CASE pc' \notin Places
  BY <1>4 DEF AllObserved
<1> QED
  BY <1>1, <1>2, <1>3, <1>4
  DEF Next, EngineStep, StartEval, EndSample, DutEval, EndDrive, SkipMonitor, BeginMonitor,
      EndMonitor, FireNext, Followup, Settled, TooManyDeltas, GiveUp, Dump, AdvanceTo,
      Advanced, Stop, Run, FirstStop, Goto, runVars, signalVars, S!EndTick

-----------------------------------------------------------------------------
(* What is awaited during a pass *)

LEMMA LaterKept ==
  ASSUME AwaitTypes, LaterOnlyInPass, Next
  PROVE  LaterOnlyInPass'
<1> USE DEF awaitVars
<1>1. CASE UserStep
  <2>1. seen' = seen /\ (pc' = pc \/ (pc' = "main" /\ pc # "process"))
    BY <1>1, UserFrame
  <2>2. ASSUME seen = {}, NEW c \in Coroutines
        PROVE  later'[c] = {}
    <3>1. UNCHANGED later \/ (\E d \in Coroutines : A!Disarm(d)) \/ \E s : A!Forget(s)
      BY <1>1, <2>2
      DEF UserStep, Bind, Unbind, Write, Spawn, AwaitDelay, AwaitTrigger, Sleep, Return,
          Throw, Cancel, HookThrows, A!Begin, A!End, A!Sleep, A!AwaitDelay, A!AwaitEdge,
          A!Nothing
    <3> QED
      BY <2>2, <3>1 DEF A!Disarm, A!Forget, LaterOnlyInPass, AwaitTypes
  <2> QED
    BY <2>1, <2>2 DEF LaterOnlyInPass
<1>2. CASE BeginMonitor
  BY <1>2 DEF BeginMonitor, Goto, A!Observe, LaterOnlyInPass
<1>3. CASE EndMonitor
  BY <1>3 DEF EndMonitor, Goto, A!EndObservation, A!Nothing, LaterOnlyInPass
<1>4. CASE FireNext
  <2>1. \A c \in Coroutines : later'[c] = {} \/ later'[c] = later[c]
    BY <1>4 DEF FireNext, A!Wake, AwaitTypes
  <2> QED
    BY <1>4, <2>1 DEF FireNext, A!Wake, runVars, LaterOnlyInPass
<1>5. CASE UNCHANGED <<later, seen>> /\ (pc = "process" => seen = {} \/ pc' = "process")
  BY <1>5 DEF LaterOnlyInPass
<1> QED
  BY <1>1, <1>2, <1>3, <1>4, <1>5
  DEF Next, EngineStep, StartEval, EndSample, DutEval, EndDrive, ObserveSignals,
      SkipMonitor, Followup, Settled, TooManyDeltas, GiveUp, Dump, AdvanceTo, Advanced,
      Stop, Run, FirstStop, Goto, A!Tick

LEMMA DumpKept ==
  ASSUME QuietInEngine, Next
  PROVE  NothingStagedAtDump'
<1>1. CASE pc' # "dump"
  BY <1>1 DEF NothingStagedAtDump
<1>2. CASE UserStep
  <2>1. pc # "dump"
    BY <1>2, NoUserCode DEF QuietInEngine, EnginePCs
  <2> QED
    BY <1>1, <1>2, <2>1, UserFrame
<1>3. CASE Settled
  BY <1>3 DEF Settled, HasPending, S!EndTick, NothingStagedAtDump
<1> QED
  BY <1>1, <1>2, <1>3
  DEF Next, EngineStep, StartEval, EndSample, DutEval, EndDrive, ObserveSignals,
      SkipMonitor, BeginMonitor, EndMonitor, FireNext, Followup, TooManyDeltas, GiveUp,
      Dump, AdvanceTo, Advanced, Stop, Run, FirstStop, Goto, runVars

\* Only AdvanceTo moves time, from where nothing is undumped.
LEMMA DumpedKept ==
  ASSUME DumpedBeforeLoop, QuietInEngine, Next
  PROVE  DumpedBeforeLoop'
<1>1. CASE UserStep
  <2>1. pc # "loop"
    BY <1>1, NoUserCode DEF QuietInEngine, EnginePCs
  <2> QED
    BY <1>1, <2>1, UserFrame DEF DumpedBeforeLoop
<1>2. CASE AdvanceTo
  BY <1>2 DEF AdvanceTo, Goto, DumpedBeforeLoop
<1>3. CASE FireNext
  BY <1>3 DEF FireNext, A!Wake, DumpedBeforeLoop
<1>4. CASE Dump
  BY <1>4 DEF Dump, Goto, awaitVars, DumpedBeforeLoop
<1>5. CASE UNCHANGED <<clock, undumped>> /\ pc' # "loop"
  BY <1>5 DEF DumpedBeforeLoop
<1> QED
  BY <1>1, <1>2, <1>3, <1>4, <1>5
  DEF Next, EngineStep, StartEval, EndSample, DutEval, EndDrive, ObserveSignals,
      SkipMonitor, BeginMonitor, EndMonitor, Followup, Settled, TooManyDeltas, GiveUp,
      Advanced, Stop, Run, FirstStop, Goto, awaitVars, A!Observe, A!EndObservation

-----------------------------------------------------------------------------
(* The theorems *)

LEMMA SchedInit == Init => SchedInv
<1> SUFFICES ASSUME Init PROVE SchedInv
  OBVIOUS
<1>1. P!StoreInv
  BY SameStore, P!StoreInit, SchedulerAssumption DEF Init
<1>2. AwaitTypes /\ LaterOnlyInPass
  BY DEF Init, A!Init, AwaitTypes, Phases, LaterOnlyInPass, A!Nothing
<1>3. InputValues \in [Inputs -> Values]
  BY <1>1, SchedulerAssumption DEF InputValues, P!StoreInv, P!TypeOK
<1>4. 0 \in 0 .. MaxDelta - 1 /\ 0 \in 0 .. Runs
  BY SchedulerAssumption, SMT
<1>5. pc = "main" /\ rethrown = Nobody /\ failed = <<>> /\ <<>> \in Seq(Coroutines)
  BY DEF Init
<1>6. cycle = 0 /\ limit = 0 /\ calls = 0 /\ finish = FALSE /\ late = {}
       /\ walked = {} /\ undumped = {} /\ aborted = FALSE
  BY DEF Init
<1>7. dutSaw = InputValues
  BY DEF Init
<1>8. RunTypes
  BY <1>3, <1>4, <1>5, <1>6, <1>7 DEF RunTypes, PCs
<1> QED
  BY <1>1, <1>2, <1>5, <1>6, <1>8
  DEF SchedInv, QuietInEngine, EnginePCs, HooksAreLate, DutCurrent, AllObserved,
      NothingStagedAtDump, DumpedBeforeLoop

LEMMA SchedStep == SchedInv /\ [Next]_vars => SchedInv'
<1>1. ASSUME SchedInv, Next PROVE SchedInv'
  <2>1. P!StoreInv'
    BY <1>1, StoreKept DEF SchedInv
  <2> QED
    BY <1>1, <2>1, AwaitTypesKept, RunTypesKept, QuietKept, HooksKept, DutCurrentKept,
       ObservedKept, LaterKept, DumpKept, DumpedKept
    DEF SchedInv
<1>2. ASSUME SchedInv, UNCHANGED vars PROVE SchedInv'
  <2>1. P!StoreInv'
    BY <1>2, StoreKept DEF SchedInv
  <2>2. UNCHANGED <<phase, pc>> => (Quiet => Quiet')
    BY DEF Quiet
  <2> QED
    BY <1>2, <2>1, <2>2
    DEF SchedInv, vars, signalVars, awaitVars, runVars, AwaitTypes, RunTypes, QuietInEngine,
        HooksAreLate, DutCurrent, AllObserved, LaterOnlyInPass, NothingStagedAtDump,
        DumpedBeforeLoop, S!Registered, S!Value
<1> QED
  BY <1>1, <1>2

THEOREM SchedulerInvariant == Spec => []SchedInv
BY SchedInit, SchedStep, PTL DEF Spec

LEMMA InvTypes == SchedInv => TypeOK
BY SameStore DEF SchedInv, P!StoreInv, RunTypes, TypeOK

\* Only what somebody wrote is ever in a field, and the delta counter stays
\* below kMaxDeltaCycles, whichever way run() is left and entered again.
THEOREM SchedulerTypeCorrect == Spec => []TypeOK
BY InvTypes, SchedulerInvariant, PTL

LEMMA InvQuiescent == SchedInv => QuiescentAtDump
<1> SUFFICES ASSUME SchedInv, pc = "dump" PROVE QuiescentAtDump
  BY DEF QuiescentAtDump
<1>1. pending = <<>> /\ flagged = {}
  BY DEF SchedInv, NothingStagedAtDump, P!StoreInv, P!Range
<1> QED
  BY <1>1 DEF SchedInv, AllObserved, LaterOnlyInPass, QuiescentAtDump

\* A dumped tick is complete: nothing is staged, each change has been observed
\* and no wait is parked, with any number of deltas, hooks and exceptions.
THEOREM DumpIsQuiescent == Spec => []QuiescentAtDump
BY InvQuiescent, SchedulerInvariant, PTL

LEMMA InvDutSaw == SchedInv => DutSawCoroutineWrites
BY DEF SchedInv, DutCurrent, DutSawCoroutineWrites

\* The DUT of a dumped tick has been evaluated with all that coroutines staged
\* in it: the last delta was not skipped.
THEOREM DutSeesCoroutines == Spec => []DutSawCoroutineWrites
BY InvDutSaw, SchedulerInvariant, PTL

\* No instant at which a delay was answered is left without a dump when time goes
\* on, however often exceptions, the delta limit or $finish end a run(): the
\* next one begins with a settle and a dump of its own.
THEOREM InstantsDumped == Spec => []NoInstantSkipped
<1>1. SchedInv => NoInstantSkipped
  BY DEF SchedInv, DumpedBeforeLoop, NoInstantSkipped
<1> QED
  BY <1>1, SchedulerInvariant, PTL

-----------------------------------------------------------------------------
(* What a sample hook can see *)

\* Outside the part of a delta from eval_fn to observe(), what the DUT drives
\* is what was observed last.  An exception that leaves a drive hook breaks it:
\* the next run() starts with the outputs of an eval that nobody observed.
DutObserved ==
  pc \notin {"post", "observe"} =>
    \A s \in S!Registered : CellOf[s] \notin Inputs => prev[s] = S!Value(s)

LEMMA DutObservedKept ==
  ASSUME ~MayThrow, P!StoreInv, DutObserved, Next
  PROVE  DutObserved'
<1>1. CASE UserStep
  BY <1>1, UserFrame, UserKeepsBaselines DEF DutObserved
<1>2. CASE ObserveSignals
  <2>1. \A s \in P!Registered' : prev'[s] = P!Value(s)'
    BY <1>2, SameStore, P!ObserveStore, SchedulerAssumption DEF ObserveSignals
  <2>2. S!Registered' = P!Registered' /\ \A s : S!Value(s)' = P!Value(s)'
    BY DEF S!Registered, P!Registered, S!Range, P!Range, S!Value, P!Value
  <2> QED
    BY <2>1, <2>2 DEF DutObserved
<1>3. CASE StartEval \/ Followup \/ TooManyDeltas
  <2>1. pc \notin {"post", "observe"} /\ S!ApplyPending /\ UNCHANGED <<prev, registry>>
    BY <1>3
    DEF StartEval, Followup, TooManyDeltas, CommitBeforeEval, Goto, S!ApplyPending
  <2>2. ASSUME NEW s \in Signals, CellOf[s] \notin Inputs
        PROVE  S!Value(s)' = S!Value(s)
    <3>1. \A r \in flagged : CellOf[r] \in Inputs
      BY DEF P!StoreInv
    <3> QED
      BY <2>1, <2>2, <3>1, CommitFacts, SchedulerAssumption DEF S!Value
  <2>3. S!Registered \subseteq Signals /\ S!Registered' = S!Registered
    BY <2>1, SameStore DEF P!StoreInv, P!TypeOK, S!Registered, S!Range
  <2> QED
    BY <2>1, <2>2, <2>3 DEF DutObserved
<1>4. CASE UNCHANGED <<cells, prev, registry>> /\ pc \notin {"post", "observe"}
  BY <1>4 DEF DutObserved, S!Registered, S!Value
<1>5. CASE pc' \in {"post", "observe"}
  BY <1>5 DEF DutObserved
<1> QED
  BY <1>1, <1>2, <1>3, <1>4, <1>5
  DEF Next, EngineStep, EndSample, DutEval, EndDrive, SkipMonitor, BeginMonitor,
      EndMonitor, FireNext, Settled, GiveUp, Dump, AdvanceTo, Advanced, Stop, Run, FirstStop, Goto,
      runVars, signalVars, S!EndTick

LEMMA UnmovedHasNoTrigs ==
  ASSUME P!StoreInv, NEW s \in Signals, prev[s] = S!Value(s)
  PROVE  S!Trigs(s) = {}
<1>1. S!Value(s) \in Nat /\ prev[s] = S!Value(s)
  BY SchedulerAssumption DEF P!StoreInv, P!TypeOK, S!Value
<1>2. ASSUME NEW t \in S!Trigs(s) PROVE FALSE
  <2>1. t \in {"POSEDGE", "NEGEDGE", "CHANGE"}
    BY DEF S!Trigs
  <2>2. CASE t = "POSEDGE"
    BY <1>1, <2>2 DEF S!Trigs
  <2>3. CASE t = "NEGEDGE"
    BY <1>1, <2>3 DEF S!Trigs
  <2>4. CASE t = "CHANGE"
    BY <1>1, <2>4 DEF S!Trigs, S!Moved
  <2> QED
    BY <2>1, <2>2, <2>3, <2>4
<1> QED
  BY <1>2

\* As long as nothing is thrown, a sample hook sees edges of inputs only, for
\* any hooks, coroutines and DUT.
THEOREM SampleBeforeDut ==
  ASSUME MayThrow = FALSE
  PROVE  Spec => []SampleSeesOnlyTestbenchEdges
<1>1. Init => DutObserved
  BY DEF Init, S!Init, DutObserved, S!Registered, S!Range
<1>2. SchedInv /\ DutObserved /\ [Next]_vars => DutObserved'
  <2>1. DutObserved /\ UNCHANGED vars => DutObserved'
    BY DEF vars, signalVars, runVars, DutObserved, S!Registered, S!Value
  <2> QED
    BY <2>1, DutObservedKept DEF SchedInv
<1>3. SchedInv /\ DutObserved => SampleSeesOnlyTestbenchEdges
  <2>1. SchedInv => S!Registered \subseteq Signals
    BY DEF SchedInv, P!StoreInv, P!TypeOK, S!Registered, S!Range
  <2> QED
    BY <2>1, UnmovedHasNoTrigs DEF SchedInv, DutObserved, SampleSeesOnlyTestbenchEdges
<1> QED
  BY <1>1, <1>2, <1>3, SchedulerInvariant, PTL DEF Spec
=============================================================================
