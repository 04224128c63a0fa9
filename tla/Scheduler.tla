------------------------------ MODULE Scheduler ------------------------------
(***************************************************************************)
(* Kernel::run, Scheduler::run, settle and run_one_tick, with the order in *)
(* which DeltaEngine, the monitor and the timers are called and where user *)
(* code runs in between: main, sample hooks before the DUT, drive hooks    *)
(* after it, coroutine bodies inside process() and advance_to().           *)
(*                                                                         *)
(* The signals are module SignalStore.  Waiting and waking is module       *)
(* AwaitContract, which WaitEngine is checked to implement: how tickets    *)
(* are queued does not matter here, when they are answered does.           *)
(***************************************************************************)
EXTENDS Integers, SequencesExt

CONSTANTS
  Coroutines, Signals, Cells, CellOf, Inputs, Wide, Values, Delays, MaxAny,
  Types,        \* the trigger types user code awaits
  SampleOn,     \* the triggers of the sample hooks, as <<signal, type>>
  DriveOn,      \* the triggers of the drive hooks
  Bound,        \* the signals main binds before anything else, in order, and keeps
  Transient,    \* the signals user code binds, destroys and binds again
  Durations,    \* the arguments of run()
  MaxDelta,     \* kMaxDeltaCycles
  MayThrow,     \* whether hooks and coroutine bodies may throw
  Runs          \* bound: how often main calls run()

ASSUME SchedulerAssumption ==
  /\ CellOf \in [Signals -> Cells] /\ Inputs \subseteq Cells /\ Wide \subseteq Signals
  /\ Values \subseteq Nat /\ 0 \in Values
  /\ MaxDelta \in Nat \ {0} /\ Runs \in Nat
  /\ Durations \subseteq Nat /\ Types \subseteq {"POSEDGE", "NEGEDGE", "CHANGE"}
  /\ SampleOn \cup DriveOn \subseteq Signals \X {"POSEDGE", "NEGEDGE", "CHANGE"}
  /\ MayThrow \in BOOLEAN /\ Transient \cap Range(Bound) = {}

VARIABLES
  cells, prev, staged, flagged, registry, pending, changed, asked,  \* SignalStore
  phase, armed, later, result, clock, seen,                         \* AwaitContract
  pc,        \* where Scheduler::run is
  walked,    \* the signal whose entries process() walks while on_fire runs, as a set
  cycle,     \* settle()'s loop counter
  limit,     \* run()'s duration
  calls,     \* how many times run() was called
  finish,    \* Verilated::gotFinish()
  failed,    \* the coroutines with a stored exception, in the order they threw
  rethrown,  \* the coroutine whose exception Kernel::run rethrew last
  dutSaw,    \* history: the inputs at the last DUT eval
  late,      \* history: the cells written by hooks, once their eval has begun
  undumped,  \* history: the instants at which a delay woke somebody, until a dump
  aborted    \* history: whether the last run() was left by an exception

signalVars == <<cells, prev, staged, flagged, registry, pending, changed, asked>>
awaitVars == <<phase, armed, later, result, clock, seen>>
loopVars == <<cycle, limit, calls>>
outcomeVars == <<finish, failed, rethrown>>
historyVars == <<dutSaw, late, undumped, aborted>>
restVars == <<walked, loopVars, outcomeVars, historyVars>>
runVars == <<pc, restVars>>
vars == <<signalVars, awaitVars, runVars>>

S == INSTANCE SignalStore
A == INSTANCE AwaitContract

PCs == {"main", "eval", "pre", "dut", "post", "observe", "monitor", "process",
        "commit", "giveup", "dump", "loop", "advance"}
Nobody == "nobody"
InputValues == [c \in Inputs |-> cells[c]]

Init ==
  /\ S!Init /\ A!Init
  /\ pc = "main" /\ walked = {} /\ cycle = 0 /\ limit = 0 /\ calls = 0
  /\ finish = FALSE /\ failed = <<>> /\ rethrown = Nobody
  /\ dutSaw = InputValues /\ late = {} /\ undumped = {} /\ aborted = FALSE

-----------------------------------------------------------------------------
(* User code *)

\* A hook's body runs when its trigger holds at that moment: Kernel::sample and
\* Kernel::drive call triggered().
SampleFires == \E h \in SampleOn : h[1] \in S!Registered /\ h[2] \in S!Trigs(h[1])
DriveFires == \E h \in DriveOn : h[1] \in S!Registered /\ h[2] \in S!Trigs(h[1])
HookRuns == (pc = "pre" /\ SampleFires) \/ (pc = "post" /\ DriveFires)

\* The engine goes on when no coroutine body is on the C++ stack.
Quiet == \A c \in Coroutines : phase[c] \notin {"awake", "arming"}
UserRuns == \/ Quiet /\ (pc = "main" \/ HookRuns)
            \/ \E c \in Coroutines : phase[c] = "awake"

Main == pc = "main" /\ Quiet
AllBound == Range(Bound) \subseteq S!Registered

Write(s, v) ==
  /\ UserRuns /\ S!Nba(s, v)
  /\ late' = IF pc \in {"pre", "post"} THEN late \cup {CellOf[s]} ELSE late
  /\ UNCHANGED <<awaitVars, pc, walked, loopVars, outcomeVars, dutSaw, undumped, aborted>>

\* Simulator::sig, Dut::sig, Module::sig.
Bind(s) ==
  /\ UserRuns /\ S!Create(s)
  /\ \/ Main /\ ~AllBound /\ s = Bound[Len(registry) + 1]
     \/ AllBound /\ s \in Transient
  /\ UNCHANGED <<awaitVars, runVars>>

\* ~Signal: SignalRegistry::remove, then on_destroyed -> unwatch_all.
Unbind(s) ==
  /\ UserRuns /\ s \in Transient
  /\ s \notin walked     \* the iterators of process() must stay valid
  /\ S!Destroy(s) /\ A!Forget(s)
  /\ UNCHANGED runVars

Spawn(c) ==
  /\ UserRuns /\ AllBound
  /\ A!Begin(c)
  /\ UNCHANGED <<signalVars, runVars>>

\* delay(n), alone or as one trigger of an any().
AwaitDelay(c) ==
  /\ \E n \in Delays : A!AwaitDelay(c, n)
  /\ UNCHANGED <<signalVars, runVars>>

\* posedge, negedge and change, of any signal that is bound.
AwaitTrigger(c) ==
  /\ \E s \in S!Registered, ty \in Types : A!AwaitEdge(c, s, ty)
  /\ UNCHANGED <<signalVars, runVars>>

\* await_suspend returns to whoever resumed the coroutine.
Sleep(c) == A!Sleep(c) /\ UNCHANGED <<signalVars, runVars>>

Return(c) == A!End(c) /\ UNCHANGED <<signalVars, runVars>>

\* unhandled_exception keeps the exception in the promise.
Throw(c) ==
  /\ MayThrow /\ A!End(c)
  /\ failed' = Append(failed, c)
  /\ UNCHANGED <<signalVars, pc, walked, loopVars, finish, rethrown, historyVars>>

Cancel(c) ==
  /\ UserRuns /\ phase[c] = "waiting" /\ A!Disarm(c)
  /\ UNCHANGED <<signalVars, runVars>>

\* Nothing catches what a hook throws: settle() and run() are left as they are.
HookThrows ==
  /\ MayThrow /\ Quiet /\ HookRuns
  /\ pc' = "main" /\ aborted' = TRUE
  /\ UNCHANGED <<signalVars, awaitVars, walked, loopVars, outcomeVars, dutSaw, late,
                 undumped>>

UserStep ==
  \/ \E s \in Signals : Bind(s) \/ Unbind(s) \/ \E v \in Values : Write(s, v)
  \/ \E c \in Coroutines :
       \/ Spawn(c) \/ AwaitDelay(c) \/ AwaitTrigger(c) \/ Sleep(c)
       \/ Return(c) \/ Throw(c) \/ Cancel(c)
  \/ HookThrows

-----------------------------------------------------------------------------
(* settle() *)

Goto(from, to) == pc = from /\ Quiet /\ pc' = to

\* DeltaEngine::eval: what coroutines staged becomes visible to the DUT.
EvalAtOnce == UNCHANGED signalVars                              \* mutant
CommitBeforeEval == S!ApplyPending

StartEval ==
  /\ Goto("eval", "pre")
  /\ CommitBeforeEval
  /\ late' = {}
  /\ UNCHANGED <<awaitVars, walked, loopVars, outcomeVars, dutSaw, undumped, aborted>>

EndSample ==
  /\ Goto("pre", "dut")
  /\ UNCHANGED <<signalVars, awaitVars, restVars>>

\* eval_fn: the Verilated model computes its outputs, and may call $finish.
DutEval ==
  /\ Goto("dut", "post")
  /\ \E out \in [Cells \ Inputs -> Values] : S!DutWrites(out)
  /\ finish' \in {finish, TRUE}
  /\ dutSaw' = InputValues
  /\ UNCHANGED <<awaitVars, walked, loopVars, failed, rethrown, late, undumped, aborted>>

\* The second apply_pending of eval commits what the hooks staged.
EndDrive ==
  /\ Goto("post", "observe")
  /\ S!ApplyPending
  /\ UNCHANGED <<awaitVars, restVars>>

ObserveSignals ==
  /\ Goto("observe", "monitor")
  /\ S!Observe
  /\ UNCHANGED <<awaitVars, restVars>>

Shown == UNION {{r.sig} \X r.trig : r \in changed}

\* MonitorEngine::process.
SkipMonitor ==
  /\ Goto("monitor", "commit")
  /\ changed = {}
  /\ UNCHANGED <<signalVars, awaitVars, restVars>>

BeginMonitor ==
  /\ Goto("monitor", "process")
  /\ changed # {} /\ A!Observe(Shown)
  /\ UNCHANGED <<signalVars, restVars>>

EndMonitor ==
  /\ Goto("process", "commit")
  /\ A!EndObservation
  /\ walked' = {}
  /\ UNCHANGED <<signalVars, loopVars, outcomeVars, historyVars>>

\* fire_coroutine, from process() or from advance_to().
FireNext ==
  /\ pc \in {"process", "advance"} /\ Quiet
  /\ \E c \in Coroutines : \E cond \in armed[c] :
       /\ A!Wake(c, cond)
       /\ walked' = {s \in Signals : "sig" \in DOMAIN cond /\ s = cond.sig}
  /\ undumped' = IF pc = "advance" THEN undumped \cup {clock} ELSE undumped
  /\ UNCHANGED <<signalVars, pc, loopVars, outcomeVars, dutSaw, late, aborted>>

HasPendingAfterCommit == FALSE                                  \* mutant
HasPending == pending # <<>>

\* Another delta: ++cycle < kMaxDeltaCycles.
OneDeltaTooMany == cycle < MaxDelta                             \* mutant
DeltaLeft == cycle + 1 < MaxDelta
UncountedCycle == cycle                                         \* mutant
CountedCycle == cycle + 1

Followup ==
  /\ HasPending /\ DeltaLeft
  /\ Goto("commit", "eval")
  /\ S!ApplyPending
  /\ cycle' = CountedCycle
  /\ UNCHANGED <<awaitVars, walked, limit, calls, outcomeVars, historyVars>>

Settled ==
  /\ ~HasPending
  /\ Goto("commit", "dump")
  /\ S!EndTick
  /\ UNCHANGED <<awaitVars, restVars>>

\* The loop is left after kMaxDeltaCycles; end_tick and the throw follow.
TooManyDeltas ==
  /\ HasPending /\ ~DeltaLeft
  /\ Goto("commit", "giveup")
  /\ S!ApplyPending
  /\ UNCHANGED <<awaitVars, restVars>>

GiveUp ==
  /\ Goto("giveup", "main")
  /\ S!EndTick
  /\ aborted' = TRUE
  /\ UNCHANGED <<awaitVars, walked, loopVars, outcomeVars, dutSaw, late, undumped>>

-----------------------------------------------------------------------------
(* run() *)

\* Each run() first settles and dumps the instant it starts at.
LoopFirst == "loop"                                             \* mutant
FirstStop == "eval"

Run(d) ==
  /\ Goto("main", FirstStop)
  /\ calls < Runs /\ AllBound
  /\ limit' = d /\ cycle' = 0 /\ calls' = calls + 1 /\ aborted' = FALSE
  /\ UNCHANGED <<signalVars, awaitVars, walked, outcomeVars, dutSaw, late, undumped>>

Dump ==
  /\ Goto("dump", "loop")
  /\ undumped' = undumped \ {clock}
  /\ UNCHANGED <<signalVars, awaitVars, walked, loopVars, outcomeVars, dutSaw, late, aborted>>

\* timer_.next_deadline(), as a set: nobody waits, or one instant.
NextDeadline == {d.at : d \in {x \in A!Due : \A y \in A!Due : x.at <= y.at}}

DeadlineBefore == NextDeadline # {} /\ \A t \in NextDeadline : t < limit   \* mutant
DeadlineAllowed == NextDeadline # {} /\ \A t \in NextDeadline : t <= limit

AdvanceTo ==
  /\ Goto("loop", "advance")
  /\ ~finish /\ DeadlineAllowed
  /\ A!Tick
  /\ UNCHANGED <<signalVars, restVars>>

Advanced ==
  /\ Goto("advance", "eval")
  /\ \A d \in A!Due : d.at > clock
  /\ cycle' = 0
  /\ UNCHANGED <<signalVars, awaitVars, walked, limit, calls, outcomeVars, historyVars>>

\* run() breaks, then collect_exceptions and cleanup_finished: one exception
\* is rethrown, whichever the hash map yields first, and all are destroyed.
Stop ==
  /\ Goto("loop", "main")
  /\ finish \/ ~DeadlineAllowed
  /\ rethrown' \in IF failed = <<>> THEN {Nobody} ELSE Range(failed)
  /\ failed' = <<>>
  /\ UNCHANGED <<signalVars, awaitVars, walked, loopVars, finish, historyVars>>

EngineStep ==
  \/ StartEval \/ EndSample \/ DutEval \/ EndDrive \/ ObserveSignals
  \/ SkipMonitor \/ BeginMonitor \/ EndMonitor \/ FireNext
  \/ Followup \/ Settled \/ TooManyDeltas \/ GiveUp
  \/ Dump \/ AdvanceTo \/ Advanced \/ Stop

Next == UserStep \/ EngineStep \/ \E d \in Durations : Run(d)

Spec == Init /\ [][Next]_vars

\* One thread runs the loop, and every coroutine body reaches its next await or
\* its end: it does not spin between two awaits.
SegmentEnds == \E c \in Coroutines : Sleep(c) \/ Return(c)
LiveSpec == Spec /\ WF_vars(EngineStep) /\ WF_vars(SegmentEnds)

-----------------------------------------------------------------------------
(* Properties *)

TypeOK ==
  /\ S!TypeOK
  /\ pc \in PCs /\ walked \subseteq Signals
  /\ cycle \in 0 .. MaxDelta - 1
  /\ limit \in Durations \cup {0}
  /\ calls \in 0 .. Runs
  /\ finish \in BOOLEAN
  /\ failed \in Seq(Coroutines) /\ rethrown \in Coroutines \cup {Nobody}
  /\ dutSaw \in [Inputs -> Values]
  /\ late \subseteq Cells /\ aborted \in BOOLEAN

\* When a tick is dumped nothing is left to do in it: no value is staged, and
\* every change has been observed, so no edge is carried into the next tick.
QuiescentAtDump ==
  pc = "dump" =>
    /\ pending = <<>> /\ flagged = {}
    /\ \A s \in S!Registered : prev[s] = S!Value(s)
    /\ \A c \in Coroutines : later[c] = {}

\* When a tick is dumped the DUT has been evaluated with every value that
\* coroutines staged in it; only what hooks staged during the last eval, which
\* its trailing apply_pending commits, waits for the next tick.
DutSawCoroutineWrites ==
  pc = "dump" => \A i \in Inputs : i \notin late => dutSaw[i] = cells[i]

\* README.md:180: sample can only see edges the testbench wrote.
SampleSeesOnlyTestbenchEdges ==
  pc = "pre" => \A s \in S!Registered : CellOf[s] \notin Inputs => S!Trigs(s) = {}

\* An instant at which delays were answered is dumped before time goes on, and
\* so is the one at which an exception left run(): the next run() settles and
\* dumps it, whatever its duration, before it asks for a deadline.
NoInstantSkipped == undumped \subseteq {clock}

\* run(duration) serves every delay up to and including duration, those armed on
\* the way and those an earlier, shorter run() left over, unless the coroutine is
\* cancelled, the DUT calls $finish or an exception leaves run().
Owed(c) == \E d \in armed[c] : "at" \in DOMAIN d /\ d.at <= limit
DelaysServed ==
  \A c \in Coroutines :
    pc # "main" /\ Owed(c) ~> ~Owed(c) \/ finish \/ aborted

\* run() comes back: delta cycles that never settle end at the limit, and every
\* tick brings time closer to the duration.
RunReturns == pc # "main" ~> pc = "main"

\* core/kernel.cpp:58: run() rethrows the first coroutine exception.
FirstFailureRethrown ==
  [][pc = "loop" /\ pc' = "main" /\ failed # <<>> => rethrown' = Head(failed)]_vars
=============================================================================
