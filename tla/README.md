# corosim in TLA+

corosim drives a Verilator model from C++20 coroutines: `co_await posedge(clk)`,
`co_await delay(n)`, `co_await any(...)`, `sig.next(v)`, and hooks before and after
each evaluation of the DUT.  Everything runs on one thread.  What is hard is not
parallelism but *re-entrancy*: user code runs inside the loops of the timer queue
and of the monitor, and from there arms waits, cancels, spawns, finishes and
destroys the very things those loops walk over.  This directory models the engine
(`src/src/scheduler`, `coroutine`, `signal`, `core`, `trigger`) and the two example benches
that use it (`src/examples`), checks them with TLC on small instances, and proves with
TLAPS, for every instance, all of the safety properties the passing runs
check, some under a hypothesis of their own (section 6).

Source paths below are relative to the repository root.

## 1. Inventory

| Component | State | Operations | What makes it correct |
|---|---|---|---|
| Wait tokens and groups (`src/coroutine/wait.*`) | `valid_` per token; `entries_` per coroutine | arm (reap, then add a token), `cancel_all`, `cancel_others` | one wait, one winner; groups do not grow |
| Coroutines (`src/coroutine/task.hpp`, `coroutine.*`, `coroutine_manager.*`) | frame status, `state_`, stored exception; the map of live coroutines | spawn + first segment, suspend, end, throw, cancel, `cleanup_finished`, `collect_exceptions` | only a suspended frame is resumed, and only by a ticket of its present wait |
| Triggers (`src/trigger`, `src/core/detail`) | `which_` in the awaiter | register one trigger after the other; read the winning index | the index is that of the trigger that fired |
| TimerEngine (`src/scheduler/timer_engine.*`) | priority queue of tickets, `now_` | `schedule`, `next_deadline`, `advance_to` | no delay late or skipped; time never goes back |
| MonitorEngine (`src/scheduler/monitor_engine.*`) | `watches_`, `pending_`, `processing_` | `watch`, `unwatch_all`, `process` | each satisfied watch fires once; new watches wait for the next change |
| Signals and registry (`src/signal`) | field, `prev_val_`, `next_val_`, `pending_` flag; registry and pending lists | bind, `next`, commit, `trig_info`, `update_prev`, destroy | nothing staged is lost, doubled or left dangling; last write wins |
| DeltaEngine and Scheduler (`src/scheduler`) | hooks, `changed_`, the delta counter | `eval`, `observe`, `settle`, `run_one_tick`, `run` | a tick ends complete and is dumped; delays up to the duration are served; `run` returns |
| Kernel (`src/core`) | owns the above | `register_*_wait`, `add_coroutine`, `always`, `instance`, `sample`, `drive`, `run` | exceptions reach the caller of `run` |
| Simulator (`src/api/simulator.hpp`) | owned signals | `sig`, `clock`, `run` | the clock keeps its period |
| Dut, Module, checks, logger | ownership, text | forwarding | not modelled |
| Example `async_fifo` (`src/examples/async_fifo`) | two pointers, each also in Gray code and in two registers of the other clock; memory; the bench's counters | both clock edges; reset, write driver, read request | a bounded queue, although no side knows the other's pointer |
| Example `axis_async_fifo` (`src/examples/axis_async_fifo`) | driver queues and wires, receiver buffer, two FIFOs, frame state machine | `send`, `recv`, `update_input`, `update_output`, both clock edges, random `tready` | AXI4-Stream: beats hold until taken; frames whole, once, in order, all |

**How they interact.**  `Simulator::run` calls `Kernel::run` calls `Scheduler::run`.
A tick is a chain of deltas; each calls `DeltaEngine::eval` (commit, sample hooks,
DUT, drive hooks, commit), `observe`, `MonitorEngine::process`, and decides from the
pending list whether another delta follows.  Between ticks `TimerEngine::advance_to`
fires what is due.  `process` and `advance_to` both call back `fire_coroutine`, which
runs a coroutine up to its next await.  `~Signal` calls back through the registry
into `MonitorEngine::unwatch_all`.

**What is hard**: callbacks that change the walked queue; tickets left over from
waits that are over; lazy deletion; two triggers satisfied at one instant; the order
of commit, evaluation and observation; exceptions in the middle of it; the delta
limit; wrap-around of time.  `PROJECT.json` lists each hazard at its line.

## 2. Modules

    AwaitContract      what co_await and any() promise; no tokens, no queues
        ^ implemented by (ImplementsAwaitContract)
    WaitRefinement     the refinement mapping          EXTENDS WaitEngine
    WaitEngine         tokens, timers, watches, fire_coroutine
    SignalStore        fields, next(), commit, observe, destroy
    Scheduler          run, settle, hooks, DUT         INSTANCE SignalStore, AwaitContract
    Clock              Simulator::clock, a client of the engine
    BoundedQueue       what a FIFO promises
        ^ implemented by (ImplementsQueue)
    AsyncFifoBench     async_fifo_tb.cpp               EXTENDS AsyncFifo
    AsyncFifo          async_fifo.v: Gray pointers through two registers
    AxisBench          axis_async_fifo_tb.cpp          INSTANCE AxisMaster, AxisSlave, AxisAsyncFifo
    AxisVerdict        the frame FIFO's s_good_frame   EXTENDS AxisBench
    AxisMaster         axis_master.hpp: the driver
    AxisSlave          axis_slave.hpp: the receiver
    AxisAsyncFifo      axis_async_fifo.sv              INSTANCE AsyncFifo, twice
    SeqLemmas          facts about sequences           (proved)
    WaitEngineProofs   types, stale tickets, groups, the walk, delays, the contract
                                                       EXTENDS WaitRefinement
    SignalStoreProofs  what is staged, the last next() wins
    SchedulerProofs    complete ticks, dumps, hooks    INSTANCE SignalStoreProofs
    AsyncFifoProofs    the FIFO in any environment: pointers in order, levels, the queue
    AsyncFifoBenchProofs  the bench's FIFO: no underflow, a bounded queue, in order
                                                       EXTENDS AsyncFifoProofs
    AxisBenchProofs    beats hold, beats in order, types, frames in order
                       and none lost
                                                       INSTANCE AsyncFifoProofs, twice
    MCWaitEngine, MCSignalStore, MCScheduler, MCClock,
    MCAsyncFifo, MCAxisBench, MCAxisVerdict            instances for TLC

`Scheduler` uses the *abstract* `AwaitContract` instead of `WaitEngine`: how tickets
are queued does not matter to it, only when they are answered, and `WaitEngine` is
checked and proved to implement the contract.  That keeps the two hard parts apart and both
state spaces small.

### WaitEngine and the code

* `stack` is the chain of coroutine bodies on the C++ stack.  A spawn from inside a
  coroutine runs the new body's first segment on top (`Kernel::add_coroutine`); engine
  steps need an empty stack, except that `mode = "fired"` marks that `process` is
  inside `on_fire`.
* `timers` is the priority queue in pop order; `InsertTimer` places an entry behind
  those of the same deadline, as `timer_id` does.  `PopDead` is the lazy deletion shared
  by `next_deadline` and `advance_to`; `Advance`, `AdvanceFire`, `AdvanceEnd` are the loop.
* `watches` and `parked` are `watches_` and `pending_`; `ci` and `ei` the two loop
  variables of `process`; one action per branch of its body: `DropDeadEntry`, `KeepEntry`,
  `FireEntry`, then user code, then `EraseFired`.
* A token is a name; `NewToken` takes one that nothing references, so a model with few
  names reuses them as an allocator does, and a stale ticket that a new wait could
  mistake for its own would show.
* `status` is the state of the handle; `state_` is the code's own field, which only the
  first segment maintains.
* `Unwatch` is `unwatch_all`, between passes and from user code inside one.  The constant
  `DestroysWalked` says whether user code goes so far as to destroy the signal whose vector
  `process` is walking, which `monitor_engine.cpp:20` does not check.  It is `FALSE` in all runs
  (section 3, limits).
* A ticket with a null handle or token and a null signal do not occur: each caller
  passes one.

### SignalStore and the code

`cells` are the Verilator fields (or a signal's own store), `CellOf` is `ptr_`, `staged`,
`prev` and `flagged` are `next_val_`, `prev_val_` and `pending_`, `pending` the list of pointers
and `changed` what `observe` reports, a set because it reports each signal once.  `staged` starts as `Garbage`
because `next_val_` is not initialised.  `asked` is a history variable: the value of the
last `next()` for a field since the last commit.

### Scheduler and the code

`pc` is the position in `run`/`settle`/`eval`; each step between two callbacks is an action,
in the order of the source.  A hook runs when its trigger holds at that moment
(`triggered()`), so hook bodies are the `Write`, `Bind`, `Unbind`, `Spawn` and `Cancel` steps taken
while `pc` is `"pre"` or `"post"`.  The DUT assigns its outputs arbitrarily and may call
`$finish`.  `dutSaw`, `late`, `undumped` and `aborted` are history variables.  `Stop` is the end of `Scheduler::run`
followed by `collect_exceptions` and `cleanup_finished`; a hook's exception and the delta
limit leave without them, as in `Kernel::run`.

Main binds the signals of `Bound` before anything else and keeps them; user code anywhere binds and
destroys those of `Transient`.  `walked` is the signal whose vector `process` is inside of while
`on_fire` runs: `Unbind` spares that one and no other, like `DestroysWalked = FALSE` above.

### AsyncFifo, AsyncFifoBench and the code

`wr` and `rd` are the registers of the two clocks.  Assignments are nonblocking, so an edge
reads the other side as it was, and two edges at one instant are the conjunction of
`WrEdge` and `RdEdge`.  `bin2gray` and `gray2bin` are translated bit by bit, not assumed to be
inverse.  In the read ahead (`Shown`) the address wraps as an index of the array does in Verilator's
build; `async_fifo.v:183` adds 1 to `rd_ptr[AWID-1:0]` in 32 bits, which at the top address is out
of range by IEEE 1800.  `GrayCode` says what the synchronisers need of them and TLC evaluates it for
pointers of two to six bits.  Metastability is left out, as it is in a Verilator model.
The benches raise reset only before the first edge, where it changes nothing that the
edges do not, so its asynchronous rise is not an action.

A tick of the bench is one step: the DUT is evaluated with the inputs committed before the
edge, then the coroutines waiting for that edge run, read its outputs (the primed state) and
stage the next inputs.  That order is what module `Scheduler` establishes
(`DutSawCoroutineWrites`, `QuiescentAtDump`).  The clocks rise in any order, one at a time or
together, not only with the periods 4 and 20 of the bench.

### AxisBench and the code

Here the order inside a tick matters, because the bus functional models write DUT fields
from hooks, outside `Signal`: `Sample`, `Eval`, `Drive` and `Wake` are the sample hooks, the
DUT, the drive hooks and the coroutines of one tick, for the clocks that rise in it.
`AxisMaster` and `AxisSlave` have one action per method; `AxisBench` conjoins them.  The bench
sends one frame of 14 words into FIFOs of 16; the model sends plans of several frames,
partial and empty ones too, and also runs the FIFO in stream mode (`FRAME_FIFO = 0`), because in
frame mode `s_axis.tready` is constant and the driver is never held back.  `accepted`,
`received` and `handshake` are history variables.  The receiver's `tready_i` is not
initialised by its constructor: `AxisSlave!Init` leaves it open, and nothing depends on it,
as `tvalid_i` is tested first.

The plans a frame FIFO handles are named by `FrameFifoHandles`: frames that fit in it together, with
one `tkeep` for all their beats, and behind them at most one that does not fit.  It is not an
assumption of the module; `MCAxisBench` says that its plans meet it.  `AxisVerdict` adds the FIFO's
own verdict, `s_good_frame`, for the other plans.

## 3. Runs

| Run | Bounds | What it shows |
|---|---|---|
| `wait_edges` | 2 coroutines, 2 signals, 3 tokens, `any` of 2, time up to 1 | types, no stale wake-up, bounded groups, no watch skipped, the walked vector untouched, the contract |
| `wait_timers` | 2 coroutines, 1 signal, 2 intervals, 3 tokens, `any` of 2, time up to 3 | no delay late or skipped, passes and advances end (liveness), the contract |
| `wait_stale` | 2 coroutines, 1 signal, 2 intervals, 3 tokens, time up to 2 | violated: a destroyed frame is asked whether it is done |
| `signal_store` | a scalar and a wide signal, values 0-2 | no dangling or lost staged value, last write wins |
| `scheduler_deltas` | 2 coroutines, clock and DUT output, both hooks, limit of 2 deltas, duration 2 | ticks end complete; the DUT saw what coroutines wrote; sample sees testbench edges only |
| `scheduler_failures` | exceptions, two runs of durations 1 and 2, a signal destroyed and bound again | ticks that are dumped are complete nevertheless; no instant goes by without a dump; `run` returns, and serves every delay up to its duration, also one left over (liveness) |
| `scheduler_sample` | exceptions, two runs | violated: a sample hook sees a DUT edge |
| `scheduler_rethrow` | 2 coroutines, exceptions | violated: not the first exception is rethrown |
| `clock_period` | periods 2, 3, 4, 5, 7, 10 up to time 60 | every clock keeps its period |
| `async_fifo` | 4 words deep, words modulo 6, reset of 3 edges | types, safe levels, no underflow, order, a bounded queue, every word read in the end (liveness) |
| `axis_bench` | FIFOs of 2 beats, lanes of 2 bytes, 4 plans of 2 or 3 frames | beats as sent, offered beats hold, frames in order, none lost, all delivered (liveness) |
| `axis_misfit` | the same FIFOs, a plan of 3 frames, frame mode | violated: a frame reported good is discarded with the bad one before it |

**Why the bounds are enough.**  The hazards of the wait machinery need two coroutines (one
that fires, one that is cancelled, spawned or skipped behind it), two triggers in one
`any`, and one token more than are armed at once, so that a stale one is reused.
Each coroutine may leave entries behind, so that two intervals give entries before, at and
behind a deadline.  Two signals give a pass with a signal after the one being walked.  `MaxTime`,
`Tokens`, `Runs` and the small `MaxDelta` (10000 in the code) cap what is otherwise unbounded; a limit of 2
is reached by any coroutine that answers one delta with another.  Coroutines and
signals are symmetric in the runs without liveness.

For the FIFOs, six words through four places make pointers wrap and order visible; `WordMod`
larger than `DEPTH` keeps a lost word from hiding behind its successor.  Two beats of depth are
the least the code allows, and the frames are both shorter and longer than that.  The
theorems lift the depth; a run of `axis_bench` with FIFOs of four beats passed once and is too
slow to keep.

Deadlock is not checked in the runs of the engine (`CHECK_DEADLOCK FALSE`): the simulation stops when nobody waits
for a delay, every coroutine is over and the bounds are used up.

Each violated run is a disagreement between the code and one of its comments or documents;
`PROJECT.json` quotes both.  `wait_stale` needs only a timed `any()` whose coroutine ends before the
delay and a second `run()`.  In `axis_misfit` the frame between takes the last place of the FIFO, its last beat is refused, and the
receiver takes the frame before it, so that the third is stored and reported good.  `DISCARD`, looking for
a `tlast`, finds that of the third frame (`axis_async_fifo.sv:399`), and `frame_dfifo_rd_en`, still set, takes
the beat.

**Limits seen on the way**, outside the listed runs: with `DestroysWalked = TRUE` the invariant
`FiredEntryStays` fails as soon as a coroutine destroys the signal it was woken for: `process` then
erases through an iterator of a vector that is gone.  Edges are of a signal's whole value
(`signal.hpp:86`): from 2 to 1 there is no posedge and from 0 to 2 there is one, although
`signal_val.hpp:9` says `bit0: 0→1`.  With `MaxTime` beyond `TimeModulus` (an
interval near 2^64 used as "never") a delay wraps and `DelaysAhead` fails; with two signals
bound to one field (`CellOf` not injective) `LastNextWins` fails, because commits follow
the order of each signal's first `next()`: `a.next(1), b.next(2), a.next(3)` leaves 2.  With
plans that `FrameFifoHandles` leaves out, a frame of several beats whose last is partial loses bytes
of every beat (`<<1, 2, 3>>` arrives as `<<1, 3>>`), because one `tkeep` is kept per frame.

## 4. Fairness

`WF_vars(EngineStep)`: the engine is a loop on one thread and user code has no means to hold
it up except by not returning.  `WF_vars(SegmentEnds)`: a coroutine body reaches its next
await or its end.  That is an assumption about user code (`while (true) {}` between two
awaits hangs any simulator), weaker than asking it of each coroutine.  Nothing is assumed about which
coroutine wakes, when edges happen, or that `run` is called.

`AsyncFifoBench!LiveSpec`: each clock rises again and again (weak fairness of the steps in which
it does), as `Simulator::clock` never stops, and the delay before `go` is finite.
`AxisBench!LiveSpec`: the scheduler finishes each tick (weak), each clock rises in infinitely many
ticks (strong, because a tick may take the other one), the writer's pauses end, and `rand()`
makes the receiver ready again and again.  The last two are strong fairness: they are
choices of a step that happens anyway.

## 5. Abstract specification and refinement

`AwaitContract` has a set of armed conditions per coroutine, consumed as one.  It says:
exactly one condition wakes a wait and its index is the result; the others are
forgotten at that moment; time moves to the earliest delay and never past one;
an observation ends only when nobody is left waiting for what it showed; what is
armed during an observation is not answered by it.  `WaitRefinement` reads the conditions
off the tickets with valid tokens.  `PopDead`, `KeepEntry`, `EraseFired` and the like
stutter; `Cancel` and `Cleanup` disarm; `EndProcess` merges `later` into `armed`.

`BoundedQueue` accepts a word when it is not full, delivers the oldest, and may do both at
one instant.  The mapping reads the queue out of the memory, from the reader's pointer up to the
writer's (`Contents`), and the delivered word out of `rd_data`; synchroniser steps stutter.

## 6. Proofs

Every theorem is for all values of the constants that meet the modules' assumptions, and for
any behaviour of user code the model allows.  Lemmas about sequences (insertion, removal,
concatenation, `FlattenSeq`, prefixes) are in `SeqLemmas`.

**WaitEngine** (`WaitEngineProofs`)

All of them suppose `DestroysWalked = FALSE`: what holds after a vector was erased under its iterator is
for no model to say.

* `TypeCorrect`: `Spec => [](TypeOK /\ FiredEntryStays)`.  The type of `ei` and of the walked
  entry depends on user code not touching the walked vector, so the inductive
  invariant is the type invariant together with `FiredEntryStays`: while `on_fire` runs, `(ci, ei)`
  names an entry.
* `NoStaleWakeUp`: `Spec => []TicketsOfThisWait`, inductive together with
  the type invariant: arming takes a token no ticket references (so old tickets keep their
  tokens dead), firing invalidates the whole group, and a group never shares a token
  with another.  `KeepTokens`, `ArmTokens` and `FireTokens` carry the three cases.
* `WalkedVectorSafe`: `Spec => WalkedVectorUntouched`: of what user code may do inside `on_fire`, the
  hypothesis leaves out one thing, and all the rest leaves the walked vector alone.  The watch table is written only by
  `watch`, which parks while a pass runs, by the pass itself, which is waiting for
  `on_fire`, and by the destruction of another signal.
* `GroupsStayBounded`: `Spec => []GroupBounded`.  `DeadOutsideWait` says why
  the first trigger of a wait finds a group it may empty, `OneRegisters` why each further
  one adds at most one: only the innermost coroutine registers, and what its group
  holds it has registered in this wait.
* `WalkMissesNothing`: `Spec => []NoMissedEdge`, with `ChangesOnlyInPass` (no change list outside a
  pass).  A dead ticket stays dead while a pass runs (`DeadStays`), erasing leaves the entries
  before the position in place (`RemoveAtPrefix`), and an entry the position steps over was not
  satisfied.
* `DelaysStayAhead`: `MaxTime < TimeModulus` implies `Spec => []DelaysAhead`.  The property looks at
  the head of the queue only, so the invariant `DelayInv` adds that the queue is sorted by
  deadline (`InsertTimer` keeps it so) and that every valid ticket lies ahead, or is due now
  while `advance_to` runs.
* `AwaitContractKept`: under the same hypothesis, `Spec => ImplementsAwaitContract`.  The mapping
  needs all of the above and three facts more (`ContractInv`): an observed change is never empty
  (`PassShows`), the entry whose coroutine runs is dead (`FiredIsDead`), and the conditions a wait has
  registered so far carry the indices below the next one (`Registering`).  Step by step: `Spawn`
  is `Begin`; `RegisterDelay` and `RegisterTrigger` are `AwaitDelay` and `AwaitEdge`; `Suspend` is
  `Sleep`; `Finish` is `End`; `Cancel` is `Disarm`; `Unwatch` is `Forget`; `Advance` is `Tick`;
  `AdvanceFire` and `FireEntry` are `Wake`; `BeginProcess` and `EndProcess` are `Observe` and
  `EndObservation`; `PopDead`, `AdvanceEnd`, `DropDeadEntry`, `KeepEntry`, `EraseFired`, `NextSignal` and
  `Cleanup` stutter, because they touch dead tickets only.

**SignalStore** (`SignalStoreProofs`)

* `StoreTypeCorrect` and `FlagsMatchPending`: `Spec => []TypeOK` and `[]PendingMatchesFlags`.  The
  invariant `StoreInv` says that the registry and `pending` have no duplicates, that `pending` lists
  exactly the flagged signals, and that these are registered, writable and have a
  `next_val_`: so a commit reads no uninitialised value.
* `LastNextDecides`: `OneSignalPerField` implies `Spec => LastNextWins`.  The invariant `AskedIsStaged` relates
  the history to what is staged.  The hypothesis is needed (section 3, limits).

**Scheduler** (`SchedulerProofs`)

The store is the one of `SignalStore`: `SameStore` and `StepOfStore` show that each step of the
scheduler is a step of it, so `StoreInv` is used, not proved again.  `SchedInv` adds, phase by phase:
user code is quiet while the engine computes (`QuietInEngine`); what is staged between the first
commit and the last is staged by hooks (`HooksAreLate`); the DUT saw every input but those
(`DutCurrent`); after `observe` no signal has an unreported change (`AllObserved`); only a pass parks
waits (`LaterOnlyInPass`); and a tick is dumped with nothing staged (`NothingStagedAtDump`).

* `SchedulerTypeCorrect`, `DumpIsQuiescent`, `DutSeesCoroutines`: `[]TypeOK`, `[]QuiescentAtDump`,
  `[]DutSawCoroutineWrites`, exceptions and repeated calls of `run` included.
* `InstantsDumped`: `Spec => []NoInstantSkipped`.  A delay fires in `advance` only, and from there every
  way to the next advance leads through a dump, the ways out of `run` by an exception or the delta limit
  included, because the next `run` begins with one (`DumpedBeforeLoop`, `DumpedKept`).
* `SampleBeforeDut`: `MayThrow = FALSE` implies `Spec => []SampleSeesOnlyTestbenchEdges`.  The invariant
  `DutObserved` says that no edge of the DUT is left unobserved when the next sample hooks run.  The hypothesis is
  needed: run `scheduler_sample` violates the property with exceptions.

**Clock**: `ClockKeepsPeriod`: `Spec => []TypeOK /\ FullPeriod`.  `InPeriod` ties the next deadline to
the last rise.

**The asynchronous FIFO** (`AsyncFifoProofs`, `AsyncFifoBenchProofs`)

`AsyncFifoProofs` makes no assumption about who writes and reads, so both benches use it.  The
levels are not inductive: they compare a pointer with one that is on its way.  `FifoInv`
follows all six: the writer's pointer, its two copies in the reader's clock, the reader's pointer
and its two copies in the writer's clock lie in this order around the ring, and the steps between
them add up to at most `DEPTH`.  A clock edge moves one pointer and shifts its side's copies by
one; a tick in which both clocks rise is the two after one another.

* `LevelsAreConservative`, `NothingReadFromEmpty`: `Spec => []LevelsConservative`, `[]NoUnderflow`.
* `FifoImplementsQueue`: `Spec => ImplementsQueue`.  With the chain, a write falls on an address no
  held word has (`WriteAppends`) and a read finds the oldest word (`ReadTakesHead`); both are lemmas of
  `AsyncFifoProofs`, for the other bench needs them too.
* `WordsInOrder`: `Spec => ReadsInOrder`, on top of the refinement.  `CountInv` says that the held words
  are consecutive from `expected` and that the driver's count is the next word, or one
  ahead when the word on the wires is about to be taken: `wr_full` is read one edge early, and a
  word that is refused must be offered again.
* `BenchTypeCorrect`: `Spec => []TypeOK`.

**The AXI4-Stream bench** (`AxisBenchProofs`)

* `BeatsHold`: `Spec => OfferedBeatsHold`.  At the receiver's side an offered beat is the head of a
  FIFO, and the writer may not overwrite it: that is `DutInv`, `FifoInv` for both FIFOs
  with the shown word at the head (`HeadShown`); in stream mode a beat is offered only when both FIFOs
  have one, and they move in step (`InStep`).  At the driver's side it is `BusInv`: the
  `tready` that the sample hook stored is the one the FIFO used at the edge (`DriverKnows`), and the bus
  is quiet in reset (`QuietInReset`).
* `BeatsInOrder`: `Spec => []BeatsAsSent`.  `SendInv` says that the beats taken, and the one on the wires,
  are the packed beats of the frames up to the current one and `k` of its own, where `k` is
  what the byte index counts (`Partly`), and that the rest of the plan is in the queues (`QueueHolds`).
* `TypeCorrect`: `Spec => []TypeOK`.  The words in the memories, what the receiver collects, and the counters are
  the three parts of `TypeInv`.

* `FramesArrive`: `Spec /\ Handled => []FramesInOrder`, in both modes; `Handled` says of a frame FIFO
  that its plan meets `FrameFifoHandles`, and nothing of a stream.  `BeatsInOrder` is about what goes into the FIFO;
  this one follows every beat to the receiver and through its buffer.  The invariant is `FlowInv`.

  - `FlowBase` joins the invariants of the theorems above with what the receiver knows: the beat it puts
    away after an edge is the beat the edge showed (`ReceiverKnows`), so that `InHand` and `PutTogether` (the
    frames it has, including what lies between edge and drive hook) move at the edge only (`EvalKnows`,
    `OthersKnow`).
  - `Whole` are the frames due of the plan.  `Reached(f, k)`: the receiver has `f` of them and `k` beats of
    the next, `Got(f, k)` beats in all.
  - A queue follows a log: `Tracks(q, log, c, m)` says that the queue begins with entries `c + 1` to `m` of it,
    and `TracksMoves` that this goes on through any mix of a push and a pop.  That both FIFOs of the
    DUT are queues, also when both clocks rise at once, is `DataMoves` and `AuxMoves`.
  - *Stream mode* (`StreamAt`): both FIFOs hold exactly the beats taken and not yet received, side by side.
  - *Frame mode* (`FrameAt`): the data FIFO holds the beats of frames that fit between the receiver and the
    writer, and what an oversized frame left behind them.  `Writing(e)` is the writer: `frame_beat_cnt` counts
    the beats since frame `e` ended, and an oversized frame is either marked by `frame_overflow` or counts
    past the depth before its last beat, so that its auxiliary entry is `bad`.  `AuxHeld` is the other FIFO: one
    good entry for each frame that is in, then bad ones at most.  `Reading` is the state machine, which
    reads an entry one edge after it has moved on: in `FORWARD` the frame is wholly in and `frame_tkeep`
    is its own, and `DISCARD` begins only after everything that is due has come out.  `SeenLevels`
    bounds what the writer believes is in the FIFO by what was ever taken, so that no beat of a frame that
    fits is lost to a full FIFO it only believes in.
  - In reset nothing is in (`Empty`), which is also the initial state.

  `Handled` is used where it must be: one `tkeep` for all beats of a
  frame (`KeepIs`), and an oversized frame only as the last (`FrameShape`).

* `NothingDropped`: `Spec /\ Handled => []NothingLost`.  `FramesInOrder` would allow the last frames to vanish; this one
  does not.  From `FlowInv`: with an empty data FIFO the receiver has every beat taken that is due
  (`EmptyMeansGot`), and whoever has the beats of `m` frames has `m` frames (`EnoughGot`).  It says nothing of
  a good frame behind a bad one, which `Handled` leaves out and run `axis_misfit` shows lost.

What a fold or a flattened sequence computes is proved by induction over an explicit set of indices
(`NatSetInduction`), since the library's induction theorems cannot be instantiated here.

**Assumptions.**  Those named `...Assumption` in the modules: nonempty bounds, intervals of at least 1
(`COROSIM_ASSERT` in `Delay`), periods of at least 2 (`COROSIM_ASSERT` in `clock`), and those of section 7.
That the Gray code can be undone (`GrayCode`) is a statement about bit vectors of any width, over powers of
two for which the provers have no facts; the assumptions of the two benches state it, and TLC evaluates it
for every width from two to six bits.  Some theorems have hypotheses of their own.  `DestroysWalked = FALSE` (all of `WaitEngineProofs`): section 3, limits, has
what happens otherwise.  `Handled` (`FramesArrive`, `NothingDropped`): run `axis_misfit`
shows that the second needs it.  `MaxTime < TimeModulus` (`DelaysStayAhead`, `AwaitContractKept`):
a simulation of 2^64 units does not end, and `delay` with an interval near it is the limit named in
section 3; the runs have 3 < 8.  `OneSignalPerField`: run `signal_store` binds each signal to
its own field.  `MayThrow = FALSE`: run `scheduler_deltas` has it.

**Only model-checked**: liveness (fairness and ENABLED are beyond the prover): `WalksEnd`, `RunReturns`, `DelaysServed`,
`ReadsGoOn`, `AllDelivered`.

## 7. Preconditions on user code

Destroying a signal inside `process()` while its own entries are walked is undefined behaviour in the
code.  `WaitEngine` has a constant for it, `Scheduler` a guard (`walked`); every other signal may be
destroyed from inside a pass.  The models exclude altogether: writing a DUT field without a `Signal`;
calling `run` from inside `run`; using a `Coroutine*` after `cleanup_finished`.

`AxisBenchAssumption` says that the two FIFOs have one depth and that the writer starts after reset.
The rest of it types the parameters: plans are sequences of frames as `send` takes them, the memories
hold words at power-up, the counters are naturals, and both FIFOs' Gray codes can be undone (`GrayCode`).
What a sender must keep to in frame mode is `FrameFifoHandles` (section 2).  An empty frame is taken by the
driver and silently not sent.  The reader stops after the words it expects, and a wrong word
is printed but does not fail the bench (`axis_async_fifo_tb.cpp:71` leaves `errors` alone).

## 8. Not modelled, and the plan

Not modelled: `Dut`, `Module`, `corosim.hpp` (forwarding and ownership: they construct the same
`Signal` and call the same `Kernel`), `check.hpp`, `logger.hpp`, `log.hpp` (text and aborts), `sig.hpp`
(macros for types), `set_verilator_time` and the dump callback (output only), Verilator itself
(external: arbitrary outputs); of the examples, the level, flag and strobe outputs but `s_good_frame`,
`ALWAYS_RECEIVE`, other placements of the side channels, and the processes of `async_fifo_tb.cpp` that only
count overflows and full edges or set a timeout event nobody awaits.

What is left, in this order:

1. *Prove.*  What the hypotheses leave out does not hold (section 3: the violated runs and the limits); the
   liveness properties need fairness and `ENABLED`, beyond the prover.  A proof that the composition of
   `WaitEngine` and `SignalStore` under the scheduler implements `Scheduler`'s reading of them would follow
   item 2.
2. *Extend.*  A composition of `SignalStore` with `WaitEngine` itself under the scheduler's order, to
   check the mapping end to end; `always()` as a process that must miss no edge; a `Module` tree
   whose children are created after `attach`; what a frame FIFO that met a bad frame still promises for
   the frames long after it.
