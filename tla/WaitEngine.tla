----------------------------- MODULE WaitEngine -----------------------------
(***************************************************************************)
(* How a coroutine waits and how the engine wakes it: Task/Coroutine,      *)
(* WaitGroup and WaitToken, the register_*_wait calls behind co_await and  *)
(* any(), TimerEngine, MonitorEngine and Scheduler::fire_coroutine.        *)
(*                                                                         *)
(* Everything runs on one C++ thread.  The hard part is re-entrancy: user  *)
(* code runs inside TimerEngine::advance_to and MonitorEngine::process,    *)
(* and from there arms new waits, spawns, cancels and finishes coroutines  *)
(* while the engine holds a position in its queues.  `stack' is the chain  *)
(* of coroutine bodies now on the C++ stack; the engine moves only when it *)
(* is empty.  The module is open: which changes are observed and when time *)
(* advances is up to the client (module Scheduler).                        *)
(***************************************************************************)
EXTENDS Integers, FiniteSets, SequencesExt

CONSTANTS
  Coroutines,   \* bound: the coroutines that may ever be spawned
  Signals,      \* the SignalVal pointers a watch may name
  Tokens,       \* bound: WaitTokens that can be referenced at one time
  Types,        \* the trigger types user code awaits
  Intervals,    \* the intervals user code passes to delay()
  MaxAny,       \* bound: the largest number of triggers given to any()
  TimeModulus,  \* sim_time is unsigned: 2^64 in the code
  MaxTime,      \* bound: no delay is armed for an instant beyond it
  DestroysWalked  \* whether user code destroys a signal whose entry is being fired

ASSUME WaitEngineAssumption ==
  /\ Types \subseteq {"POSEDGE", "NEGEDGE", "CHANGE"}
  /\ MaxAny \in Nat \ {0}
  /\ TimeModulus \in Nat \ {0}
  /\ MaxTime \in Nat
  /\ DestroysWalked \in BOOLEAN
  /\ Intervals \subseteq Nat \ {0}     \* COROSIM_ASSERT in Delay

TriggerType == {"POSEDGE", "NEGEDGE", "CHANGE"}

\* The handle's state: a frame is "awaiting" while await_suspend registers
\* its triggers, "done" when its body has returned or thrown (to the engine it
\* is the same: unhandled_exception stores the exception), and "destroyed"
\* once cleanup_finished has dropped the Coroutine that owned it.
HandleStatus == {"unborn", "running", "awaiting", "suspended", "done", "destroyed"}

CoroutineState == {"ACTIVE", "WAITING", "DONE", "CANCELLED"}

VARIABLES
  status,    \* [Coroutines -> HandleStatus]
  state_,    \* [Coroutines -> CoroutineState]: Coroutine::state_
  stack,     \* coroutine bodies on the C++ stack, innermost last
  nreg,      \* triggers registered so far by the innermost await_suspend
  which,     \* [Coroutines -> Int]: which_, the winning index any() returns
  group,     \* [Coroutines -> SUBSET Tokens]: WaitGroup::entries_
  valid,     \* the tokens whose valid_ is true
  now,       \* TimerEngine::now_
  timers,    \* TimerEngine::queue_, in the order in which it pops
  watches,   \* MonitorEngine::watches_: per signal, in registration order
  parked,    \* MonitorEngine::pending_
  changed,   \* the ChangeRecords being processed
  ci, ei,    \* positions in `changed' and in the entries of its signal
  mode       \* "idle", "advance", "process", or "fired": inside on_fire

coVars == <<status, state_, stack, nreg, which>>
tokenVars == <<group, valid>>
timerVars == <<now, timers>>
passVars == <<changed, ci, ei, mode>>
monitorVars == <<watches, parked, changed, ci, ei, mode>>
vars == <<coVars, tokenVars, timerVars, monitorVars>>

NoIndex == -1
Indices == 0 .. MaxAny - 1
Times == 0 .. TimeModulus - 1
TimerEntry == [deadline : Times, h : Coroutines, tok : Tokens, idx : Indices]
WatchEntry == [type : TriggerType, h : Coroutines, tok : Tokens, idx : Indices]
ChangeRecord == [sig : Signals, trig : SUBSET TriggerType]

NoWatches == [s \in Signals |-> <<>>]

\* The changed_ lists DeltaEngine::observe can build: each signal at most once,
\* and an edge never without CHANGE (Signal::trig_info).
TrigInfos == {{"POSEDGE", "CHANGE"}, {"NEGEDGE", "CHANGE"}, {"CHANGE"}}

ChangeLists ==
  {chg \in BoundedSeq([sig : Signals, trig : TrigInfos], Cardinality(Signals)) :
     \A i, j \in DOMAIN chg : chg[i].sig = chg[j].sig => i = j}

\* Every FireTicket the engine still holds.
Tickets ==
  Range(timers) \cup (UNION {Range(watches[s]) : s \in Signals})
                \cup (UNION {Range(parked[s]) : s \in Signals})

Referenced == (UNION {group[c] : c \in Coroutines}) \cup {e.tok : e \in Tickets}

\* What the engine tests before it fires a ticket.  handle.done() comes first
\* in the code; on a destroyed frame its answer does not matter here, because
\* ~Coroutine has invalidated the token and the entry is dropped either way.
LiveWhateverToken(e) == status[e.h] # "done"               \* mutant
Live(e) == status[e.h] # "done" /\ e.tok \in valid

\* User code is in control: the innermost coroutine body, or, when no
\* coroutine is running and no queue is being walked, main or a hook.
CoroutineRuns(c) == stack # <<>> /\ Last(stack) = c /\ status[c] = "running"
UserRuns == \/ stack = <<>> /\ mode = "idle"
            \/ \E c \in Coroutines : CoroutineRuns(c)

Init ==
  /\ status = [c \in Coroutines |-> "unborn"]
  /\ state_ = [c \in Coroutines |-> "ACTIVE"]
  /\ stack = <<>> /\ nreg = 0
  /\ which = [c \in Coroutines |-> NoIndex]
  /\ group = [c \in Coroutines |-> {}] /\ valid = {}
  /\ now = 0 /\ timers = <<>>
  /\ watches = NoWatches /\ parked = NoWatches
  /\ changed = <<>> /\ ci = 1 /\ ei = 1 /\ mode = "idle"

-----------------------------------------------------------------------------
(* Coroutines *)

\* Kernel::add_coroutine: spawn, bind the promise, run the first segment.
Spawn(c) ==
  /\ UserRuns
  /\ status[c] = "unborn"
  /\ status' = [status EXCEPT ![c] = "running"]
  /\ stack' = Append(stack, c)
  /\ UNCHANGED <<state_, nreg, which, tokenVars, timerVars, monitorVars>>

\* Coroutine::resume wraps only the first segment; later ones are resumed
\* by fire_coroutine through the bare handle and leave state_ alone.
LeaveSegment(c, to) ==
  /\ stack' = Front(stack)
  /\ state_' = IF state_[c] = "ACTIVE" THEN [state_ EXCEPT ![c] = to] ELSE state_

\* WaitGroup::cleanup_invalid.
UnreapedGroup(c) == group[c]                                    \* mutant
ReapedGroup(c) == group[c] \cap valid

\* The registration part of one trigger: WaitGroup::add_*_watch (cleanup,
\* then a new token) for the innermost coroutine.  A plain co_await is an
\* any() of one trigger whose index nobody reads.
Arm(c, t) ==
  /\ stack # <<>> /\ Last(stack) = c
  /\ status[c] \in {"running", "awaiting"}
  /\ nreg < MaxAny
  /\ Tokens \ Referenced # {} /\ t \in Tokens \ Referenced
  /\ group' = [group EXCEPT ![c] = ReapedGroup(c) \cup {t}]
  /\ valid' = valid \cup {t}
  /\ status' = [status EXCEPT ![c] = "awaiting"]
  /\ nreg' = nreg + 1
  /\ which' = [which EXCEPT ![c] = NoIndex]
  /\ UNCHANGED <<state_, stack>>

\* A shared_ptr allocates a token nobody references.
NewToken == CHOOSE t \in Tokens : t \notin Referenced

\* The position register_compound_wait passes as fire_idx.
IndexFromOne == nreg + 1                                        \* mutant
TriggerIndex == nreg

\* priority_queue order: by deadline, then by timer_id, which only grows.
InsertTimer(q, e) ==
  InsertAt(q, 1 + Cardinality({i \in DOMAIN q : q[i].deadline <= e.deadline}), e)

\* Kernel::register_delay_wait; now + interval wraps like the unsigned it is.
RegisterDelay(c, n) ==
  /\ n \in Intervals /\ now + n <= MaxTime
  /\ Arm(c, NewToken)
  /\ timers' = InsertTimer(timers, [deadline |-> (now + n) % TimeModulus,
                                    h |-> c, tok |-> NewToken, idx |-> TriggerIndex])
  /\ UNCHANGED <<now, monitorVars>>

\* MonitorEngine::processing_.
NeverProcessing == FALSE                                        \* mutant
Processing == mode \in {"process", "fired"}

\* MonitorEngine::watch: while a pass is running, new watches are parked in
\* pending_.
Watch(s, entry) ==
  \/ /\ Processing
     /\ parked' = [parked EXCEPT ![s] = Append(@, entry)]
     /\ UNCHANGED watches
  \/ /\ ~Processing
     /\ watches' = [watches EXCEPT ![s] = Append(@, entry)]
     /\ UNCHANGED parked

\* Kernel::register_trigger_wait.
RegisterTrigger(c, s, ty) ==
  /\ Arm(c, NewToken)
  /\ Watch(s, [type |-> ty, h |-> c, tok |-> NewToken, idx |-> TriggerIndex])
  /\ UNCHANGED <<timerVars, passVars>>

\* await_suspend returns: control goes back to whoever resumed the coroutine.
Suspend(c) ==
  /\ stack # <<>> /\ Last(stack) = c
  /\ status[c] = "awaiting"
  /\ status' = [status EXCEPT ![c] = "suspended"]
  /\ nreg' = 0
  /\ LeaveSegment(c, "WAITING")
  /\ UNCHANGED <<which, tokenVars, timerVars, monitorVars>>

\* The body returns or throws.
Finish(c) ==
  /\ CoroutineRuns(c)
  /\ status' = [status EXCEPT ![c] = "done"]
  /\ LeaveSegment(c, "DONE")
  /\ UNCHANGED <<nreg, which, tokenVars, timerVars, monitorVars>>

\* Coroutine::cancel.  instance() returns the pointer after the first segment
\* and cleanup_finished ends its life.
Cancel(c) ==
  /\ UserRuns
  /\ status[c] \notin {"unborn", "destroyed"} /\ state_[c] # "ACTIVE"
  /\ state_' = [state_ EXCEPT ![c] = "CANCELLED"]
  /\ valid' = valid \ group[c]
  /\ UNCHANGED <<status, stack, nreg, which, group, timerVars, monitorVars>>

\* CoroutineManager::cleanup_finished: ~Coroutine invalidates what is left.
Finished == {c \in Coroutines : status[c] = "done"}

Cleanup ==
  /\ mode = "idle" /\ stack = <<>>
  /\ status' = [c \in Coroutines |-> IF c \in Finished THEN "destroyed" ELSE status[c]]
  /\ group' = [c \in Coroutines |-> IF c \in Finished THEN {} ELSE group[c]]
  /\ valid' = valid \ UNION {group[c] : c \in Finished}
  /\ UNCHANGED <<state_, stack, nreg, which, timerVars, monitorVars>>

-----------------------------------------------------------------------------
(* Scheduler::fire_coroutine: write the winning index, cancel the sibling  *)
(* tokens, invalidate this one, resume the handle.                         *)

\* cancel_others_fn_ and token->invalidate().
ValidWithSiblings(e) == valid \ {e.tok}                         \* mutant
ValidAfterFire(e) == valid \ (group[e.h] \cup {e.tok})

Fire(e) ==
  /\ which' = [which EXCEPT ![e.h] = e.idx]
  /\ valid' = ValidAfterFire(e)
  /\ status' = [status EXCEPT ![e.h] = "running"]
  /\ stack' = Append(stack, e.h)
  /\ UNCHANGED <<state_, nreg, group>>

-----------------------------------------------------------------------------
(* TimerEngine *)

\* next_deadline and advance_to both drop dead entries from the top.
PopDead ==
  /\ mode \in {"idle", "advance"} /\ stack = <<>>
  /\ timers # <<>> /\ ~Live(Head(timers))
  /\ timers' = Tail(timers)
  /\ UNCHANGED <<coVars, tokenVars, now, monitorVars>>

\* advance_to(*next_deadline()): set now_ and start firing.
Advance ==
  /\ mode = "idle" /\ stack = <<>>
  /\ timers # <<>> /\ Live(Head(timers))
  /\ now' = Head(timers).deadline
  /\ mode' = "advance"
  /\ UNCHANGED <<coVars, tokenVars, timers, watches, parked, changed, ci, ei>>

StrictlyDue(e) == e.deadline < now                              \* mutant
Due(e) == e.deadline <= now

AdvanceFire ==
  /\ mode = "advance" /\ stack = <<>>
  /\ timers # <<>> /\ Live(Head(timers)) /\ Due(Head(timers))
  /\ Fire(Head(timers))
  /\ timers' = Tail(timers)
  /\ UNCHANGED <<now, monitorVars>>

AdvanceEnd ==
  /\ mode = "advance" /\ stack = <<>>
  /\ timers # <<>> => Live(Head(timers)) /\ ~Due(Head(timers))
  /\ mode' = "idle"
  /\ UNCHANGED <<coVars, tokenVars, timerVars, watches, parked, changed, ci, ei>>

-----------------------------------------------------------------------------
(* MonitorEngine::process *)

\* The early return: nothing changed or nobody watches.
NothingToProcess(chg) == chg = <<>> \/ watches = NoWatches

BeginProcess(chg) ==
  /\ mode = "idle" /\ stack = <<>>
  /\ ~NothingToProcess(chg)
  /\ changed' = chg /\ ci' = 1 /\ ei' = 1
  /\ mode' = "process"
  /\ UNCHANGED <<coVars, tokenVars, timerVars, watches, parked>>

Walking == mode = "process" /\ stack = <<>> /\ ci <= Len(changed)
Entries == watches[changed[ci].sig]
AtEntry == Walking /\ ei <= Len(Entries)

\* entries.erase(entries.begin() + i): i now names the entry behind it.
EraseAndSkip ==                                                 \* mutant
  /\ watches' = [watches EXCEPT ![changed[ci].sig] = RemoveAt(@, ei)]
  /\ ei' = ei + 1
EraseEntry ==
  /\ watches' = [watches EXCEPT ![changed[ci].sig] = RemoveAt(@, ei)]
  /\ UNCHANGED ei

DropDeadEntry ==
  /\ AtEntry /\ ~Live(Entries[ei])
  /\ EraseEntry
  /\ UNCHANGED <<coVars, tokenVars, timerVars, parked, changed, ci, mode>>

KeepEntry ==
  /\ AtEntry /\ Live(Entries[ei]) /\ Entries[ei].type \notin changed[ci].trig
  /\ ei' = ei + 1
  /\ UNCHANGED <<coVars, tokenVars, timerVars, watches, parked, changed, ci, mode>>

FireEntry ==
  /\ AtEntry /\ Live(Entries[ei]) /\ Entries[ei].type \in changed[ci].trig
  /\ Fire(Entries[ei])
  /\ mode' = "fired"
  /\ UNCHANGED <<timerVars, watches, parked, changed, ci, ei>>

\* on_fire has returned: erase the entry that fired, in place.
EraseFired ==
  /\ mode = "fired" /\ stack = <<>>
  /\ EraseEntry
  /\ mode' = "process"
  /\ UNCHANGED <<coVars, tokenVars, timerVars, parked, changed, ci>>

NextSignal ==
  /\ Walking /\ ei > Len(Entries)
  /\ ci' = ci + 1 /\ ei' = 1
  /\ UNCHANGED <<coVars, tokenVars, timerVars, watches, parked, changed, mode>>

\* The pass is over: parked watches join the table, behind the older ones.
EndProcess ==
  /\ mode = "process" /\ stack = <<>> /\ ci > Len(changed)
  /\ watches' = [s \in Signals |-> watches[s] \o parked[s]]
  /\ parked' = NoWatches
  /\ changed' = <<>> /\ ci' = 1 /\ ei' = 1
  /\ mode' = "idle"
  /\ UNCHANGED <<coVars, tokenVars, timerVars>>

\* MonitorEngine::unwatch_all, when a Signal is destroyed.  The code does not ask
\* whether process() is walking the entries it erases: if user code destroys
\* that very signal, what process() does next is undefined behaviour, and the
\* model says nothing of the states after FiredEntryStays has failed.
Unwatch(s) ==
  /\ UserRuns
  /\ mode = "fired" /\ ~DestroysWalked => changed[ci].sig # s
  /\ watches' = [watches EXCEPT ![s] = <<>>]
  /\ parked' = [parked EXCEPT ![s] = <<>>]
  /\ UNCHANGED <<coVars, tokenVars, timerVars, passVars>>

-----------------------------------------------------------------------------
UserStep ==
  \/ \E c \in Coroutines :
       \/ Spawn(c) \/ Suspend(c) \/ Finish(c) \/ Cancel(c)
       \/ \E n \in Intervals : RegisterDelay(c, n)
       \/ \E s \in Signals, ty \in Types : RegisterTrigger(c, s, ty)
  \/ \E s \in Signals : Unwatch(s)

EngineStep ==
  \/ PopDead \/ Advance \/ AdvanceFire \/ AdvanceEnd
  \/ \E chg \in ChangeLists : BeginProcess(chg)
  \/ DropDeadEntry \/ KeepEntry \/ FireEntry \/ EraseFired \/ NextSignal \/ EndProcess
  \/ Cleanup

Next == UserStep \/ EngineStep
Spec == Init /\ [][Next]_vars

\* The engine is a loop on one thread, and user code between two awaits is
\* expected to reach the next await or the end of its body.
SegmentEnds == \E c \in Coroutines : Suspend(c) \/ Finish(c)
LiveSpec == Spec /\ WF_vars(EngineStep) /\ WF_vars(SegmentEnds)

-----------------------------------------------------------------------------
(* Properties *)

TypeOK ==
  /\ status \in [Coroutines -> HandleStatus]
  /\ state_ \in [Coroutines -> CoroutineState]
  /\ stack \in Seq(Coroutines)
  /\ nreg \in 0 .. MaxAny
  /\ which \in [Coroutines -> Indices \cup {NoIndex}]
  /\ group \in [Coroutines -> SUBSET Tokens]
  /\ valid \subseteq Tokens
  /\ now \in Times
  /\ timers \in Seq(TimerEntry)
  /\ watches \in [Signals -> Seq(WatchEntry)]
  /\ parked \in [Signals -> Seq(WatchEntry)]
  /\ changed \in Seq(ChangeRecord)
  /\ ci \in Nat \ {0} /\ ei \in Nat \ {0}
  /\ mode \in {"idle", "advance", "process", "fired"}

\* A valid token belongs to the wait its coroutine is in now: it is in that
\* coroutine's WaitGroup and the coroutine is registering or suspended.  A
\* ticket left over from a wait that is over - an any() loser, a cancelled or a
\* destroyed coroutine - can therefore never resume a later wait, a running
\* frame or a finished one.
TicketsOfThisWait ==
  /\ \A e \in Tickets :
       e.tok \in valid => /\ e.tok \in group[e.h]
                          /\ status[e.h] \in {"awaiting", "suspended"}
  /\ \A c, d \in Coroutines : c # d => group[c] \cap group[d] = {}

\* WaitGroup::entries_ never outgrows one any(): cleanup_invalid reaps the
\* tokens of earlier waits although nobody tells the group when they are over.
GroupBounded == \A c \in Coroutines : Cardinality(group[c]) <= MaxAny

\* process() walks vectors it erases from and calls user code that arms new
\* watches.  Behind the walk no live watch is left that the observed change
\* satisfies: erasing neither skips an entry nor does a new watch slip in.
PassedSignal(k) == IF k < ci THEN DOMAIN watches[changed[k].sig]
                   ELSE {i \in DOMAIN watches[changed[k].sig] : k = ci /\ i < ei}
NoMissedEdge ==
  \A k \in DOMAIN changed : \A i \in PassedSignal(k) :
    LET e == watches[changed[k].sig][i] IN Live(e) => e.type \notin changed[k].trig

\* While on_fire runs user code, the position process() holds still names the
\* entry that fired, which it will remove in place (monitor_engine.hpp:31).
\* Nothing checks that user code leaves the signal alone: see DestroysWalked.
FiredEntryStays == mode = "fired" => ci \in DOMAIN changed /\ ei \in DOMAIN Entries

\* While on_fire runs, neither a watch armed there nor the destruction of
\* another signal touches the vector that is walked: a push_back would leave
\* the reference to the ticket being fired dangling.
WalkedVectorUntouched ==
  [][mode = "fired" /\ mode' = "fired" =>
       watches'[changed[ci].sig] = watches[changed[ci].sig]]_vars

\* Outside advance_to every delay a coroutine still waits for is in the future,
\* and inside it none is in the past: no wake-up is late and none is skipped
\* when several delays share a deadline or a firing re-arms.
DelaysAhead ==
  \A e \in Range(timers) :
    Live(e) => IF mode = "advance" THEN e.deadline >= now ELSE e.deadline > now

\* A frame destroyed by cleanup_finished is not looked at again.
\* coroutine/wait.hpp:15 promises this of stale scheduler entries; TimerEngine
\* and MonitorEngine evaluate handle.done() before they look at the token.
StaleTimerTouchesNoFrame == [][PopDead => status[Head(timers).h] # "destroyed"]_vars

\* Every pass over the watches and every advance of time comes to an end, even
\* when each coroutine that is woken waits for the same signal or arms the
\* next delay at once.
WalksEnd == mode # "idle" ~> mode = "idle"
=============================================================================
