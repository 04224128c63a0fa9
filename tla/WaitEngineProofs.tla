-------------------------- MODULE WaitEngineProofs --------------------------
(***************************************************************************)
(* Theorems about WaitEngine, for every number of coroutines, signals,     *)
(* tokens and triggers, and for every behaviour of user code: types, the   *)
(* position process() holds across on_fire, the tokens a ticket may carry  *)
(* and the size of a WaitGroup; then what the two queues promise - process *)
(* misses no edge, time passes no delay - and, from that, that the wait    *)
(* machinery implements AwaitContract.                                     *)
(***************************************************************************)
EXTENDS WaitRefinement, SeqLemmas

-----------------------------------------------------------------------------
(* The building blocks *)

\* priority_queue::push keeps the type of the queue and adds one entry.
LEMMA InsertTimerLemma ==
  ASSUME NEW q \in Seq(TimerEntry), NEW e \in TimerEntry
  PROVE  /\ InsertTimer(q, e) \in Seq(TimerEntry)
         /\ Range(InsertTimer(q, e)) \subseteq Range(q) \cup {e}
<1> DEFINE before == {i \in DOMAIN q : q[i].deadline <= e.deadline}
<1>1. before \subseteq DOMAIN q
  OBVIOUS
<1>2. Cardinality(before) \in 0 .. Len(q)
  BY <1>1, CountLemma
<1>3. InsertTimer(q, e) = InsertAt(q, 1 + Cardinality(before), e)
  BY DEF InsertTimer
<1> HIDE DEF before
<1>4. 1 + Cardinality(before) \in 1 .. Len(q) + 1
  BY <1>2
<1> QED
  BY <1>3, <1>4, InsertAtLemma

\* Leaving a coroutine body keeps stack and state_ well typed.
LEMMA LeaveSegmentType ==
  ASSUME TypeOK, NEW c \in Coroutines, NEW to \in CoroutineState,
         stack # <<>>, LeaveSegment(c, to)
  PROVE  stack' \in Seq(Coroutines) /\ state_' \in [Coroutines -> CoroutineState]
<1>1. stack' \in Seq(Coroutines)
  BY FrontLemma DEF TypeOK, LeaveSegment
<1>2. state_' \in [Coroutines -> CoroutineState]
  BY DEF TypeOK, LeaveSegment
<1> QED
  BY <1>1, <1>2

\* The part of TypeOK that resuming a coroutine through a ticket touches.
LEMMA FireType ==
  ASSUME TypeOK, NEW e, e \in TimerEntry \/ e \in WatchEntry, Fire(e)
  PROVE  /\ status' \in [Coroutines -> HandleStatus]
         /\ state_' \in [Coroutines -> CoroutineState]
         /\ stack' \in Seq(Coroutines)
         /\ nreg' \in 0 .. MaxAny
         /\ which' \in [Coroutines -> Indices \cup {NoIndex}]
         /\ group' \in [Coroutines -> SUBSET Tokens]
         /\ valid' \subseteq Tokens
<1>1. e.h \in Coroutines /\ e.idx \in Indices
  BY DEF TimerEntry, WatchEntry
<1> QED
  BY <1>1 DEF TypeOK, Fire, ValidAfterFire, HandleStatus

\* The part of TypeOK that registering a trigger touches.
LEMMA ArmType ==
  ASSUME TypeOK, NEW c \in Coroutines, Arm(c, NewToken)
  PROVE  /\ NewToken \in Tokens
         /\ TriggerIndex \in Indices
         /\ status' \in [Coroutines -> HandleStatus]
         /\ state_' \in [Coroutines -> CoroutineState]
         /\ stack' \in Seq(Coroutines)
         /\ nreg' \in 0 .. MaxAny
         /\ which' \in [Coroutines -> Indices \cup {NoIndex}]
         /\ group' \in [Coroutines -> SUBSET Tokens]
         /\ valid' \subseteq Tokens
<1>1. NewToken \in Tokens /\ nreg < MaxAny
  BY DEF Arm
<1>2. TriggerIndex \in Indices /\ nreg + 1 \in 0 .. MaxAny
  BY <1>1, WaitEngineAssumption DEF TypeOK, TriggerIndex, Indices
<1> QED
  BY <1>1, <1>2 DEF TypeOK, Arm, ReapedGroup, HandleStatus

\* The entries a pass walks over are watches of the signal it stands at.
LEMMA EntryType ==
  ASSUME TypeOK, ci \in DOMAIN changed
  PROVE  changed[ci].sig \in Signals /\ Entries \in Seq(WatchEntry)
<1>1. changed \in Seq(ChangeRecord)
  BY DEF TypeOK
<1>2. changed[ci] \in ChangeRecord
  BY <1>1
<1>3. changed[ci].sig \in Signals
  BY <1>2 DEF ChangeRecord
<1> QED
  BY <1>3 DEF TypeOK, Entries

\* Erasing the entry the pass stands at keeps the table well typed.
LEMMA EraseEntryType ==
  ASSUME TypeOK, ci \in DOMAIN changed, ei <= Len(Entries), EraseEntry
  PROVE  /\ watches' \in [Signals -> Seq(WatchEntry)]
         /\ \A s \in Signals : Range(watches'[s]) \subseteq Range(watches[s])
         /\ ei' = ei
<1> DEFINE sg == changed[ci].sig
<1>1. sg \in Signals /\ watches[sg] \in Seq(WatchEntry) /\ ei \in 1 .. Len(watches[sg])
  <2>1. sg \in Signals /\ watches[sg] \in Seq(WatchEntry)
    BY EntryType DEF Entries
  <2>2. ei \in Nat \ {0} /\ ei <= Len(watches[sg])
    BY DEF TypeOK, Entries
  <2> QED
    BY <2>1, <2>2
<1>2. /\ watches' = [watches EXCEPT ![sg] = RemoveAt(watches[sg], ei)]
      /\ ei' = ei
  BY DEF EraseEntry
<1>3. /\ RemoveAt(watches[sg], ei) \in Seq(WatchEntry)
      /\ Range(RemoveAt(watches[sg], ei)) \subseteq Range(watches[sg])
  BY <1>1, RemoveAtLemma
<1> HIDE DEF sg
<1> QED
  BY <1>1, <1>2, <1>3 DEF TypeOK

-----------------------------------------------------------------------------
(* Type correctness *)

\* The observed changes handed to a pass are a sequence of change records.
LEMMA ChangeListType ==
  ASSUME NEW chg \in ChangeLists
  PROVE  chg \in Seq(ChangeRecord)
<1> DEFINE R == [sig : Signals, trig : TrigInfos]
<1>1. PICK n \in 0 .. Cardinality(Signals) : chg \in [1 .. n -> R]
  BY DEF ChangeLists, BoundedSeq, SeqOf
<1>2. TrigInfos \subseteq SUBSET TriggerType
  BY DEF TrigInfos, TriggerType
<1>3. R \subseteq ChangeRecord
  BY <1>2 DEF ChangeRecord
<1>4. n \in Nat
  OBVIOUS
<1> HIDE DEF R
<1>5. chg \in Seq(R)
  BY <1>1, <1>4
<1> QED
  BY <1>3, <1>5, SeqMonotonic

LEMMA TypeInit == Init => TypeOK
<1> SUFFICES ASSUME Init PROVE TypeOK
  OBVIOUS
<1>1. 0 \in Times /\ 0 \in 0 .. MaxAny
  BY WaitEngineAssumption DEF Times
<1> QED
  BY <1>1 DEF Init, TypeOK, HandleStatus, CoroutineState, NoWatches, NoIndex

\* Steps that user code takes.
LEMMA TypeUserStep ==
  ASSUME TypeOK, UserStep
  PROVE  TypeOK'
<1> USE DEF coVars, tokenVars, timerVars, passVars, monitorVars
<1>1. ASSUME NEW c \in Coroutines, Spawn(c) PROVE TypeOK'
  <2>1. Append(stack, c) \in Seq(Coroutines)
    BY AppendLemma DEF TypeOK
  <2> QED
    BY <1>1, <2>1 DEF TypeOK, Spawn, HandleStatus
<1>2. ASSUME NEW c \in Coroutines, Suspend(c) PROVE TypeOK'
  <2>1. stack' \in Seq(Coroutines) /\ state_' \in [Coroutines -> CoroutineState]
    BY <1>2, LeaveSegmentType DEF Suspend, CoroutineState
  <2>2. 0 \in 0 .. MaxAny
    BY WaitEngineAssumption
  <2> QED
    BY <1>2, <2>1, <2>2 DEF TypeOK, Suspend, HandleStatus
<1>3. ASSUME NEW c \in Coroutines, Finish(c) PROVE TypeOK'
  <2>1. stack' \in Seq(Coroutines) /\ state_' \in [Coroutines -> CoroutineState]
    BY <1>3, LeaveSegmentType DEF Finish, CoroutineRuns, CoroutineState
  <2> QED
    BY <1>3, <2>1 DEF TypeOK, Finish, HandleStatus
<1>4. ASSUME NEW c \in Coroutines, Cancel(c) PROVE TypeOK'
  BY <1>4 DEF TypeOK, Cancel, CoroutineState
<1>5. ASSUME NEW c \in Coroutines, NEW n \in Intervals, RegisterDelay(c, n)
      PROVE TypeOK'
  <2> DEFINE at == (now + n) % TimeModulus
             entry == [deadline |-> at, h |-> c, tok |-> NewToken, idx |-> TriggerIndex]
  <2>1. Arm(c, NewToken)
    BY <1>5 DEF RegisterDelay
  <2>2. at \in Times
    <3>1. now + n \in Nat
      BY WaitEngineAssumption DEF TypeOK, Times
    <3> QED
      BY <3>1, WaitEngineAssumption DEF Times
  <2>3. entry \in TimerEntry
    BY <2>1, <2>2, ArmType DEF TimerEntry
  <2>4. timers' = InsertTimer(timers, entry)
    BY <1>5 DEF RegisterDelay
  <2> HIDE DEF entry
  <2>5. timers' \in Seq(TimerEntry)
    BY <2>3, <2>4, InsertTimerLemma DEF TypeOK
  <2>6. UNCHANGED <<now, monitorVars>>
    BY <1>5 DEF RegisterDelay
  <2> QED
    BY <2>1, <2>5, <2>6, ArmType DEF TypeOK
<1>6. ASSUME NEW c \in Coroutines, NEW s \in Signals, NEW ty \in Types,
             RegisterTrigger(c, s, ty)
      PROVE TypeOK'
  <2> DEFINE entry == [type |-> ty, h |-> c, tok |-> NewToken, idx |-> TriggerIndex]
  <2>1. Arm(c, NewToken)
    BY <1>6 DEF RegisterTrigger, Watch
  <2>2. entry \in WatchEntry
    BY <2>1, ArmType, WaitEngineAssumption DEF WatchEntry, TriggerType
  <2>3. \/ /\ parked' = [parked EXCEPT ![s] = Append(parked[s], entry)]
           /\ UNCHANGED watches
        \/ /\ watches' = [watches EXCEPT ![s] = Append(watches[s], entry)]
           /\ UNCHANGED parked
    BY <1>6 DEF RegisterTrigger, Watch
  <2> HIDE DEF entry
  <2>4. /\ Append(parked[s], entry) \in Seq(WatchEntry)
        /\ Append(watches[s], entry) \in Seq(WatchEntry)
    BY <2>2, AppendLemma DEF TypeOK
  <2>5. watches' \in [Signals -> Seq(WatchEntry)] /\ parked' \in [Signals -> Seq(WatchEntry)]
    BY <2>3, <2>4 DEF TypeOK
  <2>6. UNCHANGED <<timerVars, passVars>>
    BY <1>6 DEF RegisterTrigger, Watch
  <2> QED
    BY <2>1, <2>5, <2>6, ArmType DEF TypeOK
<1>7. ASSUME NEW s \in Signals, Unwatch(s) PROVE TypeOK'
  BY <1>7 DEF TypeOK, Unwatch
<1> QED
  BY <1>1, <1>2, <1>3, <1>4, <1>5, <1>6, <1>7 DEF UserStep

\* Steps that the engine takes.
LEMMA TypeEngineStep ==
  ASSUME TypeOK, FiredEntryStays, EngineStep
  PROVE  TypeOK'
<1> USE DEF coVars, tokenVars, timerVars, passVars, monitorVars
<1>1. CASE PopDead
  <2>1. Tail(timers) \in Seq(TimerEntry)
    BY <1>1, TailLemma DEF TypeOK, PopDead
  <2> QED
    BY <1>1, <2>1 DEF TypeOK, PopDead
<1>2. CASE Advance
  <2>1. Head(timers) \in TimerEntry
    BY <1>2, TailLemma DEF TypeOK, Advance
  <2>2. Head(timers).deadline \in Times
    BY <2>1 DEF TimerEntry
  <2> QED
    BY <1>2, <2>2 DEF TypeOK, Advance
<1>3. CASE AdvanceFire
  <2>1. Head(timers) \in TimerEntry /\ Tail(timers) \in Seq(TimerEntry)
    BY <1>3, TailLemma DEF TypeOK, AdvanceFire
  <2>2. Fire(Head(timers)) /\ timers' = Tail(timers) /\ UNCHANGED <<now, monitorVars>>
    BY <1>3 DEF AdvanceFire
  <2> QED
    BY <2>1, <2>2, FireType DEF TypeOK
<1>4. CASE AdvanceEnd
  BY <1>4 DEF TypeOK, AdvanceEnd
<1>5. ASSUME NEW chg \in ChangeLists, BeginProcess(chg) PROVE TypeOK'
  BY <1>5, ChangeListType DEF TypeOK, BeginProcess
<1>6. CASE DropDeadEntry
  <2>1. ci \in DOMAIN changed /\ ei <= Len(Entries) /\ EraseEntry
    BY <1>6 DEF DropDeadEntry, AtEntry, Walking, TypeOK
  <2>2. watches' \in [Signals -> Seq(WatchEntry)] /\ ei' = ei
    BY <2>1, EraseEntryType
  <2> QED
    BY <1>6, <2>2 DEF TypeOK, DropDeadEntry
<1>7. CASE KeepEntry
  BY <1>7 DEF TypeOK, KeepEntry
<1>8. CASE FireEntry
  <2>1. Entries[ei] \in WatchEntry
    <3>1. ci \in DOMAIN changed /\ ei <= Len(Entries) /\ ei \in Nat \ {0}
      BY <1>8 DEF FireEntry, AtEntry, Walking, TypeOK
    <3>2. Entries \in Seq(WatchEntry)
      BY <3>1, EntryType
    <3> QED
      BY <3>1, <3>2
  <2>2. Fire(Entries[ei]) /\ mode' = "fired" /\ UNCHANGED <<timerVars, watches, parked, changed, ci, ei>>
    BY <1>8 DEF FireEntry
  <2> HIDE DEF Entries
  <2> QED
    BY <2>1, <2>2, FireType DEF TypeOK
<1>9. CASE EraseFired
  <2>1. ci \in DOMAIN changed /\ ei \in DOMAIN Entries /\ EraseEntry
    BY <1>9 DEF EraseFired, FiredEntryStays
  <2>2. ei <= Len(Entries)
    BY <2>1, EntryType
  <2>3. watches' \in [Signals -> Seq(WatchEntry)] /\ ei' = ei
    BY <2>1, <2>2, EraseEntryType
  <2> QED
    BY <1>9, <2>3 DEF TypeOK, EraseFired
<1>10. CASE NextSignal
  BY <1>10 DEF TypeOK, NextSignal
<1>11. CASE EndProcess
  <2>1. \A s \in Signals : watches[s] \o parked[s] \in Seq(WatchEntry)
    BY ConcatLemma DEF TypeOK
  <2> QED
    BY <1>11, <2>1 DEF TypeOK, EndProcess, NoWatches
<1>12. CASE Cleanup
  BY <1>12 DEF TypeOK, Cleanup, HandleStatus
<1> QED
  BY <1>1, <1>2, <1>3, <1>4, <1>5, <1>6, <1>7, <1>8, <1>9, <1>10, <1>11, <1>12
  DEF EngineStep

\* User code that runs inside on_fire leaves the walk where it is, and the
\* vector it walks as it is, if it does not destroy the signal itself.
LEMMA WalkedVectorKept ==
  ASSUME DestroysWalked = FALSE, TypeOK, FiredEntryStays, UserStep, mode' = "fired"
  PROVE  /\ mode = "fired" /\ UNCHANGED <<changed, ci, ei, mode>>
         /\ watches'[changed[ci].sig] = watches[changed[ci].sig]
<1> USE DEF coVars, tokenVars, timerVars, passVars, monitorVars
<1>1. mode = "fired" /\ UNCHANGED <<changed, ci, ei, mode>>
  BY DEF UserStep, Spawn, Suspend, Finish, Cancel, RegisterDelay,
         RegisterTrigger, Watch, Unwatch
<1>2. changed[ci].sig \in Signals
  BY <1>1, EntryType DEF FiredEntryStays
<1>3. CASE UNCHANGED watches
  BY <1>1, <1>3
<1>4. ASSUME NEW s \in Signals, Unwatch(s)
      PROVE watches'[changed[ci].sig] = watches[changed[ci].sig]
  BY <1>1, <1>2, <1>4 DEF Unwatch, TypeOK
<1>5. ASSUME NEW c \in Coroutines, NEW s \in Signals, NEW ty \in Types,
             RegisterTrigger(c, s, ty)
      PROVE UNCHANGED watches
  BY <1>1, <1>5 DEF RegisterTrigger, Watch, Processing
<1> QED
  BY <1>1, <1>3, <1>4, <1>5
  DEF UserStep, Spawn, Suspend, Finish, Cancel, RegisterDelay

\* Only FireEntry enters on_fire.
LEMMA OnFireByFireEntry ==
  ASSUME EngineStep, mode' = "fired"
  PROVE  FireEntry
  BY DEF EngineStep, PopDead, Advance, AdvanceFire, AdvanceEnd, BeginProcess,
         DropDeadEntry, KeepEntry, EraseFired, NextSignal, EndProcess, Cleanup,
         AtEntry, Walking, coVars, tokenVars, timerVars, passVars, monitorVars

\* What a fired position needs: no user step and no engine step moves it.
LEMMA FiredEntryStep ==
  ASSUME DestroysWalked = FALSE, TypeOK, FiredEntryStays, Next
  PROVE  FiredEntryStays'
<1> SUFFICES ASSUME mode' = "fired"
             PROVE  ci' \in DOMAIN changed' /\ ei' \in DOMAIN Entries'
  BY DEF FiredEntryStays
<1>1. CASE UserStep
  BY <1>1, WalkedVectorKept DEF FiredEntryStays, Entries
<1>2. CASE EngineStep
  <2>1. FireEntry
    BY <1>2, OnFireByFireEntry
  <2>2. ci \in DOMAIN changed /\ ei <= Len(Entries) /\ ei \in Nat \ {0}
    BY <2>1 DEF FireEntry, AtEntry, Walking, TypeOK
  <2>3. ei \in DOMAIN Entries
    BY <2>2, EntryType
  <2> QED
    BY <2>1, <2>2, <2>3 DEF FireEntry, Entries
<1> QED
  BY <1>1, <1>2 DEF Next

\* Type correctness together with the position it depends on, and what that
\* asks of user code.
TypeInv == TypeOK /\ FiredEntryStays /\ DestroysWalked = FALSE

LEMMA TypeInvStep == TypeInv /\ [Next]_vars => TypeInv'
<1> SUFFICES ASSUME TypeInv, [Next]_vars PROVE TypeInv'
  OBVIOUS
<1>1. CASE Next
  <2>1. TypeOK'
    BY <1>1, TypeUserStep, TypeEngineStep DEF TypeInv, Next
  <2>2. FiredEntryStays'
    BY <1>1, FiredEntryStep DEF TypeInv
  <2> QED
    BY <2>1, <2>2 DEF TypeInv
<1>2. CASE UNCHANGED vars
  BY <1>2 DEF TypeInv, TypeOK, FiredEntryStays, Entries, vars, coVars, tokenVars,
              timerVars, monitorVars
<1> QED
  BY <1>1, <1>2

\* If user code does not destroy a signal whose entry is being fired, every
\* reachable state of the wait machinery is well typed, and the position
\* MonitorEngine::process holds across on_fire stays inside its vector.
THEOREM TypeCorrect ==
  ASSUME DestroysWalked = FALSE
  PROVE  Spec => [](TypeOK /\ FiredEntryStays)
<1>1. Init => TypeInv
  BY TypeInit DEF TypeInv, Init, FiredEntryStays
<1>2. TypeInv /\ [Next]_vars => TypeInv'
  BY TypeInvStep
<1>3. TypeInv => TypeOK /\ FiredEntryStays
  BY DEF TypeInv
<1> QED
  BY <1>1, <1>2, <1>3, PTL DEF Spec

\* While on_fire runs user code that does not destroy the walked signal itself,
\* no watch it arms and no other signal it destroys touches the vector that
\* process() walks: the reference held into that vector stays good.
THEOREM WalkedVectorSafe ==
  ASSUME DestroysWalked = FALSE
  PROVE  Spec => WalkedVectorUntouched
<1>1. Init => TypeInv
  BY TypeInit DEF TypeInv, Init, FiredEntryStays
<1>2. TypeInv /\ [Next]_vars => TypeInv'
  BY TypeInvStep
<1>3. TypeInv /\ [Next]_vars =>
        [mode = "fired" /\ mode' = "fired" =>
           watches'[changed[ci].sig] = watches[changed[ci].sig]]_vars
  <2> SUFFICES ASSUME TypeInv, Next, mode = "fired", mode' = "fired"
               PROVE  watches'[changed[ci].sig] = watches[changed[ci].sig]
    OBVIOUS
  <2>1. CASE UserStep
    BY <2>1, WalkedVectorKept DEF TypeInv
  <2>2. CASE EngineStep
    BY <2>2, OnFireByFireEntry DEF FireEntry, AtEntry, Walking
  <2> QED
    BY <2>1, <2>2 DEF Next
<1> QED
  BY <1>1, <1>2, <1>3, PTL DEF Spec, WalkedVectorUntouched

-----------------------------------------------------------------------------
(* A valid token belongs to the present wait of its coroutine *)

\* What the engine holds are tickets of known coroutines.
LEMMA TicketType ==
  ASSUME TypeOK, NEW e \in Tickets
  PROVE  e.h \in Coroutines /\ e.tok \in Tokens
<1>1. CASE e \in Range(timers)
  <2>1. e \in TimerEntry
    BY <1>1, RangeIn DEF TypeOK
  <2> QED
    BY <2>1 DEF TimerEntry
<1>2. ASSUME NEW s \in Signals, e \in Range(watches[s]) PROVE e \in WatchEntry
  BY <1>2, RangeIn DEF TypeOK
<1>3. ASSUME NEW s \in Signals, e \in Range(parked[s]) PROVE e \in WatchEntry
  BY <1>3, RangeIn DEF TypeOK
<1>4. CASE e \in WatchEntry
  BY <1>4 DEF WatchEntry
<1> QED
  BY <1>1, <1>2, <1>3, <1>4 DEF Tickets

\* Entries only leave the queues.
LEMMA TicketsShrink ==
  ASSUME Range(timers') \subseteq Range(timers),
         \A s \in Signals : Range(watches'[s]) \subseteq Range(watches[s]),
         \A s \in Signals : Range(parked'[s]) \subseteq Range(parked[s])
  PROVE  Tickets' \subseteq Tickets
<1> SUFFICES ASSUME NEW e \in Tickets' PROVE e \in Tickets
  OBVIOUS
<1>1. CASE e \in Range(timers')
  BY <1>1 DEF Tickets
<1>2. ASSUME NEW s \in Signals, e \in Range(watches'[s]) PROVE e \in Tickets
  BY <1>2 DEF Tickets
<1>3. ASSUME NEW s \in Signals, e \in Range(parked'[s]) PROVE e \in Tickets
  BY <1>3 DEF Tickets
<1> QED
  BY <1>1, <1>2, <1>3 DEF Tickets

\* One entry joins one of the watch tables.
LEMMA TicketsGrow ==
  ASSUME NEW entry, UNCHANGED timers,
         \A s \in Signals : /\ Range(watches'[s]) \subseteq Range(watches[s]) \cup {entry}
                            /\ Range(parked'[s]) \subseteq Range(parked[s]) \cup {entry}
  PROVE  Tickets' \subseteq Tickets \cup {entry}
<1> SUFFICES ASSUME NEW e \in Tickets' PROVE e \in Tickets \cup {entry}
  OBVIOUS
<1>1. CASE e \in Range(timers')
  BY <1>1 DEF Tickets
<1>2. ASSUME NEW s \in Signals, e \in Range(watches'[s]) PROVE e \in Tickets \cup {entry}
  BY <1>2 DEF Tickets
<1>3. ASSUME NEW s \in Signals, e \in Range(parked'[s]) PROVE e \in Tickets \cup {entry}
  BY <1>3 DEF Tickets
<1> QED
  BY <1>1, <1>2, <1>3 DEF Tickets

\* Dropping entries and invalidating tokens cannot make a ticket stale.
LEMMA KeepTokens ==
  ASSUME TicketsOfThisWait, Tickets' \subseteq Tickets,
         UNCHANGED <<status, group>>, valid' \subseteq valid
  PROVE  TicketsOfThisWait'
  BY DEF TicketsOfThisWait

\* fire_coroutine ends the wait of its coroutine: no other ticket of it stays valid.
LEMMA FireTokens ==
  ASSUME TypeOK, TicketsOfThisWait, NEW e, e.h \in Coroutines,
         Fire(e), Tickets' \subseteq Tickets
  PROVE  TicketsOfThisWait'
<1>1. ASSUME NEW f \in Tickets', f.tok \in valid'
      PROVE  f.tok \in group'[f.h] /\ status'[f.h] \in {"awaiting", "suspended"}
  <2>1. f \in Tickets /\ f.tok \in valid /\ f.tok \notin group[e.h]
    BY <1>1 DEF Fire, ValidAfterFire
  <2>2. f.tok \in group[f.h] /\ status[f.h] \in {"awaiting", "suspended"}
    BY <2>1 DEF TicketsOfThisWait
  <2>3. f.h # e.h
    BY <2>1, <2>2
  <2> QED
    BY <2>2, <2>3 DEF Fire, TypeOK
<1>2. group' = group
  BY DEF Fire
<1> QED
  BY <1>1, <1>2 DEF TicketsOfThisWait

\* A token made for a new trigger is nobody else's.
LEMMA ArmTokens ==
  ASSUME TypeOK, TicketsOfThisWait, NEW c \in Coroutines, Arm(c, NewToken),
         NEW entry, entry.h = c, entry.tok = NewToken,
         Tickets' \subseteq Tickets \cup {entry}
  PROVE  TicketsOfThisWait'
<1> DEFINE t == NewToken
<1>1. /\ t \notin Referenced
      /\ group' = [group EXCEPT ![c] = (group[c] \cap valid) \cup {t}]
      /\ valid' = valid \cup {t}
      /\ status' = [status EXCEPT ![c] = "awaiting"]
  BY DEF Arm, ReapedGroup
<1> HIDE DEF t
<1>2. \A d \in Coroutines : t \notin group[d]
  BY <1>1 DEF Referenced
<1>3. \A f \in Tickets : t # f.tok
  BY <1>1 DEF Referenced
<1>4. group'[c] = (group[c] \cap valid) \cup {t} /\ status'[c] = "awaiting"
  BY <1>1 DEF TypeOK
<1>5. \A d \in Coroutines : d # c => group'[d] = group[d] /\ status'[d] = status[d]
  BY <1>1 DEF TypeOK
<1>6. ASSUME NEW f \in Tickets', f.tok \in valid'
      PROVE  f.tok \in group'[f.h] /\ status'[f.h] \in {"awaiting", "suspended"}
  <2>1. CASE f = entry
    BY <2>1, <1>4 DEF t
  <2>2. CASE f \in Tickets
    <3>1. f.tok \in valid
      BY <2>2, <1>1, <1>3, <1>6
    <3>2. f.tok \in group[f.h] /\ status[f.h] \in {"awaiting", "suspended"} /\ f.h \in Coroutines
      BY <2>2, <3>1, TicketType DEF TicketsOfThisWait
    <3> QED
      BY <3>1, <3>2, <1>4, <1>5
  <2> QED
    BY <2>1, <2>2
<1>7. ASSUME NEW x \in Coroutines, NEW y \in Coroutines, x # y
      PROVE  group'[x] \cap group'[y] = {}
  <2>1. group[x] \cap group[y] = {}
    BY <1>7 DEF TicketsOfThisWait
  <2> QED
    BY <2>1, <1>2, <1>4, <1>5, <1>7
<1> QED
  BY <1>6, <1>7 DEF TicketsOfThisWait

LEMMA TokenUserStep ==
  ASSUME TypeOK, TicketsOfThisWait, UserStep
  PROVE  TicketsOfThisWait'
<1> USE DEF coVars, tokenVars, timerVars, passVars, monitorVars
<1>1. ASSUME NEW c \in Coroutines, Spawn(c) PROVE TicketsOfThisWait'
  <2>1. Tickets' = Tickets
    BY <1>1 DEF Spawn, Tickets
  <2>2. status[c] = "unborn" /\ status' = [status EXCEPT ![c] = "running"]
        /\ UNCHANGED <<group, valid>>
    BY <1>1 DEF Spawn
  <2> QED
    BY <2>1, <2>2, TicketType DEF TicketsOfThisWait, TypeOK
<1>2. ASSUME NEW c \in Coroutines, Suspend(c) PROVE TicketsOfThisWait'
  <2>1. Tickets' = Tickets
    BY <1>2 DEF Suspend, Tickets
  <2>2. status' = [status EXCEPT ![c] = "suspended"] /\ UNCHANGED <<group, valid>>
    BY <1>2 DEF Suspend
  <2> QED
    BY <2>1, <2>2, TicketType DEF TicketsOfThisWait, TypeOK
<1>3. ASSUME NEW c \in Coroutines, Finish(c) PROVE TicketsOfThisWait'
  <2>1. Tickets' = Tickets
    BY <1>3 DEF Finish, Tickets
  <2>2. status[c] = "running" /\ status' = [status EXCEPT ![c] = "done"]
        /\ UNCHANGED <<group, valid>>
    BY <1>3 DEF Finish, CoroutineRuns
  <2> QED
    BY <2>1, <2>2, TicketType DEF TicketsOfThisWait, TypeOK
<1>4. ASSUME NEW c \in Coroutines, Cancel(c) PROVE TicketsOfThisWait'
  <2>1. Tickets' = Tickets
    BY <1>4 DEF Cancel, Tickets
  <2>2. UNCHANGED <<status, group>> /\ valid' \subseteq valid
    BY <1>4 DEF Cancel
  <2> QED
    BY <2>1, <2>2, KeepTokens
<1>5. ASSUME NEW c \in Coroutines, NEW n \in Intervals, RegisterDelay(c, n)
      PROVE TicketsOfThisWait'
  <2> DEFINE entry == [deadline |-> (now + n) % TimeModulus, h |-> c,
                       tok |-> NewToken, idx |-> TriggerIndex]
  <2>1. Arm(c, NewToken)
    BY <1>5 DEF RegisterDelay
  <2>2. entry \in TimerEntry
    <3>1. now + n \in Nat
      BY WaitEngineAssumption DEF TypeOK, Times
    <3>2. (now + n) % TimeModulus \in Times
      BY <3>1, WaitEngineAssumption DEF Times
    <3> QED
      BY <2>1, <3>2, ArmType DEF TimerEntry
  <2>3. entry.h = c /\ entry.tok = NewToken
    OBVIOUS
  <2>4. timers' = InsertTimer(timers, entry) /\ UNCHANGED <<watches, parked>>
    BY <1>5 DEF RegisterDelay
  <2> HIDE DEF entry
  <2>5. Range(timers') \subseteq Range(timers) \cup {entry}
    BY <2>2, <2>4, InsertTimerLemma DEF TypeOK
  <2>6. Tickets' \subseteq Tickets \cup {entry}
    BY <2>4, <2>5 DEF Tickets
  <2> QED
    BY <2>1, <2>3, <2>6, ArmTokens
<1>6. ASSUME NEW c \in Coroutines, NEW s \in Signals, NEW ty \in Types,
             RegisterTrigger(c, s, ty)
      PROVE TicketsOfThisWait'
  <2> DEFINE entry == [type |-> ty, h |-> c, tok |-> NewToken, idx |-> TriggerIndex]
  <2>1. Arm(c, NewToken)
    BY <1>6 DEF RegisterTrigger, Watch
  <2>2. entry \in WatchEntry
    BY <2>1, ArmType, WaitEngineAssumption DEF WatchEntry, TriggerType
  <2>3. entry.h = c /\ entry.tok = NewToken
    OBVIOUS
  <2>4. /\ UNCHANGED timers
        /\ \/ /\ parked' = [parked EXCEPT ![s] = Append(parked[s], entry)]
              /\ UNCHANGED watches
           \/ /\ watches' = [watches EXCEPT ![s] = Append(watches[s], entry)]
              /\ UNCHANGED parked
    BY <1>6 DEF RegisterTrigger, Watch
  <2> HIDE DEF entry
  <2>5. /\ Range(Append(parked[s], entry)) = Range(parked[s]) \cup {entry}
        /\ Range(Append(watches[s], entry)) = Range(watches[s]) \cup {entry}
    BY <2>2, AppendLemma DEF TypeOK
  <2>6. \A r \in Signals : /\ Range(watches'[r]) \subseteq Range(watches[r]) \cup {entry}
                           /\ Range(parked'[r]) \subseteq Range(parked[r]) \cup {entry}
    BY <2>4, <2>5 DEF TypeOK
  <2>7. Tickets' \subseteq Tickets \cup {entry}
    BY <2>4, <2>6, TicketsGrow
  <2> QED
    BY <2>1, <2>3, <2>7, ArmTokens
<1>7. ASSUME NEW s \in Signals, Unwatch(s) PROVE TicketsOfThisWait'
  <2>1. /\ UNCHANGED <<status, group, valid, timers>>
        /\ watches' = [watches EXCEPT ![s] = <<>>]
        /\ parked' = [parked EXCEPT ![s] = <<>>]
    BY <1>7 DEF Unwatch
  <2>2. Range(<<>>) = {}
    BY DEF Range
  <2>3. \A r \in Signals : /\ Range(watches'[r]) \subseteq Range(watches[r])
                           /\ Range(parked'[r]) \subseteq Range(parked[r])
    BY <2>1, <2>2 DEF TypeOK
  <2>4. Tickets' \subseteq Tickets
    BY <2>1, <2>3, TicketsShrink
  <2> QED
    BY <2>1, <2>4, KeepTokens
<1> QED
  BY <1>1, <1>2, <1>3, <1>4, <1>5, <1>6, <1>7 DEF UserStep

LEMMA TokenEngineStep ==
  ASSUME TypeOK, FiredEntryStays, TicketsOfThisWait, EngineStep
  PROVE  TicketsOfThisWait'
<1> USE DEF coVars, tokenVars, timerVars, passVars, monitorVars
<1>1. CASE PopDead
  <2>1. timers # <<>> /\ timers' = Tail(timers)
        /\ UNCHANGED <<status, group, valid, watches, parked>>
    BY <1>1 DEF PopDead
  <2>2. Range(timers') \subseteq Range(timers)
    BY <2>1, TailLemma DEF TypeOK
  <2>3. Tickets' \subseteq Tickets
    BY <2>1, <2>2 DEF Tickets
  <2> QED
    BY <2>1, <2>3, KeepTokens
<1>2. CASE AdvanceFire
  <2>1. timers # <<>> /\ timers' = Tail(timers) /\ Fire(Head(timers))
        /\ UNCHANGED <<watches, parked>>
    BY <1>2 DEF AdvanceFire
  <2>2. Range(timers') \subseteq Range(timers) /\ Head(timers) \in TimerEntry
    BY <2>1, TailLemma DEF TypeOK
  <2>3. Tickets' \subseteq Tickets /\ Head(timers).h \in Coroutines
    BY <2>1, <2>2 DEF Tickets, TimerEntry
  <2> QED
    BY <2>1, <2>3, FireTokens
<1>3. CASE DropDeadEntry \/ EraseFired
  <2>1. ci \in DOMAIN changed /\ ei <= Len(Entries) /\ EraseEntry
    <3>1. CASE DropDeadEntry
      BY <3>1 DEF DropDeadEntry, AtEntry, Walking, TypeOK
    <3>2. CASE EraseFired
      BY <3>2, EntryType DEF EraseFired, FiredEntryStays
    <3> QED
      BY <1>3, <3>1, <3>2
  <2>2. UNCHANGED <<status, group, valid, timers, parked>>
    BY <1>3 DEF DropDeadEntry, EraseFired
  <2>3. Tickets' \subseteq Tickets
    BY <2>1, <2>2, EraseEntryType, TicketsShrink
  <2> QED
    BY <2>2, <2>3, KeepTokens
<1>4. CASE FireEntry
  <2>1. Fire(Entries[ei]) /\ UNCHANGED <<timers, watches, parked>>
    BY <1>4 DEF FireEntry
  <2>2. ci \in DOMAIN changed /\ ei <= Len(Entries) /\ ei \in Nat \ {0}
    BY <1>4 DEF FireEntry, AtEntry, Walking, TypeOK
  <2>3. Entries \in Seq(WatchEntry)
    BY <2>2, EntryType
  <2>4. Entries[ei] \in WatchEntry
    BY <2>2, <2>3
  <2>5. Entries[ei].h \in Coroutines
    BY <2>4 DEF WatchEntry
  <2>6. Tickets' = Tickets
    BY <2>1 DEF Tickets
  <2> HIDE DEF Entries
  <2> QED
    BY <2>1, <2>5, <2>6, FireTokens
<1>5. CASE EndProcess
  <2>1. /\ UNCHANGED <<status, group, valid, timers>>
        /\ watches' = [s \in Signals |-> watches[s] \o parked[s]]
        /\ parked' = [s \in Signals |-> <<>>]
    BY <1>5 DEF EndProcess, NoWatches
  <2>2. \A s \in Signals : Range(watches[s] \o parked[s]) = Range(watches[s]) \cup Range(parked[s])
    BY ConcatLemma DEF TypeOK
  <2>3. Range(<<>>) = {}
    BY DEF Range
  <2>4. \A s \in Signals : /\ Range(watches'[s]) = Range(watches[s]) \cup Range(parked[s])
                           /\ Range(parked'[s]) = {}
    BY <2>1, <2>2, <2>3
  <2>5. Tickets' \subseteq Tickets
    <3> SUFFICES ASSUME NEW e \in Tickets' PROVE e \in Tickets
      OBVIOUS
    <3>1. CASE e \in Range(timers')
      BY <3>1, <2>1 DEF Tickets
    <3>2. ASSUME NEW s \in Signals, e \in Range(watches'[s]) PROVE e \in Tickets
      BY <3>2, <2>4 DEF Tickets
    <3>3. ASSUME NEW s \in Signals, e \in Range(parked'[s]) PROVE e \in Tickets
      BY <3>3, <2>4
    <3> QED
      BY <3>1, <3>2, <3>3 DEF Tickets
  <2> QED
    BY <2>1, <2>5, KeepTokens
<1>6. CASE Cleanup
  <2>1. Tickets' = Tickets /\ valid' \subseteq valid
    BY <1>6 DEF Cleanup, Tickets
  <2>2. \A c \in Coroutines :
          /\ c \notin Finished => status'[c] = status[c] /\ group'[c] = group[c]
          /\ group'[c] \subseteq group[c]
    BY <1>6 DEF Cleanup
  <2>3. ASSUME NEW e \in Tickets', e.tok \in valid'
        PROVE  e.tok \in group'[e.h] /\ status'[e.h] \in {"awaiting", "suspended"}
    <3>1. e.tok \in group[e.h] /\ status[e.h] \in {"awaiting", "suspended"}
          /\ e.h \in Coroutines
      BY <2>1, <2>3, TicketType DEF TicketsOfThisWait
    <3>2. e.h \notin Finished
      BY <3>1 DEF Finished
    <3> QED
      BY <3>1, <3>2, <2>2
  <2> QED
    BY <2>2, <2>3 DEF TicketsOfThisWait
<1>7. CASE UNCHANGED <<status, group, valid, timers, watches, parked>>
  BY <1>7, KeepTokens DEF Tickets
<1> QED
  BY <1>1, <1>2, <1>3, <1>4, <1>5, <1>6, <1>7
  DEF EngineStep, Advance, AdvanceEnd, BeginProcess, KeepEntry, NextSignal

\* A ticket with a valid token always belongs to the wait its coroutine is in
\* now: a leftover ticket never resumes anybody, whatever user code does.
THEOREM NoStaleWakeUp ==
  ASSUME DestroysWalked = FALSE
  PROVE  Spec => []TicketsOfThisWait
<1> DEFINE Inv == TypeInv /\ TicketsOfThisWait
<1>1. Init => Inv
  <2> SUFFICES ASSUME Init PROVE Inv
    OBVIOUS
  <2>1. TypeInv
    BY TypeInit DEF TypeInv, Init, FiredEntryStays
  <2>2. valid = {} /\ \A c \in Coroutines : group[c] = {}
    BY DEF Init
  <2> QED
    BY <2>1, <2>2 DEF TicketsOfThisWait
<1>2. Inv /\ [Next]_vars => Inv'
  <2> SUFFICES ASSUME Inv, [Next]_vars PROVE Inv'
    OBVIOUS
  <2>1. TypeInv'
    BY TypeInvStep
  <2>2. CASE Next
    <3>1. TicketsOfThisWait'
      BY <2>2, TokenUserStep, TokenEngineStep DEF Next, TypeInv
    <3> QED
      BY <2>1, <3>1
  <2>3. CASE UNCHANGED vars
    <3>1. UNCHANGED <<status, group, valid, timers, watches, parked>>
      BY <2>3 DEF vars, coVars, tokenVars, timerVars, monitorVars
    <3>2. TicketsOfThisWait'
      BY <3>1, KeepTokens DEF Tickets
    <3> QED
      BY <2>1, <3>2
  <2> QED
    BY <2>2, <2>3
<1>3. Inv => TicketsOfThisWait
  OBVIOUS
<1> QED
  BY <1>1, <1>2, <1>3, PTL DEF Spec

-----------------------------------------------------------------------------
(* WaitGroup::entries_ never outgrows one any(), although nobody tells the *)
(* group when a wait is over.  The bound is not inductive by itself: that  *)
(* cleanup_invalid empties the group at the first trigger of a new wait    *)
(* rests on every token of an earlier wait being dead by then, and that    *)
(* each further trigger adds at most one rests on nobody else registering  *)
(* in between.                                                             *)

BoundedGroups ==
  \A c \in Coroutines : IsFiniteSet(group[c]) /\ Cardinality(group[c]) <= MaxAny

\* Outside a wait every token of the group is dead.
DeadOutsideWait ==
  \A c \in Coroutines :
    group[c] \cap valid # {} => status[c] \in {"awaiting", "suspended"}

\* Only the innermost body registers, and its group holds what it registered.
OneRegisters ==
  \A c \in Coroutines :
    status[c] = "awaiting" =>
      stack # <<>> /\ Last(stack) = c /\ Cardinality(group[c]) <= nreg

GroupInv == TypeInv /\ BoundedGroups /\ DeadOutsideWait /\ OneRegisters

\* While the engine or a running body is in control, nobody is registering.
LEMMA NobodyRegisters ==
  ASSUME OneRegisters, stack = <<>> \/ \E c \in Coroutines : CoroutineRuns(c)
  PROVE  \A c \in Coroutines : status[c] # "awaiting"
  BY DEF OneRegisters, CoroutineRuns

\* A step that leaves the frames alone and adds neither a token to a group nor
\* validity to a token.
LEMMA GroupKept ==
  ASSUME GroupInv, UNCHANGED <<status, stack, nreg, group>>, valid' \subseteq valid
  PROVE  BoundedGroups' /\ DeadOutsideWait' /\ OneRegisters'
  BY DEF GroupInv, BoundedGroups, DeadOutsideWait, OneRegisters

\* One frame goes on to a status other than "awaiting" while nobody else
\* registers; it may leave its wait only if its tokens die with it.
LEMMA GroupFrameMoves ==
  ASSUME GroupInv, NEW c \in Coroutines, NEW st \in HandleStatus \ {"awaiting"},
         \A d \in Coroutines : status[d] = "awaiting" => d = c,
         status' = [status EXCEPT ![c] = st],
         group' = group, valid' \subseteq valid,
         st = "suspended" \/ group[c] \cap valid' = {}
  PROVE  BoundedGroups' /\ DeadOutsideWait' /\ OneRegisters'
<1>1. status'[c] = st /\ \A d \in Coroutines : d # c => status'[d] = status[d]
  BY DEF GroupInv, TypeInv, TypeOK
<1>2. BoundedGroups'
  BY DEF GroupInv, BoundedGroups
<1>3. DeadOutsideWait'
  BY <1>1 DEF GroupInv, DeadOutsideWait
<1>4. OneRegisters'
  BY <1>1 DEF OneRegisters
<1> QED
  BY <1>2, <1>3, <1>4

\* fire_coroutine kills every token of the wait it ends.
LEMMA GroupFire ==
  ASSUME GroupInv, NEW e, e.h \in Coroutines, stack = <<>>, Fire(e)
  PROVE  BoundedGroups' /\ DeadOutsideWait' /\ OneRegisters'
<1>1. \A d \in Coroutines : status[d] # "awaiting"
  BY NobodyRegisters DEF GroupInv
<1>2. group' = group /\ valid' \subseteq valid /\ group[e.h] \cap valid' = {}
  BY DEF Fire, ValidAfterFire
<1>3. status' = [status EXCEPT ![e.h] = "running"]
  BY DEF Fire
<1> QED
  BY <1>1, <1>2, <1>3, GroupFrameMoves DEF HandleStatus

\* Registering a trigger: the first of a wait finds a group of dead tokens and
\* empties it, each further one adds one token to those registered before.
LEMMA GroupArm ==
  ASSUME GroupInv, NEW c \in Coroutines, Arm(c, NewToken)
  PROVE  BoundedGroups' /\ DeadOutsideWait' /\ OneRegisters'
<1> DEFINE t == NewToken
<1>1. /\ stack # <<>> /\ Last(stack) = c /\ stack' = stack
      /\ status[c] \in {"running", "awaiting"}
      /\ nreg < MaxAny /\ nreg' = nreg + 1
      /\ t \notin Referenced
  BY DEF Arm
<1>2. /\ group'[c] = ReapedGroup(c) \cup {t}
      /\ \A d \in Coroutines : d # c => group'[d] = group[d]
      /\ valid' = valid \cup {t}
  BY DEF Arm, GroupInv, TypeInv, TypeOK
<1>3. status'[c] = "awaiting" /\ \A d \in Coroutines : d # c => status'[d] = status[d]
  BY DEF Arm, GroupInv, TypeInv, TypeOK
<1>4. \A d \in Coroutines : t \notin group[d]
  BY <1>1 DEF Referenced
<1>5. \A d \in Coroutines : d # c => status[d] # "awaiting"
  BY <1>1 DEF GroupInv, OneRegisters
<1>6. nreg \in Nat /\ MaxAny \in Nat
  BY WaitEngineAssumption DEF GroupInv, TypeInv, TypeOK
<1> HIDE DEF t
<1>7. IsFiniteSet(ReapedGroup(c)) /\ Cardinality(ReapedGroup(c)) <= nreg
  <2>1. CASE status[c] = "running"
    <3>1. ReapedGroup(c) = {}
      BY <2>1 DEF GroupInv, DeadOutsideWait, ReapedGroup
    <3> QED
      BY <3>1, <1>6, FS_EmptySet
  <2>2. CASE status[c] = "awaiting"
    <3>1. IsFiniteSet(group[c]) /\ Cardinality(group[c]) <= nreg
      BY <2>2 DEF GroupInv, BoundedGroups, OneRegisters
    <3>2. ReapedGroup(c) \in SUBSET group[c]
      BY DEF ReapedGroup
    <3>3. /\ IsFiniteSet(ReapedGroup(c))
          /\ Cardinality(ReapedGroup(c)) <= Cardinality(group[c])
      BY <3>1, <3>2, FS_Subset
    <3>4. Cardinality(ReapedGroup(c)) \in Nat /\ Cardinality(group[c]) \in Nat
      BY <3>1, <3>3, FS_CardinalityType
    <3> QED
      BY <3>1, <3>3, <3>4, <1>6
  <2> QED
    BY <1>1, <2>1, <2>2
<1>8. IsFiniteSet(group'[c]) /\ Cardinality(group'[c]) <= nreg + 1
  <2>1. Cardinality(ReapedGroup(c)) \in Nat
    BY <1>7, FS_CardinalityType
  <2>2. /\ IsFiniteSet(ReapedGroup(c) \cup {t})
        /\ Cardinality(ReapedGroup(c) \cup {t}) =
             IF t \in ReapedGroup(c) THEN Cardinality(ReapedGroup(c))
                                     ELSE Cardinality(ReapedGroup(c)) + 1
    BY <1>7, FS_AddElement
  <2> QED
    BY <1>2, <1>6, <1>7, <2>1, <2>2
<1>9. BoundedGroups'
  <2>1. Cardinality(group'[c]) \in Nat
    BY <1>8, FS_CardinalityType
  <2>2. Cardinality(group'[c]) <= MaxAny
    BY <1>1, <1>6, <1>8, <2>1
  <2> QED
    BY <1>2, <1>8, <2>2 DEF GroupInv, BoundedGroups
<1>10. DeadOutsideWait'
  BY <1>2, <1>3, <1>4 DEF GroupInv, DeadOutsideWait
<1>11. OneRegisters'
  BY <1>1, <1>3, <1>5, <1>8 DEF OneRegisters
<1> QED
  BY <1>9, <1>10, <1>11

LEMMA GroupUserStep ==
  ASSUME GroupInv, UserStep
  PROVE  BoundedGroups' /\ DeadOutsideWait' /\ OneRegisters'
<1> USE DEF tokenVars
<1>1. ASSUME NEW c \in Coroutines, Spawn(c)
      PROVE  BoundedGroups' /\ DeadOutsideWait' /\ OneRegisters'
  <2>1. \A d \in Coroutines : status[d] # "awaiting"
    BY <1>1, NobodyRegisters DEF Spawn, UserRuns, GroupInv
  <2>2. group[c] \cap valid = {}
    BY <1>1 DEF Spawn, GroupInv, DeadOutsideWait
  <2>3. /\ status' = [status EXCEPT ![c] = "running"]
        /\ group' = group /\ valid' = valid
    BY <1>1 DEF Spawn
  <2> QED
    BY <2>1, <2>2, <2>3, GroupFrameMoves DEF HandleStatus
<1>2. ASSUME NEW c \in Coroutines, Suspend(c)
      PROVE  BoundedGroups' /\ DeadOutsideWait' /\ OneRegisters'
  <2>1. \A d \in Coroutines : status[d] = "awaiting" => d = c
    BY <1>2 DEF Suspend, GroupInv, OneRegisters
  <2>2. /\ status' = [status EXCEPT ![c] = "suspended"]
        /\ group' = group /\ valid' = valid
    BY <1>2 DEF Suspend
  <2> QED
    BY <2>1, <2>2, GroupFrameMoves DEF HandleStatus
<1>3. ASSUME NEW c \in Coroutines, Finish(c)
      PROVE  BoundedGroups' /\ DeadOutsideWait' /\ OneRegisters'
  <2>1. \A d \in Coroutines : status[d] # "awaiting"
    BY <1>3, NobodyRegisters DEF Finish, GroupInv
  <2>2. group[c] \cap valid = {}
    BY <1>3 DEF Finish, CoroutineRuns, GroupInv, DeadOutsideWait
  <2>3. /\ status' = [status EXCEPT ![c] = "done"]
        /\ group' = group /\ valid' = valid
    BY <1>3 DEF Finish
  <2> QED
    BY <2>1, <2>2, <2>3, GroupFrameMoves DEF HandleStatus
<1>4. ASSUME NEW c \in Coroutines, Cancel(c)
      PROVE  BoundedGroups' /\ DeadOutsideWait' /\ OneRegisters'
  <2>1. UNCHANGED <<status, stack, nreg, group>> /\ valid' \subseteq valid
    BY <1>4 DEF Cancel
  <2> QED
    BY <2>1, GroupKept
<1>5. ASSUME NEW c \in Coroutines, Arm(c, NewToken)
      PROVE  BoundedGroups' /\ DeadOutsideWait' /\ OneRegisters'
  BY <1>5, GroupArm
<1>6. ASSUME NEW s \in Signals, Unwatch(s)
      PROVE  BoundedGroups' /\ DeadOutsideWait' /\ OneRegisters'
  <2>1. UNCHANGED <<status, stack, nreg, group>> /\ valid' \subseteq valid
    BY <1>6 DEF Unwatch, coVars
  <2> QED
    BY <2>1, GroupKept
<1> QED
  BY <1>1, <1>2, <1>3, <1>4, <1>5, <1>6
  DEF UserStep, RegisterDelay, RegisterTrigger

LEMMA GroupEngineStep ==
  ASSUME GroupInv, EngineStep
  PROVE  BoundedGroups' /\ DeadOutsideWait' /\ OneRegisters'
<1>1. CASE UNCHANGED <<coVars, tokenVars>>
  <2>1. UNCHANGED <<status, stack, nreg, group>> /\ valid' \subseteq valid
    BY <1>1 DEF coVars, tokenVars
  <2> QED
    BY <2>1, GroupKept
<1>2. CASE AdvanceFire
  <2>1. Head(timers) \in TimerEntry
    BY <1>2, TailLemma DEF AdvanceFire, GroupInv, TypeInv, TypeOK
  <2>2. Head(timers).h \in Coroutines
    BY <2>1 DEF TimerEntry
  <2> QED
    BY <1>2, <2>2, GroupFire DEF AdvanceFire
<1>3. CASE FireEntry
  <2>1. ci \in DOMAIN changed /\ ei \in 1 .. Len(Entries) /\ stack = <<>>
    BY <1>3 DEF FireEntry, AtEntry, Walking, GroupInv, TypeInv, TypeOK
  <2>2. Entries[ei] \in WatchEntry
    BY <2>1, EntryType DEF GroupInv, TypeInv
  <2>3. Entries[ei].h \in Coroutines
    BY <2>2 DEF WatchEntry
  <2> QED
    BY <1>3, <2>1, <2>3, GroupFire DEF FireEntry
<1>4. CASE Cleanup
  <2>1. /\ stack = <<>> /\ valid' \subseteq valid
        /\ \A c \in Coroutines :
             /\ status'[c] = IF c \in Finished THEN "destroyed" ELSE status[c]
             /\ group'[c] = IF c \in Finished THEN {} ELSE group[c]
    BY <1>4 DEF Cleanup
  <2>2. \A c \in Coroutines : status'[c] # "awaiting"
    BY <2>1, NobodyRegisters DEF GroupInv
  <2>3. BoundedGroups'
    BY <2>1, FS_EmptySet, WaitEngineAssumption DEF GroupInv, BoundedGroups
  <2>4. DeadOutsideWait'
    BY <2>1 DEF GroupInv, DeadOutsideWait
  <2>5. OneRegisters'
    BY <2>2 DEF OneRegisters
  <2> QED
    BY <2>3, <2>4, <2>5
<1> QED
  BY <1>1, <1>2, <1>3, <1>4
  DEF EngineStep, PopDead, Advance, AdvanceEnd, BeginProcess, DropDeadEntry,
      KeepEntry, EraseFired, NextSignal, EndProcess

LEMMA GroupInvariant ==
  ASSUME DestroysWalked = FALSE
  PROVE  Spec => []GroupInv
<1>1. Init => GroupInv
  <2> SUFFICES ASSUME Init PROVE GroupInv
    OBVIOUS
  <2>1. TypeInv
    BY TypeInit DEF TypeInv, Init, FiredEntryStays
  <2>2. BoundedGroups
    BY FS_EmptySet, WaitEngineAssumption DEF Init, BoundedGroups
  <2>3. DeadOutsideWait /\ OneRegisters
    BY DEF Init, DeadOutsideWait, OneRegisters
  <2> QED
    BY <2>1, <2>2, <2>3 DEF GroupInv
<1>2. GroupInv /\ [Next]_vars => GroupInv'
  <2> SUFFICES ASSUME GroupInv, [Next]_vars PROVE GroupInv'
    OBVIOUS
  <2>1. TypeInv'
    BY TypeInvStep DEF GroupInv
  <2>2. CASE Next
    BY <2>1, <2>2, GroupUserStep, GroupEngineStep DEF Next, GroupInv
  <2>3. CASE UNCHANGED vars
    <3>1. UNCHANGED <<status, stack, nreg, group>> /\ valid' \subseteq valid
      BY <2>3 DEF vars, coVars, tokenVars
    <3> QED
      BY <2>1, <3>1, GroupKept DEF GroupInv
  <2> QED
    BY <2>2, <2>3
<1> QED
  BY <1>1, <1>2, PTL DEF Spec

\* A WaitGroup never holds more tokens than one any() registers, however often
\* its coroutine waits, is cancelled or loses: cleanup_invalid suffices.
THEOREM GroupsStayBounded ==
  ASSUME DestroysWalked = FALSE
  PROVE  Spec => []GroupBounded
<1>1. GroupInv => GroupBounded
  BY DEF GroupInv, BoundedGroups, GroupBounded
<1> QED
  BY <1>1, GroupInvariant, PTL

-----------------------------------------------------------------------------
(* MonitorEngine::process misses no edge: behind the position of the walk  *)
(* no live watch is left that the observed change satisfies.  The argument *)
(* has three parts: a ticket that is dead stays dead while a pass runs,    *)
(* the entries behind the position only ever become fewer, and an entry    *)
(* that the position steps over was not satisfied.                         *)

\* Between passes there is no observed change.
ChangesOnlyInPass == mode \notin {"process", "fired"} => changed = <<>>

WalkInv == TypeInv /\ NoMissedEdge /\ ChangesOnlyInPass

\* A frame that is done stays done until cleanup_finished runs.
LEMMA DoneStays ==
  ASSUME TypeOK, Next, mode # "idle", NEW c \in Coroutines, status[c] = "done"
  PROVE  status'[c] = "done"
<1> USE DEF coVars, tokenVars, timerVars, passVars, monitorVars
<1>1. ASSUME NEW d \in Coroutines, status[d] # "done", NEW st,
             status' = [status EXCEPT ![d] = st]
      PROVE  status'[c] = "done"
  BY <1>1 DEF TypeOK
<1>2. CASE UserStep
  <2>1. CASE UNCHANGED status
    BY <2>1
  <2>2. ASSUME NEW d \in Coroutines, Spawn(d) PROVE status'[c] = "done"
    BY <2>2, <1>1 DEF Spawn
  <2>3. ASSUME NEW d \in Coroutines, Suspend(d) PROVE status'[c] = "done"
    BY <2>3, <1>1 DEF Suspend
  <2>4. ASSUME NEW d \in Coroutines, Finish(d) PROVE status'[c] = "done"
    BY <2>4, <1>1 DEF Finish, CoroutineRuns
  <2>5. ASSUME NEW d \in Coroutines, Arm(d, NewToken) PROVE status'[c] = "done"
    BY <2>5, <1>1 DEF Arm
  <2> QED
    BY <1>2, <2>1, <2>2, <2>3, <2>4, <2>5
    DEF UserStep, Cancel, RegisterDelay, RegisterTrigger, Unwatch
<1>3. CASE EngineStep
  <2>1. CASE UNCHANGED status
    BY <2>1
  <2>2. CASE AdvanceFire
    <3>1. Head(timers) \in Range(timers)
      BY <2>2 DEF AdvanceFire, TypeOK, Range
    <3>2. Head(timers).h \in Coroutines
      BY <3>1, TicketType DEF Tickets
    <3> QED
      BY <2>2, <3>2, <1>1 DEF AdvanceFire, Fire, Live
  <2>3. CASE FireEntry
    <3>1. ci \in DOMAIN changed /\ ei \in 1 .. Len(Entries)
      BY <2>3 DEF FireEntry, AtEntry, Walking, TypeOK
    <3>2. Entries[ei] \in WatchEntry
      BY <3>1, EntryType
    <3>3. Entries[ei].h \in Coroutines
      BY <3>2 DEF WatchEntry
    <3> QED
      BY <2>3, <3>3, <1>1 DEF FireEntry, Fire, Live
  <2> QED
    BY <1>3, <2>1, <2>2, <2>3
    DEF EngineStep, PopDead, Advance, AdvanceEnd, BeginProcess, DropDeadEntry,
        KeepEntry, EraseFired, NextSignal, EndProcess, Cleanup
<1> QED
  BY <1>2, <1>3 DEF Next

\* A token becomes valid only when it is armed, and then nothing names it yet.
LEMMA ReferencedTokens ==
  ASSUME TypeOK, Next, NEW t \in Referenced, t \in valid'
  PROVE  t \in valid
<1> USE DEF coVars, tokenVars, timerVars, passVars, monitorVars
<1>1. CASE valid' \subseteq valid
  BY <1>1
<1>2. ASSUME NEW d \in Coroutines, Arm(d, NewToken) PROVE t \in valid
  BY <1>2 DEF Arm
<1>3. CASE UserStep
  BY <1>1, <1>2, <1>3
  DEF UserStep, Spawn, Suspend, Finish, Cancel, RegisterDelay, RegisterTrigger, Unwatch
<1>4. CASE EngineStep
  BY <1>1, <1>4
  DEF EngineStep, PopDead, Advance, AdvanceFire, AdvanceEnd, BeginProcess, DropDeadEntry,
      KeepEntry, FireEntry, Fire, ValidAfterFire, EraseFired, NextSignal, EndProcess, Cleanup
<1> QED
  BY <1>3, <1>4 DEF Next

\* A dead ticket stays dead while a pass runs.
LEMMA DeadStays ==
  ASSUME TypeOK, Next, mode # "idle", NEW e \in Tickets, Live(e)'
  PROVE  Live(e)
<1>1. e.h \in Coroutines /\ e.tok \in Referenced
  BY TicketType DEF Referenced
<1>2. status'[e.h] # "done" /\ e.tok \in valid'
  BY DEF Live
<1> QED
  BY <1>1, <1>2, DoneStays, ReferencedTokens DEF Live

\* What a step of a pass must show: whatever is behind the position afterwards
\* was behind it before, or was not satisfied when the position went past it.
LEMMA PassedEntries ==
  ASSUME WalkInv, Next, mode # "idle", UNCHANGED changed,
         \A k \in DOMAIN changed : \A i \in PassedSignal(k)' :
           \E j \in DOMAIN watches[changed[k].sig] :
             /\ watches'[changed[k].sig][i] = watches[changed[k].sig][j]
             /\ \/ j \in PassedSignal(k)
                \/ watches[changed[k].sig][j].type \notin changed[k].trig
  PROVE  NoMissedEdge'
<1> SUFFICES ASSUME NEW k \in DOMAIN changed, NEW i \in PassedSignal(k)',
                    NEW e, e = watches'[changed[k].sig][i], Live(e)'
             PROVE  e.type \notin changed[k].trig
  BY DEF NoMissedEdge
<1>1. PICK j \in DOMAIN watches[changed[k].sig] :
        /\ e = watches[changed[k].sig][j]
        /\ \/ j \in PassedSignal(k)
           \/ watches[changed[k].sig][j].type \notin changed[k].trig
  OBVIOUS
<1>2. CASE j \in PassedSignal(k)
  <2>1. changed[k] \in ChangeRecord
    BY DEF WalkInv, TypeInv, TypeOK
  <2>2. changed[k].sig \in Signals
    BY <2>1 DEF ChangeRecord
  <2>3. e \in Tickets
    BY <1>1, <2>2 DEF Tickets, Range
  <2>4. Live(e)
    BY <2>3, DeadStays DEF WalkInv, TypeInv
  <2> QED
    BY <1>1, <1>2, <2>4 DEF WalkInv, NoMissedEdge
<1> QED
  BY <1>1, <1>2

\* User code inside on_fire can only empty a vector, when it destroys a signal.
LEMMA UserWalk ==
  ASSUME WalkInv, UserStep, Processing
  PROVE  NoMissedEdge' /\ ChangesOnlyInPass'
<1> USE DEF coVars, tokenVars, timerVars, passVars, monitorVars
<1>1. UNCHANGED <<changed, ci, ei, mode>>
  BY DEF UserStep, Spawn, Suspend, Finish, Cancel, RegisterDelay, RegisterTrigger,
         Watch, Unwatch
<1>2. \A s \in Signals : watches'[s] = watches[s] \/ watches'[s] = <<>>
  <2>1. CASE UNCHANGED watches
    BY <2>1
  <2>2. ASSUME NEW s \in Signals, Unwatch(s)
        PROVE  \A r \in Signals : watches'[r] = watches[r] \/ watches'[r] = <<>>
    BY <2>2 DEF Unwatch, WalkInv, TypeInv, TypeOK
  <2> QED
    BY <2>1, <2>2
    DEF UserStep, Spawn, Suspend, Finish, Cancel, RegisterDelay, RegisterTrigger, Watch
<1>3. ASSUME NEW k \in DOMAIN changed, NEW i \in PassedSignal(k)'
      PROVE  \E j \in DOMAIN watches[changed[k].sig] :
               /\ watches'[changed[k].sig][i] = watches[changed[k].sig][j]
               /\ \/ j \in PassedSignal(k)
                  \/ watches[changed[k].sig][j].type \notin changed[k].trig
  <2>1. changed[k] \in ChangeRecord
    BY DEF WalkInv, TypeInv, TypeOK
  <2>2. changed[k].sig \in Signals
    BY <2>1 DEF ChangeRecord
  <2>3. i \in DOMAIN watches'[changed[k].sig]
    BY <1>1 DEF PassedSignal
  <2>4. watches'[changed[k].sig] = watches[changed[k].sig]
    BY <1>2, <2>2, <2>3
  <2> QED
    BY <1>1, <2>3, <2>4 DEF PassedSignal
<1>4. mode # "idle" /\ Next
  BY DEF Processing, Next
<1>5. NoMissedEdge'
  BY <1>1, <1>3, <1>4, PassedEntries
<1> QED
  BY <1>1, <1>5 DEF WalkInv, ChangesOnlyInPass

\* Erasing the entry at the position: those before it stay where they are.
LEMMA EraseWalk ==
  ASSUME WalkInv, Next, mode # "idle", UNCHANGED <<changed, ci>>,
         ci \in DOMAIN changed, ei <= Len(Entries), EraseEntry
  PROVE  NoMissedEdge'
<1> DEFINE sg == changed[ci].sig
           q == watches[sg]
<1>1. sg \in Signals /\ q \in Seq(WatchEntry) /\ ei \in 1 .. Len(q)
  <2>1. sg \in Signals /\ q \in Seq(WatchEntry)
    BY EntryType DEF Entries, WalkInv, TypeInv
  <2> QED
    BY <2>1 DEF Entries, WalkInv, TypeInv, TypeOK
<1>2. watches' = [watches EXCEPT ![sg] = RemoveAt(q, ei)] /\ ei' = ei
  BY DEF EraseEntry
<1>3. watches'[sg] = RemoveAt(q, ei)
  BY <1>1, <1>2 DEF WalkInv, TypeInv, TypeOK
<1>4. ASSUME NEW k \in DOMAIN changed, NEW i \in PassedSignal(k)'
      PROVE  \E j \in DOMAIN watches[changed[k].sig] :
               /\ watches'[changed[k].sig][i] = watches[changed[k].sig][j]
               /\ \/ j \in PassedSignal(k)
                  \/ watches[changed[k].sig][j].type \notin changed[k].trig
  <2>1. changed[k] \in ChangeRecord
    BY DEF WalkInv, TypeInv, TypeOK
  <2>2. changed[k].sig \in Signals
    BY <2>1 DEF ChangeRecord
  <2>3. i \in DOMAIN watches'[changed[k].sig]
    BY DEF PassedSignal
  <2>4. CASE changed[k].sig # sg
    <3>1. watches'[changed[k].sig] = watches[changed[k].sig]
      BY <1>2, <2>2, <2>4 DEF WalkInv, TypeInv, TypeOK
    <3> QED
      BY <1>2, <2>3, <3>1 DEF PassedSignal
  <2>5. CASE changed[k].sig = sg /\ k < ci
    <3>1. RemoveAt(q, ei)[i] \in Range(RemoveAt(q, ei))
      BY <1>3, <2>3, <2>5 DEF Range
    <3>2. RemoveAt(q, ei)[i] \in Range(q)
      BY <1>1, <3>1, RemoveAtLemma
    <3>3. PICK j \in DOMAIN q : q[j] = RemoveAt(q, ei)[i]
      BY <3>2 DEF Range
    <3> QED
      BY <1>3, <2>5, <3>3 DEF PassedSignal
  <2>6. CASE changed[k].sig = sg /\ ~(k < ci)
    <3>1. k = ci /\ i < ei
      BY <1>2, <2>6 DEF PassedSignal
    <3>2. i \in 1 .. Len(RemoveAt(q, ei))
      BY <1>1, <1>3, <2>3, <2>6, RemoveAtLemma
    <3>3. i \in Nat /\ 1 <= i /\ i \in DOMAIN q
      BY <1>1, <3>1, <3>2
    <3>4. RemoveAt(q, ei)[i] = q[i]
      BY <1>1, <3>1, <3>2, RemoveAtElems
    <3> QED
      BY <1>3, <2>6, <3>1, <3>3, <3>4 DEF PassedSignal
  <2> QED
    BY <2>4, <2>5, <2>6
<1> QED
  BY <1>4, PassedEntries

\* The steps of the pass itself.
LEMMA PassWalk ==
  ASSUME WalkInv, EngineStep, mode \in {"process", "fired"}
  PROVE  NoMissedEdge' /\ ChangesOnlyInPass'
<1> USE DEF coVars, tokenVars, timerVars, passVars, monitorVars
<1>1. mode # "idle" /\ Next
  BY DEF Next
<1>2. CASE DropDeadEntry
  <2>1. ci \in DOMAIN changed /\ ei <= Len(Entries) /\ UNCHANGED <<changed, ci, mode>>
    BY <1>2 DEF DropDeadEntry, AtEntry, Walking, WalkInv, TypeInv, TypeOK
  <2> QED
    BY <1>1, <1>2, <2>1, EraseWalk DEF DropDeadEntry, ChangesOnlyInPass
<1>3. CASE EraseFired
  <2>1. ci \in DOMAIN changed /\ ei \in DOMAIN Entries /\ UNCHANGED <<changed, ci>>
    BY <1>3 DEF EraseFired, WalkInv, TypeInv, FiredEntryStays
  <2>2. ei <= Len(Entries)
    BY <2>1, EntryType DEF WalkInv, TypeInv
  <2> QED
    BY <1>1, <1>3, <2>1, <2>2, EraseWalk DEF EraseFired, ChangesOnlyInPass
<1>4. CASE KeepEntry
  <2>1. /\ UNCHANGED <<watches, changed, ci, mode>> /\ ei' = ei + 1
        /\ ci \in DOMAIN changed /\ ei \in DOMAIN Entries
        /\ Entries[ei].type \notin changed[ci].trig
    <3>1. ci \in DOMAIN changed /\ ei \in Nat \ {0} /\ ei <= Len(Entries)
      BY <1>4 DEF KeepEntry, AtEntry, Walking, WalkInv, TypeInv, TypeOK
    <3>2. ei \in DOMAIN Entries
      BY <3>1, EntryType DEF WalkInv, TypeInv
    <3> QED
      BY <1>4, <3>1, <3>2 DEF KeepEntry
  <2>2. ASSUME NEW k \in DOMAIN changed, NEW i \in PassedSignal(k)'
        PROVE  /\ i \in DOMAIN watches[changed[k].sig]
               /\ \/ i \in PassedSignal(k)
                  \/ watches[changed[k].sig][i].type \notin changed[k].trig
    <3>1. i \in DOMAIN watches[changed[k].sig]
      BY <2>1 DEF PassedSignal
    <3>2. CASE k < ci
      BY <3>1, <3>2 DEF PassedSignal
    <3>3. CASE ~(k < ci)
      <4>1. k = ci /\ i < ei + 1
        BY <2>1, <3>3 DEF PassedSignal
      <4>2. CASE i = ei
        BY <2>1, <3>1, <4>1, <4>2 DEF Entries
      <4>3. CASE i # ei
        <5>1. Entries \in Seq(WatchEntry) /\ i \in DOMAIN Entries
          BY <2>1, <3>1, <4>1, EntryType DEF Entries, WalkInv, TypeInv
        <5>2. i < ei
          BY <4>1, <4>3, <5>1 DEF WalkInv, TypeInv, TypeOK
        <5> QED
          BY <3>1, <4>1, <5>2 DEF PassedSignal
      <4> QED
        BY <4>2, <4>3
    <3> QED
      BY <3>2, <3>3
  <2>3. NoMissedEdge'
    BY <1>1, <2>1, <2>2, PassedEntries
  <2> QED
    BY <2>1, <2>3 DEF WalkInv, ChangesOnlyInPass
<1>5. CASE FireEntry
  <2>1. UNCHANGED <<watches, changed, ci, ei>> /\ mode' = "fired"
    BY <1>5 DEF FireEntry
  <2>2. NoMissedEdge'
    BY <1>1, <2>1, PassedEntries DEF PassedSignal
  <2> QED
    BY <2>1, <2>2 DEF ChangesOnlyInPass
<1>6. CASE NextSignal
  <2>1. /\ UNCHANGED <<watches, changed, mode>> /\ ci' = ci + 1 /\ ei' = 1
        /\ ci \in DOMAIN changed /\ ei > Len(Entries)
    BY <1>6 DEF NextSignal, Walking, WalkInv, TypeInv, TypeOK
  <2>2. ASSUME NEW k \in DOMAIN changed, NEW i \in PassedSignal(k)'
        PROVE  i \in PassedSignal(k)
    <3>1. i \in DOMAIN watches[changed[k].sig] /\ (k < ci + 1 \/ (k = ci + 1 /\ i < 1))
      BY <2>1 DEF PassedSignal
    <3>2. k \in Nat /\ ci \in Nat
      BY DEF WalkInv, TypeInv, TypeOK
    <3>3. watches[changed[k].sig] \in Seq(WatchEntry)
      <4>1. changed[k] \in ChangeRecord
        BY DEF WalkInv, TypeInv, TypeOK
      <4> QED
        BY <4>1 DEF ChangeRecord, WalkInv, TypeInv, TypeOK
    <3>4. k < ci + 1 /\ i \in Nat
      BY <3>1, <3>3
    <3>5. CASE k < ci
      BY <3>1, <3>5 DEF PassedSignal
    <3>6. CASE k = ci
      <4>1. i <= Len(Entries) /\ Len(Entries) \in Nat
        BY <3>1, <3>3, <3>6 DEF Entries
      <4>2. i < ei
        BY <2>1, <3>4, <4>1 DEF WalkInv, TypeInv, TypeOK
      <4> QED
        BY <3>1, <3>6, <4>2 DEF PassedSignal
    <3> QED
      BY <3>2, <3>4, <3>5, <3>6
  <2>3. NoMissedEdge'
    BY <1>1, <2>1, <2>2, PassedEntries DEF PassedSignal
  <2> QED
    BY <2>1, <2>3 DEF WalkInv, ChangesOnlyInPass
<1>7. CASE EndProcess
  <2>1. changed' = <<>>
    BY <1>7 DEF EndProcess
  <2> QED
    BY <2>1 DEF NoMissedEdge, ChangesOnlyInPass
<1> QED
  BY <1>2, <1>3, <1>4, <1>5, <1>6, <1>7
  DEF EngineStep, PopDead, Advance, AdvanceFire, AdvanceEnd, BeginProcess, Cleanup

\* Outside a pass there is nothing behind the position; a pass begins at the
\* first entry.
LEMMA IdleWalk ==
  ASSUME WalkInv, Next, mode \notin {"process", "fired"}
  PROVE  NoMissedEdge' /\ ChangesOnlyInPass'
<1> USE DEF coVars, tokenVars, timerVars, passVars, monitorVars
<1>1. changed = <<>>
  BY DEF WalkInv, ChangesOnlyInPass
<1>2. CASE UNCHANGED changed
  BY <1>1, <1>2 DEF NoMissedEdge, ChangesOnlyInPass
<1>3. ASSUME NEW chg \in ChangeLists, BeginProcess(chg)
      PROVE  NoMissedEdge' /\ ChangesOnlyInPass'
  <2>1. changed' = chg /\ ci' = 1 /\ ei' = 1 /\ mode' = "process"
    BY <1>3 DEF BeginProcess
  <2>2. chg \in Seq(ChangeRecord)
    BY ChangeListType
  <2>3. ASSUME NEW s \in Signals PROVE watches'[s] \in Seq(WatchEntry)
    BY <1>3 DEF BeginProcess, WalkInv, TypeInv, TypeOK
  <2>4. ASSUME NEW k \in DOMAIN chg PROVE PassedSignal(k)' = {}
    <3>1. chg[k] \in ChangeRecord /\ k \in Nat /\ k >= 1
      BY <2>2
    <3>2. watches'[chg[k].sig] \in Seq(WatchEntry)
      BY <2>3, <3>1 DEF ChangeRecord
    <3>3. \A i \in DOMAIN watches'[chg[k].sig] : i \in Nat /\ i >= 1
      BY <3>2
    <3> QED
      BY <2>1, <3>1, <3>3 DEF PassedSignal
  <2> QED
    BY <2>1, <2>4 DEF NoMissedEdge, ChangesOnlyInPass
<1> QED
  BY <1>2, <1>3
  DEF Next, UserStep, Spawn, Suspend, Finish, Cancel, RegisterDelay, RegisterTrigger,
      Watch, Unwatch, EngineStep, PopDead, Advance, AdvanceFire, AdvanceEnd,
      DropDeadEntry, KeepEntry, FireEntry, EraseFired, NextSignal, EndProcess, Cleanup,
      AtEntry, Walking

LEMMA WalkInvariant ==
  ASSUME DestroysWalked = FALSE
  PROVE  Spec => []WalkInv
<1>1. Init => WalkInv
  BY TypeInit DEF WalkInv, TypeInv, Init, FiredEntryStays, NoMissedEdge, ChangesOnlyInPass
<1>2. WalkInv /\ [Next]_vars => WalkInv'
  <2> SUFFICES ASSUME WalkInv, [Next]_vars PROVE WalkInv'
    OBVIOUS
  <2>1. TypeInv'
    BY TypeInvStep DEF WalkInv
  <2>2. CASE Next
    <3>1. CASE mode \notin {"process", "fired"}
      BY <2>1, <2>2, <3>1, IdleWalk DEF WalkInv
    <3>2. CASE mode \in {"process", "fired"}
      BY <2>1, <2>2, <3>2, UserWalk, PassWalk DEF WalkInv, Next, Processing
    <3> QED
      BY <3>1, <3>2
  <2>3. CASE UNCHANGED vars
    BY <2>1, <2>3
    DEF WalkInv, NoMissedEdge, PassedSignal, Live, ChangesOnlyInPass, vars, coVars,
        tokenVars, timerVars, monitorVars
  <2> QED
    BY <2>2, <2>3
<1> QED
  BY <1>1, <1>2, PTL DEF Spec

\* MonitorEngine::process neither skips a watch that the observed change
\* satisfies when it erases others, nor answers one armed during the pass.
THEOREM WalkMissesNothing ==
  ASSUME DestroysWalked = FALSE
  PROVE  Spec => []NoMissedEdge
<1>1. WalkInv => NoMissedEdge
  BY DEF WalkInv
<1> QED
  BY <1>1, WalkInvariant, PTL

-----------------------------------------------------------------------------
(* Time does not pass a delay somebody waits for.  The property is not     *)
(* inductive alone: next_deadline() looks at the top of the queue only, so *)
(* the queue must be sorted by deadline, whatever order delays are armed   *)
(* in.  It holds as long as now + interval does not wrap.                  *)

Sorted(q) == \A i, j \in 1 .. Len(q) : i <= j => q[i].deadline <= q[j].deadline

ValidAhead ==
  \A e \in Range(timers) :
    e.tok \in valid => IF mode = "advance" THEN e.deadline >= now ELSE e.deadline > now

DelayInv == Sorted(timers) /\ ValidAhead

\* push() of a priority queue leaves it sorted.
LEMMA InsertTimerSorts ==
  ASSUME NEW q \in Seq(TimerEntry), Sorted(q), NEW e \in TimerEntry
  PROVE  /\ Sorted(InsertTimer(q, e))
         /\ Range(InsertTimer(q, e)) = Range(q) \cup {e}
<1> DEFINE before == {i \in DOMAIN q : q[i].deadline <= e.deadline}
           n == Cardinality(before)
           r == InsertAt(q, 1 + n, e)
<1>1. /\ DOMAIN q = 1 .. Len(q) /\ Len(q) \in Nat
      /\ \A i \in 1 .. Len(q) : q[i].deadline \in Nat
  <2>1. \A x \in TimerEntry : x.deadline \in Nat
    BY DEF TimerEntry, Times
  <2>2. \A i \in 1 .. Len(q) : q[i] \in TimerEntry
    OBVIOUS
  <2> QED
    BY <2>1, <2>2
<1>2. e.deadline \in Nat
  BY DEF TimerEntry, Times
<1>3. before = 1 .. n /\ n \in 0 .. Len(q)
  <2>1. before \in SUBSET (1 .. Len(q))
    BY <1>1
  <2>2. ASSUME NEW j \in before, NEW i \in 1 .. Len(q), i <= j PROVE i \in before
    <3>1. q[i].deadline <= q[j].deadline
      BY <1>1, <2>2 DEF Sorted
    <3> QED
      BY <1>1, <1>2, <3>1
  <2> HIDE DEF before
  <2> QED
    BY <1>1, <2>1, <2>2, PrefixCount
<1>4. /\ \A i \in 1 .. n : q[i].deadline <= e.deadline
      /\ \A i \in n + 1 .. Len(q) : e.deadline < q[i].deadline
  <2>1. \A i \in 1 .. Len(q) : i \in before <=> q[i].deadline <= e.deadline
    BY <1>1
  <2> HIDE DEF before, n
  <2>2. ASSUME NEW i \in 1 .. n PROVE q[i].deadline <= e.deadline
    BY <1>3, <2>1, <1>1
  <2>3. ASSUME NEW i \in n + 1 .. Len(q) PROVE e.deadline < q[i].deadline
    <3>1. i \in 1 .. Len(q) /\ i \notin before
      BY <1>1, <1>3
    <3> QED
      BY <1>1, <1>2, <2>1, <3>1
  <2> QED
    BY <2>2, <2>3
<1>5. InsertTimer(q, e) = r
  BY DEF InsertTimer
<1> HIDE DEF before, n, r
<1>6. /\ Len(r) = Len(q) + 1
      /\ \A j \in 1 .. Len(q) + 1 :
           r[j] = IF j < 1 + n THEN q[j] ELSE IF j = 1 + n THEN e ELSE q[j - 1]
      /\ Range(r) = Range(q) \cup {e}
  BY <1>3, InsertAtElems, InsertAtKeeps DEF r
<1>7. ASSUME NEW i \in 1 .. Len(q) + 1, NEW j \in 1 .. Len(q) + 1, i <= j
      PROVE  r[i].deadline <= r[j].deadline
  <2>1. CASE j < 1 + n
    BY <1>1, <1>3, <1>6, <1>7, <2>1 DEF Sorted
  <2>2. CASE i < 1 + n /\ j = 1 + n
    BY <1>1, <1>3, <1>4, <1>6, <2>2
  <2>3. CASE i < 1 + n /\ j > 1 + n
    <3>1. i \in 1 .. Len(q) /\ j - 1 \in 1 .. Len(q) /\ i <= j - 1
      BY <1>1, <1>3, <2>3
    <3>2. r[i] = q[i] /\ r[j] = q[j - 1]
      BY <1>3, <1>6, <2>3
    <3> QED
      BY <3>1, <3>2 DEF Sorted
  <2>4. CASE i = 1 + n /\ j = 1 + n
    BY <1>2, <1>6, <2>4
  <2>5. CASE i = 1 + n /\ j > 1 + n
    <3>1. j - 1 \in n + 1 .. Len(q) /\ j - 1 \in 1 .. Len(q)
      BY <1>1, <1>3, <2>5
    <3>2. r[i] = e /\ r[j] = q[j - 1]
      BY <1>3, <1>6, <2>5
    <3> QED
      BY <1>1, <1>2, <1>4, <3>1, <3>2
  <2>6. CASE i > 1 + n
    <3>1. i - 1 \in 1 .. Len(q) /\ j - 1 \in 1 .. Len(q) /\ i - 1 <= j - 1
      BY <1>1, <1>3, <1>7, <2>6
    <3>2. r[i] = q[i - 1] /\ r[j] = q[j - 1]
      BY <1>3, <1>6, <1>7, <2>6
    <3> QED
      BY <3>1, <3>2 DEF Sorted
  <2> QED
    BY <1>1, <1>3, <1>7, <2>1, <2>2, <2>3, <2>4, <2>5, <2>6
<1> QED
  BY <1>5, <1>6, <1>7 DEF Sorted

\* pop() does too, and the top is the earliest.
LEMMA PopSorts ==
  ASSUME NEW q \in Seq(TimerEntry), Sorted(q), q # <<>>
  PROVE  /\ Sorted(Tail(q))
         /\ \A e \in Range(q) : Head(q).deadline <= e.deadline
<1>1. /\ Head(q) = q[1] /\ Len(Tail(q)) = Len(q) - 1 /\ Len(q) \in Nat \ {0}
      /\ \A i \in 1 .. Len(q) - 1 : Tail(q)[i] = q[i + 1]
  BY TailElems
<1>2. ASSUME NEW i \in 1 .. Len(q) - 1, NEW j \in 1 .. Len(q) - 1, i <= j
      PROVE  Tail(q)[i].deadline <= Tail(q)[j].deadline
  <2>1. i + 1 \in 1 .. Len(q) /\ j + 1 \in 1 .. Len(q) /\ i + 1 <= j + 1
    BY <1>1, <1>2
  <2> QED
    BY <1>1, <2>1 DEF Sorted
<1>3. ASSUME NEW e \in Range(q) PROVE Head(q).deadline <= e.deadline
  <2>1. PICK j \in 1 .. Len(q) : e = q[j]
    BY RangeIn
  <2>2. 1 \in 1 .. Len(q) /\ 1 <= j
    BY <1>1
  <2> QED
    BY <1>1, <2>1, <2>2 DEF Sorted
<1> QED
  BY <1>1, <1>2, <1>3 DEF Sorted

\* The delay that is armed is in the future.
LEMMA ArmedAhead ==
  ASSUME MaxTime < TimeModulus, TypeOK, NEW n \in Intervals, now + n <= MaxTime
  PROVE  /\ (now + n) % TimeModulus = now + n
         /\ now + n \in Times /\ now < now + n
<1>1. /\ now \in Nat /\ n \in Nat \ {0}
      /\ MaxTime \in Nat /\ TimeModulus \in Nat \ {0}
  BY WaitEngineAssumption DEF TypeOK, Times
<1>2. now + n \in 0 .. TimeModulus - 1
  BY <1>1
<1>3. \A x \in 0 .. TimeModulus - 1 : x % TimeModulus = x
  BY <1>1
<1> QED
  BY <1>1, <1>2, <1>3 DEF Times

LEMMA UserDelays ==
  ASSUME MaxTime < TimeModulus, TypeOK, DelayInv, UserStep
  PROVE  DelayInv'
<1> USE DEF coVars, tokenVars, timerVars, passVars, monitorVars
<1>1. UNCHANGED <<mode, now>>
  BY DEF UserStep, Spawn, Suspend, Finish, Cancel, RegisterDelay, RegisterTrigger, Unwatch
<1>2. \A e \in Range(timers) : e.tok \in valid' => e.tok \in valid
  <2>1. \A e \in Range(timers) : e.tok \in Referenced
    BY DEF Referenced, Tickets
  <2> QED
    BY <2>1, ReferencedTokens DEF Next
<1>3. CASE UNCHANGED timers
  BY <1>1, <1>2, <1>3 DEF DelayInv, ValidAhead
<1>4. ASSUME NEW c \in Coroutines, NEW n \in Intervals, RegisterDelay(c, n)
      PROVE  DelayInv'
  <2> DEFINE entry == [deadline |-> (now + n) % TimeModulus, h |-> c,
                       tok |-> NewToken, idx |-> TriggerIndex]
  <2>1. entry.deadline > now /\ entry.deadline \in Times
    BY <1>4, ArmedAhead DEF RegisterDelay
  <2>2. entry \in TimerEntry
    BY <1>4, <2>1, ArmType DEF RegisterDelay, TimerEntry
  <2>3. timers' = InsertTimer(timers, entry)
    BY <1>4 DEF RegisterDelay
  <2> HIDE DEF entry
  <2>4. Sorted(timers') /\ Range(timers') = Range(timers) \cup {entry}
    BY <2>2, <2>3, InsertTimerSorts DEF TypeOK, DelayInv
  <2>5. entry.deadline >= now
    BY <2>1 DEF Times, TypeOK
  <2> QED
    BY <1>1, <1>2, <2>1, <2>4, <2>5 DEF DelayInv, ValidAhead
<1> QED
  BY <1>3, <1>4
  DEF UserStep, Spawn, Suspend, Finish, Cancel, RegisterTrigger, Unwatch

LEMMA EngineDelays ==
  ASSUME TypeOK, DelayInv, EngineStep
  PROVE  DelayInv'
<1> USE DEF coVars, tokenVars, timerVars, passVars, monitorVars
<1>1. /\ now \in Nat /\ timers \in Seq(TimerEntry)
      /\ \A e \in Range(timers) : e.deadline \in Nat
  <2>1. Range(timers) \subseteq TimerEntry
    BY RangeIn DEF TypeOK
  <2> QED
    BY <2>1 DEF TypeOK, TimerEntry, Times
<1>2. CASE PopDead
  <2>1. Sorted(Tail(timers)) /\ Range(Tail(timers)) \subseteq Range(timers)
    BY <1>1, <1>2, PopSorts, TailLemma DEF PopDead, DelayInv
  <2> QED
    BY <1>2, <2>1 DEF PopDead, DelayInv, ValidAhead
<1>3. CASE AdvanceFire
  <2>1. Sorted(Tail(timers)) /\ Range(Tail(timers)) \subseteq Range(timers)
    BY <1>1, <1>3, PopSorts, TailLemma DEF AdvanceFire, DelayInv
  <2>2. valid' \subseteq valid
    BY <1>3 DEF AdvanceFire, Fire, ValidAfterFire
  <2> QED
    BY <1>3, <2>1, <2>2 DEF AdvanceFire, DelayInv, ValidAhead
<1>4. CASE Advance
  <2>1. /\ now' = Head(timers).deadline /\ mode' = "advance" /\ UNCHANGED <<timers, valid>>
        /\ timers # <<>>
    BY <1>4 DEF Advance
  <2>2. \A e \in Range(timers) : Head(timers).deadline <= e.deadline
    BY <1>1, <2>1, PopSorts DEF DelayInv
  <2>3. Head(timers).deadline \in Nat
    BY <1>1, <2>1, TailLemma
  <2> QED
    BY <1>1, <2>1, <2>2, <2>3 DEF DelayInv, ValidAhead
<1>5. CASE AdvanceEnd
  <2>1. mode' = "idle" /\ UNCHANGED <<timers, valid, now>>
    BY <1>5 DEF AdvanceEnd
  <2>2. CASE timers = <<>>
    BY <2>1, <2>2 DEF DelayInv, ValidAhead, Range
  <2>3. CASE timers # <<>>
    <3>1. Head(timers).deadline > now
      <4>1. ~(Head(timers).deadline <= now) /\ Head(timers).deadline \in Nat
        BY <1>1, <1>5, <2>3, TailLemma DEF AdvanceEnd, Due
      <4> QED
        BY <1>1, <4>1
    <3>2. \A e \in Range(timers) : Head(timers).deadline <= e.deadline
      BY <1>1, <2>3, PopSorts DEF DelayInv
    <3>3. \A e \in Range(timers) : e.deadline > now
      BY <1>1, <2>3, <3>1, <3>2, TailLemma
    <3> QED
      BY <2>1, <3>3 DEF DelayInv, ValidAhead
  <2> QED
    BY <2>2, <2>3
<1>6. CASE UNCHANGED <<timers, now>> /\ valid' \subseteq valid /\ mode # "advance" /\ mode' # "advance"
  BY <1>6 DEF DelayInv, ValidAhead
<1>7. CASE Cleanup
  BY <1>7 DEF Cleanup, DelayInv, ValidAhead
<1> QED
  BY <1>2, <1>3, <1>4, <1>5, <1>6, <1>7
  DEF EngineStep, BeginProcess, DropDeadEntry, KeepEntry, FireEntry, Fire, ValidAfterFire,
      EraseFired, NextSignal, EndProcess, AtEntry, Walking

LEMMA DelayInvariant ==
  ASSUME MaxTime < TimeModulus, DestroysWalked = FALSE
  PROVE  Spec => []DelayInv
<1>1. Init => DelayInv
  BY DEF Init, DelayInv, Sorted, ValidAhead, Range
<1>2. TypeInv /\ DelayInv /\ [Next]_vars => DelayInv'
  <2>1. DelayInv /\ UNCHANGED vars => DelayInv'
    BY DEF vars, tokenVars, timerVars, monitorVars, DelayInv, ValidAhead
  <2> QED
    BY <2>1, UserDelays, EngineDelays DEF Next, TypeInv
<1> QED
  BY <1>1, <1>2, TypeCorrect, PTL DEF Spec, TypeInv

\* Outside advance_to() every delay a coroutine still waits for is ahead, and
\* inside it none is behind, whatever is armed, fired or cancelled in between.
\* sim_time must not wrap: a delay armed across 2^64 would be due at once.
THEOREM DelaysStayAhead ==
  ASSUME MaxTime < TimeModulus, DestroysWalked = FALSE
  PROVE  Spec => []DelaysAhead
<1>1. DelayInv => DelaysAhead
  BY DEF DelayInv, ValidAhead, DelaysAhead, Live
<1> QED
  BY <1>1, DelayInvariant, PTL

-----------------------------------------------------------------------------
(* What the contract sees of a state: the conditions read off the tickets  *)
(* with a valid token.                                                     *)

\* Conditions are the same when the tickets they are read off are.
LEMMA SameDelays ==
  ASSUME NEW c, NEW q, NEW r, NEW v, NEW w,
         \A e : e.h = c => (e \in Range(q) /\ e.tok \in v <=> e \in Range(r) /\ e.tok \in w)
  PROVE  DelayConds(c, q, v) = DelayConds(c, r, w)
<1>1. Mine(c, q, v) = Mine(c, r, w)
  BY DEF Mine
<1> QED
  BY <1>1 DEF DelayConds

LEMMA SameEdges ==
  ASSUME NEW c, NEW q, NEW r, NEW v, NEW w,
         \A s \in Signals : \A e : e.h = c =>
           (e \in Range(q[s]) /\ e.tok \in v <=> e \in Range(r[s]) /\ e.tok \in w)
  PROVE  EdgeConds(c, q, v) = EdgeConds(c, r, w)
<1>1. ASSUME NEW s \in Signals PROVE Mine(c, q[s], v) = Mine(c, r[s], w)
  BY DEF Mine
<1> QED
  BY <1>1 DEF EdgeConds

\* One more ticket with a good token is one more condition.
LEMMA OneMoreDelay ==
  ASSUME NEW c, NEW q, NEW r, NEW v, NEW w, NEW f, f.h = c, f.tok \in w,
         Range(r) = Range(q) \cup {f},
         \A e \in Range(q) : e.tok \in v <=> e.tok \in w
  PROVE  DelayConds(c, r, w) = DelayConds(c, q, v) \cup {[at |-> f.deadline, idx |-> f.idx]}
<1>1. Mine(c, r, w) = Mine(c, q, v) \cup {f}
  BY DEF Mine
<1> QED
  BY <1>1 DEF DelayConds

\* What a condition is read off.
LEMMA DelayCondIs ==
  ASSUME NEW c, NEW q, NEW v, NEW d
  PROVE  d \in DelayConds(c, q, v) <=>
           \E e \in Range(q) : /\ e.h = c /\ e.tok \in v
                               /\ d = [at |-> e.deadline, idx |-> e.idx]
  BY DEF DelayConds, Mine

LEMMA EdgeCondIs ==
  ASSUME NEW c, NEW q, NEW v, NEW d
  PROVE  d \in EdgeConds(c, q, v) <=>
           \E s \in Signals : \E e \in Range(q[s]) :
             /\ e.h = c /\ e.tok \in v
             /\ d = [sig |-> s, edge |-> e.type, idx |-> e.idx]
  BY DEF EdgeConds, Mine

\* The two kinds of condition tell themselves apart by their fields.
LEMMA CondKinds ==
  ASSUME NEW c, NEW q, NEW v
  PROVE  /\ \A d \in DelayConds(c, q, v) : "at" \in DOMAIN d /\ "sig" \notin DOMAIN d
         /\ \A d \in EdgeConds(c, q, v) : "at" \notin DOMAIN d /\ "sig" \in DOMAIN d
<1>1. ASSUME NEW d \in DelayConds(c, q, v) PROVE "at" \in DOMAIN d /\ "sig" \notin DOMAIN d
  BY <1>1, DelayCondIs
<1>2. ASSUME NEW d \in EdgeConds(c, q, v) PROVE "at" \notin DOMAIN d /\ "sig" \in DOMAIN d
  BY <1>2, EdgeCondIs
<1> QED
  BY <1>1, <1>2

\* The pass is over: what was parked joins the table.
LEMMA EdgesJoin ==
  ASSUME NEW c, NEW q, NEW r, NEW j, NEW v,
         \A s \in Signals : Range(j[s]) = Range(q[s]) \cup Range(r[s])
  PROVE  EdgeConds(c, j, v) = EdgeConds(c, q, v) \cup EdgeConds(c, r, v)
<1>1. ASSUME NEW d \in EdgeConds(c, j, v)
      PROVE  d \in EdgeConds(c, q, v) \cup EdgeConds(c, r, v)
  BY EdgeCondIs
<1>2. ASSUME NEW d \in EdgeConds(c, q, v) \cup EdgeConds(c, r, v)
      PROVE  d \in EdgeConds(c, j, v)
  <2>1. \E s \in Signals : \E e \in Range(q[s]) \cup Range(r[s]) :
          e.h = c /\ e.tok \in v /\ d = [sig |-> s, edge |-> e.type, idx |-> e.idx]
    BY EdgeCondIs
  <2> QED
    BY <2>1, EdgeCondIs
<1> QED
  BY <1>1, <1>2

LEMMA NoEdges ==
  ASSUME NEW c, NEW v
  PROVE  EdgeConds(c, NoWatches, v) = {}
<1>1. \A s \in Signals : Range(NoWatches[s]) = {}
  BY DEF NoWatches, Range
<1> QED
  BY <1>1, EdgeCondIs

\* unwatch_all forgets the conditions on one signal.
LEMMA EdgesForgotten ==
  ASSUME NEW c, NEW q, NEW r, NEW v, NEW s \in Signals,
         Range(r[s]) = {}, \A t \in Signals : t # s => r[t] = q[t]
  PROVE  /\ \A d \in EdgeConds(c, r, v) : d \in EdgeConds(c, q, v) /\ d.sig # s
         /\ \A d \in EdgeConds(c, q, v) : d.sig # s => d \in EdgeConds(c, r, v)
<1>1. ASSUME NEW d \in EdgeConds(c, r, v)
      PROVE  d \in EdgeConds(c, q, v) /\ d.sig # s
  <2>1. PICK t \in Signals : \E e \in Range(r[t]) :
           /\ e.h = c /\ e.tok \in v
           /\ d = [sig |-> t, edge |-> e.type, idx |-> e.idx]
    BY EdgeCondIs
  <2>2. t # s /\ d.sig = t
    BY <2>1
  <2> QED
    BY <2>1, <2>2, EdgeCondIs
<1>2. ASSUME NEW d \in EdgeConds(c, q, v), d.sig # s
      PROVE  d \in EdgeConds(c, r, v)
  <2>1. PICK t \in Signals : \E e \in Range(q[t]) :
           /\ e.h = c /\ e.tok \in v
           /\ d = [sig |-> t, edge |-> e.type, idx |-> e.idx]
    BY EdgeCondIs
  <2>2. t # s
    BY <1>2, <2>1
  <2> QED
    BY <2>1, <2>2, EdgeCondIs
<1> QED
  BY <1>1, <1>2

\* A valid ticket belongs to the group of its own coroutine only.
LEMMA TicketOwner ==
  ASSUME TypeOK, TicketsOfThisWait, NEW c \in Coroutines, NEW e \in Tickets, e.tok \in valid
  PROVE  e.tok \in group[c] <=> e.h = c
<1>1. e.h \in Coroutines /\ e.tok \in group[e.h]
  BY TicketType DEF TicketsOfThisWait
<1> QED
  BY <1>1 DEF TicketsOfThisWait

\* A coroutine keeps its conditions if it keeps its valid tickets.
LEMMA CondsKept ==
  ASSUME NEW c \in Coroutines,
         \A e : e.h = c =>
           (e \in Range(timers) /\ e.tok \in valid <=> e \in Range(timers') /\ e.tok \in valid'),
         \A s \in Signals : \A e : e.h = c =>
           (e \in Range(watches[s]) /\ e.tok \in valid
              <=> e \in Range(watches'[s]) /\ e.tok \in valid'),
         \A s \in Signals : \A e : e.h = c =>
           (e \in Range(parked[s]) /\ e.tok \in valid
              <=> e \in Range(parked'[s]) /\ e.tok \in valid')
  PROVE  Armed'[c] = Armed[c] /\ Later'[c] = Later[c]
<1>1. DelayConds(c, timers', valid') = DelayConds(c, timers, valid)
  BY SameDelays
<1>2. EdgeConds(c, watches', valid') = EdgeConds(c, watches, valid)
  BY SameEdges
<1>3. EdgeConds(c, parked', valid') = EdgeConds(c, parked, valid)
  BY SameEdges
<1> QED
  BY <1>1, <1>2, <1>3 DEF Armed, Later

\* Dropping dead tickets and forgetting tokens without tickets shows nothing.
LEMMA CondsUnchanged ==
  ASSUME \A e \in Tickets : e.tok \in valid' <=> e.tok \in valid,
         Range(timers') \subseteq Range(timers),
         \A e \in Range(timers) : e.tok \in valid => e \in Range(timers'),
         \A s \in Signals : Range(watches'[s]) \subseteq Range(watches[s]),
         \A s \in Signals : \A e \in Range(watches[s]) : e.tok \in valid => e \in Range(watches'[s]),
         UNCHANGED parked
  PROVE  Armed' = Armed /\ Later' = Later
<1>1. \A e \in Range(timers) : e \in Tickets
  BY DEF Tickets
<1>2. \A s \in Signals : \A e \in Range(watches[s]) \cup Range(parked[s]) : e \in Tickets
  BY DEF Tickets
<1>3. ASSUME NEW c \in Coroutines PROVE Armed'[c] = Armed[c] /\ Later'[c] = Later[c]
  <2>1. \A e : e \in Range(timers) /\ e.tok \in valid
                 <=> e \in Range(timers') /\ e.tok \in valid'
    BY <1>1
  <2>2. \A s \in Signals : \A e :
          e \in Range(watches[s]) /\ e.tok \in valid
            <=> e \in Range(watches'[s]) /\ e.tok \in valid'
    BY <1>2
  <2>3. \A s \in Signals : \A e :
          e \in Range(parked[s]) /\ e.tok \in valid
            <=> e \in Range(parked'[s]) /\ e.tok \in valid'
    BY <1>2
  <2> QED
    BY <2>1, <2>2, <2>3, CondsKept
<1> QED
  BY <1>3 DEF Armed, Later

\* One coroutine loses all its valid tickets, the others keep theirs.
LEMMA WaitEnds ==
  ASSUME NEW c \in Coroutines,
         \A e \in Tickets : e.tok \in valid' <=> e.tok \in valid /\ e.h # c,
         Range(timers') \subseteq Range(timers),
         \A e \in Range(timers) : e.h # c => e \in Range(timers'),
         UNCHANGED <<watches, parked>>
  PROVE  Armed' = [Armed EXCEPT ![c] = {}] /\ Later' = [Later EXCEPT ![c] = {}]
<1>1. \A e \in Range(timers) : e \in Tickets
  BY DEF Tickets
<1>2. \A s \in Signals : \A e \in Range(watches[s]) \cup Range(parked[s]) : e \in Tickets
  BY DEF Tickets
<1>3. ASSUME NEW d \in Coroutines, d # c PROVE Armed'[d] = Armed[d] /\ Later'[d] = Later[d]
  <2>1. \A e : e.h = d => (e \in Range(timers) /\ e.tok \in valid
                             <=> e \in Range(timers') /\ e.tok \in valid')
    BY <1>1, <1>3
  <2>2. \A s \in Signals : \A e : e.h = d =>
          (e \in Range(watches[s]) /\ e.tok \in valid
             <=> e \in Range(watches'[s]) /\ e.tok \in valid')
    BY <1>2, <1>3
  <2>3. \A s \in Signals : \A e : e.h = d =>
          (e \in Range(parked[s]) /\ e.tok \in valid
             <=> e \in Range(parked'[s]) /\ e.tok \in valid')
    BY <1>2, <1>3
  <2> QED
    BY <2>1, <2>2, <2>3, CondsKept
<1>4. DelayConds(c, timers', valid') = {}
  BY <1>1, DelayCondIs
<1>5. EdgeConds(c, watches', valid') = {}
  BY <1>2, EdgeCondIs
<1>6. EdgeConds(c, parked', valid') = {}
  BY <1>2, EdgeCondIs
<1>7. Armed'[c] = {} /\ Later'[c] = {}
  BY <1>4, <1>5, <1>6 DEF Armed, Later
<1> QED
  BY <1>3, <1>7 DEF Armed, Later

\* One frame moves on: the others stay where they are.
LEMMA PhaseMoves ==
  ASSUME TypeOK, NEW c \in Coroutines, NEW st, status' = [status EXCEPT ![c] = st]
  PROVE  /\ Phases' = [Phases EXCEPT ![c] = PhaseOf(st)]
         /\ Phases[c] = PhaseOf(status[c])
<1>1. Phases[c] = PhaseOf(status[c])
  BY DEF Phases
<1>2. ASSUME NEW d \in Coroutines
      PROVE  PhaseOf(status'[d]) = IF d = c THEN PhaseOf(st) ELSE PhaseOf(status[d])
  BY DEF TypeOK
<1> QED
  BY <1>1, <1>2 DEF Phases

LEMMA PhaseValues ==
  /\ PhaseOf("unborn") = "unborn" /\ PhaseOf("running") = "awake"
  /\ PhaseOf("awaiting") = "arming" /\ PhaseOf("suspended") = "waiting"
  /\ PhaseOf("done") = "over" /\ PhaseOf("destroyed") = "over"
BY DEF PhaseOf

-----------------------------------------------------------------------------
(* The invariant of the step simulation.  Beside what is proved above, the *)
(* contract needs that a pass shows something as long as it runs, that the *)
(* ticket being fired is dead while its coroutine runs, and that the       *)
(* conditions of a wait are numbered as they are registered.               *)

\* An observation that is being answered shows something.
PassShows == Processing => \E k \in DOMAIN changed : changed[k].trig # {}

\* The ticket that is being fired is dead while its coroutine runs.
FiredIsDead == mode = "fired" => Entries[ei].tok \notin valid

\* Between waits nothing is registered, and within one the conditions are
\* numbered in the order in which they are registered.
Conds(c) == Armed[c] \cup Later[c]
Numbered(c) ==
  /\ IsFiniteSet(Conds(c)) /\ Cardinality(Conds(c)) = nreg
  /\ \A d \in Conds(c) : d.idx \in 0 .. nreg - 1
Registering ==
  /\ nreg # 0 => \E c \in Coroutines : status[c] = "awaiting"
  /\ \A c \in Coroutines : status[c] = "awaiting" => Numbered(c)

ContractInv ==
  /\ GroupInv /\ WalkInv /\ DelayInv /\ TicketsOfThisWait
  /\ PassShows /\ FiredIsDead /\ Registering

\* Between passes nothing is shown, during one something is.
LEMMA ShownInPass ==
  ASSUME WalkInv, PassShows
  PROVE  Shown = {} <=> ~Processing
<1>1. CASE Processing
  <2>1. PICK k \in DOMAIN changed : changed[k].trig # {}
    BY <1>1 DEF PassShows
  <2>2. PICK y : y \in changed[k].trig
    BY <2>1
  <2>3. <<changed[k].sig, y>> \in Shown
    BY <2>2 DEF Shown
  <2> QED
    BY <1>1, <2>3
<1>2. CASE ~Processing
  <2>1. changed = <<>>
    BY <1>2 DEF WalkInv, ChangesOnlyInPass, Processing
  <2> QED
    BY <1>2, <2>1 DEF Shown
<1> QED
  BY <1>1, <1>2

LEMMA PassShowsStep ==
  ASSUME PassShows, Next
  PROVE  PassShows'
<1> USE DEF coVars, tokenVars, timerVars, passVars, monitorVars
<1>1. CASE UNCHANGED changed /\ (Processing' => Processing)
  BY <1>1 DEF PassShows
<1>2. ASSUME NEW chg \in ChangeLists, BeginProcess(chg) PROVE PassShows'
  <2>1. changed' = chg /\ chg # <<>>
    BY <1>2 DEF BeginProcess, NothingToProcess
  <2>2. PICK n \in 0 .. Cardinality(Signals) : chg \in [1 .. n -> [sig : Signals, trig : TrigInfos]]
    BY DEF ChangeLists, BoundedSeq, SeqOf
  <2>3. 1 \in DOMAIN chg
    <3>1. chg \in Seq(ChangeRecord)
      BY ChangeListType
    <3> QED
      BY <2>1, <3>1
  <2>4. chg[1].trig \in TrigInfos
    BY <2>2, <2>3
  <2>5. chg[1].trig # {}
    BY <2>4 DEF TrigInfos
  <2> QED
    BY <2>1, <2>3, <2>5 DEF PassShows
<1>3. CASE EndProcess
  BY <1>3 DEF EndProcess, PassShows, Processing
<1>4. CASE UserStep
  <2>1. UNCHANGED <<changed, mode>>
    BY <1>4 DEF UserStep, Spawn, Suspend, Finish, Cancel, RegisterDelay, RegisterTrigger, Unwatch
  <2> QED
    BY <1>1, <2>1 DEF Processing
<1> QED
  BY <1>1, <1>2, <1>3, <1>4
  DEF Next, EngineStep, PopDead, Advance, AdvanceFire, AdvanceEnd, DropDeadEntry, KeepEntry,
      FireEntry, EraseFired, NextSignal, Cleanup, AtEntry, Walking, Processing

LEMMA FiredIsDeadStep ==
  ASSUME TypeInv, FiredIsDead, Next
  PROVE  FiredIsDead'
<1> SUFFICES ASSUME mode' = "fired" PROVE Entries'[ei'].tok \notin valid'
  BY DEF FiredIsDead
<1>1. CASE UserStep
  <2>1. mode = "fired" /\ Entries' = Entries /\ ei' = ei
    BY <1>1, WalkedVectorKept DEF TypeInv, Entries
  <2>2. changed[ci].sig \in Signals /\ ei \in DOMAIN Entries
    BY <2>1, EntryType DEF TypeInv, FiredEntryStays
  <2>3. Entries[ei] \in Tickets
    BY <2>2 DEF Tickets, Entries, Range
  <2>4. Entries[ei].tok \in Referenced
    BY <2>3 DEF Referenced
  <2> QED
    BY <2>1, <2>4, ReferencedTokens DEF FiredIsDead, TypeInv
<1>2. CASE EngineStep
  <2>1. FireEntry
    BY <1>2, OnFireByFireEntry
  <2>2. Entries' = Entries /\ ei' = ei /\ valid' = ValidAfterFire(Entries[ei])
    BY <2>1 DEF FireEntry, Fire, Entries
  <2> QED
    BY <2>2 DEF ValidAfterFire
<1> QED
  BY <1>1, <1>2 DEF Next

\* Registering a trigger is the only step that leaves a coroutine in the
\* middle of a wait.
LEMMA OnlyArmRegisters ==
  ASSUME GroupInv, Registering, Next
  PROVE  \/ \E c \in Coroutines :
              \/ \E n \in Intervals : RegisterDelay(c, n)
              \/ \E s \in Signals, ty \in Types : RegisterTrigger(c, s, ty)
         \/ nreg' = 0 /\ \A c \in Coroutines : status'[c] # "awaiting"
<1> USE DEF coVars, tokenVars, timerVars, passVars, monitorVars
<1> DEFINE Rest == nreg' = 0 /\ \A c \in Coroutines : status'[c] # "awaiting"
<1>1. ASSUME \A c \in Coroutines : status[c] # "awaiting", nreg' = nreg,
             NEW d \in Coroutines, NEW st, st # "awaiting",
             status' = [status EXCEPT ![d] = st]
      PROVE  Rest
  BY <1>1 DEF Registering, GroupInv, TypeInv, TypeOK
<1>2. ASSUME \A c \in Coroutines : status[c] # "awaiting", nreg' = nreg, status' = status
      PROVE  Rest
  BY <1>2 DEF Registering
<1>3. ASSUME stack = <<>> \/ \E c \in Coroutines : CoroutineRuns(c)
      PROVE  \A c \in Coroutines : status[c] # "awaiting"
  BY <1>3, NobodyRegisters DEF GroupInv
<1>4. ASSUME NEW c \in Coroutines, Spawn(c) PROVE Rest
  BY <1>1, <1>3, <1>4 DEF Spawn, UserRuns
<1>5. ASSUME NEW c \in Coroutines, Suspend(c) PROVE Rest
  <2>1. \A d \in Coroutines : d # c => status[d] # "awaiting"
    BY <1>5 DEF Suspend, GroupInv, OneRegisters
  <2> QED
    BY <1>5, <2>1 DEF Suspend, GroupInv, TypeInv, TypeOK
<1>6. ASSUME NEW c \in Coroutines, Finish(c) PROVE Rest
  BY <1>1, <1>3, <1>6 DEF Finish
<1>7. ASSUME NEW c \in Coroutines, Cancel(c) PROVE Rest
  BY <1>2, <1>3, <1>7 DEF Cancel, UserRuns
<1>8. ASSUME NEW s \in Signals, Unwatch(s) PROVE Rest
  BY <1>2, <1>3, <1>8 DEF Unwatch, UserRuns
<1>9. CASE EngineStep
  <2>1. stack = <<>>
    BY <1>9 DEF EngineStep, PopDead, Advance, AdvanceFire, AdvanceEnd, BeginProcess,
                DropDeadEntry, KeepEntry, FireEntry, EraseFired, NextSignal, EndProcess,
                Cleanup, AtEntry, Walking
  <2>2. \A c \in Coroutines : status[c] # "awaiting"
    BY <1>3, <2>1
  <2>3. CASE status' = status /\ nreg' = nreg
    BY <1>2, <2>2, <2>3
  <2>4. ASSUME NEW e, Fire(e) PROVE Rest
    <3>1. nreg' = nreg /\ status' = [status EXCEPT ![e.h] = "running"]
      BY <2>4 DEF Fire
    <3> QED
      BY <2>2, <3>1 DEF Registering, GroupInv, TypeInv, TypeOK
  <2>5. CASE Cleanup
    BY <2>2, <2>5 DEF Cleanup, Registering
  <2> QED
    BY <1>9, <2>3, <2>4, <2>5
    DEF EngineStep, PopDead, Advance, AdvanceFire, AdvanceEnd, BeginProcess, DropDeadEntry,
        KeepEntry, FireEntry, EraseFired, NextSignal, EndProcess
<1> QED
  BY <1>4, <1>5, <1>6, <1>7, <1>8, <1>9 DEF Next, UserStep

\* What is registered of a wait when its next trigger is.
LEMMA ArmFinds ==
  ASSUME ContractInv, NEW c \in Coroutines, Arm(c, NewToken)
  PROVE  Numbered(c) /\ nreg \in Indices
<1> nreg \in Indices
  BY WaitEngineAssumption DEF Arm, ContractInv, GroupInv, TypeInv, TypeOK, Indices
<1>1. CASE status[c] = "awaiting"
  BY <1>1 DEF ContractInv, Registering
<1>2. CASE status[c] = "running"
  <2>1. \A d \in Coroutines : status[d] # "awaiting"
    BY <1>2 DEF Arm, ContractInv, GroupInv, OneRegisters
  <2>2. nreg = 0
    BY <2>1 DEF ContractInv, Registering
  <2>3. \A e \in Tickets : e.h = c => e.tok \notin valid
    BY <1>2 DEF ContractInv, TicketsOfThisWait
  <2>4. \A e \in Range(timers) : e \in Tickets
    BY DEF Tickets
  <2>5. \A s \in Signals : \A e \in Range(watches[s]) \cup Range(parked[s]) : e \in Tickets
    BY DEF Tickets
  <2>6. DelayConds(c, timers, valid) = {}
    BY <2>3, <2>4, DelayCondIs
  <2>7. EdgeConds(c, watches, valid) = {} /\ EdgeConds(c, parked, valid) = {}
    BY <2>3, <2>5, EdgeCondIs
  <2>8. Conds(c) = {}
    BY <2>6, <2>7 DEF Conds, Armed, Later
  <2> QED
    BY <2>2, <2>8, FS_EmptySet DEF Numbered
<1> QED
  BY <1>1, <1>2 DEF Arm

\* Arming makes one token valid and leaves every ticket what it was.
LEMMA ArmFresh ==
  ASSUME NEW c \in Coroutines, Arm(c, NewToken)
  PROVE  /\ NewToken \in valid'
         /\ \A e \in Tickets : e.tok \in valid' <=> e.tok \in valid
<1>1. NewToken \notin Referenced /\ valid' = valid \cup {NewToken}
  BY DEF Arm
<1>2. \A e \in Tickets : e.tok # NewToken
  BY <1>1 DEF Referenced
<1> QED
  BY <1>1, <1>2

\* await_delay shows as one more condition of its coroutine.
LEMMA DelayArmed ==
  ASSUME MaxTime < TimeModulus, TypeOK,
         NEW c \in Coroutines, NEW n \in Intervals, RegisterDelay(c, n)
  PROVE  /\ Armed' = [Armed EXCEPT ![c] = Armed[c] \cup {[at |-> now + n, idx |-> nreg]}]
         /\ Later' = Later
<1> DEFINE f == [deadline |-> (now + n) % TimeModulus, h |-> c, tok |-> NewToken, idx |-> TriggerIndex]
<1>1. Arm(c, NewToken) /\ timers' = InsertTimer(timers, f) /\ UNCHANGED <<watches, parked>>
  BY DEF RegisterDelay, monitorVars
<1>2. (now + n) % TimeModulus = now + n /\ now + n \in Times
  BY ArmedAhead DEF RegisterDelay
<1>3. f \in TimerEntry
  BY <1>1, <1>2, ArmType DEF TimerEntry
<1>4. f.h = c /\ f.tok \in valid' /\ f.deadline = now + n /\ f.idx = nreg
  BY <1>1, <1>2, ArmFresh DEF TriggerIndex
<1> HIDE DEF f
<1>5. Range(timers') = Range(timers) \cup {f}
  <2> DEFINE before == {i \in DOMAIN timers : timers[i].deadline <= f.deadline}
  <2>1. Cardinality(before) \in 0 .. Len(timers)
    <3>1. before \subseteq DOMAIN timers
      OBVIOUS
    <3> QED
      BY <3>1, CountLemma DEF TypeOK
  <2>2. InsertTimer(timers, f) = InsertAt(timers, 1 + Cardinality(before), f)
    BY DEF InsertTimer
  <2> HIDE DEF before
  <2>3. 1 + Cardinality(before) \in 1 .. Len(timers) + 1
    BY <2>1 DEF TypeOK
  <2> QED
    BY <1>1, <1>3, <2>2, <2>3, InsertAtKeeps DEF TypeOK
<1>6. \A e \in Tickets : e.tok \in valid' <=> e.tok \in valid
  BY <1>1, ArmFresh
<1>7. \A e \in Range(timers) : e \in Tickets
  BY DEF Tickets
<1>8. \A s \in Signals : \A e \in Range(watches[s]) \cup Range(parked[s]) : e \in Tickets
  BY DEF Tickets
<1>9. \A d : EdgeConds(d, watches', valid') = EdgeConds(d, watches, valid)
  BY <1>1, <1>6, <1>8, SameEdges
<1>10. \A d : EdgeConds(d, parked', valid') = EdgeConds(d, parked, valid)
  BY <1>1, <1>6, <1>8, SameEdges
<1>11. DelayConds(c, timers', valid') =
         DelayConds(c, timers, valid) \cup {[at |-> now + n, idx |-> nreg]}
  BY <1>4, <1>5, <1>6, <1>7, OneMoreDelay
<1>12. ASSUME NEW d \in Coroutines, d # c
       PROVE  DelayConds(d, timers', valid') = DelayConds(d, timers, valid)
  BY <1>4, <1>5, <1>6, <1>7, <1>12, SameDelays
<1>13. Later' = Later
  BY <1>10 DEF Later
<1>14. Armed'[c] = Armed[c] \cup {[at |-> now + n, idx |-> nreg]}
  BY <1>9, <1>11 DEF Armed
<1>15. \A d \in Coroutines : d # c => Armed'[d] = Armed[d]
  BY <1>9, <1>12 DEF Armed
<1> QED
  BY <1>13, <1>14, <1>15 DEF Armed

\* await_trigger too; what is awaited during an observation is for later.
LEMMA EdgeArmed ==
  ASSUME TypeOK, NEW c \in Coroutines, NEW s \in Signals, NEW ty \in Types,
         RegisterTrigger(c, s, ty)
  PROVE  \/ /\ ~Processing /\ Later' = Later
            /\ Armed' = [Armed EXCEPT ![c] = Armed[c] \cup {[sig |-> s, edge |-> ty, idx |-> nreg]}]
         \/ /\ Processing /\ Armed' = Armed
            /\ Later' = [Later EXCEPT ![c] = Later[c] \cup {[sig |-> s, edge |-> ty, idx |-> nreg]}]
<1>1. PICK f : f = [type |-> ty, h |-> c, tok |-> NewToken, idx |-> TriggerIndex]
  OBVIOUS
<1>2. Arm(c, NewToken) /\ Watch(s, f) /\ UNCHANGED timers
  BY <1>1 DEF RegisterTrigger, timerVars
<1>3. f \in WatchEntry
  BY <1>1, <1>2, ArmType, WaitEngineAssumption DEF WatchEntry, TriggerType
<1>4. f.h = c /\ f.tok \in valid'
  BY <1>1, <1>2, ArmFresh
<1>5. f.type = ty /\ f.idx = nreg
  BY <1>1 DEF TriggerIndex
<1>6. \A e \in Tickets : e.tok \in valid' <=> e.tok \in valid
  BY <1>2, ArmFresh
<1>7. \A e \in Range(timers) : e \in Tickets
  BY DEF Tickets
<1>8. \A r \in Signals : \A e \in Range(watches[r]) \cup Range(parked[r]) : e \in Tickets
  BY DEF Tickets
<1>9. \A d : DelayConds(d, timers', valid') = DelayConds(d, timers, valid)
  BY <1>2, <1>6, <1>7, SameDelays
<1>10. /\ Range(Append(watches[s], f)) = Range(watches[s]) \cup {f}
      /\ Range(Append(parked[s], f)) = Range(parked[s]) \cup {f}
  BY <1>3, AppendLemma DEF TypeOK
<1>11. CASE ~Processing
  <2>1. /\ Range(watches'[s]) = Range(watches[s]) \cup {f}
        /\ \A r \in Signals : r # s => watches'[r] = watches[r]
    BY <1>2, <1>10, <1>11 DEF Watch, TypeOK
  <2>2. parked' = parked
    BY <1>2, <1>11 DEF Watch
  <2>3. EdgeConds(c, watches', valid') = EdgeConds(c, watches, valid) \cup {[sig |-> s, edge |-> ty, idx |-> nreg]}
    <3>1. Mine(c, watches'[s], valid') = Mine(c, watches[s], valid) \cup {f}
      BY <1>4, <1>6, <1>8, <2>1 DEF Mine
    <3>2. \A r \in Signals : r # s => Mine(c, watches'[r], valid') = Mine(c, watches[r], valid)
      BY <1>6, <1>8, <2>1 DEF Mine
    <3>3. EdgeConds(c, watches', valid') =
            EdgeConds(c, watches, valid) \cup {[sig |-> s, edge |-> f.type, idx |-> f.idx]}
      BY <3>1, <3>2 DEF EdgeConds
    <3> QED
      BY <1>5, <3>3
  <2>4. ASSUME NEW d \in Coroutines, d # c
        PROVE  EdgeConds(d, watches', valid') = EdgeConds(d, watches, valid)
    <3>1. \A r \in Signals : \A e : e.h = d =>
            (e \in Range(watches[r]) <=> e \in Range(watches'[r]))
      BY <1>4, <2>1, <2>4
    <3> QED
      BY <1>6, <1>8, <3>1, SameEdges
  <2>5. \A d : EdgeConds(d, parked', valid') = EdgeConds(d, parked, valid)
    BY <1>6, <1>8, <2>2, SameEdges
  <2>6. Later' = Later
    BY <2>5 DEF Later
  <2>7. Armed'[c] = Armed[c] \cup {[sig |-> s, edge |-> ty, idx |-> nreg]}
    BY <1>9, <2>3 DEF Armed
  <2>8. \A d \in Coroutines : d # c => Armed'[d] = Armed[d]
    BY <1>9, <2>4 DEF Armed
  <2>9. Armed' = [Armed EXCEPT ![c] = Armed[c] \cup {[sig |-> s, edge |-> ty, idx |-> nreg]}]
    BY <2>7, <2>8 DEF Armed
  <2> QED
    BY <1>11, <2>6, <2>9
<1>12. CASE Processing
  <2>1. /\ Range(parked'[s]) = Range(parked[s]) \cup {f}
        /\ \A r \in Signals : r # s => parked'[r] = parked[r]
    BY <1>2, <1>10, <1>12 DEF Watch, TypeOK
  <2>2. watches' = watches
    BY <1>2, <1>12 DEF Watch
  <2>3. EdgeConds(c, parked', valid') = EdgeConds(c, parked, valid) \cup {[sig |-> s, edge |-> ty, idx |-> nreg]}
    <3>1. Mine(c, parked'[s], valid') = Mine(c, parked[s], valid) \cup {f}
      BY <1>4, <1>6, <1>8, <2>1 DEF Mine
    <3>2. \A r \in Signals : r # s => Mine(c, parked'[r], valid') = Mine(c, parked[r], valid)
      BY <1>6, <1>8, <2>1 DEF Mine
    <3>3. EdgeConds(c, parked', valid') =
            EdgeConds(c, parked, valid) \cup {[sig |-> s, edge |-> f.type, idx |-> f.idx]}
      BY <3>1, <3>2 DEF EdgeConds
    <3> QED
      BY <1>5, <3>3
  <2>4. ASSUME NEW d \in Coroutines, d # c
        PROVE  EdgeConds(d, parked', valid') = EdgeConds(d, parked, valid)
    <3>1. \A r \in Signals : \A e : e.h = d =>
            (e \in Range(parked[r]) <=> e \in Range(parked'[r]))
      BY <1>4, <2>1, <2>4
    <3> QED
      BY <1>6, <1>8, <3>1, SameEdges
  <2>5. \A d : EdgeConds(d, watches', valid') = EdgeConds(d, watches, valid)
    BY <1>6, <1>8, <2>2, SameEdges
  <2>6. Armed' = Armed
    BY <1>9, <2>5 DEF Armed
  <2>7. Later'[c] = Later[c] \cup {[sig |-> s, edge |-> ty, idx |-> nreg]}
    BY <2>3 DEF Later
  <2>8. \A d \in Coroutines : d # c => Later'[d] = Later[d]
    BY <2>4 DEF Later
  <2>9. Later' = [Later EXCEPT ![c] = Later[c] \cup {[sig |-> s, edge |-> ty, idx |-> nreg]}]
    BY <2>7, <2>8 DEF Later
  <2> QED
    BY <1>12, <2>6, <2>9
<1> QED
  BY <1>11, <1>12

\* One more condition takes the next number.
LEMMA NextNumber ==
  ASSUME NEW c, Numbered(c), nreg \in Nat, nreg' = nreg + 1,
         NEW d, d.idx = nreg, Conds(c)' = Conds(c) \cup {d}
  PROVE  Numbered(c)'
<1>1. d \notin Conds(c)
  BY DEF Numbered
<1>2. /\ IsFiniteSet(Conds(c) \cup {d})
      /\ Cardinality(Conds(c) \cup {d}) = nreg + 1
  BY <1>1, FS_AddElement DEF Numbered
<1>3. \A x \in Conds(c) \cup {d} : x.idx \in 0 .. nreg
  BY DEF Numbered
<1>4. (nreg + 1) - 1 = nreg
  OBVIOUS
<1> QED
  BY <1>2, <1>3, <1>4 DEF Numbered

LEMMA RegisteringStep ==
  ASSUME MaxTime < TimeModulus, ContractInv, Next
  PROVE  Registering'
<1>1. ASSUME NEW c \in Coroutines, Arm(c, NewToken), Numbered(c)' PROVE Registering'
  <2>1. status'[c] = "awaiting" /\ \A d \in Coroutines : d # c => status'[d] = status[d]
    BY <1>1 DEF Arm, ContractInv, GroupInv, TypeInv, TypeOK
  <2>2. \A d \in Coroutines : d # c => status[d] # "awaiting"
    BY <1>1 DEF Arm, ContractInv, GroupInv, OneRegisters
  <2> QED
    BY <1>1, <2>1, <2>2 DEF Registering
<1>2. ASSUME NEW c \in Coroutines, Arm(c, NewToken), NEW d, d.idx = nreg,
             Conds(c)' = Conds(c) \cup {d}
      PROVE  Numbered(c)'
  <2>1. Numbered(c) /\ nreg \in Nat
    BY <1>2, ArmFinds DEF Indices
  <2>2. nreg' = nreg + 1
    BY <1>2 DEF Arm
  <2> QED
    BY <1>2, <2>1, <2>2, NextNumber, SMTT(20)
<1>3. ASSUME NEW c \in Coroutines, NEW n \in Intervals, RegisterDelay(c, n) PROVE Registering'
  <2> DEFINE d == [at |-> now + n, idx |-> nreg]
  <2>1. Armed'[c] = Armed[c] \cup {d} /\ Later'[c] = Later[c]
    <3>1. TypeOK
      BY DEF ContractInv, GroupInv, TypeInv
    <3>2. Armed' = [Armed EXCEPT ![c] = Armed[c] \cup {d}] /\ Later' = Later
      BY <1>3, <3>1, DelayArmed, Zenon
    <3>3. c \in DOMAIN Armed
      BY DEF Armed
    <3> HIDE DEF d
    <3> QED
      BY <3>2, <3>3
  <2>2. Conds(c)' = Conds(c) \cup {d}
    BY <2>1 DEF Conds
  <2>3. Arm(c, NewToken) /\ d.idx = nreg
    BY <1>3 DEF RegisterDelay
  <2> QED
    BY <1>1, <1>2, <2>2, <2>3
<1>4. ASSUME NEW c \in Coroutines, NEW s \in Signals, NEW ty \in Types,
             RegisterTrigger(c, s, ty)
      PROVE  Registering'
  <2> DEFINE d == [sig |-> s, edge |-> ty, idx |-> nreg]
  <2>1. \/ Armed'[c] = Armed[c] \cup {d} /\ Later'[c] = Later[c]
        \/ Armed'[c] = Armed[c] /\ Later'[c] = Later[c] \cup {d}
    <3> DEFINE A == [Armed EXCEPT ![c] = Armed[c] \cup {d}]
               L == [Later EXCEPT ![c] = Later[c] \cup {d}]
    <3>1. A[c] = Armed[c] \cup {d} /\ L[c] = Later[c] \cup {d}
      BY DEF Armed, Later
    <3>2. \/ Armed' = A /\ Later' = Later
          \/ Armed' = Armed /\ Later' = L
      BY <1>4, EdgeArmed DEF ContractInv, GroupInv, TypeInv
    <3> QED
      BY <3>1, <3>2
  <2>2. Conds(c)' = Conds(c) \cup {d}
    BY <2>1 DEF Conds
  <2>3. Arm(c, NewToken) /\ d.idx = nreg
    BY <1>4 DEF RegisterTrigger
  <2> QED
    BY <1>1, <1>2, <2>2, <2>3
<1>5. CASE nreg' = 0 /\ \A c \in Coroutines : status'[c] # "awaiting"
  BY <1>5 DEF Registering
<1> QED
  BY <1>3, <1>4, <1>5, OnlyArmRegisters DEF ContractInv

LEMMA ContractInvariant ==
  ASSUME MaxTime < TimeModulus, DestroysWalked = FALSE
  PROVE  Spec => []ContractInv
<1> DEFINE Rest == PassShows /\ FiredIsDead /\ Registering
           Base == GroupInv /\ WalkInv /\ DelayInv /\ TicketsOfThisWait
<1>1. Init => Rest
  BY DEF Init, PassShows, Processing, FiredIsDead, Registering
<1>2. Base /\ Rest /\ [Next]_vars => Rest'
  <2> SUFFICES ASSUME Base, Rest, [Next]_vars PROVE Rest'
    OBVIOUS
  <2>1. CASE Next
    BY <2>1, PassShowsStep, FiredIsDeadStep, RegisteringStep DEF ContractInv, WalkInv
  <2>2. CASE UNCHANGED vars
    <3>1. UNCHANGED <<mode, changed, watches, ci, ei, valid, nreg, status, timers, parked>>
      BY <2>2 DEF vars, coVars, tokenVars, timerVars, monitorVars
    <3>2. Armed' = Armed /\ Later' = Later
      BY <3>1 DEF Armed, Later
    <3>3. Registering'
      BY <3>1, <3>2 DEF Registering, Numbered, Conds
    <3> QED
      BY <3>1, <3>3 DEF PassShows, Processing, FiredIsDead, Entries
  <2> QED
    BY <2>1, <2>2
<1>3. Spec => []Base
  BY GroupInvariant, WalkInvariant, DelayInvariant, NoStaleWakeUp, PTL
<1>4. Base /\ Rest => ContractInv
  BY DEF ContractInv
<1> QED
  BY <1>1, <1>2, <1>3, <1>4, PTL DEF Spec

-----------------------------------------------------------------------------
(* The step simulation: each step of user code and each firing is a step   *)
(* of the contract; what the engine does between two of them is not seen.  *)

Simulated == Contract!Next \/ UNCHANGED Contract!vars

\* What UNCHANGED Contract!vars comes to.
LEMMA Stutters ==
  ASSUME TypeOK, Armed' = Armed, Later' = Later,
         \A c \in Coroutines : PhaseOf(status'[c]) = PhaseOf(status[c]),
         UNCHANGED <<which, now, changed>>
  PROVE  Simulated
<1>1. Phases' = Phases
  BY DEF Phases
<1>2. Shown' = Shown
  BY DEF Shown
<1> QED
  BY <1>1, <1>2 DEF Simulated, Contract!vars

\* A frame moves on and nothing else is to be seen.
LEMMA FrameSimulated ==
  ASSUME TypeOK, NEW c \in Coroutines, NEW st, status' = [status EXCEPT ![c] = st],
         UNCHANGED <<which, valid, timers, watches, parked, now, changed>>,
         \/ status[c] = "unborn" /\ st = "running"
         \/ status[c] = "running" /\ st = "done"
         \/ status[c] = "awaiting" /\ st = "suspended"
  PROVE  Contract!Next
<1>1. UNCHANGED <<Armed, Later, which, now, Shown>>
  BY DEF Armed, Later, Shown
<1>2. /\ Phases' = [Phases EXCEPT ![c] = PhaseOf(st)]
      /\ Phases[c] = PhaseOf(status[c])
  BY PhaseMoves
<1>3. CASE status[c] = "unborn" /\ st = "running"
  <2>1. Contract!Begin(c)
    BY <1>1, <1>2, <1>3, PhaseValues DEF Contract!Begin, Contract!Move
  <2> QED
    BY <2>1 DEF Contract!Next
<1>4. CASE status[c] = "running" /\ st = "done"
  <2>1. Contract!End(c)
    BY <1>1, <1>2, <1>4, PhaseValues DEF Contract!End, Contract!Move
  <2> QED
    BY <2>1 DEF Contract!Next
<1>5. CASE status[c] = "awaiting" /\ st = "suspended"
  <2>1. Contract!Sleep(c)
    BY <1>1, <1>2, <1>5, PhaseValues DEF Contract!Sleep, Contract!Move
  <2> QED
    BY <2>1 DEF Contract!Next
<1> QED
  BY <1>3, <1>4, <1>5

\* Registering a trigger: the phase, the number and the result.
LEMMA ArmSimulated ==
  ASSUME ContractInv, NEW c \in Coroutines, Arm(c, NewToken)
  PROVE  /\ Contract!Move(c, {"awake", "arming"}, "arming")
         /\ Contract!NextIndex(c) = nreg /\ nreg \in Contract!Indices
         /\ which' = [which EXCEPT ![c] = -1]
<1>1. /\ status[c] \in {"running", "awaiting"}
      /\ status' = [status EXCEPT ![c] = "awaiting"]
      /\ which' = [which EXCEPT ![c] = -1]
  BY DEF Arm, NoIndex
<1>2. /\ Phases' = [Phases EXCEPT ![c] = PhaseOf("awaiting")]
      /\ Phases[c] = PhaseOf(status[c])
  BY <1>1, PhaseMoves DEF ContractInv, GroupInv, TypeInv
<1>3. Contract!Move(c, {"awake", "arming"}, "arming")
  BY <1>1, <1>2, PhaseValues DEF Contract!Move
<1>4. Numbered(c) /\ nreg \in Indices
  BY ArmFinds
<1>5. Contract!NextIndex(c) = nreg
  <2>1. Contract!NextIndex(c) = Contract!Cardinality(Conds(c))
    BY DEF Contract!NextIndex, Conds
  <2>2. Contract!Cardinality(Conds(c)) = Cardinality(Conds(c))
    BY Zenon DEF Contract!Cardinality, Cardinality
  <2> QED
    BY <1>4, <2>1, <2>2 DEF Numbered
<1> QED
  BY <1>1, <1>3, <1>4, <1>5 DEF Contract!Indices, Indices

LEMMA DelaySimulated ==
  ASSUME MaxTime < TimeModulus, ContractInv,
         NEW c \in Coroutines, NEW n \in Intervals, RegisterDelay(c, n)
  PROVE  Contract!Next
<1>1. Arm(c, NewToken) /\ UNCHANGED <<now, changed>>
  BY DEF RegisterDelay, monitorVars
<1>2. /\ Armed' = [Armed EXCEPT ![c] = Armed[c] \cup {[at |-> now + n, idx |-> nreg]}]
      /\ Later' = Later
  BY DelayArmed DEF ContractInv, GroupInv, TypeInv
<1>3. Shown' = Shown
  BY <1>1 DEF Shown
<1>4. Contract!AwaitDelay(c, n)
  BY <1>1, <1>2, <1>3, ArmSimulated DEF Contract!AwaitDelay
<1> QED
  BY <1>4 DEF Contract!Next

LEMMA EdgeSimulated ==
  ASSUME ContractInv, NEW c \in Coroutines, NEW s \in Signals, NEW ty \in Types,
         RegisterTrigger(c, s, ty)
  PROVE  Contract!Next
<1>1. Arm(c, NewToken) /\ UNCHANGED <<now, changed>>
  BY DEF RegisterTrigger, timerVars, passVars
<1>2. \/ /\ ~Processing /\ Later' = Later
         /\ Armed' = [Armed EXCEPT ![c] = Armed[c] \cup {[sig |-> s, edge |-> ty, idx |-> nreg]}]
      \/ /\ Processing /\ Armed' = Armed
         /\ Later' = [Later EXCEPT ![c] = Later[c] \cup {[sig |-> s, edge |-> ty, idx |-> nreg]}]
  BY EdgeArmed DEF ContractInv, GroupInv, TypeInv
<1>3. Shown' = Shown
  BY <1>1 DEF Shown
<1>4. Shown = {} <=> ~Processing
  BY ShownInPass DEF ContractInv
<1>5. ty \in Contract!Edge
  BY WaitEngineAssumption DEF Contract!Edge
<1>6. Contract!AwaitEdge(c, s, ty)
  BY <1>1, <1>2, <1>3, <1>4, ArmSimulated DEF Contract!AwaitEdge, Contract!Nothing
<1> QED
  BY <1>5, <1>6 DEF Contract!Next

\* Coroutine::cancel forgets every condition.
LEMMA CancelSimulated ==
  ASSUME ContractInv, NEW c \in Coroutines, Cancel(c)
  PROVE  Contract!Next
<1>1. /\ valid' = valid \ group[c]
      /\ UNCHANGED <<status, which, now, timers, watches, parked, changed>>
  BY DEF Cancel, timerVars, monitorVars
<1>2. \A e \in Tickets : e.tok \in valid' <=> e.tok \in valid /\ e.h # c
  BY <1>1, TicketOwner DEF ContractInv, GroupInv, TypeInv
<1>3. Armed' = [Armed EXCEPT ![c] = {}] /\ Later' = [Later EXCEPT ![c] = {}]
  BY <1>1, <1>2, WaitEnds
<1>4. Phases' = Phases /\ Shown' = Shown
  BY <1>1 DEF Phases, Shown
<1>5. Contract!Disarm(c)
  BY <1>1, <1>3, <1>4 DEF Contract!Disarm
<1> QED
  BY <1>5 DEF Contract!Next

\* Destroying a signal forgets the conditions on it.
LEMMA UnwatchSimulated ==
  ASSUME TypeOK, NEW s \in Signals, Unwatch(s)
  PROVE  Contract!Next
<1>1. /\ watches' = [watches EXCEPT ![s] = <<>>]
      /\ parked' = [parked EXCEPT ![s] = <<>>]
      /\ UNCHANGED <<status, which, now, timers, valid, changed>>
  BY DEF Unwatch, coVars, tokenVars, timerVars, passVars
<1> DEFINE Without(conds) == {d \in conds : "sig" \in DOMAIN d => d.sig # s}
<1>2. /\ Range(watches'[s]) = {} /\ \A t \in Signals : t # s => watches'[t] = watches[t]
      /\ Range(parked'[s]) = {} /\ \A t \in Signals : t # s => parked'[t] = parked[t]
  BY <1>1 DEF TypeOK, Range
<1>3. ASSUME NEW c
      PROVE  /\ EdgeConds(c, watches', valid) = Without(EdgeConds(c, watches, valid))
             /\ EdgeConds(c, parked', valid) = Without(EdgeConds(c, parked, valid))
  <2> DEFINE w == watches'
             p == parked'
  <2>1. /\ Range(w[s]) = {} /\ \A t \in Signals : t # s => w[t] = watches[t]
        /\ Range(p[s]) = {} /\ \A t \in Signals : t # s => p[t] = parked[t]
    BY <1>2
  <2> HIDE DEF w, p
  <2>2. EdgeConds(c, w, valid) = Without(EdgeConds(c, watches, valid))
    <3>1. /\ \A d \in EdgeConds(c, w, valid) : d \in EdgeConds(c, watches, valid) /\ d.sig # s
          /\ \A d \in EdgeConds(c, watches, valid) : d.sig # s => d \in EdgeConds(c, w, valid)
      BY <2>1, EdgesForgotten
    <3> QED
      BY <3>1, CondKinds
  <2>3. EdgeConds(c, p, valid) = Without(EdgeConds(c, parked, valid))
    <3>1. /\ \A d \in EdgeConds(c, p, valid) : d \in EdgeConds(c, parked, valid) /\ d.sig # s
          /\ \A d \in EdgeConds(c, parked, valid) : d.sig # s => d \in EdgeConds(c, p, valid)
      BY <2>1, EdgesForgotten
    <3> QED
      BY <3>1, CondKinds
  <2> QED
    BY <2>2, <2>3 DEF w, p
<1>4. ASSUME NEW c PROVE Without(DelayConds(c, timers, valid)) = DelayConds(c, timers, valid)
  BY CondKinds
<1>5. \A c \in Coroutines : Armed'[c] = Without(Armed[c])
  <2>1. ASSUME NEW c \in Coroutines
        PROVE  Without(Armed[c]) = Without(DelayConds(c, timers, valid))
                                     \cup Without(EdgeConds(c, watches, valid))
    BY DEF Armed
  <2> HIDE DEF Without
  <2> QED
    BY <1>1, <1>3, <1>4, <2>1 DEF Armed
<1>6. \A c \in Coroutines : Later'[c] = Without(Later[c])
  BY <1>1, <1>3 DEF Later
<1>7. /\ Armed' = [c \in Coroutines |-> Without(Armed[c])]
      /\ Later' = [c \in Coroutines |-> Without(Later[c])]
  <2> HIDE DEF Without
  <2> QED
    BY <1>5, <1>6 DEF Armed, Later
<1>8. Phases' = Phases /\ Shown' = Shown
  BY <1>1 DEF Phases, Shown
<1>9. Contract!Forget(s)
  BY <1>1, <1>7, <1>8 DEF Contract!Forget
<1> QED
  BY <1>9 DEF Contract!Next

LEMMA UserSimulated ==
  ASSUME MaxTime < TimeModulus, ContractInv, UserStep
  PROVE  Contract!Next
<1> USE DEF tokenVars, timerVars, passVars, monitorVars
<1>1. TypeOK
  BY DEF ContractInv, GroupInv, TypeInv
<1>2. ASSUME NEW c \in Coroutines, Spawn(c) PROVE Contract!Next
  BY <1>1, <1>2, FrameSimulated DEF Spawn
<1>3. ASSUME NEW c \in Coroutines, Suspend(c) PROVE Contract!Next
  BY <1>1, <1>3, FrameSimulated DEF Suspend
<1>4. ASSUME NEW c \in Coroutines, Finish(c) PROVE Contract!Next
  BY <1>1, <1>4, FrameSimulated DEF Finish, CoroutineRuns
<1> QED
  BY <1>1, <1>2, <1>3, <1>4, CancelSimulated, DelaySimulated, EdgeSimulated, UnwatchSimulated
  DEF UserStep

\* fire_coroutine wakes the coroutine with the condition its ticket stands for.
LEMMA FireSimulated ==
  ASSUME ContractInv, NEW e \in Tickets, e.tok \in valid, stack = <<>>, Fire(e),
         NEW cond, cond \in Armed[e.h], cond.idx = e.idx, Contract!Holds(cond),
         Range(timers') \subseteq Range(timers),
         \A f \in Range(timers) : f # e => f \in Range(timers'),
         UNCHANGED <<now, watches, parked, changed>>
  PROVE  Contract!Next
<1> DEFINE c == e.h
<1>1. TypeOK /\ c \in Coroutines
  BY TicketType DEF ContractInv, GroupInv, TypeInv
<1>2. /\ which' = [which EXCEPT ![c] = e.idx]
      /\ valid' = valid \ (group[c] \cup {e.tok})
      /\ status' = [status EXCEPT ![c] = "running"]
  BY DEF Fire, ValidAfterFire
<1>3. e.tok \in group[c] /\ status[c] = "suspended"
  <2>1. \A d \in Coroutines : status[d] # "awaiting"
    BY NobodyRegisters DEF ContractInv, GroupInv
  <2> QED
    BY <1>1, <2>1 DEF ContractInv, TicketsOfThisWait
<1>4. \A f \in Tickets : f.tok \in valid' <=> f.tok \in valid /\ f.h # c
  <2>1. valid' = valid \ group[c]
    BY <1>2, <1>3
  <2>2. \A f \in Tickets : f.tok \in valid => (f.tok \in group[c] <=> f.h = c)
    BY <1>1, TicketOwner DEF ContractInv
  <2> QED
    BY <2>1, <2>2
<1>5. Armed' = [Armed EXCEPT ![c] = {}] /\ Later' = [Later EXCEPT ![c] = {}]
  BY <1>1, <1>4, WaitEnds
<1>6. /\ Phases' = [Phases EXCEPT ![c] = "awake"] /\ Phases[c] = "waiting"
  <2>1. /\ Phases' = [Phases EXCEPT ![c] = PhaseOf("running")]
        /\ Phases[c] = PhaseOf(status[c])
    BY <1>1, <1>2, PhaseMoves
  <2> QED
    BY <1>3, <2>1, PhaseValues
<1>7. Shown' = Shown
  BY DEF Shown
<1>8. Contract!Wake(c, cond)
  BY <1>2, <1>5, <1>6, <1>7 DEF Contract!Wake, Contract!Move
<1> QED
  BY <1>1, <1>8 DEF Contract!Next

LEMMA TimerSimulated ==
  ASSUME ContractInv, AdvanceFire
  PROVE  Contract!Next
<1> DEFINE e == Head(timers)
           cond == [at |-> e.deadline, idx |-> e.idx]
<1>1. /\ timers # <<>> /\ timers' = Tail(timers) /\ Fire(e) /\ mode = "advance"
      /\ Live(e) /\ Due(e) /\ stack = <<>>
      /\ UNCHANGED <<now, watches, parked, changed>>
  BY DEF AdvanceFire, monitorVars
<1>2. timers \in Seq(TimerEntry) /\ now \in Nat
  BY DEF ContractInv, GroupInv, TypeInv, TypeOK, Times
<1>3. e \in Range(timers) /\ e \in TimerEntry /\ Range(Tail(timers)) \subseteq Range(timers)
  BY <1>1, <1>2, TailLemma
<1>4. \A f \in Range(timers) : f # e => f \in Range(timers')
  BY <1>1, <1>2, TailElems
<1>5. e \in Tickets /\ e.tok \in valid /\ e.h \in Coroutines
  BY <1>1, <1>3 DEF Tickets, Live, TimerEntry
<1>6. e.deadline = now
  <2>1. e.deadline \in Nat /\ e.deadline <= now
    BY <1>1, <1>3 DEF Due, TimerEntry, Times
  <2>2. e.deadline >= now
    BY <1>1, <1>3, <1>5 DEF ContractInv, DelayInv, ValidAhead
  <2> QED
    BY <1>2, <2>1, <2>2
<1>7. cond \in Armed[e.h]
  BY <1>3, <1>5, DelayCondIs DEF Armed
<1>8. cond.idx = e.idx /\ Contract!Holds(cond)
  BY <1>6 DEF Contract!Holds
<1> HIDE DEF e, cond
<1> QED
  BY <1>1, <1>3, <1>4, <1>5, <1>7, <1>8, FireSimulated

LEMMA WatchSimulated ==
  ASSUME ContractInv, FireEntry
  PROVE  Contract!Next
<1> DEFINE e == Entries[ei]
           s == changed[ci].sig
           cond == [sig |-> s, edge |-> e.type, idx |-> e.idx]
<1>1. /\ Fire(e) /\ Live(e) /\ e.type \in changed[ci].trig /\ stack = <<>>
      /\ UNCHANGED <<now, timers, watches, parked, changed>>
  BY DEF FireEntry, AtEntry, Walking, timerVars
<1>2. ci \in DOMAIN changed /\ ei \in 1 .. Len(Entries)
  BY DEF FireEntry, AtEntry, Walking, ContractInv, GroupInv, TypeInv, TypeOK
<1>3. s \in Signals /\ watches[s] \in Seq(WatchEntry) /\ e \in Range(watches[s])
  <2>1. s \in Signals /\ Entries \in Seq(WatchEntry) /\ Entries = watches[s]
    BY <1>2, EntryType DEF ContractInv, GroupInv, TypeInv, Entries
  <2> QED
    BY <1>2, <2>1, RangeIn
<1>4. e \in Tickets /\ e.tok \in valid
  BY <1>1, <1>3 DEF Tickets, Live
<1>5. e.h \in Coroutines
  BY <1>4, TicketType DEF ContractInv, GroupInv, TypeInv
<1>6. cond \in Armed[e.h]
  <2>1. cond \in EdgeConds(e.h, watches, valid)
    BY <1>3, <1>4, EdgeCondIs
  <2> QED
    BY <1>5, <2>1 DEF Armed
<1>7. cond.idx = e.idx /\ Contract!Holds(cond)
  <2>1. <<s, e.type>> \in Shown
    BY <1>1, <1>2 DEF Shown
  <2> QED
    BY <2>1 DEF Contract!Holds
<1> HIDE DEF e, s, cond
<1> QED
  BY <1>1, <1>4, <1>6, <1>7, FireSimulated

\* The delays of the contract are those in the queue, and none is behind.
LEMMA DueAre ==
  ASSUME ContractInv, mode = "idle", NEW d \in Contract!Due
  PROVE  now < d.at /\ \E e \in Range(timers) : e.tok \in valid /\ d.at = e.deadline
<1>1. PICK c \in Coroutines : d \in Armed[c] /\ "at" \in DOMAIN d
  BY DEF Contract!Due
<1>2. d \in DelayConds(c, timers, valid)
  BY <1>1, CondKinds DEF Armed
<1>3. PICK e \in Range(timers) : e.tok \in valid /\ d = [at |-> e.deadline, idx |-> e.idx]
  BY <1>2, DelayCondIs
<1>4. e.deadline > now
  BY <1>3 DEF ContractInv, DelayInv, ValidAhead
<1>5. now \in Nat /\ e.deadline \in Nat
  <2>1. Range(timers) \subseteq TimerEntry
    BY RangeIn DEF ContractInv, GroupInv, TypeInv, TypeOK
  <2> QED
    BY <2>1 DEF TimerEntry, Times, ContractInv, GroupInv, TypeInv, TypeOK
<1> QED
  BY <1>3, <1>4, <1>5

\* Time goes to the top of the queue, which is the earliest delay.
LEMMA TickSimulated ==
  ASSUME ContractInv, Advance
  PROVE  Contract!Next
<1> DEFINE e == Head(timers)
           d == [at |-> e.deadline, idx |-> e.idx]
<1>1. /\ mode = "idle" /\ timers # <<>> /\ Live(e) /\ now' = e.deadline
      /\ UNCHANGED <<status, which, valid, timers, watches, parked, changed>>
  BY DEF Advance, coVars, tokenVars
<1>2. timers \in Seq(TimerEntry)
  BY DEF ContractInv, GroupInv, TypeInv, TypeOK
<1>3. e \in Range(timers) /\ e \in TimerEntry
  BY <1>1, <1>2, TailLemma
<1>4. \A f \in Range(timers) : e.deadline <= f.deadline
  BY <1>1, <1>2, PopSorts DEF ContractInv, DelayInv
<1>5. e.tok \in valid /\ e.h \in Coroutines
  BY <1>1, <1>3 DEF Live, TimerEntry
<1>6. d \in Contract!Due
  <2>1. d \in DelayConds(e.h, timers, valid)
    BY <1>3, <1>5, DelayCondIs
  <2>2. d \in Armed[e.h] /\ "at" \in DOMAIN d
    BY <1>5, <2>1 DEF Armed
  <2> HIDE DEF d
  <2> QED
    BY <1>5, <2>2 DEF Contract!Due
<1>7. d.at = e.deadline
  OBVIOUS
<1> HIDE DEF d, e
<1>8. \A o \in Contract!Due : d.at <= o.at
  BY <1>1, <1>4, <1>7, DueAre
<1>9. now < d.at
  BY <1>1, <1>6, DueAre
<1>10. Shown = {}
  BY <1>1, ShownInPass DEF ContractInv, Processing
<1>11. UNCHANGED <<Phases, Armed, Later, which, Shown>>
  BY <1>1 DEF Phases, Armed, Later, Shown
<1>12. Contract!Tick
  BY <1>1, <1>6, <1>7, <1>8, <1>9, <1>10, <1>11 DEF Contract!Tick, Contract!Nothing
<1> QED
  BY <1>12 DEF Contract!Next

\* A pass begins when something is shown and no delay is due.
LEMMA BeginSimulated ==
  ASSUME ContractInv, PassShows', NEW chg \in ChangeLists, BeginProcess(chg)
  PROVE  Contract!Next
<1>1. /\ mode = "idle" /\ mode' = "process" /\ changed' = chg
      /\ UNCHANGED <<status, which, valid, timers, watches, parked, now>>
  BY DEF BeginProcess, coVars, tokenVars, timerVars
<1>2. Shown = {}
  BY <1>1, ShownInPass DEF ContractInv, Processing
<1>3. Shown' \in Contract!Observations
  <2>1. chg \in Seq(ChangeRecord)
    BY ChangeListType
  <2>2. \A k \in DOMAIN chg : chg[k].sig \in Signals /\ chg[k].trig \subseteq TriggerType
    <3>1. \A x \in ChangeRecord : x.sig \in Signals /\ x.trig \subseteq TriggerType
      BY DEF ChangeRecord
    <3> QED
      BY <2>1, <3>1
  <2>3. Shown' \subseteq Signals \X Contract!Edge
    BY <1>1, <2>2 DEF Shown, Contract!Edge, TriggerType
  <2>4. PICK k \in DOMAIN chg : chg[k].trig # {}
    BY <1>1 DEF PassShows, Processing
  <2>5. PICK y : y \in chg[k].trig
    BY <2>4
  <2>6. <<chg[k].sig, y>> \in Shown'
    BY <1>1, <2>5 DEF Shown
  <2> QED
    BY <2>3, <2>6 DEF Contract!Observations, Contract!Nothing
<1>4. UNCHANGED <<Phases, Armed, Later>>
  BY <1>1 DEF Phases, Armed, Later
<1>5. \A d \in Contract!Due : now < d.at
  BY <1>1, DueAre
<1>6. Contract!Observe(Shown')
  BY <1>1, <1>2, <1>4, <1>5 DEF Contract!Observe, Contract!Nothing
<1> QED
  BY <1>3, <1>6 DEF Contract!Next

\* A pass ends when nobody is left whom the observation answers.
LEMMA EndSimulated ==
  ASSUME ContractInv, EndProcess
  PROVE  Contract!Next
<1>1. /\ mode = "process" /\ ci > Len(changed) /\ mode' = "idle" /\ changed' = <<>>
      /\ watches' = [s \in Signals |-> watches[s] \o parked[s]] /\ parked' = NoWatches
      /\ UNCHANGED <<status, which, valid, timers, now>>
  BY DEF EndProcess, coVars, tokenVars, timerVars
<1>2. Shown # {} /\ Shown' = {}
  <2>1. Shown # {}
    BY <1>1, ShownInPass DEF ContractInv, Processing
  <2> QED
    BY <1>1, <2>1 DEF Shown
<1>3. ASSUME NEW c \in Coroutines, NEW d \in Armed[c], "sig" \in DOMAIN d, Contract!Holds(d)
      PROVE  FALSE
  <2>1. d \in EdgeConds(c, watches, valid) /\ "at" \notin DOMAIN d
    BY <1>3, CondKinds DEF Armed
  <2>2. PICK s \in Signals : \E e \in Range(watches[s]) :
           /\ e.h = c /\ e.tok \in valid
           /\ d = [sig |-> s, edge |-> e.type, idx |-> e.idx]
    BY <2>1, EdgeCondIs
  <2>3. PICK e \in Range(watches[s]) :
           /\ e.h = c /\ e.tok \in valid
           /\ d = [sig |-> s, edge |-> e.type, idx |-> e.idx]
    BY <2>2
  <2>4. <<s, e.type>> \in Shown
    BY <1>3, <2>1, <2>3 DEF Contract!Holds
  <2>5. PICK k \in DOMAIN changed : changed[k].sig = s /\ e.type \in changed[k].trig
    BY <2>4 DEF Shown
  <2>6. PICK i \in DOMAIN watches[s] : watches[s][i] = e
    BY DEF Range
  <2>7. k < ci
    BY <1>1 DEF ContractInv, GroupInv, TypeInv, TypeOK
  <2>8. i \in PassedSignal(k)
    BY <2>5, <2>6, <2>7 DEF PassedSignal
  <2>9. Live(e)
    <3>1. e \in Tickets
      BY DEF Tickets
    <3> QED
      BY <2>3, <3>1 DEF Live, ContractInv, TicketsOfThisWait
  <2> QED
    BY <2>5, <2>6, <2>8, <2>9 DEF ContractInv, WalkInv, NoMissedEdge
<1>4. \A s \in Signals : Range(watches'[s]) = Range(watches[s]) \cup Range(parked[s])
  <2>1. \A s \in Signals : watches[s] \in Seq(WatchEntry) /\ parked[s] \in Seq(WatchEntry)
    BY DEF ContractInv, GroupInv, TypeInv, TypeOK
  <2> QED
    BY <1>1, <2>1, ConcatLemma
<1>5. ASSUME NEW c \in Coroutines PROVE Armed'[c] = Armed[c] \cup Later[c]
  <2>1. EdgeConds(c, watches', valid) =
          EdgeConds(c, watches, valid) \cup EdgeConds(c, parked, valid)
    BY <1>4, EdgesJoin
  <2> QED
    BY <1>1, <2>1 DEF Armed, Later
<1>6. ASSUME NEW c \in Coroutines PROVE Later'[c] = {}
  BY <1>1, NoEdges DEF Later
<1>7. /\ Armed' = [c \in Coroutines |-> Armed[c] \cup Later[c]]
      /\ Later' = [c \in Coroutines |-> {}]
  BY <1>5, <1>6 DEF Armed, Later
<1>8. Phases' = Phases
  BY <1>1 DEF Phases
<1>9. Contract!EndObservation
  BY <1>1, <1>2, <1>3, <1>7, <1>8 DEF Contract!EndObservation, Contract!Nothing
<1> QED
  BY <1>9 DEF Contract!Next

\* Erasing a dead entry is not to be seen.
LEMMA EraseUnseen ==
  ASSUME TypeOK, ci \in DOMAIN changed, ei \in 1 .. Len(Entries),
         Entries[ei].tok \notin valid, EraseEntry, UNCHANGED <<timers, parked, valid>>
  PROVE  Armed' = Armed /\ Later' = Later
<1> DEFINE s == changed[ci].sig
<1>1. s \in Signals /\ watches[s] \in Seq(WatchEntry) /\ ei \in 1 .. Len(watches[s])
  BY EntryType DEF Entries
<1>2. /\ Range(RemoveAt(watches[s], ei)) \subseteq Range(watches[s])
      /\ Range(watches[s]) = Range(RemoveAt(watches[s], ei)) \cup {watches[s][ei]}
  BY <1>1, RemoveAtLemma, RemoveAtKeeps
<1>3. /\ watches'[s] = RemoveAt(watches[s], ei)
      /\ \A t \in Signals : t # s => watches'[t] = watches[t]
  BY <1>1 DEF EraseEntry, TypeOK
<1>4. watches[s][ei].tok \notin valid
  BY DEF Entries
<1> HIDE DEF s
<1>5. \A t \in Signals : Range(watches'[t]) \subseteq Range(watches[t])
  BY <1>2, <1>3
<1>6. \A t \in Signals : \A e \in Range(watches[t]) : e.tok \in valid => e \in Range(watches'[t])
  BY <1>2, <1>3, <1>4
<1> QED
  BY <1>5, <1>6, CondsUnchanged

LEMMA EngineSimulated ==
  ASSUME ContractInv, PassShows', EngineStep
  PROVE  Simulated
<1> USE DEF coVars, tokenVars, timerVars, passVars, monitorVars
<1>1. TypeOK
  BY DEF ContractInv, GroupInv, TypeInv
<1>2. \A e \in Tickets : e.tok \in valid => Live(e)
  BY DEF Live, ContractInv, TicketsOfThisWait
<1>3. CASE AdvanceFire \/ FireEntry \/ Advance \/ EndProcess
  BY <1>3, TimerSimulated, WatchSimulated, TickSimulated, EndSimulated DEF Simulated
<1>4. ASSUME NEW chg \in ChangeLists, BeginProcess(chg) PROVE Simulated
  BY <1>4, BeginSimulated DEF Simulated
<1>5. CASE PopDead
  <2>1. /\ timers # <<>> /\ ~Live(Head(timers)) /\ timers' = Tail(timers)
        /\ UNCHANGED <<status, which, valid, now, watches, parked, changed>>
    BY <1>5 DEF PopDead
  <2>2. /\ Range(timers) = Range(Tail(timers)) \cup {Head(timers)}
        /\ Head(timers) \in Tickets
    BY <1>1, <2>1, TailElems, TailLemma DEF TypeOK, Tickets
  <2>3. Head(timers).tok \notin valid
    BY <1>2, <2>1, <2>2
  <2>4. Armed' = Armed /\ Later' = Later
    BY <2>1, <2>2, <2>3, CondsUnchanged
  <2> QED
    BY <1>1, <2>1, <2>4, Stutters
<1>6. CASE DropDeadEntry \/ EraseFired
  <2>1. /\ EraseEntry
        /\ UNCHANGED <<status, which, valid, now, timers, parked, changed>>
    BY <1>6 DEF DropDeadEntry, EraseFired
  <2>2. ci \in DOMAIN changed /\ ei \in 1 .. Len(Entries)
    <3>1. CASE DropDeadEntry
      BY <1>1, <3>1 DEF DropDeadEntry, AtEntry, Walking, TypeOK
    <3>2. CASE EraseFired
      BY <1>1, <3>2, EntryType DEF EraseFired, ContractInv, GroupInv, TypeInv, FiredEntryStays
    <3> QED
      BY <1>6, <3>1, <3>2
  <2>3. Entries[ei].tok \notin valid
    <3>1. CASE DropDeadEntry
      <4>1. changed[ci].sig \in Signals /\ Entries \in Seq(WatchEntry)
        BY <1>1, <2>2, EntryType
      <4>2. Entries[ei] \in Range(Entries)
        BY <2>2, <4>1, RangeIn
      <4>3. Entries[ei] \in Tickets
        BY <4>1, <4>2 DEF Tickets, Entries
      <4>4. ~Live(Entries[ei])
        BY <3>1 DEF DropDeadEntry
      <4> QED
        BY <1>2, <4>3, <4>4
    <3>2. CASE EraseFired
      BY <3>2 DEF EraseFired, ContractInv, FiredIsDead
    <3> QED
      BY <1>6, <3>1, <3>2
  <2>4. Armed' = Armed /\ Later' = Later
    BY <1>1, <2>1, <2>2, <2>3, EraseUnseen
  <2> QED
    BY <1>1, <2>1, <2>4, Stutters
<1>7. CASE Cleanup
  <2>1. /\ status' = [c \in Coroutines |-> IF c \in Finished THEN "destroyed" ELSE status[c]]
        /\ valid' = valid \ UNION {group[c] : c \in Finished}
        /\ UNCHANGED <<which, now, timers, watches, parked, changed>>
    BY <1>7 DEF Cleanup
  <2>2. ASSUME NEW e \in Tickets, e.tok \in valid PROVE e.tok \in valid'
    <3>1. status[e.h] # "done"
      BY <2>2, <1>2 DEF Live
    <3>2. ASSUME NEW c \in Finished PROVE e.tok \notin group[c]
      BY <1>1, <2>2, <3>1, <3>2, TicketOwner DEF Finished, ContractInv
    <3> QED
      BY <2>1, <2>2, <3>2
  <2>3. Armed' = Armed /\ Later' = Later
    BY <2>1, <2>2, CondsUnchanged
  <2>4. \A c \in Coroutines : PhaseOf(status'[c]) = PhaseOf(status[c])
    BY <2>1, PhaseValues DEF Finished
  <2> QED
    BY <1>1, <2>1, <2>3, <2>4, Stutters
<1>8. CASE AdvanceEnd \/ KeepEntry \/ NextSignal
  <2>1. UNCHANGED <<status, which, valid, now, timers, watches, parked, changed>>
    BY <1>8 DEF AdvanceEnd, KeepEntry, NextSignal
  <2>2. Armed' = Armed /\ Later' = Later
    BY <2>1 DEF Armed, Later
  <2> QED
    BY <1>1, <2>1, <2>2, Stutters
<1> QED
  BY <1>3, <1>4, <1>5, <1>6, <1>7, <1>8 DEF EngineStep

\* What AwaitContract promises the author of a testbench is kept: tokens that
\* are invalidated instead of removed, queues that are walked while they change
\* and watches that are parked during a pass show nothing but the waits, the
\* wake-ups and the passing of time that the contract allows, in its order.
THEOREM AwaitContractKept ==
  ASSUME MaxTime < TimeModulus, DestroysWalked = FALSE
  PROVE  Spec => ImplementsAwaitContract
<1>1. Init => Contract!Init
  <2> SUFFICES ASSUME Init PROVE Contract!Init
    OBVIOUS
  <2>1. Phases = [c \in Coroutines |-> "unborn"]
    BY PhaseValues DEF Init, Phases
  <2>2. \A c : DelayConds(c, timers, valid) = {}
    BY DelayCondIs DEF Init
  <2>3. \A c : EdgeConds(c, watches, valid) = {} /\ EdgeConds(c, parked, valid) = {}
    BY EdgeCondIs DEF Init
  <2>4. Armed = [c \in Coroutines |-> {}] /\ Later = [c \in Coroutines |-> {}]
    BY <2>2, <2>3 DEF Armed, Later
  <2>5. Shown = {}
    BY DEF Init, Shown
  <2> QED
    BY <2>1, <2>4, <2>5 DEF Init, Contract!Init, Contract!Nothing, NoIndex
<1>2. ContractInv /\ ContractInv' /\ [Next]_vars => [Contract!Next]_(Contract!vars)
  <2> SUFFICES ASSUME ContractInv, ContractInv', [Next]_vars PROVE Simulated
    BY DEF Simulated
  <2>1. CASE UserStep
    BY <2>1, UserSimulated DEF Simulated
  <2>2. CASE EngineStep
    BY <2>2, EngineSimulated DEF ContractInv
  <2>3. CASE UNCHANGED vars
    <3>1. UNCHANGED <<status, which, valid, now, timers, watches, parked, changed>>
      BY <2>3 DEF vars, coVars, tokenVars, timerVars, monitorVars
    <3>2. Armed' = Armed /\ Later' = Later
      BY <3>1 DEF Armed, Later
    <3> QED
      BY <3>1, <3>2, Stutters DEF ContractInv, GroupInv, TypeInv
  <2> QED
    BY <2>1, <2>2, <2>3 DEF Next
<1>3. Spec => []ContractInv
  BY ContractInvariant
<1> QED
  BY <1>1, <1>2, <1>3, PTL DEF Spec, ImplementsAwaitContract, Contract!Spec
=============================================================================
