---------------------------- MODULE AwaitContract ----------------------------
(***************************************************************************)
(* What co_await and any() promise the author of a testbench, without      *)
(* tokens, queues or iterators.  A coroutine waits for a set of conditions *)
(* that is armed as one and consumed as one: the first that holds wakes it *)
(* and forgets the others.  Time does not pass a delay somebody waits for, *)
(* an observation is over only when nobody is left waiting for what it     *)
(* showed, and what is awaited during an observation is not answered by it.*)
(***************************************************************************)
EXTENDS Integers, Sequences, FiniteSets

CONSTANTS
  Coroutines, Signals,
  Delays,     \* positive intervals
  MaxAny      \* the largest number of conditions awaited at once

Edge == {"POSEDGE", "NEGEDGE", "CHANGE"}
Indices == 0 .. MaxAny - 1
AtConds == [at : Nat, idx : Indices]
EdgeConds == [sig : Signals, edge : Edge, idx : Indices]

VARIABLES
  phase,      \* "unborn", "awake", "arming", "waiting" or "over"
  armed,      \* the conditions that wake the coroutine
  later,      \* those armed since the present observation began
  result,     \* the index of the condition that won last, -1 while waiting
  clock,      \* simulation time
  seen        \* the observation being answered: a set of <<signal, edge>>,
              \* or Nothing between observations

vars == <<phase, armed, later, result, clock, seen>>
Nothing == {}
Observations == (SUBSET (Signals \X Edge)) \ {Nothing}

Init ==
  /\ phase = [c \in Coroutines |-> "unborn"]
  /\ armed = [c \in Coroutines |-> {}] /\ later = [c \in Coroutines |-> {}]
  /\ result = [c \in Coroutines |-> -1]
  /\ clock = 0 /\ seen = Nothing

Move(c, from, to) == phase[c] \in from /\ phase' = [phase EXCEPT ![c] = to]

Begin(c) == Move(c, {"unborn"}, "awake") /\ UNCHANGED <<armed, later, result, clock, seen>>
End(c) == Move(c, {"awake"}, "over") /\ UNCHANGED <<armed, later, result, clock, seen>>
Sleep(c) == Move(c, {"arming"}, "waiting") /\ UNCHANGED <<armed, later, result, clock, seen>>

\* The k-th condition of a wait has index k.
NextIndex(c) == Cardinality(armed[c] \cup later[c])

AwaitDelay(c, n) ==
  /\ Move(c, {"awake", "arming"}, "arming")
  /\ NextIndex(c) \in Indices
  /\ armed' = [armed EXCEPT ![c] = @ \cup {[at |-> clock + n, idx |-> NextIndex(c)]}]
  /\ result' = [result EXCEPT ![c] = -1]
  /\ UNCHANGED <<later, clock, seen>>

AwaitEdge(c, s, ty) ==
  /\ Move(c, {"awake", "arming"}, "arming")
  /\ NextIndex(c) \in Indices
  /\ LET cond == {[sig |-> s, edge |-> ty, idx |-> NextIndex(c)]} IN
       \/ /\ seen = Nothing
          /\ armed' = [armed EXCEPT ![c] = @ \cup cond] /\ UNCHANGED later
       \/ /\ seen # Nothing
          /\ later' = [later EXCEPT ![c] = @ \cup cond] /\ UNCHANGED armed
  /\ result' = [result EXCEPT ![c] = -1]
  /\ UNCHANGED <<clock, seen>>

Holds(cond) == IF "at" \in DOMAIN cond THEN cond.at = clock
               ELSE <<cond.sig, cond.edge>> \in seen

Wake(c, cond) ==
  /\ cond \in armed[c] /\ Holds(cond)
  /\ Move(c, {"waiting"}, "awake")
  /\ armed' = [armed EXCEPT ![c] = {}] /\ later' = [later EXCEPT ![c] = {}]
  /\ result' = [result EXCEPT ![c] = cond.idx]
  /\ UNCHANGED <<clock, seen>>

\* cancel(), or the coroutine is destroyed.
Disarm(c) ==
  /\ armed' = [armed EXCEPT ![c] = {}] /\ later' = [later EXCEPT ![c] = {}]
  /\ UNCHANGED <<phase, result, clock, seen>>

\* A signal is destroyed: whoever waits for it alone sleeps forever.
Forget(s) ==
  LET Without(conds) == {d \in conds : "sig" \in DOMAIN d => d.sig # s} IN
  /\ armed' = [c \in Coroutines |-> Without(armed[c])]
  /\ later' = [c \in Coroutines |-> Without(later[c])]
  /\ UNCHANGED <<phase, result, clock, seen>>

Due == UNION {{d \in armed[c] : "at" \in DOMAIN d} : c \in Coroutines}

\* Time goes to the earliest delay, and only when no delay of now is left.
Tick ==
  /\ seen = Nothing
  /\ \E d \in Due : /\ clock < d.at /\ \A o \in Due : d.at <= o.at
                    /\ clock' = d.at
  /\ UNCHANGED <<phase, armed, later, result, seen>>

Observe(obs) ==
  /\ seen = Nothing /\ \A d \in Due : clock < d.at
  /\ seen' = obs
  /\ UNCHANGED <<phase, armed, later, result, clock>>

EndObservation ==
  /\ seen # Nothing
  /\ \A c \in Coroutines : \A d \in armed[c] : "sig" \in DOMAIN d => ~Holds(d)
  /\ armed' = [c \in Coroutines |-> armed[c] \cup later[c]]
  /\ later' = [c \in Coroutines |-> {}]
  /\ seen' = Nothing
  /\ UNCHANGED <<phase, result, clock>>

Next ==
  \/ \E c \in Coroutines :
       \/ Begin(c) \/ End(c) \/ Sleep(c) \/ Disarm(c)
       \/ \E n \in Delays : AwaitDelay(c, n)
       \/ \E s \in Signals, ty \in Edge : AwaitEdge(c, s, ty)
       \/ \E cond \in armed[c] : Wake(c, cond)
  \/ \E s \in Signals : Forget(s)
  \/ Tick
  \/ seen' \in Observations /\ Observe(seen')
  \/ EndObservation

Spec == Init /\ [][Next]_vars
=============================================================================
