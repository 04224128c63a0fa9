--------------------------- MODULE WaitRefinement ---------------------------
(***************************************************************************)
(* The wait machinery implements AwaitContract.  The conditions of a       *)
(* coroutine are read off the tickets with a valid token, wherever they    *)
(* are queued: what is armed in the timer queue and in watches_, what is   *)
(* armed for later in pending_.                                            *)
(***************************************************************************)
EXTENDS WaitEngine

PhaseOf(st) ==
  CASE st = "unborn"    -> "unborn"
    [] st = "running"   -> "awake"
    [] st = "awaiting"  -> "arming"
    [] st = "suspended" -> "waiting"
    [] OTHER            -> "over"

Mine(c, q, good) == {e \in Range(q) : e.h = c /\ e.tok \in good}
DelayConds(c, q, good) == {[at |-> e.deadline, idx |-> e.idx] : e \in Mine(c, q, good)}
EdgeConds(c, table, good) ==
  UNION {{[sig |-> s, edge |-> e.type, idx |-> e.idx] : e \in Mine(c, table[s], good)} :
           s \in Signals}

Phases == [c \in Coroutines |-> PhaseOf(status[c])]
Armed == [c \in Coroutines |-> DelayConds(c, timers, valid) \cup EdgeConds(c, watches, valid)]
Later == [c \in Coroutines |-> EdgeConds(c, parked, valid)]
Shown == UNION {{changed[i].sig} \X changed[i].trig : i \in DOMAIN changed}

Contract == INSTANCE AwaitContract WITH
  Delays <- Intervals,
  phase  <- Phases,
  armed  <- Armed,
  later  <- Later,
  result <- which,
  clock  <- now,
  seen   <- Shown

\* co_await, delay(), posedge() and any() keep the contract through every
\* interleaving of wake-ups, spawns, cancellations and re-arming.
ImplementsAwaitContract == Contract!Spec
=============================================================================
