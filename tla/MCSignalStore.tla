---------------------------- MODULE MCSignalStore ----------------------------
(* Instances of the signal store for TLC. *)
EXTENDS SignalStore, TLC

CONSTANTS s1, s2, x, y

\* A byte signal on a testbench input and a wide one, each on its own cell.
OwnCells == (s1 :> x) @@ (s2 :> y)
=============================================================================
