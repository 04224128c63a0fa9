----------------------------- MODULE MCScheduler -----------------------------
(* Instances of the scheduler for TLC. *)
EXTENDS Scheduler, TLC

CONSTANTS clk, q, in, out

\* A clock the testbench drives and an output of the DUT.
MCCellOf == (clk :> in) @@ (q :> out)
MCBound == <<clk, q>>
ClockOnly == <<clk>>
OnClock == {<<clk, "POSEDGE">>}
=============================================================================
