---------------------------- MODULE MCWaitEngine ----------------------------
(* Instances of the wait machinery for TLC. *)
EXTENDS WaitRefinement, TLC

\* Coroutines and signals are interchangeable: no action orders them.
MCSymmetry == Permutations(Coroutines) \cup Permutations(Signals)
=============================================================================
