---------------------------- MODULE MCAsyncFifo ----------------------------
(* Instances of the asynchronous FIFO and its bench for TLC. *)
EXTENDS AsyncFifoBench

\* The Gray code of every width up to that of the examples, 16 words deep.
Width(w) == INSTANCE AsyncFifo WITH DEPTH <- 2 ^ w, AWID <- w
ASSUME GrayCodes == \A w \in 1 .. 5 : Width(w)!GrayCode
=============================================================================
