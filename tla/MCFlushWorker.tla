---------------------------- MODULE MCFlushWorker ----------------------------
(* Model values for checking FlushWorker with TLC. *)
EXTENDS FlushWorker

CONSTANTS c1, c2

OneCaller == {c1}
TwoCallers == {c1, c2}
=============================================================================
