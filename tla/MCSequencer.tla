---------------------------- MODULE MCSequencer ----------------------------
(* Sequencer on small instances.  One clock unit stands for one block time *)
(* in the runs; the limits keep their order: a time shift limit of 1 plus  *)
(* a stall of 1 plus one block time is exactly the largest time shift.     *)
EXTENDS Sequencer

Sizes == {0, 2}
=============================================================================
