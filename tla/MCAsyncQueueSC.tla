--------------------------- MODULE MCAsyncQueueSC ---------------------------
(* Finite instances of AsyncQueueSC for TLC. *)
EXTENDS AsyncQueueSC, TLC

ProducerSymmetry == Permutations(Producers)
=============================================================================
