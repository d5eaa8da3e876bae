----------------------- MODULE MCSCQueueSynchronizer -----------------------
(* Finite instances of SCQueueSynchronizer for TLC. *)
EXTENDS SCQueueSynchronizer, TLC

ProducerSymmetry == Permutations(Producers)
=============================================================================
