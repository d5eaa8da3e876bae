--------------------------- MODULE MCDevMemAlloc ----------------------------
(* Small instances of the device memory allocator for TLC.                 *)
EXTENDS DevMemAlloc, TLC

Symmetry == Permutations(Streams) \cup Permutations(Threads)

=============================================================================
