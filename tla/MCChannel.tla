----------------------------- MODULE MCChannel ------------------------------
(* Finite instances of Channel for TLC. *)
EXTENDS ChannelInvariant, TLC

\* two values that the operator exchanges
Flip(v) == 1 - v

TensorSymmetry == Permutations(Tensors)

DtrFailMode == {[dtr |-> TRUE, disable |-> FALSE, fail |-> TRUE, level |-> 2]}
DisableMode == {[dtr |-> TRUE, disable |-> TRUE, fail |-> FALSE, level |-> 1]}
FailMode == {[dtr |-> FALSE, disable |-> FALSE, fail |-> TRUE, level |-> 2]}
SyncFailMode == {[dtr |-> FALSE, disable |-> FALSE, fail |-> TRUE, level |-> 0]}

SafetyModes == DtrFailMode \cup DisableMode
LiveModes == DtrFailMode \cup DisableMode \cup SyncFailMode
=============================================================================
