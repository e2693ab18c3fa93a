--------------------------- MODULE MCForwardManager ---------------------------
(* Instances of ForwardManager for TLC.                                    *)
EXTENDS ForwardManager, TLC

Symmetry == Permutations(Calls) \cup Permutations(Fwds) \cup Permutations(Pids) \cup Permutations(Ports)
=============================================================================
