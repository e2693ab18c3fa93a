---------------------------- MODULE MCSshMultiplex ----------------------------
(* Instances of SshMultiplex for TLC.                                      *)
EXTENDS SshMultiplex, TLC

Symmetry == Permutations(Calls) \cup Permutations(Targets \ Inherited)
=============================================================================
