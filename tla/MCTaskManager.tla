---------------------------- MODULE MCTaskManager ----------------------------
(* Instances of TaskManager for TLC.                                       *)
EXTENDS TaskManager, TLC

Symmetry == Permutations(Calls) \cup Permutations(Tasks) \cup
            Permutations(Remotes) \cup Permutations(Handles)
=============================================================================
