-------------------------- MODULE MCSessionRegistry --------------------------
(* Instances of SessionRegistry for TLC.                                   *)
EXTENDS SessionRegistry, TLC

CONSTANTS a, b, r1, r2, r3

(* Two sessions may be made on target a, one on target b.                  *)
HomeOnTwo == [r \in Remotes |-> IF r = r3 THEN b ELSE a]
HomeOnOne == [r \in Remotes |-> a]

Symmetry == Permutations(Calls) \cup Permutations(Names) \cup Permutations(Handles) \cup
            Permutations(Remotes \ {r3})
=============================================================================
