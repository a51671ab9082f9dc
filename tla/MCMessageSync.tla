---------------------------- MODULE MCMessageSync ----------------------------
(* Small instances of MessageSync.                                           *)
EXTENDS MessageSync, TLC

Symmetry == Permutations(Rooms) \cup Permutations(Messages)
            \cup Permutations(Writers)
==============================================================================
