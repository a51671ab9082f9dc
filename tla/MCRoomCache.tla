----------------------------- MODULE MCRoomCache -----------------------------
(* Small instances of RoomCache: the values of InstanceOf, and the symmetry  *)
(* of the runs without fairness.  Savers and Instances are not symmetric:    *)
(* InstanceOf tells them apart.                                              *)
EXTENDS RoomCache, TLC

Symmetry == Permutations(Keys) \cup Permutations(Fills) \cup Permutations(Writers)

\* All SaveMessage calls in one process.
OneInstance == [s \in Savers |-> CHOOSE i \in Instances : TRUE]

==============================================================================
