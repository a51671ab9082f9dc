------------------------------ MODULE MCRoomSync ------------------------------
(* Small instances of RoomSync.                                              *)
EXTENDS RoomSync, TLC

Symmetry == Permutations(Writers)
==============================================================================
