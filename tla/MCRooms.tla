------------------------------- MODULE MCRooms -------------------------------
(* Small instances of Rooms.                                                 *)
EXTENDS Rooms, TLC

Symmetry == Permutations(RoomIds) \cup Permutations(Callers)
            \cup Permutations(Users)
==============================================================================
