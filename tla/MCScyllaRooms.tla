---------------------------- MODULE MCScyllaRooms ----------------------------
(* Two users, two ids for rooms, one message, two requests at a time.        *)
EXTENDS ScyllaRooms, TLC

RoomSymmetry == Permutations(Rooms) \cup Permutations(Callers)
=============================================================================
