SPECIFICATION Spec
CONSTANTS
  Users = {1, 2}
  Rooms = {r1, r2}
  Messages = {m1}
  Callers = {c1}
  MaxRequests = 1
  MaxTime = 2
  NoRoom = NoRoom
  NoMessage = NoMessage
  Gone = Gone
SYMMETRY RoomSymmetry
CHECK_DEADLOCK FALSE
INVARIANT PairCanMeetAgain
