CONSTANTS
  Rooms = {r1}
  Writers = {w1, w2}
  TicksPerSecond = 2
  MaxTime = 4
  MaxVersion = 3
  NoRoom = NoRoom
SPECIFICATION Spec
SYMMETRY Symmetry
INVARIANTS TypeOK RoomsCatchUp RemovalsCatchUp
CHECK_DEADLOCK FALSE
