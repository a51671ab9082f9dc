CONSTANTS
  Rooms = {r1}
  Messages = {m1, m2}
  Writers = {w1, w2}
  PerRoom = 1
  TicksPerSecond = 2
  MaxTime = 4
  MaxVersion = 2
  NoMessage = NoMessage
  NoRoom = NoRoom
SPECIFICATION Spec
SYMMETRY Symmetry
INVARIANTS TypeOK SyncCatchesUp
