SPECIFICATION Spec
CONSTANTS
  Rooms = {r1}
  MaxEvents = 2
  MaxContexts = 3
  MaxSessions = 2
  PerSubject = 1
  Direct = Direct
  Nothing = Nothing
INVARIANTS TypeOK OnlyOrphansOutlive FollowsItsRooms
PROPERTIES GivenUpForAReason IsMailbox
