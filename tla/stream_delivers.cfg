SPECIFICATION FairSpec
CONSTANTS
  Rooms = {r1}
  MaxEvents = 1
  MaxContexts = 3
  MaxSessions = 3
  PerSubject = 1
  Direct = Direct
  Nothing = Nothing
PROPERTY EventsGetThrough
