CONSTANTS
  Users = {u1, u2, u3, u4}
  Messages = {m1}
  Callers = {c1}
  BatchSize = 2
  NoUser = NoUser
SPECIFICATION FairSpec
INVARIANT MissingRowsExplained
PROPERTIES ReceiptsNeverLost FanoutEnds
