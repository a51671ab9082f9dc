CONSTANTS
  Users = {u1, u2}
  Messages = {m1, m2}
  Callers = {c1}
  BatchSize = 2
  NoUser = NoUser
SPECIFICATION Spec
SYMMETRY Symmetry
INVARIANTS TypeOK MarkedCovers ReceiptImpliesStatus AnnouncedAreRead
