SPECIFICATION Spec
CONSTANTS
  Items = {i1, i2, i3}
  Ranks = {1, 2, 3}
  MaxLimit = 2
  MaxChanges = 2
  Word = 16
  NoItem = NoItem
  Block = 2
  TopByte = 3
  Keys <- MCKeys
  Ivs <- MCIvs
  Messages <- MCMessages
CHECK_DEADLOCK FALSE
INVARIANTS
  TypeOK
  NothingSkipped
  CursorHasNoHoles
PROPERTY WalkEnds
