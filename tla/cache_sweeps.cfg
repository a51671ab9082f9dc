CONSTANTS
  Keys = {k1, k2}
  Fills = {f1}
  Writers = {}
  Savers = {s1, s2}
  Instances = {i1}
  InstanceOf <- OneInstance
  RedisFaults = TRUE
  RowsLate = TRUE
  MaxChanges = 0
  MaxMessages = 2
  Nothing = Nothing
SPECIFICATION FairSpec
INVARIANTS LastMessageCurrent SweepExclusive
PROPERTY SavesEnd
