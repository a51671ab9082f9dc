CONSTANTS
  Keys = {k1, k2}
  Fills = {f1}
  Writers = {w1, w2}
  Savers = {s1}
  Instances = {i1}
  InstanceOf <- OneInstance
  RedisFaults = TRUE
  RowsLate = FALSE
  MaxChanges = 2
  MaxMessages = 1
  Nothing = Nothing
SPECIFICATION Spec
SYMMETRY Symmetry
INVARIANTS TypeOK FreshUnlessSuspect LastMessageCurrent
