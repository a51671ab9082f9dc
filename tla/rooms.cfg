CONSTANTS
  Users = {u1, u2}
  RoomIds = {r1, r2}
  Callers = {c1, c2}
  MaxRequests = 2
  Grants = {{}, {"add_member", "edit_group"}}
  NoRoom = NoRoom
  NoUser = NoUser
SPECIFICATION Spec
SYMMETRY Symmetry
INVARIANTS TypeOK PairHasOneRoom MembersWereTold TopicFollowsMutes ActsWithinRights
PROPERTY TogglesTurn
CHECK_DEADLOCK FALSE
