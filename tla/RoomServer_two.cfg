CONSTANTS
  UID = {u1, u2}
  Session = {s1, s2, s3}
  RoomId = {a, b}
  NoUid = NoUid
  NoSession = NoSession
  NoRoom = NoRoom
  Starter = {}
  MaxRooms = 2
  MaxTokens = 3
SPECIFICATION Spec
SYMMETRY Symmetry
INVARIANTS TypeOK GroupSound TombstoneMatchesToken TrackedIsLive
PROPERTY OrphanedByLeaveOnly
CHECK_DEADLOCK FALSE
