CONSTANTS
  UID = {u1}
  Session = {s1, s2, s3}
  RoomId = {a}
  NoUid = NoUid
  NoSession = NoSession
  NoRoom = NoRoom
  Starter = {s1}
  MaxRooms = 2
  MaxTokens = 2
SPECIFICATION FairSpec
INVARIANT SeatsHeld
PROPERTY AbsenceEnds
CHECK_DEADLOCK FALSE
