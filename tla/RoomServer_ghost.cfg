CONSTANTS
  UID = {u1}
  Session = {s1, s2, s3}
  RoomId = {a, b}
  NoUid = NoUid
  NoSession = NoSession
  NoRoom = NoRoom
  Starter = {}
  MaxRooms = 3
  MaxTokens = 3
SPECIFICATION Spec
INVARIANT SeatsHeld
CHECK_DEADLOCK FALSE
