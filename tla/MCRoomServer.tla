---------------------------- MODULE MCRoomServer ----------------------------
EXTENDS RoomServer, TLC

Symmetry == Permutations(UID) \cup Permutations(Session) \cup Permutations(RoomId)
=============================================================================
