-------------------------- MODULE RoomServer_proofs --------------------------
(***************************************************************************)
(* Proofs about RoomServer, for any number of accounts, sessions, rooms    *)
(* and tokens: TypeOK, GroupSound, TombstoneMatchesToken and TrackedIsLive *)
(* always hold; a seat is orphaned by a leave of another room only, so     *)
(* SeatsHeld holds where there is no such leave, as with one room id, and  *)
(* then an absent player never waits for another one.                      *)
(*                                                                         *)
(* None but TypeOK is inductive: a handler in flight carries a session, a  *)
(* room object and a token from one step to a later one, while the sweeper *)
(* runs between them.  IInv says what is still true of those when they are *)
(* used.                                                                   *)
(***************************************************************************)
EXTENDS RoomServer, TLAPS

\* What the locals of the handler in flight hold, by the place it has reached.
TaskOK ==
  /\ task.pc # "idle" => task.s \in Session /\ task.u \in UID /\ task.id \in RoomId
  /\ task.pc \in {"leave_reap", "enter", "enrol", "drop_group", "resume_bind"} => task.r \in Room
  /\ task.next # "idle" => task.to \in RoomId /\ task.pc \in {"leave_room", "leave_reap"}
  /\ task.pc \in {"resume_lookup", "resume_bind"} => task.tok \in Token
  /\ task.next # "idle" \/ task.pc \in {"join_lookup", "create_room"} => roomCount < MaxRooms
  /\ evict # noEvict => evict.r \in Room /\ evict.id \in RoomId

\* Whose session the handler works for.
TaskSession ==
  /\ task.pc \notin {"idle", "drop_group"} => Live(task.s)
  /\ task.pc = "drop_group" => ~Live(task.s)
  /\ task.pc \notin {"idle", "resume_lookup", "resume_bind"} => uid[task.s] = task.u
  /\ task.pc \in {"resume_lookup", "resume_bind"} => uid[task.s] \in {NoUid, task.u}
  /\ task.pc \in {"leave_room", "enrol"} => room_id[task.s] = task.id
  /\ \A s \in Session : room_id[s] # NoRoom => uid[s] \in UID

\* An object is registered under one id, from its allocation on and never again.
RegistryOK ==
  /\ \A id \in RoomId : rooms[id] <= roomCount
  /\ \A i, j \in RoomId : rooms[i] = rooms[j] /\ rooms[i] # 0 => i = j
  /\ \A r \in Room : r > roomCount => Group[r] = {} /\ Players[r] = {}
  /\ task.r <= roomCount /\ evict.r <= roomCount
  /\ task.pc \in {"leave_reap", "enter", "enrol", "drop_group", "resume_bind"} =>
       /\ \A id \in RoomId : rooms[id] = task.r => id = task.id
       /\ rooms[task.id] \in {0, task.r}

\* Where the session of the handler in flight can be found.
TaskGroup ==
  /\ task.pc \in {"leave_reap", "join_lookup", "create_room", "enter", "resume_lookup",
                  "resume_bind"} =>
       \A id \in RoomId : rooms[id] # 0 => task.s \notin Group[rooms[id]]
  /\ task.pc = "enrol" => task.s \in Group[task.r]
  /\ task.pc = "drop_group" =>
       \A id \in RoomId : rooms[id] # 0 /\ task.s \in Group[rooms[id]] => rooms[id] = task.r

\* A token in use was generated, and was generated for the player and room it is used for.
Covers(t, u, id) == t <= tokenCount /\ token[t].uid = u /\ token[t].room = id

TokensOK ==
  /\ \A s \in Session : resume_token[s] <= tokenCount
  /\ \A x \in tombstones : Covers(x.tok, x.uid, x.room)
  /\ task.pc \in {"resume_lookup", "resume_bind"} => Covers(task.tok, task.u, task.id)
  /\ \A s \in Session :
       Live(s) /\ room_id[s] # NoRoom /\ resume_token[s] # 0
       /\ ~(task.pc = "enrol" /\ task.s = s)
       => Covers(resume_token[s], uid[s], room_id[s])

IInv ==
  /\ TypeOK /\ TaskOK /\ TaskSession /\ RegistryOK /\ TaskGroup
  /\ GroupSound /\ TokensOK /\ TrackedIsLive

USE DEF sessionVars, memberVars, matchVars, tokenVars, sweepVars

\* A step that leaves connections, uids and the uid index alone keeps the index sound.
LEMMA TrackedKept ==
  ASSUME TrackedIsLive, UNCHANGED <<conn, uid, uidToSession>>
  PROVE  TrackedIsLive'
  BY DEF TrackedIsLive, Live

\* Generate fills the next token and no other one: a token in use keeps its contents.
LEMMA GenerateFresh ==
  ASSUME TypeOK, NEW u \in UID, NEW id \in RoomId, NEW b \in BOOLEAN, Generate(u, id, b)
  PROVE  /\ tokenCount + 1 \in Token /\ tokenCount' = tokenCount + 1
         /\ token' \in [Token -> TokenData]
         /\ token'[tokenCount + 1] = [uid |-> u, room |-> id, sent |-> b]
         /\ \A t \in Token : t <= tokenCount => token'[t] = token[t]
  BY ConstantsAssumption DEF TypeOK, Generate, Token, TokenData

\* RemovePlayer takes accounts out of rooms and never puts one in.
LEMMA RemovePlayerType ==
  ASSUME TypeOK, NEW r \in Room, NEW u, RemovePlayer(r, u)
  PROVE  /\ Players' \in [Room -> SUBSET UID]
         /\ HostUID' \in [Room -> UID \cup {NoUid}]
         /\ \A q \in Room : Players'[q] \subseteq Players[q]
  BY DEF TypeOK, RemovePlayer, NextHosts

\* The steps of Next preserve IInv, one lemma for each.  Time passes.
LEMMA TickStep ==
  ASSUME IInv, Tick
  PROVE  IInv'
<1>1. TypeOK'
  BY DEF IInv, TypeOK, Tick
<1>2. TaskOK'
  BY DEF IInv, TaskOK, Tick
<1>3. TaskSession'
  BY DEF IInv, TaskSession, Tick, Live
<1>4. RegistryOK'
  BY DEF IInv, RegistryOK, Tick
<1>5. TaskGroup'
  BY DEF IInv, TaskGroup, Tick
<1>6. GroupSound'
  BY DEF IInv, GroupSound, Tick, Live
<1>7. TokensOK'
  BY DEF IInv, TokensOK, Tick, Covers, Live
<1>8. TrackedIsLive'
  BY TrackedKept DEF IInv, Tick
<1> QED
  BY <1>1, <1>2, <1>3, <1>4, <1>5, <1>6, <1>7, <1>8 DEF IInv

\* A second login kicks the first session; the session it replaces is not the one that works.
LEMMA AuthStep ==
  ASSUME NEW s \in Session, NEW u \in UID, IInv, Auth(s, u)
  PROVE  IInv'
<1>1. TypeOK'
  BY DEF IInv, TypeOK, Auth
<1>2. TaskOK'
  BY DEF IInv, TaskOK, Auth
<1>3. TaskSession'
  BY DEF IInv, TaskSession, Auth, Ready
<1>4. RegistryOK'
  BY DEF IInv, RegistryOK, Auth
<1>5. TaskGroup'
  BY DEF IInv, TaskGroup, Auth
<1>6. GroupSound'
  BY DEF IInv, GroupSound, Auth, Ready, Live
<1>7. TokensOK'
  <2>1. ASSUME NEW q \in Session, Live(q)' PROVE Live(q)
    <3>1. CASE uidToSession[u] \in Session \ {s}
      <4>1. conn' = [conn EXCEPT ![uidToSession[u]] = "kicked"]
        BY <3>1 DEF Auth
      <4>2. Live(uidToSession[u])
        BY <3>1, ConstantsAssumption DEF IInv, TrackedIsLive
      <4> QED
        BY <2>1, <4>1, <4>2 DEF IInv, Live
    <3>2. CASE uidToSession[u] \notin Session \ {s}
      BY <2>1, <3>2 DEF Auth, Live
    <3> QED
      BY <3>1, <3>2
  <2>2. \A q \in Session : room_id[q] # NoRoom => uid'[q] = uid[q]
    BY ConstantsAssumption DEF IInv, TaskSession, Auth
  <2> QED
    BY <2>1, <2>2 DEF IInv, TokensOK, Covers, Auth
<1>8. TrackedIsLive'
  BY ConstantsAssumption DEF IInv, TypeOK, TrackedIsLive, Auth, Live
<1> QED
  BY <1>1, <1>2, <1>3, <1>4, <1>5, <1>6, <1>7, <1>8 DEF IInv

\* Leave starts the handler: the session is still in its room.
LEMMA LeaveStep ==
  ASSUME NEW s \in Session, IInv, Leave(s)
  PROVE  IInv'
<1>1. task' = [idle EXCEPT !.pc = "leave_room", !.s = s, !.u = uid[s], !.id = room_id[s],
                           !.next = "idle", !.to = NoRoom]
  BY DEF Leave, BeginLeave
<1>2. task' \in Task
  BY <1>1 DEF IInv, TypeOK, Leave, Task, idle
<1>3. TypeOK'
  BY <1>2 DEF IInv, TypeOK, Leave, BeginLeave, DropTombstones
<1>4. TaskOK'
  BY <1>1 DEF IInv, TypeOK, TaskOK, Leave
<1>5. TaskSession'
  BY <1>1 DEF IInv, TaskSession, Leave, Ready, Live
<1>6. RegistryOK'
  BY <1>1 DEF IInv, TypeOK, RegistryOK, Leave, Room, idle
<1>7. TaskGroup'
  BY <1>1 DEF IInv, TaskGroup, Leave
<1>8. GroupSound'
  BY <1>1 DEF IInv, GroupSound, Leave, Ready, Live
<1>9. TokensOK'
  BY <1>1 DEF IInv, TokensOK, Leave, BeginLeave, DropTombstones, Ready, Covers, Live
<1>10. TrackedIsLive'
  BY TrackedKept DEF IInv, Leave
<1> QED
  BY <1>3, <1>4, <1>5, <1>6, <1>7, <1>8, <1>9, <1>10 DEF IInv

\* The session leaves the group before the room is looked at again: a lost room skips both.
LEMMA LeaveRoomStep ==
  ASSUME IInv, LeaveRoom
  PROVE  IInv'
<1>1. CASE rooms[task.id] # 0
  <2>1. task' = [task EXCEPT !.pc = "leave_reap", !.r = rooms[task.id]]
    BY <1>1 DEF LeaveRoom
  <2>2. task' \in Task /\ task'.pc = "leave_reap" /\ task'.s = task.s /\ task'.u = task.u
        /\ task'.id = task.id /\ task'.r = rooms[task.id] /\ task'.next = task.next
        /\ task'.to = task.to
    BY <1>1, <2>1 DEF IInv, TypeOK, TaskOK, LeaveRoom, Task
  <2>3. /\ task.pc = "leave_room" /\ task.id \in RoomId /\ rooms[task.id] \in Room
        /\ RemovePlayer(rooms[task.id], task.u)
        /\ Group' = [Group EXCEPT ![rooms[task.id]] = @ \ {task.s}]
        /\ room_id' = [room_id EXCEPT ![task.s] = NoRoom]
    BY <1>1 DEF IInv, TypeOK, TaskOK, LeaveRoom
  <2>4. TypeOK'
    BY <2>2, <2>3, RemovePlayerType DEF IInv, TypeOK, LeaveRoom
  <2>5. TaskOK'
    BY <1>1, <2>2 DEF IInv, TypeOK, TaskOK, LeaveRoom
  <2>6. TaskSession'
    BY <1>1, <2>2 DEF IInv, TypeOK, TaskSession, LeaveRoom, Live
  <2>7. RegistryOK'
    <3>1. /\ \A q \in Room : Group'[q] \subseteq Group[q] /\ Players'[q] \subseteq Players[q]
          /\ UNCHANGED <<rooms, roomCount, evict>>
      BY <2>3, RemovePlayerType DEF IInv, LeaveRoom
    <3> QED
      BY <2>2, <2>3, <3>1 DEF IInv, RegistryOK, Room
  <2>8. TaskGroup'
    BY <1>1, <2>2 DEF IInv, TypeOK, TaskSession, TaskGroup, GroupSound, LeaveRoom
  <2>9. GroupSound'
    BY <1>1, <2>2 DEF IInv, TypeOK, TaskSession, GroupSound, LeaveRoom, Live
  <2>10. TokensOK'
    BY <1>1, <2>2 DEF IInv, TypeOK, TokensOK, LeaveRoom, Covers, Live
  <2>11. TrackedIsLive'
    BY TrackedKept DEF IInv, LeaveRoom
  <2> QED
    BY <2>4, <2>5, <2>6, <2>7, <2>8, <2>9, <2>10, <2>11 DEF IInv
<1>2. CASE rooms[task.id] = 0 /\ task.next = "idle"
  <2>1. task' = idle
    BY <1>2 DEF LeaveRoom, AfterLeave
  <2>2. TypeOK'
    BY <1>2, <2>1 DEF IInv, TypeOK, LeaveRoom, Task, idle
  <2>3. TaskOK'
    BY <1>2, <2>1 DEF IInv, TaskOK, LeaveRoom, idle
  <2>4. TaskSession'
    BY <1>2, <2>1 DEF IInv, TaskSession, LeaveRoom, idle
  <2>5. RegistryOK'
    BY <1>2, <2>1 DEF IInv, TypeOK, RegistryOK, LeaveRoom, Room, idle
  <2>6. TaskGroup'
    BY <1>2, <2>1 DEF IInv, TaskGroup, LeaveRoom, idle
  <2>7. GroupSound'
    BY <1>2, <2>1 DEF IInv, GroupSound, LeaveRoom, Live
  <2>8. TokensOK'
    BY <1>2, <2>1 DEF IInv, TokensOK, LeaveRoom, Covers, idle, Live
  <2>9. TrackedIsLive'
    BY TrackedKept DEF IInv, LeaveRoom
  <2> QED
    BY <2>2, <2>3, <2>4, <2>5, <2>6, <2>7, <2>8, <2>9 DEF IInv
<1>3. CASE rooms[task.id] = 0 /\ task.next # "idle"
  <2>1. task' = [idle EXCEPT !.pc = task.next, !.s = task.s, !.u = task.u, !.id = task.to]
    BY <1>3 DEF LeaveRoom, AfterLeave
  <2>2. /\ task.next \in {"join_lookup", "create_room"}
         /\ task.s \in Session /\ task.u \in UID /\ task.to \in RoomId
    BY <1>3 DEF IInv, TypeOK, TaskOK, Task, LeaveRoom
  <2>3. task' \in Task
    BY <2>1, <2>2 DEF Task, idle
  <2>4. task'.pc = task.next /\ task'.s = task.s /\ task'.u = task.u /\ task'.id = task.to
        /\ task'.r = 0
        /\ task'.next = "idle"
    BY <2>1 DEF idle
  <2>5. TypeOK'
    BY <1>3, <2>3, <2>4 DEF IInv, TypeOK, LeaveRoom
  <2>6. TaskOK'
    BY <1>3, <2>3, <2>4 DEF IInv, TypeOK, TaskOK, LeaveRoom, Task
  <2>7. TaskSession'
    BY <1>3, <2>3, <2>4 DEF IInv, TypeOK, TaskSession, LeaveRoom, Task, Live
  <2>8. RegistryOK'
    BY <1>3, <2>3, <2>4 DEF IInv, TypeOK, TaskOK, RegistryOK, LeaveRoom, Task
  <2>9. TaskGroup'
    BY <1>3, <2>3, <2>4 DEF IInv, TypeOK, TaskSession, TaskGroup, GroupSound, LeaveRoom, Task
  <2>10. GroupSound'
    BY <1>3, <2>3, <2>4 DEF IInv, GroupSound, LeaveRoom, Live
  <2>11. TokensOK'
    BY <1>3, <2>3, <2>4 DEF IInv, TypeOK, TokensOK, LeaveRoom, Covers, Task, Live
  <2>12. TrackedIsLive'
    BY TrackedKept DEF IInv, LeaveRoom
  <2> QED
    BY <2>5, <2>6, <2>7, <2>8, <2>9, <2>10, <2>11, <2>12 DEF IInv
<1> QED
  BY <1>1, <1>2, <1>3

\* Reaping deletes at most the id the session has just left.
LEMMA LeaveReapStep ==
  ASSUME IInv, LeaveReap
  PROVE  IInv'
<1>1. CASE task.next = "idle"
  <2>1. task' = idle
    BY <1>1 DEF LeaveReap, AfterLeave
  <2>2. TypeOK'
    BY <1>1, <2>1 DEF IInv, TypeOK, TaskOK, LeaveReap, Reap, Task, idle
  <2>3. TaskOK'
    BY <1>1, <2>1 DEF IInv, TaskOK, LeaveReap, Reap, idle
  <2>4. TaskSession'
    BY <1>1, <2>1 DEF IInv, TaskSession, LeaveReap, Reap, idle
  <2>5. RegistryOK'
    BY <1>1, <2>1 DEF IInv, TypeOK, RegistryOK, LeaveReap, Reap, Room, idle
  <2>6. TaskGroup'
    BY <1>1, <2>1 DEF IInv, TaskGroup, LeaveReap, Reap, idle
  <2>7. GroupSound'
    BY <1>1, <2>1 DEF IInv, GroupSound, LeaveReap, Reap, Live
  <2>8. TokensOK'
    BY <1>1, <2>1 DEF IInv, TokensOK, LeaveReap, Reap, Covers, idle, Live
  <2>9. TrackedIsLive'
    BY TrackedKept DEF IInv, LeaveReap
  <2> QED
    BY <2>2, <2>3, <2>4, <2>5, <2>6, <2>7, <2>8, <2>9 DEF IInv
<1>2. CASE task.next # "idle"
  <2>1. task' = [idle EXCEPT !.pc = task.next, !.s = task.s, !.u = task.u, !.id = task.to]
    BY <1>2 DEF LeaveReap, AfterLeave
  <2>2. task' \in Task /\ task'.pc = task.next /\ task'.s = task.s /\ task'.u = task.u
        /\ task'.id = task.to /\ task'.r = 0 /\ task'.next = "idle"
    BY <1>2, <2>1 DEF IInv, TypeOK, LeaveReap, Task, idle
  <2>3. TypeOK'
    BY <1>2, <2>2 DEF IInv, TypeOK, LeaveReap, Reap
  <2>4. TaskOK'
    BY <1>2, <2>2 DEF IInv, TypeOK, TaskOK, LeaveReap, Reap, Task
  <2>5. TaskSession'
    BY <1>2, <2>2 DEF IInv, TypeOK, TaskSession, LeaveReap, Reap, Task, Live
  <2>6. RegistryOK'
    BY <1>2, <2>2 DEF IInv, TypeOK, RegistryOK, LeaveReap, Reap, Room, Task
  <2>7. TaskGroup'
    BY <1>2, <2>2 DEF IInv, TypeOK, TaskGroup, LeaveReap, Reap, Task
  <2>8. GroupSound'
    BY <1>2, <2>2 DEF IInv, GroupSound, LeaveReap, Reap, Live
  <2>9. TokensOK'
    BY <1>2, <2>2 DEF IInv, TypeOK, TokensOK, LeaveReap, Reap, Covers, Task, Live
  <2>10. TrackedIsLive'
    BY TrackedKept DEF IInv, LeaveReap
  <2> QED
    BY <2>3, <2>4, <2>5, <2>6, <2>7, <2>8, <2>9, <2>10 DEF IInv
<1> QED
  BY <1>1, <1>2

\* Join and Create begin with a Leave when the session is in another room.
LEMMA EnterStep ==
  ASSUME NEW s \in Session, NEW id \in RoomId, NEW pc \in {"join_lookup", "create_room"}, IInv,
         Enter(s, id, pc)
  PROVE  IInv'
<1>1. CASE room_id[s] # NoRoom
  <2>1. task' = [idle EXCEPT !.pc = "leave_room", !.s = s, !.u = uid[s], !.id = room_id[s],
                             !.next = pc, !.to = id]
    BY <1>1 DEF Enter, BeginLeave
  <2>2. task' \in Task /\ task'.pc = "leave_room" /\ task'.s = s /\ task'.u = uid[s]
        /\ task'.id = room_id[s] /\ task'.r = 0 /\ task'.next = pc /\ task'.to = id
    BY <1>1, <2>1 DEF IInv, TypeOK, Enter, Task, idle
  <2>3. TypeOK'
    BY <1>1, <2>2 DEF IInv, TypeOK, Enter, BeginLeave, DropTombstones
  <2>4. TaskOK'
    BY <1>1, <2>2 DEF IInv, TypeOK, TaskOK, Enter
  <2>5. TaskSession'
    BY <1>1, <2>2 DEF IInv, TaskSession, Enter, Ready, Live
  <2>6. RegistryOK'
    BY <1>1, <2>2 DEF IInv, TypeOK, RegistryOK, Enter, Room
  <2>7. TaskGroup'
    BY <1>1, <2>2 DEF IInv, TaskGroup, Enter
  <2>8. GroupSound'
    BY <1>1, <2>2 DEF IInv, GroupSound, Enter, Ready, Live
  <2>9. TokensOK'
    BY <1>1, <2>2 DEF IInv, TokensOK, Enter, BeginLeave, DropTombstones, Ready, Covers, Live
  <2>10. TrackedIsLive'
    BY TrackedKept DEF IInv, Enter
  <2> QED
    BY <2>3, <2>4, <2>5, <2>6, <2>7, <2>8, <2>9, <2>10 DEF IInv
<1>2. CASE room_id[s] = NoRoom
  <2>1. task' = [idle EXCEPT !.pc = pc, !.s = s, !.u = uid[s], !.id = id]
    BY <1>2 DEF Enter
  <2>2. uid[s] \in UID /\ s \in Session /\ id \in RoomId
    BY DEF IInv, TypeOK, Enter
  <2>3. task' \in Task
    BY <2>2, <2>1 DEF IInv, Task, idle
  <2>4. task'.pc = pc /\ task'.s = s /\ task'.u = uid[s] /\ task'.id = id /\ task'.r = 0
        /\ task'.next = "idle"
    BY <2>1 DEF idle
  <2>5. TypeOK'
    BY <1>2, <2>3, <2>4 DEF IInv, TypeOK, Enter
  <2>6. TaskOK'
    BY <1>2, <2>3, <2>4 DEF IInv, TypeOK, TaskOK, Enter
  <2>7. TaskSession'
    BY <1>2, <2>3, <2>4 DEF IInv, TaskSession, Enter, Ready, Live
  <2>8. RegistryOK'
    BY <1>2, <2>3, <2>4 DEF IInv, TypeOK, RegistryOK, Enter, Room
  <2>9. TaskGroup'
    BY <1>2, <2>3, <2>4, ConstantsAssumption DEF IInv, TaskGroup, GroupSound, Enter, Ready
  <2>10. GroupSound'
    BY <1>2, <2>3, <2>4 DEF IInv, GroupSound, Enter, Ready, Live
  <2>11. TokensOK'
    BY <1>2, <2>3, <2>4 DEF IInv, TokensOK, Enter, Ready, Covers, Live
  <2>12. TrackedIsLive'
    BY TrackedKept DEF IInv, Enter
  <2> QED
    BY <2>5, <2>6, <2>7, <2>8, <2>9, <2>10, <2>11, <2>12 DEF IInv
<1> QED
  BY <1>1, <1>2

\* A new room object is the next one allocated, so no other id has it.
LEMMA NewRoomStep ==
  ASSUME NEW host \in UID \cup {NoUid}, IInv, task.pc \in {"join_lookup", "create_room"},
         NewRoom(task.id, host),
         UNCHANGED <<sessionVars, matchVars, tokenVars, tombstones, now, sweepVars>>
  PROVE  IInv'
<1>1. roomCount + 1 \in Room /\ task.id \in RoomId /\ task.s \in Session
  BY ConstantsAssumption DEF IInv, TypeOK, TaskOK, Room
<1>2. task' = [task EXCEPT !.pc = "enter", !.r = roomCount + 1]
  BY DEF NewRoom
<1>3. task' \in Task
  BY <1>1, <1>2 DEF IInv, TypeOK, Task
<1>4. /\ task'.pc = "enter" /\ task'.s = task.s /\ task'.u = task.u /\ task'.id = task.id
      /\ task'.r = roomCount + 1 /\ task'.next = task.next /\ task'.to = task.to
  BY <1>1, <1>2 DEF IInv
<1>5. /\ \A i \in RoomId : rooms'[i] = IF i = task.id THEN roomCount + 1 ELSE rooms[i]
      /\ \A i \in RoomId : rooms[i] \in Room \cup {0} /\ rooms[i] <= roomCount
      /\ roomCount \in Nat /\ roomCount' = roomCount + 1
      /\ Group[roomCount + 1] = {} /\ Players[roomCount + 1] = {}
      /\ UNCHANGED <<Group, Players>>
  <2>1. roomCount \in Nat
    BY DEF IInv, TypeOK, Room
  <2>2. \A i \in RoomId : rooms[i] \in Room \cup {0} /\ rooms[i] <= roomCount
    BY DEF IInv, TypeOK, RegistryOK
  <2>3. Group[roomCount + 1] = {} /\ Players[roomCount + 1] = {}
    BY <1>1, <2>1 DEF IInv, RegistryOK
  <2>4. \A i \in RoomId : rooms'[i] = IF i = task.id THEN roomCount + 1 ELSE rooms[i]
    BY DEF IInv, TypeOK, NewRoom
  <2> QED
    BY <2>1, <2>2, <2>3, <2>4 DEF NewRoom
<1>6. TypeOK'
  BY <1>1, <1>3 DEF IInv, TypeOK, NewRoom
<1>7. TaskOK'
  BY <1>1, <1>4 DEF IInv, TaskOK
<1>8. TaskSession'
  BY <1>4 DEF IInv, TaskSession, Live
<1>9. RegistryOK'
  <2>1. \A i \in RoomId : rooms'[i] <= roomCount'
    BY <1>5 DEF Room
  <2>2. \A i, j \in RoomId : rooms'[i] = rooms'[j] /\ rooms'[i] # 0 => i = j
    BY <1>5 DEF IInv, RegistryOK
  <2>3. \A r \in Room : r > roomCount' => Group'[r] = {} /\ Players'[r] = {}
    BY <1>5 DEF IInv, RegistryOK, Room
  <2>4. task'.r <= roomCount' /\ evict'.r <= roomCount'
    BY <1>4, <1>5 DEF IInv, TypeOK, RegistryOK, Room, Eviction
  <2>5. /\ \A i \in RoomId : rooms'[i] = task'.r => i = task'.id
        /\ rooms'[task'.id] \in {0, task'.r}
    BY <1>1, <1>4, <1>5
  <2> QED
    BY <2>1, <2>2, <2>3, <2>4, <2>5 DEF RegistryOK
<1>10. TaskGroup'
  BY <1>4, <1>5 DEF IInv, TaskGroup
<1>11. GroupSound'
  BY <1>5 DEF IInv, GroupSound, Live
<1>12. TokensOK'
  BY <1>4 DEF IInv, TokensOK, Covers, Live
<1>13. TrackedIsLive'
  BY TrackedKept DEF IInv
<1> QED
  BY <1>6, <1>7, <1>8, <1>9, <1>10, <1>11, <1>12, <1>13 DEF IInv

\* A refused Join leaves the session without a room.
LEMMA JoinLookupStep ==
  ASSUME IInv, JoinLookup
  PROVE  IInv'
<1>1. CASE Abandoned(task.id)
  BY <1>1, NewRoomStep DEF JoinLookup
<1>2. CASE ~Abandoned(task.id) /\ task' = idle
  <2>1. TypeOK'
    BY <1>2 DEF IInv, TypeOK, JoinLookup, Abandoned, Task, idle
  <2>2. TaskOK'
    BY <1>2 DEF IInv, TaskOK, JoinLookup, Abandoned, idle
  <2>3. TaskSession'
    BY <1>2 DEF IInv, TaskSession, JoinLookup, Abandoned, idle
  <2>4. RegistryOK'
    BY <1>2, ConstantsAssumption DEF IInv, TypeOK, RegistryOK, JoinLookup, Abandoned, Room, idle
  <2>5. TaskGroup'
    BY <1>2 DEF IInv, TaskGroup, JoinLookup, Abandoned, idle
  <2>6. GroupSound'
    BY <1>2 DEF IInv, GroupSound, JoinLookup, Abandoned, Live
  <2>7. TokensOK'
    BY <1>2 DEF IInv, TokensOK, JoinLookup, Abandoned, Covers, idle, Live
  <2>8. TrackedIsLive'
    BY TrackedKept DEF IInv, JoinLookup
  <2> QED
    BY <2>1, <2>2, <2>3, <2>4, <2>5, <2>6, <2>7, <2>8 DEF IInv
<1>3. CASE ~Abandoned(task.id) /\ task' # idle
  <2>1. task' = [task EXCEPT !.pc = "enter", !.r = rooms[task.id]]
    BY <1>3 DEF JoinLookup
  <2>2. task' \in Task /\ task'.pc = "enter" /\ task'.s = task.s /\ task'.u = task.u
        /\ task'.id = task.id /\ task'.r = rooms[task.id] /\ task'.next = task.next
        /\ task'.to = task.to
    BY <1>3, <2>1 DEF IInv, TypeOK, TaskOK, JoinLookup, Task
  <2>3. TypeOK'
    BY <1>3, <2>2 DEF IInv, TypeOK, JoinLookup, Abandoned
  <2>4. TaskOK'
    BY <1>3, <2>2 DEF IInv, TypeOK, TaskOK, JoinLookup, Abandoned
  <2>5. TaskSession'
    BY <1>3, <2>2 DEF IInv, TaskSession, JoinLookup, Abandoned, Live
  <2>6. RegistryOK'
    BY <1>3, <2>2 DEF IInv, TaskOK, RegistryOK, JoinLookup, Abandoned
  <2>7. TaskGroup'
    BY <1>3, <2>2 DEF IInv, TaskGroup, JoinLookup, Abandoned
  <2>8. GroupSound'
    BY <1>3, <2>2 DEF IInv, GroupSound, JoinLookup, Abandoned, Live
  <2>9. TokensOK'
    BY <1>3, <2>2 DEF IInv, TokensOK, JoinLookup, Abandoned, Covers, Live
  <2>10. TrackedIsLive'
    BY TrackedKept DEF IInv, JoinLookup
  <2> QED
    BY <2>3, <2>4, <2>5, <2>6, <2>7, <2>8, <2>9, <2>10 DEF IInv
<1> QED
  BY <1>1, <1>2, <1>3 DEF JoinLookup

\* The session enters the group of the object that was looked up.
LEMMA EnterGroupStep ==
  ASSUME IInv, EnterGroup
  PROVE  IInv'
<1>1. task' = [task EXCEPT !.pc = "enrol"]
  BY DEF EnterGroup
<1>2. task' \in Task /\ task'.pc = "enrol" /\ task'.s = task.s /\ task'.u = task.u
      /\ task'.id = task.id /\ task'.r = task.r /\ task'.next = task.next /\ task'.to = task.to
  BY <1>1 DEF IInv, TypeOK, EnterGroup, Task
<1>3. TypeOK'
  BY <1>2 DEF IInv, TypeOK, TaskOK, EnterGroup
<1>4. TaskOK'
  BY <1>2 DEF IInv, TaskOK, EnterGroup
<1>5. TaskSession'
  BY <1>2 DEF IInv, TypeOK, TaskOK, TaskSession, EnterGroup, Live
<1>6. RegistryOK'
  BY <1>2 DEF IInv, TypeOK, RegistryOK, EnterGroup, Room
<1>7. TaskGroup'
  BY <1>2 DEF IInv, TypeOK, TaskOK, TaskGroup, EnterGroup
<1>8. GroupSound'
  BY <1>2 DEF IInv, TypeOK, TaskOK, TaskSession, TaskGroup, RegistryOK, GroupSound, EnterGroup, Live
<1>9. TokensOK'
  BY <1>2 DEF IInv, TokensOK, EnterGroup, Covers, Live
<1>10. TrackedIsLive'
  BY TrackedKept DEF IInv, EnterGroup
<1> QED
  BY <1>3, <1>4, <1>5, <1>6, <1>7, <1>8, <1>9, <1>10 DEF IInv

\* The token that is sent is generated for the room the session has entered.
LEMMA EnrolStep ==
  ASSUME IInv, Enrol
  PROVE  IInv'
<1>1. TypeOK'
  BY ConstantsAssumption
     DEF IInv, TypeOK, TaskOK, Enrol, IssueToken, Generate, Task, Token, TokenData, idle
<1>2. TaskOK'
  BY DEF IInv, TaskOK, Enrol, IssueToken, Generate, idle
<1>3. TaskSession'
  BY DEF IInv, TaskSession, Enrol, IssueToken, Generate, idle
<1>4. RegistryOK'
  BY DEF IInv, TypeOK, RegistryOK, Enrol, IssueToken, Generate, Room, idle
<1>5. TaskGroup'
  BY DEF IInv, TaskGroup, Enrol, IssueToken, Generate, idle
<1>6. GroupSound'
  BY DEF IInv, GroupSound, Enrol, IssueToken, Generate, Live
<1>7. TokensOK'
  <2>1. /\ task.s \in Session /\ task.u \in UID /\ task.id \in RoomId
        /\ uid[task.s] = task.u /\ room_id[task.s] = task.id
        /\ Generate(task.u, task.id, TRUE)
        /\ resume_token' = [resume_token EXCEPT ![task.s] = tokenCount + 1]
        /\ task'.pc = "idle"
    BY DEF IInv, TaskOK, TaskSession, Enrol, IssueToken, idle
  <2>2. /\ tokenCount + 1 \in Token /\ tokenCount' = tokenCount + 1 /\ tokenCount \in Nat
        /\ token'[tokenCount + 1] = [uid |-> task.u, room |-> task.id, sent |-> TRUE]
        /\ \A t \in Token : t <= tokenCount => token'[t] = token[t]
    <3>1. tokenCount \in Nat
      BY DEF IInv, TypeOK, Token
    <3>2. TrackedIsLive'
      BY TrackedKept DEF IInv, Enrol
    <3> QED
      BY <2>1, <3>1, GenerateFresh, <3>2 DEF IInv
  <2>3. \A s \in Session : resume_token[s] \in Token \cup {0}
    BY DEF IInv, TypeOK
  <2>4. \A s \in Session : resume_token'[s] <= tokenCount'
    BY <2>1, <2>2, <2>3 DEF IInv, TokensOK, Token
  <2>5. \A x \in tombstones' : Covers(x.tok, x.uid, x.room)'
    BY <2>2 DEF IInv, TypeOK, TokensOK, Covers, Tombstone, Token, Enrol
  <2>6. \A s \in Session :
          Live(s)' /\ room_id'[s] # NoRoom /\ resume_token'[s] # 0
          => Covers(resume_token[s], uid[s], room_id[s])'
    BY <2>1, <2>2, <2>3 DEF IInv, TypeOK, TokensOK, Covers, Token, Enrol, Live
  <2> QED
    BY <2>1, <2>4, <2>5, <2>6 DEF TokensOK
<1>8. TrackedIsLive'
  BY TrackedKept DEF IInv, Enrol
<1> QED
  BY <1>1, <1>2, <1>3, <1>4, <1>5, <1>6, <1>7, <1>8 DEF IInv

\* A match starts: members and groups stay as they are.
LEMMA StartGameStep ==
  ASSUME NEW s \in Session, IInv, StartGame(s)
  PROVE  IInv'
<1>1. TypeOK'
  BY DEF IInv, TypeOK, StartGame, InRoom
<1>2. TaskOK'
  BY DEF IInv, TaskOK, StartGame, InRoom
<1>3. TaskSession'
  BY DEF IInv, TaskSession, StartGame, InRoom, Live
<1>4. RegistryOK'
  BY DEF IInv, RegistryOK, StartGame, InRoom
<1>5. TaskGroup'
  BY DEF IInv, TaskGroup, StartGame, InRoom
<1>6. GroupSound'
  BY DEF IInv, GroupSound, StartGame, InRoom, Live
<1>7. TokensOK'
  BY DEF IInv, TokensOK, StartGame, InRoom, Covers, Live
<1>8. TrackedIsLive'
  BY TrackedKept DEF IInv, StartGame
<1> QED
  BY <1>1, <1>2, <1>3, <1>4, <1>5, <1>6, <1>7, <1>8 DEF IInv

\* A match ends: members and groups stay as they are.
LEMMA ReturnStep ==
  ASSUME NEW s \in Session, IInv, Return(s)
  PROVE  IInv'
<1>1. TypeOK'
  BY DEF IInv, TypeOK, Return, InRoom
<1>2. TaskOK'
  BY DEF IInv, TaskOK, Return, InRoom
<1>3. TaskSession'
  BY DEF IInv, TaskSession, Return, InRoom, Live
<1>4. RegistryOK'
  BY DEF IInv, RegistryOK, Return, InRoom
<1>5. TaskGroup'
  BY DEF IInv, TaskGroup, Return, InRoom
<1>6. GroupSound'
  BY DEF IInv, GroupSound, Return, InRoom, Live
<1>7. TokensOK'
  BY DEF IInv, TokensOK, Return, InRoom, Covers, Live
<1>8. TrackedIsLive'
  BY TrackedKept DEF IInv, Return
<1> QED
  BY <1>1, <1>2, <1>3, <1>4, <1>5, <1>6, <1>7, <1>8 DEF IInv

\* A death changes no membership.
LEMMA DieStep ==
  ASSUME NEW s \in Session, IInv, Die(s)
  PROVE  IInv'
<1>1. TypeOK'
  BY DEF IInv, TypeOK, Die, InRoom
<1>2. TaskOK'
  BY DEF IInv, TaskOK, Die, InRoom
<1>3. TaskSession'
  BY DEF IInv, TaskSession, Die, InRoom, Live
<1>4. RegistryOK'
  BY DEF IInv, RegistryOK, Die, InRoom
<1>5. TaskGroup'
  BY DEF IInv, TaskGroup, Die, InRoom
<1>6. GroupSound'
  BY DEF IInv, GroupSound, Die, InRoom, Live
<1>7. TokensOK'
  BY DEF IInv, TokensOK, Die, InRoom, Covers, Live
<1>8. TrackedIsLive'
  BY TrackedKept DEF IInv, Die
<1> QED
  BY <1>1, <1>2, <1>3, <1>4, <1>5, <1>6, <1>7, <1>8 DEF IInv

\* The closed session leaves the group it was still in.
LEMMA DropGroupStep ==
  ASSUME IInv, DropGroup
  PROVE  IInv'
<1>1. TypeOK'
  BY DEF IInv, TypeOK, DropGroup, Task, idle
<1>2. TaskOK'
  BY DEF IInv, TaskOK, DropGroup, idle
<1>3. TaskSession'
  BY DEF IInv, TaskSession, DropGroup, idle
<1>4. RegistryOK'
  BY DEF IInv, TypeOK, RegistryOK, DropGroup, Room, idle
<1>5. TaskGroup'
  BY DEF IInv, TaskGroup, DropGroup, idle
<1>6. GroupSound'
  BY DEF IInv, TypeOK, GroupSound, TaskGroup, DropGroup, Live
<1>7. TokensOK'
  BY DEF IInv, TokensOK, DropGroup, Covers, idle, Live
<1>8. TrackedIsLive'
  BY TrackedKept DEF IInv, DropGroup
<1> QED
  BY <1>1, <1>2, <1>3, <1>4, <1>5, <1>6, <1>7, <1>8 DEF IInv

\* The tombstone is consumed: what it was stored with is what the handler carries.
LEMMA ResumeLookupStep ==
  ASSUME IInv, ResumeLookup
  PROVE  IInv'
<1>1. CASE rooms[task.id] = 0
  <2>1. task' = idle
    BY <1>1 DEF ResumeLookup
  <2>2. TypeOK'
    BY <1>1, <2>1 DEF IInv, TypeOK, ResumeLookup, Task, idle
  <2>3. TaskOK'
    BY <1>1, <2>1 DEF IInv, TaskOK, ResumeLookup, idle
  <2>4. TaskSession'
    BY <1>1, <2>1 DEF IInv, TaskSession, ResumeLookup, idle
  <2>5. RegistryOK'
    BY <1>1, <2>1 DEF IInv, TypeOK, RegistryOK, ResumeLookup, Room, idle
  <2>6. TaskGroup'
    BY <1>1, <2>1 DEF IInv, TaskGroup, ResumeLookup, idle
  <2>7. GroupSound'
    BY <1>1, <2>1 DEF IInv, GroupSound, ResumeLookup, Live
  <2>8. TokensOK'
    BY <1>1, <2>1 DEF IInv, TokensOK, ResumeLookup, Covers, idle, Live
  <2>9. TrackedIsLive'
    BY TrackedKept DEF IInv, ResumeLookup
  <2> QED
    BY <2>2, <2>3, <2>4, <2>5, <2>6, <2>7, <2>8, <2>9 DEF IInv
<1>2. CASE rooms[task.id] # 0
  <2>1. task' = [task EXCEPT !.pc = "resume_bind", !.r = rooms[task.id]]
    BY <1>2 DEF ResumeLookup
  <2>2. task' \in Task /\ task'.pc = "resume_bind" /\ task'.s = task.s /\ task'.u = task.u
        /\ task'.id = task.id /\ task'.r = rooms[task.id] /\ task'.next = task.next
        /\ task'.to = task.to /\ task'.tok = task.tok
    BY <1>2, <2>1 DEF IInv, TypeOK, TaskOK, ResumeLookup, Task
  <2>3. TypeOK'
    BY <1>2, <2>2 DEF IInv, TypeOK, ResumeLookup
  <2>4. TaskOK'
    BY <1>2, <2>2 DEF IInv, TypeOK, TaskOK, ResumeLookup
  <2>5. TaskSession'
    BY <1>2, <2>2 DEF IInv, TaskSession, ResumeLookup, Live
  <2>6. RegistryOK'
    BY <1>2, <2>2 DEF IInv, TaskOK, RegistryOK, ResumeLookup
  <2>7. TaskGroup'
    BY <1>2, <2>2 DEF IInv, TaskGroup, ResumeLookup
  <2>8. GroupSound'
    BY <1>2, <2>2 DEF IInv, GroupSound, ResumeLookup, Live
  <2>9. TokensOK'
    BY <1>2, <2>2 DEF IInv, TokensOK, ResumeLookup, Covers, Live
  <2>10. TrackedIsLive'
    BY TrackedKept DEF IInv, ResumeLookup
  <2> QED
    BY <2>3, <2>4, <2>5, <2>6, <2>7, <2>8, <2>9, <2>10 DEF IInv
<1> QED
  BY <1>1, <1>2

\* The session is bound to the account and the room of its tombstone.
LEMMA ResumeBindStep ==
  ASSUME IInv, ResumeBind
  PROVE  IInv'
<1>1. TypeOK'
  BY DEF IInv, TypeOK, TaskOK, ResumeBind, Task, idle
<1>2. TaskOK'
  BY DEF IInv, TaskOK, ResumeBind, idle
<1>3. TaskSession'
  BY DEF IInv, TypeOK, TaskOK, TaskSession, ResumeBind, idle
<1>4. RegistryOK'
  BY DEF IInv, TypeOK, RegistryOK, ResumeBind, Room, idle
<1>5. TaskGroup'
  BY DEF IInv, TaskGroup, ResumeBind, idle
<1>6. GroupSound'
  BY DEF IInv, TypeOK, TaskOK, TaskSession, TaskGroup, RegistryOK, GroupSound, ResumeBind, Live
<1>7. TokensOK'
  BY DEF IInv, TypeOK, TokensOK, ResumeBind, Covers, idle, Live
<1>8. TrackedIsLive'
  BY ConstantsAssumption DEF IInv, TypeOK, TaskOK, TaskSession, TrackedIsLive, ResumeBind, Live
<1> QED
  BY <1>1, <1>2, <1>3, <1>4, <1>5, <1>6, <1>7, <1>8 DEF IInv

\* The sweeper takes the tombstones that have expired.
LEMMA SweepStep ==
  ASSUME IInv, Sweep
  PROVE  IInv'
<1>1. TypeOK'
  BY DEF IInv, TypeOK, Sweep
<1>2. TaskOK'
  BY DEF IInv, TaskOK, Sweep
<1>3. TaskSession'
  BY DEF IInv, TaskSession, Sweep, Live
<1>4. RegistryOK'
  BY DEF IInv, RegistryOK, Sweep
<1>5. TaskGroup'
  BY DEF IInv, TaskGroup, Sweep
<1>6. GroupSound'
  BY DEF IInv, GroupSound, Sweep, Live
<1>7. TokensOK'
  BY DEF IInv, TokensOK, Sweep, Covers, Live
<1>8. TrackedIsLive'
  BY TrackedKept DEF IInv, Sweep
<1> QED
  BY <1>1, <1>2, <1>3, <1>4, <1>5, <1>6, <1>7, <1>8 DEF IInv

\* An eviction takes a player out of the room it was looked up in.
LEMMA EvictPlayerStep ==
  ASSUME NEW x \in sweep, IInv, EvictPlayer(x)
  PROVE  IInv'
<1>1. TypeOK'
  BY RemovePlayerType DEF IInv, TypeOK, EvictPlayer, Tombstone, Eviction, noEvict
<1>2. TaskOK'
  BY DEF IInv, TypeOK, TaskOK, EvictPlayer, Tombstone
<1>3. TaskSession'
  BY DEF IInv, TaskSession, EvictPlayer, Live
<1>4. RegistryOK'
  BY RemovePlayerType DEF IInv, TypeOK, RegistryOK, EvictPlayer, Tombstone
<1>5. TaskGroup'
  BY DEF IInv, TaskGroup, EvictPlayer
<1>6. GroupSound'
  BY DEF IInv, GroupSound, EvictPlayer, Live
<1>7. TokensOK'
  BY DEF IInv, TokensOK, EvictPlayer, Covers, Live
<1>8. TrackedIsLive'
  BY TrackedKept DEF IInv, EvictPlayer
<1> QED
  BY <1>1, <1>2, <1>3, <1>4, <1>5, <1>6, <1>7, <1>8 DEF IInv

\* The room the sweeper found empty is deleted under its own id.
LEMMA EvictReapStep ==
  ASSUME IInv, EvictReap
  PROVE  IInv'
<1>1. TypeOK'
  BY DEF IInv, TypeOK, EvictReap, Reap, Eviction, noEvict
<1>2. TaskOK'
  BY DEF IInv, TaskOK, EvictReap, Reap
<1>3. TaskSession'
  BY DEF IInv, TaskSession, EvictReap, Reap, Live
<1>4. RegistryOK'
  BY DEF IInv, TypeOK, TaskOK, RegistryOK, EvictReap, Reap, Room, noEvict
<1>5. TaskGroup'
  BY DEF IInv, TaskGroup, EvictReap, Reap
<1>6. GroupSound'
  BY DEF IInv, GroupSound, EvictReap, Reap, Live
<1>7. TokensOK'
  BY DEF IInv, TokensOK, EvictReap, Reap, Covers, Live
<1>8. TrackedIsLive'
  BY TrackedKept DEF IInv, EvictReap
<1> QED
  BY <1>1, <1>2, <1>3, <1>4, <1>5, <1>6, <1>7, <1>8 DEF IInv

\* A closed session is untracked, its tombstone stored for the room of its token.
LEMMA DisconnectStep ==
  ASSUME NEW s \in Session, IInv, Disconnect(s)
  PROVE  IInv'
<1>1. /\ task.pc = "idle" /\ Live(s) /\ conn' = [conn EXCEPT ![s] = "closed"]
      /\ UNCHANGED <<uid, room_id, resume_token, memberVars, matchVars, now, sweepVars>>
  BY DEF Disconnect, Ready
<1>2. uidToSession' \in [UID -> Session \cup {NoSession}]
  BY DEF IInv, TypeOK, Disconnect, Untrack
<1>3. \A q \in Session : Live(q)' <=> Live(q) /\ q # s
  BY <1>1 DEF IInv, TypeOK, Live
<1>4. TrackedIsLive'
  BY <1>1, <1>3 DEF IInv, TypeOK, TrackedIsLive, Disconnect, Untrack
<1>5. CASE room_id[s] = NoRoom
  <2>1. UNCHANGED <<tombstones, token, tokenCount, task>>
    BY <1>5 DEF Disconnect
  <2>2. TypeOK'
    BY <1>1, <1>2, <2>1 DEF IInv, TypeOK
  <2>3. TaskOK' /\ TaskSession' /\ RegistryOK' /\ TaskGroup'
    BY <1>1, <2>1 DEF IInv, TaskOK, TaskSession, RegistryOK, TaskGroup
  <2>4. GroupSound'
    BY <1>1, <1>3, <1>5, <2>1, ConstantsAssumption DEF IInv, TypeOK, GroupSound
  <2>5. TokensOK'
    BY <1>1, <1>3, <2>1 DEF IInv, TokensOK, Covers
  <2> QED
    BY <1>4, <2>2, <2>3, <2>4, <2>5 DEF IInv
<1>6. CASE room_id[s] # NoRoom
  <2>1. uid[s] \in UID /\ room_id[s] \in RoomId
    BY <1>6 DEF IInv, TypeOK, TaskSession
  <2>2. PICK t \in Token :
          /\ Store(t, uid[s], room_id[s])
          /\ token' \in [Token -> TokenData] /\ tokenCount' \in Token \cup {0}
          /\ tokenCount <= tokenCount'
          /\ \A k \in Token : k <= tokenCount => token'[k] = token[k]
          /\ Covers(t, uid[s], room_id[s])'
    <3>1. CASE Reusable(s)
      <4>1. Store(resume_token[s], uid[s], room_id[s]) /\ UNCHANGED <<token, tokenCount>>
        BY <1>6, <3>1 DEF Disconnect
      <4>2. resume_token[s] \in Token /\ Covers(resume_token[s], uid[s], room_id[s])
        BY <1>1, <1>6, <3>1 DEF IInv, TypeOK, TokensOK, Reusable
      <4> QED
        BY <1>1, <4>1, <4>2 DEF IInv, TypeOK, Covers, Token
    <3>2. CASE ~Reusable(s)
      <4>1. Generate(uid[s], room_id[s], FALSE) /\ Store(tokenCount + 1, uid[s], room_id[s])
        BY <1>6, <3>2 DEF Disconnect
      <4>2. /\ tokenCount + 1 \in Token /\ tokenCount' = tokenCount + 1
            /\ token' \in [Token -> TokenData]
            /\ token'[tokenCount + 1] = [uid |-> uid[s], room |-> room_id[s], sent |-> FALSE]
            /\ \A k \in Token : k <= tokenCount => token'[k] = token[k]
        BY <2>1, <4>1, GenerateFresh DEF IInv
      <4>3. tokenCount \in Nat /\ tokenCount + 1 \in Token \cup {0}
        BY <4>2 DEF IInv, TypeOK, Token
      <4>4. /\ tokenCount + 1 <= tokenCount' /\ tokenCount <= tokenCount'
            /\ token'[tokenCount + 1].uid = uid'[s] /\ token'[tokenCount + 1].room = room_id'[s]
        BY <1>1, <4>2, <4>3
      <4> QED
        BY <1>1, <4>1, <4>2, <4>3, <4>4 DEF Covers
    <3> QED
      BY <3>1, <3>2
  <2>3. tombstones' \subseteq Tombstone
    BY <2>1, <2>2 DEF IInv, TypeOK, Store, Tombstone
  <2>4. TokensOK' \/ task'.pc \in {"resume_lookup", "resume_bind"}
    <3>1. \A q \in Session : resume_token'[q] <= tokenCount'
      BY <1>1, <2>2 DEF IInv, TypeOK, TokensOK, Token
    <3>2. ASSUME NEW x \in tombstones' PROVE Covers(x.tok, x.uid, x.room)'
      <4>1. CASE x \in tombstones
        <5>1. x.tok \in Token /\ Covers(x.tok, x.uid, x.room)
          BY <4>1 DEF IInv, TypeOK, TokensOK, Tombstone
        <5>2. x.tok <= tokenCount' /\ token'[x.tok] = token[x.tok]
          BY <2>2, <5>1 DEF IInv, TypeOK, Covers, Token
        <5> QED
          BY <5>1, <5>2 DEF Covers
      <4>2. CASE x = [tok |-> t, uid |-> uid[s], room |-> room_id[s]]
        BY <1>1, <2>2, <4>2
      <4> QED
        BY <2>2, <4>1, <4>2 DEF Store
    <3>3. \A q \in Session :
            Live(q)' /\ room_id'[q] # NoRoom /\ resume_token'[q] # 0
            => Covers(resume_token[q], uid[q], room_id[q])'
      BY <1>1, <1>3, <2>2 DEF IInv, TypeOK, TokensOK, Covers, Token
    <3> QED
      BY <3>1, <3>2, <3>3 DEF TokensOK
  <2>5. CASE rooms[room_id[s]] = 0
    <3>1. task' = idle
      BY <1>6, <2>5 DEF Disconnect
    <3>2. TypeOK'
      BY <1>1, <1>2, <2>2, <2>3, <3>1 DEF IInv, TypeOK, Task, idle
    <3>3. TaskOK' /\ TaskSession' /\ RegistryOK' /\ TaskGroup'
      BY <1>1, <3>1 DEF IInv, TypeOK, TaskOK, TaskSession, RegistryOK, TaskGroup, idle, Room
    <3>4. GroupSound'
      BY <1>1, <1>3, <2>5 DEF IInv, TypeOK, GroupSound
    <3> QED
      BY <1>4, <2>4, <3>1, <3>2, <3>3, <3>4 DEF IInv, idle
  <2>6. CASE rooms[room_id[s]] # 0
    <3>1. task' = [idle EXCEPT !.pc = "drop_group", !.s = s, !.u = uid[s], !.id = room_id[s],
                               !.r = rooms[room_id[s]]]
      BY <1>6, <2>6 DEF Disconnect
    <3>2. rooms[room_id[s]] \in Room
      BY <2>1, <2>6 DEF IInv, TypeOK
    <3>3. /\ task' \in Task /\ task'.pc = "drop_group" /\ task'.s = s /\ task'.u = uid[s]
          /\ task'.id = room_id[s] /\ task'.r = rooms[room_id[s]] /\ task'.next = "idle"
      BY <2>1, <3>1, <3>2 DEF Task, idle
    <3>4. TypeOK'
      BY <1>1, <1>2, <2>2, <2>3, <3>3 DEF IInv, TypeOK
    <3>5. TaskOK' /\ TaskSession'
      BY <1>1, <1>3, <2>1, <3>2, <3>3 DEF IInv, TaskOK, TaskSession
    <3>6. RegistryOK'
      BY <1>1, <2>1, <3>2, <3>3 DEF IInv, RegistryOK, Room
    <3>7. TaskGroup' /\ GroupSound'
      BY <1>1, <1>3, <2>1, <3>2, <3>3 DEF IInv, TypeOK, TaskGroup, GroupSound
    <3> QED
      BY <1>4, <2>4, <3>3, <3>4, <3>5, <3>6, <3>7 DEF IInv
  <2> QED
    BY <2>5, <2>6
<1> QED
  BY <1>5, <1>6

\* A resumption starts with a tombstone that matches the token.
LEMMA ResumeStep ==
  ASSUME NEW s \in Session, IInv, Resume(s)
  PROVE  IInv'
<1>1. PICK x \in tombstones :
        /\ uid[s] \in {NoUid, token[x.tok].uid}
        /\ tombstones' = tombstones \ {x}
        /\ task' = IF token[x.tok].uid = x.uid /\ token[x.tok].room = x.room /\ ~Stale(x.tok)
                   THEN [idle EXCEPT !.pc = "resume_lookup", !.s = s, !.u = x.uid,
                                     !.id = x.room, !.tok = x.tok]
                   ELSE idle
  BY DEF Resume
<1>2. /\ task.pc = "idle" /\ Live(s) /\ room_id[s] = NoRoom
      /\ UNCHANGED <<sessionVars, memberVars, matchVars, tokenVars, now, sweepVars>>
  BY DEF Resume, Ready
<1>3. x.uid \in UID /\ x.room \in RoomId /\ x.tok \in Token /\ Covers(x.tok, x.uid, x.room)
  BY DEF IInv, TypeOK, TokensOK, Tombstone
<1>4. s \notin UNION {Group[rooms[i]] : i \in {j \in RoomId : rooms[j] # 0}}
  BY <1>2, ConstantsAssumption DEF IInv, GroupSound
<1>5. CASE task' = idle
  <2>1. TypeOK'
    BY <1>1, <1>2, <1>5 DEF IInv, TypeOK, Task, idle
  <2>2. TaskOK' /\ TaskSession' /\ RegistryOK' /\ TaskGroup'
    BY <1>2, <1>5 DEF IInv, TypeOK, TaskOK, TaskSession, RegistryOK, TaskGroup, idle, Room
  <2>3. GroupSound' /\ TokensOK'
    BY <1>1, <1>2, <1>5 DEF IInv, GroupSound, TokensOK, Covers, idle, Live
  <2>4. TrackedIsLive'
    BY TrackedKept DEF IInv, Resume
  <2> QED
    BY <2>1, <2>2, <2>3, <2>4 DEF IInv
<1>6. CASE task' # idle
  <2>1. task' = [idle EXCEPT !.pc = "resume_lookup", !.s = s, !.u = x.uid, !.id = x.room,
                             !.tok = x.tok]
    BY <1>1, <1>6
  <2>2. /\ task' \in Task /\ task'.pc = "resume_lookup" /\ task'.s = s /\ task'.u = x.uid
        /\ task'.id = x.room /\ task'.tok = x.tok /\ task'.r = 0 /\ task'.next = "idle"
    BY <1>3, <2>1 DEF Task, idle
  <2>3. TypeOK'
    BY <1>1, <1>2, <2>2 DEF IInv, TypeOK
  <2>4. TaskOK' /\ TaskSession'
    BY <1>1, <1>2, <1>3, <2>2 DEF IInv, TaskOK, TaskSession, Covers, Live
  <2>5. RegistryOK'
    BY <1>2, <2>2 DEF IInv, TypeOK, RegistryOK, Room
  <2>6. TaskGroup' /\ GroupSound'
    BY <1>2, <1>4, <2>2 DEF IInv, TaskGroup, GroupSound, Live
  <2>7. TokensOK'
    BY <1>1, <1>2, <1>3, <2>2 DEF IInv, TokensOK, Covers, Live
  <2>8. TrackedIsLive'
    BY TrackedKept DEF IInv, Resume
  <2> QED
    BY <2>3, <2>4, <2>5, <2>6, <2>7, <2>8 DEF IInv
<1> QED
  BY <1>5, <1>6

\* The server starts with the invariant.
LEMMA InitInv == ASSUME Init PROVE IInv
<1>1. TypeOK
  BY DEF Init, TypeOK, Task, TokenData, Eviction, idle, noEvict, noToken
<1>2. TaskOK /\ TaskSession /\ RegistryOK
  BY DEF Init, TaskOK, TaskSession, RegistryOK, idle, noEvict
<1>3. TaskGroup /\ GroupSound /\ TokensOK /\ TrackedIsLive
  BY DEF Init, TaskGroup, GroupSound, TokensOK, TrackedIsLive, idle
<1> QED
  BY <1>1, <1>2, <1>3 DEF IInv

\* A step that changes nothing preserves it.
LEMMA StutterStep == ASSUME IInv, UNCHANGED vars PROVE IInv'
<1>1. TypeOK' /\ TaskOK' /\ TaskSession' /\ RegistryOK'
  BY DEF IInv, vars, TypeOK, TaskOK, TaskSession, RegistryOK, Live
<1>2. TaskGroup' /\ GroupSound' /\ TokensOK' /\ TrackedIsLive'
  BY DEF IInv, vars, TaskGroup, GroupSound, TokensOK, TrackedIsLive, Covers, Live
<1> QED
  BY <1>1, <1>2 DEF IInv

\* Every step preserves it.
LEMMA NextStep == ASSUME IInv, [Next]_vars PROVE IInv'
<1>1. CASE HandlerStart
  <2>1. ASSUME NEW s \in Session, NEW id \in RoomId, Join(s, id) \/ Create(s, id) PROVE IInv'
    BY <2>1, EnterStep DEF Join, Create
  <2> QED
    BY <1>1, <2>1, AuthStep, LeaveStep, StartGameStep, ReturnStep, DieStep, DisconnectStep,
       ResumeStep DEF HandlerStart
<1>2. CASE HandlerStep
  <2>1. CASE CreateRoom
    BY <2>1, NewRoomStep DEF CreateRoom, IInv, TaskOK
  <2> QED
    BY <1>2, <2>1, LeaveRoomStep, LeaveReapStep, JoinLookupStep, EnterGroupStep, EnrolStep,
       DropGroupStep, ResumeLookupStep, ResumeBindStep DEF HandlerStep
<1>3. CASE Sweeper
  BY <1>3, SweepStep, EvictPlayerStep, EvictReapStep DEF Sweeper
<1> QED
  BY <1>1, <1>2, <1>3, TickStep, StutterStep DEF Next

\* IInv is inductive.
LEMMA Invariance == Spec => []IInv
  BY InitInv, NextStep, PTL DEF Spec

(***************************************************************************)
(* Every reachable state is well typed, whatever the sets of accounts,     *)
(* sessions and room ids and however many rooms and tokens are allocated.  *)
(***************************************************************************)
THEOREM TypeCorrect == Spec => []TypeOK
<1>1. IInv => TypeOK
  BY DEF IInv
<1> QED
  BY <1>1, Invariance, PTL

(***************************************************************************)
(* Whatever handlers and evictions interleave, the group of a registered   *)
(* room holds only sessions that are in that room, and a closed one only   *)
(* while its MarkDisconnected is between the store of the tombstone and    *)
(* Group.Leave (room.go:1213-1219).                                        *)
(***************************************************************************)
THEOREM GroupsAreSound == Spec => []GroupSound
<1>1. IInv => GroupSound
  BY DEF IInv
<1> QED
  BY <1>1, Invariance, PTL

(***************************************************************************)
(* A stored tombstone is filed under a token that was signed for its own   *)
(* player and room, so the check of Room.Resume (room.go:1253) never       *)
(* rejects a tombstone that it has already consumed.                       *)
(***************************************************************************)
THEOREM TombstonesMatch == Spec => []TombstoneMatchesToken
<1>1. IInv => TombstoneMatchesToken
  BY DEF IInv, TokensOK, Covers, TombstoneMatchesToken
<1> QED
  BY <1>1, Invariance, PTL

(***************************************************************************)
(* The session that Auth closes for an account (user.go:140-155) is a live *)
(* one of that account: no closed callback leaves a stale mapping behind.  *)
(***************************************************************************)
THEOREM TrackedSessionsLive == Spec => []TrackedIsLive
<1>1. IInv => TrackedIsLive
  BY DEF IInv
<1> QED
  BY <1>1, Invariance, PTL

-----------------------------------------------------------------------------
(* SeatsHeld and OrphanedByLeaveOnly.  The lemmas take one seat, of u in   *)
(* the room registered as id, and one step after which it is there.        *)

\* Somebody holds the seat, if it is there.
SeatOK(u, id) == ~Orphan(u, id)

Seated(u, id) == rooms[id] # 0 /\ u \in Players[rooms[id]]

\* The steps that start a handler, the timer's step and those of the match.
LEMMA SeatsStart ==
  ASSUME IInv, NEW u \in UID, NEW id \in RoomId, SeatOK(u, id), Seated(u, id)', HandlerStart,
         ~LeavesBehind(u, id)
  PROVE  Held(u, id)'
<1>1. task.pc = "idle"
  BY DEF HandlerStart, Auth, Join, Create, Enter, Leave, StartGame, Return, Die, InRoom, Disconnect,
         Resume, Ready
<1>2. rooms'[id] # 0 /\ u \in Players'[rooms'[id]]
  BY DEF Seated
<1>3. UNCHANGED <<rooms, Players, Group, sweep>>
  BY DEF HandlerStart, Auth, Join, Create, Enter, Leave, StartGame, Return, Die, Disconnect, Resume
<1>4. u \in UID /\ rooms[id] \in Room
  BY <1>2, <1>3 DEF IInv, TypeOK
<1>5. \/ \E q \in Group[rooms[id]] : Live(q) /\ uid[q] = u
      \/ \E x \in tombstones \cup sweep : x.uid = u /\ x.room = id
  BY <1>1, <1>2, <1>3 DEF SeatOK, Orphan, Held
<1>6. ASSUME NEW s \in Session, NEW v \in UID, Auth(s, v) PROVE Held(u, id)'
  <2>1. /\ uid' = [uid EXCEPT ![s] = v] /\ uid[s] \in {NoUid, v}
        /\ UNCHANGED <<tombstones, task>>
    BY <1>6 DEF Auth
  <2>2. \A q \in Session : Live(q) => Live(q)'
    BY <1>6 DEF IInv, Auth, Live
  <2>3. \A q \in Session : uid[q] = u => uid'[q] = u
    BY <1>4, <2>1, ConstantsAssumption DEF IInv
  <2>4. Group[rooms[id]] \subseteq Session
    BY <1>4 DEF IInv, TypeOK
  <2> QED
    BY <1>3, <1>5, <2>1, <2>2, <2>3, <2>4 DEF Held
<1>7. ASSUME NEW s \in Session, NEW next, NEW to, BeginLeave(s, next, to), room_id[s] \in RoomId,
             UNCHANGED sessionVars
      PROVE  Held(u, id)'
  <2>1. CASE u = uid[s]
    <3>1. task'.pc = "leave_room" /\ task'.u = u /\ task'.id = room_id[s]
      BY <1>7, <2>1 DEF BeginLeave
    <3>2. CASE room_id[s] = id
      BY <3>1, <3>2 DEF Held
    <3>3. CASE room_id[s] # id
      <4>1. \A x \in tombstones : ~(x.uid = u /\ x.room = id)
        BY <1>1, <1>7, <2>1, <3>1, <3>3 DEF LeavesBehind, BeginLeave, DropTombstones
      <4> QED
        BY <1>3, <1>5, <1>7, <4>1 DEF Held, Live
    <3> QED
      BY <3>2, <3>3
  <2>2. CASE u # uid[s]
    BY <1>3, <1>5, <1>7, <2>2 DEF BeginLeave, DropTombstones, Held, Live
  <2> QED
    BY <2>1, <2>2
<1>8. ASSUME NEW s \in Session, NEW i \in RoomId, NEW pc, Enter(s, i, pc) PROVE Held(u, id)'
  <2>1. CASE room_id[s] # NoRoom
    <3>1. BeginLeave(s, pc, i) /\ UNCHANGED sessionVars /\ room_id[s] \in RoomId
      BY <1>8, <2>1 DEF Enter, IInv, TypeOK
    <3> QED
      BY <1>7, <3>1
  <2>2. CASE room_id[s] = NoRoom
    BY <1>3, <1>5, <1>8, <2>2 DEF Enter, Held, Live
  <2> QED
    BY <2>1, <2>2
<1>9. ASSUME NEW s \in Session, Leave(s) PROVE Held(u, id)'
  BY <1>7, <1>9 DEF Leave, IInv, TypeOK
<1>10. ASSUME NEW s \in Session, StartGame(s) \/ Return(s) \/ Die(s) PROVE Held(u, id)'
  BY <1>3, <1>5, <1>10 DEF StartGame, Return, Die, Held, Live
<1>11. ASSUME NEW s \in Session, Disconnect(s) PROVE Held(u, id)'
  <2>1. /\ UNCHANGED <<uid, room_id>> /\ conn' = [conn EXCEPT ![s] = "closed"]
    BY <1>11 DEF Disconnect
  <2>2. \A q \in Session : Live(q) /\ q # s => Live(q)'
    BY <2>1 DEF IInv, Live
  <2>3. CASE room_id[s] = NoRoom
    <3>1. UNCHANGED tombstones
      BY <1>11, <2>3 DEF Disconnect
    <3>2. s \notin Group[rooms[id]] \/ ~Live(s)
      BY <1>2, <1>3, <2>3, ConstantsAssumption DEF IInv, GroupSound
    <3>3. Group[rooms[id]] \subseteq Session
      BY <1>4 DEF IInv, TypeOK
    <3> QED
      BY <1>3, <1>5, <2>1, <2>2, <3>1, <3>2, <3>3 DEF Held
  <2>4. CASE room_id[s] # NoRoom
    <3>1. room_id[s] \in RoomId
      BY <2>4 DEF IInv, TypeOK
    <3>2. PICK t \in Token :
            /\ Store(t, uid[s], room_id[s])
            /\ \A x \in tombstones : x.tok = t => x.uid = uid[s] /\ x.room = room_id[s]
      <4>1. CASE Reusable(s)
        <5>1. Store(resume_token[s], uid[s], room_id[s]) /\ resume_token[s] \in Token
          BY <1>11, <2>4, <4>1 DEF Disconnect, Reusable, IInv, TypeOK
        <5>2. Covers(resume_token[s], uid[s], room_id[s])
          BY <1>1, <1>11, <2>4, <4>1 DEF Disconnect, Ready, Reusable, IInv, TokensOK
        <5> QED
          BY <5>1, <5>2 DEF IInv, TokensOK, Covers
      <4>2. CASE ~Reusable(s)
        <5>1. Generate(uid[s], room_id[s], FALSE) /\ Store(tokenCount + 1, uid[s], room_id[s])
          BY <1>11, <2>4, <4>2 DEF Disconnect
        <5>2. uid[s] \in UID
          BY <3>1, <2>4 DEF IInv, TaskSession
        <5>3. tokenCount + 1 \in Token /\ tokenCount \in Nat
          <6>1. tokenCount \in Nat
            BY DEF IInv, TypeOK, Token
          <6> QED
            BY <3>1, <5>1, <5>2, <6>1, GenerateFresh DEF IInv
        <5>4. \A x \in tombstones : x.tok # tokenCount + 1
          BY <5>3 DEF IInv, TokensOK, Covers
        <5> QED
          BY <5>1, <5>3, <5>4
      <4> QED
        BY <4>1, <4>2
    <3>3. CASE uid[s] = u /\ room_id[s] = id
      <4>1. [tok |-> t, uid |-> u, room |-> id] \in tombstones'
        BY <3>1, <3>2, <3>3 DEF Store
      <4> QED
        BY <4>1 DEF Held
    <3>4. CASE ~(uid[s] = u /\ room_id[s] = id)
      <4>1. \A x \in tombstones : x.uid = u /\ x.room = id => x \in tombstones'
        BY <3>2, <3>4 DEF Store
      <4>2. Group[rooms[id]] \subseteq Session
        BY <1>4 DEF IInv, TypeOK
      <4>3. s \notin Group[rooms[id]] \/ ~Live(s) \/ uid[s] # u
        BY <1>2, <1>3, <3>4 DEF IInv, GroupSound
      <4> QED
        BY <1>3, <1>5, <2>1, <2>2, <4>1, <4>2, <4>3 DEF Held
    <3> QED
      BY <3>3, <3>4
  <2> QED
    BY <2>3, <2>4
<1>12. ASSUME NEW s \in Session, Resume(s) PROVE Held(u, id)'
  <2>1. PICK x \in tombstones :
          /\ ~Lapsed(x.tok) /\ tombstones' = tombstones \ {x}
          /\ task' = IF token[x.tok].uid = x.uid /\ token[x.tok].room = x.room /\ ~Stale(x.tok)
                     THEN [idle EXCEPT !.pc = "resume_lookup", !.s = s, !.u = x.uid,
                                       !.id = x.room, !.tok = x.tok]
                     ELSE idle
    BY <1>12 DEF Resume
  <2>2. UNCHANGED sessionVars
    BY <1>12 DEF Resume
  <2>3. ~Stale(x.tok) /\ token[x.tok].uid = x.uid /\ token[x.tok].room = x.room
    BY <2>1 DEF Lapsed, Stale, IInv, TypeOK, TokensOK, Covers, Tombstone, Token
  <2>4. task'.pc = "resume_lookup" /\ task'.u = x.uid /\ task'.id = x.room
    BY <2>1, <2>3
  <2> QED
    BY <1>3, <1>5, <2>1, <2>2, <2>4 DEF Held, Live
<1> QED
  BY <1>6, <1>8, <1>9, <1>10, <1>11, <1>12 DEF HandlerStart, Join, Create

\* The later steps of a handler.
LEMMA SeatsHandler ==
  ASSUME IInv, NEW u \in UID, NEW id \in RoomId, SeatOK(u, id), Seated(u, id)', HandlerStep
  PROVE  Held(u, id)'
<1>1. rooms'[id] # 0 /\ u \in Players'[rooms'[id]]
  BY DEF Seated
<1>2. task.pc # "idle" /\ task.s \in Session /\ task.id \in RoomId
  BY DEF HandlerStep, LeaveRoom, LeaveReap, JoinLookup, CreateRoom, EnterGroup, Enrol, DropGroup,
         ResumeLookup, ResumeBind, IInv, TaskOK
<1>3. CASE LeaveRoom /\ task.id = id
  <2>1. rooms[id] # 0 /\ rooms[id] \in Room /\ UNCHANGED <<rooms, conn, uid, tombstones, sweep>>
    BY <1>1, <1>3 DEF LeaveRoom, IInv, TypeOK
  <2>2. /\ Players'[rooms[id]] = Players[rooms[id]] \ {task.u}
        /\ Group'[rooms[id]] = Group[rooms[id]] \ {task.s}
    BY <1>2, <1>3, <2>1 DEF LeaveRoom, RemovePlayer, IInv, TypeOK
  <2>3. u # task.u /\ uid[task.s] = task.u
    BY <1>1, <1>3, <2>1, <2>2 DEF LeaveRoom, IInv, TaskSession
  <2> QED
    BY <1>1, <2>1, <2>2, <2>3 DEF SeatOK, Orphan, Held, Live
<1>12. CASE LeaveRoom /\ task.id # id
  <2>1. rooms[id] # 0 /\ rooms[id] \in Room /\ UNCHANGED <<rooms, conn, uid, tombstones, sweep>>
    BY <1>1, <1>12 DEF LeaveRoom, IInv, TypeOK
  <2>2. Players'[rooms[id]] = Players[rooms[id]] /\ Group'[rooms[id]] = Group[rooms[id]]
    <3>1. CASE rooms[task.id] # 0
      <4>1. rooms[task.id] # rooms[id]
        BY <1>2, <1>12, <2>1 DEF IInv, RegistryOK
      <4> QED
        BY <1>12, <2>1, <3>1, <4>1 DEF LeaveRoom, RemovePlayer, IInv, TypeOK
    <3>2. CASE rooms[task.id] = 0
      BY <1>12, <3>2 DEF LeaveRoom
    <3> QED
      BY <3>1, <3>2
  <2> QED
    BY <1>1, <1>12, <2>1, <2>2 DEF SeatOK, Orphan, Held, Live
<1>4. CASE LeaveReap
  <2>1. rooms'[id] = rooms[id] /\ UNCHANGED <<conn, uid, Players, Group, tombstones, sweep>>
    BY <1>1, <1>2, <1>4 DEF LeaveReap, Reap, IInv
  <2> QED
    BY <1>1, <1>4, <2>1 DEF LeaveReap, SeatOK, Orphan, Held, Live
<1>5. ASSUME NEW host, NewRoom(task.id, host), task.pc \in {"join_lookup", "create_room"}
      PROVE  rooms'[id] = rooms[id] /\ UNCHANGED <<Players, Group>>
  <2> SUFFICES ASSUME id = task.id PROVE FALSE
    BY <1>2, <1>5 DEF NewRoom, IInv, TypeOK
  <2>1. roomCount + 1 \in Room /\ roomCount \in Nat
    BY <1>5, ConstantsAssumption DEF IInv, TypeOK, TaskOK, Room
  <2>2. rooms'[id] = roomCount + 1 /\ Players' = Players
    BY <1>2, <1>5 DEF NewRoom, IInv, TypeOK
  <2>3. Players[roomCount + 1] = {}
    BY <2>1 DEF IInv, RegistryOK
  <2> QED
    BY <1>1, <2>2, <2>3
<1>6. CASE JoinLookup \/ CreateRoom
  <2>1. rooms'[id] = rooms[id] /\ UNCHANGED <<Players, Group>>
    BY <1>5, <1>6 DEF JoinLookup, CreateRoom
  <2>2. task.pc \in {"join_lookup", "create_room"} /\ UNCHANGED <<conn, uid, tombstones, sweep>>
    BY <1>6 DEF JoinLookup, CreateRoom
  <2> QED
    BY <1>1, <2>1, <2>2 DEF SeatOK, Orphan, Held, Live
<1>7. CASE EnterGroup
  <2>1. /\ task.pc = "enter" /\ UNCHANGED <<rooms, Players, conn, uid, tombstones, sweep>>
        /\ Group' = [Group EXCEPT ![task.r] = @ \cup {task.s}]
    BY <1>7 DEF EnterGroup
  <2>2. rooms[id] \in Room /\ Group[rooms[id]] \subseteq Group'[rooms[id]]
    BY <1>1, <2>1 DEF IInv, TypeOK
  <2> QED
    BY <1>1, <2>1, <2>2 DEF SeatOK, Orphan, Held, Live
<1>8. CASE Enrol
  <2>1. /\ task.pc = "enrol" /\ UNCHANGED <<rooms, Group, conn, uid, tombstones, sweep>>
        /\ Players' = [Players EXCEPT ![task.r] = @ \cup {task.u}]
    BY <1>8 DEF Enrol
  <2>2. CASE u \in Players[rooms[id]]
    BY <1>1, <2>1, <2>2 DEF SeatOK, Orphan, Held, Live
  <2>3. CASE u \notin Players[rooms[id]]
    <3>1. u = task.u /\ task.r = rooms[id]
      BY <1>1, <2>1, <2>3 DEF IInv
    <3>2. task.s \in Group[rooms[id]] /\ Live(task.s) /\ uid[task.s] = u
      BY <2>1, <3>1 DEF IInv, TaskGroup, TaskSession
    <3> QED
      BY <2>1, <3>2 DEF Held, Live
  <2> QED
    BY <2>2, <2>3
<1>9. CASE DropGroup
  <2>1. /\ task.pc = "drop_group" /\ UNCHANGED <<rooms, Players, conn, uid, tombstones, sweep>>
        /\ Group' = [Group EXCEPT ![task.r] = @ \ {task.s}]
    BY <1>9 DEF DropGroup
  <2>2. rooms[id] \in Room /\ Group[rooms[id]] \ {task.s} \subseteq Group'[rooms[id]]
    BY <1>1, <2>1 DEF IInv, TypeOK
  <2>3. ~Live(task.s)
    BY <2>1 DEF IInv, TaskSession
  <2> QED
    BY <1>1, <2>1, <2>2, <2>3 DEF SeatOK, Orphan, Held, Live
<1>10. CASE ResumeLookup
  <2>1. /\ task.pc = "resume_lookup"
        /\ UNCHANGED <<rooms, Players, Group, conn, uid, tombstones, sweep>>
    BY <1>10 DEF ResumeLookup
  <2>2. task.id = id => task'.pc = "resume_bind" /\ task'.u = task.u /\ task'.id = task.id
    BY <1>1, <1>10, <2>1 DEF ResumeLookup, IInv, TypeOK, Task
  <2> QED
    BY <1>1, <2>1, <2>2 DEF SeatOK, Orphan, Held, Live
<1>11. CASE ResumeBind
  <2>1. /\ task.pc = "resume_bind" /\ UNCHANGED <<rooms, Players, conn, tombstones, sweep>>
        /\ uid' = [uid EXCEPT ![task.s] = task.u]
        /\ Group' = [Group EXCEPT ![task.r] = @ \cup {task.s}]
    BY <1>11 DEF ResumeBind
  <2>2. /\ task.id = id => rooms[id] = task.r
        /\ rooms[id] \in Room /\ task.r \in Room /\ task.u \in UID
    BY <1>1, <1>2, <2>1 DEF IInv, TypeOK, RegistryOK, TaskOK
  <2>3. /\ \A q \in Session : uid[q] = u => uid'[q] = u
        /\ uid'[task.s] = task.u /\ Live(task.s)
    BY <1>2, <2>1, <2>2, ConstantsAssumption DEF IInv, TypeOK, TaskSession
  <2>4. /\ task.id = id => Group'[rooms[id]] = Group[rooms[id]] \cup {task.s}
        /\ Group[rooms[id]] \subseteq Group'[rooms[id]] /\ Group[rooms[id]] \subseteq Session
    BY <2>1, <2>2 DEF IInv, TypeOK
  <2> QED
    BY <1>1, <2>1, <2>3, <2>4 DEF SeatOK, Orphan, Held, Live
<1> QED
  BY <1>3, <1>4, <1>6, <1>7, <1>8, <1>9, <1>10, <1>11, <1>12 DEF HandlerStep

\* The steps of the sweeper.
LEMMA SeatsSweeper ==
  ASSUME IInv, NEW u \in UID, NEW id \in RoomId, SeatOK(u, id), Seated(u, id)', Sweeper
  PROVE  Held(u, id)'
<1>1. rooms'[id] # 0 /\ u \in Players'[rooms'[id]]
  BY DEF Seated
<1>2. UNCHANGED <<conn, uid, Group, task>>
  BY DEF Sweeper, Sweep, EvictPlayer, EvictReap
<1>3. CASE Sweep
  <2>1. UNCHANGED <<rooms, Players>> /\ tombstones' \cup sweep' = tombstones \cup sweep
    BY <1>3 DEF Sweep
  <2> QED
    BY <1>1, <1>2, <2>1 DEF SeatOK, Orphan, Held, Live
<1>4. ASSUME NEW x \in sweep, EvictPlayer(x) PROVE Held(u, id)'
  <2>1. UNCHANGED <<rooms, tombstones>> /\ sweep' = sweep \ {x} /\ x \in Tombstone
    BY <1>4 DEF EvictPlayer, IInv, TypeOK
  <2>2. rooms[id] \in Room /\ x.room \in RoomId
    BY <1>1, <2>1 DEF IInv, TypeOK, Tombstone
  <2>3. CASE x.room = id
    <3>1. Players'[rooms[id]] = Players[rooms[id]] \ {x.uid}
      <4>1. RemovePlayer(rooms[id], x.uid)
        BY <1>1, <1>4, <2>1, <2>3 DEF EvictPlayer
      <4> QED
        BY <2>2, <4>1 DEF RemovePlayer, IInv, TypeOK
    <3> QED
      BY <1>1, <1>2, <2>1, <2>3, <3>1 DEF SeatOK, Orphan, Held, Live
  <2>4. CASE x.room # id
    <3>1. Players'[rooms[id]] = Players[rooms[id]]
      <4>1. CASE rooms[x.room] # 0
        <5>1. RemovePlayer(rooms[x.room], x.uid) /\ rooms[x.room] # rooms[id]
          BY <1>4, <2>2, <2>4, <4>1 DEF EvictPlayer, IInv, RegistryOK
        <5> QED
          BY <2>2, <5>1 DEF RemovePlayer, IInv, TypeOK
      <4>2. CASE rooms[x.room] = 0
        BY <1>4, <4>2 DEF EvictPlayer
      <4> QED
        BY <4>1, <4>2
    <3> QED
      BY <1>1, <1>2, <2>1, <2>4, <3>1 DEF SeatOK, Orphan, Held, Live
  <2> QED
    BY <2>3, <2>4
<1>5. CASE EvictReap
  <2>1. rooms'[id] = rooms[id] /\ UNCHANGED <<Players, tombstones, sweep>>
    BY <1>1, <1>5 DEF EvictReap, Reap, IInv, TypeOK
  <2> QED
    BY <1>1, <1>2, <2>1 DEF SeatOK, Orphan, Held, Live
<1> QED
  BY <1>3, <1>4, <1>5 DEF Sweeper

\* A step that is no such leave leaves nobody behind.
LEMMA SeatStep ==
  ASSUME IInv, NEW u \in UID, NEW id \in RoomId, SeatOK(u, id), [Next]_vars, ~LeavesBehind(u, id)
  PROVE  SeatOK(u, id)'
<1>1. SUFFICES ASSUME Seated(u, id)' PROVE Held(u, id)'
  BY DEF SeatOK, Orphan, Seated
<1>2. CASE Tick \/ UNCHANGED vars
  BY <1>1, <1>2 DEF Tick, vars, SeatOK, Orphan, Seated, Held, Live
<1> QED
  BY <1>1, <1>2, SeatsStart, SeatsHandler, SeatsSweeper DEF Next

(***************************************************************************)
(* Whatever the handlers, the lost connections, the resumptions and the    *)
(* sweeps interleave, a listed player loses its last holder in one way     *)
(* only: its own leave of another room drops its tombstone here            *)
(* (room.go:692, Remove of all tombstones of the player).                  *)
(***************************************************************************)
THEOREM OnlyLeavesOrphan == Spec => OrphanedByLeaveOnly
<1>1. IInv /\ [Next]_vars =>
        [\A u \in UID, id \in RoomId : Orphan(u, id)' => Orphan(u, id) \/ LeavesBehind(u, id)]_vars
  BY SeatStep DEF SeatOK
<1> QED
  BY <1>1, Invariance, PTL DEF Spec, OrphanedByLeaveOnly

LeavesNobodyBehind == \A u \in UID, id \in RoomId : ~LeavesBehind(u, id)

(***************************************************************************)
(* So where no leave takes a tombstone of another room, no player stays    *)
(* listed in a room with nobody left to remove it.                         *)
(***************************************************************************)
THEOREM SeatsAreHeldElse == Spec /\ [][LeavesNobodyBehind]_vars => []SeatsHeld
<1>1. Init => SeatsHeld
  BY DEF Init, SeatsHeld
<1>2. IInv /\ SeatsHeld /\ [Next]_vars /\ [LeavesNobodyBehind]_vars => SeatsHeld'
  <2>1. ASSUME IInv, SeatsHeld, [Next]_vars, LeavesNobodyBehind PROVE SeatsHeld'
    <3>1. SUFFICES ASSUME NEW id \in RoomId, rooms'[id] # 0, NEW u \in Players'[rooms'[id]]
                   PROVE  Held(u, id)'
      BY DEF SeatsHeld
    <3>2. u \in UID
      <4>1. TypeOK'
        BY <2>1, NextStep DEF IInv
      <4> QED
        BY <3>1, <4>1 DEF TypeOK
    <3>3. SeatOK(u, id)
      BY <2>1 DEF SeatsHeld, SeatOK, Orphan
    <3>4. SeatOK(u, id)'
      BY <2>1, <3>2, <3>3, SeatStep DEF LeavesNobodyBehind
    <3> QED
      BY <3>1, <3>4 DEF SeatOK, Orphan
  <2>2. ASSUME SeatsHeld, UNCHANGED vars PROVE SeatsHeld'
    BY <2>2 DEF SeatsHeld, Held, Live, vars
  <2> QED
    BY <2>1, <2>2
<1> QED
  BY <1>1, <1>2, Invariance, PTL DEF Spec

OneRoomId == \A i, j \in RoomId : i = j

(***************************************************************************)
(* That is so where the accounts share one room id.                        *)
(***************************************************************************)
THEOREM SeatsAreHeld == OneRoomId /\ Spec => []SeatsHeld
<1>1. ASSUME OneRoomId, IInv, [Next]_vars PROVE LeavesNobodyBehind
  <2>1. SUFFICES ASSUME NEW u \in UID, NEW id \in RoomId, LeavesBehind(u, id) PROVE FALSE
    BY DEF LeavesNobodyBehind
  <2>2. TaskOK'
    BY <1>1, NextStep DEF IInv
  <2>3. task'.id \in RoomId
    BY <2>1, <2>2 DEF LeavesBehind, TaskOK
  <2> QED
    BY <1>1, <2>1, <2>3 DEF OneRoomId, LeavesBehind
<1>2. OneRoomId /\ IInv /\ [Next]_vars => [LeavesNobodyBehind]_vars
  BY <1>1
<1>3. OneRoomId => OneRoomId'
  BY DEF OneRoomId
<1> QED
  BY <1>2, <1>3, Invariance, SeatsAreHeldElse, PTL DEF Spec

-----------------------------------------------------------------------------
(* Towards AbsenceEnds: FairSpec asks of a handler in flight, of the sweeper *)
(* and of the clock that they go on, and of no player.                       *)

\* A step of HandlerStep, of Sweeper or Tick is due: a handler is in flight, an eviction is,
\* tombstones taken by the sweep wait for theirs, one has lapsed, or the clock has not yet come
\* to the end of the last token.
Driven ==
  \/ task.pc # "idle"
  \/ evict # noEvict \/ sweep # {}
  \/ \E x \in tombstones : Lapsed(x.tok)
  \/ now < 2 * tokenCount

AbsenceDriven == \A u \in UID, id \in RoomId : Absent(u, id) => Driven

LEMMA HeldIsDriven ==
  ASSUME IInv, SeatsHeld
  PROVE  AbsenceDriven
<1>1. SUFFICES ASSUME NEW u \in UID, NEW id \in RoomId, Absent(u, id)
      PROVE  Driven
  BY DEF AbsenceDriven
<1>2. Held(u, id)
  BY <1>1 DEF Absent, SeatsHeld
<1>3. CASE task.pc \in {"leave_room", "resume_lookup", "resume_bind"}
  BY <1>3 DEF Driven
<1>4. ASSUME NEW x \in tombstones
      PROVE  Lapsed(x.tok) \/ now < 2 * tokenCount
  <2>1. x.tok \in Nat /\ x.tok <= tokenCount /\ tokenCount \in Nat /\ now \in Nat
    BY DEF IInv, TypeOK, Tombstone, Token, TokensOK, Covers
  <2> QED
    BY <2>1 DEF Lapsed
<1>5. CASE \E x \in tombstones \cup sweep : x.uid = u /\ x.room = id
  BY <1>4, <1>5 DEF Driven
<1> QED
  BY <1>1, <1>2, <1>3, <1>5 DEF Absent, Held

(***************************************************************************)
(* Where no leave takes a tombstone of another room, an absent player is   *)
(* never stuck: as long as it is listed, the handler in flight, the        *)
(* sweeper or the clock has a step to take, and needs no player for it.    *)
(***************************************************************************)
THEOREM AbsenceIsDriven == Spec /\ [][LeavesNobodyBehind]_vars => []AbsenceDriven
BY HeldIsDriven, Invariance, SeatsAreHeldElse, PTL
=============================================================================
