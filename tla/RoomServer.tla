----------------------------- MODULE RoomServer -----------------------------
(***************************************************************************)
(* Room membership, disconnection and resumption on the game server:       *)
(* RoomComponent (server/logic/room.go), the session tracking of           *)
(* UserComponent (server/logic/user.go) and the in-memory tombstone store  *)
(* with its sweeper (server/logic/tombstone_store.go).                     *)
(*                                                                         *)
(* Two processes share the state.  The nano scheduler runs every handler   *)
(* and every session-closed callback, one at a time; the sweeper goroutine *)
(* runs beside it.  A handler that releases c.lock, or that touches a      *)
(* nano.Group outside it, gives the sweeper a chance to run in between, so *)
(* such a handler is one first step that starts it and one step per later  *)
(* critical section.  `task' is the handler in flight.                     *)
(*                                                                         *)
(* A NanoRoom is a heap object that outlives its entry in c.rooms: a       *)
(* goroutine may still hold the pointer.  So `rooms' maps a room id to an  *)
(* object and everything else is kept per object.                          *)
(***************************************************************************)
EXTENDS Integers, FiniteSets

CONSTANTS
  UID,        \* accounts
  Session,    \* nano sessions, one per connection; a closed one is never reused
  RoomId,     \* keys of c.rooms
  NoUid, NoSession, NoRoom,  \* the zero uid, and nil
  Starter,    \* bound: the sessions that send StartGame, Return or Die
  MaxRooms,   \* bound: NanoRoom objects ever allocated
  MaxTokens   \* bound: resume tokens ever generated

ASSUME ConstantsAssumption ==
  /\ NoUid \notin UID /\ NoSession \notin Session /\ NoRoom \notin RoomId
  /\ Starter \subseteq Session
  /\ MaxRooms \in Nat /\ MaxTokens \in Nat

Room  == 1 .. MaxRooms      \* NanoRoom objects; 0 is the nil pointer
Token == 1 .. MaxTokens     \* resume tokens in the order of their creation; 0 is none

VARIABLES
  conn,          \* "open", "kicked" (closed by Auth, callback queued) or "closed"
  uid,           \* session.UID()
  room_id,       \* session value "room_id"
  resume_token,  \* session value "resume_token"
  uidToSession,  \* UserComponent.uidToSession
  rooms,         \* RoomComponent.rooms
  roomCount,     \* NanoRoom objects allocated so far
  Players, Group, HostUID, State, HasGameState, DeadPlayers,  \* fields of a NanoRoom
  token,         \* what each token's signature covers, and whether a client was given it
  tokenCount,    \* tokens generated so far
  tombstones,    \* GlobalTombstoneStore: token, player and room of each tombstone
  now,           \* the clock, see Lapsed and Stale
  task,          \* the handler in flight on the nano scheduler
  sweep,         \* tombstones taken by the running sweep, not yet cleaned up
  evict          \* the eviction in flight on the sweeper goroutine

sessionVars == <<conn, uid, room_id, resume_token, uidToSession>>
memberVars  == <<rooms, roomCount, Players, Group, HostUID>>
matchVars   == <<State, HasGameState, DeadPlayers>>
tokenVars   == <<token, tokenCount>>
sweepVars   == <<sweep, evict>>
vars == <<sessionVars, memberVars, matchVars, tokenVars, tombstones, now, task, sweepVars>>

-----------------------------------------------------------------------------
(* Types *)

TokenData == [uid : UID \cup {NoUid}, room : RoomId \cup {NoRoom}, sent : BOOLEAN]
Tombstone == [tok : Token, uid : UID, room : RoomId]
Task == [pc   : {"idle", "leave_room", "leave_reap", "join_lookup", "create_room", "enter",
                 "enrol", "drop_group", "resume_lookup", "resume_bind"},
         s    : Session \cup {NoSession},
         u    : UID \cup {NoUid},
         id   : RoomId \cup {NoRoom},        \* the handler's local roomID
         r    : Room \cup {0},               \* the handler's local r
         next : {"idle", "join_lookup", "create_room"},  \* what follows doLeave
         to   : RoomId \cup {NoRoom},        \* the room a Join or Create is for
         tok  : Token \cup {0}]              \* the token of a Resume
Eviction == [r : Room \cup {0}, id : RoomId \cup {NoRoom}]

idle     == [pc |-> "idle", s |-> NoSession, u |-> NoUid, id |-> NoRoom, r |-> 0,
             next |-> "idle", to |-> NoRoom, tok |-> 0]
noEvict  == [r |-> 0, id |-> NoRoom]
noToken  == [uid |-> NoUid, room |-> NoRoom, sent |-> FALSE]

TypeOK ==
  /\ conn \in [Session -> {"open", "kicked", "closed"}]
  /\ uid \in [Session -> UID \cup {NoUid}]
  /\ room_id \in [Session -> RoomId \cup {NoRoom}]
  /\ resume_token \in [Session -> Token \cup {0}]
  /\ uidToSession \in [UID -> Session \cup {NoSession}]
  /\ rooms \in [RoomId -> Room \cup {0}]
  /\ roomCount \in Room \cup {0}
  /\ Players \in [Room -> SUBSET UID]
  /\ Group \in [Room -> SUBSET Session]
  /\ HostUID \in [Room -> UID \cup {NoUid}]
  /\ State \in [Room -> {"WAITING", "PLAYING"}]
  /\ HasGameState \in [Room -> BOOLEAN]
  /\ DeadPlayers \in [Room -> SUBSET UID]
  /\ token \in [Token -> TokenData]
  /\ tokenCount \in Token \cup {0}
  /\ tombstones \subseteq Tombstone
  /\ now \in Nat
  /\ task \in Task
  /\ sweep \subseteq Tombstone
  /\ evict \in Eviction

Init ==
  /\ conn = [s \in Session |-> "open"]
  /\ uid = [s \in Session |-> NoUid]
  /\ room_id = [s \in Session |-> NoRoom]
  /\ resume_token = [s \in Session |-> 0]
  /\ uidToSession = [u \in UID |-> NoSession]
  /\ rooms = [id \in RoomId |-> 0]
  /\ roomCount = 0
  /\ Players = [r \in Room |-> {}]
  /\ Group = [r \in Room |-> {}]
  /\ HostUID = [r \in Room |-> NoUid]
  /\ State = [r \in Room |-> "WAITING"]
  /\ HasGameState = [r \in Room |-> FALSE]
  /\ DeadPlayers = [r \in Room |-> {}]
  /\ token = [t \in Token |-> noToken]
  /\ tokenCount = 0
  /\ tombstones = {}
  /\ now = 0
  /\ task = idle
  /\ sweep = {}
  /\ evict = noEvict

-----------------------------------------------------------------------------
(* Time.  ExpireAt is a whole second E.  The store compares it with        *)
(* time.Now().After, so a tombstone is dead from just after E;             *)
(* MarkDisconnected and VerifyResumeToken compare Unix() > ExpireAt, so a  *)
(* token is dead only from E + 1 s.  Tokens expire in the order of their   *)
(* creation: token t lapses at instant 2t - 1 and is stale at instant 2t.  *)

Lapsed(t) == now >= 2 * t - 1
Stale(t)  == now >= 2 * t

Tick ==
  /\ now < 2 * tokenCount
  /\ now' = now + 1
  /\ UNCHANGED <<sessionVars, memberVars, matchVars, tokenVars, tombstones, task, sweepVars>>

\* GenerateResumeToken; sent says whether the reply carries the token to the client.
Generate(u, id, sent) ==
  /\ tokenCount < MaxTokens
  /\ tokenCount' = tokenCount + 1
  /\ token' = [token EXCEPT ![tokenCount + 1] = [uid |-> u, room |-> id, sent |-> sent]]

(* The handler's thread: a handler starts when none is in flight.  What a  *)
(* kicked session had sent is still handled, then its closed callback, and *)
(* both come before anything the session that kicked it sends next.        *)

Live(s) == conn[s] # "closed"
Ready(s) ==
  /\ task.pc = "idle" /\ Live(s)
  /\ uid[s] # NoUid => \A k \in Session \ {s} : conn[k] = "kicked" => uid[k] # uid[s]

-----------------------------------------------------------------------------
(* User.Auth and User.GuestLogin: an older session of the account is       *)
(* closed, which queues its closed callback behind the current handler.    *)

Auth(s, u) ==
  /\ Ready(s) /\ conn[s] = "open"
  /\ uid[s] \in {NoUid, u}    \* a client logs out by closing its connection
  /\ conn' = IF uidToSession[u] \in Session \ {s}
             THEN [conn EXCEPT ![uidToSession[u]] = "kicked"] ELSE conn
  /\ uid' = [uid EXCEPT ![s] = u]
  /\ uidToSession' = [uidToSession EXCEPT ![u] = s]
  /\ UNCHANGED <<room_id, resume_token, memberVars, matchVars, tokenVars, tombstones,
                 now, task, sweepVars>>

-----------------------------------------------------------------------------
(* doLeave, from Room.Leave, Room.Join and Room.Create *)

DropTombstones(u) == tombstones' = {x \in tombstones : x.uid # u}

\* Slip: the host's session is looked for in the group instead of its account in the players.
NextHosts_FromGroup(r, u) ==
  IF HostUID[r] = u /\ Group[r] # {} THEN Group[r] ELSE {HostUID[r]}

\* Host migration: any player left, in Go's map order.
NextHosts(r, u) ==
  IF HostUID[r] = u /\ Players[r] \ {u} # {} THEN Players[r] \ {u} ELSE {HostUID[r]}

\* Slip: the deletion is nested in the host migration.
RemovePlayer_NestedInMigration(r, u) ==
  \E h \in NextHosts(r, u) :
    /\ HostUID' = [HostUID EXCEPT ![r] = h]
    /\ Players' = IF h # HostUID[r] THEN [Players EXCEPT ![r] = @ \ {u}] ELSE Players

RemovePlayer(r, u) ==
  /\ Players' = [Players EXCEPT ![r] = @ \ {u}]
  /\ \E h \in NextHosts(r, u) : HostUID' = [HostUID EXCEPT ![r] = h]

\* The deletion by id of the room whose group is seen empty, whatever c.rooms holds by now.
Reap(r, id) ==
  rooms' = IF Group[r] = {} THEN [rooms EXCEPT ![id] = 0] ELSE rooms

BeginLeave(s, next, to) ==
  /\ DropTombstones(uid[s])
  /\ task' = [idle EXCEPT !.pc = "leave_room", !.s = s, !.u = uid[s], !.id = room_id[s],
                          !.next = next, !.to = to]

AfterLeave(t) ==
  IF t.next = "idle" THEN idle
  ELSE [idle EXCEPT !.pc = t.next, !.s = t.s, !.u = t.u, !.id = t.to]

Leave(s) ==
  /\ Ready(s) /\ uid[s] # NoUid /\ room_id[s] # NoRoom
  /\ BeginLeave(s, "idle", NoRoom)
  /\ UNCHANGED <<sessionVars, memberVars, matchVars, tokenVars, now, sweepVars>>

LeaveRoom ==
  /\ task.pc = "leave_room"
  /\ LET r == rooms[task.id] IN
       \/ /\ r # 0
          /\ RemovePlayer(r, task.u)
          /\ Group' = [Group EXCEPT ![r] = @ \ {task.s}]
          /\ room_id' = [room_id EXCEPT ![task.s] = NoRoom]
          /\ task' = [task EXCEPT !.pc = "leave_reap", !.r = r]
       \/ /\ r = 0
          /\ task' = AfterLeave(task)
          /\ UNCHANGED <<Players, HostUID, Group, room_id>>
  /\ UNCHANGED <<conn, uid, resume_token, uidToSession, rooms, roomCount, matchVars, tokenVars,
                 tombstones, now, sweepVars>>

LeaveReap ==
  /\ task.pc = "leave_reap"
  /\ Reap(task.r, task.id)
  /\ task' = AfterLeave(task)
  /\ UNCHANGED <<sessionVars, roomCount, Players, Group, HostUID, matchVars, tokenVars,
                 tombstones, now, sweepVars>>

-----------------------------------------------------------------------------
(* Room.Join and Room.Create.  The client asks for neither before Auth.    *)

\* Slip: the handler does not leave the room the session is in.
Enter_WithoutLeaving(s, id, pc) ==
  /\ Ready(s) /\ uid[s] # NoUid
  /\ roomCount < MaxRooms /\ tokenCount < MaxTokens
  /\ task' = [idle EXCEPT !.pc = pc, !.s = s, !.u = uid[s], !.id = id]
  /\ UNCHANGED <<sessionVars, memberVars, matchVars, tokenVars, tombstones, now, sweepVars>>

Enter(s, id, pc) ==
  /\ Ready(s) /\ uid[s] # NoUid
  /\ roomCount < MaxRooms /\ tokenCount < MaxTokens
  /\ \/ room_id[s] # NoRoom /\ BeginLeave(s, pc, id)
     \/ /\ room_id[s] = NoRoom
        /\ task' = [idle EXCEPT !.pc = pc, !.s = s, !.u = uid[s], !.id = id]
        /\ UNCHANGED tombstones
  /\ UNCHANGED <<sessionVars, memberVars, matchVars, tokenVars, now, sweepVars>>

Join(s, id)   == Enter(s, id, "join_lookup")
Create(s, id) == Enter(s, id, "create_room")   \* id: "Room_<random>", possibly in use

NewRoom(id, host) ==
  /\ roomCount' = roomCount + 1
  /\ rooms' = [rooms EXCEPT ![id] = roomCount + 1]
  /\ HostUID' = [HostUID EXCEPT ![roomCount + 1] = host]
  /\ task' = [task EXCEPT !.pc = "enter", !.r = roomCount + 1]
  /\ UNCHANGED <<Players, Group>>

\* An absent room is created; so is one whose group is empty, in place of the old object.
Abandoned(id) == rooms[id] # 0 => Group[rooms[id]] = {}

JoinLookup ==
  /\ task.pc = "join_lookup"
  /\ LET r == rooms[task.id] IN
       \/ Abandoned(task.id) /\ NewRoom(task.id, NoUid)
       \/ /\ ~Abandoned(task.id)
          /\ State[r] = "WAITING" /\ task.u \notin DeadPlayers[r]
          /\ task' = [task EXCEPT !.pc = "enter", !.r = r]
          /\ UNCHANGED memberVars
       \/ /\ ~Abandoned(task.id)
          /\ State[r] # "WAITING" \/ task.u \in DeadPlayers[r]
          /\ task' = idle
          /\ UNCHANGED memberVars
  /\ UNCHANGED <<sessionVars, matchVars, tokenVars, tombstones, now, sweepVars>>

CreateRoom ==
  /\ task.pc = "create_room"
  /\ NewRoom(task.id, task.u)
  /\ UNCHANGED <<sessionVars, matchVars, tokenVars, tombstones, now, sweepVars>>

EnterGroup ==
  /\ task.pc = "enter"
  /\ Group' = [Group EXCEPT ![task.r] = @ \cup {task.s}]
  /\ room_id' = [room_id EXCEPT ![task.s] = task.id]
  /\ task' = [task EXCEPT !.pc = "enrol"]
  /\ UNCHANGED <<conn, uid, resume_token, uidToSession, rooms, roomCount, Players, HostUID,
                 matchVars, tokenVars, tombstones, now, sweepVars>>

\* Slip: a session that has a token keeps it when it enters another room.
IssueToken_Once(s, u, id) ==
  /\ Generate(u, id, TRUE)
  /\ resume_token' = [resume_token EXCEPT ![s] = IF @ = 0 THEN tokenCount + 1 ELSE @]

\* The WELCOME reply carries a new token, which the session keeps.
IssueToken(s, u, id) ==
  /\ Generate(u, id, TRUE)
  /\ resume_token' = [resume_token EXCEPT ![s] = tokenCount + 1]

Enrol ==
  /\ task.pc = "enrol"
  /\ Players' = [Players EXCEPT ![task.r] = @ \cup {task.u}]
  /\ IssueToken(task.s, task.u, task.id)
  /\ task' = idle
  /\ UNCHANGED <<conn, uid, room_id, uidToSession, rooms, roomCount, Group, HostUID,
                 matchVars, tombstones, now, sweepVars>>

-----------------------------------------------------------------------------
(* The parts of StartGame, Return and Die that Join and Resume look at.    *)

InRoom(s) == Ready(s) /\ s \in Starter /\ room_id[s] # NoRoom /\ rooms[room_id[s]] # 0

StartGame(s) ==
  /\ InRoom(s)
  /\ State' = [State EXCEPT ![rooms[room_id[s]]] = "PLAYING"]
  /\ HasGameState' = [HasGameState EXCEPT ![rooms[room_id[s]]] = TRUE]
  /\ UNCHANGED <<DeadPlayers, sessionVars, memberVars, tokenVars, tombstones, now, task, sweepVars>>

Return(s) ==
  /\ InRoom(s)
  /\ State' = [State EXCEPT ![rooms[room_id[s]]] = "WAITING"]
  /\ DeadPlayers' = [DeadPlayers EXCEPT ![rooms[room_id[s]]] = {}]
  /\ UNCHANGED <<HasGameState, sessionVars, memberVars, tokenVars, tombstones, now, task,
                 sweepVars>>

Die(s) ==
  /\ InRoom(s) /\ uid[s] # NoUid
  /\ DeadPlayers' = [DeadPlayers EXCEPT ![rooms[room_id[s]]] = @ \cup {uid[s]}]
  /\ UNCHANGED <<State, HasGameState, sessionVars, memberVars, tokenVars, tombstones, now, task,
                 sweepVars>>

-----------------------------------------------------------------------------
(* The session-closed callbacks: UserComponent's, then MarkDisconnected up *)
(* to the store of the tombstone, then its Group.Leave.                    *)

\* Slip: the mapping is left to be overwritten by the next Auth.
Untrack_Never(s) == UNCHANGED uidToSession

Untrack(s) ==
  uidToSession' = [u \in UID |-> IF u = uid[s] /\ uidToSession[u] = s
                                 THEN NoSession ELSE uidToSession[u]]

Store(t, u, id) ==
  tombstones' = {x \in tombstones : x.tok # t} \cup {[tok |-> t, uid |-> u, room |-> id]}

Reusable(s) == resume_token[s] # 0 /\ ~Stale(resume_token[s])

Disconnect(s) ==
  /\ Ready(s)
  /\ conn' = [conn EXCEPT ![s] = "closed"]
  /\ Untrack(s)
  /\ \/ /\ room_id[s] = NoRoom
        /\ UNCHANGED <<tombstones, tokenVars, task>>
     \/ /\ room_id[s] # NoRoom
        /\ \/ Reusable(s) /\ Store(resume_token[s], uid[s], room_id[s]) /\ UNCHANGED tokenVars
           \/ /\ ~Reusable(s)
              /\ Generate(uid[s], room_id[s], FALSE)
              /\ Store(tokenCount + 1, uid[s], room_id[s])
        /\ task' = IF rooms[room_id[s]] = 0 THEN idle
                   ELSE [idle EXCEPT !.pc = "drop_group", !.s = s, !.u = uid[s],
                                     !.id = room_id[s], !.r = rooms[room_id[s]]]
  /\ UNCHANGED <<uid, room_id, resume_token, memberVars, matchVars, now, sweepVars>>

DropGroup ==
  /\ task.pc = "drop_group"
  /\ Group' = [Group EXCEPT ![task.r] = @ \ {task.s}]
  /\ task' = idle
  /\ UNCHANGED <<sessionVars, rooms, roomCount, Players, HostUID, matchVars, tokenVars,
                 tombstones, now, sweepVars>>

-----------------------------------------------------------------------------
(* Room.Resume: Consume and VerifyResumeToken, the look-up of the room     *)
(* under c.lock, and the rest outside it.  The client resumes on a new     *)
(* connection, with a token it was given for its own account.              *)

Resume(s) ==
  /\ Ready(s) /\ room_id[s] = NoRoom
  /\ \E x \in tombstones :
       /\ token[x.tok].sent /\ token[x.tok].uid \in UID
       /\ uid[s] \in {NoUid, token[x.tok].uid}
       /\ ~Lapsed(x.tok)
       /\ tombstones' = tombstones \ {x}
       /\ task' = IF token[x.tok].uid = x.uid /\ token[x.tok].room = x.room /\ ~Stale(x.tok)
                  THEN [idle EXCEPT !.pc = "resume_lookup", !.s = s, !.u = x.uid, !.id = x.room,
                                    !.tok = x.tok]
                  ELSE idle
  /\ UNCHANGED <<sessionVars, memberVars, matchVars, tokenVars, now, sweepVars>>

ResumeLookup ==
  /\ task.pc = "resume_lookup"
  /\ task' = IF rooms[task.id] = 0 THEN idle
             ELSE [task EXCEPT !.pc = "resume_bind", !.r = rooms[task.id]]
  /\ UNCHANGED <<sessionVars, memberVars, matchVars, tokenVars, tombstones, now, sweepVars>>

\* Bind, TrackSession, the two Sets and Group.Add; the snapshot it applies is Match's.
ResumeBind ==
  /\ task.pc = "resume_bind"
  /\ uid' = [uid EXCEPT ![task.s] = task.u]
  /\ uidToSession' = [uidToSession EXCEPT ![task.u] = task.s]
  /\ room_id' = [room_id EXCEPT ![task.s] = task.id]
  /\ resume_token' = [resume_token EXCEPT ![task.s] = task.tok]
  /\ Group' = [Group EXCEPT ![task.r] = @ \cup {task.s}]
  /\ task' = idle
  /\ UNCHANGED <<conn, rooms, roomCount, Players, HostUID, matchVars, tokenVars, tombstones, now,
                 sweepVars>>

-----------------------------------------------------------------------------
(* The sweeper goroutine: GetExpiredAndRemove, then doLeaveByUID for each. *)

Sweep ==
  /\ sweep = {} /\ evict = noEvict
  /\ \E x \in tombstones : Lapsed(x.tok)
  /\ sweep' = {x \in tombstones : Lapsed(x.tok)}
  /\ tombstones' = tombstones \ sweep'
  /\ UNCHANGED <<evict, sessionVars, memberVars, matchVars, tokenVars, now, task>>

EvictPlayer(x) ==
  /\ evict = noEvict
  /\ sweep' = sweep \ {x}
  /\ LET r == rooms[x.room] IN
       \/ r # 0 /\ RemovePlayer(r, x.uid) /\ evict' = [r |-> r, id |-> x.room]
       \/ r = 0 /\ UNCHANGED <<Players, HostUID, evict>>
  /\ UNCHANGED <<sessionVars, rooms, roomCount, Group, matchVars, tokenVars, tombstones, now, task>>

EvictReap ==
  /\ evict # noEvict
  /\ Reap(evict.r, evict.id)
  /\ evict' = noEvict
  /\ UNCHANGED <<sweep, sessionVars, roomCount, Players, Group, HostUID, matchVars, tokenVars,
                 tombstones, now, task>>

-----------------------------------------------------------------------------
HandlerStart ==
  \E s \in Session :
    \/ \E u \in UID : Auth(s, u)
    \/ \E id \in RoomId : Join(s, id) \/ Create(s, id)
    \/ Leave(s) \/ StartGame(s) \/ Return(s) \/ Die(s)
    \/ Disconnect(s) \/ Resume(s)

HandlerStep ==
  \/ LeaveRoom \/ LeaveReap
  \/ JoinLookup \/ CreateRoom \/ EnterGroup \/ Enrol
  \/ DropGroup
  \/ ResumeLookup \/ ResumeBind

\* Slip: the sweeper drops expired tombstones without calling onExpired.
Sweeper_NoCallback == Sweep \/ EvictReap

Sweeper == Sweep \/ (\E x \in sweep : EvictPlayer(x)) \/ EvictReap

Next == HandlerStart \/ HandlerStep \/ Sweeper \/ Tick

Spec == Init /\ [][Next]_vars

\* A started handler finishes, the sweeper's ticker keeps firing and time passes; no player
\* has to do anything.
FairSpec == Spec /\ WF_vars(HandlerStep) /\ WF_vars(Sweeper) /\ WF_vars(Tick)

-----------------------------------------------------------------------------
(* Safety *)

\* A registered room's group holds only sessions that are in that room, and a closed session
\* only between the store of its tombstone and its Group.Leave: whatever handler or eviction
\* runs in between, broadcasts go to the room's own members.
GroupSound ==
  \A id \in RoomId : rooms[id] # 0 =>
    \A s \in Group[rooms[id]] :
      IF Live(s) THEN room_id[s] = id ELSE task.pc = "drop_group" /\ task.s = s

\* A tombstone is filed under a token whose signature covers its own player and room, so a
\* Resume that consumes it never fails VerifyResumeToken and loses the seat.
TombstoneMatchesToken ==
  \A x \in tombstones : token[x.tok].uid = x.uid /\ token[x.tok].room = x.room

\* The session that Auth would kick for an account is a live one of that account.
TrackedIsLive ==
  \A u \in UID : uidToSession[u] # NoSession =>
    Live(uidToSession[u]) /\ uid[uidToSession[u]] = u

\* u's seat in the room registered as id is held by a session, by a tombstone that will be
\* swept, or by the handler or sweep that is just releasing or resuming it.
Held(u, id) ==
  \/ \E s \in Group[rooms[id]] : Live(s) /\ uid[s] = u
  \/ \E x \in tombstones \cup sweep : x.uid = u /\ x.room = id
  \/ task.pc \in {"leave_room", "resume_lookup", "resume_bind"} /\ task.u = u /\ task.id = id

\* u is listed in the room registered as id, with nobody left to remove it.
Orphan(u, id) == rooms[id] # 0 /\ u \in Players[rooms[id]] /\ ~Held(u, id)

\* A step that begins a leave of another room and drops the tombstone of u's seat in id.
LeavesBehind(u, id) ==
  /\ task.pc = "idle" /\ task'.pc = "leave_room" /\ task'.u = u /\ task'.id # id
  /\ \E x \in tombstones \ tombstones' : x.uid = u /\ x.room = id

\* No player stays listed in a room with nobody left to remove it.  It holds as long as no
\* step LeavesBehind: RoomServer_ghost.cfg shows a leave of one room orphaning another.
SeatsHeld ==
  \A id \in RoomId : rooms[id] # 0 => \A u \in Players[rooms[id]] : Held(u, id)

\* That leave is the only way: no interleaving of the other handlers, lost connections,
\* resumptions and evictions leaves a player behind (GlobalTombstoneStore.Remove in doLeave).
OrphanedByLeaveOnly ==
  [][\A u \in UID, id \in RoomId :
       Orphan(u, id)' => Orphan(u, id) \/ LeavesBehind(u, id)]_vars

\* A player that has lost its connection comes back or is removed.
Absent(u, id) ==
  /\ rooms[id] # 0
  /\ u \in Players[rooms[id]]
  /\ ~\E s \in Group[rooms[id]] : Live(s) /\ uid[s] = u

AbsenceEnds == \A u \in UID, id \in RoomId : Absent(u, id) ~> ~Absent(u, id)
=============================================================================
