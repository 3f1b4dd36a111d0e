-------------------------------- MODULE Match --------------------------------
(***************************************************************************)
(* A match on the game server: the GameState of one NanoRoom, the handlers *)
(* of RoomComponent that change it and the game loops that tick it         *)
(* (server/logic/room.go, server/logic/models.go).                         *)
(*                                                                         *)
(* Every StartGame starts a goroutine that runs runGameLoop; a loop stops  *)
(* by itself, at its next tick, when it finds that the match is over or    *)
(* that the room's group is empty.  All loops of a room share the room's   *)
(* GameState.  Handlers run one at a time on the nano scheduler; most hold *)
(* c.lock from end to end, MarkDisconnected and Resume do not, and a loop  *)
(* may tick in the middle of them.                                         *)
(*                                                                         *)
(* Who is in the room, and for how long its tombstones live, is the        *)
(* subject of RoomServer: here each of those steps is one action, and the  *)
(* model ends when the room is deleted.                                    *)
(***************************************************************************)
EXTENDS Integers, FiniteSets

CONSTANTS
  UID,            \* accounts
  Loop,           \* bound: game loops that can run at the same time
  Bomb,           \* bound: bombs that can be ticking at the same time
  TicksPerSecond, \* 20: the loop's ticker fires every 50 ms
  MatchTime,      \* 300 s
  FuseTicks,      \* 40: 2.0 s
  CooldownTicks,  \* 6: 300 ms
  ShieldMax       \* bound: the highest shield count a client reports

ASSUME ConstantsAssumption ==
  /\ IsFiniteSet(UID)
  /\ TicksPerSecond \in Nat \ {0} /\ MatchTime \in Nat \ {0} /\ FuseTicks \in Nat \ {0}
  /\ CooldownTicks \in Nat /\ ShieldMax \in Nat

VARIABLES
  registered,     \* c.rooms still holds the room
  Players,        \* NanoRoom.Players
  Group,          \* the players with a session in NanoRoom.Group
  State, InGame, DeadPlayers, MaxEvacSlots, EvacuatedCount,  \* fields of the NanoRoom
  HasGameState,   \* GameState # nil
  GameState,      \* GameState.Players: the states of the match's players
  Bombs,          \* GameState.Bombs: ticks left on each fuse, 0 for a bomb that is not there
  RemainingTime,  \* GameState.RemainingTime
  tombstones,     \* the snapshot in each player's tombstone
  loops,          \* the running game loops, and the time each has accumulated, in ticks
  due,            \* the loops that have yet to tick in the current 50 ms
  task,           \* the handler in flight
  evacuated       \* history: players that onPlayerEvacuated was broadcast for in this match

roomVars  == <<registered, Players, Group>>
stateVars == <<State, InGame, DeadPlayers>>
evacVars  == <<MaxEvacSlots, EvacuatedCount, evacuated>>
gameVars  == <<HasGameState, GameState, Bombs, RemainingTime>>
loopVars  == <<loops, due>>
vars == <<roomVars, stateVars, evacVars, gameVars, tombstones, loopVars, task>>

\* since: ticks since LastDamageTime, up to the cooldown; a zero LastDamageTime is long ago.
PlayerState == [shield : 0 .. ShieldMax, IsDead : BOOLEAN, IsEvacuated : BOOLEAN,
                since : 0 .. CooldownTicks]

\* A player at the start of a match.
Fresh == [shield |-> 0, IsDead |-> FALSE, IsEvacuated |-> FALSE, since |-> CooldownTicks]

none == -2     \* no tombstone
bare == -1     \* a tombstone without a snapshot
Snapshot == 0 .. ShieldMax    \* of the fields a snapshot restores, the one the server changes

idle == [pc |-> "idle", u |-> {}, snap |-> none]

FlagsOK == registered \in BOOLEAN /\ InGame \in BOOLEAN /\ HasGameState \in BOOLEAN

MembersOK ==
  /\ Players \subseteq UID /\ Group \subseteq UID
  /\ State \in {"WAITING", "PLAYING"}
  /\ DeadPlayers \subseteq UID

EvacOK ==
  /\ MaxEvacSlots \in -1 .. Cardinality(UID)
  /\ EvacuatedCount \in 0 .. Cardinality(UID)
  /\ evacuated \subseteq UID

GameOK ==
  /\ DOMAIN GameState \subseteq UID /\ GameState \in [DOMAIN GameState -> PlayerState]
  /\ Bombs \in [Bomb -> 0 .. FuseTicks]
  /\ RemainingTime \in 0 .. MatchTime

LoopsOK ==
  /\ DOMAIN loops \subseteq Loop /\ loops \in [DOMAIN loops -> 0 .. TicksPerSecond - 1]
  /\ due \subseteq DOMAIN loops

TaskOK ==
  /\ tombstones \in [UID -> Snapshot \cup {none, bare}]
  /\ task = idle \/ task \in [pc : {"mark", "resume"}, u : {{u} : u \in UID},
                              snap : Snapshot \cup {bare}]

TypeOK == FlagsOK /\ MembersOK /\ EvacOK /\ GameOK /\ LoopsOK /\ TaskOK

\* A room with its first players, none of them disconnected yet.
Init ==
  /\ registered = TRUE
  /\ Players \in SUBSET UID \ {{}} /\ Group = Players
  /\ State = "WAITING" /\ InGame = FALSE /\ DeadPlayers = {}
  /\ MaxEvacSlots = 0 /\ EvacuatedCount = 0 /\ evacuated = {}
  /\ HasGameState = FALSE /\ GameState = [p \in {} |-> Fresh] /\ Bombs = [b \in Bomb |-> 0]
  /\ RemainingTime = MatchTime
  /\ tombstones = [u \in UID |-> none]
  /\ loops = [l \in {} |-> 0] /\ due = {}
  /\ task = idle

HasState(u) == u \in DOMAIN GameState

\* A handler for a member of the room: room_id is set and c.rooms has the room.
Handler(u) == task = idle /\ registered /\ u \in Group

-----------------------------------------------------------------------------
(* Membership, each handler or eviction in one step *)

Join(u) ==
  /\ task = idle /\ registered /\ u \notin Group
  /\ Group # {} /\ State = "WAITING" /\ u \notin DeadPlayers
  /\ Players' = Players \cup {u}
  /\ Group' = Group \cup {u}
  /\ UNCHANGED <<registered, stateVars, evacVars, gameVars, tombstones, loopVars, task>>

Leave(u) ==
  /\ Handler(u)
  /\ tombstones' = [tombstones EXCEPT ![u] = none]
  /\ Players' = Players \ {u}
  /\ Group' = Group \ {u}
  /\ registered' = (Group' # {})
  /\ InGame' = (InGame /\ registered')
  /\ UNCHANGED <<State, DeadPlayers, evacVars, gameVars, loopVars, task>>

\* The sweeper: the tombstone has expired.  A room that is deleted is no longer in a game.
Evict(u) ==
  /\ tombstones[u] # none
  /\ tombstones' = [tombstones EXCEPT ![u] = none]
  /\ Players' = IF registered THEN Players \ {u} ELSE Players
  /\ registered' = (registered /\ Group # {})
  /\ InGame' = (InGame /\ (registered => registered'))
  /\ UNCHANGED <<Group, State, DeadPlayers, evacVars, gameVars, loopVars, task>>

-----------------------------------------------------------------------------
(* Start and end of a match *)

\* Slip: one slot for every player.
EvacSlots_All == Cardinality(Players)

EvacSlots == Cardinality(Players) - 1

\* The first tick of the new loop is 50 ms away.
StartGame(u) ==
  /\ Handler(u)
  /\ InGame' = TRUE /\ State' = "PLAYING"
  /\ MaxEvacSlots' = EvacSlots
  /\ EvacuatedCount' = 0 /\ evacuated' = {}
  /\ HasGameState' = TRUE /\ GameState' = [p \in Players |-> Fresh]
  /\ Bombs' = [b \in Bomb |-> 0]
  /\ RemainingTime' = MatchTime
  /\ \E l \in Loop \ DOMAIN loops :
       loops' = [k \in DOMAIN loops \cup {l} |-> IF k = l THEN 0 ELSE loops[k]]
  /\ UNCHANGED <<roomVars, DeadPlayers, tombstones, due, task>>

Return(u) ==
  /\ Handler(u)
  /\ InGame' = FALSE /\ State' = "WAITING" /\ DeadPlayers' = {}
  /\ EvacuatedCount' = 0 /\ MaxEvacSlots' = 0 /\ evacuated' = {}
  /\ UNCHANGED <<roomVars, gameVars, tombstones, loopVars, task>>

-----------------------------------------------------------------------------
(* What players do in a match *)

PlaceBomb(u) ==
  /\ Handler(u) /\ HasGameState
  /\ \E b \in Bomb : Bombs[b] = 0 /\ Bombs' = [Bombs EXCEPT ![b] = FuseTicks]
  /\ UNCHANGED <<roomVars, stateVars, evacVars, HasGameState, GameState, RemainingTime, tombstones,
                 loopVars, task>>

\* The count the client reports replaces the server's.
UpdateStats(u, shields) ==
  /\ Handler(u) /\ HasState(u)
  /\ GameState' = [GameState EXCEPT ![u].shield = shields]
  /\ UNCHANGED <<roomVars, stateVars, evacVars, HasGameState, Bombs, RemainingTime, tombstones,
                 loopVars, task>>

Die(u) ==
  /\ Handler(u)
  /\ DeadPlayers' = DeadPlayers \cup {u}
  /\ GameState' = IF HasState(u) THEN [GameState EXCEPT ![u].IsDead = TRUE] ELSE GameState
  /\ UNCHANGED <<roomVars, State, InGame, evacVars, HasGameState, Bombs, RemainingTime, tombstones,
                 loopVars, task>>

\* A client asks once a match; the broadcast is all that marks the player.
Evacuate(u) ==
  /\ Handler(u) /\ u \notin evacuated
  /\ EvacuatedCount < MaxEvacSlots
  /\ EvacuatedCount' = EvacuatedCount + 1
  /\ evacuated' = evacuated \cup {u}
  /\ UNCHANGED <<roomVars, stateVars, MaxEvacSlots, gameVars, tombstones, loopVars, task>>

-----------------------------------------------------------------------------
(* Disconnection: the snapshot is taken under c.lock, the group left later *)

SnapshotRestorable(u) == IF HasState(u) THEN GameState[u].shield ELSE bare

MarkDisconnected(u) ==
  /\ task = idle /\ u \in Group
  /\ task' = [pc |-> "mark", u |-> {u}, snap |-> IF registered THEN SnapshotRestorable(u) ELSE bare]
  /\ UNCHANGED <<roomVars, stateVars, evacVars, gameVars, tombstones, loopVars>>

StoreAndLeaveGroup ==
  /\ task.pc = "mark"
  /\ tombstones' = [p \in UID |-> IF p \in task.u THEN task.snap ELSE tombstones[p]]
  /\ Group' = Group \ task.u
  /\ task' = idle
  /\ UNCHANGED <<registered, Players, stateVars, evacVars, gameVars, loopVars>>

Resume(u) ==
  /\ task = idle /\ tombstones[u] # none
  /\ tombstones' = [tombstones EXCEPT ![u] = none]
  /\ IF registered
     THEN /\ Group' = Group \cup {u}
          /\ task' = [pc |-> "resume", u |-> {u}, snap |-> tombstones[u]]
     ELSE UNCHANGED <<Group, task>>
  /\ UNCHANGED <<registered, Players, stateVars, evacVars, gameVars, loopVars>>

\* Slip: the snapshot replaces the whole state of the player.
ApplySnapshot_Whole(u, snap) ==
  GameState' = [p \in DOMAIN GameState \cup {u} |->
                  IF p = u THEN [Fresh EXCEPT !.shield = snap] ELSE GameState[p]]

\* A player that has a state keeps its death, its evacuation and its last damage.
ApplySnapshot(u, snap) ==
  GameState' = [p \in DOMAIN GameState \cup {u} |->
                  IF p # u THEN GameState[p]
                  ELSE IF HasState(u) THEN [GameState[u] EXCEPT !.shield = snap]
                  ELSE [Fresh EXCEPT !.shield = snap]]

Restore ==
  /\ task.pc = "resume"
  /\ IF HasGameState /\ task.snap # bare THEN \E u \in task.u : ApplySnapshot(u, task.snap)
     ELSE UNCHANGED GameState
  /\ task' = idle
  /\ UNCHANGED <<roomVars, stateVars, evacVars, HasGameState, Bombs, RemainingTime, tombstones,
                 loopVars>>

-----------------------------------------------------------------------------
(* The game loop *)

Exploding == {b \in Bomb : Bombs[b] = 1}

Damage(ps) ==
  IF ps.shield > 0 THEN [ps EXCEPT !.shield = @ - 1, !.since = 0]
  ELSE [ps EXCEPT !.IsDead = TRUE, !.since = 0]

\* Whom a blast can hurt; a blast in the same tick as another hurts nobody twice.
Hurts(p) == LET ps == GameState[p] IN ~ps.IsDead /\ ~ps.IsEvacuated /\ ps.since >= CooldownTicks

\* Slip: the dead are listed before the damage is done.
UpdateBombs_ListsEarly ==
  /\ Bombs' = [b \in Bomb |-> IF Bombs[b] = 0 THEN 0 ELSE Bombs[b] - 1]
  /\ \E hit \in SUBSET {p \in DOMAIN GameState : Exploding # {} /\ Hurts(p)} :
       /\ GameState' = [p \in DOMAIN GameState |->
                          IF p \in hit THEN Damage(GameState[p]) ELSE GameState[p]]
       /\ DeadPlayers' = DeadPlayers \cup {p \in hit : GameState[p].IsDead}

\* Whoever stands in the blast of a bomb that goes off at this tick: any set of players.
UpdateBombs ==
  /\ Bombs' = [b \in Bomb |-> IF Bombs[b] = 0 THEN 0 ELSE Bombs[b] - 1]
  /\ \E hit \in SUBSET {p \in DOMAIN GameState : Exploding # {} /\ Hurts(p)} :
       /\ GameState' = [p \in DOMAIN GameState |->
                          IF p \in hit THEN Damage(GameState[p]) ELSE GameState[p]]
       /\ DeadPlayers' = DeadPlayers \cup {p \in hit : GameState'[p].IsDead}

\* Slip: the countdown does not stop at zero.
Countdown_NoFloor(l) ==
  IF loops[l] + 1 = TicksPerSecond
  THEN loops' = [loops EXCEPT ![l] = 0] /\ RemainingTime' = RemainingTime - 1
  ELSE loops' = [loops EXCEPT ![l] = @ + 1] /\ UNCHANGED RemainingTime

Countdown(l) ==
  IF loops[l] + 1 = TicksPerSecond
  THEN /\ loops' = [loops EXCEPT ![l] = 0]
       /\ RemainingTime' = IF RemainingTime > 0 THEN RemainingTime - 1 ELSE 0
  ELSE /\ loops' = [loops EXCEPT ![l] = @ + 1]
       /\ UNCHANGED RemainingTime

\* Slip: a loop stops when a player of the room is away.
Stops_OneAway == ~InGame \/ Group # Players

Stops == ~InGame \/ Group = {}

LoopTick(l) ==
  /\ l \in due
  /\ due' = due \ {l}
  /\ IF Stops
     THEN /\ loops' = [k \in DOMAIN loops \ {l} |-> loops[k]]
          /\ UNCHANGED <<GameState, Bombs, RemainingTime, DeadPlayers>>
     ELSE Countdown(l) /\ UpdateBombs
  /\ UNCHANGED <<roomVars, State, InGame, evacVars, HasGameState, tombstones, task>>

\* 50 ms later: every running loop is to tick again.
Advance ==
  /\ due = {} /\ DOMAIN loops # {}
  /\ due' = DOMAIN loops
  /\ GameState' = [p \in DOMAIN GameState |->
                     [GameState[p] EXCEPT !.since = IF @ < CooldownTicks THEN @ + 1 ELSE @]]
  /\ UNCHANGED <<roomVars, stateVars, evacVars, HasGameState, Bombs, RemainingTime, tombstones,
                 loops, task>>

-----------------------------------------------------------------------------
HandlerStep == StoreAndLeaveGroup \/ Restore

Next ==
  \/ \E u \in UID :
       \/ Join(u) \/ Leave(u) \/ Evict(u)
       \/ StartGame(u) \/ Return(u)
       \/ PlaceBomb(u) \/ Die(u) \/ Evacuate(u)
       \/ \E n \in 0 .. ShieldMax : UpdateStats(u, n)
       \/ MarkDisconnected(u) \/ Resume(u)
  \/ HandlerStep
  \/ \E l \in Loop : LoopTick(l)
  \/ Advance

Spec == Init /\ [][Next]_vars

\* A started handler finishes and the tickers keep firing; no player has to do anything.
FairSpec ==
  Spec /\ WF_vars(HandlerStep) /\ WF_vars(Advance) /\ WF_vars(\E l \in Loop : LoopTick(l))

-----------------------------------------------------------------------------
(* Properties *)

\* Who is dead in the match is listed as dead while it lasts, so a dead player cannot come
\* back through Join.
DeadAreListed ==
  InGame => \A p \in UID : HasState(p) /\ GameState[p].IsDead => p \in DeadPlayers

\* Fewer players are evacuated than the match began with, whoever has left or come back.
SomeoneStays ==
  InGame /\ DOMAIN GameState # {} =>
    Cardinality(evacuated) < Cardinality(DOMAIN GameState)

SameMatch == ~(\E u \in UID : StartGame(u))

\* Within a match nobody rises from the dead: no disconnection, tick and resumption, in
\* whatever order, loses a death.
DeadStayDead ==
  [][SameMatch => \A p \in UID :
       HasState(p) /\ GameState[p].IsDead => HasState(p)' /\ GameState'[p].IsDead]_vars

\* While the room never empties, a bomb goes off or the match is over.  Once the room has been
\* empty at a tick, the loop is gone and no resumption starts another.
BombsGoOff ==
  [](Group # {}) =>
    \A b \in Bomb : InGame /\ Bombs[b] > 0 ~> ~InGame \/ Bombs[b] = 0
=============================================================================
