----------------------------- MODULE Match_proofs -----------------------------
(***************************************************************************)
(* Proofs about Match, for every number of players, loops and bombs and    *)
(* every timing.                                                           *)
(*                                                                         *)
(* DeadAreListed is inductive next to the types.  SomeoneStays is not: the *)
(* evacuated are counted against slots that were computed when the match   *)
(* began.  SlotsOK relates the three.  Driven is inductive only as long    *)
(* as the room does not empty, for a loop that finds it empty is gone.     *)
(***************************************************************************)
EXTENDS Match, FiniteSetTheorems, TLAPS

\* The counter counts, within the slots; and the slots leave one player of the match.
SlotsOK ==
  /\ Cardinality(evacuated) = EvacuatedCount
  /\ EvacuatedCount = 0 \/ EvacuatedCount <= MaxEvacSlots
  /\ InGame => MaxEvacSlots < Cardinality(DOMAIN GameState)

IInv == TypeOK /\ DeadAreListed /\ SlotsOK

USE DEF roomVars, stateVars, evacVars, gameVars, loopVars

-----------------------------------------------------------------------------
(* Types *)

\* The flags stay Booleans.
LEMMA FlagsStep ==
  ASSUME FlagsOK, [Next]_vars
  PROVE  FlagsOK'
<1> USE DEF FlagsOK
<1>1. ASSUME NEW u \in UID, Join(u) \/ UpdateStats(u, 0) \/ PlaceBomb(u) \/ Die(u) \/ Evacuate(u)
      PROVE  FlagsOK'
  BY <1>1, ZenonT(60) DEF Join, UpdateStats, PlaceBomb, Die, Evacuate
<1>2. ASSUME NEW u \in UID, Leave(u) PROVE FlagsOK'
  BY <1>2, ZenonT(60) DEF Leave
<1>3. ASSUME NEW u \in UID, Evict(u) PROVE FlagsOK'
  BY <1>3, ZenonT(60) DEF Evict
<1>4. ASSUME NEW u \in UID, StartGame(u) \/ Return(u) PROVE FlagsOK'
  BY <1>4, ZenonT(60) DEF StartGame, Return
<1>5. ASSUME NEW u \in UID, NEW n \in 0 .. ShieldMax, UpdateStats(u, n) PROVE FlagsOK'
  BY <1>5, ZenonT(60) DEF UpdateStats
<1>6. ASSUME NEW u \in UID, MarkDisconnected(u) \/ Resume(u) PROVE FlagsOK'
  BY <1>6, ZenonT(60) DEF MarkDisconnected, Resume
<1>7. CASE HandlerStep \/ Advance
  BY <1>7, ZenonT(60) DEF HandlerStep, StoreAndLeaveGroup, Restore, Advance
<1>8. ASSUME NEW l \in Loop, LoopTick(l) PROVE FlagsOK'
  BY <1>8, ZenonT(60) DEF LoopTick
<1>9. CASE UNCHANGED vars
  BY <1>9, ZenonT(60) DEF vars
<1> QED BY <1>1, <1>2, <1>3, <1>4, <1>5, <1>6, <1>7, <1>8, <1>9 DEF Next

\* Players, group and dead are accounts.
LEMMA MembersStep ==
  ASSUME MembersOK, GameOK, TaskOK, [Next]_vars
  PROVE  MembersOK'
<1> USE DEF MembersOK
<1>1. ASSUME NEW u \in UID, Join(u) \/ Leave(u) \/ Evict(u) PROVE MembersOK'
  BY <1>1 DEF Join, Leave, Evict
<1>2. ASSUME NEW u \in UID, StartGame(u) \/ Return(u) \/ PlaceBomb(u) \/ Die(u) \/ Evacuate(u)
      PROVE  MembersOK'
  BY <1>2 DEF StartGame, Return, PlaceBomb, Die, Evacuate
<1>3. ASSUME NEW u \in UID, NEW n \in 0 .. ShieldMax, UpdateStats(u, n) PROVE MembersOK'
  BY <1>3 DEF UpdateStats
<1>4. ASSUME NEW u \in UID, MarkDisconnected(u) \/ Resume(u) PROVE MembersOK'
  BY <1>4 DEF MarkDisconnected, Resume
<1>5. CASE HandlerStep \/ Advance
  BY <1>5 DEF HandlerStep, StoreAndLeaveGroup, Restore, Advance
<1>6. ASSUME NEW l \in Loop, LoopTick(l) PROVE MembersOK'
  BY <1>6 DEF LoopTick, UpdateBombs, Hurts, GameOK
<1>7. CASE UNCHANGED vars
  BY <1>7 DEF vars
<1> QED BY <1>1, <1>2, <1>3, <1>4, <1>5, <1>6, <1>7 DEF Next

\* A state that is fresh, or that another one is made of, is a state.
LEMMA StateType ==
  /\ Fresh \in PlayerState
  /\ \A ps \in PlayerState : Damage(ps) \in PlayerState
  /\ \A ps \in PlayerState : [ps EXCEPT !.IsDead = TRUE] \in PlayerState
  /\ \A ps \in PlayerState, n \in Snapshot : [ps EXCEPT !.shield = n] \in PlayerState
  /\ \A ps \in PlayerState :
       [ps EXCEPT !.since = IF @ < CooldownTicks THEN @ + 1 ELSE @] \in PlayerState
<1> USE ConstantsAssumption DEF ConstantsAssumption, PlayerState
<1>1. Fresh \in PlayerState
  BY DEF Fresh
<1>2. ASSUME NEW ps \in PlayerState PROVE Damage(ps) \in PlayerState
  <2>1. CASE ps.shield > 0
    <3>1. ps.shield - 1 \in 0 .. ShieldMax /\ 0 \in 0 .. CooldownTicks
      BY <1>2, <2>1
    <3>2. Damage(ps) = [ps EXCEPT !.shield = ps.shield - 1, !.since = 0]
      BY <2>1 DEF Damage
    <3> QED BY <1>2, <3>1, <3>2, ZenonT(30)
  <2>2. CASE ~(ps.shield > 0)
    <3>1. 0 \in 0 .. CooldownTicks
      OBVIOUS
    <3>2. Damage(ps) = [ps EXCEPT !.IsDead = TRUE, !.since = 0]
      BY <2>2 DEF Damage
    <3> QED BY <1>2, <3>1, <3>2, ZenonT(30)
  <2> QED BY <2>1, <2>2
<1>3. ASSUME NEW ps \in PlayerState PROVE [ps EXCEPT !.IsDead = TRUE] \in PlayerState
  BY <1>3
<1>4. ASSUME NEW ps \in PlayerState, NEW n \in Snapshot
      PROVE [ps EXCEPT !.shield = n] \in PlayerState
  BY <1>4 DEF Snapshot
<1>5. ASSUME NEW ps \in PlayerState
      PROVE [ps EXCEPT !.since = IF @ < CooldownTicks THEN @ + 1 ELSE @] \in PlayerState
  BY <1>5
<1> QED BY <1>1, <1>2, <1>3, <1>4, <1>5

\* The states of the match stay states of accounts, the fuses and the clock within their ranges.
LEMMA GameStep ==
  ASSUME TypeOK, [Next]_vars
  PROVE  GameOK'
<1> USE DEF TypeOK, GameOK
<1>1. ASSUME NEW u \in UID, StartGame(u) PROVE GameOK'
  BY <1>1, StateType, ConstantsAssumption DEF ConstantsAssumption, StartGame, MembersOK
<1>2. ASSUME NEW u \in UID, PlaceBomb(u) PROVE GameOK'
  BY <1>2, ConstantsAssumption DEF ConstantsAssumption, PlaceBomb
<1>3. ASSUME NEW u \in UID, NEW n \in 0 .. ShieldMax, UpdateStats(u, n) PROVE GameOK'
  BY <1>3, StateType DEF UpdateStats, Snapshot
<1>4. ASSUME NEW u \in UID, Die(u) PROVE GameOK'
  BY <1>4, StateType DEF Die
<1>5. CASE Restore
  <2>1. task \in [pc : {"mark", "resume"}, u : {{u} : u \in UID}, snap : Snapshot \cup {bare}]
    BY <1>5 DEF Restore, TaskOK, idle
  <2>2. ASSUME NEW u \in UID, NEW n \in Snapshot, ApplySnapshot(u, n)
        PROVE  DOMAIN GameState' \subseteq UID /\ GameState' \in [DOMAIN GameState' -> PlayerState]
    BY <2>2, StateType DEF ApplySnapshot, HasState
  <2> QED BY <1>5, <2>1, <2>2 DEF Restore
<1>6. ASSUME NEW l \in Loop, LoopTick(l) PROVE GameOK'
  <2>1. CASE Stops
    BY <1>6, <2>1 DEF LoopTick
  <2>2. CASE ~Stops
    <3>1. Countdown(l) /\ UpdateBombs
      BY <1>6, <2>2 DEF LoopTick
    <3>2. RemainingTime' \in 0 .. MatchTime
      BY <3>1, ConstantsAssumption DEF ConstantsAssumption, Countdown
    <3>3. Bombs' \in [Bomb -> 0 .. FuseTicks]
      BY <3>1, ConstantsAssumption DEF ConstantsAssumption, UpdateBombs
    <3>4. DOMAIN GameState' = DOMAIN GameState /\ GameState' \in [DOMAIN GameState -> PlayerState]
      BY <3>1, StateType DEF UpdateBombs
    <3> QED BY <3>2, <3>3, <3>4
  <2> QED BY <2>1, <2>2
<1>7. CASE Advance
  BY <1>7, StateType DEF Advance
<1>8. ASSUME NEW u \in UID,
             \/ Join(u) \/ Leave(u) \/ Evict(u) \/ Return(u) \/ Evacuate(u)
             \/ MarkDisconnected(u) \/ Resume(u)
      PROVE  GameOK'
  BY <1>8 DEF Join, Leave, Evict, Return, Evacuate, MarkDisconnected, Resume
<1>9. CASE StoreAndLeaveGroup \/ UNCHANGED vars
  BY <1>9 DEF StoreAndLeaveGroup, vars
<1> QED BY <1>1, <1>2, <1>3, <1>4, <1>5, <1>6, <1>7, <1>8, <1>9 DEF Next, HandlerStep

\* A loop that is due is running, and has accumulated less than a second.
LEMMA LoopsStep ==
  ASSUME LoopsOK, [Next]_vars
  PROVE  LoopsOK'
<1> USE DEF LoopsOK
<1>1. ASSUME NEW u \in UID, StartGame(u) PROVE LoopsOK'
  BY <1>1, ConstantsAssumption DEF ConstantsAssumption, StartGame
<1>2. ASSUME NEW l \in Loop, LoopTick(l) PROVE LoopsOK'
  <2>1. CASE Stops
    BY <1>2, <2>1 DEF LoopTick
  <2>2. CASE ~Stops
    <3>1. Countdown(l) /\ l \in due /\ due' = due \ {l}
      BY <1>2, <2>2 DEF LoopTick
    <3> QED BY <3>1, ConstantsAssumption DEF ConstantsAssumption, Countdown
  <2> QED BY <2>1, <2>2
<1>3. CASE Advance
  BY <1>3 DEF Advance
<1>4. ASSUME NEW u \in UID,
             \/ Join(u) \/ Leave(u) \/ Evict(u) \/ Return(u) \/ PlaceBomb(u) \/ Die(u)
             \/ Evacuate(u) \/ MarkDisconnected(u) \/ Resume(u)
      PROVE  LoopsOK'
  BY <1>4 DEF Join, Leave, Evict, Return, PlaceBomb, Die, Evacuate, MarkDisconnected, Resume
<1>5. ASSUME NEW u \in UID, NEW n \in 0 .. ShieldMax, UpdateStats(u, n) PROVE LoopsOK'
  BY <1>5 DEF UpdateStats
<1>6. CASE HandlerStep \/ UNCHANGED vars
  BY <1>6 DEF HandlerStep, StoreAndLeaveGroup, Restore, vars
<1> QED BY <1>1, <1>2, <1>3, <1>4, <1>5, <1>6 DEF Next

\* A tombstone has a snapshot, none, or is not there; a handler in flight has one of the first two.
LEMMA TaskStep ==
  ASSUME TaskOK, GameOK, [Next]_vars
  PROVE  TaskOK'
<1> USE DEF TaskOK, none, bare
<1>1. ASSUME NEW u \in UID, Leave(u) \/ Evict(u) PROVE TaskOK'
  BY <1>1 DEF Leave, Evict
<1>2. ASSUME NEW u \in UID, MarkDisconnected(u) PROVE TaskOK'
  BY <1>2 DEF MarkDisconnected, SnapshotRestorable, HasState, GameOK, PlayerState, Snapshot
<1>3. ASSUME NEW u \in UID, Resume(u) PROVE TaskOK'
  BY <1>3 DEF Resume
<1>4. CASE StoreAndLeaveGroup
  <2>1. task.snap \in Snapshot \cup {bare} /\ task' = idle
    BY <1>4 DEF StoreAndLeaveGroup, idle
  <2> QED BY <1>4, <2>1 DEF StoreAndLeaveGroup
<1>5. CASE Restore
  BY <1>5 DEF Restore
<1>6. ASSUME NEW u \in UID,
             Join(u) \/ StartGame(u) \/ Return(u) \/ PlaceBomb(u) \/ Die(u) \/ Evacuate(u)
      PROVE  TaskOK'
  BY <1>6 DEF Join, StartGame, Return, PlaceBomb, Die, Evacuate
<1>7. ASSUME NEW u \in UID, NEW n \in 0 .. ShieldMax, UpdateStats(u, n) PROVE TaskOK'
  BY <1>7 DEF UpdateStats
<1>8. ASSUME NEW l \in Loop, LoopTick(l) PROVE TaskOK'
  BY <1>8 DEF LoopTick
<1>9. CASE Advance \/ UNCHANGED vars
  BY <1>9 DEF Advance, vars
<1> QED BY <1>1, <1>2, <1>3, <1>4, <1>5, <1>6, <1>7, <1>8, <1>9 DEF Next, HandlerStep

-----------------------------------------------------------------------------
(* Evacuation *)

\* The evacuation variables stay in range, and keep to the slots.
LEMMA SlotsStep ==
  ASSUME TypeOK, SlotsOK, [Next]_vars
  PROVE  EvacOK' /\ SlotsOK'
<1> USE DEF SlotsOK, EvacOK
<1>1. /\ IsFiniteSet(UID) /\ Cardinality(UID) \in Nat
      /\ \A S \in SUBSET UID : /\ IsFiniteSet(S) /\ Cardinality(S) \in Nat
                               /\ Cardinality(S) <= Cardinality(UID)
  BY ConstantsAssumption, FS_CardinalityType, FS_Subset DEF ConstantsAssumption
<1>2. ASSUME NEW u \in UID, StartGame(u) PROVE EvacOK' /\ SlotsOK'
  <2>1. DOMAIN GameState' = Players /\ Players \subseteq UID
    BY <1>2 DEF StartGame, TypeOK, MembersOK
  <2> QED BY <1>1, <1>2, <2>1, FS_EmptySet DEF StartGame, EvacSlots
<1>3. ASSUME NEW u \in UID, Return(u) PROVE EvacOK' /\ SlotsOK'
  BY <1>1, <1>3, FS_EmptySet DEF Return
<1>4. ASSUME NEW u \in UID, Evacuate(u) PROVE EvacOK' /\ SlotsOK'
  <2>1. Cardinality(evacuated \cup {u}) = Cardinality(evacuated) + 1
    BY <1>1, <1>4, FS_AddElement DEF Evacuate, TypeOK
  <2> QED BY <1>1, <1>4, <2>1 DEF Evacuate, TypeOK
<1>5. CASE UNCHANGED evacVars /\ (InGame' => InGame) /\ DOMAIN GameState \subseteq DOMAIN GameState'
  <2>1. DOMAIN GameState' \subseteq UID
    BY GameStep DEF GameOK
  <2>2. Cardinality(DOMAIN GameState) <= Cardinality(DOMAIN GameState')
    BY <1>1, <1>5, <2>1, FS_Subset
  <2> QED BY <1>1, <1>5, <2>1, <2>2 DEF TypeOK, GameOK
<1>6. ASSUME NEW u \in UID,
             \/ Join(u) \/ Leave(u) \/ Evict(u) \/ PlaceBomb(u) \/ MarkDisconnected(u) \/ Resume(u)
      PROVE  UNCHANGED evacVars /\ (InGame' => InGame) /\ UNCHANGED GameState
  <2>1. CASE Leave(u) \/ Evict(u)
    <3>1. InGame' => InGame
      BY <2>1, Zenon DEF Leave, Evict
    <3> QED BY <2>1, <3>1 DEF Leave, Evict
  <2>2. CASE Join(u) \/ PlaceBomb(u) \/ MarkDisconnected(u) \/ Resume(u)
    BY <2>2 DEF Join, PlaceBomb, MarkDisconnected, Resume
  <2> QED BY <1>6, <2>1, <2>2
<1>7. ASSUME NEW u \in UID, NEW n \in 0 .. ShieldMax, Die(u) \/ UpdateStats(u, n)
      PROVE  UNCHANGED evacVars /\ UNCHANGED InGame /\ DOMAIN GameState' = DOMAIN GameState
  BY <1>7 DEF Die, UpdateStats
<1>8. CASE HandlerStep
  BY <1>5, <1>8 DEF HandlerStep, StoreAndLeaveGroup, Restore, ApplySnapshot
<1>9. ASSUME NEW l \in Loop, LoopTick(l)
      PROVE  UNCHANGED evacVars /\ UNCHANGED InGame /\ DOMAIN GameState' = DOMAIN GameState
  BY <1>9 DEF LoopTick, UpdateBombs
<1>10. CASE Advance \/ UNCHANGED vars
  BY <1>5, <1>10 DEF Advance, vars
<1>11. CASE \E u \in UID : StartGame(u) \/ Return(u) \/ Evacuate(u)
  BY <1>2, <1>3, <1>4, <1>11
<1>12. CASE UNCHANGED evacVars /\ (InGame' => InGame) /\ DOMAIN GameState' = DOMAIN GameState
  BY <1>5, <1>12
<1>13. CASE \E u \in UID :
              \/ Join(u) \/ Leave(u) \/ Evict(u) \/ PlaceBomb(u) \/ MarkDisconnected(u) \/ Resume(u)
  BY <1>6, <1>12, <1>13
<1>14. CASE \E u \in UID : Die(u) \/ \E n \in 0 .. ShieldMax : UpdateStats(u, n)
  BY <1>7, <1>12, <1>14, ConstantsAssumption DEF ConstantsAssumption
<1>15. CASE \E l \in Loop : LoopTick(l)
  BY <1>9, <1>12, <1>15
<1> QED BY <1>8, <1>10, <1>11, <1>13, <1>14, <1>15 DEF Next

-----------------------------------------------------------------------------
(* Death *)

\* Within a match the dead stay dead, and who dies is listed.
LEMMA DeathStep ==
  ASSUME TypeOK, [Next]_vars, ~(\E u \in UID : StartGame(u))
  PROVE  /\ \A p \in UID : HasState(p) /\ GameState[p].IsDead
                            => HasState(p)' /\ GameState'[p].IsDead
         /\ DeadAreListed => DeadAreListed'
<1> USE DEF TypeOK, GameOK, HasState, DeadAreListed
<1> DEFINE Kept == \A p \in UID : HasState(p) /\ GameState[p].IsDead
                                  => HasState(p)' /\ GameState'[p].IsDead
           NewDead == \A p \in UID : HasState(p)' /\ GameState'[p].IsDead
                                     => HasState(p) /\ GameState[p].IsDead
<1>1. ASSUME NEW u \in UID,
             \/ Join(u) \/ Leave(u) \/ Evict(u) \/ PlaceBomb(u) \/ Evacuate(u)
             \/ MarkDisconnected(u) \/ Resume(u)
      PROVE  Kept /\ (DeadAreListed => DeadAreListed')
  <2>1. UNCHANGED <<GameState, DeadPlayers>> /\ (InGame' => InGame)
    <3>1. CASE Leave(u) \/ Evict(u)
      <4>1. InGame' => InGame
        BY <3>1, Zenon DEF Leave, Evict
      <4> QED BY <3>1, <4>1 DEF Leave, Evict
    <3>2. CASE Join(u) \/ PlaceBomb(u) \/ Evacuate(u) \/ MarkDisconnected(u) \/ Resume(u)
      BY <3>2 DEF Join, PlaceBomb, Evacuate, MarkDisconnected, Resume
    <3> QED BY <1>1, <3>1, <3>2
  <2> QED BY <2>1
<1>2. ASSUME NEW u \in UID, Return(u) PROVE Kept /\ (DeadAreListed => DeadAreListed')
  BY <1>2 DEF Return
<1>3. ASSUME NEW u \in UID, NEW n \in 0 .. ShieldMax, UpdateStats(u, n)
      PROVE  Kept /\ (DeadAreListed => DeadAreListed')
  BY <1>3 DEF UpdateStats, PlayerState
<1>4. ASSUME NEW u \in UID, Die(u) PROVE Kept /\ (DeadAreListed => DeadAreListed')
  BY <1>4 DEF Die, PlayerState
<1>5. CASE Restore
  <2>1. ASSUME NEW u, ApplySnapshot(u, task.snap) PROVE Kept /\ NewDead
    BY <2>1 DEF ApplySnapshot, PlayerState, Fresh
  <2>2. UNCHANGED GameState => Kept /\ NewDead
    OBVIOUS
  <2>3. Kept /\ NewDead /\ UNCHANGED <<InGame, DeadPlayers>>
    BY <1>5, <2>1, <2>2 DEF Restore
  <2> QED BY <2>3
<1>6. ASSUME NEW l \in Loop, LoopTick(l) PROVE Kept /\ (DeadAreListed => DeadAreListed')
  <2>1. CASE Stops
    BY <1>6, <2>1 DEF LoopTick
  <2>2. CASE ~Stops
    <3>1. UpdateBombs /\ UNCHANGED InGame
      BY <1>6, <2>2 DEF LoopTick
    <3>2. \A ps \in PlayerState : ps.IsDead => Damage(ps).IsDead
      BY DEF PlayerState, Damage
    <3> QED BY <3>1, <3>2 DEF UpdateBombs
  <2> QED BY <2>1, <2>2
<1>7. CASE Advance
  BY <1>7 DEF Advance, PlayerState
<1>8. CASE StoreAndLeaveGroup \/ UNCHANGED vars
  BY <1>8 DEF StoreAndLeaveGroup, vars
<1> QED BY <1>1, <1>2, <1>3, <1>4, <1>5, <1>6, <1>7, <1>8 DEF Next, HandlerStep

-----------------------------------------------------------------------------
\* The room is created with the invariant.
LEMMA InitInv == Init => IInv
<1> SUFFICES ASSUME Init PROVE IInv
  OBVIOUS
<1>1. FlagsOK /\ MembersOK
  BY DEF Init, FlagsOK, MembersOK
<1>2. EvacOK /\ SlotsOK
  BY ConstantsAssumption, FS_EmptySet, FS_CardinalityType
     DEF ConstantsAssumption, Init, EvacOK, SlotsOK
<1>3. GameOK /\ LoopsOK
  BY ConstantsAssumption DEF ConstantsAssumption, Init, GameOK, LoopsOK
<1>4. TaskOK
  BY DEF Init, TaskOK
<1>5. DeadAreListed
  BY DEF Init, DeadAreListed
<1> QED BY <1>1, <1>2, <1>3, <1>4, <1>5 DEF IInv, TypeOK

\* IInv is inductive.
LEMMA Invariance == Spec => []IInv
<1>1. IInv /\ [Next]_vars => IInv'
  <2> SUFFICES ASSUME IInv, [Next]_vars PROVE IInv'
    OBVIOUS
  <2>1. TypeOK' /\ SlotsOK'
    BY FlagsStep, MembersStep, GameStep, LoopsStep, TaskStep, SlotsStep DEF IInv, TypeOK
  <2>2. DeadAreListed'
    <3>1. ASSUME NEW u \in UID, StartGame(u) PROVE DeadAreListed'
      BY <3>1 DEF StartGame, DeadAreListed, HasState, Fresh
    <3> QED BY <3>1, DeathStep DEF IInv
  <2> QED BY <2>1, <2>2 DEF IInv
<1> QED BY <1>1, InitInv, PTL DEF Spec

\* A match's variables keep their types: no loop counts the time below zero, no fuse burns on.
THEOREM TypeCorrect == Spec => []TypeOK
<1>1. IInv => TypeOK
  BY DEF IInv
<1> QED BY <1>1, Invariance, PTL

\* Whoever is dead in the running match is listed, so that Join refuses it (room.go:205).
THEOREM DeadListed == Spec => []DeadAreListed
<1>1. IInv => DeadAreListed
  BY DEF IInv
<1> QED BY <1>1, Invariance, PTL

\* Fewer players are evacuated than began the match (room.go:568-569, 772), whoever leaves, is
\* evicted or comes back in between.
THEOREM OneStays == Spec => []SomeoneStays
<1>1. ASSUME IInv PROVE SomeoneStays
  <2>1. DOMAIN GameState # {} => Cardinality(DOMAIN GameState) \in Nat \ {0}
    BY <1>1, ConstantsAssumption, FS_Subset, FS_EmptySet, FS_CardinalityType
       DEF ConstantsAssumption, IInv, TypeOK, GameOK
  <2> QED BY <1>1, <2>1 DEF IInv, TypeOK, EvacOK, SlotsOK, SomeoneStays
<1> QED BY <1>1, Invariance, PTL

\* Within a match nobody rises from the dead, by whatever snapshot is restored.
THEOREM NobodyRises == Spec => DeadStayDead
<1>1. IInv /\ [Next]_vars =>
        [SameMatch => \A p \in UID : HasState(p) /\ GameState[p].IsDead
                                     => HasState(p)' /\ GameState'[p].IsDead]_vars
  BY DeathStep DEF IInv, SameMatch
<1> QED BY <1>1, Invariance, PTL DEF Spec, DeadStayDead

-----------------------------------------------------------------------------
(* What drives a match *)

\* A match has a loop that ticks.
Driven == InGame => DOMAIN loops # {}

\* A burning fuse only gets shorter, and does so at every tick of whichever loop.
FusesBurn ==
  [][\A b \in Bomb : Bombs[b] > 0 =>
       /\ Bombs'[b] <= Bombs[b]
       /\ InGame /\ Group # {} /\ (\E l \in Loop : LoopTick(l)) => Bombs'[b] < Bombs[b]]_vars

\* Only a tick that finds the room empty, or the match over, takes a loop away.
LEMMA DrivenStep ==
  ASSUME LoopsOK, Driven, Group # {}, [Next]_vars
  PROVE  Driven'
<1> USE DEF Driven, LoopsOK
<1>1. ASSUME NEW u \in UID, StartGame(u) PROVE Driven'
  <2>1. PICK l \in Loop :
          loops' = [k \in DOMAIN loops \cup {l} |-> IF k = l THEN 0 ELSE loops[k]]
    BY <1>1 DEF StartGame
  <2> QED BY <2>1
<1>2. ASSUME NEW u \in UID, Return(u) PROVE Driven'
  BY <1>2 DEF Return
<1>3. ASSUME NEW u \in UID, Leave(u) \/ Evict(u)
      PROVE  UNCHANGED loops /\ (InGame' => InGame)
  BY <1>3 DEF Leave, Evict
<1>4. ASSUME NEW u \in UID,
             \/ Join(u) \/ PlaceBomb(u) \/ Die(u) \/ Evacuate(u)
             \/ MarkDisconnected(u) \/ Resume(u)
             \/ \E n \in 0 .. ShieldMax : UpdateStats(u, n)
      PROVE  UNCHANGED <<loops, InGame>>
  BY <1>4 DEF Join, PlaceBomb, Die, Evacuate, MarkDisconnected, Resume, UpdateStats
<1>5. CASE HandlerStep \/ Advance \/ UNCHANGED vars
  BY <1>5 DEF HandlerStep, StoreAndLeaveGroup, Restore, Advance, vars
<1>6. ASSUME NEW l \in Loop, LoopTick(l) PROVE Driven'
  <2>1. CASE Stops
    BY <1>6, <2>1 DEF LoopTick, Stops
  <2>2. CASE ~Stops
    <3>1. DOMAIN loops' = DOMAIN loops /\ UNCHANGED InGame
      BY <1>6, <2>2 DEF LoopTick, Countdown
    <3> QED BY <3>1
  <2> QED BY <2>1, <2>2
<1> QED BY <1>1, <1>2, <1>3, <1>4, <1>5, <1>6 DEF Next

\* No step but the start of another match touches a burning fuse, and no tick passes it by.
LEMMA FuseStep ==
  ASSUME GameOK, [Next]_vars, NEW b \in Bomb, Bombs[b] > 0
  PROVE  /\ Bombs'[b] <= Bombs[b]
         /\ InGame /\ Group # {} /\ (\E l \in Loop : LoopTick(l)) => Bombs'[b] < Bombs[b]
<1>0. Bombs \in [Bomb -> Nat] /\ Bombs[b] \in Nat
  BY ConstantsAssumption DEF ConstantsAssumption, GameOK
<1>1. ASSUME NEW l \in Loop, LoopTick(l)
      PROVE  /\ Bombs'[b] <= Bombs[b]
             /\ InGame /\ Group # {} => Bombs'[b] < Bombs[b]
  <2>1. CASE Stops
    BY <1>0, <1>1, <2>1 DEF LoopTick, Stops
  <2>2. CASE ~Stops
    <3>1. Bombs' = [a \in Bomb |-> IF Bombs[a] = 0 THEN 0 ELSE Bombs[a] - 1]
      BY <1>1, <2>2 DEF LoopTick, UpdateBombs
    <3> QED BY <1>0, <3>1
  <2> QED BY <2>1, <2>2
<1>2. ASSUME NEW u \in UID, StartGame(u) PROVE Bombs'[b] <= Bombs[b]
  BY <1>0, <1>2 DEF StartGame
<1>3. ASSUME NEW u \in UID, PlaceBomb(u) PROVE Bombs'[b] <= Bombs[b]
  <2>1. PICK a \in Bomb : Bombs[a] = 0 /\ Bombs' = [Bombs EXCEPT ![a] = FuseTicks]
    BY <1>3 DEF PlaceBomb
  <2> QED BY <1>0, <2>1
<1>4. ASSUME NEW u \in UID,
             \/ Join(u) \/ Leave(u) \/ Evict(u) \/ Return(u) \/ Die(u) \/ Evacuate(u)
             \/ MarkDisconnected(u) \/ Resume(u)
             \/ \E n \in 0 .. ShieldMax : UpdateStats(u, n)
      PROVE  UNCHANGED Bombs
  BY <1>4 DEF Join, Leave, Evict, Return, Die, Evacuate, MarkDisconnected, Resume, UpdateStats
<1>5. ASSUME HandlerStep \/ Advance \/ UNCHANGED vars PROVE UNCHANGED Bombs
  BY <1>5 DEF HandlerStep, StoreAndLeaveGroup, Restore, Advance, vars
<1>6. Bombs'[b] <= Bombs[b]
  BY <1>0, <1>1, <1>2, <1>3, <1>4, <1>5 DEF Next
<1> QED BY <1>1, <1>6

\* While the room never empties a match has a loop, whoever starts, ends, leaves or comes back
\* while loops of earlier matches stop, and its ticks burn every fuse down: what BombsGoOff
\* needs besides the tickers.
THEOREM MatchDriven == Spec /\ [](Group # {}) => []Driven /\ FusesBurn
<1>1. Init => Driven
  BY DEF Init, Driven
<1>2. IInv /\ Driven /\ Group # {} /\ [Next]_vars => Driven'
  BY DrivenStep DEF IInv, TypeOK
<1>3. IInv /\ [Next]_vars =>
        [\A b \in Bomb : Bombs[b] > 0 =>
           /\ Bombs'[b] <= Bombs[b]
           /\ InGame /\ Group # {} /\ (\E l \in Loop : LoopTick(l)) => Bombs'[b] < Bombs[b]]_vars
  BY FuseStep DEF IInv, TypeOK
<1> QED BY <1>1, <1>2, <1>3, Invariance, PTL DEF Spec, FusesBurn
=============================================================================
