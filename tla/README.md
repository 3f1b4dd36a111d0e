# PixelBomb in TLA+

PixelBomb is a multiplayer bomb game: a Godot client (`client/`, GDScript) and an authoritative
server (`server/`, Go, on the *nano* framework) that talk over a WebSocket.  The players of a room
fight a match together; a player that loses its connection leaves a *tombstone* behind and can
resume within thirty seconds.  The client is delivered as a web export: JavaScript loads the
engine, plays its sound and keeps the page up to date (`client/export/web/`, `deploy/`).  This directory models the parts of the program where processes,
callbacks, messages and timers interleave, checks them with TLC, and proves the central
invariants with TLAPS.

Paths below are relative to the repository (`src/`).

## 1. Inventory

### Server

| component | state | operations | interacts with |
|---|---|---|---|
| `RoomComponent` (`server/logic/room.go`) | `rooms`: id -> `NanoRoom` (players, `nano.Group` of sessions, host, state, dead players, match) under `c.lock`; session values `room_id`, `resume_token` | Join, Create, Leave, StartGame, Return, Settlement, Move, PlaceBomb, Die, Evacuate, OpenChest, Pickup, TriggerDrop, UpdateStats, UpdateMapConfig, Resume; `MarkDisconnected`, `doLeaveByUID`, `runGameLoop` | tombstone store, sweeper, user component, clients (broadcasts) |
| `UserComponent` (`server/logic/user.go`) | `uidToSession` under a lock | Auth, Register, GuestLogin, GetProfile, four saves, OnSettlement; `OnClosed` | database, sessions (kick), `RoomComponent.MarkDisconnected` |
| tombstone store and sweeper (`server/logic/tombstone_store.go`, `server/storage/redis_store.go`) | tombstones by resume token, in memory or in Redis; pending clean-ups | Store, Consume, DeleteByPlayerID, GetExpiredAndRemove; a sweep every 5 s | `RoomComponent.doLeaveByUID` |
| resume tokens (`server/security/resume_token.go`) | HMAC secret of the process | Generate, Parse, Verify | `Join`, `Create`, `MarkDisconnected`, `Resume` |
| match (`GameState` in `server/logic/models.go`) | players' states, bombs, time left | game loop (50 ms), snapshots | all match handlers |
| profile database (`server/logic/sqlite_store.go`) | users and profiles | register, authenticate, save, guests | `UserComponent` |

The *nano* scheduler runs every handler and every session-closed callback on one goroutine, one
at a time.  Beside it run the sweeper's goroutine and one game loop per `StartGame`.  They meet
in `c.lock`, in each `GameState.Lock` and in `nano.Group`, which has a lock of its own; several
handlers release `c.lock` half-way.

### Client

| component | state | operations |
|---|---|---|
| `NetworkManager` (`client/utils/network/network_manager.gd`) | connection and recovery state, socket, requests waiting for answers, room, resume file | frames, packets, notifications, requests |
| `ReconnectController`, `SessionRecovery` (same directory) | retry loop and its timer; handlers waiting for an answer | start, stop, schedule; re-authenticate, reload, resynchronise, resume |
| login, lobby, overlay (`client/scenes/Login`, `client/scenes/Lobby`, `client/ui/connection_monitor`) | the scene shown | buttons and signal callbacks |
| player data (`client/autoloads/player_data.gd`) | balance, stash, backpack, presets | synchronisation, sale, replacement by an answered profile |
| loadout screen (`client/scenes/Warehouse/backpack_config.gd`) | two grids, the tab shown, the data to roll back to | filter, sort, move, clear, tidy, sell, confirm, discard |
| backpack, warehouse and loot grids (`client/prefabs/Backpack`) | items placed on grids | drag, rotate, place, transfer |
| map generation (`client/prefabs/map/core`) | grids of cells, from a seed | shape, connectivity, spawn points, extraction, validation |
| items and chests (`client/prefabs/items`) | contents, locks | open, pick up, drop |
| match on the client (`client/autoloads/game_mode.gd`, `client/prefabs/Players`, `client/prefabs/Bombs`, `client/stages`) | mode, countdowns, the local player | evacuation, death, settlement |

Everything on the client runs on the engine's main thread, a callback at a time; what is hard
there is the order of callbacks.

### Web delivery

| component | state | operations | interacts with |
|---|---|---|---|
| build script (`deploy/scripts/build-web.js`) | the directory nginx serves: templates, versioned files, `manifest.json` | one build, file after file | the page and the worker, through the files |
| page (`deploy/web-src/index.html`) | the status overlay, `__GAME_VERSION__` | bootstrap, start of the engine, failure notice | manifest, engine loader |
| version check (`deploy/web-src/version-detector.js`) | `localVersion`, `isUpdating` | register, poll, dialog, reload | manifest, service worker |
| service worker (`deploy/web-src/sw.js`) | the browser's caches, of which `pb-cache-versioned` holds the game's files | install, activate, fetch | every request of the page |
| engine loader (`client/export/web/index.js`) | downloads, progress, promises of `Engine` | load, retry, init, start | page, network |
| sound output (`client/export/web/index.audio.worklet.js` and the driver in `index.js`) | the engine's buffer; the ring buffer of the audio thread; the port between them | process, messages | the engine, the loudspeaker |
| position worklet (`index.audio.position.worklet.js`) | a counter of frames | process | the engine |

`docker-compose.yml:59` mounts `client/export/web` as the root of nginx: a build in place, the default,
publishes each file as it is written.

Left aside: UI and presentation, the development server inside the client
(`client/autoloads/mcp_interaction_server.gd`), the compiled engine, metrics that nothing reads.

### What is hard, and what makes each part correct

* **Rooms.** Joins, leaves, disconnections, resumptions and evictions of the same player overlap:
  an eviction runs in two critical sections between which a handler may replace the room; a
  tombstone survives the disconnection it stands for; a pointer to a room outlives its entry.
  Correct means: groups hold the members of the room and nobody else; a listed player has somebody
  who will remove it; an absent player comes back or goes; a token found is a token that verifies;
  the session table names live sessions.
* **Match.** Loops, handlers and snapshots change one `GameState`.  Correct means: the dead stay
  dead and are listed, somebody always stays behind, bombs go off.
* **Client connection.** Frames, timers, packets, focus changes, kicks and buttons come in any
  order.  Correct means: while reconnecting something drives it; it ends; a kicked client keeps
  away.
* **Profile.** What a player owns is held four times: in the row, in the client's copy, in the
  grids on the screen and in packets under way.  Two requests save what belongs together, and
  late answers replace the copy under the grids.  Correct means: the lobby of a logged-in session comes to
  show what is stored; the screen loses nothing it shows.
* **Sound.** Two threads, a buffer on either side and two queues; neither side asks whether the
  other has room.  Correct means: what is mixed is heard once and in order, and the sound goes on.
* **Releases.** Files are published one by one, cached by a worker that outlives pages and releases,
  and read by pages at any moment; nothing ties an export to a commit, so the files of a version may be
  written over while they are out.  Correct means: a game is made of one release; an old page is
  told of a new one; reloads come to an end.
* **Loading.** Two downloads with retries and chained promises, some of which nobody waits for.
  Correct means: the game starts with whole files or not at all, the bar is honest, and loading ends.
* **Grids, map generation, items.** Pure algorithms: no overlap, no loss, no doubling;
  connectivity and distance of what is generated.

`PROJECT.json` lists every hazard at its line, with the property that would catch it or the reason
why none does.

## 2. Modules

| module | models | state |
|---|---|---|
| `RoomServer` | membership, disconnection, resumption, eviction | complete for these operations, proved |
| `RoomServer_proofs` | theorems about `RoomServer` | |
| `MCRoomServer` | symmetry for TLC | |
| `Match` | the match of one room: game loops, bombs, deaths, evacuation, snapshots | complete for these operations |
| `MCMatch` | symmetry for TLC | |
| `Match_proofs` | theorems about `Match` | |
| `ClientConnection` | the client's connection, retry loop, recovery sequence | complete, proved |
| `ClientConnection_proofs` | theorems about `ClientConnection` | |
| `Stash` | what a player owns: row, client's copy, loadout screen, requests and answers | complete for these operations but for cells, proved |
| `MCStash` | the items for TLC | |
| `Stash_proofs` | theorems about `Stash` | |
| `AudioWorklet` | the sound output on both threads, and the port between them | complete for the export without threads, proved |
| `SampleStream` | what the sound output promises, abstractly; `AudioWorklet` implements it | |
| `AudioWorklet_proofs` | theorems about `AudioWorklet`, the refinement among them | |
| `WebUpdate` | export, build, service worker and its cache of the game, version check and page | complete but for `--out`, the upload and the caches named after versions, proved |
| `ReleaseDelivery` | what the deployment promises a player, abstractly; `WebUpdate` implements it | |
| `WebUpdate_proofs` | theorems about `WebUpdate`, the refinement among them | |
| `EngineLoader` | downloads, progress bar, initialisation and start of the engine | complete for what the page uses, proved |
| `EngineLoader_proofs` | theorems about `EngineLoader` | |

`RoomServer` and `Match` split one class along its data.  `RoomServer` keeps everything that
decides who is a member, with the steps of a handler apart; of the match it keeps only what Join
reads.  `Match` takes membership in single steps and keeps what a match changes, with the game
loops apart.  The client is the environment of the one; the server is the environment of the other.
Operators named `Name_Variant` and marked *Slip* are wrong versions of the operator that follows;
nothing uses them, they document which error a property would notice.

### RoomServer

A `NanoRoom` is an object that outlives its entry in `c.rooms`, so `rooms` maps an id to the number
of an object and `Players`, `Group`, `HostUID`, ... are kept per object.  The handler in flight is
the variable `task`: its program counter and its locals.  A handler is its first step (`Leave`,
`Join`, `Create`, `Disconnect`, `Resume`) and one step per later critical section:

    doLeave            Leave | Enter, LeaveRoom, LeaveReap
    Join, Create       Enter, JoinLookup | CreateRoom, EnterGroup, Enrol
    MarkDisconnected   Disconnect (up to the store of the tombstone), DropGroup
    Resume             Resume (consume, verify), ResumeLookup, ResumeBind
    sweep              Sweep, EvictPlayer per tombstone, EvictReap

Only the sweeper runs between them, as in the program.  `Ready` is the scheduler: no handler
begins while one is in flight, and the closed callback of a session that `Auth` has kicked comes
before the next handler of its account.  Time: `ExpireAt` is a whole second, the store
compares it with a clock in nanoseconds and the token with one in seconds, so each token has
two instants, the end of its tombstone (`Lapsed`) and its own a second later (`Stale`); the
instants of different tokens are ordered by creation.  The client calls Room.Join and Room.Create
only after a login, and logs another account in only on a new connection; `Auth` and `Enter` say so.

### Match

The loops share one clock: `Advance` is 50 ms, after which every loop in `loops` is due
and ticks once, in any order.  Fuses, cooldowns and the seconds of the countdown are numbers of
ticks.  Positions are left out: the victims of a blast are any set of players that the cooldown
and the flags let it hurt.  `MarkDisconnected` and `Resume` are two steps each, since loops tick in
between.

### ClientConnection

One action per frame branch, packet, timer, notification and button.  Time is left out: a running
timer may fire at any moment.  `pending_requests` is what the server has yet to answer on the present
socket; `listeners` are the handlers that `SessionRecovery` has connected to `message_received` and
not removed, which matter long after the recovery that connected them.  Two of its steps end where
the program's do: `StartRecovery` fails at `net.player_password`, which `NetworkManager` does not have
(`session_recovery.gd:57`), and the answer of `Room.List` is an array, which the recovery's handler
does not take (`session_recovery.gd:132`), so `RoomList` ends no recovery.

### Stash

A collection of items is a bag (how many of each resource path), in the stash and backpack of the
row, of `GlobalPlayerData` (`data`), and of the two grids.  Cells are left out: a grid has a number of
them, and may refuse an item of several cells when other items lie on it.  The balance is the bag of
the items sold, since every item has its price and nothing is bought.  Each operation of the loadout
screen is an action that ends with the two requests it sends (`SyncToServer`); the server handles
requests one at a time and reads and writes the whole row (`Stored`).  `Disconnect` drops a tail of the
requests and all the answers.

`online` says that the socket is open, `bound` that a login has bound the session to the account; until
then every request is refused (`unauthorized`) and not answered (`Accepted`).  `Login` is the login page,
the only place that sends `User.Auth`.  `Reconnect` opens a session that is never bound: the recovery
stops at `session_recovery.gd:57` before its login, and what the lobby asks for at once
(`lobby.gd:121-124`) is refused.  The properties about the lobby therefore speak of a logged-in session
(`LoggedIn`).  The listener that the stopped recovery leaves behind fires on the next login and fetches
the profile a second time (`AsksAfter`).  The full-screen overlay that keeps the player from acting
during a recovery is left out, so the model lets the player do more than the program.

### AudioWorklet

A sample stands for its number in the stream, so a buffer shows what it was filled with and when.
`Start`, `OnMessage` and `Close` are the main thread, `ParseMessage` and `Process` the audio thread;
the ports between them keep the order.  The engine starts with a whole buffer handed over and mixes
exactly what it hears was read.  The ring's `rpos` may rest at its end and its `wpos` may not, as
in the code, so the two wrap at different moments.  Nothing in `write` asks for room: `ChunksFit` says
that none is ever missing.  The refinement mapping reads `mixed`, `heard` and `speaker` as they are and
`Size` as the capacity of the stream.

### WebUpdate

The content of a file is the number of the export it came from, 0 where there is none, `Cut` where it is
being written or its writing was stopped.  A version is the number of the commit that is checked out.
`Export` and `Commit` are independent, as they are in the repository: `build-web.js` takes `HEAD`
whatever the export is, README.md:162-164 asks for a build after each export, and
`sync-to-server.ps1` builds and uploads without a commit.  An export may lack a file.  A build is
`StartBuild` (the templates), then per file two steps, cutting the target short and filling it
(`CopyFile`), or none if the export lacks it, then the manifest in two steps (`WriteManifest`); it may be stopped
after each (`Abort`) and run again.  `spoilt` is a history of the versions of which nothing can be
promised: those that a build rewrote while they were out, and those that came out with a file missing.

`tabs` holds a page's progress, whether a worker controls it, the version it was told and the files
it got; `worker` is the one being installed or taking over; `kept` is the cache `pb-cache-versioned`, the
only one that holds files of the game, which keeps what it was given until `Claim` deletes it.
`PageLoadsDetector` says whether `index.html` has a script tag for `version-detector.js`.  In the
repository it has none (lines 111 to 118, against README.md:122).  `WebUpdate_all` sets it to
TRUE: it checks the program that the detector and the worker were written for, with every page that a
takeover or a dialog makes load again.  `OldPagesAreTold`, `TakeoversEnd` and `OldPagesTell` mean
nothing for the page as it is today, which never registers a worker and is never told.

`ReleaseDelivery` knows none of this: a version is published and never taken back; building the
published version again (`Rework`), or bringing one out incomplete, spoils it; a page is told
of one version, and the game it then runs has every file from that version, unless it is spoilt, until the player
leaves it or the page loads again.  The refinement mapping reads `manifest`, `spoilt`, the content of the
versions that are out, the pages' versions and, of the pages whose game runs, the files.

### EngineLoader

A download is a record: its stage, the attempts that are left, and the `total`, `loaded` and `done` of
`loadingFiles`.  A promise is settled, and what is chained to it runs, in the action that causes it;
where nothing is chained (the rejection of the program's download behind `doInit`, a body that breaks
off, a program that does not compile) nothing follows.  `start` and the notice are what the page
does with the promise of `startGame`.

## 3. Runs

| run | instance | shows |
|---|---|---|
| `RoomServer_two` | 2 accounts, 3 sessions, 2 room ids, 2 room objects, 3 tokens | `TypeOK`, `GroupSound`, `TombstoneMatchesToken`, `TrackedIsLive`, `OrphanedByLeaveOnly` |
| `RoomServer_live` | 1 account, 3 sessions, 1 room id, 2 objects, 2 tokens, fair | `SeatsHeld`, `AbsenceEnds` |
| `RoomServer_ghost` | 1 account, 2 room ids | `SeatsHeld` fails across rooms |
| `Match_play` | 2 players, 2 loops, 1 bomb | `TypeOK`, `DeadAreListed`, `SomeoneStays`, `DeadStayDead` |
| `Match_live` | 2 players, 1 loop, 1 bomb, fair | `BombsGoOff` |
| `ClientConnection_all` | 2 attempts, fair | `TypeOK`, `ReconnectingIsDriven`, `KickIsFinal`, `ReconnectingEnds` |
| `ClientConnection_backoff` | 8 attempts | attempts do not back off |
| `Stash_all` | 1 item of two cells, one owned and one to find, a backpack for two, a warehouse for one; 3 packets, fair | `TypeOK`, `LobbyIsFresh`, `ShownIsKept`, `LobbyCatchesUp` |
| `AudioWorklet_all` | buffers of 5 samples, quanta of 2 and 3, 16 samples played, fair | `TypeOK`, `ChunksFit`, `PlaysInOrder`, `SoundIsDriven`, `SoundGoesOn` |
| `WebUpdate_all` | 1 tab, 2 exports with or without the program, 2 commits, 2 builds, the detector loaded, fair | `TypeOK`, `ManifestComplete`, `GameIsOneRelease`, `DeliversReleases`, `OldPagesAreTold`, `TakeoversEnd` |
| `WebUpdate_rebuilt` | the same | `KeptIsServed` fails: a URL with a version gets another content |
| `EngineLoader_all` | 2 files of 2 chunks, 4 attempts, fair | `TypeOK`, `StartsComplete`, `ProgressHonest`, `NoticeIsFinal`, `ProgressNeverFalls`, `LoadingEnds` |

**Bounds.** `MaxRooms`, `MaxTokens` bound what is allocated in a behaviour, not what exists at a time;
`Starter` the sessions that send match requests; `Loop`, `Bomb` what runs at once.  Three
sessions let an account be logged in, kicked and back on a third connection, which is the longest chain a
tombstone can be part of: old session, its successor, and the one that resumes or rejoins.  Two room
objects under one id are an old and a new incarnation; two room ids separate a player's seats.
Three tokens allow one that is stale, one that is lapsed and one that is good.  In `Match` a
fuse of two ticks, a cooldown of one and a match of one second let a fuse, a cooldown and the
countdown each end inside a disconnection.  Two attempts allow a first, a next and a last one.
In `Stash` two copies of an item let one be hidden or refused while the other is shown; a warehouse
of one item refuses the second; three packets hold a whole rollback (two saves and a fetch), or two
answers with a save.  `MaxCopies` stops the player, not the network, when copies have multiplied.
In `AudioWorklet` five samples are no multiple of a quantum, so that reads, writes and mixing wrap in
their middle, each at its own moment, three times in sixteen samples.  In `WebUpdate` two
exports and two commits are an old and a new one of each, in either order, so that a version can be built
from the old export, from the new one, or from both in turn; with two builds one can be stopped and repeated, or
a version that is out built again.  The second export may lack the program; the case without data
takes the same branches.  Each commit comes with another `sw.js` (`NewWorker`): a commit without is
covered by the time before the new worker is found.  A tab can be closed and opened, so that one
serves for pages before and after a takeover (the theorems hold for any number of tabs).  Two chunks in
`EngineLoader` let a download break off before, between and after them; four attempts are the
program's number.  Deadlock is not checked: with the bounds the systems really stop, and so may players.

**Fairness.** `RoomServer`: a started handler finishes (the scheduler's goroutine runs), the sweeper's
ticker fires and time passes.  `Match`: the same, with the loops' tickers.  `ClientConnection`:
the engine draws frames, and an attempt to connect or a close ends, because the operating system
times it out.  `Stash`: the server handles what it has received and the network delivers
what was answered.  `AudioWorklet`: both threads run and the port delivers.  `WebUpdate`: the scripts
of a page run and its poll fires, and is answered in the end; not that a build goes on, a
worker takes over or a player answers the dialog.  `EngineLoader`: the browser ends a request
and a read in one way or another, timers fire and frames are drawn.  No fairness is assumed of a player,
a message or a server's answer.

**What the failing runs say.** Three runs each end in a counterexample to a sentence of the
repository; `PROJECT.json` quotes them under "findings".  In short: leaving any room forgets
the tombstones of all others; the exponential backoff of the client is used up within eight frames;
a version that is built again changes files under URLs that the worker takes to be immutable.

**Also seen while modelling**, and not run:

* `doLeaveByUID` does not ask whether the player of an expired tombstone is back in the room
  (`room.go:727-729`).
* `SnapshotRestorable` carries the shield, which its comment excludes (`models.go:94-111`).
* `Evacuate` counts and announces an evacuated player but does not mark it (`room.go:779`).
* `sync_to_server` is two requests, each stored on its own (`player_data.gd:117-127`).
* `index.html` never loads `version-detector.js` (lines 111 to 118, against README.md:122), so no page
  registers a worker or is told of a new version; see `PageLoadsDetector`.
* `sync-to-server.ps1:30` uploads over the files that the server's manifest names, in no order:
  a page may meet there what `WebUpdate` allows only for a version that is built again.
* A reconnection never logs in: `session_recovery.gd:57` reads `net.player_password`, which does not
  exist.  The lobby then stays as it was, and what is saved there is refused, until the next login.
* `session_recovery.gd:132` takes a dictionary where `Room.List` answers with an array: the last step of a
  recovery in the lobby could not run if it were reached.
* `index.js` is cached under the name of a version and served from there until the next worker
  activates, also with the program of a newer release, as long as `sw.js` is the same file
  (`sw.js:90-107`; not part of `WebUpdate`).
* "Later, after the match" in the dialog waits for a message `GAME_MATCH_FINISHED` that nothing sends
  (`version-detector.js:83`, `:112`), while a worker that takes over reloads the page at once,
  during a match too.
* The page's files are fetched from the network with no cache behind them (`sw.js:67-74`): offline there
  is no page, whatever `install` has cached.
* A program whose download, body or compilation fails leaves the page at its progress bar
  (`index.js:734-748`); `LoadingEnds` names these cases in `Unnoticed`.

## 4. Proofs

TLC checks the instances above.  The theorems hold for every number of accounts, sessions, rooms and
tokens, and every `MaxAttempts`, from the named assumptions on the constants (`ConstantsAssumption`:
the sentinels are not elements of the sets; `MaxAttemptsAssumption`; `ItemsAssumption`: the row a
player starts from is a pair of bags; `SizeAssumption`: a quantum fits the buffer; `WebAssumption`,
`LoaderAssumption`: bounds are natural numbers, sizes and attempts positive).

* `RoomServer_proofs`: `TypeCorrect`, `GroupsAreSound`, `TombstonesMatch`, `TrackedSessionsLive`.
  None of the last three is inductive.  `IInv` adds: what the locals of the handler in flight hold
  (`TaskOK`), that it works for a live session of its account (`TaskSession`), that an object is
  registered under one id and, while a handler holds its pointer, either under the handler's id or
  under none (`RegistryOK`), where the handler's session may be found (`TaskGroup`), and that every
  token in a session, a tombstone or a Resume was generated for the account and room it is used
  for (`TokensOK`).  The proof has one lemma per action and one step per part of `IInv`.
* `OnlyLeavesOrphan`: `SeatsHeld` fails by the code across rooms (`RoomServer_ghost`), and this theorem says
  in what one way, for any number of rooms: every step that takes the last holder from a listed
  player's seat is the beginning of that player's own leave of another room, which drops the tombstone.
  The argument follows one seat (`SeatOK`): by `IInv`, whoever holds it hands it on, session to
  tombstone, tombstone to Resume or sweep, and these to the session or to the removal.  Two
  corollaries: `SeatsAreHeldElse`, `SeatsHeld` as long as no step `LeavesBehind` anybody, and
  `SeatsAreHeld`, where there is one room id (`OneRoomId`), so that there is no other room to leave.
  From the first follows `AbsenceIsDriven`: whoever holds the seat of an absent player is a handler in
  flight, a sweep, or a tombstone whose token lapses as the clock goes on.
* `ClientConnection_proofs`: `TypeCorrect`, `ReconnectingDriven`, `KickFinal`, `AttemptsRunOut`.  `KickIsFinal` is not
  inductive: `KickedIsReset` adds that the kick has forgotten the file, left no request and put the
  player before the login scene, so that no packet, focus change or button but a login acts.

* `Match_proofs`: `TypeCorrect`, `DeadListed`, `OneStays`, `NobodyRises`, `MatchDriven`, for every finite set of
  accounts and every number of loops and bombs.  A death is listed in the step that makes it, so
  `DeadAreListed` needs only the types.  `SomeoneStays` counts the evacuated against slots that were
  computed when the match began: `SlotsOK` says that the counter counts them, that it keeps within
  the slots, and that the slots leave one of the players with a state, a set that only grows while
  the match lasts.

* `Stash_proofs`: `TypeCorrect`, `LobbyShowsRow`, `ScreenKeepsShown`, `LobbyQuiets`, for every set of items, any
  sizes of items and grids.  `LobbyIsFresh` speaks of a quiet moment; `CaughtUp` strengthens it to every
  moment in the lobby: with requests under way the last of them is a fetch, with only answers under way the
  last of them is the row.  `ShownIsKept` rests on the types and on what `Taken` promises of
  the items it leaves behind.  Both are about a session that a login has bound or is about to (`LoggedIn`, `WillBeBound`): on one that a
  reconnection made, saves are refused and nothing is promised.  `LobbyQuiets` needs that a login is the first packet of its connection each
  way (`AuthOnce`): its answer sends a fetch, so if there could be two, the packets might never run out.

* `AudioWorklet_proofs`: `TypeCorrect`, `ChunksAlwaysFit`, `Refinement`, `SoundDriven`, for every size of the
  buffers and every set of quanta that fit.  The inductive invariant follows the stream around the circle:
  what the ring holds are the samples from `heard` on (`RingOK`); the messages under way to the audio
  thread continue them up to `mixed`, and those on the way back stand for what has been heard and not
  mixed anew (`ChainsOK`); every message holds what it stands for and finds the state it needs
  (`MessagesOK`, `LifeOK`).  That no chunk is too long follows: all there is between `heard` and
  `mixed` is a buffer's worth.  `Refinement` shows that `Process` is a `Play` of the abstract stream,
  `OnMessage` a `Mix`, and the rest stutters.
* `WebUpdate_proofs`: `TypeCorrect`, `ManifestIsComplete`, `OneRelease`, `Refinement`, `ScriptsRise`, for
  every number of tabs, exports, commits and builds, whatever is exported, built again or stopped half-way, and
  `OldPagesTell` if the page loads the detector.  The argument behind the design is that what is out under
  a version does not change.  By the code that fails for a version that is built again while it is
  out, or comes out incomplete; `spoilt` collects exactly these, and the invariant says of every other version
  that it is whole and the same everywhere: on the site, also half-way through a build (`SiteOK`), in the
  worker's cache (`KeptOK`) and in every page (`TabOK`).  `OutStays` is the step that carries
  it: the repository and the build change no version that was out before but the one being built, and
  that one is spoilt then.  In `Refinement`, `StartBuild` and `CopyFile` at the version that is out are a
  `Rework`, `WriteManifest` is a `Publish` of a later version or nothing, `GetManifest` a
  `Choose`, the last `GetAsset` a `Play`, and a takeover, a reload or a closed tab a `Leave` of some
  pages.
* `EngineLoader_proofs`: `TypeCorrect`, `GameStartsComplete`, `ProgressIsHonest`, `NoticeFinal`,
  `ProgressRises`, `LoadingDriven`, for every size of the files and every number of attempts.  What makes them inductive:
  an attempt that may still be repeated has loaded nothing (`LoadOK`), so counting anew takes
  nothing back; both sizes are known or neither (`SizesOK`); the bar is never ahead of the files
  (`BarOK`); what is compiled and kept is whole (`FilesOK`); and once the page is
  done with, hidden or behind a notice, no pack is kept or still coming, so neither can follow the
  other (`PageOK`).

**Towards liveness.** The eight liveness properties are out of the prover's reach, and so is ENABLED; they
are only model-checked: `AbsenceEnds`, `BombsGoOff`, `ReconnectingEnds`, `LobbyCatchesUp`, `SoundGoesOn`,
`OldPagesAreTold`, `TakeoversEnd`, `LoadingEnds`.  What is proved, for every value of the constants, is the
part of each that is not about fairness: while the thing to come has not come, a step that leads there is
still to be taken, and a measure says how many there may be.

| liveness | something is left to happen | and it runs out |
|---|---|---|
| `SoundGoesOn` | `SoundDriven`: a message is under way or the ring is full | messages under way get fewer until a quantum is played |
| `LoadingEnds` | `LoadingDriven`: a download or a step of the engine goes on, or a failure went unnoticed | `Work` falls with every step but a frame |
| `ReconnectingEnds` | `ReconnectingDriven`: the retry loop is active, or the client paused | `AttemptsRunOut`: every frame with a closed socket uses up an attempt of at most `MaxAttempts` |
| `BombsGoOff` | `MatchDriven`: a match in a room that never empties has a loop | every tick shortens every burning fuse |
| `TakeoversEnd` | | `ScriptsRise`: each takeover is of a later script, of which there are only so many |
| `OldPagesAreTold` | `OldPagesTell`, if the page loads the detector: its check will announce the version, or its detector is yet to start | one start and one check |
| `AbsenceEnds` | `AbsenceIsDriven`: a handler is in flight, the sweeper has something to do, or the clock has not come to the last token's end | |
| `LobbyCatchesUp` | `LobbyShowsRow`: with nothing under way, the row is what the lobby of a logged-in session shows | `LobbyQuiets`: every step in such a lobby lowers `Awaited` |

That each of these steps is enabled, and taken in the end, is what the runs check.

Every invariant and every safety or refinement property of a passing run is stated by a theorem.

## 5. Plan

1. *Done*: `RoomServer`, `Match`, `ClientConnection`, `Stash`, `AudioWorklet` with its abstract
   `SampleStream`, `WebUpdate` with its abstract `ReleaseDelivery`, `EngineLoader`, the proofs of
   their safety properties, and the safety halves of the liveness properties.  Next among the
   proofs: a measure for `AbsenceEnds`.
2. `SeatLifecycle`, an abstract seat (taken, away, free), which `RoomServer` with one room id
   implements: the refinement mapping reads the group, the tombstones and the task.
3. `TombstoneStore`: the Redis adapter (SETEX, the consume script, pending clean-ups, restart) and the
   memory store as implementations of one store.
4. An abstract account (one bag that changes at once), which `Stash` implements as long as no
   connection is lost and no answer comes late: the exact condition under which a
   synchronisation is as atomic as the code says.
5. `WorldItems`: chests, drops and pickups, one picker per item, with the client's optimistic effect.
6. `BackpackGrid`: placement, rotation, drag between grids; no overlap, conservation of items.  Proved
   over all grid sizes: a placement keeps the occupied cells disjoint.
7. `MapGeneration`: flood fill, connectivity repair, spawn choice and the extraction validator
   against reference definitions on small grids.
8. `MapConfig`: host authority over the room's map, host migration, and what clients believe.

## 6. Not modelled

Contents of messages where nothing depends on them; the packet encoding; rendering, input and UI;
metrics; the position worklet, a counter that decides nothing; the branches with threads and the
microphone of the sound output, which this export does not run; the build's `--out`, its timestamp for
a version where git is missing, and the upload; the caches that `sw.js` names after versions; the engine's
configuration and extension libraries; HMAC (a token verifies exactly when it was generated for
that player and room); presets, which no button of the program reaches; the warehouse scene
(`warehouse.gd`), which nothing opens; registration; the Redis store and everything in the plan's items 2
to 8 so far.
