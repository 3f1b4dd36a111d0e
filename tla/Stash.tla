--------------------------------- MODULE Stash ---------------------------------
(***************************************************************************)
(* What a player owns, in the four places that hold it: the row of the     *)
(* account on the server, GlobalPlayerData on the client                   *)
(* (client/autoloads/player_data.gd), the two grids of the loadout screen  *)
(* (client/scenes/Warehouse/backpack_config.gd) and the requests and       *)
(* answers between them (User.SaveBackpack, User.SaveInventory,            *)
(* User.GetProfile, User.Auth and Room.Settlement of server/logic).        *)
(*                                                                         *)
(* An item is its resource path; a player may own several of a path, so a  *)
(* collection of items is a bag: how many of each path it holds.  Where an *)
(* item lies in a grid is left out.  A grid can take an item only if its   *)
(* cells suffice, and may refuse one of several cells for want of a place  *)
(* of its shape.  The balance is kept as the bag of what it was earned     *)
(* with, since items are only ever sold, each path at a price of its own.  *)
(*                                                                         *)
(* A session's requests are handled in the order they were sent, and so    *)
(* are its answers; a lost connection takes a tail of the requests and all *)
(* the answers under way.  The server obeys a session only once a login    *)
(* has bound it to its account; a session made by a reconnection never is, *)
(* for the recovery stops before it sends its login.                       *)
(***************************************************************************)
EXTENDS Integers, Sequences, FiniteSetsExt

CONSTANTS
  Path, Category, Size, Tab,      \* the items, their tab and their cells; the tabs besides "All"
  BackpackCells, WarehouseCells,  \* 5 x 6 and the 2 x 2 safe, 8 x 12
  OwnedFirst, BackpackFirst,      \* the row the player starts from
  MaxCopies, MaxLoot, MaxInFlight \* bounds of the model

Bag == [Path -> Nat]

ASSUME ItemsAssumption ==
  /\ Size \in [Path -> Nat \ {0}]
  /\ OwnedFirst \in Bag /\ BackpackFirst \in Bag

ASSUME BoundsAssumption ==
  /\ MaxCopies \in Nat /\ MaxLoot \in Nat /\ MaxInFlight \in Nat
  /\ BackpackCells \in Nat /\ WarehouseCells \in Nat

VARIABLES
  row,               \* of the table users
  data,              \* GlobalPlayerData: owned_items, backpack_config and coins
  scene,             \* the scene shown; "settled" is a match that is over
  mainBackpack,      \* the backpack's grid and safe, on the screen or in the match
  warehouseGrid, current_category,
  initial,           \* _initial_owned, _initial_backpack, _initial_coins
  toServer, toClient,
  online,            \* the socket is open
  bound,             \* a login has bound the session whose requests are under way to the account
  loot               \* what was picked up in matches (a bound of the model)

clientVars == <<data, scene, mainBackpack, warehouseGrid, current_category, initial>>
netVars    == <<toServer, toClient, online, bound>>
vars       == <<row, clientVars, netVars, loot>>

-----------------------------------------------------------------------------
(* Bags *)

Empty       == [p \in Path |-> 0]
Add(b, c)   == [p \in Path |-> b[p] + c[p]]
Without(b, c) == [p \in Path |-> b[p] - c[p]]
One(p)      == [q \in Path |-> IF q = p THEN 1 ELSE 0]
Within(b, c) == \A p \in Path : b[p] <= c[p]
SubBags(b)  == {c \in [Path -> UNION {0 .. b[p] : p \in Path}] : Within(c, b)}
Used(b)     == MapThenSumSet(LAMBDA p : b[p] * Size[p], Path)

\* canPlaceItem somewhere on a grid that holds b.
HasCells(b, p, cells)  == Used(b) + Size[p] <= cells
MayRefuse(b, p, cells) == (Size[p] > 1 /\ b # Empty) \/ ~HasCells(b, p, cells)

\* What a grid that holds b already may take of c, tried item by item.
Taken(b, c, cells) ==
  {t \in SubBags(c) : /\ Used(Add(b, t)) <= cells
                      /\ \A p \in Path : t[p] < c[p] => MayRefuse(Add(b, t), p, cells)}

-----------------------------------------------------------------------------
(* Profiles and packets *)

Profile == [inventory : Bag, backpack : Bag, coins : Bag]

Request ==
  [route : {"User.SaveBackpack", "Room.Settlement"}, config : Bag]
    \cup [route : {"User.SaveInventory"}, inventory : Bag, coins : Bag]
    \cup [route : {"User.Auth", "User.GetProfile"}]

Answer == [route : {"User.Auth", "User.GetProfile"}, profile : Profile]

Fetches == {"User.Auth", "User.GetProfile"}

TypeOK ==
  /\ row \in Profile /\ data \in Profile /\ initial \in Profile
  /\ scene \in {"login", "lobby", "backpack_config", "game", "settled"}
  /\ mainBackpack \in Bag /\ warehouseGrid \in Bag /\ loot \in Bag
  /\ toServer \in Seq(Request) /\ toClient \in Seq(Answer)
  /\ online \in BOOLEAN /\ bound \in BOOLEAN

NoProfile == [inventory |-> Empty, backpack |-> Empty, coins |-> Empty]
FirstRow  == [inventory |-> OwnedFirst, backpack |-> BackpackFirst, coins |-> Empty]
Get       == [route |-> "User.GetProfile"]

Init ==
  /\ row = FirstRow /\ data = NoProfile /\ initial = NoProfile
  /\ scene = "login" /\ current_category = "All"
  /\ mainBackpack = Empty /\ warehouseGrid = Empty
  /\ toServer = <<>> /\ toClient = <<>> /\ online = FALSE /\ bound = FALSE
  /\ loot = Empty

\* Bound of the model: the player goes on only while there are few copies of each item.
FewCopies(d) == \A p \in Path : d.inventory[p] + d.backpack[p] + d.coins[p] <= MaxCopies

\* A socket that is not open drops what is sent.
Send(requests) ==
  /\ FewCopies(data')
  /\ Len(toServer) + Len(toClient) + Len(requests) <= MaxInFlight
  /\ toServer' = IF online THEN toServer \o requests ELSE toServer
  /\ UNCHANGED <<toClient, online, bound>>

\* GlobalPlayerData.sync_to_server: two requests.
SyncToServer(d) ==
  <<[route |-> "User.SaveBackpack", config |-> d.backpack],
    [route |-> "User.SaveInventory", inventory |-> d.inventory, coins |-> d.coins]>>

-----------------------------------------------------------------------------
(* The loadout screen *)

Filtered(b, category) ==
  [p \in Path |-> IF category \in {"All", Category[p]} THEN b[p] ELSE 0]

\* _render_warehouse_list: what finds no place is not shown.
Rendered(b, category) == Taken(Empty, Filtered(b, category), WarehouseCells)

\* The screen or the match is gone.
Enter(next) ==
  /\ scene' = next /\ current_category' = "All"
  /\ mainBackpack' = Empty /\ warehouseGrid' = Empty /\ initial' = NoProfile

OpenConfig ==
  /\ scene = "lobby" /\ FewCopies(data)
  /\ scene' = "backpack_config"
  /\ initial' = data
  /\ mainBackpack' = data.backpack
  /\ warehouseGrid' \in Rendered(data.inventory, "All")
  /\ UNCHANGED <<row, data, current_category, netVars, loot>>

\* Also the sort button, which renders the same tab again.
Filter(category) ==
  /\ scene = "backpack_config"
  /\ current_category' = category
  /\ warehouseGrid' \in Rendered(data.inventory, category)
  /\ UNCHANGED <<row, data, scene, mainBackpack, initial, netVars, loot>>

\* _save_both: what the grids show is what the player owns from now on.
SaveBoth(backpack, warehouse) ==
  LET saved == [data EXCEPT !.backpack = backpack, !.inventory = warehouse]
  IN  /\ mainBackpack' = backpack /\ warehouseGrid' = warehouse
      /\ data' = saved
      /\ Send(SyncToServer(saved))

MoveToBackpack(p) ==
  /\ scene = "backpack_config"
  /\ warehouseGrid[p] > 0 /\ HasCells(mainBackpack, p, BackpackCells)
  /\ SaveBoth(Add(mainBackpack, One(p)), Without(warehouseGrid, One(p)))
  /\ UNCHANGED <<row, scene, current_category, initial, loot>>

MoveToWarehouse(p) ==
  /\ scene = "backpack_config"
  /\ mainBackpack[p] > 0 /\ HasCells(warehouseGrid, p, WarehouseCells)
  /\ SaveBoth(Without(mainBackpack, One(p)), Add(warehouseGrid, One(p)))
  /\ UNCHANGED <<row, scene, current_category, initial, loot>>

\* An item was dragged inside its grid.
MoveInside ==
  /\ scene = "backpack_config"
  /\ SaveBoth(mainBackpack, warehouseGrid)
  /\ UNCHANGED <<row, scene, current_category, initial, loot>>

\* Slip: items leave the backpack whether or not the warehouse takes them.
ClearBackpack_Drops ==
  /\ scene = "backpack_config"
  /\ \E moved \in Taken(warehouseGrid, mainBackpack, WarehouseCells) :
       /\ moved # Empty
       /\ SaveBoth(Empty, Add(warehouseGrid, moved))
  /\ UNCHANGED <<row, scene, current_category, initial, loot>>

\* It stops at the first item that finds no place.
ClearBackpack ==
  /\ scene = "backpack_config"
  /\ \E moved \in SubBags(mainBackpack) :
       /\ moved # Empty
       /\ Used(Add(warehouseGrid, moved)) <= WarehouseCells
       /\ \/ moved = mainBackpack
          \/ \E p \in Path : /\ moved[p] < mainBackpack[p]
                             /\ MayRefuse(Add(warehouseGrid, moved), p, WarehouseCells)
       /\ SaveBoth(Without(mainBackpack, moved), Add(warehouseGrid, moved))
  /\ UNCHANGED <<row, scene, current_category, initial, loot>>

\* What fits neither the backpack again nor the warehouse is freed.
AutoSort ==
  /\ scene = "backpack_config"
  /\ \E kept \in Taken(Empty, mainBackpack, BackpackCells) :
       \E back \in Taken(warehouseGrid, Without(mainBackpack, kept), WarehouseCells) :
         SaveBoth(kept, Add(warehouseGrid, back))
  /\ UNCHANGED <<row, scene, current_category, initial, loot>>

\* Slip: the item is sold because the grid shows it.
Sell_Shown(p) ==
  /\ scene = "backpack_config"
  /\ warehouseGrid[p] > 0
  /\ LET sold == [data EXCEPT !.inventory = Without(@, One(p)), !.coins = Add(@, One(p))]
     IN  /\ data' = sold
         /\ mainBackpack' = sold.backpack
         /\ warehouseGrid' \in Rendered(sold.inventory, current_category)
         /\ Send(SyncToServer(sold))
  /\ UNCHANGED <<row, scene, current_category, initial, loot>>

\* The grids are built again from GlobalPlayerData, which no longer has the item.
Sell(p) ==
  /\ scene = "backpack_config"
  /\ warehouseGrid[p] > 0 /\ data.inventory[p] > 0
  /\ LET sold == [data EXCEPT !.inventory = Without(@, One(p)), !.coins = Add(@, One(p))]
     IN  /\ data' = sold
         /\ mainBackpack' = sold.backpack
         /\ warehouseGrid' \in Rendered(sold.inventory, current_category)
         /\ Send(SyncToServer(sold))
  /\ UNCHANGED <<row, scene, current_category, initial, loot>>

Confirm ==
  /\ scene = "backpack_config"
  /\ SaveBoth(mainBackpack, warehouseGrid)
  /\ initial' = data'
  /\ UNCHANGED <<row, scene, current_category, loot>>

\* Slip: the lobby shows what it has.
Discard_NoFetch ==
  /\ scene = "backpack_config"
  /\ data' = initial
  /\ Enter("lobby")
  /\ Send(SyncToServer(initial))
  /\ UNCHANGED <<row, loot>>

\* The lobby asks for the profile when it is entered.
Discard ==
  /\ scene = "backpack_config"
  /\ data' = initial
  /\ Enter("lobby")
  /\ Send(Append(SyncToServer(initial), Get))
  /\ UNCHANGED <<row, loot>>

-----------------------------------------------------------------------------
(* A match, as far as the backpack goes *)

StartMatch ==
  /\ scene = "lobby" /\ FewCopies(data)
  /\ scene' = "game"
  /\ mainBackpack' = data.backpack
  /\ UNCHANGED <<row, data, warehouseGrid, current_category, initial, netVars, loot>>

PickUp(p) ==
  /\ scene = "game"
  /\ loot[p] < MaxLoot /\ HasCells(mainBackpack, p, BackpackCells)
  /\ mainBackpack' = Add(mainBackpack, One(p))
  /\ loot' = Add(loot, One(p))
  /\ UNCHANGED <<row, data, scene, warehouseGrid, current_category, initial, netVars>>

\* _finalizeMatchSettlement: a player that got out keeps everything, one that died what lay in
\* the safe; what was thrown away before is gone in both cases.
EndMatch ==
  /\ scene = "game"
  /\ \E kept \in SubBags(mainBackpack) :
       /\ data' = [data EXCEPT !.backpack = kept]
       /\ Send(<<[route |-> "Room.Settlement", config |-> kept]>>)
  /\ Enter("settled")
  /\ UNCHANGED <<row, loot>>

\* Slip: the settlement has told the client what it has.
ReturnToLobby_NoFetch ==
  /\ scene = "settled"
  /\ Enter("lobby")
  /\ UNCHANGED <<row, data, netVars, loot>>

ReturnToLobby ==
  /\ scene = "settled"
  /\ UNCHANGED <<row, data, loot>>
  /\ Enter("lobby")
  /\ Send(<<Get>>)

-----------------------------------------------------------------------------
(* Server and network *)

\* Each save reads the row, and writes it whole with its own part replaced.
Stored(r, request) ==
  IF request.route \in {"User.SaveBackpack", "Room.Settlement"}
  THEN [r EXCEPT !.backpack = request.config]
  ELSE IF request.route = "User.SaveInventory"
       THEN [r EXCEPT !.inventory = request.inventory, !.coins = request.coins]
       ELSE r

\* Before the login every request is refused, and a refused one is not answered.
Accepted(request) == bound \/ request.route = "User.Auth"

Handle ==
  /\ toServer # <<>>
  /\ LET request == Head(toServer)
     IN  /\ row' = IF Accepted(request) THEN Stored(row, request) ELSE row
         /\ toClient' = IF online /\ Accepted(request) /\ request.route \in Fetches
                        THEN Append(toClient, [route |-> request.route, profile |-> row])
                        ELSE toClient
         /\ bound' = Accepted(request)
  /\ toServer' = Tail(toServer)
  /\ UNCHANGED <<clientVars, online, loot>>

\* What an answer makes the client ask for: after a login the lobby is entered and asks for the
\* profile, and the listener that a stopped recovery left behind asks for it too.
AsksAfter(answer) ==
  IF answer.route = "User.Auth" THEN {<<Get>>, <<Get, Get>>} ELSE {<<>>}

\* _on_profile_loaded.  The screen keeps its grids (_ignore_rebuild).
Deliver ==
  /\ toClient # <<>>
  /\ data' = Head(toClient).profile
  /\ \E asked \in AsksAfter(Head(toClient)) : toServer' = toServer \o asked
  /\ toClient' = Tail(toClient)
  /\ scene' = IF scene = "login" THEN "lobby" ELSE scene
  /\ UNCHANGED <<row, mainBackpack, warehouseGrid, current_category, initial, online, bound, loot>>

\* What the server has received of the session is still handled.
Disconnect ==
  /\ online
  /\ \E n \in 0 .. Len(toServer) : toServer' = SubSeq(toServer, 1, n)
  /\ toClient' = <<>> /\ online' = FALSE
  /\ UNCHANGED <<row, clientVars, bound, loot>>

\* A new session, its first requests sent.  Those of the old one have been handled by then.
Connect(requests) ==
  /\ ~online /\ toServer = <<>>
  /\ online' = TRUE /\ bound' = FALSE
  /\ toServer' = requests
  /\ UNCHANGED <<row, data, toClient, loot>>

\* The login page, also after a logout or a kick.
Login ==
  /\ Connect(<<[route |-> "User.Auth"]>>)
  /\ Enter("login")

\* The lobby asks for the profile at once.  SessionRecovery stops at net.player_password, which
\* NetworkManager does not have, before it sends its login.
Reconnect ==
  /\ scene # "login"
  /\ Connect(IF scene = "lobby" THEN <<Get>> ELSE <<>>)
  /\ UNCHANGED <<scene, mainBackpack, warehouseGrid, current_category, initial>>

-----------------------------------------------------------------------------

Screen ==
  \/ OpenConfig \/ MoveInside \/ ClearBackpack \/ AutoSort \/ Confirm \/ Discard
  \/ \E c \in {"All"} \cup Tab : Filter(c)
  \/ \E p \in Path : MoveToBackpack(p) \/ MoveToWarehouse(p) \/ Sell(p)

Match == StartMatch \/ EndMatch \/ ReturnToLobby \/ \E p \in Path : PickUp(p)

Network == Handle \/ Deliver \/ Disconnect \/ Login \/ Reconnect

Next == Screen \/ Match \/ Network

Spec == Init /\ [][Next]_vars

\* The server answers and the network delivers.
FairSpec == Spec /\ WF_vars(Handle) /\ WF_vars(Deliver)

-----------------------------------------------------------------------------
(* Properties *)

LoggedIn == online /\ bound

\* What the lobby of a logged-in session shows once nothing is under way is what the server has
\* stored, whatever was saved, refused, lost, answered late or rolled back before (lobby.gd:31 asks
\* on every entry).  A session made by a reconnection is not logged in: it promises nothing.
LobbyIsFresh ==
  (scene = "lobby" /\ LoggedIn /\ toServer = <<>> /\ toClient = <<>>) => data = row

MayLose(p) ==
  \/ data'.inventory[p] + data'.backpack[p] >= data.inventory[p] + data.backpack[p]
  \/ data'.inventory[p] + data'.backpack[p] >= warehouseGrid[p] + mainBackpack[p]
  \/ data'.coins[p] > data.coins[p]
  \/ /\ MayRefuse(mainBackpack', p, BackpackCells)
     /\ MayRefuse(warehouseGrid', p, WarehouseCells)

\* A player on the loadout screen only ever loses an item by selling it, because neither grid
\* showed it, or because sorting found no place for it in either grid.
ShownIsKept ==
  [][ (scene = "backpack_config" /\ scene' = "backpack_config" /\ toClient' = toClient) =>
        \A p \in Path : MayLose(p) ]_vars

\* The lobby of a logged-in session comes to show what the server has stored, unless the player or
\* the connection leaves first.
LobbyCatchesUp ==
  (scene = "lobby" /\ LoggedIn) ~> (data = row \/ scene # "lobby" \/ ~LoggedIn)
================================================================================
