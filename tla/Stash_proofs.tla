----------------------------- MODULE Stash_proofs ------------------------------
(***************************************************************************)
(* Type correctness of Stash, that a logged-in lobby shows the row once    *)
(* nothing is under way, that in the lobby of a session the packets run    *)
(* out, and what a player on the loadout screen may lose, for every set of *)
(* items, every size of grid and every bound.                              *)
(***************************************************************************)
EXTENDS Stash, SequenceTheorems, TLAPS

LEMMA BagAdd ==
  ASSUME NEW b \in Bag, NEW c \in Bag
  PROVE  /\ Add(b, c) \in Bag
         /\ \A p \in Path : Add(b, c)[p] = b[p] + c[p]
BY DEF Add, Bag

LEMMA BagWithout ==
  ASSUME NEW b \in Bag, NEW c \in Bag, Within(c, b)
  PROVE  /\ Without(b, c) \in Bag
         /\ \A p \in Path : Without(b, c)[p] = b[p] - c[p]
BY DEF Without, Bag, Within

LEMMA BagOne ==
  ASSUME NEW p \in Path
  PROVE  /\ One(p) \in Bag
         /\ One(p)[p] = 1
         /\ \A b \in Bag : b[p] > 0 => Within(One(p), b)
BY DEF One, Bag, Within

LEMMA BagEmpty == Empty \in Bag
BY DEF Empty, Bag

\* A part of a bag is a bag.
LEMMA SubBagIsBag ==
  ASSUME NEW b \in Bag, NEW c \in SubBags(b)
  PROVE  c \in Bag /\ Within(c, b)
<1>1. c \in [Path -> UNION {0 .. b[p] : p \in Path}] /\ Within(c, b)
  BY DEF SubBags
<1>2. \A p \in Path : 0 .. b[p] \subseteq Nat
  BY DEF Bag
<1>3. UNION {0 .. b[p] : p \in Path} \subseteq Nat
  BY <1>2
<1> QED
  BY <1>1, <1>3 DEF Bag

LEMMA TakenIsPart ==
  ASSUME NEW b \in Bag, NEW c \in Bag, NEW cells, NEW t \in Taken(b, c, cells)
  PROVE  t \in Bag /\ Within(t, c)
<1>1. t \in SubBags(c)
  BY DEF Taken
<1> QED
  BY <1>1, SubBagIsBag

LEMMA RenderedIsBag ==
  ASSUME NEW b \in Bag, NEW category, NEW t \in Rendered(b, category)
  PROVE  t \in Bag
<1>1. Filtered(b, category) \in Bag
  BY DEF Filtered, Bag
<1>2. t \in Taken(Empty, Filtered(b, category), WarehouseCells)
  BY DEF Rendered
<1> QED
  BY <1>1, <1>2, TakenIsPart, BagEmpty

-----------------------------------------------------------------------------
(* Types *)

LEMMA SyncTyped ==
  ASSUME NEW d \in Profile
  PROVE  SyncToServer(d) \in Seq(Request)
<1>1. d.backpack \in Bag /\ d.inventory \in Bag /\ d.coins \in Bag
  BY DEF Profile
<1>2. [route |-> "User.SaveBackpack", config |-> d.backpack] \in Request
  BY <1>1 DEF Request
<1>3. [route |-> "User.SaveInventory", inventory |-> d.inventory, coins |-> d.coins] \in Request
  BY <1>1 DEF Request
<1> QED
  BY <1>2, <1>3 DEF SyncToServer

LEMMA GetTyped == Get \in Request
BY DEF Get, Request

LEMMA SendTyped ==
  ASSUME toServer \in Seq(Request), NEW requests \in Seq(Request), Send(requests)
  PROVE  toServer' \in Seq(Request) /\ UNCHANGED <<toClient, online, bound>>
BY DEF Send

\* _save_both replaces both collections of GlobalPlayerData and keeps the balance.
LEMMA SaveBothTyped ==
  ASSUME TypeOK, NEW backpack \in Bag, NEW warehouse \in Bag, SaveBoth(backpack, warehouse)
  PROVE  /\ data' \in Profile
         /\ data'.backpack = backpack /\ data'.inventory = warehouse
         /\ data'.coins = data.coins
         /\ mainBackpack' = backpack /\ warehouseGrid' = warehouse
         /\ toServer' \in Seq(Request)
         /\ UNCHANGED <<toClient, online, bound>>
<1> DEFINE saved == [data EXCEPT !.backpack = backpack, !.inventory = warehouse]
<1>1. saved \in Profile /\ saved.coins = data.coins
      /\ saved.backpack = backpack /\ saved.inventory = warehouse
  BY DEF TypeOK, Profile
<1>2. data' = saved /\ mainBackpack' = backpack /\ warehouseGrid' = warehouse
      /\ Send(SyncToServer(saved))
  BY DEF SaveBoth
<1>3. SyncToServer(saved) \in Seq(Request)
  BY <1>1, SyncTyped
<1>4. toServer' \in Seq(Request) /\ UNCHANGED <<toClient, online, bound>>
  <2> HIDE DEF saved
  <2> QED BY <1>2, <1>3, SendTyped DEF TypeOK
<1> QED
  BY <1>1, <1>2, <1>4

\* The pairs of grids _save_both is called with: every step of the screen that only moves items.
Moves(backpack, warehouse) ==
  /\ backpack \in Bag /\ warehouse \in Bag
  /\ SaveBoth(backpack, warehouse)

LEMMA MoveSteps ==
  ASSUME TypeOK,
         MoveInside \/ ClearBackpack \/ AutoSort \/ Confirm
           \/ \E p \in Path : MoveToBackpack(p) \/ MoveToWarehouse(p)
  PROVE  \E backpack, warehouse : Moves(backpack, warehouse)
<1> USE DEF TypeOK
<1>1. CASE MoveInside \/ Confirm
  BY <1>1 DEF MoveInside, Confirm, Moves
<1>2. CASE ClearBackpack
  <2>1. PICK moved \in SubBags(mainBackpack) :
          SaveBoth(Without(mainBackpack, moved), Add(warehouseGrid, moved))
    BY <1>2 DEF ClearBackpack
  <2>2. moved \in Bag /\ Within(moved, mainBackpack)
    BY SubBagIsBag
  <2> QED
    BY <2>1, <2>2, BagAdd, BagWithout DEF Moves
<1>3. CASE AutoSort
  <2>1. PICK kept \in Taken(Empty, mainBackpack, BackpackCells) :
          \E back \in Taken(warehouseGrid, Without(mainBackpack, kept), WarehouseCells) :
            SaveBoth(kept, Add(warehouseGrid, back))
    BY <1>3 DEF AutoSort
  <2>2. kept \in Bag /\ Within(kept, mainBackpack)
    BY BagEmpty, TakenIsPart
  <2>3. PICK back \in Taken(warehouseGrid, Without(mainBackpack, kept), WarehouseCells) :
          SaveBoth(kept, Add(warehouseGrid, back))
    BY <2>1
  <2>4. back \in Bag
    BY <2>2, BagWithout, TakenIsPart
  <2> QED
    BY <2>2, <2>3, <2>4, BagAdd DEF Moves
<1>4. ASSUME NEW p \in Path, MoveToBackpack(p)
      PROVE  \E backpack, warehouse : Moves(backpack, warehouse)
  <2>1. One(p) \in Bag /\ Within(One(p), warehouseGrid)
    BY <1>4, BagOne DEF MoveToBackpack
  <2> QED
    BY <1>4, <2>1, BagAdd, BagWithout DEF MoveToBackpack, Moves
<1>5. ASSUME NEW p \in Path, MoveToWarehouse(p)
      PROVE  \E backpack, warehouse : Moves(backpack, warehouse)
  <2>1. One(p) \in Bag /\ Within(One(p), mainBackpack)
    BY <1>5, BagOne DEF MoveToWarehouse
  <2> QED
    BY <1>5, <2>1, BagAdd, BagWithout DEF MoveToWarehouse, Moves
<1> QED
  BY <1>1, <1>2, <1>3, <1>4, <1>5

\* A sale takes the item from the inventory and pays for it.
LEMMA SaleTyped ==
  ASSUME TypeOK, NEW p \in Path, Sell(p)
  PROVE  /\ data' \in Profile /\ data'.coins[p] = data.coins[p] + 1
         /\ mainBackpack' \in Bag /\ warehouseGrid' \in Bag
         /\ toServer' \in Seq(Request)
         /\ UNCHANGED <<row, scene, initial, loot, toClient, online, bound>>
<1> DEFINE sold == [data EXCEPT !.inventory = Without(data.inventory, One(p)),
                                !.coins = Add(data.coins, One(p))]
<1>1. /\ data' = sold /\ mainBackpack' = sold.backpack
      /\ warehouseGrid' \in Rendered(sold.inventory, current_category)
      /\ Send(SyncToServer(sold))
      /\ data.inventory[p] > 0
      /\ UNCHANGED <<row, scene, initial, loot>>
  BY DEF Sell
<1>2. data.inventory \in Bag /\ data.coins \in Bag /\ data.backpack \in Bag
  BY DEF TypeOK, Profile
<1>3. Without(data.inventory, One(p)) \in Bag
  BY <1>1, <1>2, BagOne, BagWithout
<1>4. /\ Add(data.coins, One(p)) \in Bag
      /\ Add(data.coins, One(p))[p] = data.coins[p] + 1
  BY <1>2, BagOne, BagAdd
<1>5. /\ sold \in Profile /\ sold.coins = Add(data.coins, One(p))
      /\ sold.inventory \in Bag /\ sold.backpack \in Bag
  BY <1>2, <1>3, <1>4 DEF TypeOK, Profile
<1> HIDE DEF sold
<1>6. toServer' \in Seq(Request) /\ UNCHANGED <<toClient, online, bound>>
  BY <1>1, <1>5, SyncTyped, SendTyped DEF TypeOK
<1>7. warehouseGrid' \in Bag
  BY <1>1, <1>5, RenderedIsBag
<1> QED
  BY <1>1, <1>4, <1>5, <1>6, <1>7

LEMMA InitTyped == Init => TypeOK
<1>1. FirstRow \in Profile /\ NoProfile \in Profile
  BY BagEmpty, ItemsAssumption DEF ItemsAssumption, FirstRow, NoProfile, Profile
<1>2. <<>> \in Seq(Request) /\ <<>> \in Seq(Answer)
  OBVIOUS
<1> QED
  BY <1>1, <1>2, BagEmpty DEF Init, TypeOK

LEMMA EnterTyped ==
  ASSUME NEW next, Enter(next)
  PROVE  /\ scene' = next /\ initial' \in Profile
         /\ mainBackpack' \in Bag /\ warehouseGrid' \in Bag
BY BagEmpty DEF Enter, NoProfile, Profile

\* A row keeps its three parts whatever request is stored in it.
LEMMA StoredTyped ==
  ASSUME NEW r \in Profile, NEW request \in Request
  PROVE  Stored(r, request) \in Profile
<1>1. CASE request.route \in {"User.SaveBackpack", "Room.Settlement"}
  <2>1. request.config \in Bag
    BY <1>1 DEF Request
  <2> QED BY <1>1, <2>1 DEF Stored, Profile
<1>2. CASE request.route = "User.SaveInventory"
  <2>1. request.inventory \in Bag /\ request.coins \in Bag
    BY <1>2 DEF Request
  <2> QED BY <1>2, <2>1 DEF Stored, Profile
<1>3. CASE request.route \notin {"User.SaveBackpack", "Room.Settlement", "User.SaveInventory"}
  BY <1>3 DEF Stored
<1> QED BY <1>1, <1>2, <1>3

LEMMA OnceOrTwice ==
  ASSUME NEW S, NEW e \in S
  PROVE  /\ <<>> \in Seq(S) /\ <<e>> \in Seq(S) /\ <<e, e>> \in Seq(S)
         /\ Len(<<e>>) = 1 /\ Len(<<e, e>>) = 2
         /\ \A i \in DOMAIN <<e>> : <<e>>[i] = e
         /\ \A i \in DOMAIN <<e, e>> : <<e, e>>[i] = e
OBVIOUS

LEMMA AsksTyped ==
  ASSUME NEW answer, NEW asked \in AsksAfter(answer)
  PROVE  asked \in Seq(Request)
<1>1. asked = <<>> \/ asked = <<Get>> \/ asked = <<Get, Get>>
  BY DEF AsksAfter
<1> QED
  BY <1>1, GetTyped, OnceOrTwice

LEMMA TypeStep ==
  ASSUME TypeOK, [Next]_vars
  PROVE  TypeOK'
<1>1. CASE MoveInside \/ ClearBackpack \/ AutoSort \/ Confirm
             \/ \E p \in Path : MoveToBackpack(p) \/ MoveToWarehouse(p)
  <2>1. PICK backpack, warehouse : Moves(backpack, warehouse)
    BY <1>1, MoveSteps
  <2>2. /\ data' \in Profile
        /\ mainBackpack' \in Bag /\ warehouseGrid' \in Bag
        /\ toServer' \in Seq(Request) /\ UNCHANGED <<toClient, online, bound>>
    BY <2>1, SaveBothTyped DEF Moves
  <2>3. UNCHANGED <<row, scene, loot>> /\ initial' \in {initial, data'}
    BY <1>1 DEF MoveInside, ClearBackpack, AutoSort, Confirm, MoveToBackpack, MoveToWarehouse
  <2> QED
    BY <2>2, <2>3 DEF TypeOK
<1>2. ASSUME NEW p \in Path, Sell(p)
      PROVE  TypeOK'
  BY <1>2, SaleTyped DEF TypeOK
<1>3. CASE OpenConfig
  BY <1>3, RenderedIsBag DEF OpenConfig, TypeOK, Profile, netVars
<1>4. ASSUME NEW c, Filter(c)
      PROVE  TypeOK'
  BY <1>4, RenderedIsBag DEF Filter, TypeOK, Profile, netVars
<1>5. CASE Discard
  <2>1. Append(SyncToServer(initial), Get) \in Seq(Request)
    BY SyncTyped, GetTyped DEF TypeOK
  <2> QED
    BY <1>5, <2>1, SendTyped, EnterTyped DEF Discard, TypeOK
<1>6. CASE StartMatch
  BY <1>6 DEF StartMatch, TypeOK, Profile, netVars
<1>7. ASSUME NEW p \in Path, PickUp(p)
      PROVE  TypeOK'
  <2>1. One(p) \in Bag
    BY BagOne
  <2> QED
    BY <1>7, <2>1, BagAdd DEF PickUp, TypeOK, netVars
<1>8. CASE EndMatch
  <2>1. PICK kept \in SubBags(mainBackpack) :
          /\ data' = [data EXCEPT !.backpack = kept]
          /\ Send(<<[route |-> "Room.Settlement", config |-> kept]>>)
    BY <1>8 DEF EndMatch
  <2>2. kept \in Bag
    BY SubBagIsBag DEF TypeOK
  <2>3. <<[route |-> "Room.Settlement", config |-> kept]>> \in Seq(Request)
    BY <2>2 DEF Request
  <2>4. data' \in Profile
    BY <2>1, <2>2 DEF TypeOK, Profile
  <2>5. toServer' \in Seq(Request) /\ UNCHANGED <<toClient, online, bound>>
    BY <2>1, <2>3, SendTyped DEF TypeOK
  <2>6. Enter("settled") /\ UNCHANGED <<row, loot>>
    BY <1>8 DEF EndMatch
  <2> QED
    BY <2>4, <2>5, <2>6, EnterTyped DEF TypeOK
<1>9. CASE ReturnToLobby
  <2>1. <<Get>> \in Seq(Request)
    BY GetTyped
  <2>2. Enter("lobby") /\ Send(<<Get>>) /\ UNCHANGED <<row, data, loot>>
    BY <1>9 DEF ReturnToLobby
  <2> QED
    BY <2>1, <2>2, SendTyped, EnterTyped DEF TypeOK
<1>10. CASE Handle
  <2> DEFINE request == Head(toServer)
  <2>1. request \in Request /\ toServer' \in Seq(Request)
    BY <1>10 DEF Handle, TypeOK
  <2>2. row' \in Profile
    BY <1>10, <2>1, StoredTyped DEF Handle, TypeOK
  <2>4. bound' \in BOOLEAN
    BY <1>10 DEF Handle, Accepted, TypeOK
  <2>3. toClient' \in Seq(Answer)
    <3>1. request.route \in Fetches => [route |-> request.route, profile |-> row] \in Answer
      BY DEF TypeOK, Answer, Fetches
    <3>2. toClient' = IF online /\ Accepted(request) /\ request.route \in Fetches
                      THEN Append(toClient, [route |-> request.route, profile |-> row])
                      ELSE toClient
      BY <1>10 DEF Handle
    <3> QED
      BY <3>1, <3>2 DEF TypeOK
  <2> QED
    BY <1>10, <2>1, <2>2, <2>3, <2>4 DEF Handle, TypeOK, clientVars
<1>11. CASE Deliver
  <2>1. Head(toClient) \in Answer /\ toClient' \in Seq(Answer)
    BY <1>11 DEF Deliver, TypeOK
  <2>2. data' \in Profile
    BY <1>11, <2>1 DEF Deliver, Answer
  <2>3. toServer' \in Seq(Request)
    BY <1>11, AsksTyped DEF Deliver, TypeOK
  <2>4. scene' \in {scene, "lobby"}
    BY <1>11 DEF Deliver
  <2>5. UNCHANGED <<row, initial, mainBackpack, warehouseGrid, loot, online, bound>>
    BY <1>11 DEF Deliver
  <2> QED
    BY <2>1, <2>2, <2>3, <2>4, <2>5 DEF TypeOK
<1>12. CASE Disconnect
  <2>1. PICK n \in 0 .. Len(toServer) : toServer' = SubSeq(toServer, 1, n)
    BY <1>12 DEF Disconnect
  <2>2. toServer' \in Seq(Request)
    BY <2>1 DEF TypeOK
  <2>3. toClient' = <<>> /\ online' = FALSE /\ UNCHANGED <<row, clientVars, bound, loot>>
    BY <1>12 DEF Disconnect
  <2>4. <<>> \in Seq(Answer)
    OBVIOUS
  <2> QED
    BY <2>2, <2>3, <2>4 DEF TypeOK, clientVars
<1>13. CASE Login \/ Reconnect
  <2>1. /\ <<[route |-> "User.Auth"]>> \in Seq(Request)
        /\ <<Get>> \in Seq(Request) /\ <<>> \in Seq(Request)
    BY GetTyped DEF Request
  <2>2. toServer' \in Seq(Request) /\ online' = TRUE /\ bound' = FALSE
        /\ UNCHANGED <<row, data, toClient, loot>>
    BY <1>13, <2>1 DEF Login, Reconnect, Connect
  <2>3. CASE Reconnect
    BY <2>2, <2>3 DEF Reconnect, TypeOK
  <2>4. CASE Login
    BY <2>2, <2>4, EnterTyped DEF Login, TypeOK
  <2> QED BY <1>13, <2>3, <2>4
<1>14. CASE UNCHANGED vars
  BY <1>14 DEF vars, clientVars, netVars, TypeOK
<1> QED
  BY <1>1, <1>2, <1>3, <1>4, <1>5, <1>6, <1>7, <1>8, <1>9, <1>10, <1>11, <1>12, <1>13,
     <1>14
     DEF Next, Screen, Match, Network

\* The row, the client's copy, the grids and every packet under way hold whole profiles: no
\* operation of the screen, no match and no loss drives a count below zero.
THEOREM TypeCorrect == Spec => []TypeOK
BY InitTyped, TypeStep, PTL DEF Spec

-----------------------------------------------------------------------------
(* The lobby shows the row in the end.  With requests under way, the last of *)
(* them is a fetch; with answers only, the last of them is the row.          *)

CaughtUp ==
  IF toServer # <<>> THEN toServer[Len(toServer)].route \in Fetches
  ELSE IF toClient # <<>> THEN toClient[Len(toClient)].profile = row
  ELSE data = row

\* The session is logged in, or will be by a login still under way.
WillBeBound == bound \/ \E i \in DOMAIN toServer : toServer[i].route = "User.Auth"

FreshInv == TypeOK /\ (scene \in {"login", "lobby"} /\ online /\ WillBeBound => CaughtUp)

LEMMA InTail ==
  ASSUME NEW S, NEW s \in Seq(S), s # <<>>
  PROVE  /\ Len(s) \in Nat \ {0} /\ Len(Tail(s)) = Len(s) - 1
         /\ \A i \in DOMAIN Tail(s) : i \in Nat \ {0} /\ i + 1 \in DOMAIN s /\ Tail(s)[i] = s[i + 1]
OBVIOUS

LEMMA LastOfTail ==
  ASSUME NEW S, NEW s \in Seq(S), s # <<>>, Tail(s) # <<>>
  PROVE  Tail(s)[Len(Tail(s))] = s[Len(s)]
OBVIOUS

LEMMA HeadIsLast ==
  ASSUME NEW S, NEW s \in Seq(S), s # <<>>, Tail(s) = <<>>
  PROVE  Head(s) = s[Len(s)]
<1>1. Len(Tail(s)) = Len(s) - 1 /\ Len(s) \in Nat
  BY HeadTailProperties
<1>2. Len(s) = 1
  <2>1. Len(Tail(s)) = Len(<<>>)
    BY Zenon
  <2>2. Len(<<>>) = 0
    OBVIOUS
  <2> QED
    BY <1>1, <2>1, <2>2
<1>3. Head(s) = s[1]
  OBVIOUS
<1> QED
  BY <1>2, <1>3

LEMMA LastOfAppend ==
  ASSUME NEW S, NEW s \in Seq(S), NEW e
  PROVE  Append(s, e) # <<>> /\ Append(s, e)[Len(Append(s, e))] = e
OBVIOUS

LEMMA LastOfConcat ==
  ASSUME NEW S, NEW s \in Seq(S), NEW a \in S, NEW b \in S
  PROVE  /\ s \o <<b>> # <<>> /\ (s \o <<b>>)[Len(s \o <<b>>)] = b
         /\ s \o <<a, b>> # <<>> /\ (s \o <<a, b>>)[Len(s \o <<a, b>>)] = b
<1>1. /\ <<b>> \in Seq(S) /\ <<a, b>> \in Seq(S) /\ Len(s) \in Nat
      /\ Len(s \o <<b>>) = Len(s) + 1 /\ Len(s \o <<a, b>>) = Len(s) + 2
  OBVIOUS
<1> QED
  BY <1>1

\* Whoever comes back to the lobby asks for the profile after everything it saved.
LEMMA FetchLast ==
  ASSUME TypeOK, online, NEW saves \in Seq(Request), Send(Append(saves, Get))
  PROVE  toServer' # <<>> /\ toServer'[Len(toServer')].route \in Fetches
<1>1. toServer' = Append(toServer \o saves, Get)
  BY GetTyped DEF Send, TypeOK
<1>2. toServer \o saves \in Seq(Request)
  BY DEF TypeOK
<1>3. toServer' # <<>> /\ toServer'[Len(toServer')] = Get
  BY <1>1, <1>2, LastOfAppend
<1> QED
  BY <1>3 DEF Get, Fetches

LEMMA FreshStep ==
  ASSUME FreshInv, [Next]_vars
  PROVE  FreshInv'
<1> TypeOK /\ TypeOK'
  BY TypeStep DEF FreshInv
<1> SUFFICES ASSUME scene' \in {"login", "lobby"}, online', WillBeBound'
                  PROVE  CaughtUp'
  BY DEF FreshInv
<1>1. CASE Discard
  <2>1. SyncToServer(initial) \in Seq(Request) /\ online
    BY <1>1, SyncTyped DEF Discard, Send, TypeOK
  <2>2. Send(Append(SyncToServer(initial), Get))
    BY <1>1 DEF Discard
  <2> QED
    BY <2>1, <2>2, FetchLast DEF CaughtUp
<1>2. CASE ReturnToLobby
  <2>1. Send(Append(<<>>, Get)) /\ <<>> \in Seq(Request)
    BY <1>2 DEF ReturnToLobby
  <2>2. online
    BY <2>1 DEF Send
  <2> QED
    BY <2>1, <2>2, FetchLast DEF CaughtUp
<1>3. CASE Handle
  <2> DEFINE request == Head(toServer)
  <2>1. /\ toServer # <<>> /\ toServer' = Tail(toServer)
        /\ row' = IF Accepted(request) THEN Stored(row, request) ELSE row
        /\ Accepted(request) /\ request.route \in Fetches =>
             toClient' = Append(toClient, [route |-> request.route, profile |-> row])
        /\ bound' = Accepted(request)
        /\ scene \in {"login", "lobby"} /\ online
    BY <1>3 DEF Handle, clientVars
  <2>5. WillBeBound
    <3>1. request = toServer[1] /\ 1 \in DOMAIN toServer
      BY <2>1 DEF TypeOK
    <3>2. CASE bound'
      BY <2>1, <3>1, <3>2 DEF Accepted, WillBeBound
    <3>3. ASSUME NEW i \in DOMAIN toServer', toServer'[i].route = "User.Auth"
          PROVE  WillBeBound
      BY <2>1, <3>3, InTail DEF TypeOK, WillBeBound
    <3> QED BY <3>2, <3>3 DEF WillBeBound
  <2>2. toServer[Len(toServer)].route \in Fetches
    BY <2>1, <2>5 DEF FreshInv, CaughtUp
  <2>3. CASE toServer' # <<>>
    <3>1. toServer'[Len(toServer')] = toServer[Len(toServer)]
      BY <2>1, <2>3, LastOfTail DEF TypeOK
    <3> QED BY <2>2, <2>3, <3>1 DEF CaughtUp
  <2>4. CASE toServer' = <<>>
    <3>1. request = toServer[Len(toServer)]
      BY <2>1, <2>4, HeadIsLast DEF TypeOK
    <3>2. request.route \in Fetches
      BY <2>2, <3>1
    <3>6. Accepted(request)
      BY <2>1, <2>4 DEF WillBeBound
    <3>3. row' = row
      BY <2>1, <3>2 DEF Stored, Fetches
    <3>4. /\ toClient' # <<>>
          /\ toClient'[Len(toClient')] = [route |-> request.route, profile |-> row]
      BY <2>1, <3>2, <3>6, LastOfAppend DEF TypeOK
    <3>5. toClient'[Len(toClient')].profile = row'
      BY <3>3, <3>4
    <3> QED BY <2>4, <3>4, <3>5 DEF CaughtUp
  <2> QED BY <2>3, <2>4
<1>4. CASE Deliver
  <2>1. /\ toClient # <<>> /\ toClient' = Tail(toClient)
        /\ data' = Head(toClient).profile /\ row' = row /\ bound' = bound
        /\ scene \in {"login", "lobby"} /\ online
    BY <1>4 DEF Deliver
  <2>5. PICK asked \in AsksAfter(Head(toClient)) : toServer' = toServer \o asked
    BY <1>4 DEF Deliver
  <2>2. CASE Head(toClient).route = "User.Auth"
    <3>1. asked \in {<<Get>>, <<Get, Get>>}
      BY <2>2 DEF AsksAfter
    <3>3. /\ toServer \o <<Get>> # <<>> /\ (toServer \o <<Get>>)[Len(toServer \o <<Get>>)] = Get
          /\ toServer \o <<Get, Get>> # <<>>
          /\ (toServer \o <<Get, Get>>)[Len(toServer \o <<Get, Get>>)] = Get
      BY LastOfConcat, GetTyped DEF TypeOK
    <3>2. toServer' # <<>> /\ toServer'[Len(toServer')] = Get
      BY <2>5, <3>1, <3>3
    <3> QED BY <3>2 DEF CaughtUp, Get, Fetches
  <2>6. ASSUME Head(toClient).route # "User.Auth"
        PROVE  toServer' = toServer /\ WillBeBound
    <3>1. asked = <<>>
      BY <2>6 DEF AsksAfter
    <3>2. toServer' = toServer
      BY <2>5, <3>1 DEF TypeOK
    <3> QED BY <2>1, <3>2 DEF WillBeBound
  <2>3. CASE Head(toClient).route # "User.Auth" /\ toServer # <<>>
    BY <2>1, <2>3, <2>6 DEF FreshInv, CaughtUp
  <2>4. CASE Head(toClient).route # "User.Auth" /\ toServer = <<>>
    <3>1. toClient[Len(toClient)].profile = row /\ toServer' = <<>>
      BY <2>1, <2>4, <2>6 DEF FreshInv, CaughtUp
    <3>2. CASE toClient' # <<>>
      <4>1. toClient'[Len(toClient')] = toClient[Len(toClient)]
        BY <2>1, <3>2, LastOfTail DEF TypeOK
      <4> QED BY <2>1, <3>1, <3>2, <4>1 DEF CaughtUp
    <3>3. CASE toClient' = <<>>
      <4>1. Head(toClient) = toClient[Len(toClient)]
        BY <2>1, <3>3, HeadIsLast DEF TypeOK
      <4> QED BY <2>1, <3>1, <3>3, <4>1 DEF CaughtUp
    <3> QED BY <3>2, <3>3
  <2> QED BY <2>2, <2>3, <2>4
<1>5. CASE Login
  BY <1>5 DEF Login, Connect, CaughtUp, Fetches
<1>10. CASE Reconnect
  <2>1. ~bound' /\ toServer' \in {<<Get>>, <<>>}
    BY <1>10 DEF Reconnect, Connect
  <2> QED BY <2>1 DEF WillBeBound, Get
<1>6. CASE UNCHANGED vars
  BY <1>6 DEF vars, clientVars, netVars, FreshInv, WillBeBound, CaughtUp
<1>7. CASE Disconnect
  BY <1>7 DEF Disconnect
<1>8. ASSUME NEW c, NEW p \in Path,
             \/ OpenConfig \/ StartMatch \/ EndMatch \/ PickUp(p) \/ MoveInside \/ ClearBackpack \/ AutoSort
             \/ Confirm \/ Filter(c) \/ MoveToBackpack(p) \/ MoveToWarehouse(p) \/ Sell(p)
      PROVE  FALSE
  BY <1>8 DEF OpenConfig, StartMatch, EndMatch, Enter, PickUp, MoveInside, ClearBackpack, AutoSort,
     Confirm, Filter, MoveToBackpack, MoveToWarehouse, Sell
<1>9. ASSUME NEW c,
             \/ OpenConfig \/ StartMatch \/ EndMatch \/ MoveInside \/ ClearBackpack \/ AutoSort
             \/ Confirm \/ Filter(c)
      PROVE  FALSE
  BY <1>9 DEF OpenConfig, StartMatch, EndMatch, Enter, MoveInside, ClearBackpack, AutoSort,
     Confirm, Filter
<1> QED
  BY <1>1, <1>2, <1>3, <1>4, <1>5, <1>6, <1>7, <1>8, <1>9, <1>10 DEF Next, Screen, Match, Network

\* Once nothing is under way, the lobby of a logged-in session shows what the server has stored:
\* after every save, refusal, loss, rollback and late answer, since every way back to the lobby ends
\* with a fetch.  Of a session made by a reconnection, which is never logged in, nothing is said.
THEOREM LobbyShowsRow == Spec => []LobbyIsFresh
<1>1. Init => FreshInv
  BY InitTyped DEF Init, FreshInv
<1>2. FreshInv => LobbyIsFresh
  BY DEF FreshInv, WillBeBound, LoggedIn, CaughtUp, LobbyIsFresh
<1> QED
  BY <1>1, <1>2, FreshStep, PTL DEF Spec

-----------------------------------------------------------------------------
(* What the screen may lose *)

\* One step of ShownIsKept.
KeepsShown ==
  (scene = "backpack_config" /\ scene' = "backpack_config" /\ toClient' = toClient) =>
    \A p \in Path : MayLose(p)

\* Moves between the grids keep their sum; what sorting drops was refused by both.
LEMMA MoveKeeps ==
  ASSUME TypeOK, NEW backpack \in Bag, NEW warehouse \in Bag, SaveBoth(backpack, warehouse),
         \A p \in Path : \/ backpack[p] + warehouse[p] = mainBackpack[p] + warehouseGrid[p]
                         \/ /\ MayRefuse(backpack, p, BackpackCells)
                            /\ MayRefuse(warehouse, p, WarehouseCells)
  PROVE  KeepsShown
<1>1. SUFFICES ASSUME NEW p \in Path
      PROVE  \/ data'.inventory[p] + data'.backpack[p] >= warehouseGrid[p] + mainBackpack[p]
             \/ /\ MayRefuse(mainBackpack', p, BackpackCells)
                /\ MayRefuse(warehouseGrid', p, WarehouseCells)
  BY DEF KeepsShown, MayLose
<1>2. /\ data'.backpack = backpack /\ data'.inventory = warehouse
      /\ mainBackpack' = backpack /\ warehouseGrid' = warehouse
  BY SaveBothTyped
<1>3. /\ backpack[p] \in Nat /\ warehouse[p] \in Nat
      /\ mainBackpack[p] \in Nat /\ warehouseGrid[p] \in Nat
  BY DEF TypeOK, Bag
<1> QED
  BY <1>2, <1>3

LEMMA ScreenLoses ==
  ASSUME TypeOK, [Next]_vars
  PROVE  KeepsShown
<1> USE DEF TypeOK
<1>1. CASE MoveInside \/ Confirm
  BY <1>1, MoveKeeps DEF MoveInside, Confirm, Bag
<1>2. CASE ClearBackpack
  <2>1. PICK moved \in SubBags(mainBackpack) :
          SaveBoth(Without(mainBackpack, moved), Add(warehouseGrid, moved))
    BY <1>2 DEF ClearBackpack
  <2>2. moved \in Bag /\ Within(moved, mainBackpack)
    BY SubBagIsBag
  <2>3. /\ Without(mainBackpack, moved) \in Bag /\ Add(warehouseGrid, moved) \in Bag
        /\ \A p \in Path : /\ Without(mainBackpack, moved)[p] = mainBackpack[p] - moved[p]
                          /\ Add(warehouseGrid, moved)[p] = warehouseGrid[p] + moved[p]
    BY <2>2, BagAdd, BagWithout
  <2>4. \A p \in Path : Without(mainBackpack, moved)[p] + Add(warehouseGrid, moved)[p]
                         = mainBackpack[p] + warehouseGrid[p]
    BY <2>2, <2>3 DEF Bag
  <2> QED
    BY <2>1, <2>3, <2>4, MoveKeeps
<1>3. CASE AutoSort
  <2>1. PICK kept \in Taken(Empty, mainBackpack, BackpackCells) :
          \E back \in Taken(warehouseGrid, Without(mainBackpack, kept), WarehouseCells) :
            SaveBoth(kept, Add(warehouseGrid, back))
    BY <1>3 DEF AutoSort
  <2>2. kept \in Bag /\ Within(kept, mainBackpack)
    BY BagEmpty, TakenIsPart
  <2>3. PICK back \in Taken(warehouseGrid, Without(mainBackpack, kept), WarehouseCells) :
          SaveBoth(kept, Add(warehouseGrid, back))
    BY <2>1
  <2>4. /\ Without(mainBackpack, kept) \in Bag
        /\ \A p \in Path : Without(mainBackpack, kept)[p] = mainBackpack[p] - kept[p]
    BY <2>2, BagWithout
  <2>5. back \in Bag /\ Within(back, Without(mainBackpack, kept))
    BY <2>4, TakenIsPart
  <2>6. /\ Add(warehouseGrid, back) \in Bag
        /\ \A p \in Path : Add(warehouseGrid, back)[p] = warehouseGrid[p] + back[p]
    BY <2>5, BagAdd
  <2>7. Add(Empty, kept) = kept
    BY <2>2 DEF Add, Empty, Bag
  <2>8. ASSUME NEW p \in Path
        PROVE  \/ kept[p] + Add(warehouseGrid, back)[p] = mainBackpack[p] + warehouseGrid[p]
               \/ /\ MayRefuse(kept, p, BackpackCells)
                  /\ MayRefuse(Add(warehouseGrid, back), p, WarehouseCells)
    <3>1. kept[p] < mainBackpack[p] => MayRefuse(kept, p, BackpackCells)
      BY <2>7 DEF Taken
    <3>2. back[p] < Without(mainBackpack, kept)[p]
            => MayRefuse(Add(warehouseGrid, back), p, WarehouseCells)
      BY DEF Taken
    <3>3. /\ kept[p] \in Nat /\ back[p] \in Nat
          /\ mainBackpack[p] \in Nat /\ warehouseGrid[p] \in Nat
      BY <2>2, <2>5 DEF Bag
    <3>4. kept[p] <= mainBackpack[p] /\ back[p] <= mainBackpack[p] - kept[p]
      BY <2>2, <2>4, <2>5 DEF Within
    <3>5. kept[p] < mainBackpack[p] \/ back[p] = mainBackpack[p] - kept[p]
      BY <3>3, <3>4
    <3>6. back[p] < mainBackpack[p] - kept[p] => kept[p] < mainBackpack[p]
      BY <3>3
    <3>7. CASE back[p] = mainBackpack[p] - kept[p]
      BY <2>6, <3>3, <3>7
    <3>8. CASE back[p] < mainBackpack[p] - kept[p]
      BY <2>4, <3>1, <3>2, <3>6, <3>8
    <3> QED
      BY <3>3, <3>4, <3>7, <3>8
  <2> QED
    BY <2>2, <2>3, <2>6, <2>8, MoveKeeps
<1>4. ASSUME NEW p \in Path, MoveToBackpack(p)
      PROVE  KeepsShown
  <2>1. One(p) \in Bag /\ Within(One(p), warehouseGrid)
    BY <1>4, BagOne DEF MoveToBackpack
  <2>2. /\ Add(mainBackpack, One(p)) \in Bag /\ Without(warehouseGrid, One(p)) \in Bag
        /\ \A q \in Path : /\ Without(warehouseGrid, One(p))[q] = warehouseGrid[q] - One(p)[q]
                          /\ Add(mainBackpack, One(p))[q] = mainBackpack[q] + One(p)[q]
    BY <2>1, BagAdd, BagWithout
  <2>3. \A q \in Path : Add(mainBackpack, One(p))[q] + Without(warehouseGrid, One(p))[q]
                         = mainBackpack[q] + warehouseGrid[q]
    BY <2>1, <2>2 DEF Bag
  <2> QED
    BY <1>4, <2>2, <2>3, MoveKeeps DEF MoveToBackpack
<1>5. ASSUME NEW p \in Path, MoveToWarehouse(p)
      PROVE  KeepsShown
  <2>1. One(p) \in Bag /\ Within(One(p), mainBackpack)
    BY <1>5, BagOne DEF MoveToWarehouse
  <2>2. /\ Add(warehouseGrid, One(p)) \in Bag /\ Without(mainBackpack, One(p)) \in Bag
        /\ \A q \in Path : /\ Without(mainBackpack, One(p))[q] = mainBackpack[q] - One(p)[q]
                          /\ Add(warehouseGrid, One(p))[q] = warehouseGrid[q] + One(p)[q]
    BY <2>1, BagAdd, BagWithout
  <2>3. \A q \in Path : Without(mainBackpack, One(p))[q] + Add(warehouseGrid, One(p))[q]
                         = mainBackpack[q] + warehouseGrid[q]
    BY <2>1, <2>2 DEF Bag
  <2> QED
    BY <1>5, <2>2, <2>3, MoveKeeps DEF MoveToWarehouse
<1>6. ASSUME NEW p \in Path, Sell(p)
      PROVE  KeepsShown
  <2>1. data' = [data EXCEPT !.inventory = Without(data.inventory, One(p)),
                             !.coins = Add(data.coins, One(p))]
    BY <1>6 DEF Sell
  <2>2. data'.coins[p] = data.coins[p] + 1 /\ data.coins[p] \in Nat
    BY <1>6, SaleTyped DEF Profile, Bag
  <2>3. data.inventory \in Bag /\ data.coins \in Bag /\ One(p) \in Bag
        /\ Within(One(p), data.inventory)
    BY <1>6, BagOne DEF Profile, Sell
  <2>4. /\ data'.inventory = Without(data.inventory, One(p))
        /\ data'.backpack = data.backpack
    BY <2>1 DEF Profile
  <2>5. ASSUME NEW q \in Path, q # p
        PROVE  data'.inventory[q] = data.inventory[q]
    <3>1. One(p)[q] = 0
      BY <2>5 DEF One
    <3>2. Without(data.inventory, One(p))[q] = data.inventory[q] - One(p)[q]
      BY <2>3, BagWithout
    <3> QED
      BY <2>3, <2>4, <3>1, <3>2 DEF Bag
  <2>6. data.backpack \in Bag
    BY DEF Profile
  <2>7. ASSUME NEW q \in Path
        PROVE  \/ data'.inventory[q] + data'.backpack[q]
                    >= data.inventory[q] + data.backpack[q]
               \/ data'.coins[q] > data.coins[q]
    <3>1. CASE q = p
      BY <2>2, <3>1
    <3>2. CASE q # p
      BY <2>3, <2>4, <2>5, <2>6, <3>2 DEF Bag
    <3> QED BY <3>1, <3>2
  <2> QED
    BY <2>7 DEF KeepsShown, MayLose
<1>7. CASE OpenConfig \/ StartMatch \/ EndMatch \/ ReturnToLobby \/ \E p \in Path : PickUp(p)
  BY <1>7 DEF OpenConfig, StartMatch, EndMatch, ReturnToLobby, Enter, PickUp, KeepsShown
<1>8. CASE Discard
  BY <1>8 DEF Discard, Enter, KeepsShown
<1>9. ASSUME UNCHANGED data
      PROVE  KeepsShown
  BY <1>9 DEF KeepsShown, MayLose, Profile, Bag
<1>10. ASSUME NEW c, Filter(c)
       PROVE  UNCHANGED data
  BY <1>10 DEF Filter
<1>11. CASE Handle \/ Disconnect \/ Login \/ Reconnect \/ UNCHANGED vars
  BY <1>9, <1>11 DEF Handle, Disconnect, Login, Reconnect, Connect, vars, clientVars
<1>12. CASE Deliver
  <2>1. toClient # <<>> /\ toClient' = Tail(toClient)
    BY <1>12 DEF Deliver
  <2>2. toClient' # toClient
    BY <2>1
  <2> QED BY <2>2 DEF KeepsShown
<1> QED
  BY <1>1, <1>2, <1>3, <1>4, <1>5, <1>6, <1>7, <1>8, <1>9, <1>10, <1>11, <1>12
     DEF Next, Screen, Match, Network

\* On the loadout screen a player loses an item by selling it, because no grid shows it, or
\* because sorting finds no place for it in either grid, and in no other way.
THEOREM ScreenKeepsShown == Spec => ShownIsKept
<1>1. TypeOK /\ [Next]_vars => [KeepsShown]_vars
  BY ScreenLoses
<1> QED
  BY <1>1, TypeCorrect, PTL DEF Spec, ShownIsKept, KeepsShown

-----------------------------------------------------------------------------
(* Towards LobbyCatchesUp: while the player stays in the lobby of a          *)
(* logged-in session, every step takes a packet off its way, and a login's   *)
(* answer is the only one that puts others there.                            *)

\* A login is the first packet of its connection, each way.
AuthOnce ==
  /\ ~online => toClient = <<>>
  /\ \A i \in DOMAIN toServer : toServer[i].route = "User.Auth" => i = 1 /\ toClient = <<>>
  /\ \A i \in DOMAIN toClient : toClient[i].route = "User.Auth" => i = 1

LoggingIn ==
  \/ \E i \in DOMAIN toServer : toServer[i].route = "User.Auth"
  \/ \E i \in DOMAIN toClient : toClient[i].route = "User.Auth"

\* The steps the packets under way still have ahead of them: a request is handled and answered,
\* and the answer of a login sends at most two requests of its own.
Awaited == 2 * Len(toServer) + Len(toClient) + (IF LoggingIn THEN 4 ELSE 0)

InLobby == scene = "lobby" /\ LoggedIn

NoAuth(requests) == \A i \in DOMAIN requests : requests[i].route # "User.Auth"

LEMMA InAppend ==
  ASSUME NEW S, NEW s \in Seq(S), NEW e
  PROVE  /\ Len(Append(s, e)) = Len(s) + 1
         /\ \A i \in DOMAIN Append(s, e) :
              \/ i \in DOMAIN s /\ Append(s, e)[i] = s[i]
              \/ i = Len(s) + 1 /\ Append(s, e)[i] = e
OBVIOUS

LEMMA InConcat ==
  ASSUME NEW S, NEW s \in Seq(S), NEW t \in Seq(S)
  PROVE  \A i \in DOMAIN (s \o t) :
           \/ i \in DOMAIN s /\ (s \o t)[i] = s[i]
           \/ i - Len(s) \in DOMAIN t /\ (s \o t)[i] = t[i - Len(s)]
OBVIOUS

\* Saves and fetches line up behind a login.
LEMMA SendKeepsAuth ==
  ASSUME TypeOK, AuthOnce, NEW requests \in Seq(Request), NoAuth(requests), Send(requests)
  PROVE  AuthOnce'
<1>1. toServer' \in {toServer, toServer \o requests} /\ UNCHANGED <<toClient, online, bound>>
  BY DEF Send
<1>2. \A i \in DOMAIN toServer' :
        toServer'[i].route = "User.Auth" => i \in DOMAIN toServer /\ toServer'[i] = toServer[i]
  <2>1. CASE toServer' = toServer
    BY <2>1
  <2>2. CASE toServer' = toServer \o requests
    <3>1. SUFFICES ASSUME NEW i \in DOMAIN toServer', toServer'[i].route = "User.Auth"
          PROVE  i \in DOMAIN toServer /\ toServer'[i] = toServer[i]
      OBVIOUS
    <3>2. \/ i \in DOMAIN toServer /\ toServer'[i] = toServer[i]
          \/ i - Len(toServer) \in DOMAIN requests /\ toServer'[i] = requests[i - Len(toServer)]
      BY <2>2, InConcat DEF TypeOK
    <3> QED
      BY <3>1, <3>2 DEF NoAuth
  <2> QED
    BY <1>1, <2>1, <2>2
<1> QED
  BY <1>1, <1>2 DEF AuthOnce

LEMMA NoAuthSent ==
  ASSUME NEW d, NEW bag
  PROVE  /\ NoAuth(SyncToServer(d)) /\ NoAuth(Append(SyncToServer(d), Get))
         /\ NoAuth(<<Get>>)
         /\ NoAuth(<<[route |-> "Room.Settlement", config |-> bag]>>)
BY DEF NoAuth, SyncToServer, Get

LEMMA HandleKeepsAuth ==
  ASSUME TypeOK, AuthOnce, Handle
  PROVE  AuthOnce' /\ (LoggingIn' => LoggingIn) /\ Awaited' < Awaited
<1> DEFINE request == Head(toServer)
           answer  == [route |-> request.route, profile |-> row]
<1>1. toServer # <<>> /\ toServer' = Tail(toServer) /\ online' = online
  BY DEF Handle
<1>2. toClient' = toClient \/ (online /\ toClient' = Append(toClient, answer))
  BY DEF Handle
<1>3. request = toServer[1] /\ 1 \in DOMAIN toServer
  BY <1>1 DEF TypeOK
<1>4. \A i \in DOMAIN toServer' : toServer'[i].route # "User.Auth"
  BY <1>1, InTail DEF TypeOK, AuthOnce
<1>5. CASE toClient' = toClient
  <2>1. AuthOnce' /\ (LoggingIn' => LoggingIn)
    BY <1>1, <1>4, <1>5 DEF AuthOnce, LoggingIn
  <2>2. Len(toServer') = Len(toServer) - 1 /\ Len(toServer) \in Nat /\ Len(toClient) \in Nat
    BY <1>1, InTail DEF TypeOK
  <2> QED
    BY <1>5, <2>1, <2>2 DEF Awaited
<1>6. CASE online /\ toClient' = Append(toClient, answer)
  <2>1. /\ Len(toClient') = Len(toClient) + 1
        /\ \A i \in DOMAIN toClient' :
             \/ i \in DOMAIN toClient /\ toClient'[i] = toClient[i]
             \/ i = Len(toClient) + 1 /\ toClient'[i] = answer
    BY <1>6, InAppend DEF TypeOK
  <2>2. answer.route = "User.Auth" => toClient = <<>> /\ LoggingIn
    BY <1>3 DEF AuthOnce, LoggingIn
  <2>3. toClient = <<>> => Len(toClient) = 0
    OBVIOUS
  <2>4. \A i \in DOMAIN toClient' : toClient'[i].route = "User.Auth" => i = 1 /\ LoggingIn
    <3> HIDE DEF answer
    <3> QED BY <2>1, <2>2, <2>3 DEF AuthOnce, LoggingIn
  <2>5. AuthOnce' /\ (LoggingIn' => LoggingIn)
    BY <1>1, <1>4, <1>6, <2>4 DEF AuthOnce, LoggingIn
  <2>6. Len(toServer') = Len(toServer) - 1 /\ Len(toServer) \in Nat /\ Len(toClient) \in Nat
    BY <1>1, InTail DEF TypeOK
  <2> QED
    BY <2>1, <2>5, <2>6 DEF Awaited
<1> QED
  BY <1>2, <1>5, <1>6

LEMMA DeliverKeepsAuth ==
  ASSUME TypeOK, AuthOnce, Deliver
  PROVE  AuthOnce' /\ Awaited' < Awaited
<1>1. toClient # <<>> /\ toClient' = Tail(toClient) /\ online' = online
  BY DEF Deliver
<1>2. PICK asked \in AsksAfter(Head(toClient)) : toServer' = toServer \o asked
  BY DEF Deliver
<1>3. Head(toClient) = toClient[1] /\ 1 \in DOMAIN toClient
  BY <1>1 DEF TypeOK
<1>4. \A i \in DOMAIN toClient' : toClient'[i].route # "User.Auth"
  BY <1>1, InTail DEF TypeOK, AuthOnce
<1>5. \A i \in DOMAIN toServer : toServer[i].route # "User.Auth"
  BY <1>1 DEF AuthOnce
<1>6. /\ Len(toClient') = Len(toClient) - 1
      /\ Len(toClient) \in Nat \ {0} /\ Len(toServer) \in Nat
  BY <1>1, InTail DEF TypeOK
<1>7. CASE Head(toClient).route = "User.Auth"
  <2>1. asked \in {<<Get>>, <<Get, Get>>}
    BY <1>7 DEF AsksAfter
  <2>2. /\ asked \in Seq(Request) /\ Len(asked) \in 1 .. 2
        /\ \A i \in DOMAIN asked : asked[i].route # "User.Auth"
    <3>1. Get.route # "User.Auth"
      BY DEF Get
    <3>2. asked = <<Get>> \/ asked = <<Get, Get>>
      BY <2>1
    <3>3. asked \in Seq(Request) /\ (Len(asked) = 1 \/ Len(asked) = 2)
      BY <3>2, GetTyped, OnceOrTwice
    <3>4. \A i \in DOMAIN asked : asked[i] = Get
      BY <3>2, GetTyped, OnceOrTwice
    <3> QED
      BY <3>1, <3>3, <3>4
  <2>5. Len(toServer \o asked) = Len(toServer) + Len(asked)
    BY <2>2 DEF TypeOK
  <2>6. \A i \in DOMAIN (toServer \o asked) :
          \/ i \in DOMAIN toServer /\ (toServer \o asked)[i] = toServer[i]
          \/ i - Len(toServer) \in DOMAIN asked
               /\ (toServer \o asked)[i] = asked[i - Len(toServer)]
    BY <2>2, InConcat DEF TypeOK
  <2>3. /\ Len(toServer') \in Nat /\ Len(toServer') <= Len(toServer) + 2
        /\ \A i \in DOMAIN toServer' : toServer'[i].route # "User.Auth"
    BY <1>2, <1>5, <1>6, <2>2, <2>5, <2>6
  <2>4. LoggingIn /\ ~LoggingIn'
    BY <1>3, <1>4, <1>7, <2>3 DEF LoggingIn
  <2> QED
    BY <1>1, <1>4, <1>6, <2>3, <2>4 DEF AuthOnce, Awaited
<1>8. CASE Head(toClient).route # "User.Auth"
  <2>3. asked = <<>>
    BY <1>8 DEF AsksAfter
  <2>1. toServer' = toServer
    BY <1>2, <2>3 DEF TypeOK
  <2>2. ~LoggingIn'
    BY <1>4, <1>5, <2>1 DEF LoggingIn
  <2> QED
    BY <1>1, <1>4, <1>5, <1>6, <2>1, <2>2 DEF AuthOnce, Awaited
<1> QED
  BY <1>7, <1>8

LEMMA AuthStep ==
  ASSUME TypeOK, AuthOnce, [Next]_vars
  PROVE  AuthOnce'
<1>1. CASE MoveInside \/ ClearBackpack \/ AutoSort \/ Confirm
             \/ \E p \in Path : MoveToBackpack(p) \/ MoveToWarehouse(p)
  <2>1. PICK backpack, warehouse : Moves(backpack, warehouse)
    BY <1>1, MoveSteps
  <2> DEFINE saved == [data EXCEPT !.backpack = backpack, !.inventory = warehouse]
  <2>2. Send(SyncToServer(saved)) /\ saved \in Profile
    BY <2>1 DEF Moves, SaveBoth, TypeOK, Profile
  <2> QED
    BY <2>2, SyncTyped, NoAuthSent, SendKeepsAuth
<1>2. ASSUME NEW p \in Path, Sell(p)
      PROVE  AuthOnce'
  <2> DEFINE sold == [data EXCEPT !.inventory = Without(data.inventory, One(p)),
                                  !.coins = Add(data.coins, One(p))]
  <2>1. data' = sold /\ Send(SyncToServer(sold)) /\ data' \in Profile
    BY <1>2, SaleTyped DEF Sell
  <2> QED
    BY <2>1, SyncTyped, NoAuthSent, SendKeepsAuth
<1>3. CASE Discard
  <2>1. Send(Append(SyncToServer(initial), Get))
    BY <1>3 DEF Discard
  <2>2. Append(SyncToServer(initial), Get) \in Seq(Request)
    BY SyncTyped, GetTyped DEF TypeOK
  <2> QED
    BY <2>1, <2>2, NoAuthSent, SendKeepsAuth
<1>4. CASE EndMatch
  <2>1. PICK kept \in SubBags(mainBackpack) :
          Send(<<[route |-> "Room.Settlement", config |-> kept]>>)
    BY <1>4 DEF EndMatch
  <2>2. kept \in Bag
    BY SubBagIsBag DEF TypeOK
  <2>3. <<[route |-> "Room.Settlement", config |-> kept]>> \in Seq(Request)
    BY <2>2 DEF Request
  <2> QED
    BY <2>1, <2>3, NoAuthSent, SendKeepsAuth
<1>5. CASE ReturnToLobby
  <2>1. Send(<<Get>>) /\ <<Get>> \in Seq(Request)
    BY <1>5, GetTyped DEF ReturnToLobby
  <2> QED
    BY <2>1, NoAuthSent, SendKeepsAuth
<1>6. CASE Handle \/ Deliver
  BY <1>6, HandleKeepsAuth, DeliverKeepsAuth
<1>7. CASE Disconnect
  <2>1. PICK n \in 0 .. Len(toServer) : toServer' = SubSeq(toServer, 1, n)
    BY <1>7 DEF Disconnect
  <2>2. \A i \in DOMAIN toServer' : i \in DOMAIN toServer /\ toServer'[i] = toServer[i]
    BY <2>1 DEF TypeOK
  <2>3. toClient' = <<>> /\ DOMAIN toClient' = {}
    BY <1>7 DEF Disconnect
  <2> QED
    BY <2>2, <2>3 DEF AuthOnce
<1>8. CASE Login \/ Reconnect
  <2>1. /\ toServer' \in {<<[route |-> "User.Auth"]>>, <<Get>>, <<>>} /\ online'
        /\ toClient' = toClient /\ toClient = <<>>
    BY <1>8 DEF Login, Reconnect, Connect, AuthOnce
  <2>2. DOMAIN toServer' \subseteq {1} /\ DOMAIN toClient' = {}
    BY <2>1
  <2> QED
    BY <2>1, <2>2 DEF AuthOnce
<1>9. ASSUME UNCHANGED netVars
      PROVE  AuthOnce'
  BY <1>9 DEF AuthOnce, netVars
<1>10. ASSUME NEW c, Filter(c)
       PROVE  UNCHANGED netVars
  BY <1>10 DEF Filter
<1>11. ASSUME NEW p \in Path, PickUp(p)
       PROVE  UNCHANGED netVars
  BY <1>11 DEF PickUp
<1>12. CASE OpenConfig \/ StartMatch \/ UNCHANGED vars
  BY <1>9, <1>12 DEF OpenConfig, StartMatch, vars
<1> QED
  BY <1>1, <1>2, <1>3, <1>4, <1>5, <1>6, <1>7, <1>8, <1>9, <1>10, <1>11, <1>12
     DEF Next, Screen, Match, Network

\* In the lobby of a logged-in session only the server and the network act until the player leaves.
LEMMA LobbySteps ==
  ASSUME InLobby, InLobby', Next
  PROVE  Handle \/ Deliver
<1> USE DEF InLobby, LoggedIn
<1>1. ~(OpenConfig \/ MoveInside \/ ClearBackpack \/ AutoSort \/ Confirm \/ Discard)
  BY DEF OpenConfig, MoveInside, ClearBackpack, AutoSort, Confirm, Discard
<1>2. \A c : ~Filter(c)
  BY DEF Filter
<1>3. \A p \in Path : ~(MoveToBackpack(p) \/ MoveToWarehouse(p) \/ Sell(p) \/ PickUp(p))
  BY DEF MoveToBackpack, MoveToWarehouse, Sell, PickUp
<1>4. ~(StartMatch \/ EndMatch \/ ReturnToLobby)
  BY DEF StartMatch, EndMatch, ReturnToLobby
<1>5. ~(Disconnect \/ Login \/ Reconnect)
  BY DEF Disconnect, Login, Reconnect, Connect
<1> QED
  BY <1>1, <1>2, <1>3, <1>4, <1>5 DEF Next, Screen, Match, Network

\* One step of LobbySettles.
Settling == InLobby /\ InLobby' => (Handle \/ Deliver) /\ Awaited' \in Nat /\ Awaited' < Awaited

LobbySettles == [][Settling]_vars

\* While the player stays in the lobby of a logged-in session, each step of the program is the
\* handling or the delivery of a packet and leaves fewer of them to come: whatever was saved,
\* rolled back or asked for before, the packets run out, and LobbyShowsRow says what is then
\* on the screen.
THEOREM LobbyQuiets == Spec => LobbySettles
<1>1. Init => AuthOnce
  BY DEF Init, AuthOnce
<1>2. ASSUME TypeOK, TypeOK', AuthOnce, [Next]_vars
      PROVE  [Settling]_vars
  <2>1. SUFFICES ASSUME Next, InLobby, InLobby'
        PROVE  (Handle \/ Deliver) /\ Awaited' \in Nat /\ Awaited' < Awaited
    BY <1>2 DEF Settling
  <2>2. Handle \/ Deliver
    BY <2>1, LobbySteps
  <2>3. Awaited' < Awaited
    BY <1>2, <2>2, HandleKeepsAuth, DeliverKeepsAuth
  <2>4. Awaited' \in Nat
    <3>1. Len(toServer)' \in Nat /\ Len(toClient)' \in Nat
      BY <1>2 DEF TypeOK
    <3> QED BY <3>1 DEF Awaited
  <2> QED
    BY <2>2, <2>3, <2>4
<1>3. TypeOK /\ AuthOnce /\ [Next]_vars => AuthOnce'
  BY AuthStep
<1> QED
  BY <1>1, <1>2, <1>3, TypeCorrect, PTL DEF Spec, LobbySettles

================================================================================
