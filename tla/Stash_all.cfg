CONSTANTS
  boots = boots
  Path <- MCPath
  Tab = {"Bomb"}
  Category <- MCCategory
  Size <- MCSize
  OwnedFirst <- MCOne
  BackpackFirst <- MCNone
  BackpackCells = 4
  WarehouseCells = 2
  MaxCopies = 2
  MaxLoot = 1
  MaxInFlight = 3
SPECIFICATION FairSpec
INVARIANTS TypeOK LobbyIsFresh
PROPERTIES ShownIsKept LobbyCatchesUp
CHECK_DEADLOCK FALSE
