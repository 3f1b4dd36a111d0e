CONSTANTS
  UID = {u1, u2}
  Loop = {l1}
  Bomb = {b1}
  TicksPerSecond = 2
  MatchTime = 1
  FuseTicks = 2
  CooldownTicks = 1
  ShieldMax = 0
SPECIFICATION FairSpec
PROPERTY BombsGoOff
CHECK_DEADLOCK FALSE
