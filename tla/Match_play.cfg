CONSTANTS
  UID = {u1, u2}
  Loop = {l1, l2}
  Bomb = {b1}
  TicksPerSecond = 1
  MatchTime = 1
  FuseTicks = 2
  CooldownTicks = 1
  ShieldMax = 1
SPECIFICATION Spec
SYMMETRY Symmetry
INVARIANTS TypeOK DeadAreListed SomeoneStays
PROPERTIES DeadStayDead
CHECK_DEADLOCK FALSE
