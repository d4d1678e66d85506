\* Two sessions, commands that last up to two ticks, every turn tested.
SPECIFICATION FairSpec
CONSTANTS
  Idle = 2
  OneShotIdle = 1
  Absolute = 5
  CommandTicks = 2
  MaxLogins = 2
INVARIANTS
  AbsoluteLifetime
  IdleLifetime
PROPERTIES
  SessionEnds
CHECK_DEADLOCK FALSE
