SPECIFICATION FairSpec
CONSTANTS
  Timers = {hb, t2}
  HBTimer = hb
  HBInterval = 4
  NULL = NULL
  Intervals = {1, 4}
  ARRAY_SIZE = 4
  EPOL_WAIT = 3
  TIMERS_LIMIT = 2
  INCREASE = 1
  MaxTimerID = 3
  PosModulus = 8
  MaxElapsed = 3
INVARIANTS
  TypeOK
  IdsSound
  NotOverlooked
PROPERTIES
  NeverEarly
  EveryTimerFires
