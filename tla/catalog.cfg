\* Two instances that share Redis, their clients and their warmers.
SPECIFICATION Spec
CONSTANTS
  None = None
  NaN = NaN
  Never = Never
  Instances = {i1, i2}
  Entries = {i1}
  Clients = {c1}
  Ops <- MCOps
  WarmOps <- MCWarmOps
  Editions <- MCEditions
  PageSize = 2
  MaxPages = 2
  BaseTTL = 2
  JitterCap = 1
  JitterPart = 2
  Hash <- MCHash
  Timeout = 1
  MaxInFlight = 2
  MaxRounds = 1
  MaxFaults = 1
  MaxTime = 3
  Events = {"redis", "hub", "cancel"}
PROPERTIES
  ErrorHasCause
  StalenessBounded
  CountsAddUp
  EveryCallEnds
CHECK_DEADLOCK FALSE
