\* The same requests under fairness: waits, lost locks, refusals, dead instances.
SPECIFICATION FairSpec
CONSTANTS
  NoKey = NoKey
  Keys = {k1, k2, k3, k4}
  Requests = {r1, r2}
  MaxInFlight = 2
  Events = {"drop", "deny", "slow", "lapse", "crash"}
PROPERTIES
  EveryRequestEnds
