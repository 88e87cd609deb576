\* Racing first requests and healings, with and without the lock; calls, writes and
\* deletions fail with or without effect, instances die.
SPECIFICATION Spec
CONSTANTS
  NoKey = NoKey
  Keys = {k1, k2, k3, k4}
  Requests = {r1, r2}
  MaxInFlight = 2
  Events = {"deny", "slow", "lapse", "error", "leak", "crash"}
INVARIANTS
  KeyCustody
  OnlyAstrayDeleted
  NoOrphans
  RefusedOnlyIfStale
PROPERTIES
  OnlyRefusedReplaced
