\* Two devices of one user, so that one may delete the other; errors, crashes and
\* idle expiry, and fairness for the requests that arrived.
SPECIFICATION FairSpec
CONSTANTS
  d1 = d1
  d2 = d2
  alice = alice
  NoDevice = NoDevice
  NoToken = NoToken
  Devices = {d1, d2}
  Owner <- OneUser
  Tokens = {t1, t2, t3, t4}
  Guesses = {g1}
  Requests = {r1, r2, r3}
  MaxInFlight = 2
  Events = {"error", "crash", "expiry"}
INVARIANTS
  TheftOnlyAfterWindow
PROPERTIES
  OutStaysOut
  BumpCutsAccess
  EveryRequestEnds
