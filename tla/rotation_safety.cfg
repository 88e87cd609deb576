\* Three racing requests, store errors, crashes and locks that lapse.
SPECIFICATION Spec
CONSTANTS
  d1 = d1
  d2 = d2
  alice = alice
  NoDevice = NoDevice
  NoToken = NoToken
  Devices = {d1}
  Owner <- OneUser
  Tokens = {t1, t2, t3, t4}
  Guesses = {}
  Requests = {r1, r2, r3, r4}
  MaxInFlight = 3
  Events = {"error", "crash", "lapse"}
INVARIANTS
  OneHead
  OneAnswer
  ReplayIsSuccessor
  RevokedGetsNothing
  RevocationInv
PROPERTIES
  ImplementsLineage
