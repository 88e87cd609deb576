\* A rotation in flight while its device logs out.
SPECIFICATION Spec
CONSTANTS
  d1 = d1
  d2 = d2
  alice = alice
  NoDevice = NoDevice
  NoToken = NoToken
  Devices = {d1}
  Owner <- OneUser
  Tokens = {t1, t2, t3}
  Guesses = {}
  Requests = {r1, r2, r3}
  MaxInFlight = 2
  Events = {}
INVARIANTS
  LogoutIsFinal
