\* The password page next to logins by password, with failures.
SPECIFICATION Spec
CONSTANTS
  None = None
  Kinds = {"sendReset", "linkSubmit", "forgotSubmit", "passwordLogin"}
  MaxRequests = 3
  MaxInFlight = 2
  MaxAttempts = 1
  MaxFailures = 1
  SendMax = 1
  MaxErrors = 1
  Events = {"error", "gate"}
INVARIANTS
  AcceptedOnce
  FailuresBounded
  OldPasswordDies
  LinkUsedOnce
PROPERTIES
  NoReplacementWithoutCode
