\* Codes and the login page: sends and logins racing, with failures.
SPECIFICATION Spec
CONSTANTS
  None = None
  Kinds = {"sendLogin", "codeLogin"}
  MaxRequests = 4
  MaxInFlight = 2
  MaxAttempts = 1
  MaxFailures = 2
  SendMax = 3
  MaxErrors = 0
  Events = {"code", "counter", "authz"}
INVARIANTS
  GuessesBounded
  SentCodeStands
  OneGrant
  LoginNotInVain
