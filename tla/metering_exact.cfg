\* Long enough for the longest key to expire; no failures.
SPECIFICATION Spec
CONSTANTS
  Windows <- ShortAndLong
  Grace = 1
  PromptPrice = 1
  CompletionPrice = 2
  PriceUnit = 2
  Usages <- SmallUsages
  Chars = {0, 1}
  Requests = {r1, r2, r3}
  MaxInFlight = 2
  MaxTime = 7
  Events = {}
  Never = Never
INVARIANTS
  WindowsRemember
  WaitIsNotWasted
