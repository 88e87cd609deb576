\* Overlapping prechecks and debits, slow, failed and abandoned ones among them.
SPECIFICATION Spec
CONSTANTS
  Windows <- ShortAndLong
  Grace = 1
  PromptPrice = 1
  CompletionPrice = 2
  PriceUnit = 2
  Usages <- SmallUsages
  Chars = {0, 1}
  Requests = {r1, r2, r3}
  MaxInFlight = 2
  MaxTime = 1
  Events = {"slow", "error", "crash"}
  Never = Never
INVARIANTS
  OvershootBounded
  DebitsInOrder
