\* Every operation, and a chat answer of each kind, cut and broken off anywhere.
SPECIFICATION Spec
CONSTANTS
  None = None
  Ops = {"models", "chat", "images", "qianwen"}
  Streams <- MCStreams
  Answers <- MCAnswers
INVARIANTS
  ForwardedInOrder
  BilledAsSent
  BodiesClosed
PROPERTIES
  CallEnds
