\* A correct and a faulty member, and two the round has no entry for; one vote of a kind
\* is enough for R, so that a member's own votes hand its broadcast over.
SPECIFICATION Spec
CONSTANTS
  Nodes = {a, b, c, x}
  Faulty = {x}
  F = 1
  Tracked = {a, x}
  Values = {v1, v2}
  NoValue = NoValue
  Epoch = 1
  EchoThreshold = 1
  ReadyThreshold = 1
  Network <- Traffic
INVARIANTS
  TypeOK
  OwnVotesOnly
PROPERTY HandOverOnce
\* Every message has arrived, or the replica panicked.
CHECK_DEADLOCK FALSE
