\* From LateInit: a receives READYs before it is ready for them, and the faulty
\* member sends it a SEND and READYs for another digest than the sender's.
SPECIFICATION LateSpec
CONSTANTS
  Nodes = {a, b, c, x}
  Faulty = {x}
  F = 1
  Payloads = {v1}
  InputPayload = v1
  Digests = {d1, d2}
  None = None
  Sender = b
  InputDigest = d1
  FaultyMessages <- MisleadTargets
  Targets = {a}
  MaxPending <- TargetsOnly
INVARIANT ProposerNotStuck
PROPERTIES
  QuorumDelivers
  ReadiesAreServed
\* Once every member has finalized, nothing is left to do.
CHECK_DEADLOCK FALSE
