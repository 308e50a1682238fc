\* The faulty sender sends each member the one or the other digest and does not
\* vote; votes that come early, late or for the other digest are queued.
SPECIFICATION Spec
CONSTANTS
  Nodes = {a, b, c, x}
  Faulty = {x}
  F = 1
  Payloads = {v1, v2}
  InputPayload = v1
  Digests = {d1, d2}
  None = None
  Sender = x
  InputDigest = d1
  FaultyMessages <- Equivocation
  Targets = {}
  MaxPending <- TwoEach
SYMMETRY Symmetry
INVARIANTS
  IndInv
  NothingLost
  QuorumNotStuck
\* Once every member has finalized, nothing is left to do.
CHECK_DEADLOCK FALSE
