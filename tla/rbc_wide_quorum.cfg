\* Five members of which one is faulty, a quorum QuorumInfo::new accepts.
SPECIFICATION Spec
CONSTANTS
  Nodes = {a, b, c, d, x}
  Faulty = {x}
  F = 1
  Payloads = {v1}
  InputPayload = v1
  Digests = {d1, d2}
  None = None
  Sender = x
  InputDigest = d1
  FaultyMessages <- TwoFaced
  Targets = {a, b}
  MaxPending <- NoQueue
VIEW View
INVARIANT Agreement
CHECK_DEADLOCK FALSE
