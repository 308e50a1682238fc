\* Four members, one of them faulty and the sender of the broadcast; early and
\* mismatched votes wait in the network, so the queues stay empty.
SPECIFICATION Spec
CONSTANTS
  Nodes = {a, b, c, x}
  Faulty = {x}
  F = 1
  Payloads = {v1, v2}
  InputPayload = v1
  Digests = {d1, d2}
  None = None
  Sender = x
  InputDigest = d1
  FaultyMessages <- TwoPayloads
  Targets = {a}
  MaxPending <- NoQueue
SYMMETRY DigestSymmetry
VIEW View
INVARIANTS
  Agreement
  DeliverySupport
PROPERTY ImplementsBroadcast
\* Once every member has finalized, nothing is left to do.
CHECK_DEADLOCK FALSE
