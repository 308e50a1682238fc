\* The faulty sender leaves c out and votes with the others.
SPECIFICATION FairSpec
CONSTANTS
  Nodes = {a, b, c, x}
  Faulty = {x}
  F = 1
  Payloads = {v1}
  InputPayload = v1
  Digests = {d1}
  None = None
  Sender = x
  InputDigest = d1
  FaultyMessages <- LeaveOutTargets
  Targets = {c}
  MaxPending <- NoQueue
PROPERTY Totality
CHECK_DEADLOCK FALSE
