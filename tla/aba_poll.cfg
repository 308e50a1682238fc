\* One replica and what another member may send it.
SPECIFICATION Spec
CONSTANTS
  Nodes = {a, b}
  Faulty = {}
  F = 0
  Replicas = {a}
  Vectors <- Singles
  Inputs <- ZeroInputs
  EnvMessages <- OnlyZero
  NetworkFails = FALSE
  Targets = {}
  MaxRound = 1
  MaxPending = 1
INVARIANT PollIsSafe
CHECK_DEADLOCK FALSE
