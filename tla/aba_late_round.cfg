\* One replica finishes round 0 on one value, the others start round 1 with the other.
SPECIFICATION LateSpec
CONSTANTS
  Nodes = {a, b, c, x}
  Faulty = {x}
  F = 1
  Replicas = {a, b, c}
  Vectors <- Singles
  Inputs <- SplitInputs
  EnvMessages <- Latecomer
  NetworkFails = FALSE
  Targets = {a}
  MaxRound = 2
  MaxPending = 0
SYMMETRY Symmetry
VIEW NoQueueView
INVARIANTS
  Agreement
  FinishersStay
PROPERTY ImplementsConsensus
\* The last round is over.
CHECK_DEADLOCK FALSE
