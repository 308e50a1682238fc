\* One round; the replicas disagree and the faulty member tells a what the others
\* do not hear.
SPECIFICATION Spec
CONSTANTS
  Nodes = {a, b, c, x}
  Faulty = {x}
  F = 1
  Replicas = {a, b, c}
  Vectors <- AndBoth
  Inputs <- SplitOrZero
  EnvMessages <- Opposition
  NetworkFails = FALSE
  Targets = {a}
  MaxRound = 0
  MaxPending = 0
SYMMETRY Symmetry
VIEW NoQueueView
INVARIANTS
  Validity
  OneVoteEach
  FinishBacked
  SafetyInv
  ThresholdsActedOn
\* The last round is over.
CHECK_DEADLOCK FALSE
