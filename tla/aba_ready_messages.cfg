\* One replica, the VALs of the others, and an AUX and a FINISH of b.
SPECIFICATION FairSpec
CONSTANTS
  Nodes = {a, b, c, d}
  Faulty = {}
  F = 1
  Replicas = {a}
  Vectors <- Singles
  Inputs <- ZeroInputs
  EnvMessages <- EarlyVotes
  NetworkFails = FALSE
  Targets = {b}
  MaxRound = 0
  MaxPending = 2
PROPERTY ReadyMessagesAreProcessed
CHECK_DEADLOCK FALSE
