\* From LastInit: a is the last to leave the estimates and x is silent.  MaxPending is
\* never reached: the replicas send each other nine AUX, CONF and FINISH votes.
SPECIFICATION LastSpec
CONSTANTS
  Nodes = {a, b, c, x}
  Faulty = {x}
  F = 1
  Replicas = {a, b, c}
  Vectors <- Singles
  Inputs <- SplitInputs
  EnvMessages <- Silence
  NetworkFails = FALSE
  Targets = {a}
  MaxRound = 0
  MaxPending = 9
INVARIANT LikeMindedNotStuck
PROPERTY LikeMindedDecide
\* Once every replica has decided, nothing is left to do.
CHECK_DEADLOCK FALSE
