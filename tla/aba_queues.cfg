\* One replica and what another member may send it, in three rounds of one vote
\* per phase; the coin of round 1 has shares of the replica only.
SPECIFICATION Spec
CONSTANTS
  Nodes = {a, b}
  Faulty = {}
  F = 0
  Replicas = {a}
  Vectors <- Singles
  Inputs <- ZeroInputs
  EnvMessages <- OneFairCoin
  NetworkFails = TRUE
  Targets = {}
  MaxRound = 2
  MaxPending = 1
VIEW View
INVARIANTS
  TypeOK
  QueueAligned
  NothingLost
  VotesCast
  CoinKeepsVoters
\* The instance may panic, and the last round be over.
CHECK_DEADLOCK FALSE
