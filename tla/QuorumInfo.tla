----------------------------- MODULE QuorumInfo -----------------------------
(***************************************************************************)
(* The membership and the fault threshold every protocol of the crate is   *)
(* given (quorum_info.rs), with the fault model the thresholds are meant   *)
(* for: at most F members are faulty.                                      *)
(***************************************************************************)
EXTENDS Integers, FiniteSets

CONSTANTS
  Nodes,     \* quorum_members
  Faulty,    \* the members that need not follow the protocol
  F          \* f, the number of faulty members tolerated

N == Cardinality(Nodes)

\* quorum_size, computed once by QuorumInfo::new.
QuorumSize == N - F

Correct == Nodes \ Faulty

\* What the assertion in QuorumInfo::new lets through.
ValidQuorum(n, f) == n > 0 /\ f <= (n - 1) \div 3

ASSUME QuorumAssumption ==
  /\ IsFiniteSet(Nodes)
  /\ F \in Nat
  /\ ValidQuorum(N, F)

ASSUME FaultAssumption ==
  /\ Faulty \subseteq Nodes
  /\ Cardinality(Faulty) <= F

\* OrderProtocolTolerance (protocol.rs): what the host of the protocol sizes its
\* memberships and its own quorums with, for n > 0.
GetNForF(f) == 3 * f + 1
GetQuorumForN(n) == (n - 1) \div 2
GetFForN(n) == (n - 1) \div 3

\* The smallest membership that tolerates F faults, and the only one in which any two
\* sets of 2F + 1 members have a correct one in common.
Tight == N = GetNForF(F)
=============================================================================
