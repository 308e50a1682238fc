--------------------------- MODULE BinaryConsensus ---------------------------
(***************************************************************************)
(* What the binary agreement promises its users, without rounds and        *)
(* messages: a member may be told a decision several times, but nobody is  *)
(* ever told another one, and what is decided somebody has proposed.  That *)
(* a decision is reached is not promised.                                  *)
(***************************************************************************)
CONSTANTS
  Members,   \* the members that follow the protocol
  Values     \* the values they may propose

VARIABLES
  proposal,   \* what each member started with
  decisions   \* what each member has been told so far

BCInit ==
  /\ proposal \in [Members -> Values]
  /\ decisions = [i \in Members |-> {}]

\* Member i learns v.
Learn(i, v) ==
  /\ \E j \in Members : proposal[j] = v
  /\ \A j \in Members : decisions[j] \subseteq {v}
  /\ decisions' = [decisions EXCEPT ![i] = {v}]
  /\ UNCHANGED proposal

BCNext == \E i \in Members, v \in Values : Learn(i, v)

BCSpec == BCInit /\ [][BCNext]_<<proposal, decisions>>
=============================================================================
