------------------------- MODULE ConsistentBroadcast -------------------------
(***************************************************************************)
(* What one broadcast promises its users, without protocol messages: each  *)
(* correct member hands out at most once, messages with the digest they    *)
(* were sent to it with, and all that hand out have the same digest.  That *)
(* the messages are the same too, or that every member hands some out, is  *)
(* not promised.                                                           *)
(***************************************************************************)
CONSTANTS
  Members,   \* the correct members
  Sent,      \* the pairs of messages and digest that are sent to each of them
  None       \* nothing handed out yet

VARIABLE output

CBInit == output = [i \in Members |-> None]

HandOut(i, p) ==
  /\ output[i] = None
  /\ \A j \in Members : output[j] = None \/ output[j].digest = p.digest
  /\ output' = [output EXCEPT ![i] = p]

CBNext == \E i \in Members : \E p \in Sent[i] : HandOut(i, p)

CBSpec == CBInit /\ [][CBNext]_output
=============================================================================
