------------------------- MODULE MCReliableBroadcast -------------------------
(***************************************************************************)
(* Small instances of ReliableBroadcast.                                   *)
(***************************************************************************)
EXTENDS ReliableBroadcast, TLC

CONSTANT Targets   \* the members a limited instance singles out

Others == Correct \ Targets

\* What the faulty members may send in an instance.  Everything, except that their SENDs
\* carry one payload to the targets and another to the others, under whichever digest;
\* SENDs only, with one payload for each digest; nothing to the targets; to the targets
\* one digest and to the others another; to the targets a SEND and READYs for a digest
\* that is not the sender's.
Sends == {m \in Forgeable : m.type = "Send"}
TwoPayloads == [i \in Correct |->
  Forgeable \ {m \in Sends : (m.messages = InputPayload) # (i \in Targets)}]
Equivocation == [i \in Correct |->
  {m \in Sends : (m.messages = InputPayload) <=> (m.digest = InputDigest)}]
LeaveOutTargets == [i \in Correct |-> IF i \in Targets THEN {} ELSE Forgeable]
TwoFaced ==
  [i \in Correct |-> {m \in Forgeable : (m.digest = InputDigest) <=> (i \in Targets)}]
Misleading == {m \in Forgeable : m.type # "Echo" /\ m.digest # InputDigest}
MisleadTargets == [i \in Correct |-> IF i \in Targets THEN Misleading ELSE {}]

\* The bounds on the queues: nothing is queued, two messages in each queue, or
\* three READYs at each target.
NoQueue == [i \in Correct |-> [echoes |-> 0, readies |-> 0]]
TwoEach == [i \in Correct |-> [echoes |-> 2, readies |-> 2]]
TargetsOnly == [i \in Correct |-> [echoes |-> 0, readies |-> IF i \in Targets THEN 3 ELSE 0]]

\* Correct members that neither send nor are singled out are interchangeable, and where
\* the sender is faulty and every digest may be sent, so are the digests.
Symmetry == Permutations(Others \ {Sender})
DigestSymmetry == Symmetry \cup Permutations(Digests)

\* Messages that can no longer change what a member does: a SEND after the first,
\* an ECHO after the echo threshold, a READY after finalization.
Useful(i, m) ==
  \/ m.type = "Send"  /\ rbState[i] = "Init"
  \/ m.type = "Echo"  /\ rbState[i] \in {"Init", "Proposed"}
  \/ m.type = "Ready" /\ rbState[i] # "Ready"

\* States that differ only in such messages are explored once.
View ==
  <<rbState, payload, proposed, tracking, output,
    [i \in Correct |-> {m \in inflight[i] : Useful(i, m)}],
    [i \in Correct |->
       <<SelectSeq(pending[i].echoes,  LAMBDA m : Useful(i, m)),
         SelectSeq(pending[i].readies, LAMBDA m : Useful(i, m))>>]>>

\* A state of the protocol to start from: the others counted each other's ECHOs
\* and broadcast READY; the SEND to the targets, and every ECHO and READY to them,
\* are still on their way.
LateInit ==
  /\ rbState = [i \in Correct |-> IF i \in Targets THEN "Init" ELSE "Echoed"]
  /\ payload = [i \in Correct |-> IF i \in Targets THEN None ELSE InputPayload]
  /\ proposed = [i \in Correct |-> IF i \in Targets THEN None ELSE InputDigest]
  /\ tracking = [i \in Correct |->
       [receivedEchoes |-> IF i \in Targets THEN {} ELSE Others, receivedReadies |-> {},
        sentEcho |-> i \in Others, sentReady |-> FALSE]]
  /\ pending = [i \in Correct |-> [echoes |-> <<>>, readies |-> <<>>]]
  /\ inflight = [i \in Correct |->
       {Ready(j, InputDigest) : j \in Others}
         \cup IF i \in Targets THEN {Send(Sender, InputPayload, InputDigest)}
                                    \cup {Echo(j, InputDigest) : j \in Others}
                              ELSE {}]
  /\ output = [i \in Correct |-> None]

LateSpec == LateInit /\ [][Next]_vars /\ Fairness
=============================================================================
