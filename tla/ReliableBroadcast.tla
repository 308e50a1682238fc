-------------------------- MODULE ReliableBroadcast --------------------------
(***************************************************************************)
(* One reliable broadcast instance as the members of a quorum run it       *)
(* (reliable_broadcast.rs): a SEND is echoed, enough ECHOs make a member   *)
(* broadcast READY, enough READYs finalize the broadcast.                  *)
(*                                                                         *)
(* Every correct member holds one ReliableBroadcastInstance.  A faulty     *)
(* member has no state: any message it could send is available for         *)
(* delivery at any time, to any member and any number of times.  Messages  *)
(* between correct members are delivered at most once, in any order.       *)
(* A SEND carries messages and a digest, and nothing ties the two to each  *)
(* other, or a SEND to the member whose broadcast this is.                 *)
(***************************************************************************)
EXTENDS QuorumInfo, Sequences

CONSTANTS
  Payloads,      \* the messages a SEND may carry
  Digests,       \* the digests a SEND may carry
  None,          \* of the Options
  Sender,        \* sender, the member whose broadcast this is
  InputPayload,  \* what the sender broadcasts if it is correct,
  InputDigest,   \* and the digest it sends along
  FaultyMessages,  \* the messages the faulty members may send to each correct one
  MaxPending     \* bound: how many messages each queue of a member holds before
                 \* the network waits

ASSUME BroadcastAssumption ==
  /\ None \notin Payloads \cup Digests \cup [messages : Payloads, digest : Digests]
  /\ InputPayload \in Payloads /\ InputDigest \in Digests
  /\ Sender \in Nodes
  /\ MaxPending \in [Correct -> [echoes : Nat, readies : Nat]]

VARIABLES
  rbState,    \* reliable_broadcast_state
  payload,    \* proposed_messages, the messages
  proposed,   \* proposed_messages, the digest
  tracking,   \* message_tracking
  pending,    \* pending_messages
  inflight,   \* messages of correct members the network still has to deliver
  output      \* what finalize() returned to the orchestrator

vars == <<rbState, payload, proposed, tracking, pending, inflight, output>>

States == {"Init", "Proposed", "Echoed", "Ready"}

Messages ==
  [type : {"Send"}, from : Nodes, messages : Payloads, digest : Digests]
    \cup [type : {"Echo", "Ready"}, from : Nodes, digest : Digests]

Send(p, v, d) == [type |-> "Send", from |-> p, messages |-> v, digest |-> d]
Echo(p, d)  == [type |-> "Echo",  from |-> p, digest |-> d]
Ready(p, d) == [type |-> "Ready", from |-> p, digest |-> d]

\* Everything the faulty members can send, a SEND of their own included.
Forgeable == {m \in Messages : m.from \in Faulty}

ASSUME FaultyAssumption == FaultyMessages \in [Correct -> SUBSET Forgeable]

\* What a SEND proposes and finalize() hands out: messages and their digest.
Proposals == [messages : Payloads, digest : Digests]
Proposal(v, d) == [messages |-> v, digest |-> d]
Adopted(i) == Proposal(payload[i], proposed[i])

-----------------------------------------------------------------------------
(***************************************************************************)
(* Helpers of the handler.                                                 *)
(***************************************************************************)

\* The thresholds process_message compares the vote sets with; mutants wait for
\* more than the quorum, or for one correct member only.
EchoFromMore(voters) == Cardinality(voters) > QuorumSize
EchoQuorum(voters)  == Cardinality(voters) >= QuorumSize - F
ReadyMinority(voters) == Cardinality(voters) > F
ReadyQuorum(voters) == Cardinality(voters) > 2 * F

\* network.broadcast to quorum_members, the caller included.  A failed
\* dispatch only logs a warning; it is a message that is never delivered.
Broadcast(net, m) == [j \in Correct |-> net[j] \cup {m}]

\* PendingMessages::queue_message; a mutant keeps one ECHO.
KeepLastEcho(queue, m) ==
  IF m.type = "Echo" THEN [queue EXCEPT !.echoes  = <<m>>]
                     ELSE [queue EXCEPT !.readies = Append(@, m)]
Enqueue(queue, m) ==
  IF m.type = "Echo" THEN [queue EXCEPT !.echoes  = Append(@, m)]
                     ELSE [queue EXCEPT !.readies = Append(@, m)]

\* The guards of the arms of process_message; a mutant counts an ECHO
\* for another digest.
AcceptsEveryEcho(i, m) == m.type = "Echo" /\ rbState[i] = "Proposed"
AcceptsSend(i, m)  == m.type = "Send"  /\ proposed[i] = None /\ rbState[i] = "Init"
AcceptsEcho(i, m)  == m.type = "Echo"  /\ proposed[i] = m.digest /\ rbState[i] = "Proposed"
AcceptsReady(i, m) == m.type = "Ready" /\ proposed[i] = m.digest /\ rbState[i] = "Echoed"

-----------------------------------------------------------------------------
(***************************************************************************)
(* process_message.  queue is member i's pending_messages and net the      *)
(* messages in flight when the handler is entered.                         *)
(***************************************************************************)

ReceiveSend(i, m, queue, net) ==
  /\ AcceptsSend(i, m)
  /\ payload' = [payload EXCEPT ![i] = m.messages]
  /\ proposed' = [proposed EXCEPT ![i] = m.digest]
  /\ rbState' = [rbState EXCEPT ![i] = "Proposed"]
  /\ inflight' = Broadcast(net, Echo(i, m.digest))
  /\ pending' = [pending EXCEPT ![i] = queue]
  /\ UNCHANGED tracking

IgnoreSend(i, m, queue, net) ==
  /\ m.type = "Send" /\ ~AcceptsSend(i, m)
  /\ inflight' = net
  /\ pending' = [pending EXCEPT ![i] = queue]
  /\ UNCHANGED <<rbState, payload, proposed, tracking>>

ReceiveEcho(i, m, queue, net) ==
  LET voters  == tracking[i].receivedEchoes \cup {m.from}
      reached == EchoQuorum(voters) /\ ~tracking[i].sentEcho
  IN /\ AcceptsEcho(i, m)
     /\ tracking' = [tracking EXCEPT ![i].receivedEchoes = voters,
                                     ![i].sentEcho = IF reached THEN TRUE ELSE @]
     /\ rbState' = [rbState EXCEPT ![i] = IF reached THEN "Echoed" ELSE @]
     /\ inflight' = IF reached THEN Broadcast(net, Ready(i, m.digest)) ELSE net
     /\ pending' = [pending EXCEPT ![i] = queue]
     /\ UNCHANGED <<payload, proposed>>

ReceiveReady(i, m, queue, net) ==
  LET voters  == tracking[i].receivedReadies \cup {m.from}
      reached == ReadyQuorum(voters) /\ ~tracking[i].sentReady
  IN /\ AcceptsReady(i, m)
     /\ tracking' = [tracking EXCEPT ![i].receivedReadies = voters,
                                     ![i].sentReady = IF reached THEN TRUE ELSE @]
     /\ rbState' = [rbState EXCEPT ![i] = IF reached THEN "Ready" ELSE @]
     /\ inflight' = net
     /\ pending' = [pending EXCEPT ![i] = queue]
     /\ UNCHANGED <<payload, proposed>>

\* The last arm: an ECHO or a READY out of turn, or for another digest.
QueueMessage(i, m, queue, net) ==
  /\ m.type # "Send" /\ ~AcceptsEcho(i, m) /\ ~AcceptsReady(i, m)
  /\ pending' = [pending EXCEPT ![i] = Enqueue(queue, m)]
  /\ inflight' = net
  /\ UNCHANGED <<rbState, payload, proposed, tracking>>

ProcessMessage(i, m, queue, net) ==
  \/ ReceiveSend(i, m, queue, net)
  \/ IgnoreSend(i, m, queue, net)
  \/ ReceiveEcho(i, m, queue, net)
  \/ ReceiveReady(i, m, queue, net)
  \/ QueueMessage(i, m, queue, net)

-----------------------------------------------------------------------------
(***************************************************************************)
(* The steps of the orchestrator and of the network.  finalize() consumes  *)
(* the instance, so a member that finalized takes no further step.         *)
(***************************************************************************)

\* MaxPending bounds the queues: a message that would have to wait in a full one
\* waits in the network instead.
HasRoom(i, m) ==
  \/ m.type = "Send" \/ AcceptsEcho(i, m) \/ AcceptsReady(i, m)
  \/ m.type = "Echo"  /\ Len(pending[i].echoes)  < MaxPending[i].echoes
  \/ m.type = "Ready" /\ Len(pending[i].readies) < MaxPending[i].readies

\* The network hands member i a message of a correct member.
Deliver(i, m) ==
  /\ output[i] = None
  /\ m \in inflight[i] /\ HasRoom(i, m)
  /\ ProcessMessage(i, m, pending[i], [inflight EXCEPT ![i] = @ \ {m}])
  /\ UNCHANGED output

\* The network hands member i a message of a faulty member.
DeliverFaulty(i, m) ==
  /\ output[i] = None
  /\ m \in FaultyMessages[i] /\ HasRoom(i, m)
  /\ ProcessMessage(i, m, pending[i], inflight)
  /\ UNCHANGED output

\* The orchestrator polls and hands the message back to process_message.
PollEcho(i) ==
  /\ output[i] = None
  /\ rbState[i] = "Proposed" /\ pending[i].echoes # <<>>
  /\ ProcessMessage(i, Head(pending[i].echoes),
                    [pending[i] EXCEPT !.echoes = Tail(@)], inflight)
  /\ UNCHANGED output

\* A mutant takes the READY that came last.
PollLastReady(i) ==
  LET readies == pending[i].readies IN
  /\ output[i] = None
  /\ rbState[i] = "Echoed" /\ readies # <<>>
  /\ ProcessMessage(i, readies[Len(readies)],
                    [pending[i] EXCEPT !.readies = SubSeq(@, 1, Len(@) - 1)], inflight)
  /\ UNCHANGED output

PollReady(i) ==
  /\ output[i] = None
  /\ rbState[i] = "Echoed" /\ pending[i].readies # <<>>
  /\ ProcessMessage(i, Head(pending[i].readies),
                    [pending[i] EXCEPT !.readies = Tail(@)], inflight)
  /\ UNCHANGED output

Poll(i) == PollEcho(i) \/ PollReady(i)

\* finalize() after the Finalized result.
Finalize(i) ==
  /\ output[i] = None
  /\ rbState[i] = "Ready"
  /\ output' = [output EXCEPT ![i] = Adopted(i)]
  /\ UNCHANGED <<rbState, payload, proposed, tracking, pending, inflight>>

-----------------------------------------------------------------------------

\* Every member starts a fresh instance; a correct sender has sent.
Init ==
  /\ rbState = [i \in Correct |-> "Init"]
  /\ payload = [i \in Correct |-> None]
  /\ proposed = [i \in Correct |-> None]
  /\ tracking = [i \in Correct |->
       [receivedEchoes |-> {}, receivedReadies |-> {},
        sentEcho |-> FALSE, sentReady |-> FALSE]]
  /\ pending = [i \in Correct |-> [echoes |-> <<>>, readies |-> <<>>]]
  /\ inflight = [i \in Correct |->
       IF Sender \in Correct THEN {Send(Sender, InputPayload, InputDigest)} ELSE {}]
  /\ output = [i \in Correct |-> None]

Next ==
  \E i \in Correct :
    \/ \E m \in inflight[i] : Deliver(i, m)
    \/ \E m \in FaultyMessages[i] : DeliverFaulty(i, m)
    \/ PollEcho(i)
    \/ PollReady(i)
    \/ Finalize(i)

Spec == Init /\ [][Next]_vars

\* Messages between correct members arrive, and whoever owns the instance of a correct
\* member keeps polling it and finalizes; nothing is asked of faulty members.
Fairness ==
  \A i \in Correct :
    /\ WF_vars(\E m \in inflight[i] : Deliver(i, m))
    /\ WF_vars(Poll(i))
    /\ WF_vars(Finalize(i))

FairSpec == Spec /\ Fairness

-----------------------------------------------------------------------------
(***************************************************************************)
(* Properties.                                                             *)
(***************************************************************************)

\* The struct fields hold what their types say, and every message in flight
\* or queued is of the kind that is kept there.
TypeOK ==
  /\ rbState \in [Correct -> States]
  /\ payload \in [Correct -> Payloads \cup {None}]
  /\ proposed \in [Correct -> Digests \cup {None}]
  /\ tracking \in [Correct ->
       [receivedEchoes : SUBSET Nodes, receivedReadies : SUBSET Nodes,
        sentEcho : BOOLEAN, sentReady : BOOLEAN]]
  /\ pending \in [Correct ->
       [echoes  : Seq({m \in Messages : m.type = "Echo"}),
        readies : Seq({m \in Messages : m.type = "Ready"})]]
  /\ inflight \in [Correct -> SUBSET {m \in Messages : m.from \in Correct}]
  /\ output \in [Correct -> Proposals \cup {None}]

\* The members that have broadcast READY for digest d.
ReadySent(d) == {j \in Correct : proposed[j] = d /\ rbState[j] \in {"Echoed", "Ready"}}

\* What a correct member says it really said: m is the message its sender
\* broadcast in the state it is in.
Genuine(m) ==
  m.from \in Correct =>
    /\ m.type = "Send"  => m = Send(Sender, InputPayload, InputDigest)
    /\ m.type = "Echo"  => proposed[m.from] = m.digest
    /\ m.type = "Ready" => m.from \in ReadySent(m.digest)

\* Whom member i counted: members that adopted its digest, and members that
\* passed the echo threshold for it.
CountedVotes(i) ==
  /\ \A j \in tracking[i].receivedEchoes \cap Correct : proposed[j] = proposed[i]
  /\ tracking[i].receivedReadies \cap Correct \subseteq ReadySent(proposed[i])

\* No correct member is ever seen on two sides: whatever the interleaving,
\* every vote of a correct member that is in flight, waits in a queue of
\* another member or was counted there is for the one digest it adopted, and a
\* READY is only seen after its sender passed the echo threshold.
VotesAreGenuine ==
  \A i \in Correct :
    /\ \A m \in inflight[i] : Genuine(m)
    /\ \A k \in 1..Len(pending[i].echoes) : Genuine(pending[i].echoes[k])
    /\ \A k \in 1..Len(pending[i].readies) : Genuine(pending[i].readies[k])
    /\ CountedVotes(i)

\* The member's state and flags record the thresholds its votes passed.
PhaseInv ==
  \A i \in Correct :
    /\ proposed[i] = None <=> rbState[i] = "Init"
    /\ rbState[i] = "Init" => tracking[i].receivedEchoes = {}
    /\ rbState[i] \in {"Init", "Proposed"} => tracking[i].receivedReadies = {}
    /\ tracking[i].sentEcho  <=> rbState[i] \in {"Echoed", "Ready"}
    /\ tracking[i].sentReady <=> rbState[i] = "Ready"
    /\ tracking[i].sentEcho  => EchoQuorum(tracking[i].receivedEchoes)
    /\ tracking[i].sentReady => ReadyQuorum(tracking[i].receivedReadies)
    /\ output[i] # None => rbState[i] = "Ready" /\ output[i] = Adopted(i)

\* The proposals that reach member i: what a correct sender broadcasts, and what any
\* faulty member puts in a SEND to i.
Sent == [i \in Correct |->
  {Proposal(m.messages, m.digest) : m \in {x \in FaultyMessages[i] : x.type = "Send"}}
    \cup IF Sender \in Correct THEN {Proposal(InputPayload, InputDigest)} ELSE {}]

\* A member only adopts messages together with the digest they were sent to it with.
OriginInv == \A i \in Correct : proposed[i] # None => Adopted(i) \in Sent[i]

\* The inductive invariant the proofs use.
IndInv == TypeOK /\ VotesAreGenuine /\ PhaseInv /\ OriginInv

\* Member i finalized the broadcast with digest d.
FinalizedWith(i, d) == output[i] # None /\ output[i].digest = d

\* Two correct members that finalize the broadcast finalize the same digest,
\* whatever the sender and the other faulty members send to whom.
Agreement ==
  \A i, j \in Correct :
    output[i] # None /\ output[j] # None => output[i].digest = output[j].digest

\* "messages broadcasted by a node are reliably delivered" (rbc.rs): what finalize()
\* hands out are the same messages at every correct member.  The code leaves that to
\* whoever computes the digests: it holds where no digest is sent with two payloads.
SameMessages ==
  \A i, j \in Correct :
    output[i] # None /\ output[j] # None => output[i].messages = output[j].messages

\* A digest is finalized only when at least F + 1 correct members adopted it, each
\* with some payload, and vouched for it with a READY, so that it outlives the faults.
DeliverySupport ==
  \A i \in Correct :
    output[i] # None => Cardinality(ReadySent(output[i].digest)) >= F + 1

\* m is somewhere member i can still find it, or it has been counted.
Kept(i, m) ==
  \/ m \in inflight[i]
  \/ \E k \in 1..Len(pending[i].echoes)  : pending[i].echoes[k] = m
  \/ \E k \in 1..Len(pending[i].readies) : pending[i].readies[k] = m
  \/ m.type = "Echo"  /\ m.from \in tracking[i].receivedEchoes
  \/ m.type = "Ready" /\ m.from \in tracking[i].receivedReadies

\* No vote of a correct member gets lost on the way through the queues: until a
\* member finalizes, each is in flight to it, queued by it, or counted by it,
\* however early or late it arrived and however often it was polled.
NothingLost ==
  \A i, j \in Correct :
    output[i] = None =>
      /\ proposed[j] # None => Kept(i, Echo(j, proposed[j]))
      /\ j \in ReadySent(proposed[j]) => Kept(i, Ready(j, proposed[j]))

\* Member i has nothing left to do: it finalized, or none of the messages that wait
\* for it, in the network or in a queue, is one that an arm of its state accepts.
Accepts(i, m) == AcceptsSend(i, m) \/ AcceptsEcho(i, m) \/ AcceptsReady(i, m)

AtRest(i) ==
  output[i] = None =>
    /\ rbState[i] # "Ready"
    /\ \A m \in inflight[i] : ~Accepts(i, m)
    /\ \A k \in 1..Len(pending[i].echoes)  : ~Accepts(i, pending[i].echoes[k])
    /\ \A k \in 1..Len(pending[i].readies) : ~Accepts(i, pending[i].readies[k])

\* The members that echo digest d.
Adopters(d) == {j \in Correct : proposed[j] = d}

\* Members never wait for each other in vain: when a quorum has adopted one digest,
\* the correct members only come to rest with each of them having finalized it,
\* whatever the faulty members left in the queues and wherever votes overtook others.
QuorumNotStuck ==
  (\A i \in Correct : AtRest(i)) =>
    \A d \in Digests :
      Cardinality(Adopters(d)) >= QuorumSize => \A i \in Adopters(d) : FinalizedWith(i, d)

\* When the sender is correct, its broadcast only comes to rest with its digest
\* finalized by every correct member, unless one of them took the SEND of another
\* member first, which process_message does not tell from the sender's.
ProposerNotStuck ==
  (Sender \in Correct /\ \A i \in Correct : AtRest(i)) =>
    \/ \A i \in Correct : FinalizedWith(i, InputDigest)
    \/ \E i \in Correct : proposed[i] \notin {None, InputDigest}

\* Why members are not stuck: a threshold that the counted votes reach has been acted
\* on, and the SEND of a correct sender waits for whoever has not adopted a digest.
ThresholdsOpen ==
  \A i \in Correct :
    /\ rbState[i] = "Proposed" => ~EchoQuorum(tracking[i].receivedEchoes)
    /\ rbState[i] = "Echoed"   => ~ReadyQuorum(tracking[i].receivedReadies)

SendsWait ==
  \A i \in Correct :
    Sender \in Correct /\ rbState[i] = "Init" =>
      Send(Sender, InputPayload, InputDigest) \in inflight[i]

Abstract == INSTANCE ConsistentBroadcast WITH Members <- Correct

\* The protocol implements the abstract broadcast: each step of a member is a
\* hand-out the abstract broadcast allows, or changes no output.
ImplementsBroadcast == Abstract!CBSpec

\* A member that waits for READYs finalizes once 2F + 1 correct members have
\* broadcast them, although they may have arrived before it was ready for them
\* and wait behind READYs for other digests that are polled and queued again.
ReadiesAreServed ==
  \A i \in Correct, d \in Digests :
    (i \in ReadySent(d) /\ Cardinality(ReadySent(d)) > 2 * F) ~> FinalizedWith(i, d)

\* Once a quorum of correct members adopted one digest, each of them finalizes it,
\* whoever sent it to them and whatever the faulty members do from then on.
QuorumDelivers ==
  \A d \in Digests :
    Cardinality(Adopters(d)) >= QuorumSize ~> \A i \in Adopters(d) : FinalizedWith(i, d)

\* "reliably delivered to all correct nodes in the network" (rbc.rs): once one
\* correct member finalizes, all of them do.
Totality ==
  \A i, j \in Correct : (output[i] # None) ~> (output[j] # None)
=============================================================================
