----------------------- MODULE ReliableBroadcastProofs -----------------------
(***************************************************************************)
(* The safety of the broadcast for every membership, every fault pattern   *)
(* and any behaviour of the faulty members.  IndInv is inductive; the four *)
(* actions that hand a message to process_message keep it because          *)
(* process_message does, whatever genuine message it is given and whatever *)
(* genuine messages are in the queue and in the network it is run with.    *)
(***************************************************************************)
EXTENDS ReliableBroadcast, QuorumInfoProofs

\* What process_message of member i may be given.
GoodMessage(i, m) ==
  /\ m \in Messages /\ Genuine(m)
  /\ m.type = "Send" => Proposal(m.messages, m.digest) \in Sent[i]

\* A queue of member i as PollEcho and PollReady leave it.
GoodQueue(queue) ==
  /\ queue \in [echoes  : Seq({m \in Messages : m.type = "Echo"}),
                readies : Seq({m \in Messages : m.type = "Ready"})]
  /\ \A k \in 1..Len(queue.echoes)  : Genuine(queue.echoes[k])
  /\ \A k \in 1..Len(queue.readies) : Genuine(queue.readies[k])

\* Messages in flight as Deliver leaves them.
GoodNet(net) ==
  /\ net \in [Correct -> SUBSET {m \in Messages : m.from \in Correct}]
  /\ \A i \in Correct : \A m \in net[i] : Genuine(m)

\* A step after which what was genuine is genuine.
Advances ==
  \A j \in Correct :
    /\ proposed[j] # None => proposed'[j] = proposed[j]
    /\ rbState[j] \in {"Echoed", "Ready"} => rbState'[j] \in {"Echoed", "Ready"}

-----------------------------------------------------------------------------
(***************************************************************************)
(* What stays true of a message and of the queues when a member advances.  *)
(***************************************************************************)

LEMMA GenuineStays ==
  ASSUME TypeOK, PhaseInv, Advances, NEW m \in Messages, Genuine(m)
  PROVE  Genuine(m)'
<1> SUFFICES ASSUME m.from \in Correct PROVE Genuine(m)'
  BY DEF Genuine
<1>1. m.digest \in Digests /\ m.digest # None
  BY BroadcastAssumption DEF Messages
<1>2. m.type = "Echo" => proposed'[m.from] = m.digest
  BY <1>1 DEF Genuine, Advances
<1>3. m.type = "Ready" => m.from \in ReadySent(m.digest)'
  BY <1>1 DEF Genuine, Advances, ReadySent
<1> QED BY <1>2, <1>3 DEF Genuine

LEMMA QueueStays ==
  ASSUME TypeOK, PhaseInv, Advances, NEW queue, GoodQueue(queue)
  PROVE  GoodQueue(queue)'
<1>1. \A k \in 1..Len(queue.echoes) : queue.echoes[k] \in Messages
  BY DEF GoodQueue
<1>2. \A k \in 1..Len(queue.readies) : queue.readies[k] \in Messages
  BY DEF GoodQueue
<1>3. (\A k \in 1..Len(queue.echoes) : Genuine(queue.echoes[k]))'
  BY <1>1, GenuineStays DEF GoodQueue
<1>4. (\A k \in 1..Len(queue.readies) : Genuine(queue.readies[k]))'
  BY <1>2, GenuineStays DEF GoodQueue
<1> QED BY <1>3, <1>4 DEF GoodQueue

LEMMA NetStays ==
  ASSUME TypeOK, PhaseInv, Advances, NEW net, GoodNet(net)
  PROVE  GoodNet(net)'
<1>1. ASSUME NEW i \in Correct, NEW m \in net[i] PROVE Genuine(m)'
  BY GenuineStays DEF GoodNet
<1> QED BY <1>1 DEF GoodNet

\* queue_message keeps a queue good.
LEMMA EnqueueGood ==
  ASSUME NEW queue, GoodQueue(queue), NEW i, NEW m, GoodMessage(i, m), m.type # "Send"
  PROVE  GoodQueue(Enqueue(queue, m))
<1> DEFINE Kind(t) == {x \in Messages : x.type = t}
<1>1. m \in Messages /\ Genuine(m) /\ (m.type = "Echo" \/ m.type = "Ready")
  BY DEF GoodMessage, Messages
<1>2. ASSUME NEW t, NEW s \in Seq(Kind(t)), m.type = t,
             \A k \in 1..Len(s) : Genuine(s[k])
      PROVE  /\ Append(s, m) \in Seq(Kind(t))
             /\ \A k \in 1..Len(Append(s, m)) : Genuine(Append(s, m)[k])
  <2>1. m \in Kind(t)
    BY <1>1, <1>2
  <2>2. Append(s, m) \in Seq(Kind(t)) /\ Len(Append(s, m)) = Len(s) + 1
    BY <1>2, <2>1
  <2>3. \A k \in 1..Len(s) + 1 :
          (Append(s, m)[k] = s[k] /\ k \in 1..Len(s)) \/ Append(s, m)[k] = m
    BY <1>2, <2>1
  <2> QED BY <1>1, <1>2, <2>2, <2>3
<1>3. queue.echoes \in Seq(Kind("Echo")) /\ queue.readies \in Seq(Kind("Ready"))
  BY DEF GoodQueue
<1> HIDE DEF Kind
<1>4. CASE m.type = "Echo"
  <2>1. /\ Append(queue.echoes, m) \in Seq(Kind("Echo"))
        /\ \A k \in 1..Len(Append(queue.echoes, m)) : Genuine(Append(queue.echoes, m)[k])
    BY <1>2, <1>3, <1>4 DEF GoodQueue
  <2> QED BY <1>4, <2>1 DEF GoodQueue, Enqueue, Kind
<1>5. CASE m.type = "Ready"
  <2>1. /\ Append(queue.readies, m) \in Seq(Kind("Ready"))
        /\ \A k \in 1..Len(Append(queue.readies, m)) : Genuine(Append(queue.readies, m)[k])
    BY <1>2, <1>3, <1>5 DEF GoodQueue
  <2> QED BY <1>5, <2>1 DEF GoodQueue, Enqueue, Kind
<1> QED BY <1>1, <1>4, <1>5

\* A queue stays good when its first message is taken out.
LEMMA TailGood ==
  ASSUME NEW queue, GoodQueue(queue)
  PROVE  /\ queue.echoes # <<>> => GoodQueue([queue EXCEPT !.echoes = Tail(@)])
         /\ queue.readies # <<>> => GoodQueue([queue EXCEPT !.readies = Tail(@)])
<1> DEFINE Kind(t) == {x \in Messages : x.type = t}
<1>1. ASSUME NEW t, NEW s \in Seq(Kind(t)), s # <<>>,
             \A k \in 1..Len(s) : Genuine(s[k])
      PROVE  /\ Tail(s) \in Seq(Kind(t))
             /\ \A k \in 1..Len(Tail(s)) : Genuine(Tail(s)[k])
  <2>1. Len(Tail(s)) = Len(s) - 1 /\ Tail(s) \in Seq(Kind(t))
    BY <1>1
  <2>2. \A k \in 1..Len(Tail(s)) : Tail(s)[k] = s[k + 1] /\ k + 1 \in 1..Len(s)
    BY <1>1, <2>1
  <2> QED BY <1>1, <2>1, <2>2
<1>2. queue.echoes \in Seq(Kind("Echo")) /\ queue.readies \in Seq(Kind("Ready"))
  BY DEF GoodQueue
<1> HIDE DEF Kind
<1>3. ASSUME queue.echoes # <<>> PROVE GoodQueue([queue EXCEPT !.echoes = Tail(@)])
  <2>1. /\ Tail(queue.echoes) \in Seq(Kind("Echo"))
        /\ \A k \in 1..Len(Tail(queue.echoes)) : Genuine(Tail(queue.echoes)[k])
    BY <1>1, <1>2, <1>3 DEF GoodQueue
  <2> QED BY <2>1 DEF GoodQueue, Kind
<1>4. ASSUME queue.readies # <<>> PROVE GoodQueue([queue EXCEPT !.readies = Tail(@)])
  <2>1. /\ Tail(queue.readies) \in Seq(Kind("Ready"))
        /\ \A k \in 1..Len(Tail(queue.readies)) : Genuine(Tail(queue.readies)[k])
    BY <1>1, <1>2, <1>4 DEF GoodQueue
  <2> QED BY <2>1 DEF GoodQueue, Kind
<1> QED BY <1>3, <1>4

\* IndInv in terms of good queues and a good network.
LEMMA InvParts ==
  IndInv <=>
    /\ TypeOK /\ PhaseInv /\ OriginInv
    /\ \A i \in Correct : GoodQueue(pending[i])
    /\ GoodNet(inflight)
    /\ \A i \in Correct : CountedVotes(i)
<1>1. TypeOK => /\ \A i \in Correct : pending[i] \in
                     [echoes  : Seq({m \in Messages : m.type = "Echo"}),
                      readies : Seq({m \in Messages : m.type = "Ready"})]
  BY DEF TypeOK
<1>2. TypeOK => inflight \in [Correct -> SUBSET {m \in Messages : m.from \in Correct}]
  BY DEF TypeOK
<1> QED BY <1>1, <1>2 DEF IndInv, VotesAreGenuine, GoodQueue, GoodNet

-----------------------------------------------------------------------------
(***************************************************************************)
(* What a step makes of the queues and of the network.                     *)
(***************************************************************************)

QueueSpace ==
  [echoes  : Seq({m \in Messages : m.type = "Echo"}),
   readies : Seq({m \in Messages : m.type = "Ready"})]

TrackingSpace ==
  [receivedEchoes : SUBSET Nodes, receivedReadies : SUBSET Nodes,
   sentEcho : BOOLEAN, sentReady : BOOLEAN]

\* Member i's queue is replaced by a good one.
LEMMA QueuesNext ==
  ASSUME IndInv, Advances, NEW i \in Correct, NEW queue, GoodQueue(queue),
         pending' = [pending EXCEPT ![i] = queue]
  PROVE  /\ (\A j \in Correct : GoodQueue(pending[j]))'
         /\ pending' \in [Correct -> QueueSpace]
<1>1. TypeOK /\ PhaseInv /\ \A j \in Correct : GoodQueue(pending[j])
  BY InvParts DEF IndInv
<1>2. \A j \in Correct : pending'[j] = IF j = i THEN queue ELSE pending[j]
  BY <1>1, SMTT(20) DEF TypeOK
<1>3. ASSUME NEW j \in Correct PROVE GoodQueue(pending[j])'
  <2>1. PICK q : q = pending'[j]
    OBVIOUS
  <2>2. GoodQueue(q)
    BY <1>1, <1>2, <2>1
  <2>3. GoodQueue(q)'
    BY <1>1, <2>2, QueueStays
  <2> QED BY <2>1, <2>3 DEF GoodQueue, Genuine, ReadySent
<1>4. pending' \in [Correct -> QueueSpace]
  BY <1>1 DEF TypeOK, GoodQueue, QueueSpace
<1> QED BY <1>3, <1>4

\* The messages in flight are net's, or net's and a new genuine one.
LEMMA NetNext ==
  ASSUME TypeOK, PhaseInv, Advances, NEW net, GoodNet(net),
         \/ inflight' = net
         \/ \E m \in Messages : /\ m.from \in Correct /\ Genuine(m)'
                                /\ inflight' = Broadcast(net, m)
  PROVE  GoodNet(inflight)'
<1>1. GoodNet(net)'
  BY NetStays
<1>2. CASE inflight' = net
  BY <1>1, <1>2 DEF GoodNet, Genuine, ReadySent
<1>3. ASSUME NEW m \in Messages, m.from \in Correct, Genuine(m)',
             inflight' = Broadcast(net, m)
      PROVE  GoodNet(inflight)'
  <2>1. net \in [Correct -> SUBSET {x \in Messages : x.from \in Correct}]
    BY DEF GoodNet
  <2>2. inflight' \in [Correct -> SUBSET {x \in Messages : x.from \in Correct}]
    BY <1>3, <2>1 DEF Broadcast
  <2>3. ASSUME NEW j \in Correct, NEW x \in inflight'[j] PROVE Genuine(x)'
    <3>1. x \in net[j] \/ x = m
      BY <1>3, <2>1 DEF Broadcast
    <3> QED BY <1>1, <1>3, <3>1 DEF GoodNet
  <2> QED BY <2>2, <2>3 DEF GoodNet, Genuine, ReadySent
<1> QED BY <1>2, <1>3

-----------------------------------------------------------------------------
(***************************************************************************)
(* process_message keeps the invariant, arm by arm.                        *)
(***************************************************************************)

\* What every arm is run with.
Given(i, m, queue, net) ==
  /\ IndInv
  /\ i \in Correct /\ output[i] = None
  /\ GoodMessage(i, m) /\ GoodQueue(queue) /\ GoodNet(net)
  /\ UNCHANGED output

\* The parts of IndInv that a step leaves to show once it advances.
LEMMA Assemble ==
  ASSUME NEW i, NEW m, NEW queue, NEW net,
         IndInv, i \in Correct, GoodQueue(queue), GoodNet(net),
         pending' = [pending EXCEPT ![i] = queue],
         Advances,
         \/ inflight' = net
         \/ \E x \in Messages : /\ x.from \in Correct /\ Genuine(x)'
                                /\ inflight' = Broadcast(net, x),
         rbState' \in [Correct -> States],
         payload' \in [Correct -> Payloads \cup {None}],
         proposed' \in [Correct -> Digests \cup {None}],
         tracking' \in [Correct ->
           [receivedEchoes : SUBSET Nodes, receivedReadies : SUBSET Nodes,
            sentEcho : BOOLEAN, sentReady : BOOLEAN]],
         output' \in [Correct -> Proposals \cup {None}],
         PhaseInv', OriginInv', \A j \in Correct : CountedVotes(j)'
  PROVE  IndInv'
<1>1. (\A j \in Correct : GoodQueue(pending[j]))' /\ pending' \in [Correct -> QueueSpace]
  BY QueuesNext
<1>2. GoodNet(inflight)'
  BY NetNext DEF IndInv
<1>3. TypeOK'
  BY <1>1, <1>2 DEF TypeOK, QueueSpace, GoodNet
<1>4. (\A j \in Correct : CountedVotes(j))'
  OBVIOUS
<1>5. (TypeOK /\ PhaseInv /\ OriginInv)'
  BY <1>3
<1> QED BY <1>1, <1>2, <1>4, <1>5 DEF IndInv, VotesAreGenuine, GoodQueue, GoodNet

LEMMA ReceiveSendKeeps ==
  ASSUME NEW i, NEW m, NEW queue, NEW net,
         Given(i, m, queue, net), ReceiveSend(i, m, queue, net)
  PROVE  IndInv'
<1> USE DEF Given
<1>1. TypeOK /\ PhaseInv /\ OriginInv /\ \A j \in Correct : CountedVotes(j)
  BY DEF IndInv, VotesAreGenuine
<1>2. /\ m.digest \in Digests /\ m.digest # None
      /\ m.messages \in Payloads
      /\ proposed[i] = None /\ rbState[i] = "Init"
  BY BroadcastAssumption DEF ReceiveSend, AcceptsSend, GoodMessage, Messages
<1>3. /\ rbState' \in [Correct -> States]
      /\ payload' \in [Correct -> Payloads \cup {None}]
      /\ proposed' \in [Correct -> Digests \cup {None}]
      /\ \A j \in Correct : /\ rbState'[j] = IF j = i THEN "Proposed" ELSE rbState[j]
                            /\ payload'[j] = IF j = i THEN m.messages ELSE payload[j]
                            /\ proposed'[j] = IF j = i THEN m.digest ELSE proposed[j]
  BY <1>1, <1>2 DEF ReceiveSend, TypeOK, States
<1>4. Advances
  BY <1>2, <1>3 DEF Advances
<1>5. /\ Echo(i, m.digest) \in Messages /\ Echo(i, m.digest).from \in Correct
      /\ Genuine(Echo(i, m.digest))'
  BY <1>2, <1>3 DEF Echo, Messages, Correct, Genuine
<1>6. PhaseInv'
  <2>1. output' = output /\ tracking' = tracking /\ output[i] = None
    BY DEF ReceiveSend
  <2>2. \A j \in Correct : j # i => Adopted(j)' = Adopted(j)
    BY <1>3 DEF Adopted
  <2> QED BY <1>1, <1>2, <1>3, <2>1, <2>2 DEF PhaseInv, EchoQuorum, ReadyQuorum
<1>7. OriginInv'
  <2>1. Proposal(m.messages, m.digest) \in Sent[i]
    BY DEF GoodMessage, ReceiveSend, AcceptsSend
  <2>2. \A j \in Correct : Adopted(j)' = IF j = i THEN Proposal(m.messages, m.digest) ELSE Adopted(j)
    BY <1>3 DEF Adopted
  <2> QED BY <1>1, <1>3, <2>1, <2>2 DEF OriginInv
<1>8. \A j \in Correct : CountedVotes(j)'
  <2> SUFFICES ASSUME NEW j \in Correct PROVE CountedVotes(j)'
    OBVIOUS
  <2>1. j = i => tracking[j].receivedEchoes = {} /\ tracking[j].receivedReadies = {}
    BY <1>1, <1>2 DEF PhaseInv
  <2>2. \A k \in tracking[j].receivedEchoes \cap Correct : proposed[k] = proposed[j] /\ proposed[j] # None
    BY <1>1 DEF PhaseInv, CountedVotes
  <2>3. tracking[j].receivedReadies \cap Correct \subseteq ReadySent(proposed[j])
    BY <1>1 DEF CountedVotes
  <2> QED BY <1>2, <1>3, <2>1, <2>2, <2>3 DEF CountedVotes, ReadySent, ReceiveSend
<1> HIDE DEF Given
<1>9. /\ tracking' = tracking /\ output' = output
      /\ inflight' = Broadcast(net, Echo(i, m.digest))
  BY DEF ReceiveSend, Given
<1>10. /\ i \in Correct /\ GoodQueue(queue) /\ GoodNet(net) /\ IndInv
       /\ pending' = [pending EXCEPT ![i] = queue]
  BY DEF Given, ReceiveSend
<1>11. /\ tracking' \in [Correct ->
           [receivedEchoes : SUBSET Nodes, receivedReadies : SUBSET Nodes,
            sentEcho : BOOLEAN, sentReady : BOOLEAN]]
       /\ output' \in [Correct -> Proposals \cup {None}]
  BY <1>1, <1>9 DEF TypeOK
<1> QED BY <1>3, <1>4, <1>5, <1>6, <1>7, <1>8, <1>9, <1>10, <1>11, Assemble

\* The arms that change nothing but a queue.
LEMMA QueuedOrIgnoredKeeps ==
  ASSUME NEW i, NEW m, NEW queue, NEW net,
         Given(i, m, queue, net),
         IgnoreSend(i, m, queue, net) \/ QueueMessage(i, m, queue, net)
  PROVE  IndInv'
<1>1. /\ IndInv /\ i \in Correct /\ GoodMessage(i, m) /\ GoodQueue(queue) /\ GoodNet(net)
      /\ TypeOK /\ PhaseInv /\ OriginInv /\ \A j \in Correct : CountedVotes(j)
      /\ UNCHANGED <<rbState, payload, proposed, tracking, output>> /\ inflight' = net
  BY DEF Given, IndInv, VotesAreGenuine, IgnoreSend, QueueMessage
<1>2. PICK q : GoodQueue(q) /\ pending' = [pending EXCEPT ![i] = q]
  <2>1. CASE IgnoreSend(i, m, queue, net)
    BY <1>1, <2>1 DEF IgnoreSend
  <2>2. CASE QueueMessage(i, m, queue, net)
    <3>1. GoodQueue(Enqueue(queue, m))
      BY <1>1, <2>2, EnqueueGood DEF QueueMessage
    <3> QED BY <3>1, <2>2 DEF QueueMessage
  <2> QED BY <2>1, <2>2
<1>3. Advances
  BY <1>1 DEF Advances
<1>4. PhaseInv' /\ OriginInv' /\ \A j \in Correct : CountedVotes(j)'
  BY <1>1 DEF PhaseInv, OriginInv, CountedVotes, ReadySent, Adopted
<1>5. /\ rbState' \in [Correct -> States]
      /\ payload' \in [Correct -> Payloads \cup {None}]
      /\ proposed' \in [Correct -> Digests \cup {None}]
      /\ tracking' \in [Correct ->
           [receivedEchoes : SUBSET Nodes, receivedReadies : SUBSET Nodes,
            sentEcho : BOOLEAN, sentReady : BOOLEAN]]
      /\ output' \in [Correct -> Proposals \cup {None}]
  BY <1>1 DEF TypeOK
<1> QED BY <1>1, <1>2, <1>3, <1>4, <1>5, Assemble

LEMMA ReceiveEchoKeeps ==
  ASSUME NEW i, NEW m, NEW queue, NEW net,
         Given(i, m, queue, net), ReceiveEcho(i, m, queue, net)
  PROVE  IndInv'
<1> DEFINE voters  == tracking[i].receivedEchoes \cup {m.from}
           reached == EchoQuorum(voters) /\ ~tracking[i].sentEcho
<1>1. /\ IndInv /\ i \in Correct /\ GoodMessage(i, m) /\ GoodQueue(queue) /\ GoodNet(net)
      /\ TypeOK /\ PhaseInv /\ OriginInv /\ \A j \in Correct : CountedVotes(j)
      /\ UNCHANGED <<payload, proposed, output>> /\ pending' = [pending EXCEPT ![i] = queue]
  BY DEF Given, IndInv, VotesAreGenuine, ReceiveEcho
<1>2. /\ m.type = "Echo" /\ m.digest \in Digests /\ m.digest # None /\ m.from \in Nodes
      /\ proposed[i] = m.digest /\ rbState[i] = "Proposed" /\ Genuine(m)
  BY <1>1, BroadcastAssumption DEF ReceiveEcho, AcceptsEcho, GoodMessage, Messages
<1>3. /\ reached \in BOOLEAN
      /\ tracking' = [tracking EXCEPT ![i].receivedEchoes = voters,
                                      ![i].sentEcho = IF reached THEN TRUE ELSE @]
      /\ rbState' = [rbState EXCEPT ![i] = IF reached THEN "Echoed" ELSE @]
      /\ inflight' = IF reached THEN Broadcast(net, Ready(i, m.digest)) ELSE net
      /\ reached <=> EchoQuorum(voters)
  BY <1>1, <1>2 DEF ReceiveEcho, PhaseInv, EchoQuorum
<1> HIDE DEF reached
<1>4. /\ tracking' \in [Correct ->
           [receivedEchoes : SUBSET Nodes, receivedReadies : SUBSET Nodes,
            sentEcho : BOOLEAN, sentReady : BOOLEAN]]
      /\ \A j \in Correct :
           /\ tracking'[j].receivedEchoes = IF j = i THEN voters ELSE tracking[j].receivedEchoes
           /\ tracking'[j].receivedReadies = tracking[j].receivedReadies
           /\ tracking'[j].sentEcho = IF j = i THEN (IF reached THEN TRUE ELSE tracking[i].sentEcho)
                                               ELSE tracking[j].sentEcho
           /\ tracking'[j].sentReady = tracking[j].sentReady
  <2>1. voters \in SUBSET Nodes
    BY <1>1, <1>2 DEF TypeOK
  <2> HIDE DEF voters
  <2>2. CASE reached
    <3> DEFINE new == [tracking[i] EXCEPT !.receivedEchoes = voters, !.sentEcho = TRUE]
    <3>1. tracking' = [tracking EXCEPT ![i] = new]
      BY <1>1, <1>3, <2>2 DEF TypeOK
    <3>2. /\ new \in TrackingSpace
          /\ new.receivedEchoes = voters /\ new.sentEcho = TRUE
          /\ new.receivedReadies = tracking[i].receivedReadies
          /\ new.sentReady = tracking[i].sentReady
      BY <1>1, <2>1 DEF TypeOK, TrackingSpace
    <3> HIDE DEF new
    <3> QED BY <1>1, <2>2, <3>1, <3>2 DEF TypeOK, TrackingSpace
  <2>3. CASE ~reached
    <3>1. tracking' = [tracking EXCEPT ![i].receivedEchoes = voters]
      BY <1>1, <1>3, <2>3 DEF TypeOK
    <3> QED BY <1>1, <2>1, <2>3, <3>1 DEF TypeOK
  <2> QED BY <1>3, <2>2, <2>3
<1>5. /\ rbState' \in [Correct -> States]
      /\ \A j \in Correct :
           rbState'[j] = IF j = i /\ reached THEN "Echoed" ELSE rbState[j]
  BY <1>1, <1>3 DEF TypeOK, States
<1>6. Advances
  BY <1>1, <1>2, <1>5 DEF Advances
<1>7. \/ inflight' = net
      \/ \E x \in Messages : /\ x.from \in Correct /\ Genuine(x)'
                             /\ inflight' = Broadcast(net, x)
  <2>1. Ready(i, m.digest) \in Messages /\ Ready(i, m.digest).from \in Correct
    BY <1>1, <1>2 DEF Ready, Messages, Correct
  <2>2. reached => Genuine(Ready(i, m.digest))'
    BY <1>1, <1>2, <1>5 DEF Ready, Genuine, ReadySent
  <2> QED BY <1>3, <2>1, <2>2
<1>8. PhaseInv'
  BY <1>1, <1>2, <1>3, <1>4, <1>5 DEF PhaseInv, EchoQuorum, ReadyQuorum, Adopted
<1>9. OriginInv'
  BY <1>1 DEF OriginInv, Adopted
<1>10. ASSUME NEW j \in Correct PROVE CountedVotes(j)'
  <2>1. \A k \in tracking'[j].receivedEchoes \cap Correct : proposed[k] = proposed[j]
    BY <1>1, <1>2, <1>4 DEF CountedVotes, Genuine
  <2>2. ReadySent(proposed[j]) \subseteq ReadySent(proposed[j])'
    BY <1>1, <1>5 DEF ReadySent
  <2> QED BY <1>1, <1>4, <2>1, <2>2 DEF CountedVotes
<1>11. /\ payload' \in [Correct -> Payloads \cup {None}]
       /\ proposed' \in [Correct -> Digests \cup {None}]
       /\ output' \in [Correct -> Proposals \cup {None}]
  BY <1>1 DEF TypeOK
<1> QED BY <1>1, <1>4, <1>5, <1>6, <1>7, <1>8, <1>9, <1>10, <1>11, Assemble

LEMMA ReceiveReadyKeeps ==
  ASSUME NEW i, NEW m, NEW queue, NEW net,
         Given(i, m, queue, net), ReceiveReady(i, m, queue, net)
  PROVE  IndInv'
<1> DEFINE voters  == tracking[i].receivedReadies \cup {m.from}
           reached == ReadyQuorum(voters) /\ ~tracking[i].sentReady
<1>1. /\ IndInv /\ i \in Correct /\ GoodMessage(i, m) /\ GoodQueue(queue) /\ GoodNet(net)
      /\ TypeOK /\ PhaseInv /\ OriginInv /\ \A j \in Correct : CountedVotes(j)
      /\ UNCHANGED <<payload, proposed, output>> /\ pending' = [pending EXCEPT ![i] = queue]
      /\ output[i] = None
  BY DEF Given, IndInv, VotesAreGenuine, ReceiveReady
<1>2. /\ m.type = "Ready" /\ m.digest \in Digests /\ m.digest # None /\ m.from \in Nodes
      /\ proposed[i] = m.digest /\ rbState[i] = "Echoed" /\ Genuine(m)
  BY <1>1, BroadcastAssumption DEF ReceiveReady, AcceptsReady, GoodMessage, Messages
<1>3. /\ reached \in BOOLEAN
      /\ tracking' = [tracking EXCEPT ![i].receivedReadies = voters,
                                      ![i].sentReady = IF reached THEN TRUE ELSE @]
      /\ rbState' = [rbState EXCEPT ![i] = IF reached THEN "Ready" ELSE @]
      /\ inflight' = net
      /\ reached <=> ReadyQuorum(voters)
  BY <1>1, <1>2 DEF ReceiveReady, PhaseInv, ReadyQuorum
<1> HIDE DEF reached
<1>4. /\ tracking' \in [Correct ->
           [receivedEchoes : SUBSET Nodes, receivedReadies : SUBSET Nodes,
            sentEcho : BOOLEAN, sentReady : BOOLEAN]]
      /\ \A j \in Correct :
           /\ tracking'[j].receivedReadies = IF j = i THEN voters ELSE tracking[j].receivedReadies
           /\ tracking'[j].receivedEchoes = tracking[j].receivedEchoes
           /\ tracking'[j].sentReady = IF j = i THEN (IF reached THEN TRUE ELSE tracking[i].sentReady)
                                                ELSE tracking[j].sentReady
           /\ tracking'[j].sentEcho = tracking[j].sentEcho
  <2>1. voters \in SUBSET Nodes
    BY <1>1, <1>2 DEF TypeOK
  <2> HIDE DEF voters
  <2>2. CASE reached
    <3> DEFINE new == [tracking[i] EXCEPT !.receivedReadies = voters, !.sentReady = TRUE]
    <3>1. tracking' = [tracking EXCEPT ![i] = new]
      BY <1>1, <1>3, <2>2 DEF TypeOK
    <3>2. /\ new \in TrackingSpace
          /\ new.receivedReadies = voters /\ new.sentReady = TRUE
          /\ new.receivedEchoes = tracking[i].receivedEchoes
          /\ new.sentEcho = tracking[i].sentEcho
      <4>1. tracking[i] \in TrackingSpace
        BY <1>1 DEF TypeOK, TrackingSpace
      <4> QED BY <2>1, <4>1 DEF TrackingSpace
    <3> HIDE DEF new
    <3> QED BY <1>1, <2>2, <3>1, <3>2 DEF TypeOK, TrackingSpace
  <2>3. CASE ~reached
    <3>1. tracking' = [tracking EXCEPT ![i].receivedReadies = voters]
      BY <1>1, <1>3, <2>3 DEF TypeOK
    <3> QED BY <1>1, <2>1, <2>3, <3>1 DEF TypeOK
  <2> QED BY <1>3, <2>2, <2>3
<1>5. /\ rbState' \in [Correct -> States]
      /\ \A j \in Correct :
           rbState'[j] = IF j = i /\ reached THEN "Ready" ELSE rbState[j]
  BY <1>1, <1>3 DEF TypeOK, States
<1>6. Advances
  BY <1>1, <1>2, <1>5 DEF Advances
<1>7. PhaseInv'
  BY <1>1, <1>2, <1>3, <1>4, <1>5 DEF PhaseInv, EchoQuorum, ReadyQuorum, Adopted
<1>8. OriginInv'
  BY <1>1 DEF OriginInv, Adopted
<1>9. ASSUME NEW j \in Correct PROVE CountedVotes(j)'
  <2>1. ReadySent(proposed[j]) \subseteq ReadySent(proposed[j])'
    BY <1>1, <1>5 DEF ReadySent
  <2>2. tracking'[j].receivedReadies \cap Correct \subseteq ReadySent(proposed[j])
    <3>1. m.from \in Correct => m.from \in ReadySent(proposed[i])
      BY <1>2 DEF Genuine
    <3>2. tracking[j].receivedReadies \cap Correct \subseteq ReadySent(proposed[j])
      BY <1>1 DEF CountedVotes
    <3>3. CASE j = i
      <4>1. tracking[i].receivedReadies \cap Correct \subseteq ReadySent(proposed[i])
        BY <1>1 DEF CountedVotes
      <4>2. voters \cap Correct \subseteq ReadySent(proposed[i])
        BY <3>1, <4>1
      <4>3. tracking'[i].receivedReadies = voters
        BY <1>1, <1>4
      <4> QED BY <3>3, <4>2, <4>3
    <3>4. CASE j # i
      BY <1>4, <3>2, <3>4
    <3> QED BY <3>3, <3>4
  <2> QED BY <1>1, <1>4, <2>1, <2>2 DEF CountedVotes
<1>10. /\ payload' \in [Correct -> Payloads \cup {None}]
       /\ proposed' \in [Correct -> Digests \cup {None}]
       /\ output' \in [Correct -> Proposals \cup {None}]
  BY <1>1 DEF TypeOK
<1> QED BY <1>1, <1>3, <1>4, <1>5, <1>6, <1>7, <1>8, <1>9, <1>10, Assemble

\* process_message keeps the invariant.
LEMMA ProcessMessageKeeps ==
  ASSUME NEW i, NEW m, NEW queue, NEW net,
         IndInv, i \in Correct, output[i] = None,
         GoodMessage(i, m), GoodQueue(queue), GoodNet(net),
         ProcessMessage(i, m, queue, net), UNCHANGED output
  PROVE  IndInv'
<1>1. CASE ReceiveSend(i, m, queue, net)
  BY <1>1, ReceiveSendKeeps DEF Given
<1>2. CASE IgnoreSend(i, m, queue, net)
  BY <1>2, QueuedOrIgnoredKeeps DEF Given
<1>3. CASE ReceiveEcho(i, m, queue, net)
  BY <1>3, ReceiveEchoKeeps DEF Given
<1>4. CASE ReceiveReady(i, m, queue, net)
  BY <1>4, ReceiveReadyKeeps DEF Given
<1>5. CASE QueueMessage(i, m, queue, net)
  BY <1>5, QueuedOrIgnoredKeeps DEF Given
<1> QED BY <1>1, <1>2, <1>3, <1>4, <1>5 DEF ProcessMessage

-----------------------------------------------------------------------------
(***************************************************************************)
(* The invariant.                                                          *)
(***************************************************************************)

LEMMA InitInv == Init => IndInv
<1> SUFFICES ASSUME Init PROVE IndInv
  OBVIOUS
<1>1. TypeOK
  BY BroadcastAssumption DEF Init, TypeOK, States, Messages, Send
<1>2. PhaseInv
  BY <1>1, BroadcastAssumption DEF Init, PhaseInv
<1>3. OriginInv
  BY DEF Init, OriginInv
<1>4. ASSUME NEW i \in Correct, NEW m \in inflight[i] PROVE Genuine(m)
  BY <1>4 DEF Init, Genuine, Send
<1>5. VotesAreGenuine
  BY <1>4 DEF Init, VotesAreGenuine, CountedVotes
<1> QED BY <1>1, <1>2, <1>3, <1>5 DEF IndInv

\* A message that is delivered or polled is one process_message may be given.
LEMMA HandedIsGood ==
  ASSUME IndInv, NEW i \in Correct
  PROVE  /\ \A m \in inflight[i] : GoodMessage(i, m)
         /\ \A m \in FaultyMessages[i] : GoodMessage(i, m)
         /\ rbState[i] = "Proposed" /\ pending[i].echoes # <<>> =>
              GoodMessage(i, Head(pending[i].echoes))
         /\ rbState[i] = "Echoed" /\ pending[i].readies # <<>> =>
              GoodMessage(i, Head(pending[i].readies))
<1>1. TypeOK /\ VotesAreGenuine /\ GoodQueue(pending[i])
  BY InvParts DEF IndInv
<1>2. ASSUME NEW m \in inflight[i] PROVE GoodMessage(i, m)
  <2>1. m \in Messages /\ m.from \in Correct /\ Genuine(m)
    BY <1>1, <1>2 DEF TypeOK, VotesAreGenuine
  <2>2. m.type = "Send" => /\ Sender \in Correct
                           /\ m.messages = InputPayload /\ m.digest = InputDigest
    BY <2>1 DEF Genuine, Send
  <2> QED BY <2>1, <2>2 DEF GoodMessage, Sent
<1>3. ASSUME NEW m \in FaultyMessages[i] PROVE GoodMessage(i, m)
  <2>1. m \in Messages /\ m.from \notin Correct
    BY <1>3, FaultyAssumption DEF Forgeable, Correct
  <2> QED BY <1>3, <2>1 DEF GoodMessage, Genuine, Sent
<1>4. ASSUME pending[i].echoes # <<>> PROVE GoodMessage(i, Head(pending[i].echoes))
  <2>1. /\ pending[i].echoes \in Seq({m \in Messages : m.type = "Echo"})
        /\ \A k \in 1..Len(pending[i].echoes) : Genuine(pending[i].echoes[k])
    BY <1>1 DEF GoodQueue
  <2>2. /\ 1 \in 1..Len(pending[i].echoes)
        /\ Head(pending[i].echoes) = pending[i].echoes[1]
        /\ pending[i].echoes[1] \in {m \in Messages : m.type = "Echo"}
    BY <1>4, <2>1
  <2> QED BY <2>1, <2>2 DEF GoodMessage, Genuine
<1>5. ASSUME pending[i].readies # <<>> PROVE GoodMessage(i, Head(pending[i].readies))
  <2>1. /\ pending[i].readies \in Seq({m \in Messages : m.type = "Ready"})
        /\ \A k \in 1..Len(pending[i].readies) : Genuine(pending[i].readies[k])
    BY <1>1 DEF GoodQueue
  <2>2. /\ 1 \in 1..Len(pending[i].readies)
        /\ Head(pending[i].readies) = pending[i].readies[1]
        /\ pending[i].readies[1] \in {m \in Messages : m.type = "Ready"}
    BY <1>5, <2>1
  <2> QED BY <2>1, <2>2 DEF GoodMessage, Genuine
<1> QED BY <1>2, <1>3, <1>4, <1>5

\* What reaches a member is a proposal.
LEMMA OriginTyped == \A i \in Correct : Sent[i] \subseteq Proposals
<1> SUFFICES ASSUME NEW i \in Correct, NEW p \in Sent[i] PROVE p \in Proposals
  OBVIOUS
<1>1. CASE p = Proposal(InputPayload, InputDigest)
  BY <1>1, BroadcastAssumption DEF Proposal, Proposals
<1>2. ASSUME NEW m \in FaultyMessages[i], m.type = "Send", p = Proposal(m.messages, m.digest)
      PROVE  p \in Proposals
  <2>1. m \in Messages
    BY <1>2, FaultyAssumption DEF Forgeable
  <2> QED BY <1>2, <2>1 DEF Messages, Proposal, Proposals
<1> QED BY <1>1, <1>2 DEF Sent

LEMMA NextKeepsInv == IndInv /\ [Next]_vars => IndInv'
<1> SUFFICES ASSUME IndInv, [Next]_vars PROVE IndInv'
  OBVIOUS
<1> USE DEF IndInv
<1>1. ASSUME NEW i \in Correct, NEW m \in inflight[i], Deliver(i, m) PROVE IndInv'
  <2>1. GoodNet([inflight EXCEPT ![i] = @ \ {m}])
    BY DEF TypeOK, VotesAreGenuine, GoodNet
  <2>2. GoodQueue(pending[i]) /\ GoodMessage(i, m)
    BY <1>1, InvParts, HandedIsGood
  <2> HIDE DEF IndInv
  <2> QED BY <1>1, <2>1, <2>2, ProcessMessageKeeps DEF Deliver
<1>2. ASSUME NEW i \in Correct, NEW m \in FaultyMessages[i], DeliverFaulty(i, m) PROVE IndInv'
  <2>1. GoodNet(inflight) /\ GoodQueue(pending[i]) /\ GoodMessage(i, m)
    BY <1>2, InvParts, HandedIsGood
  <2> HIDE DEF IndInv
  <2> QED BY <1>2, <2>1, ProcessMessageKeeps DEF DeliverFaulty
<1>3. ASSUME NEW i \in Correct, PollEcho(i) PROVE IndInv'
  <2>1. GoodNet(inflight) /\ GoodQueue(pending[i]) /\ GoodMessage(i, Head(pending[i].echoes))
    BY <1>3, InvParts, HandedIsGood DEF PollEcho
  <2>2. GoodQueue([pending[i] EXCEPT !.echoes = Tail(@)])
    BY <1>3, <2>1, TailGood DEF PollEcho
  <2> HIDE DEF IndInv
  <2> QED BY <1>3, <2>1, <2>2, ProcessMessageKeeps DEF PollEcho
<1>4. ASSUME NEW i \in Correct, PollReady(i) PROVE IndInv'
  <2>1. GoodNet(inflight) /\ GoodQueue(pending[i]) /\ GoodMessage(i, Head(pending[i].readies))
    BY <1>4, InvParts, HandedIsGood DEF PollReady
  <2>2. GoodQueue([pending[i] EXCEPT !.readies = Tail(@)])
    BY <1>4, <2>1, TailGood DEF PollReady
  <2> HIDE DEF IndInv
  <2> QED BY <1>4, <2>1, <2>2, ProcessMessageKeeps DEF PollReady
<1>5. ASSUME NEW i \in Correct, Finalize(i) PROVE IndInv'
  <2>1. Adopted(i) \in Proposals
    BY <1>5, OriginTyped DEF Finalize, PhaseInv, OriginInv
  <2>2. TypeOK'
    BY <1>5, <2>1 DEF Finalize, TypeOK
  <2>3. PhaseInv'
    BY <1>5 DEF Finalize, PhaseInv, TypeOK, Adopted
  <2>4. OriginInv' /\ VotesAreGenuine'
    BY <1>5 DEF Finalize, OriginInv, VotesAreGenuine, CountedVotes, Genuine, ReadySent, Adopted
  <2> QED BY <2>2, <2>3, <2>4
<1>6. CASE UNCHANGED vars
  <2>1. TypeOK'
    BY <1>6 DEF vars, TypeOK
  <2>2. PhaseInv' /\ OriginInv'
    BY <1>6 DEF vars, PhaseInv, OriginInv, Adopted
  <2>3. VotesAreGenuine'
    BY <1>6 DEF vars, VotesAreGenuine, CountedVotes, Genuine, ReadySent
  <2> QED BY <2>1, <2>2, <2>3
<1> QED BY <1>1, <1>2, <1>3, <1>4, <1>5, <1>6 DEF Next

\* The inductive invariant holds in every reachable state: no vote of a correct
\* member is ever forged, misdirected or counted for another digest.
THEOREM Invariance == Spec => []IndInv
<1>1. Init => IndInv
  BY InitInv
<1>2. IndInv /\ [Next]_vars => IndInv'
  BY NextKeepsInv
<1> QED BY <1>1, <1>2, PTL DEF Spec

\* Type correctness of the instance, its queues and the network.
THEOREM TypeCorrect == Spec => []TypeOK
<1>1. IndInv => TypeOK
  BY DEF IndInv
<1> QED BY <1>1, Invariance, PTL

-----------------------------------------------------------------------------
(***************************************************************************)
(* What the invariant gives.                                               *)
(***************************************************************************)

\* What a member that finalized has seen.
LEMMA FinalizedSaw ==
  ASSUME IndInv, NEW i \in Correct, output[i] # None
  PROVE  /\ tracking[i].receivedReadies \in SUBSET Nodes
         /\ Cardinality(tracking[i].receivedReadies) > 2 * F
         /\ tracking[i].receivedReadies \cap Correct \subseteq ReadySent(output[i].digest)
<1>1. /\ tracking[i].receivedReadies \in SUBSET Nodes
      /\ tracking[i].sentReady /\ output[i].digest = proposed[i]
      /\ ReadyQuorum(tracking[i].receivedReadies)
  BY DEF IndInv, TypeOK, PhaseInv, Adopted, Proposal
<1>2. tracking[i].receivedReadies \cap Correct \subseteq ReadySent(proposed[i])
  BY DEF IndInv, VotesAreGenuine, CountedVotes
<1> QED BY <1>1, <1>2 DEF ReadyQuorum

\* What a member that sent READY has seen.
LEMMA ReadySaw ==
  ASSUME IndInv, NEW d, NEW k \in ReadySent(d)
  PROVE  /\ tracking[k].receivedEchoes \in SUBSET Nodes
         /\ Cardinality(tracking[k].receivedEchoes) >= N - 2 * F
         /\ \A j \in tracking[k].receivedEchoes \cap Correct : proposed[j] = d
<1>1. k \in Correct /\ proposed[k] = d /\ tracking[k].sentEcho
  BY DEF ReadySent, IndInv, PhaseInv
<1>2. tracking[k].receivedEchoes \in SUBSET Nodes /\ EchoQuorum(tracking[k].receivedEchoes)
  BY <1>1 DEF IndInv, TypeOK, PhaseInv
<1>3. \A j \in tracking[k].receivedEchoes \cap Correct : proposed[j] = d
  BY <1>1 DEF IndInv, VotesAreGenuine, CountedVotes
<1>4. N - F - F = N - 2 * F
  BY FiniteParts, QuorumAssumption
<1> QED BY <1>2, <1>3, <1>4 DEF EchoQuorum, QuorumSize

\* The memberships in which the thresholds suffice: two READY quorums share a correct
\* member if n = 3f + 1, two ECHO quorums if n > 5f.
Agreeing == Tight \/ N > 5 * F

LEMMA InvAgreement ==
  ASSUME Agreeing, IndInv
  PROVE  Agreement
<1> SUFFICES ASSUME NEW i \in Correct, NEW j \in Correct,
                    output[i] # None, output[j] # None
             PROVE  output[i].digest = output[j].digest
  BY DEF Agreement
<1>1. CASE Tight
  <2>1. PICK k \in Correct :
          k \in tracking[i].receivedReadies \cap tracking[j].receivedReadies
    BY <1>1, FinalizedSaw, CorrectInCommon
  <2>2. k \in ReadySent(output[i].digest) /\ k \in ReadySent(output[j].digest)
    BY <2>1, FinalizedSaw
  <2> QED BY <2>2 DEF ReadySent
<1>2. CASE N > 5 * F
  <2>1. ASSUME NEW l \in Correct, output[l] # None
        PROVE  \E k \in Correct : k \in ReadySent(output[l].digest)
    <3>1. /\ tracking[l].receivedReadies \in SUBSET Nodes
          /\ Cardinality(tracking[l].receivedReadies) > 2 * F
          /\ tracking[l].receivedReadies \cap Correct \subseteq ReadySent(output[l].digest)
      BY <2>1, FinalizedSaw
    <3>2. Cardinality(tracking[l].receivedReadies) > F
      BY <3>1, FiniteParts, QuorumAssumption
    <3> QED BY <3>1, <3>2, CorrectAmong
  <2>2. PICK k \in Correct : k \in ReadySent(output[i].digest)
    BY <2>1
  <2>3. PICK l \in Correct : l \in ReadySent(output[j].digest)
    BY <2>1
  <2>4. PICK p \in Correct : p \in tracking[k].receivedEchoes \cap tracking[l].receivedEchoes
    BY <1>2, <2>2, <2>3, ReadySaw, CorrectInBoth
  <2> QED BY <2>2, <2>3, <2>4, ReadySaw
<1> QED BY <1>1, <1>2 DEF Agreeing

\* Whatever the sender and the other faulty members send, to whom and in which
\* order, two correct members of a quorum of 3F + 1, or of more than 5F, never
\* finalize different digests.
THEOREM BroadcastAgreement == Agreeing => (Spec => []Agreement)
<1> SUFFICES ASSUME Agreeing PROVE Spec => []Agreement
  OBVIOUS
<1>1. IndInv => Agreement
  BY InvAgreement
<1> QED BY <1>1, Invariance, PTL

\* What nobody checks: that no digest reaches correct members with two payloads.
Binding ==
  \A i, j \in Correct : \A p \in Sent[i], q \in Sent[j] :
    p.digest = q.digest => p.messages = q.messages

\* If each digest comes with one payload, then in such a quorum the messages that
\* finalize() hands out are the same at every correct member.
THEOREM MessagesAgree == Agreeing /\ Binding => (Spec => []SameMessages)
<1> SUFFICES ASSUME Agreeing, Binding PROVE Spec => []SameMessages
  OBVIOUS
<1>1. IndInv => SameMessages
  <2> SUFFICES ASSUME IndInv, NEW i \in Correct, NEW j \in Correct,
                      output[i] # None, output[j] # None
               PROVE  output[i].messages = output[j].messages
    BY DEF SameMessages
  <2>1. output[i] \in Sent[i] /\ output[j] \in Sent[j]
    BY DEF IndInv, PhaseInv, OriginInv
  <2>2. output[i].digest = output[j].digest
    BY InvAgreement DEF Agreement
  <2> QED BY <2>1, <2>2 DEF Binding
<1> QED BY <1>1, Invariance, PTL

\* In every quorum, a digest a correct member finalized has the READYs of F + 1
\* correct members.
THEOREM BroadcastSupport == Spec => []DeliverySupport
<1>1. IndInv => DeliverySupport
  <2> SUFFICES ASSUME IndInv, NEW i \in Correct, output[i] # None
               PROVE  Cardinality(ReadySent(output[i].digest)) >= F + 1
    BY DEF DeliverySupport
  <2>1. Cardinality(tracking[i].receivedReadies \cap Correct) >= F + 1
    BY FinalizedSaw, CorrectMajority
  <2>2. ReadySent(output[i].digest) \in SUBSET Nodes
    BY DEF ReadySent, Correct
  <2>3. Cardinality(tracking[i].receivedReadies \cap Correct) <= Cardinality(ReadySent(output[i].digest))
    BY <2>2, FinalizedSaw, FiniteParts
  <2>4. /\ tracking[i].receivedReadies \cap Correct \in SUBSET Nodes
        /\ F \in Nat
    BY QuorumAssumption DEF Correct
  <2> QED BY <2>1, <2>2, <2>3, <2>4, FiniteParts
<1> QED BY <1>1, Invariance, PTL

-----------------------------------------------------------------------------
(***************************************************************************)
(* No vote is lost: process_message counts a vote or queues it, and takes  *)
(* nothing out of the queue and the network it is run with.                *)
(***************************************************************************)

Occurs(s, x) == \E k \in 1..Len(s) : s[k] = x

\* x is at member i when process_message is run there with m, queue and net.
AtHand(i, x, m, queue, net) ==
  \/ x = m \/ x \in net[i] \/ Occurs(queue.echoes, x) \/ Occurs(queue.readies, x)
  \/ x.type = "Echo"  /\ x.from \in tracking[i].receivedEchoes
  \/ x.type = "Ready" /\ x.from \in tracking[i].receivedReadies

LEMMA AppendOccurs ==
  ASSUME NEW S, NEW s \in Seq(S), NEW m \in S
  PROVE  /\ Occurs(Append(s, m), m)
         /\ \A x : Occurs(s, x) => Occurs(Append(s, m), x)
<1>1. /\ Len(Append(s, m)) = Len(s) + 1 /\ Len(s) \in Nat
      /\ Append(s, m)[Len(s) + 1] = m
      /\ \A k \in 1..Len(s) : Append(s, m)[k] = s[k]
  OBVIOUS
<1> QED BY <1>1 DEF Occurs

LEMMA TailOccurs ==
  ASSUME NEW S, NEW s \in Seq(S), s # <<>>, NEW x, Occurs(s, x)
  PROVE  x = Head(s) \/ Occurs(Tail(s), x)
<1>1. PICK k \in 1..Len(s) : s[k] = x
  BY DEF Occurs
<1>2. Head(s) = s[1] /\ Len(Tail(s)) = Len(s) - 1 /\ Len(s) \in Nat
        /\ \A n \in 1..Len(Tail(s)) : Tail(s)[n] = s[n + 1]
  OBVIOUS
<1>3. CASE k = 1
  BY <1>1, <1>2, <1>3
<1>4. CASE k # 1
  <2>1. k - 1 \in 1..Len(Tail(s)) /\ Tail(s)[k - 1] = x
    BY <1>1, <1>2, <1>4
  <2> QED BY <2>1 DEF Occurs
<1> QED BY <1>3, <1>4

\* The queue a message is put into holds it, and what it held.
LEMMA EnqueueOccurs ==
  ASSUME NEW queue \in QueueSpace, NEW m \in Messages, m.type # "Send"
  PROVE  LET new == Enqueue(queue, m) IN
         /\ Occurs(new.echoes, m) \/ Occurs(new.readies, m)
         /\ \A x : Occurs(queue.echoes, x) => Occurs(new.echoes, x)
         /\ \A x : Occurs(queue.readies, x) => Occurs(new.readies, x)
<1> DEFINE Kind(t) == {x \in Messages : x.type = t}
<1>1. queue.echoes \in Seq(Kind("Echo")) /\ queue.readies \in Seq(Kind("Ready"))
  BY DEF QueueSpace
<1>2. m \in Kind("Echo") \/ m \in Kind("Ready")
  BY DEF Messages
<1>3. CASE m.type = "Echo"
  <2>1. m \in Kind("Echo")
    BY <1>3
  <2>2. /\ Enqueue(queue, m).echoes = Append(queue.echoes, m)
        /\ Enqueue(queue, m).readies = queue.readies
    BY <1>3 DEF Enqueue, QueueSpace
  <2> HIDE DEF Kind
  <2> QED BY <1>1, <2>1, <2>2, AppendOccurs
<1>4. CASE m.type # "Echo"
  <2>1. m \in Kind("Ready")
    BY <1>2, <1>4
  <2>2. /\ Enqueue(queue, m).readies = Append(queue.readies, m)
        /\ Enqueue(queue, m).echoes = queue.echoes
    BY <1>4 DEF Enqueue, QueueSpace
  <2> HIDE DEF Kind
  <2> QED BY <1>1, <2>1, <2>2, AppendOccurs
<1> QED BY <1>3, <1>4

\* What a message handed to process_message leaves: the votes counted, the queue and
\* the network lose nothing, and the message is counted or queued.
LEMMA HandlerKeeps ==
  ASSUME TypeOK, NEW i \in Correct, NEW m \in Messages, NEW queue \in QueueSpace,
         NEW net \in [Correct -> SUBSET Messages],
         ProcessMessage(i, m, queue, net)
  PROVE  /\ \A j \in Correct : net[j] \subseteq inflight'[j]
         /\ \A j \in Correct :
              /\ tracking[j].receivedEchoes \subseteq tracking'[j].receivedEchoes
              /\ tracking[j].receivedReadies \subseteq tracking'[j].receivedReadies
         /\ \A j \in Correct \ {i} : pending'[j] = pending[j]
         /\ \A x : Occurs(queue.echoes, x) => Occurs(pending'[i].echoes, x)
         /\ \A x : Occurs(queue.readies, x) => Occurs(pending'[i].readies, x)
         /\ m.type # "Send" => Kept(i, m)'
<1>1. \A q : pending' = [pending EXCEPT ![i] = q] =>
               pending'[i] = q /\ \A j \in Correct \ {i} : pending'[j] = pending[j]
  BY DEF TypeOK
<1>2. \A x : inflight' = Broadcast(net, x) => \A j \in Correct : net[j] \subseteq inflight'[j]
  BY DEF Broadcast
<1>3. CASE ReceiveSend(i, m, queue, net) \/ IgnoreSend(i, m, queue, net)
  <2>1. pending' = [pending EXCEPT ![i] = queue] /\ tracking' = tracking /\ m.type = "Send"
          /\ (inflight' = net \/ \E x : inflight' = Broadcast(net, x))
    BY <1>3 DEF ReceiveSend, IgnoreSend, AcceptsSend
  <2> QED BY <1>1, <1>2, <2>1
<1>4. CASE ReceiveEcho(i, m, queue, net)
  <2> DEFINE voters  == tracking[i].receivedEchoes \cup {m.from}
             reached == EchoQuorum(voters) /\ ~tracking[i].sentEcho
  <2>1. /\ pending' = [pending EXCEPT ![i] = queue] /\ m.type = "Echo"
        /\ inflight' = net \/ \E x : inflight' = Broadcast(net, x)
        /\ tracking' = [tracking EXCEPT ![i].receivedEchoes = voters,
                                        ![i].sentEcho = IF reached THEN TRUE ELSE @]
    BY <1>4 DEF ReceiveEcho, AcceptsEcho
  <2> HIDE DEF reached
  <2>2. \A j \in Correct :
          /\ tracking'[j].receivedReadies = tracking[j].receivedReadies
          /\ tracking'[j].receivedEchoes = IF j = i THEN voters ELSE tracking[j].receivedEchoes
    BY <2>1 DEF TypeOK
  <2>3. m.from \in tracking'[i].receivedEchoes
    BY <2>2
  <2>4. Kept(i, m)'
    BY <2>1, <2>3 DEF Kept
  <2>5. \A j \in Correct : net[j] \subseteq inflight'[j]
    BY <1>2, <2>1
  <2>6. \A j \in Correct :
          /\ tracking[j].receivedEchoes \subseteq tracking'[j].receivedEchoes
          /\ tracking[j].receivedReadies \subseteq tracking'[j].receivedReadies
    BY <2>2
  <2> QED BY <1>1, <2>1, <2>4, <2>5, <2>6
<1>5. CASE ReceiveReady(i, m, queue, net)
  <2> DEFINE voters  == tracking[i].receivedReadies \cup {m.from}
             reached == ReadyQuorum(voters) /\ ~tracking[i].sentReady
  <2>1. /\ pending' = [pending EXCEPT ![i] = queue] /\ m.type = "Ready" /\ inflight' = net
        /\ tracking' = [tracking EXCEPT ![i].receivedReadies = voters,
                                        ![i].sentReady = IF reached THEN TRUE ELSE @]
    BY <1>5 DEF ReceiveReady, AcceptsReady
  <2> HIDE DEF reached
  <2>2. \A j \in Correct :
          /\ tracking'[j].receivedEchoes = tracking[j].receivedEchoes
          /\ tracking'[j].receivedReadies = IF j = i THEN voters ELSE tracking[j].receivedReadies
    BY <2>1 DEF TypeOK
  <2>3. m.from \in tracking'[i].receivedReadies
    BY <2>2
  <2>4. Kept(i, m)'
    BY <2>1, <2>3 DEF Kept
  <2>5. \A j \in Correct :
          /\ tracking[j].receivedEchoes \subseteq tracking'[j].receivedEchoes
          /\ tracking[j].receivedReadies \subseteq tracking'[j].receivedReadies
    BY <2>2
  <2> QED BY <1>1, <2>1, <2>4, <2>5
<1>6. CASE QueueMessage(i, m, queue, net)
  <2>1. pending' = [pending EXCEPT ![i] = Enqueue(queue, m)] /\ m.type # "Send"
          /\ inflight' = net /\ tracking' = tracking
    BY <1>6 DEF QueueMessage
  <2>2. pending'[i] = Enqueue(queue, m) /\ \A j \in Correct \ {i} : pending'[j] = pending[j]
    BY <1>1, <2>1
  <2>3. Kept(i, m)'
    BY <2>1, <2>2, EnqueueOccurs DEF Kept, Occurs
  <2> QED BY <2>1, <2>2, <2>3, EnqueueOccurs
<1> QED BY <1>3, <1>4, <1>5, <1>6 DEF ProcessMessage

\* The votes a step adds are broadcast to every member.
LEMMA NewVotesBroadcast ==
  ASSUME TypeOK, PhaseInv, NEW i \in Correct, NEW m \in Messages, NEW queue, NEW net,
         ProcessMessage(i, m, queue, net), NEW j \in Correct
  PROVE  /\ proposed'[j] # None =>
              \/ proposed'[j] = proposed[j]
              \/ \A k \in Correct : Echo(j, proposed'[j]) \in inflight'[k]
         /\ j \in ReadySent(proposed[j])' =>
              \/ j \in ReadySent(proposed[j]) /\ proposed'[j] = proposed[j]
              \/ \A k \in Correct : Ready(j, proposed'[j]) \in inflight'[k]
<1>1. CASE ReceiveSend(i, m, queue, net)
  <2>1. /\ \A k \in Correct : inflight'[k] = net[k] \cup {Echo(i, m.digest)}
        /\ \A k \in Correct : /\ proposed'[k] = IF k = i THEN m.digest ELSE proposed[k]
                              /\ rbState'[k] = IF k = i THEN "Proposed" ELSE rbState[k]
    BY <1>1 DEF ReceiveSend, Broadcast, TypeOK
  <2> QED BY <2>1 DEF ReadySent
<1>2. CASE ReceiveEcho(i, m, queue, net)
  <2> DEFINE reached == EchoQuorum(tracking[i].receivedEchoes \cup {m.from}) /\ ~tracking[i].sentEcho
  <2>1. /\ proposed' = proposed /\ proposed[i] = m.digest
        /\ rbState' = [rbState EXCEPT ![i] = IF reached THEN "Echoed" ELSE @]
        /\ inflight' = IF reached THEN Broadcast(net, Ready(i, m.digest)) ELSE net
    BY <1>2 DEF ReceiveEcho, AcceptsEcho
  <2> HIDE DEF reached
  <2>2. CASE reached
    <3>1. /\ \A k \in Correct : inflight'[k] = net[k] \cup {Ready(i, m.digest)}
          /\ \A k \in Correct : k # i => rbState'[k] = rbState[k]
      BY <2>1, <2>2 DEF Broadcast, TypeOK
    <3> QED BY <2>1, <3>1 DEF ReadySent
  <2>3. CASE ~reached
    <3>1. rbState' = rbState
      BY <2>1, <2>3 DEF TypeOK
    <3> QED BY <2>1, <3>1 DEF ReadySent
  <2> QED BY <2>2, <2>3
<1>3. CASE ReceiveReady(i, m, queue, net)
  <2>1. /\ proposed' = proposed /\ rbState[i] = "Echoed"
        /\ \A k \in Correct : k # i => rbState'[k] = rbState[k]
    BY <1>3 DEF ReceiveReady, AcceptsReady, TypeOK
  <2> QED BY <2>1 DEF ReadySent
<1>4. CASE IgnoreSend(i, m, queue, net) \/ QueueMessage(i, m, queue, net)
  <2>1. proposed' = proposed /\ rbState' = rbState
    BY <1>4 DEF IgnoreSend, QueueMessage
  <2> QED BY <2>1 DEF ReadySent
<1> QED BY <1>1, <1>2, <1>3, <1>4 DEF ProcessMessage

\* A handler that finds at hand what its member was keeping loses no vote.
LEMMA HandlerLosesNothing ==
  ASSUME IndInv, NothingLost, NEW i \in Correct, output[i] = None, NEW m \in Messages,
         NEW queue \in QueueSpace, NEW net \in [Correct -> SUBSET Messages],
         \A j \in Correct \ {i} : net[j] = inflight[j],
         \A x : Kept(i, x) => AtHand(i, x, m, queue, net),
         ProcessMessage(i, m, queue, net), UNCHANGED output
  PROVE  NothingLost'
<1>1. TypeOK /\ PhaseInv
  BY DEF IndInv
<1>2. ASSUME NEW k \in Correct, NEW x, x.type # "Send", Kept(k, x)
      PROVE  Kept(k, x)'
  <2>1. CASE k = i
    <3>1. AtHand(i, x, m, queue, net)
      BY <1>2, <2>1
    <3>2. CASE x = m
      BY <1>1, <1>2, <2>1, <3>2, HandlerKeeps
    <3>3. CASE x \in net[i]
      BY <1>1, <2>1, <3>3, HandlerKeeps DEF Kept
    <3>4. CASE Occurs(queue.echoes, x) \/ Occurs(queue.readies, x)
      <4>1. Occurs(pending'[i].echoes, x) \/ Occurs(pending'[i].readies, x)
        BY <1>1, <3>4, HandlerKeeps
      <4> QED BY <2>1, <4>1 DEF Kept, Occurs
    <3>5. CASE \/ x.type = "Echo"  /\ x.from \in tracking[i].receivedEchoes
               \/ x.type = "Ready" /\ x.from \in tracking[i].receivedReadies
      BY <1>1, <2>1, <3>5, HandlerKeeps DEF Kept
    <3> QED BY <3>1, <3>2, <3>3, <3>4, <3>5 DEF AtHand
  <2>2. CASE k # i
    BY <1>1, <1>2, <2>2, HandlerKeeps DEF Kept
  <2> QED BY <2>1, <2>2
<1>3. ASSUME NEW k \in Correct, NEW j \in Correct, output[k] = None, proposed'[j] # None
      PROVE  Kept(k, Echo(j, proposed[j]))'
  <2>1. PICK x : x = Echo(j, proposed'[j])
    OBVIOUS
  <2>2. x.type # "Send"
    BY <2>1 DEF Echo
  <2>3. Kept(k, x)'
    <3>1. CASE proposed'[j] = proposed[j]
      <4>1. Kept(k, x)
        BY <1>3, <2>1, <3>1 DEF NothingLost
      <4> QED BY <1>2, <2>2, <4>1
    <3>2. CASE x \in inflight'[k]
      BY <3>2 DEF Kept
    <3> QED BY <1>1, <1>3, <2>1, <3>1, <3>2, NewVotesBroadcast
  <2> QED BY <2>1, <2>3 DEF Kept
<1>4. ASSUME NEW k \in Correct, NEW j \in Correct, output[k] = None,
             j \in ReadySent(proposed[j])'
      PROVE  Kept(k, Ready(j, proposed[j]))'
  <2>1. PICK x : x = Ready(j, proposed'[j])
    OBVIOUS
  <2>2. x.type # "Send"
    BY <2>1 DEF Ready
  <2>3. Kept(k, x)'
    <3>1. CASE j \in ReadySent(proposed[j]) /\ proposed'[j] = proposed[j]
      <4>1. Kept(k, x)
        BY <1>4, <2>1, <3>1 DEF NothingLost
      <4> QED BY <1>2, <2>2, <4>1
    <3>2. CASE x \in inflight'[k]
      BY <3>2 DEF Kept
    <3> QED BY <1>1, <1>4, <2>1, <3>1, <3>2, NewVotesBroadcast
  <2> QED BY <2>1, <2>3 DEF Kept
<1> QED BY <1>3, <1>4 DEF NothingLost

LEMMA InitNothingLost == Init => NothingLost
  BY DEF Init, NothingLost, ReadySent

LEMMA NextNothingLost == IndInv /\ NothingLost /\ [Next]_vars => NothingLost'
<1> SUFFICES ASSUME IndInv, NothingLost, [Next]_vars PROVE NothingLost'
  OBVIOUS
<1>1. /\ inflight \in [Correct -> SUBSET Messages]
      /\ \A i \in Correct : pending[i] \in QueueSpace
  BY DEF IndInv, TypeOK, QueueSpace
<1>2. ASSUME NEW i \in Correct, NEW m \in inflight[i], Deliver(i, m) PROVE NothingLost'
  <2> DEFINE net == [inflight EXCEPT ![i] = @ \ {m}]
  <2>1. /\ net \in [Correct -> SUBSET Messages] /\ m \in Messages
        /\ net[i] = inflight[i] \ {m} /\ \A j \in Correct \ {i} : net[j] = inflight[j]
    BY <1>1
  <2>2. \A x : Kept(i, x) => AtHand(i, x, m, pending[i], net)
    BY <2>1 DEF Kept, AtHand, Occurs
  <2>3. output[i] = None /\ ProcessMessage(i, m, pending[i], net) /\ UNCHANGED output
    BY <1>2 DEF Deliver
  <2> HIDE DEF net
  <2> QED BY <1>1, <2>1, <2>2, <2>3, HandlerLosesNothing
<1>3. ASSUME NEW i \in Correct, NEW m \in FaultyMessages[i], DeliverFaulty(i, m) PROVE NothingLost'
  <2>1. m \in Messages
    BY <1>3, HandedIsGood DEF GoodMessage
  <2>2. \A x : Kept(i, x) => AtHand(i, x, m, pending[i], inflight)
    BY DEF Kept, AtHand, Occurs
  <2> QED BY <1>1, <1>3, <2>1, <2>2, HandlerLosesNothing DEF DeliverFaulty
<1>4. ASSUME NEW i \in Correct, PollEcho(i) PROVE NothingLost'
  <2> DEFINE echoes == pending[i].echoes
             queue  == [pending[i] EXCEPT !.echoes = Tail(@)]
  <2>1. echoes \in Seq({m \in Messages : m.type = "Echo"}) /\ echoes # <<>>
    BY <1>1, <1>4 DEF PollEcho, QueueSpace
  <2>2. Tail(echoes) \in Seq({m \in Messages : m.type = "Echo"}) /\ Head(echoes) \in Messages
    BY <2>1
  <2>3. queue \in QueueSpace /\ queue.echoes = Tail(echoes) /\ queue.readies = pending[i].readies
    BY <1>1, <2>2 DEF QueueSpace
  <2>4. \A x : Occurs(echoes, x) => x = Head(echoes) \/ Occurs(Tail(echoes), x)
    BY <2>1, TailOccurs
  <2>5. \A x : Kept(i, x) => AtHand(i, x, Head(echoes), queue, inflight)
    BY <2>3, <2>4 DEF Kept, AtHand, Occurs
  <2>6. output[i] = None /\ ProcessMessage(i, Head(echoes), queue, inflight) /\ UNCHANGED output
    BY <1>4 DEF PollEcho
  <2> HIDE DEF echoes, queue
  <2> QED BY <1>1, <2>2, <2>3, <2>5, <2>6, HandlerLosesNothing
<1>5. ASSUME NEW i \in Correct, PollReady(i) PROVE NothingLost'
  <2> DEFINE readies == pending[i].readies
             queue   == [pending[i] EXCEPT !.readies = Tail(@)]
  <2>1. readies \in Seq({m \in Messages : m.type = "Ready"}) /\ readies # <<>>
    BY <1>1, <1>5 DEF PollReady, QueueSpace
  <2>2. Tail(readies) \in Seq({m \in Messages : m.type = "Ready"}) /\ Head(readies) \in Messages
    BY <2>1
  <2>3. queue \in QueueSpace /\ queue.readies = Tail(readies) /\ queue.echoes = pending[i].echoes
    BY <1>1, <2>2 DEF QueueSpace
  <2>4. \A x : Occurs(readies, x) => x = Head(readies) \/ Occurs(Tail(readies), x)
    BY <2>1, TailOccurs
  <2>5. \A x : Kept(i, x) => AtHand(i, x, Head(readies), queue, inflight)
    BY <2>3, <2>4 DEF Kept, AtHand, Occurs
  <2>6. output[i] = None /\ ProcessMessage(i, Head(readies), queue, inflight) /\ UNCHANGED output
    BY <1>5 DEF PollReady
  <2> HIDE DEF readies, queue
  <2> QED BY <1>1, <2>2, <2>3, <2>5, <2>6, HandlerLosesNothing
<1>6. ASSUME NEW i \in Correct, Finalize(i) PROVE NothingLost'
  <2>1. \A k \in Correct : output'[k] = None => output[k] = None
    BY <1>6 DEF Finalize, IndInv, TypeOK
  <2> QED BY <1>6, <2>1 DEF Finalize, NothingLost, Kept, ReadySent
<1>7. CASE UNCHANGED vars
  BY <1>7 DEF vars, NothingLost, Kept, ReadySent
<1> QED BY <1>2, <1>3, <1>4, <1>5, <1>6, <1>7 DEF Next

\* Every vote of a correct member is in flight to, queued by or counted by each correct
\* member that has not finalized, for every membership and any order of messages.
THEOREM NoVoteIsLost == Spec => []NothingLost
<1>1. Init => NothingLost
  BY InitNothingLost
<1>2. IndInv /\ NothingLost /\ [Next]_vars => NothingLost'
  BY NextNothingLost
<1> QED BY <1>1, <1>2, Invariance, PTL DEF Spec

-----------------------------------------------------------------------------
(***************************************************************************)
(* The protocol implements the abstract broadcast.                         *)
(***************************************************************************)

LEMMA StepRefines ==
  ASSUME Agreeing, IndInv, IndInv', [Next]_vars
  PROVE  [Abstract!CBNext]_output
<1>1. CASE UNCHANGED output
  BY <1>1
<1>2. CASE UNCHANGED vars
  BY <1>2 DEF vars
<1>3. ASSUME NEW i \in Correct, Finalize(i) PROVE Abstract!CBNext
  <2>1. /\ output[i] = None /\ rbState[i] = "Ready"
        /\ output' = [output EXCEPT ![i] = Adopted(i)]
        /\ \A j \in Correct : output'[j] = IF j = i THEN Adopted(i) ELSE output[j]
    BY <1>3 DEF Finalize, IndInv, TypeOK
  <2>2. Adopted(i) \in Sent[i]
    BY <2>1 DEF IndInv, PhaseInv, OriginInv
  <2>3. Adopted(i) # None
    BY <2>2, OriginTyped, BroadcastAssumption DEF Proposals
  <2>4. Agreement'
    <3>1. (Agreeing /\ IndInv => Agreement)'
      BY InvAgreement, PTL
    <3> QED BY <3>1 DEF Agreeing, Tight, GetNForF, N, Correct
  <2>5. \A j \in Correct : output[j] = None \/ output[j].digest = Adopted(i).digest
    BY <2>1, <2>3, <2>4 DEF Agreement
  <2> QED BY <2>1, <2>2, <2>5 DEF Abstract!CBNext, Abstract!HandOut
<1>4. CASE \E i \in Correct :
             \/ \E m \in inflight[i] : Deliver(i, m)
             \/ \E m \in FaultyMessages[i] : DeliverFaulty(i, m)
             \/ PollEcho(i) \/ PollReady(i)
  BY <1>1, <1>4 DEF Deliver, DeliverFaulty, PollEcho, PollReady
<1> QED BY <1>2, <1>3, <1>4 DEF Next

\* In a quorum of 3F + 1 or of more than 5F, each correct member hands out at most
\* once, messages and a digest that were sent to it together, and never two digests.
THEOREM BroadcastRefines == Agreeing => (Spec => ImplementsBroadcast)
<1> SUFFICES ASSUME Agreeing PROVE Spec => ImplementsBroadcast
  OBVIOUS
<1>1. Init => Abstract!CBInit
  BY DEF Init, Abstract!CBInit
<1>2. IndInv /\ IndInv' /\ [Next]_vars => [Abstract!CBNext]_output
  BY StepRefines
<1> QED BY <1>1, <1>2, Invariance, PTL DEF Spec, ImplementsBroadcast, Abstract!CBSpec
=============================================================================
