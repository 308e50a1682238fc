------------------------ MODULE BroadcastProgressProofs ------------------------
(***************************************************************************)
(* The correct members of a reliable broadcast do not wait for each other  *)
(* in vain: what liveness rests on, as invariants that are proved for      *)
(* every membership.  No vote is lost (NothingLost), and a threshold that  *)
(* the counted votes reach has been acted on (ThresholdsOpen), so that a   *)
(* member can only come to rest short of a threshold, and a quorum that    *)
(* votes alike passes every threshold.                                     *)
(***************************************************************************)
EXTENDS ReliableBroadcastProofs

\* The invariant: ThresholdsOpen and SendsWait are kept on top of IndInv.
ProgressInv == IndInv /\ ThresholdsOpen /\ SendsWait

\* Fewer members than either threshold asks for.
LEMMA EmptyIsShort == ~EchoQuorum({}) /\ ~ReadyQuorum({})
<1>1. N >= 3 * F + 1 /\ F \in Nat /\ N \in Nat
  BY QuorumAssumption, FiniteParts, ToleranceFits DEF ValidQuorum, GetNForF
<1>2. Cardinality({}) = 0
  BY FS_EmptySet
<1> QED BY <1>1, <1>2 DEF EchoQuorum, ReadyQuorum, QuorumSize

\* The handler compares the votes with the threshold when it counts one, and enters
\* a phase with no vote counted for it.
LEMMA HandlerKeepsOpen ==
  ASSUME TypeOK, PhaseInv, ThresholdsOpen, NEW i \in Correct, NEW m, NEW queue, NEW net,
         ProcessMessage(i, m, queue, net)
  PROVE  ThresholdsOpen'
<1>1. CASE ReceiveSend(i, m, queue, net)
  <2>1. /\ rbState' = [rbState EXCEPT ![i] = "Proposed"] /\ tracking' = tracking
        /\ rbState[i] = "Init"
    BY <1>1 DEF ReceiveSend, AcceptsSend
  <2>2. tracking[i].receivedEchoes = {}
    BY <2>1 DEF PhaseInv
  <2> QED BY <2>1, <2>2, EmptyIsShort DEF ThresholdsOpen, TypeOK
<1>2. CASE ReceiveEcho(i, m, queue, net)
  <2> DEFINE voters  == tracking[i].receivedEchoes \cup {m.from}
             reached == EchoQuorum(voters) /\ ~tracking[i].sentEcho
  <2>1. /\ rbState[i] = "Proposed" /\ tracking[i].sentEcho = FALSE
        /\ tracking[i].receivedReadies = {}
    BY <1>2 DEF ReceiveEcho, AcceptsEcho, PhaseInv, TypeOK
  <2>2. /\ rbState' = [rbState EXCEPT ![i] = IF reached THEN "Echoed" ELSE @]
        /\ tracking'[i].receivedEchoes = voters
        /\ tracking'[i].receivedReadies = tracking[i].receivedReadies
        /\ \A j \in Correct : j # i => tracking'[j] = tracking[j]
    BY <1>2 DEF ReceiveEcho, TypeOK
  <2>3. reached <=> EchoQuorum(voters)
    BY <2>1
  <2> HIDE DEF voters, reached
  <2>4. /\ \A j \in Correct : j # i => rbState'[j] = rbState[j]
        /\ rbState'[i] = IF reached THEN "Echoed" ELSE "Proposed"
    BY <2>1, <2>2 DEF TypeOK
  <2>5. ASSUME NEW j \in Correct
        PROVE  /\ rbState'[j] = "Proposed" => ~EchoQuorum(tracking'[j].receivedEchoes)
               /\ rbState'[j] = "Echoed"   => ~ReadyQuorum(tracking'[j].receivedReadies)
    <3>1. CASE j = i
      BY <2>1, <2>2, <2>3, <2>4, <3>1, EmptyIsShort
    <3>2. CASE j # i
      BY <2>2, <2>4, <3>2 DEF ThresholdsOpen
    <3> QED BY <3>1, <3>2
  <2> QED BY <2>5 DEF ThresholdsOpen, EchoQuorum, ReadyQuorum
<1>3. CASE ReceiveReady(i, m, queue, net)
  <2> DEFINE voters  == tracking[i].receivedReadies \cup {m.from}
             reached == ReadyQuorum(voters) /\ ~tracking[i].sentReady
  <2>1. rbState[i] = "Echoed" /\ tracking[i].sentReady = FALSE
    BY <1>3 DEF ReceiveReady, AcceptsReady, PhaseInv, TypeOK
  <2>2. /\ rbState' = [rbState EXCEPT ![i] = IF reached THEN "Ready" ELSE @]
        /\ tracking'[i].receivedReadies = voters
        /\ \A j \in Correct : j # i => tracking'[j] = tracking[j]
    BY <1>3 DEF ReceiveReady, TypeOK
  <2>3. reached <=> ReadyQuorum(voters)
    BY <2>1
  <2> HIDE DEF voters, reached
  <2>4. /\ \A j \in Correct : j # i => rbState'[j] = rbState[j]
        /\ rbState'[i] = IF reached THEN "Ready" ELSE "Echoed"
    BY <2>1, <2>2 DEF TypeOK
  <2>5. ASSUME NEW j \in Correct
        PROVE  /\ rbState'[j] = "Proposed" => ~EchoQuorum(tracking'[j].receivedEchoes)
               /\ rbState'[j] = "Echoed"   => ~ReadyQuorum(tracking'[j].receivedReadies)
    <3>1. CASE j = i
      BY <2>2, <2>3, <2>4, <3>1
    <3>2. CASE j # i
      BY <2>2, <2>4, <3>2 DEF ThresholdsOpen
    <3> QED BY <3>1, <3>2
  <2> QED BY <2>5 DEF ThresholdsOpen, EchoQuorum, ReadyQuorum
<1>4. CASE IgnoreSend(i, m, queue, net) \/ QueueMessage(i, m, queue, net)
  BY <1>4 DEF IgnoreSend, QueueMessage, ThresholdsOpen, EchoQuorum, ReadyQuorum
<1> QED BY <1>1, <1>2, <1>3, <1>4 DEF ProcessMessage

\* The handler takes no SEND from the network, and no member goes back to Init.
LEMMA HandlerKeepsSends ==
  ASSUME TypeOK, NEW i \in Correct, NEW m, NEW queue, NEW net \in [Correct -> SUBSET Messages],
         ProcessMessage(i, m, queue, net)
  PROVE  /\ \A j \in Correct : net[j] \subseteq inflight'[j]
         /\ \A j \in Correct : rbState'[j] = "Init" => rbState[j] = "Init"
         /\ rbState'[i] = "Init" => ~AcceptsSend(i, m)
<1>1. CASE ReceiveSend(i, m, queue, net)
  BY <1>1 DEF ReceiveSend, Broadcast, TypeOK
<1>2. CASE ReceiveEcho(i, m, queue, net)
  <2>1. /\ rbState[i] = "Proposed" /\ m.type = "Echo"
        /\ \A j \in Correct : rbState'[j] \in {rbState[j], "Echoed"}
    BY <1>2 DEF ReceiveEcho, AcceptsEcho, TypeOK
  <2>2. \A j \in Correct : net[j] \subseteq inflight'[j]
    BY <1>2 DEF ReceiveEcho, Broadcast
  <2> QED BY <2>1, <2>2 DEF AcceptsSend
<1>3. CASE ReceiveReady(i, m, queue, net)
  <2>1. /\ m.type = "Ready" /\ inflight' = net
        /\ \A j \in Correct : rbState'[j] \in {rbState[j], "Ready"}
    BY <1>3 DEF ReceiveReady, AcceptsReady, TypeOK
  <2> QED BY <2>1 DEF AcceptsSend
<1>4. CASE IgnoreSend(i, m, queue, net) \/ QueueMessage(i, m, queue, net)
  BY <1>4 DEF IgnoreSend, QueueMessage, AcceptsSend
<1> QED BY <1>1, <1>2, <1>3, <1>4 DEF ProcessMessage

\* The SEND that was delivered moved its member out of Init.
LEMMA SendsKept ==
  ASSUME TypeOK, PhaseInv, SendsWait, NEW i \in Correct, NEW m, NEW queue,
         NEW net \in [Correct -> SUBSET Messages], ProcessMessage(i, m, queue, net),
         \A j \in Correct : inflight[j] \subseteq net[j] \cup (IF j = i THEN {m} ELSE {})
  PROVE  SendsWait'
<1> DEFINE send == Send(Sender, InputPayload, InputDigest)
<1> SUFFICES ASSUME NEW j \in Correct, Sender \in Correct, rbState'[j] = "Init"
             PROVE  send \in inflight'[j]
  BY DEF SendsWait
<1>1. rbState[j] = "Init" /\ proposed[j] = None /\ send \in inflight[j]
  BY HandlerKeepsSends DEF SendsWait, PhaseInv
<1>2. ~(j = i /\ m = send)
  BY <1>1, HandlerKeepsSends DEF AcceptsSend, Send
<1>3. send \in net[j]
  BY <1>1, <1>2
<1> QED BY <1>3, HandlerKeepsSends

LEMMA InitProgress == Init => ThresholdsOpen /\ SendsWait
  BY DEF Init, ThresholdsOpen, SendsWait

LEMMA NextProgress == ProgressInv /\ [Next]_vars => ThresholdsOpen' /\ SendsWait'
<1> SUFFICES ASSUME ProgressInv, [Next]_vars PROVE ThresholdsOpen' /\ SendsWait'
  OBVIOUS
<1> USE DEF ProgressInv
<1>1. TypeOK /\ PhaseInv /\ inflight \in [Correct -> SUBSET Messages]
  BY DEF IndInv, TypeOK
<1>2. ASSUME NEW i \in Correct, NEW m, NEW queue, NEW net \in [Correct -> SUBSET Messages],
             ProcessMessage(i, m, queue, net),
             \A j \in Correct : inflight[j] \subseteq net[j] \cup (IF j = i THEN {m} ELSE {})
      PROVE  ThresholdsOpen' /\ SendsWait'
  BY <1>1, <1>2, HandlerKeepsOpen, SendsKept
<1>3. ASSUME NEW i \in Correct, NEW m, Deliver(i, m) PROVE ThresholdsOpen' /\ SendsWait'
  <2> DEFINE net == [inflight EXCEPT ![i] = @ \ {m}]
  <2>1. /\ net \in [Correct -> SUBSET Messages]
        /\ \A j \in Correct : inflight[j] \subseteq net[j] \cup (IF j = i THEN {m} ELSE {})
    BY <1>1
  <2>2. ProcessMessage(i, m, pending[i], net)
    BY <1>3 DEF Deliver
  <2> HIDE DEF net
  <2> QED BY <1>2, <2>1, <2>2
<1>4. ASSUME NEW i \in Correct, NEW m, NEW queue, ProcessMessage(i, m, queue, inflight)
      PROVE  ThresholdsOpen' /\ SendsWait'
  BY <1>1, <1>2, <1>4
<1>5. ASSUME NEW i \in Correct, Finalize(i) PROVE ThresholdsOpen' /\ SendsWait'
  BY <1>5 DEF Finalize, ThresholdsOpen, SendsWait, EchoQuorum, ReadyQuorum
<1>6. CASE UNCHANGED vars
  BY <1>6 DEF vars, ThresholdsOpen, SendsWait, EchoQuorum, ReadyQuorum
<1> QED BY <1>3, <1>4, <1>5, <1>6 DEF Next, DeliverFaulty, PollEcho, PollReady

\* A member of the quorum always has the votes it needs, or acted on them.
THEOREM ProgressInvariance == Spec => []ProgressInv
<1>1. Init => ThresholdsOpen /\ SendsWait
  BY InitProgress
<1>2. ProgressInv /\ [Next]_vars => ThresholdsOpen' /\ SendsWait'
  BY NextProgress
<1> QED BY <1>1, <1>2, Invariance, PTL DEF Spec, ProgressInv

-----------------------------------------------------------------------------
(***************************************************************************)
(* Members at rest.                                                        *)
(***************************************************************************)

\* A member at rest has counted every vote of a correct member for its digest that
\* its phase asks for: none is lost, and one that still waited would be acceptable.
LEMMA RestCounts ==
  ASSUME NothingLost, NEW i \in Correct, AtRest(i), output[i] = None,
         proposed[i] # None
  PROVE  /\ rbState[i] = "Proposed" => Adopters(proposed[i]) \subseteq tracking[i].receivedEchoes
         /\ rbState[i] = "Echoed"   => ReadySent(proposed[i]) \subseteq tracking[i].receivedReadies
<1>1. ASSUME NEW x, Kept(i, x), Accepts(i, x)
      PROVE  \/ x.type = "Echo"  /\ x.from \in tracking[i].receivedEchoes
             \/ x.type = "Ready" /\ x.from \in tracking[i].receivedReadies
  BY <1>1 DEF Kept, AtRest
<1>2. ASSUME rbState[i] = "Proposed", NEW j \in Adopters(proposed[i])
      PROVE  j \in tracking[i].receivedEchoes
  <2> DEFINE x == Echo(j, proposed[i])
  <2>1. x.type = "Echo" /\ x.from = j /\ x.digest = proposed[i]
    BY DEF Echo
  <2>2. Kept(i, x)
    BY <1>2 DEF Adopters, NothingLost
  <2>3. Accepts(i, x)
    BY <1>2, <2>1 DEF Accepts, AcceptsEcho
  <2> HIDE DEF x
  <2> QED BY <1>1, <2>1, <2>2, <2>3
<1>3. ASSUME rbState[i] = "Echoed", NEW j \in ReadySent(proposed[i])
      PROVE  j \in tracking[i].receivedReadies
  <2> DEFINE x == Ready(j, proposed[i])
  <2>1. x.type = "Ready" /\ x.from = j /\ x.digest = proposed[i]
    BY DEF Ready
  <2>2. Kept(i, x)
    BY <1>3 DEF ReadySent, NothingLost
  <2>3. Accepts(i, x)
    BY <1>3, <2>1 DEF Accepts, AcceptsReady
  <2> HIDE DEF x
  <2> QED BY <1>1, <2>1, <2>2, <2>3
<1> QED BY <1>2, <1>3

\* A quorum that adopted one digest passes both thresholds: first nobody of it still
\* waits for ECHOs, so that all have broadcast READY, then nobody waits for READYs.
LEMMA QuorumMoves ==
  ASSUME ProgressInv, NothingLost, \A i \in Correct : AtRest(i),
         NEW d \in Digests, Cardinality(Adopters(d)) >= QuorumSize
  PROVE  \A i \in Adopters(d) : FinalizedWith(i, d)
<1>1. /\ TypeOK /\ PhaseInv /\ ThresholdsOpen /\ d # None
      /\ Adopters(d) \subseteq Correct /\ Correct \subseteq Nodes
      /\ \A i \in Adopters(d) : i \in Correct /\ proposed[i] = d
  BY BroadcastAssumption DEF ProgressInv, IndInv, Adopters, Correct
<1>2. N >= 3 * F + 1 /\ F \in Nat /\ N \in Nat /\ QuorumSize = N - F
  BY QuorumAssumption, FiniteParts, ToleranceFits DEF ValidQuorum, GetNForF, QuorumSize
<1>3. ASSUME NEW S \in SUBSET Nodes, Adopters(d) \subseteq S PROVE EchoQuorum(S) /\ ReadyQuorum(S)
  <2>1. Cardinality(Adopters(d)) <= Cardinality(S) /\ Cardinality(S) \in Nat
          /\ Cardinality(Adopters(d)) \in Nat
    BY <1>1, <1>3, FiniteParts
  <2> QED BY <1>2, <2>1 DEF EchoQuorum, ReadyQuorum
<1>4. \A i \in Correct : /\ tracking[i].receivedEchoes \in SUBSET Nodes
                         /\ tracking[i].receivedReadies \in SUBSET Nodes
                         /\ rbState[i] \in States
  BY <1>1 DEF TypeOK
<1>5. ASSUME NEW i \in Adopters(d), output[i] = None
      PROVE  rbState[i] # "Proposed" /\ rbState[i] # "Ready"
  BY <1>1, <1>3, <1>4, <1>5, RestCounts DEF ThresholdsOpen, AtRest
<1>6. ASSUME NEW i \in Adopters(d) PROVE i \in ReadySent(d)
  BY <1>1, <1>4, <1>5 DEF PhaseInv, ReadySent, States
<1>7. ASSUME NEW i \in Adopters(d), output[i] = None PROVE FALSE
  <2>1. rbState[i] = "Echoed"
    BY <1>1, <1>4, <1>5, <1>7 DEF PhaseInv, States
  <2>2. Adopters(d) \subseteq tracking[i].receivedReadies
    BY <1>1, <1>6, <1>7, <2>1, RestCounts
  <2> QED BY <1>1, <1>3, <1>4, <2>1, <2>2 DEF ThresholdsOpen
<1>8. ASSUME NEW i \in Adopters(d) PROVE FinalizedWith(i, d)
  <2>1. i \in Correct /\ proposed[i] = d /\ output[i] # None
    BY <1>1, <1>7
  <2>2. output[i] = Adopted(i)
    BY <1>1, <2>1 DEF PhaseInv
  <2>3. output[i].digest = d
    BY <2>1, <2>2 DEF Adopted, Proposal
  <2> QED BY <2>1, <2>3 DEF FinalizedWith
<1> QED BY <1>8

\* In every quorum, and whatever the faulty members send: members that come to rest
\* after a quorum adopted one digest have finalized it.
THEOREM QuorumIsNotStuck == Spec => []QuorumNotStuck
<1>1. ProgressInv /\ NothingLost => QuorumNotStuck
  BY QuorumMoves DEF QuorumNotStuck
<1> QED BY <1>1, ProgressInvariance, NoVoteIsLost, PTL

\* In every quorum, a broadcast of a correct sender only comes to rest when every correct
\* member has finalized its digest, or one has adopted another that was sent to it.
THEOREM ProposerIsNotStuck == Spec => []ProposerNotStuck
<1>1. ProgressInv /\ NothingLost => ProposerNotStuck
  <2> SUFFICES ASSUME ProgressInv, NothingLost, Sender \in Correct,
                      \A i \in Correct : AtRest(i),
                      ~ \E i \in Correct : proposed[i] \notin {None, InputDigest}
               PROVE  \A i \in Correct : FinalizedWith(i, InputDigest)
    BY DEF ProposerNotStuck
  <2>1. ASSUME NEW i \in Correct PROVE proposed[i] = InputDigest
    <3>1. proposed[i] = None => rbState[i] = "Init" /\ output[i] = None
      BY BroadcastAssumption DEF ProgressInv, IndInv, PhaseInv
    <3>2. rbState[i] = "Init" => Send(Sender, InputPayload, InputDigest) \in inflight[i]
      BY DEF ProgressInv, SendsWait
    <3>3. proposed[i] # None
      BY <3>1, <3>2 DEF AtRest, Accepts, AcceptsSend, Send
    <3> QED BY <3>3
  <2>2. Adopters(InputDigest) = Correct
    BY <2>1 DEF Adopters
  <2>3. Cardinality(Correct) >= QuorumSize
    <3>1. Cardinality(Nodes \ Faulty) = Cardinality(Nodes) - Cardinality(Nodes \cap Faulty)
      BY QuorumAssumption, FS_Difference
    <3>2. Nodes \cap Faulty = Faulty /\ Cardinality(Faulty) \in Nat
      BY FaultAssumption, FiniteParts
    <3> QED BY <3>1, <3>2, FiniteParts, FaultAssumption, QuorumAssumption DEF Correct, QuorumSize, N
  <2>4. InputDigest \in Digests
    BY BroadcastAssumption
  <2> QED BY <2>2, <2>3, <2>4, QuorumMoves
<1> QED BY <1>1, ProgressInvariance, NoVoteIsLost, PTL
=============================================================================
