------------------------ MODULE AgreementProgressProofs ------------------------
(***************************************************************************)
(* The replicas of a binary agreement do not wait for each other in vain   *)
(* where the protocol can end at all, whoever is faulty and whatever the   *)
(* other members send: every threshold that is reached is acted on, a      *)
(* replica that runs has cast the votes its phase says, and a replica that *)
(* voted for what the coin shows does not leave the round.                 *)
(***************************************************************************)
EXTENDS AsyncBinaryAgreementProofs

-----------------------------------------------------------------------------
(***************************************************************************)
(* What accepting a vote makes of a round whose thresholds were acted on.  *)
(***************************************************************************)

\* The phase moves on, with the result that makes the replica broadcast the vote of
\* the phase left.
Moves(rd, o) ==
  \/ /\ rd.state = "CollectingVal" /\ o.data.state = "CollectingAux"
     /\ o.result = "BroadcastAux"
  \/ /\ rd.state = "CollectingAux" /\ o.data.state = "CollectingConf"
     /\ o.result = "BroadcastConf" /\ o.data.valuesR = rd.valuesR
  \/ /\ rd.state = "CollectingConf" /\ o.data.state = "Finishing"
     /\ o.result = "BroadcastFinalized" /\ o.data.valuesR = rd.valuesR

OpenOutcome(rd, o) ==
  /\ RoundOpen(o.data)
  /\ \/ o.data.state = rd.state /\ o.data.valuesR = rd.valuesR
     \/ Moves(rd, o) /\ o.values = o.data.valuesR
  /\ \A b \in Bits : MoreThan(2 * F, o.data.receivedFinish[b]) =>
       MoreThan(2 * F, rd.receivedFinish[b]) \/ (o.result = "Finalized" /\ b \in o.values)

\* What makes a replica leave its round: a quorum of CONFs it can follow, and a coin
\* that shows something else.
LeavesOnCoin(rd, m, flip) ==
  /\ rd.state = "CollectingConf" /\ m.type = "Conf"
  /\ ElementsOf(m.vec) \subseteq rd.valuesR /\ m.vec # <<flip>>

LEMMA NobodyIsNoQuorum == ~MoreThan(2 * F, {})
  BY QuorumAssumption, FS_EmptySet DEF MoreThan

LEMMA FreshRound ==
  ASSUME NEW estimate
  PROVE  LET rd == NewRound(estimate) IN
         /\ rd.state = "CollectingVal" /\ rd.valuesR = {} /\ rd.broadcastFinish = {}
         /\ \A b \in Bits : rd.receivedVals[b] = {} /\ rd.receivedFinish[b] = {}
         /\ \A v \in Vectors : rd.receivedAux[v] = {} /\ rd.receivedConf[v] = {}
  BY DEF NewRound

LEMMA FreshIsOpen ==
  ASSUME NEW estimate
  PROVE  RoundOpen(NewRound(estimate))
  BY FreshRound, NobodyIsNoQuorum DEF RoundOpen

LEMMA OpenVal ==
  ASSUME NEW rd \in RoundData, RoundOpen(rd), NEW j \in Nodes, NEW b \in Bits
  PROVE  OpenOutcome(rd, AcceptEstimate(rd, j, b))
<1> DEFINE o       == AcceptEstimate(rd, j, b)
           voters  == rd.receivedVals[b] \cup {j}
           counted == [rd EXCEPT !.receivedVals[b] = voters]
<1>1. /\ counted \in RoundData
      /\ counted.receivedVals = [rd.receivedVals EXCEPT ![b] = voters]
      /\ counted.receivedAux = rd.receivedAux /\ counted.receivedConf = rd.receivedConf
      /\ counted.receivedFinish = rd.receivedFinish
      /\ counted.broadcastFinish = rd.broadcastFinish
      /\ counted.valuesR = rd.valuesR /\ counted.state = rd.state
  BY DEF RoundData
<1>2. CASE ~CountsVals(rd) \/ j \in rd.receivedVals[b]
  <2>1. o.data = rd
    BY <1>2 DEF AcceptEstimate, Outcome
  <2> HIDE DEF o
  <2> QED BY <2>1 DEF OpenOutcome, o
<1>3. CASE CountsVals(rd) /\ j \notin rd.receivedVals[b]
  <2>1. rd.state = "CollectingVal"
    BY <1>3 DEF CountsVals
  <2>2. CASE MoreThan(2 * F, voters)
    <3> DEFINE left == [counted EXCEPT !.valuesR = @ \cup {b}, !.state = "CollectingAux"]
    <3>1. o.data = left /\ o.values = rd.valuesR \cup {b} /\ o.result = "BroadcastAux"
      BY <1>3, <2>2 DEF AcceptEstimate, Outcome, LeaveVal
    <3>2. /\ left.valuesR = rd.valuesR \cup {b} /\ left.state = "CollectingAux"
          /\ left.receivedAux = rd.receivedAux /\ left.receivedConf = rd.receivedConf
          /\ left.receivedFinish = rd.receivedFinish
          /\ left.broadcastFinish = rd.broadcastFinish
      <4> HIDE DEF counted
      <4> QED BY <1>1 DEF RoundData
    <3> HIDE DEF o, left, counted, voters
    <3>3. left.valuesR = {b}
      BY <2>1, <3>2 DEF RoundOpen
    <3>4. RoundOpen(left)
      BY <2>1, <3>2, <3>3, NobodyIsNoQuorum DEF RoundOpen
    <3> QED BY <2>1, <3>1, <3>2, <3>4 DEF OpenOutcome, Moves, o
  <2>3. CASE ~MoreThan(2 * F, voters)
    <3>1. PICK d : /\ o.data = d
                   /\ d.receivedVals = counted.receivedVals /\ d.receivedAux = rd.receivedAux
                   /\ d.receivedConf = rd.receivedConf /\ d.receivedFinish = rd.receivedFinish
                   /\ d.broadcastFinish = rd.broadcastFinish
                   /\ d.valuesR = rd.valuesR /\ d.state = rd.state
      <4> DEFINE repeated == [counted EXCEPT !.broadcastEstimates = @ \cup {b}]
      <4>1. o.data \in {counted, repeated}
        BY <1>3, <2>3 DEF AcceptEstimate, Outcome
      <4> HIDE DEF o, counted
      <4> QED BY <1>1, <4>1 DEF RoundData
    <3>2. \A c \in Bits : d.receivedVals[c] = IF c = b THEN voters ELSE rd.receivedVals[c]
      BY <1>1, <3>1, RoundFields
    <3> HIDE DEF o, counted, voters
    <3>3. RoundOpen(d)
      BY <2>1, <2>3, <3>1, <3>2 DEF RoundOpen
    <3> QED BY <2>1, <3>1, <3>3 DEF OpenOutcome, o
  <2> QED BY <2>2, <2>3
<1> QED BY <1>2, <1>3

LEMMA OpenAux ==
  ASSUME NEW rd \in RoundData, RoundOpen(rd), NEW j \in Nodes, NEW vec \in Vectors,
         AcceptAuxiliary(rd, j, vec).result # "Queue"
  PROVE  OpenOutcome(rd, AcceptAuxiliary(rd, j, vec))
<1> DEFINE o       == AcceptAuxiliary(rd, j, vec)
           voters  == rd.receivedAux[vec] \cup {j}
           counted == [rd EXCEPT !.receivedAux[vec] = voters]
<1>1. /\ counted \in RoundData
      /\ counted.receivedAux = [rd.receivedAux EXCEPT ![vec] = voters]
      /\ counted.receivedVals = rd.receivedVals /\ counted.receivedConf = rd.receivedConf
      /\ counted.receivedFinish = rd.receivedFinish
      /\ counted.broadcastFinish = rd.broadcastFinish
      /\ counted.valuesR = rd.valuesR /\ counted.state = rd.state
  BY DEF RoundData
<1>2. rd.state \in AgreementStates /\ rd.state # "CollectingVal"
  BY RoundFields DEF AcceptAuxiliary, Outcome
<1>3. CASE rd.state # "CollectingAux" \/ j \in rd.receivedAux[vec]
  <2>1. o.data = rd
    BY <1>2, <1>3 DEF AcceptAuxiliary, Outcome, AgreementStates
  <2> HIDE DEF o
  <2> QED BY <2>1 DEF OpenOutcome, o
<1>4. CASE rd.state = "CollectingAux" /\ j \notin rd.receivedAux[vec]
  <2>1. CASE MoreThan(2 * F, voters) /\ ElementsOf(vec) \subseteq rd.valuesR
    <3> DEFINE left == [counted EXCEPT !.state = "CollectingConf"]
    <3>1. o.data = left /\ o.values = rd.valuesR /\ o.result = "BroadcastConf"
      BY <1>4, <2>1 DEF AcceptAuxiliary, Outcome
    <3>2. /\ left.valuesR = rd.valuesR /\ left.state = "CollectingConf"
          /\ left.receivedConf = rd.receivedConf /\ left.receivedFinish = rd.receivedFinish
          /\ left.broadcastFinish = rd.broadcastFinish
      <4> HIDE DEF counted
      <4> QED BY <1>1 DEF RoundData
    <3> HIDE DEF o, left, counted, voters
    <3>3. RoundOpen(left)
      BY <1>4, <3>2, NobodyIsNoQuorum DEF RoundOpen
    <3> QED BY <1>4, <3>1, <3>2, <3>3 DEF OpenOutcome, Moves, o
  <2>2. CASE ~(MoreThan(2 * F, voters) /\ ElementsOf(vec) \subseteq rd.valuesR)
    <3>1. o.data = counted
      BY <1>4, <2>2 DEF AcceptAuxiliary, Outcome
    <3>2. \A v \in Vectors : counted.receivedAux[v] = IF v = vec THEN voters ELSE rd.receivedAux[v]
      BY <1>1, RoundFields
    <3> HIDE DEF o, counted, voters
    <3>3. RoundOpen(counted)
      BY <1>1, <1>4, <2>2, <3>2 DEF RoundOpen
    <3> QED BY <1>1, <3>1, <3>3 DEF OpenOutcome, o
  <2> QED BY <2>1, <2>2
<1> QED BY <1>3, <1>4

LEMMA OpenConf ==
  ASSUME NEW rd \in RoundData, RoundOpen(rd), NEW m \in Messages, m.type = "Conf", NEW flip,
         AcceptConfirmation(rd, m.from, m.vec, flip).result # "Queue"
  PROVE  LET o == AcceptConfirmation(rd, m.from, m.vec, flip) IN
         IF o.result = "Failed" THEN LeavesOnCoin(rd, m, flip) ELSE OpenOutcome(rd, o)
<1> DEFINE vec     == m.vec
           o       == AcceptConfirmation(rd, m.from, vec, flip)
           voters  == rd.receivedConf[vec] \cup {m.from}
           counted == [rd EXCEPT !.receivedConf[vec] = voters]
<1>0. vec \in Vectors /\ m.from \in Nodes
  BY MessageFields
<1>1. /\ counted \in RoundData
      /\ counted.receivedConf = [rd.receivedConf EXCEPT ![vec] = voters]
      /\ counted.receivedVals = rd.receivedVals /\ counted.receivedAux = rd.receivedAux
      /\ counted.receivedFinish = rd.receivedFinish
      /\ counted.broadcastFinish = rd.broadcastFinish
      /\ counted.valuesR = rd.valuesR /\ counted.state = rd.state
  BY <1>0 DEF RoundData
<1>2. rd.state \in {"CollectingConf", "Finishing"}
  BY RoundFields DEF AcceptConfirmation, Outcome, AgreementStates
<1>3. CASE rd.state = "Finishing" \/ m.from \in rd.receivedConf[vec]
  <2>1. o.data = rd /\ o.result \in {"Ignored", "AlreadyAccepted"}
    BY <1>2, <1>3 DEF AcceptConfirmation, Outcome
  <2> HIDE DEF o
  <2> QED BY <2>1 DEF OpenOutcome, o
<1>4. CASE rd.state = "CollectingConf" /\ m.from \notin rd.receivedConf[vec]
  <2>1. CASE MoreThan(2 * F, voters) /\ ElementsOf(vec) \subseteq rd.valuesR /\ vec = <<flip>>
    <3> DEFINE left == EnterFinishing(counted, flip)
    <3>1. rd.broadcastFinish = {}
      BY <1>4 DEF RoundOpen
    <3>2. o.data = left /\ o.values = {flip} /\ o.result = "BroadcastFinalized"
      BY <1>1, <1>4, <2>1, <3>1 DEF AcceptConfirmation, PerformCoinFlip, Outcome
    <3>3. /\ left.valuesR = rd.valuesR /\ left.state = "Finishing"
          /\ left.receivedFinish = rd.receivedFinish
      <4> HIDE DEF counted
      <4> QED BY <1>1 DEF RoundData, EnterFinishing
    <3>4. rd.valuesR = {flip}
      <4>1. flip \in ElementsOf(vec)
        BY <2>1 DEF ElementsOf
      <4> QED BY <1>4, <2>1, <4>1 DEF RoundOpen
    <3> HIDE DEF o, left, counted, voters
    <3>5. RoundOpen(left)
      BY <1>4, <3>3 DEF RoundOpen
    <3> QED BY <1>4, <3>2, <3>3, <3>4, <3>5 DEF OpenOutcome, Moves, o
  <2>2. CASE MoreThan(2 * F, voters) /\ ElementsOf(vec) \subseteq rd.valuesR /\ vec # <<flip>>
    <3>1. o.result = "Failed"
      BY <1>4, <2>2 DEF AcceptConfirmation, PerformCoinFlip, Outcome
    <3> QED BY <1>4, <2>2, <3>1 DEF LeavesOnCoin
  <2>3. CASE ~(MoreThan(2 * F, voters) /\ ElementsOf(vec) \subseteq rd.valuesR)
    <3>1. o.data = counted /\ o.result = "Accepted"
      BY <1>4, <2>3 DEF AcceptConfirmation, Outcome
    <3>2. \A v \in Vectors : counted.receivedConf[v] = IF v = vec THEN voters ELSE rd.receivedConf[v]
      BY <1>0, <1>1, RoundFields
    <3> HIDE DEF o, counted, voters
    <3>3. RoundOpen(counted)
      BY <1>1, <1>4, <2>3, <3>2 DEF RoundOpen
    <3> QED BY <1>1, <3>1, <3>3 DEF OpenOutcome, o
  <2> QED BY <2>1, <2>2, <2>3
<1> QED BY <1>2, <1>3, <1>4

LEMMA OpenFinish ==
  ASSUME NEW rd \in RoundData, RoundOpen(rd), NEW j \in Nodes, NEW b \in Bits,
         AcceptFinish(rd, j, b).result # "Queue"
  PROVE  OpenOutcome(rd, AcceptFinish(rd, j, b))
<1> DEFINE o       == AcceptFinish(rd, j, b)
           voters  == rd.receivedFinish[b] \cup {j}
           counted == [rd EXCEPT !.receivedFinish[b] = voters]
<1>1. /\ counted \in RoundData
      /\ counted.receivedFinish = [rd.receivedFinish EXCEPT ![b] = voters]
      /\ counted.valuesR = rd.valuesR /\ counted.state = rd.state
  BY DEF RoundData
<1>2. rd.state = "Finishing"
  BY DEF AcceptFinish, Outcome
<1>3. CASE j \in rd.receivedFinish[b]
  <2>1. o.data = rd
    BY <1>2, <1>3 DEF AcceptFinish, Outcome
  <2> HIDE DEF o
  <2> QED BY <2>1 DEF OpenOutcome, o
<1>4. CASE j \notin rd.receivedFinish[b]
  <2>1. PICK d : /\ o.data = d /\ d.receivedFinish = counted.receivedFinish
                 /\ d.valuesR = rd.valuesR /\ d.state = rd.state
    <3> DEFINE repeated == [counted EXCEPT !.broadcastFinish = @ \cup {b}]
    <3>1. o.data \in {counted, repeated}
      BY <1>2, <1>4 DEF AcceptFinish, Outcome
    <3>2. /\ repeated.receivedFinish = counted.receivedFinish
          /\ repeated.valuesR = counted.valuesR /\ repeated.state = counted.state
      BY <1>1 DEF RoundData
    <3>3. counted.valuesR = rd.valuesR /\ counted.state = rd.state
      BY DEF RoundData
    <3> HIDE DEF o, counted, repeated
    <3> QED BY <3>1, <3>2, <3>3
  <2>2. MoreThan(2 * F, voters) => o.result = "Finalized" /\ o.values = {b}
    BY <1>2, <1>4 DEF AcceptFinish, Outcome, Decides
  <2>3. \A c \in Bits : d.receivedFinish[c] = IF c = b THEN voters ELSE rd.receivedFinish[c]
    BY <1>1, <2>1, RoundFields
  <2> HIDE DEF o, counted, voters
  <2>4. RoundOpen(d)
    BY <1>2, <2>1 DEF RoundOpen
  <2> QED BY <2>1, <2>2, <2>3, <2>4 DEF OpenOutcome, o
<1> QED BY <1>3, <1>4

\* Accepting any vote that is not queued.
LEMMA OpenAccept ==
  ASSUME NEW i \in Replicas, current[i] \in RoundData, RoundOpen(current[i]),
         NEW m \in Messages, OneBit(m), NEW flip, Accept(i, m, flip).result # "Queue"
  PROVE  LET o == Accept(i, m, flip) IN
         IF o.result = "Failed" THEN LeavesOnCoin(current[i], m, flip)
                                ELSE OpenOutcome(current[i], o)
<1>1. m.type \in {"Val", "Aux", "Conf", "Finish"} /\ m.from \in Nodes /\ m.vec \in Vectors
  BY MessageFields
<1>2. CASE m.type = "Val"
  <2>1. m.vec[1] \in Bits
    BY <1>2, OneBitVector
  <2> QED BY <1>1, <1>2, <2>1, OpenVal, ValAccepted DEF Accept
<1>3. CASE m.type = "Aux"
  BY <1>1, <1>3, OpenAux, AuxAccepted DEF Accept
<1>4. CASE m.type = "Conf"
  BY <1>4, OpenConf DEF Accept
<1>5. CASE m.type = "Finish"
  <2>1. m.vec[1] \in Bits
    BY <1>5, OneBitVector
  <2> QED BY <1>1, <1>5, <2>1, OpenFinish, FinishAccepted DEF Accept
<1> QED BY <1>1, <1>2, <1>3, <1>4, <1>5

-----------------------------------------------------------------------------
(***************************************************************************)
(* The invariant, and the shape of a step it is kept by.                   *)
(***************************************************************************)

\* An AUX and a CONF carry the one value of their sender's values_r.
SingleVotes ==
  \A m \in sent : m.type \in {"Aux", "Conf"} =>
    \E b \in Bits : /\ m.vec = <<b>>
                    /\ m.round = round[m.from] => current[m.from].valuesR = {b}

\* Where nobody else sends shares, only replicas are counted for the coin.
OwnShares ==
  \A i \in Replicas : Unspoiled(i, round[i]) =>
    \A v \in Vectors : current[i].receivedConf[v] \subseteq Replicas

ProgressInv ==
  /\ BaseInv /\ ThresholdsActedOn /\ VotesCast /\ CoinKeepsVoters
  /\ SingleVotes /\ OwnShares

\* The vote that a replica casts when it goes on from one phase to the next.
NextVote(old, new, type) ==
  \/ old = "CollectingVal"  /\ new = "CollectingAux"  /\ type = "Aux"
  \/ old = "CollectingAux"  /\ new = "CollectingConf" /\ type = "Conf"
  \/ old = "CollectingConf" /\ new = "Finishing"      /\ type = "Finish"

\* A replica that runs after a step ran before it.
NoneRecovers == \A j \in Replicas : panicked[j] => panicked'[j]

\* Replica i counts m, and casts the vote of the phase it leaves or panics.
OpenStep(i, m, d) ==
  /\ m.round = round[i] /\ round' = round
  /\ current' = [current EXCEPT ![i] = d] /\ RoundOpen(d)
  /\ \A v \in Vectors : VotersWith(current[i].receivedConf[v], d.receivedConf[v], m, "Conf", v)
  /\ sent \subseteq sent'
  /\ \A x \in sent' \ sent :
       /\ x.from = i /\ x.round = round[i]
       /\ x.type \in {"Aux", "Conf"} => d.state # "CollectingVal" /\ x.vec \in Orderings(d.valuesR)
  /\ \/ d.state = current[i].state /\ d.valuesR = current[i].valuesR
     \/ \E type \in {"Aux", "Conf", "Finish"} :
          /\ NextVote(current[i].state, d.state, type)
          /\ type = "Aux" \/ d.valuesR = current[i].valuesR
          /\ \/ panicked'[i]
             \/ \E vec \in Orderings(d.valuesR) : Message(type, i, round[i], vec) \in sent'
  /\ \A b \in Bits : MoreThan(2 * F, d.receivedFinish[b]) =>
       MoreThan(2 * F, current[i].receivedFinish[b]) \/ b \in decided'[i]
  /\ \A j \in Replicas : decided[j] \subseteq decided'[j]

\* Replica i leaves the round because the coin shows something else.
LeaveOpen(i, m, e) ==
  /\ m.round = round[i] /\ round' = [round EXCEPT ![i] = @ + 1]
  /\ current' = [current EXCEPT ![i] = NewRound(e)]
  /\ UNCHANGED <<sent, decided>>
  /\ \E flip \in CoinOutcomes(i, m) : LeavesOnCoin(current[i], m, flip)

ProgressStep(i) ==
  /\ NoneRecovers /\ UNCHANGED coin
  /\ \/ Idles
     \/ SaysEstimate(i)
     \/ \E m \in sent \cup EnvMessages[i] :
          (\E d : OpenStep(i, m, d)) \/ (\E e : LeaveOpen(i, m, e))

LEMMA ProcessIsProgress ==
  ASSUME TypeOK, NEW i \in Replicas, RoundOpen(current[i]), NEW m \in Messages, OneBit(m),
         NEW queue, ProcessMessage(i, m, queue)
  PROVE  /\ NoneRecovers
         /\ Idles \/ (\E d : OpenStep(i, m, d)) \/ (\E e : LeaveOpen(i, m, e))
<1>1. /\ current[i] \in RoundData /\ current \in [Replicas -> RoundData]
      /\ decided \in [Replicas -> SUBSET Bits] /\ panicked \in [Replicas -> BOOLEAN]
  BY DEF TypeOK
<1>2. CASE QueueFuture(i, m, queue) \/ IgnorePast(i, m, queue)
  BY <1>2 DEF QueueFuture, IgnorePast, Idles, NoneRecovers
<1>3. ASSUME NEW flip \in CoinOutcomes(i, m),
             \/ Count(i, m, queue, flip) \/ QueueCurrent(i, m, queue, flip)
             \/ Reply(i, m, queue, flip) \/ AdvanceRound(i, m, queue, flip)
             \/ Decide(i, m, queue, flip)
      PROVE  /\ NoneRecovers
             /\ Idles \/ (\E d : OpenStep(i, m, d)) \/ (\E e : LeaveOpen(i, m, e))
  <2> DEFINE o == Accept(i, m, flip)
             Same == o.data.state = current[i].state /\ o.data.valuesR = current[i].valuesR
  <2>1. GoodOutcome(current[i], m, o)
    BY <1>1, CoinIsBitOrNone, GoodAccept
  <2>2. o.result # "Queue" =>
          IF o.result = "Failed" THEN LeavesOnCoin(current[i], m, flip)
                                 ELSE OpenOutcome(current[i], o)
    BY <1>1, OpenAccept
  <2>3. o.result \notin {"Queue", "Failed"} =>
          /\ RoundOpen(o.data)
          /\ \A v \in Vectors :
               VotersWith(current[i].receivedConf[v], o.data.receivedConf[v], m, "Conf", v)
          /\ Same \/ (Moves(current[i], o) /\ o.values = o.data.valuesR)
    BY <2>1, <2>2 DEF OpenOutcome, GoodOutcome, CountsOne
  <2> HIDE DEF o
  <2>4. CASE QueueCurrent(i, m, queue, flip)
    BY <2>4 DEF QueueCurrent, Idles, NoneRecovers
  <2>5. CASE Count(i, m, queue, flip)
    <3>1. /\ m.round = round[i] /\ o.result \in {"Ignored", "AlreadyAccepted", "Accepted"}
          /\ current' = [current EXCEPT ![i] = o.data]
          /\ UNCHANGED <<round, panicked, decided, sent>>
      BY <2>5 DEF Count, o
    <3>2. \A b \in Bits : MoreThan(2 * F, o.data.receivedFinish[b]) =>
            MoreThan(2 * F, current[i].receivedFinish[b])
      BY <2>2, <3>1 DEF OpenOutcome
    <3>3. Same
      BY <2>3, <3>1 DEF Moves
    <3>4. OpenStep(i, m, o.data)
      BY <2>3, <3>1, <3>2, <3>3 DEF OpenStep
    <3> QED BY <3>1, <3>4 DEF NoneRecovers
  <2>6. CASE Reply(i, m, queue, flip)
    <3> DEFINE type == ReplyType(o.result)
    <3>1. /\ m.round = round[i] /\ UNCHANGED <<round, decided>>
          /\ o.result \in {"BroadcastEst", "BroadcastAux", "BroadcastConf", "BroadcastFinalized"}
          /\ current' = [current EXCEPT ![i] = o.data]
          /\ \/ /\ \E vec \in Orderings(o.values) : sent' = sent \cup {Message(type, i, round[i], vec)}
                /\ UNCHANGED panicked
             \/ panicked' = [panicked EXCEPT ![i] = TRUE] /\ UNCHANGED sent
      BY <2>6 DEF Reply, UnwrapNetworkError, o
    <3>2. \A b \in Bits : MoreThan(2 * F, o.data.receivedFinish[b]) =>
            MoreThan(2 * F, current[i].receivedFinish[b])
      BY <2>2, <3>1 DEF OpenOutcome
    <3>3. type \in {"Aux", "Conf"} => o.values = o.data.valuesR /\ o.data.state # "CollectingVal"
      <4>1. ReplyReason(current[i], o.data, m, type, o.values)
        BY <2>1, <3>1 DEF GoodOutcome
      <4> QED BY <4>1 DEF ReplyReason
    <3>4. ASSUME NEW x \in sent' \ sent
          PROVE  /\ x.from = i /\ x.round = round[i]
                 /\ x.type \in {"Aux", "Conf"} =>
                      o.data.state # "CollectingVal" /\ x.vec \in Orderings(o.data.valuesR)
      <4>1. PICK vec \in Orderings(o.values) : x = Message(type, i, round[i], vec)
        BY <3>1, <3>4
      <4>2. x.from = i /\ x.round = round[i] /\ x.type = type /\ x.vec = vec
        BY <4>1 DEF Message
      <4> QED BY <3>3, <4>1, <4>2
    <3>5. \/ Same
          \/ \E t \in {"Aux", "Conf", "Finish"} :
               /\ NextVote(current[i].state, o.data.state, t)
               /\ t = "Aux" \/ o.data.valuesR = current[i].valuesR
               /\ \/ panicked'[i]
                  \/ \E vec \in Orderings(o.data.valuesR) : Message(t, i, round[i], vec) \in sent'
      <4>1. CASE Moves(current[i], o) /\ o.values = o.data.valuesR
        <5>1. /\ type \in {"Aux", "Conf", "Finish"}
              /\ NextVote(current[i].state, o.data.state, type)
              /\ type = "Aux" \/ o.data.valuesR = current[i].valuesR
          BY <4>1 DEF Moves, NextVote, ReplyType
        <5>2. \/ panicked'[i]
              \/ \E vec \in Orderings(o.data.valuesR) : Message(type, i, round[i], vec) \in sent'
          BY <1>1, <3>1, <4>1
        <5> HIDE DEF type
        <5> QED BY <5>1, <5>2
      <4> QED BY <2>3, <3>1, <4>1
    <3>6. sent \subseteq sent' /\ NoneRecovers
      BY <1>1, <3>1 DEF NoneRecovers
    <3> HIDE DEF type, Same
    <3>7. OpenStep(i, m, o.data)
      BY <2>3, <3>1, <3>2, <3>4, <3>5, <3>6 DEF OpenStep, Same
    <3> QED BY <3>6, <3>7
  <2>7. CASE AdvanceRound(i, m, queue, flip)
    <3>1. /\ m.round = round[i] /\ o.result = "Failed"
          /\ round' = [round EXCEPT ![i] = @ + 1]
          /\ UNCHANGED <<panicked, decided, sent>>
      BY <2>7 DEF AdvanceRound, o
    <3>2. PICK e \in o.values : current' = [current EXCEPT ![i] = NewRound(e)]
      BY <2>7 DEF AdvanceRound, o
    <3>3. LeaveOpen(i, m, e)
      BY <2>2, <3>1, <3>2 DEF LeaveOpen
    <3> QED BY <3>1, <3>3 DEF NoneRecovers
  <2>8. CASE Decide(i, m, queue, flip)
    <3>1. /\ m.round = round[i] /\ o.result = "Finalized"
          /\ current' = [current EXCEPT ![i] = o.data]
          /\ decided' = [decided EXCEPT ![i] = @ \cup o.values]
          /\ UNCHANGED <<round, panicked, sent>>
      BY <2>8 DEF Decide, o
    <3>2. decided'[i] = decided[i] \cup o.values /\ \A j \in Replicas : decided[j] \subseteq decided'[j]
      BY <1>1, <3>1
    <3>3. \A b \in Bits : MoreThan(2 * F, o.data.receivedFinish[b]) =>
            MoreThan(2 * F, current[i].receivedFinish[b]) \/ b \in decided'[i]
      BY <2>2, <3>1, <3>2 DEF OpenOutcome
    <3>4. Same
      BY <2>3, <3>1 DEF Moves
    <3>5. OpenStep(i, m, o.data)
      BY <2>3, <3>1, <3>2, <3>3, <3>4 DEF OpenStep
    <3> QED BY <3>1, <3>5 DEF NoneRecovers
  <2> QED BY <1>3, <2>4, <2>5, <2>6, <2>7, <2>8
<1> QED BY <1>2, <1>3 DEF ProcessMessage

\* What poll hands back had been handed over before.
LEMMA PolledIsHanded ==
  ASSUME BaseInv, NEW i \in Replicas, PollMessage(i)
  PROVE  \E m \in sent \cup EnvMessages[i] : \E queue : ProcessMessage(i, m, queue)
<1> DEFINE q == DrainTo(pending[i], round[i])
           m == Top(q)
<1>1. /\ ~DrainPanics(pending[i], round[i]) /\ ~NothingToPop(q)
      /\ ProcessMessage(i, m, WithoutTop(q))
  BY DEF PollMessage
<1>2. /\ q \in PendingQueues /\ Aligned(q) /\ \A x : Holds(q, x) => Holds(pending[i], x)
  BY <1>1, DroppedIsServed
<1> HIDE DEF q
<1>3. m \in Messages /\ Holds(q, m)
  BY <1>1, <1>2, PendingIsQueue, PopTakesOne
<1>4. m \in handed[i] /\ handed[i] \subseteq sent \cup EnvMessages[i]
  BY <1>2, <1>3 DEF BaseInv, PendingHanded, TypeOK
<1> HIDE DEF m
<1> QED BY <1>1, <1>4

LEMMA NextIsProgress ==
  ASSUME BaseInv, ThresholdsActedOn, Next
  PROVE  \E i \in Replicas : ProgressStep(i)
<1>1. TypeOK /\ \A i \in Replicas : RoundOpen(current[i])
  BY DEF BaseInv, ThresholdsActedOn
<1>2. ASSUME NEW i \in Replicas, NEW m \in sent \cup EnvMessages[i], NEW queue,
             ProcessMessage(i, m, queue), UNCHANGED coin
      PROVE  ProgressStep(i)
  <2>1. m \in Messages /\ OneBit(m)
    BY <1>1, HandedIsGiven
  <2> QED BY <1>1, <1>2, <2>1, ProcessIsProgress DEF ProgressStep
<1>3. ASSUME NEW i \in Replicas, NEW m, Deliver(i, m) \/ DeliverEnv(i, m) PROVE ProgressStep(i)
  BY <1>2, <1>3 DEF Deliver, DeliverEnv
<1>4. ASSUME NEW i \in Replicas, PollPanics(i) \/ PollNone(i) PROVE ProgressStep(i)
  BY <1>1, <1>4 DEF PollPanics, PollNone, ProgressStep, Idles, NoneRecovers, TypeOK
<1>5. ASSUME NEW i \in Replicas, PollMessage(i) PROVE ProgressStep(i)
  <2>1. UNCHANGED coin
    BY <1>5 DEF PollMessage
  <2> QED BY <1>2, <1>5, <2>1, PolledIsHanded
<1>6. ASSUME NEW i \in Replicas, Announce(i) PROVE ProgressStep(i)
  <2> DEFINE x == Message("Val", i, round[i], <<current[i].estimate>>)
  <2>1. current[i] \in RoundData /\ round[i] \in Rounds /\ i \in Nodes
    BY <1>1, AgreementAssumption DEF TypeOK
  <2>2. <<current[i].estimate>> \in Vectors /\ Len(<<current[i].estimate>>) = 1
    BY <2>1, RoundFields, VectorsAssumption
  <2>3. /\ x \in Messages /\ x.type = "Val" /\ x.from = i /\ x.round = round[i]
        /\ x.vec = <<current[i].estimate>>
    BY <2>1, <2>2, MessageIsOne
  <2>4. sent' = sent \cup {x} /\ UNCHANGED <<round, current, panicked, decided, coin>>
    BY <1>6 DEF Announce
  <2> HIDE DEF x
  <2> QED BY <2>2, <2>3, <2>4 DEF ProgressStep, SaysEstimate, NoneRecovers, OneBit
<1> QED BY <1>3, <1>4, <1>5, <1>6 DEF Next, Poll

-----------------------------------------------------------------------------
(***************************************************************************)
(* The invariant is kept, part by part.                                    *)
(***************************************************************************)

\* What a step leaves as it was.
LEMMA StepFrame ==
  ASSUME TypeOK, NEW i \in Replicas, ProgressStep(i)
  PROVE  /\ \A j \in Replicas : j # i => current'[j] = current[j] /\ round'[j] = round[j]
         /\ \A j \in Replicas : decided[j] \subseteq decided'[j]
         /\ \A j \in Replicas : ~panicked'[j] => ~panicked[j]
         /\ sent \subseteq sent' /\ coin' = coin
         /\ \A m, d : OpenStep(i, m, d) => round'[i] = round[i] /\ current'[i] = d
         /\ \A m, e : LeaveOpen(i, m, e) =>
              /\ m.round = round[i] /\ round'[i] = round[i] + 1 /\ round[i] \in Nat
              /\ current'[i] = NewRound(e)
<1>1. /\ current \in [Replicas -> RoundData] /\ round \in [Replicas -> Rounds] /\ Rounds \subseteq Nat
      /\ decided \in [Replicas -> SUBSET Bits]
  BY AgreementAssumption DEF TypeOK, Rounds
<1> QED BY <1>1 DEF ProgressStep, NoneRecovers, Idles, SaysEstimate, OpenStep, LeaveOpen

LEMMA ThresholdsKept ==
  ASSUME TypeOK, ThresholdsActedOn, NEW i \in Replicas, ProgressStep(i)
  PROVE  ThresholdsActedOn'
<1> DEFINE Acted(rd, values) ==
             /\ RoundOpen(rd)
             /\ \A b \in Bits : MoreThan(2 * F, rd.receivedFinish[b]) => b \in values
<1>1. \A j \in Replicas : Acted(current[j], decided[j])
  BY DEF ThresholdsActedOn
<1>2. ASSUME NEW j \in Replicas, current'[j] = current[j] PROVE Acted(current'[j], decided'[j])
  BY <1>1, <1>2, StepFrame
<1>3. ASSUME NEW m, NEW d, OpenStep(i, m, d) PROVE Acted(current'[i], decided'[i])
  BY <1>1, <1>3, StepFrame DEF OpenStep
<1>4. ASSUME NEW m, NEW e, LeaveOpen(i, m, e) PROVE Acted(current'[i], decided'[i])
  <2>1. current'[i] = NewRound(e)
    BY <1>4, StepFrame
  <2> QED BY <2>1, FreshRound, FreshIsOpen, NobodyIsNoQuorum
<1>5. \A j \in Replicas : Acted(current'[j], decided'[j])
  BY <1>2, <1>3, <1>4, StepFrame DEF ProgressStep, Idles, SaysEstimate
<1> QED BY <1>5 DEF ThresholdsActedOn, RoundOpen, MoreThan

LEMMA VotesCastKept ==
  ASSUME TypeOK, ThresholdsActedOn, VotesCast, NEW i \in Replicas, ProgressStep(i)
  PROVE  VotesCast'
<1> DEFINE Cast(j, rd, r, b, msgs) ==
             /\ Message("Aux", j, r, <<b>>) \in msgs
             /\ rd.state \in {"CollectingConf", "Finishing"} => Message("Conf", j, r, <<b>>) \in msgs
             /\ rd.state = "Finishing" => Message("Finish", j, r, <<b>>) \in msgs
<1>1. \A j \in Replicas : \A b \in Bits : ~panicked[j] /\ current[j].valuesR = {b} =>
        Cast(j, current[j], round[j], b, sent)
  BY DEF VotesCast, Said
<1>2. ASSUME NEW j \in Replicas, NEW b \in Bits, ~panicked'[j], current'[j].valuesR = {b},
             current'[j] = current[j], round'[j] = round[j]
      PROVE  Cast(j, current'[j], round'[j], b, sent')
  BY <1>1, <1>2, StepFrame
<1>3. ASSUME NEW m, NEW d, OpenStep(i, m, d), NEW b \in Bits, ~panicked'[i], d.valuesR = {b}
      PROVE  Cast(i, d, round[i], b, sent')
  <2>1. ~panicked[i] /\ sent \subseteq sent'
    BY <1>3, StepFrame
  <2>2. CASE d.state = current[i].state /\ d.valuesR = current[i].valuesR
    BY <1>1, <1>3, <2>1, <2>2
  <2>3. ASSUME NEW type \in {"Aux", "Conf", "Finish"}, NextVote(current[i].state, d.state, type),
               type = "Aux" \/ d.valuesR = current[i].valuesR,
               NEW vec \in Orderings(d.valuesR), Message(type, i, round[i], vec) \in sent'
        PROVE  Cast(i, d, round[i], b, sent')
    <3>1. Message(type, i, round[i], <<b>>) \in sent'
      BY <1>3, <2>3, OrderedBit
    <3>2. type # "Aux" => Cast(i, current[i], round[i], b, sent)
      BY <1>1, <1>3, <2>1, <2>3
    <3> QED BY <2>1, <2>3, <3>1, <3>2 DEF NextVote
  <2> QED BY <1>3, <2>2, <2>3 DEF OpenStep
<1>4. ASSUME NEW j \in Replicas, NEW b \in Bits, ~panicked'[j], current'[j].valuesR = {b}
      PROVE  Cast(j, current'[j], round'[j], b, sent')
  <2>1. CASE j # i \/ Idles \/ SaysEstimate(i)
    BY <1>2, <1>4, <2>1, StepFrame DEF Idles, SaysEstimate
  <2>2. ASSUME NEW m, NEW d, OpenStep(i, m, d), j = i
        PROVE  Cast(j, current'[j], round'[j], b, sent')
    BY <1>3, <1>4, <2>2, StepFrame
  <2>3. ASSUME NEW m, NEW e, LeaveOpen(i, m, e), j = i
        PROVE  FALSE
    <3>1. current'[i] = NewRound(e)
      BY <2>3, StepFrame
    <3>2. current'[i].valuesR = {b}
      BY <1>4, <2>3
    <3> QED BY <3>1, <3>2, FreshRound
  <2> QED BY <2>1, <2>2, <2>3 DEF ProgressStep
<1> QED BY <1>4 DEF VotesCast, Said

LEMMA SingleVotesKept ==
  ASSUME TypeOK, ThresholdsActedOn, VotesOfPhase, SingleVotes, NEW i \in Replicas, ProgressStep(i)
  PROVE  SingleVotes'
<1> DEFINE Single(x, r, values) ==
             \E b \in Bits : x.vec = <<b>> /\ (x.round = r => values = {b})
<1>1. \A x \in sent : x.type \in {"Aux", "Conf"} =>
        x.from \in Replicas /\ Single(x, round[x.from], current[x.from].valuesR)
  BY DEF SingleVotes, TypeOK
<1>2. ASSUME NEW x \in sent, x.type \in {"Aux", "Conf"}
      PROVE  Single(x, round'[x.from], current'[x.from].valuesR)
  <2>1. CASE x.from # i \/ Idles \/ SaysEstimate(i)
    BY <1>1, <1>2, <2>1, StepFrame DEF Idles, SaysEstimate
  <2>2. ASSUME NEW m, NEW d, OpenStep(i, m, d), x.from = i
        PROVE  Single(x, round'[x.from], current'[x.from].valuesR)
    <3>1. x.round = round[i] => d.valuesR = current[i].valuesR
      <4>1. x.round = round[i] => current[i].state # "CollectingVal"
        BY <1>2, <2>2 DEF VotesOfPhase
      <4> QED BY <2>2, <4>1 DEF OpenStep, NextVote
    <3> QED BY <1>1, <1>2, <2>2, <3>1, StepFrame
  <2>3. ASSUME NEW m, NEW e, LeaveOpen(i, m, e), x.from = i
        PROVE  Single(x, round'[x.from], current'[x.from].valuesR)
    <3>1. x.round <= round[i] /\ x.round \in Nat
      BY <2>3, MessageFields DEF VotesOfPhase, TypeOK
    <3>2. x.round # round'[i]
      BY <2>3, <3>1, StepFrame
    <3> QED BY <1>1, <1>2, <2>3, <3>2
  <2> QED BY <2>1, <2>2, <2>3 DEF ProgressStep
<1>3. ASSUME NEW x \in sent' \ sent, x.type \in {"Aux", "Conf"}
      PROVE  Single(x, round'[x.from], current'[x.from].valuesR)
  <2>1. PICK m, d : OpenStep(i, m, d)
    BY <1>3 DEF ProgressStep, Idles, SaysEstimate, LeaveOpen
  <2>2. x.from = i /\ d.state # "CollectingVal" /\ x.vec \in Orderings(d.valuesR) /\ RoundOpen(d)
    BY <1>3, <2>1 DEF OpenStep
  <2>3. PICK b \in Bits : d.valuesR = {b}
    BY <2>2 DEF RoundOpen
  <2>4. x.vec = <<b>>
    BY <2>2, <2>3, OrderedBit
  <2> QED BY <2>1, <2>2, <2>3, <2>4, StepFrame
<1> QED BY <1>2, <1>3 DEF SingleVotes

LEMMA OwnSharesKept ==
  ASSUME TypeOK, OwnShares, NEW i \in Replicas, ProgressStep(i)
  PROVE  OwnShares'
<1> SUFFICES ASSUME NEW j \in Replicas, Unspoiled(j, round'[j]), NEW v \in Vectors
             PROVE  current'[j].receivedConf[v] \subseteq Replicas
  BY DEF OwnShares, Unspoiled
<1>1. CASE j # i \/ Idles \/ SaysEstimate(i)
  BY <1>1, StepFrame DEF OwnShares, Idles, SaysEstimate
<1>2. ASSUME j = i, NEW m \in sent \cup EnvMessages[i], NEW d, OpenStep(i, m, d)
      PROVE  current'[j].receivedConf[v] \subseteq Replicas
  <2>1. /\ current[i].receivedConf[v] \subseteq Replicas
        /\ VotersWith(current[i].receivedConf[v], d.receivedConf[v], m, "Conf", v)
        /\ m.round = round[i] /\ current'[i] = d /\ round'[i] = round[i]
    <3>1. current'[i] = d /\ round'[i] = round[i]
      BY <1>2, StepFrame
    <3>2. /\ VotersWith(current[i].receivedConf[v], d.receivedConf[v], m, "Conf", v)
          /\ m.round = round[i]
      BY <1>2 DEF OpenStep
    <3>3. Unspoiled(i, round[i])
      BY <1>2, <3>1
    <3> QED BY <3>1, <3>2, <3>3 DEF OwnShares
  <2>2. m.type = "Conf" => m \in sent
    <3>1. Unspoiled(i, round[i])
      BY <1>2, <2>1
    <3> QED BY <1>2, <2>1, <3>1 DEF Unspoiled
  <2>3. m \in sent => m.from \in Replicas
    BY DEF TypeOK
  <2> QED BY <1>2, <2>1, <2>2, <2>3 DEF VotersWith, VoteFor
<1>3. ASSUME j = i, NEW m, NEW e, LeaveOpen(i, m, e)
      PROVE  current'[j].receivedConf[v] \subseteq Replicas
  BY <1>3, StepFrame, FreshRound
<1> QED BY <1>1, <1>2, <1>3 DEF ProgressStep

\* A coin made of shares of replicas is the round's, and the CONFs that win are for the
\* value the replica, like those who cast them, had an AUX quorum for.
LEMMA CoinKept ==
  ASSUME TypeOK, SingleVotes, OwnShares, CoinKeepsVoters, NEW i \in Replicas, ProgressStep(i)
  PROVE  CoinKeepsVoters'
<1> SUFFICES ASSUME NEW j \in Replicas, NEW r \in Rounds,
                    Message("Aux", j, r, <<coin[r]>>) \in sent', Unspoiled(j, r)
             PROVE  round'[j] = r
  BY StepFrame DEF CoinKeepsVoters, Said, Unspoiled
<1> DEFINE x == Message("Aux", j, r, <<coin[r]>>)
<1>1. x.type = "Aux" /\ x.from = j /\ x.round = r /\ x.vec = <<coin[r]>>
  BY DEF Message
<1>2. x \in sent => round[j] = r
  BY DEF CoinKeepsVoters, Said
<1> HIDE DEF x
<1>3. CASE x \notin sent
  <2>1. PICK m, d : OpenStep(i, m, d)
    BY <1>1, <1>3 DEF ProgressStep, Idles, SaysEstimate, LeaveOpen, x
  <2> QED BY <1>1, <1>3, <2>1, StepFrame DEF OpenStep, x
<1>4. ASSUME x \in sent, j = i, NEW m \in sent \cup EnvMessages[i], NEW e, LeaveOpen(i, m, e)
      PROVE  FALSE
  <2>1. PICK flip \in CoinOutcomes(i, m) : LeavesOnCoin(current[i], m, flip)
    BY <1>4 DEF LeaveOpen
  <2>2. m.type = "Conf" /\ m.round = r /\ m.vec # <<flip>>
          /\ ElementsOf(m.vec) \subseteq current[i].valuesR
    BY <1>2, <1>4, <2>1 DEF LeaveOpen, LeavesOnCoin
  <2>3. m \in sent /\ m.from \in Replicas /\ m \in Messages
    BY <1>4, <2>2 DEF Unspoiled, TypeOK
  <2>4. PICK b \in Bits : m.vec = <<b>>
    BY <2>2, <2>3 DEF SingleVotes
  <2>5. current[i].valuesR = {coin[r]}
    <3>1. PICK c \in Bits : x.vec = <<c>> /\ current[i].valuesR = {c}
      BY <1>1, <1>2, <1>4 DEF SingleVotes
    <3> QED BY <1>1, <3>1, SingleBit
  <2>6. b = coin[r]
    <3>1. b \in ElementsOf(m.vec)
      BY <2>4 DEF ElementsOf
    <3> QED BY <2>2, <2>5, <3>1
  <2>7. current[i].receivedConf[m.vec] \subseteq Replicas
    BY <1>2, <1>4, <2>3, MessageFields DEF OwnShares
  <2>8. flip = coin[r]
    BY <2>2, <2>3, <2>7 DEF CoinOutcomes
  <2> QED BY <2>2, <2>4, <2>6, <2>8
<1>5. CASE x \in sent /\ (j # i \/ Idles \/ SaysEstimate(i))
  BY <1>2, <1>5, StepFrame DEF Idles, SaysEstimate
<1>6. ASSUME x \in sent, j = i, NEW m, NEW d, OpenStep(i, m, d)
      PROVE  round'[j] = r
  BY <1>2, <1>6, StepFrame
<1> QED BY <1>3, <1>4, <1>5, <1>6 DEF ProgressStep

LEMMA InitProgress ==
  ASSUME Init
  PROVE  ThresholdsActedOn /\ VotesCast /\ CoinKeepsVoters /\ SingleVotes /\ OwnShares
<1>1. /\ current = [i \in Replicas |-> NewRound(input[i])] /\ sent = {}
  BY DEF Init
<1>2. ThresholdsActedOn
  <2>1. ASSUME NEW i \in Replicas
        PROVE  RoundOpen(current[i]) /\ \A b \in Bits : current[i].receivedFinish[b] = {}
    <3>1. current[i] = NewRound(input[i])
      BY <1>1
    <3> QED BY <3>1, FreshRound, FreshIsOpen
  <2> QED BY <2>1, NobodyIsNoQuorum DEF ThresholdsActedOn
<1>3. VotesCast
  BY <1>1 DEF VotesCast, NewRound
<1>4. OwnShares
  BY <1>1 DEF OwnShares, NewRound
<1> QED BY <1>1, <1>2, <1>3, <1>4 DEF CoinKeepsVoters, SingleVotes, Said

LEMMA NextProgress ==
  ASSUME ProgressInv, [Next]_vars
  PROVE  (ThresholdsActedOn /\ VotesCast /\ CoinKeepsVoters /\ SingleVotes /\ OwnShares)'
<1>1. TypeOK /\ VotesOfPhase
  BY DEF ProgressInv, BaseInv
<1>2. CASE Next
  <2>1. PICK i \in Replicas : ProgressStep(i)
    BY <1>2, NextIsProgress DEF ProgressInv
  <2>2. ThresholdsActedOn' /\ VotesCast'
    BY <1>1, <2>1, ThresholdsKept, VotesCastKept DEF ProgressInv
  <2>3. SingleVotes' /\ OwnShares' /\ CoinKeepsVoters'
    BY <1>1, <2>1, SingleVotesKept, OwnSharesKept, CoinKept DEF ProgressInv
  <2> QED BY <2>2, <2>3
<1>3. CASE UNCHANGED vars
  <2>1. UNCHANGED <<round, current, panicked, decided, sent, coin>>
    BY <1>3 DEF vars
  <2>2. ThresholdsActedOn' /\ VotesCast' /\ CoinKeepsVoters'
    BY <2>1 DEF ProgressInv, ThresholdsActedOn, RoundOpen, MoreThan, VotesCast, CoinKeepsVoters,
                Said, Unspoiled
  <2>3. SingleVotes' /\ OwnShares'
    BY <2>1 DEF ProgressInv, SingleVotes, OwnShares, Unspoiled
  <2> QED BY <2>2, <2>3
<1> QED BY <1>2, <1>3

\* Whoever is faulty: the invariant behind the results below.
THEOREM ProgressInvariance == Spec => []ProgressInv
<1>1. Init => ThresholdsActedOn /\ VotesCast /\ CoinKeepsVoters /\ SingleVotes /\ OwnShares
  BY InitProgress
<1>2. ProgressInv /\ [Next]_vars =>
        (ThresholdsActedOn /\ VotesCast /\ CoinKeepsVoters /\ SingleVotes /\ OwnShares)'
  BY NextProgress
<1> QED BY <1>1, <1>2, BaseInvariance, PTL DEF Spec, ProgressInv

\* No replica comes to rest short of a threshold it has the votes for, nor has it
\* overlooked a FINISH quorum (accept_vote compares a count only when it grows).
THEOREM NoThresholdOverlooked == Spec => []ThresholdsActedOn
<1>1. ProgressInv => ThresholdsActedOn
  BY DEF ProgressInv
<1> QED BY <1>1, ProgressInvariance, PTL

\* A replica that has not panicked has cast every vote its phase says it has.
THEOREM PhasesAreAnnounced == Spec => []VotesCast
<1>1. ProgressInv => VotesCast
  BY DEF ProgressInv
<1> QED BY <1>1, ProgressInvariance, PTL

\* With a coin made of the shares of replicas, a replica whose AUX vote agrees with it
\* stays in the round, for any number of faulty members.
THEOREM CoinNeverLosesVoters == Spec => []CoinKeepsVoters
<1>1. ProgressInv => CoinKeepsVoters
  BY DEF ProgressInv
<1> QED BY <1>1, ProgressInvariance, PTL

-----------------------------------------------------------------------------
(***************************************************************************)
(* Replicas at rest.                                                       *)
(***************************************************************************)

\* A replica at rest has counted every vote of its round for the phase it is in.
LEMMA RestCounts ==
  ASSUME BaseInv, NEW i \in Replicas, AtRest(i), NEW m \in sent, m.round = round[i]
  PROVE  LET rd == current[i] IN
         /\ m.type = "Aux" /\ rd.state = "CollectingAux" => m.from \in rd.receivedAux[m.vec]
         /\ m.type = "Conf" /\ rd.state = "CollectingConf" => m.from \in rd.receivedConf[m.vec]
         /\ m.type = "Finish" /\ rd.state = "Finishing" => m.from \in rd.receivedFinish[m.vec[1]]
<1> DEFINE rd == current[i]
           Counted == \/ m.type = "Aux"    /\ rd.state = "CollectingAux"
                      \/ m.type = "Conf"   /\ rd.state = "CollectingConf"
                      \/ m.type = "Finish" /\ rd.state = "Finishing"
<1>1. /\ rd \in RoundData /\ m \in Messages /\ OneBit(m) /\ round[i] \in Nat
      /\ m.from \in Nodes /\ m.vec \in Vectors
  BY AgreementAssumption, MessageFields DEF BaseInv, TypeOK, Rounds
<1>2. Counted => Accept(i, m, NoCoin).result # "Queue"
  <2>1. m.type = "Finish" => m.vec[1] \in Bits
    BY <1>1, OneBitVector
  <2>2. ASSUME m.type = "Aux", rd.state = "CollectingAux"
        PROVE  Accept(i, m, NoCoin).result # "Queue"
    <3>1. Accept(i, m, NoCoin) = AcceptAuxiliary(rd, m.from, m.vec)
      BY <2>2 DEF Accept
    <3> QED BY <1>1, <2>2, <3>1, AuxAccepted
  <2>3. ASSUME m.type = "Conf", rd.state = "CollectingConf"
        PROVE  Accept(i, m, NoCoin).result # "Queue"
    <3>1. Accept(i, m, NoCoin) = AcceptConfirmation(rd, m.from, m.vec, NoCoin)
      BY <2>3 DEF Accept
    <3>2. AcceptConfirmation(rd, m.from, m.vec, NoCoin).result = "Queue"
            <=> rd.state \in {"CollectingVal", "CollectingAux"}
      BY <1>1, ConfAccepted
    <3> QED BY <2>3, <3>1, <3>2
  <2>4. ASSUME m.type = "Finish", rd.state = "Finishing"
        PROVE  Accept(i, m, NoCoin).result # "Queue"
    <3>1. Accept(i, m, NoCoin) = AcceptFinish(rd, m.from, m.vec[1])
      BY <2>4 DEF Accept
    <3> QED BY <1>1, <2>1, <2>4, <3>1, FinishAccepted
  <2> QED BY <2>2, <2>3, <2>4
<1>3. Holds(pending[i], m) \/ Served(i, m)
  BY DEF AtRest, BaseInv, NothingLost
<1>4. Counted => Served(i, m)
  BY <1>2, <1>3 DEF AtRest
<1>5. m.round >= round[i] /\ round[i] <= m.round /\ ~(m.round < round[i])
  BY <1>1
<1>6. CASE m.type = "Aux" /\ rd.state = "CollectingAux"
  BY <1>4, <1>5, <1>6 DEF Served
<1>7. CASE m.type = "Conf" /\ rd.state = "CollectingConf"
  BY <1>4, <1>5, <1>7 DEF Served
<1>8. CASE m.type = "Finish" /\ rd.state = "Finishing"
  BY <1>4, <1>5, <1>8 DEF Served
<1> QED BY <1>6, <1>7, <1>8

LEMMA LikeMindedMove ==
  ASSUME ProgressInv, NEW r \in Rounds, NEW b \in Bits, coin[r] = b,
         MoreThan(2 * F, Said("Aux", r, <<b>>)),
         \A i \in Said("Aux", r, <<b>>) : AtRest(i) /\ Unspoiled(i, r)
  PROVE  \A i \in Said("Aux", r, <<b>>) : b \in decided[i]
<1> DEFINE voters == Said("Aux", r, <<b>>)
<1>0. /\ BaseInv /\ TypeOK /\ <<b>> \in Vectors /\ <<b>>[1] = b /\ ElementsOf(<<b>>) = {b}
      /\ voters \subseteq Replicas /\ Replicas \subseteq Nodes
  BY VectorsAssumption, AgreementAssumption DEF ProgressInv, BaseInv, Said, ElementsOf
<1>1. ASSUME NEW i \in voters
      PROVE  /\ i \in Replicas /\ round[i] = r /\ ~panicked[i] /\ AtRest(i)
             /\ current[i] \in RoundData /\ RoundOpen(current[i])
             /\ current[i].valuesR = {b} /\ current[i].state # "CollectingVal"
  <2> DEFINE x == Message("Aux", i, r, <<b>>)
  <2>1. x \in sent /\ x.type = "Aux" /\ x.from = i /\ x.round = r /\ x.vec = <<b>>
    BY DEF Said, Message
  <2> HIDE DEF x
  <2>2. round[i] = r
    BY <1>0 DEF ProgressInv, CoinKeepsVoters
  <2>3. current[i].state # "CollectingVal"
    BY <2>1, <2>2 DEF ProgressInv, BaseInv, VotesOfPhase
  <2>4. current[i].valuesR = {b}
    <3>1. PICK c \in Bits : x.vec = <<c>> /\ current[i].valuesR = {c}
      BY <2>1, <2>2 DEF ProgressInv, SingleVotes
    <3> QED BY <2>1, <3>1, SingleBit
  <2>5. i \in Replicas /\ current[i] \in RoundData /\ RoundOpen(current[i])
    BY <1>0 DEF ProgressInv, ThresholdsActedOn, TypeOK
  <2> QED BY <2>2, <2>3, <2>4, <2>5 DEF AtRest
<1>2. ASSUME NEW S \in SUBSET Nodes, voters \subseteq S PROVE MoreThan(2 * F, S)
  <2>1. Cardinality(voters) <= Cardinality(S) /\ Cardinality(S) \in Nat /\ Cardinality(voters) \in Nat
    BY <1>0, <1>2, FiniteParts
  <2>2. Cardinality(voters) > 2 * F
    BY DEF MoreThan
  <2> HIDE DEF voters
  <2> QED BY <2>1, <2>2, QuorumAssumption DEF MoreThan
<1>3. ASSUME NEW i \in voters, NEW type \in {"Aux", "Conf", "Finish"},
             \A j \in voters : Message(type, j, r, <<b>>) \in sent
      PROVE  LET rd == current[i] IN
             /\ type = "Aux" => rd.state # "CollectingAux"
             /\ type = "Conf" => rd.state # "CollectingConf"
             /\ type = "Finish" /\ rd.state = "Finishing" => b \in decided[i]
  <2> DEFINE rd == current[i]
             votes == CASE type = "Aux"    -> rd.receivedAux[<<b>>]
                        [] type = "Conf"   -> rd.receivedConf[<<b>>]
                        [] type = "Finish" -> rd.receivedFinish[b]
             Phase == \/ type = "Aux"    /\ rd.state = "CollectingAux"
                      \/ type = "Conf"   /\ rd.state = "CollectingConf"
                      \/ type = "Finish" /\ rd.state = "Finishing"
  <2>1. Phase => voters \subseteq votes
    <3> SUFFICES ASSUME Phase, NEW j \in voters PROVE j \in votes
      OBVIOUS
    <3> DEFINE x == Message(type, j, r, <<b>>)
    <3>1. x \in sent /\ x.type = type /\ x.from = j /\ x.round = r /\ x.vec = <<b>>
      BY <1>3 DEF Message
    <3> HIDE DEF x, voters
    <3> QED BY <1>0, <1>1, <3>1, RestCounts
  <2>2. votes \in SUBSET Nodes
    BY <1>0, <1>1, RoundFields
  <2>3. Phase => MoreThan(2 * F, votes)
    <3> HIDE DEF votes, Phase, voters
    <3> QED BY <1>2, <2>1, <2>2
  <2>4. RoundOpen(rd) /\ rd.valuesR = {b}
    BY <1>1
  <2>5. MoreThan(2 * F, rd.receivedFinish[b]) => b \in decided[i]
    BY <1>1 DEF ProgressInv, ThresholdsActedOn
  <2> HIDE DEF rd, voters
  <2> QED BY <1>0, <2>3, <2>4, <2>5 DEF RoundOpen, rd
<1>4. \A i \in voters : Message("Aux", i, r, <<b>>) \in sent
  BY DEF Said
<1>5. \A i \in voters : /\ current[i].state \in {"CollectingConf", "Finishing"}
                        /\ Message("Conf", i, r, <<b>>) \in sent
  <2> SUFFICES ASSUME NEW i \in voters
               PROVE  /\ current[i].state \in {"CollectingConf", "Finishing"}
                      /\ Message("Conf", i, r, <<b>>) \in sent
    OBVIOUS
  <2>1. current[i].state \in {"CollectingConf", "Finishing"}
    BY <1>1, <1>3, <1>4, RoundFields DEF AgreementStates
  <2> QED BY <1>1, <2>1 DEF ProgressInv, VotesCast, Said
<1>6. \A i \in voters : /\ current[i].state = "Finishing"
                        /\ Message("Finish", i, r, <<b>>) \in sent
  <2> SUFFICES ASSUME NEW i \in voters
               PROVE  /\ current[i].state = "Finishing"
                      /\ Message("Finish", i, r, <<b>>) \in sent
    OBVIOUS
  <2>1. current[i].state = "Finishing"
    BY <1>3, <1>5
  <2> QED BY <1>1, <2>1 DEF ProgressInv, VotesCast, Said
<1> QED BY <1>3, <1>6

\* In every membership, whoever is faulty: where more than 2F replicas voted for what
\* the coin of their round shows, and no other member's share is in it, those that
\* are at rest have decided.
THEOREM LikeMindedAreNotStuck == Spec => []LikeMindedNotStuck
<1>1. ProgressInv => LikeMindedNotStuck
  BY LikeMindedMove DEF LikeMindedNotStuck
<1> QED BY <1>1, ProgressInvariance, PTL
=============================================================================
