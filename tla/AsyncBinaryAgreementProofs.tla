---------------------- MODULE AsyncBinaryAgreementProofs ----------------------
(***************************************************************************)
(* The safety of the binary agreement for every membership, any number of  *)
(* rounds, every input and whatever the other members send.  The shape of  *)
(* a step (ProcessShape) is derived once from what accepting a vote does;  *)
(* each part of the invariant is then kept by every shape.                 *)
(***************************************************************************)
EXTENDS AsyncBinaryAgreement, QuorumInfoProofs, RoundQueueProofs, AgreementRoundProofs

\* The members that are no replicas are among the faulty ones.
OthersFaulty == Nodes \ Replicas \subseteq Faulty

PendingQueues == [base : Rounds, rounds : Seq(Seq(Messages))]

\* What process_message may be given.
GivenMessage(m) ==
  m \in Messages /\ OneBit(m) /\ (m \in sent \/ m.from \notin Replicas)

VoteFor(m, type, vec) == m.type = type /\ m.vec = vec

\* Voters of vec with the sender of m.
VotersWith(old, new, m, type, vec) ==
  /\ old \subseteq new
  /\ new \subseteq old \cup {m.from}
  /\ ~VoteFor(m, type, vec) => new = old

\* No vote but m is counted.
CountsOne(rd, d, m) ==
  /\ \A b \in Bits :
       /\ VotersWith(rd.receivedVals[b], d.receivedVals[b], m, "Val", <<b>>)
       /\ VotersWith(rd.receivedFinish[b], d.receivedFinish[b], m, "Finish", <<b>>)
  /\ \A v \in Vectors :
       /\ VotersWith(rd.receivedAux[v], d.receivedAux[v], m, "Aux", v)
       /\ VotersWith(rd.receivedConf[v], d.receivedConf[v], m, "Conf", v)

\* More than n votes, with m, of the type and for the value.
ValsBehind(rd, m, b, n) ==
  VoteFor(m, "Val", <<b>>) /\ Cardinality(rd.receivedVals[b] \cup {m.from}) > n
ConfsBehind(rd, m, vec) ==
  VoteFor(m, "Conf", vec) /\ Cardinality(rd.receivedConf[vec] \cup {m.from}) > 2 * F
FinishesBehind(rd, m, b, n) ==
  VoteFor(m, "Finish", <<b>>) /\ Cardinality(rd.receivedFinish[b] \cup {m.from}) > n

\* Values are adopted, and the estimate changed, for a reason.
AdoptsWithReason(rd, d, m) ==
  /\ \/ d.valuesR = rd.valuesR
     \/ \E b \in Bits : d.valuesR = rd.valuesR \cup {b} /\ ValsBehind(rd, m, b, 2 * F)
  /\ d.estimate = rd.estimate \/ ConfsBehind(rd, m, <<d.estimate>>)
  /\ rd.state = "CollectingVal" /\ d.state # "CollectingVal" => d.valuesR # {}

\* What the round at hand says of m: its phase is over, or it is counted.
ServedIn(d, m) ==
  CASE m.type = "Val"    -> d.state # "CollectingVal" \/ m.from \in d.receivedVals[m.vec[1]]
    [] m.type = "Aux"    -> d.state \in {"CollectingConf", "Finishing"} \/ m.from \in d.receivedAux[m.vec]
    [] m.type = "Conf"   -> d.state = "Finishing" \/ m.from \in d.receivedConf[m.vec]
    [] m.type = "Finish" -> m.from \in d.receivedFinish[m.vec[1]]

\* Why a result calls for a broadcast of the type with the values.
ReplyReason(rd, d, m, type, values) ==
  \/ type = "Val" /\ \E b \in Bits : values = {b} /\ ValsBehind(rd, m, b, F)
  \/ /\ type = "Aux" /\ values = d.valuesR
     /\ rd.state = "CollectingVal" /\ d.state = "CollectingAux"
  \/ /\ type = "Conf" /\ values = d.valuesR
     /\ rd.state = "CollectingAux" /\ d.state = "CollectingConf"
  \/ /\ type = "Finish" /\ d.state = "Finishing"
     /\ \E b \in Bits :
          values = {b} /\ (ConfsBehind(rd, m, <<b>>) \/ FinishesBehind(rd, m, b, F))

-----------------------------------------------------------------------------
(***************************************************************************)
(* Messages.                                                               *)
(***************************************************************************)

LEMMA MessageFields ==
  ASSUME NEW m \in Messages
  PROVE  /\ m.type \in {"Val", "Aux", "Conf", "Finish"} /\ m.from \in Nodes
         /\ m.round \in Rounds /\ m.round \in Nat /\ m.vec \in Vectors
         /\ m = Message(m.type, m.from, m.round, m.vec)
  BY AgreementAssumption DEF Messages, Message, Rounds

LEMMA MessageIsOne ==
  ASSUME NEW type \in {"Val", "Aux", "Conf", "Finish"}, NEW j \in Nodes, NEW r \in Rounds,
         NEW vec \in Vectors
  PROVE  LET m == Message(type, j, r, vec) IN
         m \in Messages /\ m.type = type /\ m.from = j /\ m.round = r /\ m.vec = vec
  BY DEF Messages, Message

\* A vector of one element.
LEMMA SingleVector ==
  ASSUME NEW vec \in Vectors, Len(vec) = 1
  PROVE  vec[1] \in Bits /\ vec = <<vec[1]>>
<1>1. vec \in Seq(Bits) /\ 1 \in 1..Len(vec)
  BY VectorsAssumption
<1>2. vec[1] \in Bits
  BY <1>1, ElementOfSeq
<1> QED BY <1>1, <1>2

LEMMA OneBitVector ==
  ASSUME NEW m \in Messages, OneBit(m), m.type \in {"Val", "Finish"}
  PROVE  m.vec[1] \in Bits /\ m.vec = <<m.vec[1]>>
  BY MessageFields, SingleVector DEF OneBit

\* A single bit can be ordered in one way.
LEMMA OrderedBit ==
  ASSUME NEW b \in Bits, NEW vec \in Orderings({b})
  PROVE  vec \in Vectors /\ vec = <<b>>
<1>1. vec \in Vectors /\ ElementsOf(vec) = {b} /\ Len(vec) = 1
  BY FS_Singleton DEF Orderings
<1>2. vec = <<vec[1]>>
  BY <1>1, SingleVector
<1>3. vec[1] \in ElementsOf(vec)
  BY <1>1 DEF ElementsOf
<1> QED BY <1>1, <1>2, <1>3

LEMMA SingleBit ==
  ASSUME NEW b, NEW c, <<b>> = <<c>>
  PROVE  b = c
<1>1. <<b>>[1] = b /\ <<c>>[1] = c
  OBVIOUS
<1> QED BY <1>1

-----------------------------------------------------------------------------
(***************************************************************************)
(* Accepting a vote, whatever its type.                                    *)
(***************************************************************************)

\* What Accept returns for a vote m: its data and its result have the reasons above.
GoodOutcome(rd, m, o) ==
  /\ o.data \in RoundData /\ o.values \subseteq Bits
  /\ o.result \in {"Queue", "Ignored", "AlreadyAccepted", "Accepted", "BroadcastEst",
                   "BroadcastAux", "BroadcastConf", "BroadcastFinalized", "Failed", "Finalized"}
  /\ o.result # "Queue" =>
       CountsOne(rd, o.data, m) /\ PhaseKept(rd, o.data) /\ AdoptsWithReason(rd, o.data, m)
  /\ o.result \notin {"Queue", "Failed"} => ServedIn(o.data, m)
  /\ o.result \in {"BroadcastEst", "BroadcastAux", "BroadcastConf", "BroadcastFinalized"} =>
       ReplyReason(rd, o.data, m, ReplyType(o.result), o.values)
  /\ o.result = "Finalized" =>
       /\ rd.state = "Finishing"
       /\ \E b \in Bits : o.values = {b} /\ FinishesBehind(rd, m, b, 2 * F)
  /\ o.result = "Failed" =>
       /\ rd.state = "CollectingConf" /\ ConfsBehind(rd, m, m.vec)
       /\ o.values = {rd.estimate} \/ Len(m.vec) # 1 \/ o.values = {m.vec[1]}

LEMMA VotersSame ==
  ASSUME NEW S, NEW m, NEW type, NEW vec
  PROVE  VotersWith(S, S, m, type, vec)
  BY DEF VotersWith

LEMMA GoodVal ==
  ASSUME NEW rd \in RoundData, NEW m \in Messages, OneBit(m), m.type = "Val"
  PROVE  GoodOutcome(rd, m, AcceptEstimate(rd, m.from, m.vec[1]))
<1> DEFINE b == m.vec[1]
           o == AcceptEstimate(rd, m.from, b)
<1>1. b \in Bits /\ m.vec = <<b>> /\ m.from \in Nodes
  BY OneBitVector, MessageFields
<1>2. /\ o.data \in RoundData /\ o.values \subseteq Bits
      /\ o.result \in {"Ignored", "AlreadyAccepted", "Accepted", "BroadcastEst", "BroadcastAux"}
      /\ Counts(rd.receivedVals, o.data.receivedVals, b, m.from)
      /\ o.data.receivedAux = rd.receivedAux /\ o.data.receivedConf = rd.receivedConf
      /\ o.data.receivedFinish = rd.receivedFinish /\ o.data.estimate = rd.estimate
      /\ PhaseKept(rd, o.data)
      /\ o.data.valuesR = rd.valuesR \/
           (o.data.valuesR = rd.valuesR \cup {b} /\ Cardinality(rd.receivedVals[b] \cup {m.from}) > 2 * F)
      /\ o.data.state # rd.state => b \in o.data.valuesR
      /\ o.data.state = "CollectingVal" => m.from \in o.data.receivedVals[b]
      /\ o.result = "BroadcastEst" => o.values = {b} /\ Cardinality(rd.receivedVals[b] \cup {m.from}) > F
      /\ o.result = "BroadcastAux" =>
           /\ rd.state = "CollectingVal" /\ o.data.state = "CollectingAux"
           /\ o.values = o.data.valuesR
  BY <1>1, ValAccepted, ZenonT(60)
<1> HIDE DEF o
<1>3. \A c \in Bits : <<c>> = m.vec => c = b
  BY <1>1, SingleBit
<1>4. CountsOne(rd, o.data, m)
  <2>1. DOMAIN rd.receivedVals = Bits
    BY RoundFields
  <2>2. ASSUME NEW c \in Bits
        PROVE  VotersWith(rd.receivedVals[c], o.data.receivedVals[c], m, "Val", <<c>>)
    BY <1>1, <1>2, <1>3, <2>1 DEF VotersWith, VoteFor, Counts
  <2> QED BY <1>2, <2>2, VotersSame DEF CountsOne
<1>5. AdoptsWithReason(rd, o.data, m)
  BY <1>1, <1>2 DEF AdoptsWithReason, ValsBehind, VoteFor
<1>6. ServedIn(o.data, m)
  BY <1>2 DEF ServedIn
<1>7. o.result \in {"BroadcastEst", "BroadcastAux"} =>
        ReplyReason(rd, o.data, m, ReplyType(o.result), o.values)
  BY <1>1, <1>2 DEF ReplyReason, ReplyType, ValsBehind, VoteFor
<1>8. GoodOutcome(rd, m, o)
  BY <1>2, <1>4, <1>5, <1>6, <1>7 DEF GoodOutcome
<1> QED BY <1>8 DEF o

LEMMA GoodAux ==
  ASSUME NEW rd \in RoundData, NEW m \in Messages, m.type = "Aux"
  PROVE  GoodOutcome(rd, m, AcceptAuxiliary(rd, m.from, m.vec))
<1> DEFINE o == AcceptAuxiliary(rd, m.from, m.vec)
<1>1. m.vec \in Vectors /\ m.from \in Nodes
  BY MessageFields
<1>2. /\ o.data \in RoundData /\ o.values \subseteq Bits
      /\ o.result \in {"Queue", "Ignored", "AlreadyAccepted", "Accepted", "BroadcastConf"}
      /\ Counts(rd.receivedAux, o.data.receivedAux, m.vec, m.from)
      /\ o.data.receivedVals = rd.receivedVals /\ o.data.receivedConf = rd.receivedConf
      /\ o.data.receivedFinish = rd.receivedFinish /\ o.data.estimate = rd.estimate
      /\ o.data.valuesR = rd.valuesR
      /\ PhaseKept(rd, o.data)
      /\ o.result = "Queue" <=> rd.state = "CollectingVal"
      /\ o.data.state = "CollectingAux" => m.from \in o.data.receivedAux[m.vec]
      /\ o.result = "BroadcastConf" =>
           /\ rd.state = "CollectingAux" /\ o.data.state = "CollectingConf"
           /\ o.values = o.data.valuesR
  BY <1>1, AuxAccepted
<1> HIDE DEF o
<1>3. CountsOne(rd, o.data, m)
  <2>1. DOMAIN rd.receivedAux = Vectors
    BY RoundFields
  <2>2. ASSUME NEW v \in Vectors
        PROVE  VotersWith(rd.receivedAux[v], o.data.receivedAux[v], m, "Aux", v)
    BY <1>2, <2>1 DEF VotersWith, VoteFor, Counts
  <2> QED BY <1>2, <2>2, VotersSame DEF CountsOne
<1>4. o.result # "Queue" => AdoptsWithReason(rd, o.data, m)
  BY <1>2 DEF AdoptsWithReason
<1>5. o.result # "Queue" => ServedIn(o.data, m)
  BY <1>2, RoundFields DEF ServedIn, PhaseKept, AgreementStates
<1>6. o.result = "BroadcastConf" =>
        ReplyReason(rd, o.data, m, ReplyType(o.result), o.values)
  BY <1>2 DEF ReplyReason, ReplyType
<1>7. GoodOutcome(rd, m, o)
  BY <1>2, <1>3, <1>4, <1>5, <1>6 DEF GoodOutcome
<1> QED BY <1>7 DEF o

LEMMA GoodConf ==
  ASSUME NEW rd \in RoundData, NEW m \in Messages, m.type = "Conf",
         NEW flip \in Bits \cup {NoCoin}
  PROVE  GoodOutcome(rd, m, AcceptConfirmation(rd, m.from, m.vec, flip))
<1> DEFINE o == AcceptConfirmation(rd, m.from, m.vec, flip)
<1>1. m.vec \in Vectors /\ m.from \in Nodes
  BY MessageFields
<1>2. /\ o.data \in RoundData /\ o.values \subseteq Bits
      /\ o.result \in {"Queue", "Ignored", "AlreadyAccepted", "Accepted",
                       "BroadcastFinalized", "Failed"}
      /\ Counts(rd.receivedConf, o.data.receivedConf, m.vec, m.from)
      /\ o.data.receivedVals = rd.receivedVals /\ o.data.receivedAux = rd.receivedAux
      /\ o.data.receivedFinish = rd.receivedFinish /\ o.data.valuesR = rd.valuesR
      /\ PhaseKept(rd, o.data)
      /\ o.result = "Queue" <=> rd.state \in {"CollectingVal", "CollectingAux"}
      /\ o.data.state = "CollectingConf" => m.from \in o.data.receivedConf[m.vec]
      /\ o.data.estimate = rd.estimate \/
           (/\ Cardinality(rd.receivedConf[m.vec] \cup {m.from}) > 2 * F
            /\ m.vec = <<o.data.estimate>>)
      /\ o.result = "BroadcastFinalized" =>
           /\ rd.state = "CollectingConf" /\ o.data.state = "Finishing"
           /\ Cardinality(rd.receivedConf[m.vec] \cup {m.from}) > 2 * F
           /\ \E v \in Bits : m.vec = <<v>> /\ o.values = {v}
      /\ o.result = "Failed" =>
           /\ rd.state = "CollectingConf"
           /\ Cardinality(rd.receivedConf[m.vec] \cup {m.from}) > 2 * F
           /\ o.values = {rd.estimate} \/ Len(m.vec) # 1 \/ o.values = {m.vec[1]}
  BY <1>1, ConfAccepted, SMTT(60)
<1> HIDE DEF o
<1>3. CountsOne(rd, o.data, m)
  <2>1. DOMAIN rd.receivedConf = Vectors
    BY RoundFields
  <2>2. ASSUME NEW v \in Vectors
        PROVE  VotersWith(rd.receivedConf[v], o.data.receivedConf[v], m, "Conf", v)
    BY <1>2, <2>1 DEF VotersWith, VoteFor, Counts
  <2> QED BY <1>2, <2>2, VotersSame DEF CountsOne
<1>4. o.result # "Queue" => AdoptsWithReason(rd, o.data, m)
  BY <1>2 DEF AdoptsWithReason, ConfsBehind, VoteFor
<1>5. o.result # "Queue" => ServedIn(o.data, m)
  BY <1>2, RoundFields DEF ServedIn, PhaseKept, AgreementStates
<1>6. o.result = "BroadcastFinalized" =>
        ReplyReason(rd, o.data, m, ReplyType(o.result), o.values)
  BY <1>2 DEF ReplyReason, ReplyType, ConfsBehind, VoteFor
<1>7. o.result = "Failed" =>
        /\ rd.state = "CollectingConf" /\ ConfsBehind(rd, m, m.vec)
        /\ o.values = {rd.estimate} \/ Len(m.vec) # 1 \/ o.values = {m.vec[1]}
  BY <1>2 DEF ConfsBehind, VoteFor
<1>8. GoodOutcome(rd, m, o)
  BY <1>2, <1>3, <1>4, <1>5, <1>6, <1>7 DEF GoodOutcome
<1> QED BY <1>8 DEF o

LEMMA GoodFinish ==
  ASSUME NEW rd \in RoundData, NEW m \in Messages, OneBit(m), m.type = "Finish"
  PROVE  GoodOutcome(rd, m, AcceptFinish(rd, m.from, m.vec[1]))
<1> DEFINE b == m.vec[1]
           o == AcceptFinish(rd, m.from, b)
<1>1. b \in Bits /\ m.vec = <<b>> /\ m.from \in Nodes
  BY OneBitVector, MessageFields
<1>2. /\ o.data \in RoundData /\ o.values \subseteq Bits
      /\ o.result \in {"Queue", "AlreadyAccepted", "Accepted", "BroadcastFinalized", "Finalized"}
      /\ Counts(rd.receivedFinish, o.data.receivedFinish, b, m.from)
      /\ o.data.receivedVals = rd.receivedVals /\ o.data.receivedAux = rd.receivedAux
      /\ o.data.receivedConf = rd.receivedConf /\ o.data.estimate = rd.estimate
      /\ o.data.valuesR = rd.valuesR /\ o.data.state = rd.state
      /\ o.result = "Queue" <=> rd.state # "Finishing"
      /\ rd.state = "Finishing" => m.from \in o.data.receivedFinish[b]
      /\ o.result = "BroadcastFinalized" =>
           /\ rd.state = "Finishing" /\ o.values = {b}
           /\ Cardinality(rd.receivedFinish[b] \cup {m.from}) > F
      /\ o.result = "Finalized" =>
           /\ rd.state = "Finishing" /\ o.values = {b}
           /\ Cardinality(rd.receivedFinish[b] \cup {m.from}) > 2 * F
  BY <1>1, FinishAccepted
<1> HIDE DEF o
<1>3. \A c \in Bits : <<c>> = m.vec => c = b
  BY <1>1, SingleBit
<1>4. CountsOne(rd, o.data, m)
  <2>1. DOMAIN rd.receivedFinish = Bits
    BY RoundFields
  <2>2. ASSUME NEW c \in Bits
        PROVE  VotersWith(rd.receivedFinish[c], o.data.receivedFinish[c], m, "Finish", <<c>>)
    BY <1>1, <1>2, <1>3, <2>1 DEF VotersWith, VoteFor, Counts
  <2> QED BY <1>2, <2>2, VotersSame DEF CountsOne
<1>5. AdoptsWithReason(rd, o.data, m) /\ PhaseKept(rd, o.data)
  BY <1>2 DEF AdoptsWithReason, PhaseKept
<1>6. o.result # "Queue" => ServedIn(o.data, m)
  BY <1>2 DEF ServedIn
<1>7. o.result = "BroadcastFinalized" =>
        ReplyReason(rd, o.data, m, ReplyType(o.result), o.values)
  BY <1>1, <1>2 DEF ReplyReason, ReplyType, FinishesBehind, VoteFor
<1>8. o.result = "Finalized" =>
        /\ rd.state = "Finishing"
        /\ \E c \in Bits : o.values = {c} /\ FinishesBehind(rd, m, c, 2 * F)
  BY <1>1, <1>2 DEF FinishesBehind, VoteFor
<1>9. GoodOutcome(rd, m, o)
  BY <1>2, <1>4, <1>5, <1>6, <1>7, <1>8 DEF GoodOutcome
<1> QED BY <1>9 DEF o

\* Accept has a good outcome for every vote.
LEMMA GoodAccept ==
  ASSUME NEW i \in Replicas, current[i] \in RoundData, NEW m \in Messages, OneBit(m),
         NEW flip \in Bits \cup {NoCoin}
  PROVE  GoodOutcome(current[i], m, Accept(i, m, flip))
<1>1. m.type \in {"Val", "Aux", "Conf", "Finish"}
  BY MessageFields
<1> QED BY <1>1, GoodVal, GoodAux, GoodConf, GoodFinish DEF Accept
-----------------------------------------------------------------------------
(***************************************************************************)
(* The shape of process_message.                                           *)
(***************************************************************************)

\* Replica i broadcasts x in reply to m, its data having become d.
Replies(i, m, d, x) ==
  /\ x \in Messages /\ OneBit(x) /\ x.from = i /\ x.round = round[i]
  /\ \/ \E b \in Bits : VoteFor(x, "Val", <<b>>) /\ ValsBehind(current[i], m, b, F)
     \/ /\ x.type = "Aux" /\ x.vec \in Orderings(d.valuesR)
        /\ current[i].state = "CollectingVal" /\ d.state = "CollectingAux"
     \/ /\ x.type = "Conf" /\ x.vec \in Orderings(d.valuesR)
        /\ current[i].state = "CollectingAux" /\ d.state = "CollectingConf"
     \/ /\ d.state = "Finishing"
        /\ \E b \in Bits :
             /\ VoteFor(x, "Finish", <<b>>)
             /\ ConfsBehind(current[i], m, <<b>>) \/ FinishesBehind(current[i], m, b, F)

\* Nothing but the queue changes.
Idles == UNCHANGED <<round, current, sent, decided>>

\* Replica i counts m in its round, and possibly replies and decides.
CountStep(i, m, d) ==
  /\ m.round = round[i] /\ round' = round
  /\ d \in RoundData /\ current' = [current EXCEPT ![i] = d]
  /\ CountsOne(current[i], d, m) /\ PhaseKept(current[i], d)
  /\ AdoptsWithReason(current[i], d, m) /\ ServedIn(d, m)
  /\ \/ sent' = sent
     \/ \E x : Replies(i, m, d, x) /\ sent' = sent \cup {x}
  /\ \/ decided' = decided
     \/ \E b \in Bits : /\ decided' = [decided EXCEPT ![i] = @ \cup {b}]
                        /\ FinishesBehind(current[i], m, b, 2 * F)

\* Replica i leaves the round for lack of a coin or because of the coin.
LeaveStep(i, m, e) ==
  /\ m.round = round[i] /\ round[i] < MaxRound
  /\ round' = [round EXCEPT ![i] = @ + 1]
  /\ e \in Bits /\ current' = [current EXCEPT ![i] = NewRound(e)]
  /\ ConfsBehind(current[i], m, m.vec) /\ current[i].state # "Finishing"
  /\ e = current[i].estimate \/ Len(m.vec) # 1 \/ e = m.vec[1]
  /\ UNCHANGED <<sent, decided>>

\* The queue is what it was given or has one message more, which waits for a later
\* round or a later phase.
QueueStep(i, m, queue) ==
  \/ pending' = [pending EXCEPT ![i] = queue]
  \/ m.round >= round[i] /\ pending' = [pending EXCEPT ![i] = AddMessage(queue, m.round, m)]

\* m waits, has been counted, or has come too late.
Kept(i, m, queue) ==
  \/ m.round >= round[i] /\ pending' = [pending EXCEPT ![i] = AddMessage(queue, m.round, m)]
  \/ m.round < round'[i]
  \/ m.round = round'[i] /\ ServedIn(current'[i], m)

StepShape(i, m) ==
  \/ Idles
  \/ \E d : CountStep(i, m, d)
  \/ \E e : LeaveStep(i, m, e)

LEMMA CoinIsBitOrNone ==
  ASSUME TypeOK, NEW i \in Replicas, NEW m \in Messages
  PROVE  CoinOutcomes(i, m) \subseteq Bits \cup {NoCoin}
  BY MessageFields DEF CoinOutcomes, TypeOK

LEMMA ReplyIsMessage ==
  ASSUME TypeOK, NEW i \in Replicas, NEW m \in Messages, NEW d, NEW result,
         result \in {"BroadcastEst", "BroadcastAux", "BroadcastConf", "BroadcastFinalized"},
         NEW values, ReplyReason(current[i], d, m, ReplyType(result), values),
         NEW vec \in Orderings(values)
  PROVE  Replies(i, m, d, Message(ReplyType(result), i, round[i], vec))
<1> DEFINE type == ReplyType(result)
           x == Message(type, i, round[i], vec)
<1>1. type \in {"Val", "Aux", "Conf", "Finish"}
  BY DEF ReplyType
<1>2. vec \in Vectors /\ i \in Nodes /\ round[i] \in Rounds
  BY AgreementAssumption DEF Orderings, TypeOK
<1>3. x \in Messages /\ x.type = type /\ x.from = i /\ x.round = round[i] /\ x.vec = vec
  BY <1>1, <1>2, MessageIsOne
<1> HIDE DEF x
<1>4. CASE type = "Val"
  <2>1. PICK b \in Bits : values = {b} /\ ValsBehind(current[i], m, b, F)
    BY <1>4 DEF ReplyReason
  <2>2. vec = <<b>> /\ Len(vec) = 1
    BY <2>1, OrderedBit
  <2>3. Replies(i, m, d, x)
    BY <1>3, <1>4, <2>1, <2>2 DEF Replies, VoteFor, OneBit
  <2> QED BY <2>3 DEF x
<1>5. CASE type \in {"Aux", "Conf"}
  <2>1. Replies(i, m, d, x)
    BY <1>3, <1>5 DEF Replies, ReplyReason, OneBit
  <2> QED BY <2>1 DEF x
<1>6. CASE type = "Finish"
  <2>1. PICK b \in Bits :
          values = {b} /\ (ConfsBehind(current[i], m, <<b>>) \/ FinishesBehind(current[i], m, b, F))
    BY <1>6 DEF ReplyReason
  <2>2. vec = <<b>> /\ Len(vec) = 1 /\ d.state = "Finishing"
    BY <1>6, <2>1, OrderedBit DEF ReplyReason
  <2>3. Replies(i, m, d, x)
    BY <1>3, <1>6, <2>1, <2>2 DEF Replies, VoteFor, OneBit
  <2> QED BY <2>3 DEF x
<1> QED BY <1>1, <1>4, <1>5, <1>6

\* Whatever process_message does to the replica's own state has one of three shapes.
LEMMA ProcessShape ==
  ASSUME TypeOK, NEW i \in Replicas, NEW m \in Messages, OneBit(m), NEW queue,
         ProcessMessage(i, m, queue)
  PROVE  /\ QueueStep(i, m, queue)
         /\ panicked' \in [Replicas -> BOOLEAN]
         /\ StepShape(i, m)
         /\ Kept(i, m, queue)
<1>1. current[i] \in RoundData /\ round[i] \in Nat /\ m.round \in Nat
  BY MessageFields, AgreementAssumption DEF TypeOK, Rounds
<1>2. CASE QueueFuture(i, m, queue)
  BY <1>1, <1>2 DEF QueueFuture, QueueStep, Kept, StepShape, Idles, TypeOK
<1>3. CASE IgnorePast(i, m, queue)
  BY <1>1, <1>3 DEF IgnorePast, QueueStep, Kept, StepShape, Idles, TypeOK
<1>4. ASSUME NEW flip \in CoinOutcomes(i, m),
             \/ Count(i, m, queue, flip) \/ QueueCurrent(i, m, queue, flip)
             \/ Reply(i, m, queue, flip) \/ AdvanceRound(i, m, queue, flip)
             \/ Decide(i, m, queue, flip)
      PROVE  /\ QueueStep(i, m, queue)
             /\ panicked' \in [Replicas -> BOOLEAN]
             /\ StepShape(i, m)
             /\ Kept(i, m, queue)
  <2> DEFINE o == Accept(i, m, flip)
  <2>1. flip \in Bits \cup {NoCoin}
    BY CoinIsBitOrNone
  <2>2. GoodOutcome(current[i], m, o)
    BY <1>1, <2>1, GoodAccept
  <2>4. current \in [Replicas -> RoundData] /\ round \in [Replicas -> Rounds]
    BY DEF TypeOK
  <2>5. CASE QueueCurrent(i, m, queue, flip)
    BY <1>1, <2>5 DEF QueueCurrent, QueueStep, Kept, StepShape, Idles, TypeOK
  <2>6. CASE Count(i, m, queue, flip)
    <3>1. /\ m.round = round[i] /\ o.result \in {"Ignored", "AlreadyAccepted", "Accepted"}
          /\ current' = [current EXCEPT ![i] = o.data]
          /\ pending' = [pending EXCEPT ![i] = queue]
          /\ UNCHANGED <<round, panicked, decided, sent>>
      BY <2>6 DEF Count
    <3> HIDE DEF o
    <3>2. CountStep(i, m, o.data)
      BY <2>2, <3>1 DEF GoodOutcome, CountStep
    <3>3. current'[i] = o.data
      BY <2>4, <3>1
    <3> QED BY <3>1, <3>2, <3>3 DEF QueueStep, Kept, StepShape, TypeOK, CountStep
  <2>7. CASE Reply(i, m, queue, flip)
    <3>1. /\ m.round = round[i]
          /\ o.result \in {"BroadcastEst", "BroadcastAux", "BroadcastConf", "BroadcastFinalized"}
          /\ current' = [current EXCEPT ![i] = o.data]
          /\ pending' = [pending EXCEPT ![i] = queue]
          /\ \/ /\ \E vec \in Orderings(o.values) :
                     sent' = sent \cup {Message(ReplyType(o.result), i, round[i], vec)}
                /\ UNCHANGED panicked
             \/ /\ panicked' = [panicked EXCEPT ![i] = TRUE]
                /\ UNCHANGED sent
          /\ UNCHANGED <<round, decided>>
      BY <2>7 DEF Reply, UnwrapNetworkError
    <3> HIDE DEF o
    <3>2. \/ sent' = sent
          \/ \E x : Replies(i, m, o.data, x) /\ sent' = sent \cup {x}
      BY <2>2, <3>1, ReplyIsMessage DEF GoodOutcome
    <3>3. CountStep(i, m, o.data)
      BY <2>2, <3>1, <3>2 DEF GoodOutcome, CountStep
    <3>4. current'[i] = o.data
      BY <2>4, <3>1
    <3>5. panicked' \in [Replicas -> BOOLEAN]
      BY <3>1 DEF TypeOK
    <3> QED BY <3>1, <3>3, <3>4, <3>5 DEF QueueStep, Kept, StepShape, CountStep
  <2>8. CASE AdvanceRound(i, m, queue, flip)
    <3>1. /\ m.round = round[i] /\ round[i] < MaxRound /\ o.result = "Failed"
          /\ round' = [round EXCEPT ![i] = @ + 1]
          /\ pending' = [pending EXCEPT ![i] = queue]
          /\ UNCHANGED <<panicked, decided, sent>>
      BY <2>8 DEF AdvanceRound
    <3>2. PICK e \in o.values : current' = [current EXCEPT ![i] = NewRound(e)]
      BY <2>8 DEF AdvanceRound
    <3> HIDE DEF o
    <3>3. LeaveStep(i, m, e)
      BY <2>2, <3>1, <3>2 DEF GoodOutcome, LeaveStep
    <3>4. m.round < round'[i]
      BY <1>1, <2>4, <3>1
    <3> QED BY <3>1, <3>3, <3>4 DEF QueueStep, Kept, StepShape, TypeOK
  <2>9. CASE Decide(i, m, queue, flip)
    <3>1. /\ m.round = round[i] /\ o.result = "Finalized"
          /\ current' = [current EXCEPT ![i] = o.data]
          /\ decided' = [decided EXCEPT ![i] = @ \cup o.values]
          /\ pending' = [pending EXCEPT ![i] = queue]
          /\ UNCHANGED <<round, panicked, sent>>
      BY <2>9 DEF Decide
    <3> HIDE DEF o
    <3>2. PICK b \in Bits : o.values = {b} /\ FinishesBehind(current[i], m, b, 2 * F)
      BY <2>2, <3>1 DEF GoodOutcome
    <3>3. CountStep(i, m, o.data)
      BY <2>2, <3>1, <3>2 DEF GoodOutcome, CountStep
    <3>4. current'[i] = o.data
      BY <2>4, <3>1
    <3> QED BY <3>1, <3>3, <3>4 DEF QueueStep, Kept, StepShape, TypeOK, CountStep
  <2> QED BY <1>4, <2>5, <2>6, <2>7, <2>8, <2>9
<1> QED BY <1>2, <1>3, <1>4 DEF ProcessMessage

-----------------------------------------------------------------------------
(***************************************************************************)
(* The votes: what each shape of a step keeps.                             *)
(***************************************************************************)

\* Replica i broadcasts the estimate of its round.
SaysEstimate(i) ==
  /\ \E x \in Messages : /\ OneBit(x) /\ x.type = "Val" /\ x.from = i /\ x.round = round[i]
                         /\ x.vec = <<current[i].estimate>> /\ sent' = sent \cup {x}
  /\ UNCHANGED <<round, current, decided>>

\* All that a step may do to the votes.
OwnStep(i) ==
  \/ Idles
  \/ SaysEstimate(i)
  \/ \E m : GivenMessage(m) /\ StepShape(i, m)

LEMMA StepTypes ==
  ASSUME TypeOK, NEW i \in Replicas, OwnStep(i)
  PROVE  /\ round' \in [Replicas -> Rounds] /\ current' \in [Replicas -> RoundData]
         /\ decided' \in [Replicas -> SUBSET Bits]
         /\ sent' \subseteq {x \in Messages : x.from \in Replicas /\ OneBit(x)}
         /\ sent \subseteq sent'
         /\ \A j \in Replicas : round[j] <= round'[j]
         /\ \A j \in Replicas : j # i => round'[j] = round[j] /\ current'[j] = current[j]
<1>1. /\ round \in [Replicas -> Rounds] /\ current \in [Replicas -> RoundData]
      /\ decided \in [Replicas -> SUBSET Bits]
      /\ sent \subseteq {x \in Messages : x.from \in Replicas /\ OneBit(x)}
      /\ Rounds \subseteq Nat /\ MaxRound \in Nat /\ \A j \in Replicas : round[j] \in Nat
  BY AgreementAssumption DEF TypeOK, Rounds
<1>2. CASE Idles
  BY <1>1, <1>2 DEF Idles
<1>3. CASE SaysEstimate(i)
  BY <1>1, <1>3 DEF SaysEstimate
<1>4. ASSUME NEW m, NEW d, CountStep(i, m, d)
      PROVE  /\ round' = round /\ current' = [current EXCEPT ![i] = d] /\ d \in RoundData
             /\ decided' \in [Replicas -> SUBSET Bits]
             /\ sent' \subseteq {x \in Messages : x.from \in Replicas /\ OneBit(x)}
             /\ sent \subseteq sent'
  <2>1. ASSUME NEW x, Replies(i, m, d, x)
        PROVE  x \in Messages /\ x.from \in Replicas /\ OneBit(x)
    BY <2>1 DEF Replies
  <2>2. sent \subseteq sent' /\ sent' \subseteq {x \in Messages : x.from \in Replicas /\ OneBit(x)}
    BY <1>1, <1>4, <2>1 DEF CountStep
  <2>3. decided' \in [Replicas -> SUBSET Bits]
    BY <1>1, <1>4 DEF CountStep
  <2> QED BY <1>4, <2>2, <2>3 DEF CountStep
<1>5. ASSUME NEW m, NEW e, LeaveStep(i, m, e)
      PROVE  /\ round' = [round EXCEPT ![i] = @ + 1] /\ round[i] + 1 \in Rounds
             /\ current' = [current EXCEPT ![i] = NewRound(e)] /\ NewRound(e) \in RoundData
             /\ UNCHANGED <<sent, decided>>
  BY <1>1, <1>5, NewRoundIsData DEF LeaveStep, Rounds
<1> QED BY <1>1, <1>2, <1>3, <1>4, <1>5 DEF OwnStep, StepShape

LEMMA BackersGrow ==
  ASSUME sent \subseteq sent', Replicas \subseteq Nodes, NEW type, NEW r, NEW vec
  PROVE  /\ Backers(type, r, vec) \subseteq Backers(type, r, vec)'
         /\ Backers(type, r, vec)' \subseteq Nodes /\ Backers(type, r, vec) \subseteq Nodes
  BY DEF Backers, Said

\* The sender of a message that may be given is one of those behind its vote.
LEMMA SenderBacks ==
  ASSUME TypeOK, NEW m, GivenMessage(m)
  PROVE  m.from \in Backers(m.type, m.round, m.vec)
<1>1. m \in Messages /\ m.from \in Nodes /\ m = Message(m.type, m.from, m.round, m.vec)
  BY MessageFields DEF GivenMessage
<1>2. m \in sent => m.from \in Replicas
  BY DEF TypeOK
<1> QED BY <1>1, <1>2 DEF GivenMessage, Backers, Said

\* The voters of vec with the sender of m are behind the vote, if those counted are.
LEMMA VotersBack ==
  ASSUME TypeOK, NEW m, GivenMessage(m), NEW old, NEW new, NEW type, NEW vec, NEW r,
         m.round = r, VotersWith(old, new, m, type, vec), old \subseteq Backers(type, r, vec)
  PROVE  new \subseteq Backers(type, r, vec)
  BY SenderBacks DEF VotersWith, VoteFor

LEMMA HeardKept ==
  ASSUME TypeOK, VotesHeard, NEW i \in Replicas, OwnStep(i)
  PROVE  VotesHeard'
<1>1. /\ sent \subseteq sent' /\ Replicas \subseteq Nodes
      /\ \A j \in Replicas : j # i => round'[j] = round[j] /\ current'[j] = current[j]
      /\ round \in [Replicas -> Rounds] /\ current \in [Replicas -> RoundData]
  BY StepTypes, AgreementAssumption DEF TypeOK
<1> DEFINE Heard(rd, r) ==
             /\ \A b \in Bits : /\ rd.receivedVals[b] \subseteq Backers("Val", r, <<b>>)
                                /\ rd.receivedFinish[b] \subseteq Backers("Finish", r, <<b>>)
             /\ \A v \in Vectors : /\ rd.receivedAux[v] \subseteq Backers("Aux", r, v)
                                   /\ rd.receivedConf[v] \subseteq Backers("Conf", r, v)
<1>2. SUFFICES ASSUME NEW j \in Replicas
               PROVE  Heard(current'[j], round'[j])
  <2>1. \A type, r, vec : Backers(type, r, vec) \subseteq Backers(type, r, vec)'
    BY <1>1, BackersGrow
  <2> QED BY <1>2, <2>1 DEF VotesHeard
<1>3. Heard(current[j], round[j])
  BY DEF VotesHeard
<1>4. CASE j # i
  BY <1>1, <1>3, <1>4
<1>5. CASE j = i
  <2>1. CASE Idles
    BY <1>3, <2>1 DEF Idles
  <2>2. CASE SaysEstimate(i)
    BY <1>3, <2>2 DEF SaysEstimate
  <2>3. ASSUME NEW m, GivenMessage(m), NEW d, CountStep(i, m, d)
        PROVE  Heard(current'[i], round'[i])
    <3>1. /\ current'[i] = d /\ round'[i] = round[i] /\ m.round = round[i]
          /\ CountsOne(current[i], d, m)
      BY <1>1, <2>3 DEF CountStep
    <3>2. Heard(d, round[i])
      BY <1>3, <1>5, <2>3, <3>1, VotersBack DEF CountsOne
    <3> QED BY <3>1, <3>2
  <2>4. ASSUME NEW m, NEW e, LeaveStep(i, m, e)
        PROVE  Heard(current'[i], round'[i])
    BY <1>1, <2>4 DEF LeaveStep, NewRound
  <2> QED BY <1>5, <2>1, <2>2, <2>3, <2>4 DEF OwnStep, StepShape
<1> QED BY <1>4, <1>5
\* Every member casts its votes phase by phase, and at most once.
LEMMA CastKept ==
  ASSUME TypeOK, VotesOfPhase, OneVoteEach, FinishersStay, NEW i \in Replicas, OwnStep(i)
  PROVE  VotesOfPhase' /\ OneVoteEach' /\ FinishersStay'
<1>1. /\ sent \subseteq {x \in Messages : x.from \in Replicas /\ OneBit(x)}
      /\ sent \subseteq sent'
      /\ \A j \in Replicas : round[j] <= round'[j] /\ round[j] \in Nat /\ round'[j] \in Nat
      /\ \A j \in Replicas : j # i => round'[j] = round[j] /\ current'[j] = current[j]
      /\ round \in [Replicas -> Rounds] /\ current \in [Replicas -> RoundData]
  BY StepTypes, AgreementAssumption, SMTT(20) DEF TypeOK, Rounds
<1>2. \A x \in sent : x.round \in Nat /\ x.from \in Replicas
  BY <1>1, MessageFields
<1> DEFINE InPhase(x, r, state) ==
             /\ x.round <= r
             /\ x.round = r => /\ x.type = "Aux" => state # "CollectingVal"
                               /\ x.type = "Conf" => state \in {"CollectingConf", "Finishing"}
           Stays(x, r, state) == x.type = "Finish" => r = x.round /\ state = "Finishing"
<1>3. \A x \in sent : /\ InPhase(x, round[x.from], current[x.from].state)
                      /\ Stays(x, round[x.from], current[x.from].state)
  BY DEF VotesOfPhase, FinishersStay
<1>4. SUFFICES /\ \A x \in sent' : /\ InPhase(x, round'[x.from], current'[x.from].state)
                                   /\ Stays(x, round'[x.from], current'[x.from].state)
               /\ OneVoteEach'
  BY DEF VotesOfPhase, FinishersStay
<1>5. CASE sent' = sent /\ round'[i] = round[i] /\ PhaseKept(current[i], current'[i])
  <2>1. ASSUME NEW x \in sent
        PROVE  /\ InPhase(x, round'[x.from], current'[x.from].state)
               /\ Stays(x, round'[x.from], current'[x.from].state)
    BY <1>1, <1>2, <1>3, <1>5 DEF PhaseKept
  <2> QED BY <1>5, <2>1 DEF OneVoteEach
<1>6. ASSUME NEW x \in Messages, x.from = i, x.round = round[i], sent' = sent \cup {x},
             round'[i] = round[i], PhaseKept(current[i], current'[i]),
             \/ x.type = "Val"
             \/ /\ x.type = "Aux"
                /\ current[i].state = "CollectingVal" /\ current'[i].state = "CollectingAux"
             \/ /\ x.type = "Conf"
                /\ current[i].state = "CollectingAux" /\ current'[i].state = "CollectingConf"
             \/ x.type = "Finish" /\ current'[i].state = "Finishing"
      PROVE  /\ \A y \in sent' : /\ InPhase(y, round'[y.from], current'[y.from].state)
                                 /\ Stays(y, round'[y.from], current'[y.from].state)
             /\ OneVoteEach'
  <2>1. ASSUME NEW y \in sent
        PROVE  /\ InPhase(y, round'[y.from], current'[y.from].state)
               /\ Stays(y, round'[y.from], current'[y.from].state)
    BY <1>1, <1>2, <1>3, <1>6 DEF PhaseKept
  <2>2. /\ InPhase(x, round'[x.from], current'[x.from].state)
        /\ Stays(x, round'[x.from], current'[x.from].state)
    BY <1>1, <1>6
  <2>3. ASSUME NEW y \in sent, y.from = i, y.round = round[i], y.type = x.type,
               x.type \in {"Aux", "Conf"}
        PROVE  FALSE
    BY <1>3, <1>6, <2>3
  <2>4. OneVoteEach'
    BY <1>6, <2>3 DEF OneVoteEach
  <2> QED BY <1>6, <2>1, <2>2, <2>4
<1>7. CASE Idles
  <2>1. round'[i] = round[i] /\ current'[i] = current[i] /\ sent' = sent
    BY <1>7 DEF Idles
  <2> QED BY <1>5, <2>1 DEF PhaseKept
<1>8. CASE SaysEstimate(i)
  <2>1. round'[i] = round[i] /\ current'[i] = current[i]
    BY <1>8 DEF SaysEstimate
  <2>2. PhaseKept(current[i], current'[i])
    BY <2>1 DEF PhaseKept
  <2> QED BY <1>6, <1>8, <2>1, <2>2 DEF SaysEstimate
<1>9. ASSUME NEW m, NEW d, CountStep(i, m, d)
      PROVE  /\ \A x \in sent' : /\ InPhase(x, round'[x.from], current'[x.from].state)
                                 /\ Stays(x, round'[x.from], current'[x.from].state)
             /\ OneVoteEach'
  <2>1. current'[i] = d /\ round'[i] = round[i] /\ PhaseKept(current[i], current'[i])
    BY <1>1, <1>9 DEF CountStep
  <2>2. CASE sent' = sent
    BY <1>5, <2>1, <2>2
  <2>3. ASSUME NEW x, Replies(i, m, d, x), sent' = sent \cup {x}
        PROVE  /\ \A y \in sent' : /\ InPhase(y, round'[y.from], current'[y.from].state)
                                   /\ Stays(y, round'[y.from], current'[y.from].state)
               /\ OneVoteEach'
    <3>1. /\ x \in Messages /\ x.from = i /\ x.round = round[i]
          /\ \/ x.type = "Val"
             \/ /\ x.type = "Aux"
                /\ current[i].state = "CollectingVal" /\ current'[i].state = "CollectingAux"
             \/ /\ x.type = "Conf"
                /\ current[i].state = "CollectingAux" /\ current'[i].state = "CollectingConf"
             \/ x.type = "Finish" /\ current'[i].state = "Finishing"
      BY <2>1, <2>3 DEF Replies, VoteFor
    <3> QED BY <1>6, <2>1, <2>3, <3>1
  <2> QED BY <1>9, <2>2, <2>3 DEF CountStep
<1>10. ASSUME NEW m, NEW e, LeaveStep(i, m, e)
       PROVE  /\ \A x \in sent' : /\ InPhase(x, round'[x.from], current'[x.from].state)
                                  /\ Stays(x, round'[x.from], current'[x.from].state)
              /\ OneVoteEach'
  <2>1. /\ round'[i] = round[i] + 1 /\ sent' = sent /\ current[i].state # "Finishing"
    BY <1>1, <1>10 DEF LeaveStep
  <2>2. ASSUME NEW x \in sent
        PROVE  /\ InPhase(x, round'[x.from], current'[x.from].state)
               /\ Stays(x, round'[x.from], current'[x.from].state)
    BY <1>1, <1>2, <1>3, <2>1
  <2> QED BY <2>1, <2>2 DEF OneVoteEach
<1> QED BY <1>7, <1>8, <1>9, <1>10 DEF OwnStep, StepShape

\* More than n members behind a vote stay more than n.
LEMMA EnoughBackers ==
  ASSUME sent \subseteq sent', NEW type, NEW r, NEW vec, NEW n \in Nat,
         Cardinality(Backers(type, r, vec)) > n
  PROVE  Cardinality(Backers(type, r, vec)') > n
<1>1. /\ Backers(type, r, vec) \subseteq Backers(type, r, vec)'
      /\ Backers(type, r, vec)' \in SUBSET Nodes /\ Backers(type, r, vec) \in SUBSET Nodes
  BY BackersGrow, AgreementAssumption
<1>2. Cardinality(Backers(type, r, vec)) <= Cardinality(Backers(type, r, vec)')
  BY <1>1, FiniteParts
<1> QED BY <1>1, <1>2, FiniteParts

\* The voters whose count crosses a threshold are behind the vote.
LEMMA ThresholdBacked ==
  ASSUME TypeOK, NEW m, GivenMessage(m), NEW old, NEW type, NEW vec, NEW n \in Nat,
         VoteFor(m, type, vec), old \subseteq Backers(type, m.round, vec),
         Cardinality(old \cup {m.from}) > n
  PROVE  Cardinality(Backers(type, m.round, vec)) > n
<1>1. old \cup {m.from} \subseteq Backers(type, m.round, vec)
  BY SenderBacks DEF VoteFor
<1>2. Backers(type, m.round, vec) \in SUBSET Nodes
  BY AgreementAssumption DEF Backers, Said
<1>3. /\ Cardinality(old \cup {m.from}) <= Cardinality(Backers(type, m.round, vec))
      /\ Cardinality(old \cup {m.from}) \in Nat /\ Cardinality(Backers(type, m.round, vec)) \in Nat
  BY <1>1, <1>2, FiniteParts
<1> QED BY <1>3
\* When the other members are faulty, a correct one is behind more than F votes.
LEMMA ReplicaSaid ==
  ASSUME OthersFaulty, NEW type, NEW r, NEW vec, Cardinality(Backers(type, r, vec)) > F
  PROVE  \E k \in Replicas : Message(type, k, r, vec) \in sent
<1>1. Backers(type, r, vec) \in SUBSET Nodes
  BY AgreementAssumption DEF Backers, Said
<1>2. PICK k \in Correct : k \in Backers(type, r, vec)
  BY <1>1, CorrectAmong
<1> QED BY <1>2 DEF OthersFaulty, Correct, Backers, Said

LEMMA QuorumsKept ==
  ASSUME OthersFaulty, TypeOK, VotesHeard, QuorumsBehind, NEW i \in Replicas, OwnStep(i)
  PROVE  QuorumsBehind'
<1>1. /\ sent \subseteq sent' /\ F \in Nat /\ 2 * F \in Nat
      /\ decided \in [Replicas -> SUBSET Bits]
  BY StepTypes, QuorumAssumption DEF TypeOK
<1> DEFINE Confirmed(x) ==
             x.type = "Finish" => Cardinality(Backers("Conf", x.round, x.vec)) > 2 * F
           Finished(v) == \E r \in Rounds : Cardinality(Backers("Finish", r, <<v>>)) > 2 * F
<1>2. ASSUME \A x \in sent' : x \in sent \/ Confirmed(x),
             \A j \in Replicas : \A v \in decided'[j] : v \in decided[j] \/ Finished(v)
      PROVE  QuorumsBehind'
  <2>1. ASSUME NEW x \in sent', x.type = "Finish"
        PROVE  Cardinality(Backers("Conf", x.round, x.vec)') > 2 * F
    <3>1. Confirmed(x)
      BY <1>2 DEF QuorumsBehind
    <3>2. Cardinality(Backers("Conf", x.round, x.vec)) > 2 * F
      BY <2>1, <3>1
    <3> QED BY <1>1, <3>2, EnoughBackers
  <2>2. ASSUME NEW j \in Replicas, NEW v \in decided'[j]
        PROVE  \E r \in Rounds : Cardinality(Backers("Finish", r, <<v>>)') > 2 * F
    <3>1. PICK r \in Rounds : Cardinality(Backers("Finish", r, <<v>>)) > 2 * F
      BY <1>2 DEF QuorumsBehind
    <3> QED BY <1>1, <3>1, EnoughBackers
  <2> QED BY <2>1, <2>2 DEF QuorumsBehind
<1> HIDE DEF Confirmed, Finished
<1>3. CASE UNCHANGED <<sent, decided>>
  BY <1>2, <1>3
<1>4. CASE SaysEstimate(i)
  BY <1>2, <1>4 DEF SaysEstimate, Confirmed
<1>5. ASSUME NEW m, GivenMessage(m), NEW d, CountStep(i, m, d)
      PROVE  QuorumsBehind'
  <2>1. m.round = round[i] /\ round[i] \in Rounds
    BY <1>5 DEF CountStep, TypeOK
  <2>2. /\ \A v \in Vectors : current[i].receivedConf[v] \subseteq Backers("Conf", m.round, v)
        /\ \A b \in Bits : current[i].receivedFinish[b] \subseteq Backers("Finish", m.round, <<b>>)
    BY <2>1 DEF VotesHeard
  <2>3. ASSUME NEW b \in Bits, ConfsBehind(current[i], m, <<b>>)
        PROVE  Cardinality(Backers("Conf", round[i], <<b>>)) > 2 * F
    <3>1. <<b>> \in Vectors
      BY VectorsAssumption
    <3> QED BY <1>1, <1>5, <2>1, <2>2, <2>3, <3>1, ThresholdBacked DEF ConfsBehind
  <2>4. ASSUME NEW b \in Bits, NEW n \in Nat, FinishesBehind(current[i], m, b, n)
        PROVE  Cardinality(Backers("Finish", round[i], <<b>>)) > n
    BY <1>5, <2>1, <2>2, <2>4, ThresholdBacked DEF FinishesBehind
  <2>5. ASSUME NEW x, Replies(i, m, d, x)
        PROVE  Confirmed(x)
    <3> SUFFICES ASSUME x.type = "Finish"
                 PROVE  Cardinality(Backers("Conf", x.round, x.vec)) > 2 * F
      BY DEF Confirmed
    <3>1. PICK b \in Bits :
            /\ x.vec = <<b>> /\ x.round = round[i]
            /\ ConfsBehind(current[i], m, <<b>>) \/ FinishesBehind(current[i], m, b, F)
      BY <2>5 DEF Replies, VoteFor
    <3>2. CASE ConfsBehind(current[i], m, <<b>>)
      BY <2>3, <3>1, <3>2
    <3>3. CASE FinishesBehind(current[i], m, b, F)
      <4>1. PICK k \in Replicas : Message("Finish", k, round[i], <<b>>) \in sent
        BY <1>1, <2>4, <3>3, ReplicaSaid
      <4> QED BY <3>1, <4>1 DEF QuorumsBehind, Message
    <3> QED BY <3>1, <3>2, <3>3
  <2>6. \A x \in sent' : x \in sent \/ Confirmed(x)
    BY <1>5, <2>5 DEF CountStep
  <2>7. ASSUME NEW j \in Replicas, NEW v \in decided'[j]
        PROVE  v \in decided[j] \/ Finished(v)
    <3>1. CASE decided' = decided
      BY <3>1
    <3>2. ASSUME NEW b \in Bits, decided' = [decided EXCEPT ![i] = @ \cup {b}],
                 FinishesBehind(current[i], m, b, 2 * F)
          PROVE  v \in decided[j] \/ Finished(v)
      <4>1. Finished(b)
        BY <1>1, <2>1, <2>4, <3>2 DEF Finished
      <4> QED BY <1>1, <3>2, <4>1
    <3> QED BY <1>5, <3>1, <3>2 DEF CountStep
  <2> QED BY <1>2, <2>6, <2>7
<1>6. ASSUME NEW m, NEW e, LeaveStep(i, m, e)
      PROVE  QuorumsBehind'
  BY <1>3, <1>6 DEF LeaveStep
<1> QED BY <1>3, <1>4, <1>5, <1>6 DEF OwnStep, StepShape, Idles

-----------------------------------------------------------------------------
(***************************************************************************)
(* The queue: nothing that was handed over is lost.                        *)
(***************************************************************************)

PendingHanded ==
  \A i \in Replicas : \A m \in Messages : Holds(pending[i], m) => m \in handed[i]

LEMMA PendingIsQueue ==
  ASSUME NEW q
  PROVE  /\ q \in PendingQueues => q \in Queues(Messages) /\ q.base \in Rounds /\ q.base \in Nat
         /\ q \in Queues(Messages) /\ q.base \in Rounds => q \in PendingQueues
<1>1. Rounds \subseteq Nat
  BY AgreementAssumption DEF Rounds
<1> QED BY <1>1 DEF PendingQueues, Queues

\* A counted vote stays counted, and a phase that is over stays over.
LEMMA ServedStays ==
  ASSUME TypeOK, NEW i \in Replicas, OwnStep(i), NEW j \in Replicas,
         NEW x \in Messages, OneBit(x), Served(j, x)
  PROVE  Served(j, x)'
<1>1. /\ round[j] <= round'[j] /\ round[j] \in Nat /\ round'[j] \in Nat /\ x.round \in Nat
      /\ j # i => round'[j] = round[j] /\ current'[j] = current[j]
      /\ round \in [Replicas -> Rounds] /\ current \in [Replicas -> RoundData]
  BY StepTypes, MessageFields, AgreementAssumption DEF TypeOK, Rounds
<1>2. x.round < round[j] \/ (x.round = round[j] /\ ServedIn(current[j], x))
  BY DEF Served, ServedIn
<1>3. SUFFICES x.round < round'[j] \/ (x.round = round'[j] /\ ServedIn(current'[j], x))
  BY DEF Served, ServedIn
<1>4. CASE round'[j] = round[j] /\ current'[j] = current[j]
  BY <1>2, <1>4
<1>5. ASSUME j = i, NEW m, NEW d, CountStep(i, m, d), x.round = round[j]
      PROVE  x.round = round'[j] /\ ServedIn(current'[j], x)
  <2>1. /\ current'[i] = d /\ round'[i] = round[i] /\ PhaseKept(current[i], d)
        /\ CountsOne(current[i], d, m) /\ ServedIn(current[i], x)
    BY <1>1, <1>2, <1>5 DEF CountStep
  <2>2. x.vec \in Vectors /\ (x.type \in {"Val", "Finish"} => x.vec[1] \in Bits)
    BY MessageFields, OneBitVector
  <2>3. /\ \A b \in Bits : /\ current[i].receivedVals[b] \subseteq d.receivedVals[b]
                           /\ current[i].receivedFinish[b] \subseteq d.receivedFinish[b]
        /\ \A v \in Vectors : /\ current[i].receivedAux[v] \subseteq d.receivedAux[v]
                              /\ current[i].receivedConf[v] \subseteq d.receivedConf[v]
    BY <2>1 DEF CountsOne, VotersWith
  <2>4. x.type \in {"Val", "Aux", "Conf", "Finish"}
    BY MessageFields
  <2> QED BY <1>5, <2>1, <2>2, <2>3, <2>4 DEF ServedIn, PhaseKept
<1>6. ASSUME j = i, NEW m, NEW e, LeaveStep(i, m, e)
      PROVE  x.round < round'[j]
  BY <1>1, <1>2, <1>6 DEF LeaveStep
<1>7. ASSUME j = i, NEW m, NEW d, CountStep(i, m, d), x.round < round[j]
      PROVE  x.round < round'[j]
  BY <1>1, <1>7
<1> QED BY <1>1, <1>2, <1>4, <1>5, <1>6, <1>7 DEF OwnStep, StepShape, Idles, SaysEstimate

\* A message the replica was given, its queue being q, is kept with all the others.
LEMMA GivenIsKept ==
  ASSUME TypeOK, PendingHanded, QueueAligned, NothingLost,
         NEW i \in Replicas, NEW m \in Messages, OneBit(m), NEW q \in PendingQueues,
         Aligned(q), q.base <= round[i],
         \A x : Holds(q, x) => Holds(pending[i], x),
         \A x \in handed[i] : Holds(q, x) \/ x = m \/ Served(i, x),
         QueueStep(i, m, q), Kept(i, m, q), OwnStep(i),
         \A j \in Replicas : handed'[j] = IF j = i THEN handed[i] \cup {m} ELSE handed[j]
  PROVE  /\ pending' \in [Replicas -> PendingQueues]
         /\ PendingHanded' /\ QueueAligned' /\ NothingLost'
<1>1. /\ \A j \in Replicas : round[j] <= round'[j] /\ round[j] \in Nat /\ round'[j] \in Nat
      /\ m.round \in Nat /\ q \in Queues(Messages) /\ q.base \in Nat /\ q.base \in Rounds
      /\ pending \in [Replicas -> PendingQueues]
      /\ \A j \in Replicas : handed[j] \subseteq Messages /\ \A x \in handed[j] : OneBit(x)
  BY StepTypes, MessageFields, PendingIsQueue, AgreementAssumption, SMTT(20) DEF TypeOK, Rounds, PendingQueues
<1> DEFINE new == pending'[i]
<1>2. /\ new \in PendingQueues /\ new.base = q.base /\ Aligned(new)
      /\ pending' = [pending EXCEPT ![i] = new]
      /\ \A x : Holds(q, x) => Holds(new, x)
      /\ \A x : Holds(new, x) => Holds(q, x) \/ x = m
      /\ m.round >= round[i] /\ pending' = [pending EXCEPT ![i] = AddMessage(q, m.round, m)]
           => Holds(new, m)
  <2> DEFINE added == AddMessage(q, m.round, m)
  <2>1. ASSUME m.round >= round[i]
        PROVE  /\ added \in PendingQueues /\ added.base = q.base /\ Aligned(added)
               /\ \A x : Holds(added, x) <=> Holds(q, x) \/ x = m
    <3>1. m.round >= q.base
      BY <1>1, <2>1
    <3> HIDE DEF added
    <3>2. /\ added \in Queues(Messages) /\ added.base = q.base /\ Aligned(added)
          /\ \A x : Holds(added, x) <=> Holds(q, x) \/ x = m
      BY <1>1, <3>1, AddMessageAdds DEF added
    <3> QED BY <1>1, <3>2, PendingIsQueue
  <2> HIDE DEF added
  <2>2. CASE m.round >= round[i] /\ pending' = [pending EXCEPT ![i] = added]
    <3>1. pending'[i] = added
      BY <1>1, <2>2
    <3> QED BY <2>1, <2>2, <3>1
  <2>3. CASE /\ pending' = [pending EXCEPT ![i] = q]
             /\ ~(m.round >= round[i] /\ pending' = [pending EXCEPT ![i] = added])
    <3>1. pending'[i] = q
      BY <1>1, <2>3
    <3> QED BY <2>3, <3>1 DEF added
  <2> QED BY <2>2, <2>3 DEF QueueStep, added
<1> HIDE DEF new
<1>3. /\ \A j \in Replicas : j # i => pending'[j] = pending[j]
      /\ pending' \in [Replicas -> PendingQueues]
  BY <1>1, <1>2
<1>4. PendingHanded'
  <2> SUFFICES ASSUME NEW j \in Replicas, NEW x \in Messages, Holds(pending'[j], x)
               PROVE  x \in handed'[j]
    BY DEF PendingHanded
  <2>1. CASE j = i
    BY <1>2, <2>1 DEF PendingHanded, new
  <2>2. CASE j # i
    BY <1>3, <2>2 DEF PendingHanded
  <2> QED BY <2>1, <2>2
<1>5. QueueAligned'
  <2> SUFFICES ASSUME NEW j \in Replicas
               PROVE  Aligned(pending'[j]) /\ pending'[j].base <= round'[j]
    BY DEF QueueAligned, Aligned
  <2>1. CASE j = i
    BY <1>1, <1>2, <2>1 DEF new
  <2>2. CASE j # i
    <3>1. Aligned(pending[j]) /\ pending[j].base <= round[j] /\ pending[j].base \in Nat
      BY <1>1, PendingIsQueue DEF QueueAligned
    <3> QED BY <1>1, <1>3, <2>2, <3>1
  <2> QED BY <2>1, <2>2
<1>6. NothingLost'
  <2> SUFFICES ASSUME NEW j \in Replicas, NEW x \in handed'[j]
               PROVE  Holds(pending'[j], x) \/ Served(j, x)'
    BY DEF NothingLost, Holds
  <2>1. CASE j # i
    <3>1. Holds(pending[j], x) \/ Served(j, x)
      BY <2>1 DEF NothingLost
    <3> QED BY <1>1, <1>3, <2>1, <3>1, ServedStays
  <2>2. CASE j = i /\ x # m
    <3>1. Holds(q, x) \/ Served(i, x)
      BY <2>2
    <3> QED BY <1>1, <1>2, <2>2, <3>1, ServedStays DEF new
  <2>3. CASE j = i /\ x = m
    <3>1. Holds(new, m) \/ m.round < round'[i] \/ (m.round = round'[i] /\ ServedIn(current'[i], m))
      BY <1>2 DEF Kept
    <3>2. Holds(new, m) \/ Served(i, m)'
      BY <3>1 DEF Served, ServedIn
    <3> QED BY <2>3, <3>2 DEF new, Served
  <2> QED BY <2>1, <2>2, <2>3
<1> QED BY <1>3, <1>4, <1>5, <1>6

-----------------------------------------------------------------------------
(***************************************************************************)
(* The invariant.                                                          *)
(***************************************************************************)

\* What holds whoever is faulty.
BaseInv ==
  /\ TypeOK /\ PendingHanded /\ QueueAligned /\ NothingLost
  /\ VotesHeard /\ VotesOfPhase /\ OneVoteEach /\ FinishersStay

\* What a step of replica i does to its queue and to its votes.
StepKeeps(i) ==
  OwnStep(i) /\ TypeOK' /\ PendingHanded' /\ QueueAligned' /\ NothingLost'

LEMMA TypesKept ==
  ASSUME TypeOK, NEW i \in Replicas, OwnStep(i),
         pending' \in [Replicas -> PendingQueues], panicked' \in [Replicas -> BOOLEAN],
         UNCHANGED <<input, coin>>, handed' \in [Replicas -> SUBSET Messages],
         \A j \in Replicas : handed'[j] \subseteq sent \cup EnvMessages[j]
  PROVE  TypeOK'
<1>1. /\ round' \in [Replicas -> Rounds] /\ current' \in [Replicas -> RoundData]
      /\ decided' \in [Replicas -> SUBSET Bits] /\ sent \subseteq sent'
      /\ sent' \subseteq {x \in Messages : x.from \in Replicas /\ OneBit(x)}
  BY StepTypes
<1> QED BY <1>1 DEF TypeOK, PendingQueues

\* The queue of a replica may be replaced by one that dropped what was served.
LEMMA DroppedIsServed ==
  ASSUME BaseInv, NEW i \in Replicas, ~DrainPanics(pending[i], round[i])
  PROVE  LET q == DrainTo(pending[i], round[i]) IN
         /\ q \in PendingQueues /\ Aligned(q) /\ q.base = round[i]
         /\ \A x : Holds(q, x) => Holds(pending[i], x)
         /\ \A x \in handed[i] : Holds(q, x) \/ Served(i, x)
<1> DEFINE q == DrainTo(pending[i], round[i])
<1>1. /\ pending[i] \in PendingQueues /\ pending[i] \in Queues(Messages)
      /\ round[i] \in Nat /\ round[i] \in Rounds /\ pending[i].base \in Nat
      /\ Aligned(pending[i]) /\ pending[i].base <= round[i] /\ handed[i] \subseteq Messages
  BY PendingIsQueue, AgreementAssumption DEF BaseInv, TypeOK, QueueAligned, PendingQueues, Rounds
<1>2. /\ q \in Queues(Messages) /\ q.base >= round[i] /\ q.base \in {pending[i].base, round[i]}
      /\ Aligned(q) /\ \A x : Holds(q, x) => Holds(pending[i], x)
      /\ \A x : Holds(pending[i], x) /\ x.round >= round[i] => Holds(q, x)
  BY <1>1, DrainKeepsTheRest
<1> HIDE DEF q
<1>3. q.base = round[i] /\ q \in PendingQueues
  BY <1>1, <1>2, PendingIsQueue
<1>4. ASSUME NEW x \in handed[i]
      PROVE  Holds(q, x) \/ Served(i, x)
  <2>1. x.round \in Nat /\ (Holds(pending[i], x) \/ Served(i, x))
    BY <1>1, MessageFields DEF BaseInv, NothingLost
  <2>2. x.round < round[i] => Served(i, x)
    BY DEF Served
  <2> QED BY <1>1, <1>2, <2>1, <2>2
<1> QED BY <1>2, <1>3, <1>4 DEF q

LEMMA HandedIsGiven ==
  ASSUME TypeOK, NEW i \in Replicas, NEW m \in sent \cup EnvMessages[i]
  PROVE  m \in Messages /\ OneBit(m) /\ GivenMessage(m)
  BY AgreementAssumption DEF TypeOK, GivenMessage

\* Processing a message that is, or has just been, handed over.
LEMMA ProcessKeeps ==
  ASSUME BaseInv, NEW i \in Replicas, NEW m \in sent \cup EnvMessages[i],
         NEW q \in PendingQueues, Aligned(q), q.base <= round[i],
         \A x : Holds(q, x) => Holds(pending[i], x),
         \A x \in handed[i] : Holds(q, x) \/ x = m \/ Served(i, x),
         ProcessMessage(i, m, q), UNCHANGED <<input, coin>>,
         handed' = [handed EXCEPT ![i] = @ \cup {m}]
  PROVE  StepKeeps(i)
<1>1. m \in Messages /\ OneBit(m) /\ GivenMessage(m) /\ TypeOK
  BY HandedIsGiven DEF BaseInv
<1>2. /\ QueueStep(i, m, q) /\ panicked' \in [Replicas -> BOOLEAN]
      /\ StepShape(i, m) /\ Kept(i, m, q)
  BY <1>1, ProcessShape
<1>3. OwnStep(i)
  BY <1>1, <1>2 DEF OwnStep
<1>4. /\ handed \in [Replicas -> SUBSET Messages]
      /\ \A j \in Replicas : handed[j] \subseteq sent \cup EnvMessages[j]
  BY <1>1 DEF TypeOK
<1>5. /\ handed' \in [Replicas -> SUBSET Messages]
      /\ \A j \in Replicas : handed'[j] = IF j = i THEN handed[i] \cup {m} ELSE handed[j]
  BY <1>1, <1>4
<1>6. \A j \in Replicas : handed'[j] \subseteq sent \cup EnvMessages[j]
  BY <1>4, <1>5
<1>7. /\ pending' \in [Replicas -> PendingQueues]
      /\ PendingHanded' /\ QueueAligned' /\ NothingLost'
  BY <1>1, <1>2, <1>3, <1>5, GivenIsKept DEF BaseInv
<1>8. TypeOK'
  BY <1>1, <1>2, <1>3, <1>5, <1>6, <1>7, TypesKept
<1> QED BY <1>3, <1>7, <1>8 DEF StepKeeps

LEMMA DeliverKeeps ==
  ASSUME BaseInv, NEW i \in Replicas, NEW m, Deliver(i, m) \/ DeliverEnv(i, m)
  PROVE  StepKeeps(i)
<1>1. /\ m \in sent \cup EnvMessages[i]
      /\ ProcessMessage(i, m, pending[i]) /\ UNCHANGED <<input, coin>>
      /\ handed' = [handed EXCEPT ![i] = @ \cup {m}]
  BY DEF Deliver, DeliverEnv
<1>2. pending[i] \in PendingQueues /\ Aligned(pending[i]) /\ pending[i].base <= round[i]
  BY DEF BaseInv, TypeOK, QueueAligned, PendingQueues
<1>3. \A x \in handed[i] : Holds(pending[i], x) \/ Served(i, x)
  BY DEF BaseInv, NothingLost
<1> QED BY <1>1, <1>2, <1>3, ProcessKeeps

\* Steps that process no message.
LEMMA QuietKeeps ==
  ASSUME BaseInv, NEW i \in Replicas, OwnStep(i), UNCHANGED <<input, handed, coin>>,
         panicked' \in [Replicas -> BOOLEAN], round' = round, current' = current,
         NEW q \in PendingQueues, pending' = [pending EXCEPT ![i] = q],
         Aligned(q), q.base <= round[i],
         \A x : Holds(q, x) => Holds(pending[i], x),
         \A x \in handed[i] : Holds(q, x) \/ Served(i, x)
  PROVE  StepKeeps(i)
<1>1. /\ TypeOK /\ pending \in [Replicas -> PendingQueues]
      /\ handed \in [Replicas -> SUBSET Messages]
      /\ \A j \in Replicas : handed[j] \subseteq sent \cup EnvMessages[j]
  BY DEF BaseInv, TypeOK, PendingQueues
<1>2. /\ pending' \in [Replicas -> PendingQueues] /\ pending'[i] = q
      /\ \A j \in Replicas : j # i => pending'[j] = pending[j]
  BY <1>1
<1>3. TypeOK'
  BY <1>1, <1>2, TypesKept
<1>4. PendingHanded'
  BY <1>2 DEF BaseInv, PendingHanded
<1>5. QueueAligned'
  <2> SUFFICES ASSUME NEW j \in Replicas
               PROVE  Aligned(pending'[j]) /\ pending'[j].base <= round[j]
    BY DEF QueueAligned, Aligned
  <2>1. Aligned(pending[j]) /\ pending[j].base <= round[j]
    BY DEF BaseInv, QueueAligned
  <2> QED BY <1>2, <2>1
<1>6. NothingLost'
  <2> SUFFICES ASSUME NEW j \in Replicas, NEW x \in handed[j]
               PROVE  Holds(pending'[j], x) \/ Served(j, x)
    BY DEF NothingLost, Holds, Served
  <2>1. Holds(pending[j], x) \/ Served(j, x)
    BY DEF BaseInv, NothingLost
  <2> QED BY <1>2, <2>1
<1> QED BY <1>3, <1>4, <1>5, <1>6 DEF StepKeeps

LEMMA PollKeeps ==
  ASSUME BaseInv, NEW i \in Replicas, Poll(i)
  PROVE  StepKeeps(i)
<1> DEFINE q == DrainTo(pending[i], round[i])
<1>1. /\ TypeOK /\ pending \in [Replicas -> PendingQueues] /\ handed \in [Replicas -> SUBSET Messages]
      /\ panicked \in [Replicas -> BOOLEAN]
      /\ \A j \in Replicas : handed[j] \subseteq sent \cup EnvMessages[j]
  BY DEF BaseInv, TypeOK, PendingQueues
<1>2. ~DrainPanics(pending[i], round[i]) =>
        /\ q \in PendingQueues /\ Aligned(q) /\ q.base = round[i] /\ q.base <= round[i]
        /\ \A x : Holds(q, x) => Holds(pending[i], x)
        /\ \A x \in handed[i] : Holds(q, x) \/ Served(i, x)
  <2>1. round[i] \in Nat
    BY <1>1, AgreementAssumption DEF TypeOK, Rounds
  <2> QED BY <2>1, DroppedIsServed
<1> HIDE DEF q
<1>3. CASE PollPanics(i)
  <2>1. /\ panicked' \in [Replicas -> BOOLEAN] /\ OwnStep(i)
        /\ UNCHANGED <<input, round, current, pending, decided, sent, handed, coin>>
    BY <1>1, <1>3 DEF PollPanics, OwnStep, Idles
  <2>2. pending[i] \in PendingQueues /\ pending' = [pending EXCEPT ![i] = pending[i]]
    BY <1>1, <2>1
  <2>3. Aligned(pending[i]) /\ pending[i].base <= round[i]
    BY DEF BaseInv, QueueAligned
  <2>4. \A x \in handed[i] : Holds(pending[i], x) \/ Served(i, x)
    BY DEF BaseInv, NothingLost
  <2> QED BY <2>1, <2>2, <2>3, <2>4, QuietKeeps
<1>4. CASE PollNone(i)
  <2>1. /\ panicked' \in [Replicas -> BOOLEAN] /\ OwnStep(i) /\ ~DrainPanics(pending[i], round[i])
        /\ pending' = [pending EXCEPT ![i] = q]
        /\ UNCHANGED <<input, round, current, decided, sent, handed, coin>>
    BY <1>1, <1>4 DEF PollNone, OwnStep, Idles, q
  <2> QED BY <1>2, <2>1, QuietKeeps
<1>5. CASE PollMessage(i)
  <2> DEFINE m   == Top(q)
             new == WithoutTop(q)
  <2>1. /\ ~DrainPanics(pending[i], round[i]) /\ ~NothingToPop(q)
        /\ ProcessMessage(i, m, new) /\ UNCHANGED <<input, handed, coin>>
    BY <1>5 DEF PollMessage, q
  <2>2. q \in Queues(Messages) /\ q.base \in Rounds /\ Aligned(q) /\ q.base <= round[i]
    BY <1>2, <2>1, PendingIsQueue
  <2>3. /\ m \in Messages /\ Holds(q, m) /\ new \in Queues(Messages) /\ new.base = q.base
        /\ \A x : Holds(new, x) => Holds(q, x)
        /\ \A x : Holds(q, x) => x = m \/ Holds(new, x)
        /\ Aligned(new)
    BY <2>1, <2>2, PopTakesOne
  <2> HIDE DEF m, new
  <2>4. m \in handed[i]
    BY <1>2, <2>1, <2>3 DEF BaseInv, PendingHanded
  <2>5. m \in sent \cup EnvMessages[i] /\ handed' = [handed EXCEPT ![i] = @ \cup {m}]
    BY <1>1, <2>1, <2>4
  <2>6. new \in PendingQueues /\ new.base <= round[i]
    BY <2>2, <2>3, PendingIsQueue
  <2>7. \A x : Holds(new, x) => Holds(pending[i], x)
    BY <1>2, <2>1, <2>3
  <2>8. \A x \in handed[i] : Holds(new, x) \/ x = m \/ Served(i, x)
    BY <1>2, <2>1, <2>3
  <2> QED BY <2>1, <2>3, <2>5, <2>6, <2>7, <2>8, ProcessKeeps
<1> QED BY <1>3, <1>4, <1>5 DEF Poll

LEMMA AnnounceKeeps ==
  ASSUME BaseInv, NEW i \in Replicas, Announce(i)
  PROVE  StepKeeps(i)
<1> DEFINE x == Message("Val", i, round[i], <<current[i].estimate>>)
<1>1. /\ TypeOK /\ pending \in [Replicas -> PendingQueues] /\ panicked \in [Replicas -> BOOLEAN]
      /\ current[i] \in RoundData /\ round[i] \in Rounds /\ i \in Nodes
  BY AgreementAssumption DEF BaseInv, TypeOK, PendingQueues
<1>2. current[i].estimate \in Bits /\ <<current[i].estimate>> \in Vectors
  BY <1>1, RoundFields, VectorsAssumption
<1>3. /\ x \in Messages /\ x.type = "Val" /\ x.from = i /\ x.round = round[i]
      /\ x.vec = <<current[i].estimate>>
  BY <1>1, <1>2, MessageIsOne
<1>4. OneBit(x)
  BY <1>3 DEF OneBit
<1>5. /\ sent' = sent \cup {x}
      /\ UNCHANGED <<input, round, current, pending, panicked, decided, handed, coin>>
  BY DEF Announce
<1> HIDE DEF x
<1>6. OwnStep(i)
  BY <1>3, <1>4, <1>5 DEF OwnStep, SaysEstimate
<1>7. pending[i] \in PendingQueues /\ pending' = [pending EXCEPT ![i] = pending[i]]
  BY <1>1, <1>5
<1>8. Aligned(pending[i]) /\ pending[i].base <= round[i]
  BY DEF BaseInv, QueueAligned
<1>9. \A y \in handed[i] : Holds(pending[i], y) \/ Served(i, y)
  BY DEF BaseInv, NothingLost
<1> QED BY <1>1, <1>5, <1>6, <1>7, <1>8, <1>9, QuietKeeps

LEMMA NextKeeps ==
  ASSUME BaseInv, Next
  PROVE  \E i \in Replicas : StepKeeps(i)
  BY DeliverKeeps, PollKeeps, AnnounceKeeps DEF Next

LEMMA InitBase ==
  ASSUME Init
  PROVE  BaseInv /\ QuorumsBehind
<1>1. /\ input \in Inputs /\ input \in [Replicas -> Bits] /\ 0 \in Rounds
      /\ round = [i \in Replicas |-> 0] /\ current = [i \in Replicas |-> NewRound(input[i])]
      /\ pending = [i \in Replicas |-> EmptyQueue] /\ panicked = [i \in Replicas |-> FALSE]
      /\ decided = [i \in Replicas |-> {}] /\ sent = {} /\ handed = [i \in Replicas |-> {}]
      /\ coin \in [Rounds -> Bits]
  BY AgreementAssumption DEF Init, Rounds
<1>2. EmptyQueue.base = 0 /\ EmptyQueue.rounds = <<>> /\ Len(EmptyQueue.rounds) = 0
      /\ EmptyQueue \in PendingQueues
  BY <1>1 DEF EmptyQueue, PendingQueues
<1>3. TypeOK
  <2>1. \A i \in Replicas : NewRound(input[i]) \in RoundData
    BY <1>1, NewRoundIsData
  <2> QED BY <1>1, <1>2, <2>1 DEF TypeOK, PendingQueues
<1>4. \A x : ~Holds(EmptyQueue, x)
  BY <1>2 DEF Holds
<1>5. PendingHanded
  BY <1>1, <1>4 DEF PendingHanded
<1>6. QueueAligned
  BY <1>1, <1>2 DEF QueueAligned, Aligned
<1>7. VotesHeard
  BY <1>1 DEF VotesHeard, NewRound
<1>8. NothingLost /\ VotesOfPhase /\ OneVoteEach /\ FinishersStay /\ QuorumsBehind
  BY <1>1 DEF NothingLost, VotesOfPhase, OneVoteEach, FinishersStay, QuorumsBehind
<1> QED BY <1>3, <1>5, <1>6, <1>7, <1>8 DEF BaseInv

LEMMA StutterKeeps ==
  ASSUME UNCHANGED vars
  PROVE  (BaseInv => BaseInv') /\ (QuorumsBehind => QuorumsBehind')
<1>1. UNCHANGED <<input, round, current, pending, panicked, decided, sent, handed, coin>>
  BY DEF vars
<1>2. TypeOK => TypeOK'
  BY <1>1 DEF TypeOK
<1>3. (PendingHanded => PendingHanded') /\ (QueueAligned => QueueAligned')
  BY <1>1 DEF PendingHanded, QueueAligned
<1>4. NothingLost => NothingLost'
  BY <1>1 DEF NothingLost, Served
<1>5. (VotesHeard => VotesHeard') /\ (QuorumsBehind => QuorumsBehind')
  BY <1>1 DEF VotesHeard, QuorumsBehind, Backers, Said
<1>6. /\ VotesOfPhase => VotesOfPhase'
      /\ OneVoteEach => OneVoteEach'
      /\ FinishersStay => FinishersStay'
  BY <1>1 DEF VotesOfPhase, OneVoteEach, FinishersStay
<1>7. ASSUME BaseInv
      PROVE  BaseInv'
  <2>1. TypeOK' /\ PendingHanded' /\ QueueAligned' /\ NothingLost'
    BY <1>2, <1>3, <1>4, <1>7 DEF BaseInv
  <2>2. VotesHeard' /\ VotesOfPhase' /\ OneVoteEach' /\ FinishersStay'
    BY <1>5, <1>6, <1>7 DEF BaseInv
  <2> QED BY <2>1, <2>2 DEF BaseInv
<1> QED BY <1>5, <1>7

LEMMA BaseKept ==
  ASSUME BaseInv, NEW i \in Replicas, StepKeeps(i)
  PROVE  BaseInv'
<1>1. VotesHeard'
  BY HeardKept DEF BaseInv, StepKeeps
<1>2. VotesOfPhase' /\ OneVoteEach' /\ FinishersStay'
  BY CastKept DEF BaseInv, StepKeeps
<1> QED BY <1>1, <1>2 DEF BaseInv, StepKeeps

\* Whoever is faulty and whatever is delivered: the types, the queue and its promise
\* to lose nothing, one vote of a phase each, and that finishers stay.
THEOREM BaseInvariance == Spec => []BaseInv
<1>1. Init => BaseInv
  BY InitBase
<1>2. BaseInv /\ [Next]_vars => BaseInv'
  BY NextKeeps, BaseKept, StutterKeeps
<1> QED BY <1>1, <1>2, PTL DEF Spec

\* Every field keeps its type.
THEOREM TypeCorrect == Spec => []TypeOK
<1>1. BaseInv => TypeOK
  BY DEF BaseInv
<1> QED BY <1>1, BaseInvariance, PTL

\* The queue never mixes rounds (PendingMessages).
THEOREM QueuesAligned == Spec => []QueueAligned
<1>1. BaseInv => QueueAligned
  BY DEF BaseInv
<1> QED BY <1>1, BaseInvariance, PTL

\* A message that was handed over waits, was counted or came too late, through every
\* poll and every advance of the round.
THEOREM NothingIsLost == Spec => []NothingLost
<1>1. BaseInv => NothingLost
  BY DEF BaseInv
<1> QED BY <1>1, BaseInvariance, PTL

\* One AUX and one CONF in a round (accept_estimate, accept_auxiliary).
THEOREM VotesOnce == Spec => []OneVoteEach
<1>1. BaseInv => OneVoteEach
  BY DEF BaseInv
<1> QED BY <1>1, BaseInvariance, PTL

\* A replica that broadcast FINISH does not leave the round.
THEOREM FinishersNeverLeave == Spec => []FinishersStay
<1>1. BaseInv => FinishersStay
  BY DEF BaseInv
<1> QED BY <1>1, BaseInvariance, PTL

-----------------------------------------------------------------------------
(***************************************************************************)
(* Agreement.                                                              *)
(***************************************************************************)

LEMMA QuorumStep ==
  ASSUME OthersFaulty, BaseInv, QuorumsBehind, [Next]_vars
  PROVE  QuorumsBehind'
<1>1. ASSUME NEW i \in Replicas, StepKeeps(i)
      PROVE  QuorumsBehind'
    BY <1>1, QuorumsKept DEF BaseInv, StepKeeps
<1> QED BY <1>1, NextKeeps, StutterKeeps

THEOREM SafetyInvariance ==
  ASSUME OthersFaulty
  PROVE  Spec => [](BaseInv /\ QuorumsBehind)
<1>1. Init => BaseInv /\ QuorumsBehind
  BY InitBase
<1>2. BaseInv /\ QuorumsBehind /\ [Next]_vars => (BaseInv /\ QuorumsBehind)'
  BY QuorumStep, NextKeeps, BaseKept, StutterKeeps
<1> QED BY <1>1, <1>2, PTL DEF Spec

\* The inductive invariant of the runs.
THEOREM SafetyInvariant ==
  ASSUME OthersFaulty
  PROVE  Spec => []SafetyInv
<1>1. BaseInv /\ QuorumsBehind => SafetyInv
  BY DEF BaseInv, SafetyInv, PendingHanded
<1> QED BY <1>1, SafetyInvariance, PTL

\* Behind a FINISH are the CONFs of F + 1 replicas, in its round and for its value,
\* also when it only repeats others (accept_finish).
THEOREM FinishesBacked ==
  ASSUME OthersFaulty
  PROVE  Spec => []FinishBacked
<1>1. ASSUME QuorumsBehind
      PROVE  FinishBacked
  <2> SUFFICES ASSUME NEW m \in sent, m.type = "Finish"
               PROVE  Cardinality(Said("Conf", m.round, m.vec)) >= F + 1
    BY DEF FinishBacked
  <2> DEFINE S == Backers("Conf", m.round, m.vec)
             T == Said("Conf", m.round, m.vec)
  <2>1. S \in SUBSET Nodes /\ T \in SUBSET Nodes /\ S \cap Correct \in SUBSET T
    BY AgreementAssumption DEF Backers, Said, OthersFaulty, Correct
  <2>2. Cardinality(S) > 2 * F
    BY <1>1 DEF QuorumsBehind
  <2>3. Cardinality(S \cap Correct) >= F + 1
    <3> HIDE DEF S
    <3> QED BY <2>1, <2>2, CorrectMajority
  <2>4. Cardinality(S \cap Correct) <= Cardinality(T) /\ Cardinality(T) \in Nat
        /\ Cardinality(S \cap Correct) \in Nat
    <3> HIDE DEF S, T
    <3>1. S \cap Correct \in SUBSET Nodes
      BY <2>1
    <3> QED BY <2>1, <3>1, FiniteParts
  <2> QED BY <2>3, <2>4, QuorumAssumption
<1> QED BY <1>1, SafetyInvariance, PTL

\* More than 2F members behind each of two votes: a replica cast both.
LEMMA ReplicaSaidBoth ==
  ASSUME OthersFaulty, Tight, NEW type, NEW r, NEW vec, NEW s, NEW vec2,
         Cardinality(Backers(type, r, vec)) > 2 * F, Cardinality(Backers(type, s, vec2)) > 2 * F
  PROVE  \E k \in Replicas : Message(type, k, r, vec) \in sent /\ Message(type, k, s, vec2) \in sent
<1>1. Backers(type, r, vec) \in SUBSET Nodes /\ Backers(type, s, vec2) \in SUBSET Nodes
  BY AgreementAssumption DEF Backers, Said
<1>2. PICK k \in Correct : k \in Backers(type, r, vec) \cap Backers(type, s, vec2)
  BY <1>1, CorrectInCommon
<1> QED BY <1>2 DEF OthersFaulty, Correct, Backers, Said

\* The quorums of FINISHes meet in a replica, which stays in its round, so that both
\* decisions are of that round; the quorums of CONFs behind them meet in a replica
\* that cast one CONF there.
LEMMA QuorumsAgree ==
  ASSUME OthersFaulty, Tight, BaseInv, QuorumsBehind
  PROVE  Agreement
<1> SUFFICES ASSUME NEW i \in Replicas, NEW j \in Replicas, NEW v \in decided[i], NEW w \in decided[j]
             PROVE  v = w
  BY DEF Agreement
<1>1. PICK r \in Rounds : Cardinality(Backers("Finish", r, <<v>>)) > 2 * F
  BY DEF QuorumsBehind
<1>2. PICK s \in Rounds : Cardinality(Backers("Finish", s, <<w>>)) > 2 * F
  BY DEF QuorumsBehind
<1>3. PICK k \in Replicas : /\ Message("Finish", k, r, <<v>>) \in sent
                            /\ Message("Finish", k, s, <<w>>) \in sent
  BY <1>1, <1>2, ReplicaSaidBoth
<1>4. r = s
  BY <1>3 DEF BaseInv, FinishersStay, Message
<1>5. /\ Cardinality(Backers("Conf", r, <<v>>)) > 2 * F
      /\ Cardinality(Backers("Conf", r, <<w>>)) > 2 * F
  BY <1>3, <1>4 DEF QuorumsBehind, Message
<1>6. PICK l \in Replicas : /\ Message("Conf", l, r, <<v>>) \in sent
                            /\ Message("Conf", l, r, <<w>>) \in sent
  BY <1>5, ReplicaSaidBoth
<1>7. Message("Conf", l, r, <<v>>) = Message("Conf", l, r, <<w>>)
  BY <1>6 DEF BaseInv, OneVoteEach, Message
<1>8. <<v>> = <<w>>
  BY <1>7 DEF Message
<1> QED BY <1>8, SingleBit

\* No two replicas decide differently, in whichever rounds, when there are exactly
\* 3F + 1 members.
THEOREM ReplicasAgree ==
  ASSUME OthersFaulty, Tight
  PROVE  Spec => []Agreement
<1>1. BaseInv /\ QuorumsBehind => Agreement
  BY QuorumsAgree
<1> QED BY <1>1, SafetyInvariance, PTL

-----------------------------------------------------------------------------
(***************************************************************************)
(* Validity.                                                               *)
(***************************************************************************)

\* Nobody holds, says or decides anything but b.
Unanimous(b) ==
  /\ \A i \in Replicas :
       /\ current[i].estimate = b /\ current[i].valuesR \subseteq {b}
       /\ current[i].state # "CollectingVal" => current[i].valuesR # {}
       /\ decided[i] \subseteq {b}
  /\ \A m \in sent : m.vec = <<b>>

\* What the members started with stays the only value there is.
UnanimityInv == \A b \in Bits : (\A i \in Replicas : input[i] = b) => Unanimous(b)

LEMMA SingleOrdering ==
  ASSUME NEW b \in Bits, NEW S, S \subseteq {b}, S # {}, NEW vec \in Orderings(S)
  PROVE  vec = <<b>>
<1>1. S = {b}
  OBVIOUS
<1> QED BY <1>1, OrderedBit

\* More than F members, counted with the sender, are only behind b.
LEMMA OnlyForB ==
  ASSUME OthersFaulty, TypeOK, VotesHeard, NEW b \in Bits, \A x \in sent : x.vec = <<b>>,
         NEW i \in Replicas, NEW m, GivenMessage(m), m.round = round[i],
         NEW n \in Nat, n >= F
  PROVE  /\ \A c \in Bits : ValsBehind(current[i], m, c, n) => c = b
         /\ \A c \in Bits : FinishesBehind(current[i], m, c, n) => c = b
         /\ \A v \in Vectors : ConfsBehind(current[i], m, v) => v = <<b>>
<1>1. /\ F \in Nat /\ 2 * F \in Nat /\ 2 * F >= F
      /\ \A c \in Bits : /\ current[i].receivedVals[c] \subseteq Backers("Val", m.round, <<c>>)
                         /\ current[i].receivedFinish[c] \subseteq Backers("Finish", m.round, <<c>>)
      /\ \A v \in Vectors : current[i].receivedConf[v] \subseteq Backers("Conf", m.round, v)
  BY QuorumAssumption DEF VotesHeard
<1>2. ASSUME NEW type, NEW vec, NEW k \in Nat, k >= F, Cardinality(Backers(type, m.round, vec)) > k
      PROVE  vec = <<b>>
  <2>1. Backers(type, m.round, vec) \in SUBSET Nodes
    BY AgreementAssumption DEF Backers, Said
  <2>2. Cardinality(Backers(type, m.round, vec)) > F
    BY <1>1, <1>2, <2>1, FiniteParts
  <2>3. PICK j \in Replicas : Message(type, j, m.round, vec) \in sent
    BY <2>2, ReplicaSaid
  <2> QED BY <2>3 DEF Message
<1>3. ASSUME NEW c \in Bits, ValsBehind(current[i], m, c, n)
      PROVE  c = b
  <2>1. Cardinality(Backers("Val", m.round, <<c>>)) > n
    BY <1>1, <1>3, ThresholdBacked DEF ValsBehind
  <2> QED BY <1>2, <2>1, SingleBit
<1>4. ASSUME NEW c \in Bits, FinishesBehind(current[i], m, c, n)
      PROVE  c = b
  <2>1. Cardinality(Backers("Finish", m.round, <<c>>)) > n
    BY <1>1, <1>4, ThresholdBacked DEF FinishesBehind
  <2> QED BY <1>2, <2>1, SingleBit
<1>5. ASSUME NEW v \in Vectors, ConfsBehind(current[i], m, v)
      PROVE  v = <<b>>
  <2>1. Cardinality(Backers("Conf", m.round, v)) > 2 * F
    BY <1>1, <1>5, ThresholdBacked DEF ConfsBehind
  <2> QED BY <1>1, <1>2, <2>1
<1> QED BY <1>3, <1>4, <1>5

LEMMA UnanimityKept ==
  ASSUME OthersFaulty, TypeOK, VotesHeard, NEW b \in Bits, Unanimous(b),
         NEW i \in Replicas, OwnStep(i)
  PROVE  Unanimous(b)'
<1> DEFINE Only(d) == /\ d.estimate = b /\ d.valuesR \subseteq {b}
                      /\ d.state # "CollectingVal" => d.valuesR # {}
<1>1. /\ \A j \in Replicas : j # i => current'[j] = current[j]
      /\ current \in [Replicas -> RoundData] /\ decided \in [Replicas -> SUBSET Bits]
      /\ F \in Nat /\ 2 * F \in Nat /\ 2 * F >= F
      /\ \A x \in sent : x.vec = <<b>>
      /\ \A j \in Replicas : Only(current[j]) /\ decided[j] \subseteq {b}
  BY StepTypes, QuorumAssumption DEF TypeOK, Unanimous
<1>2. ASSUME Only(current'[i]), \A x \in sent' : x \in sent \/ x.vec = <<b>>,
             \A j \in Replicas : decided'[j] \subseteq decided[j] \cup {b}
      PROVE  Unanimous(b)'
  <2>1. \A j \in Replicas : Only(current'[j])
    BY <1>1, <1>2
  <2> QED BY <1>1, <1>2, <2>1 DEF Unanimous
<1> HIDE DEF Only
<1>3. CASE Idles
  BY <1>1, <1>2, <1>3 DEF Idles
<1>4. CASE SaysEstimate(i)
  <2>1. current[i].estimate = b
    BY <1>1 DEF Only
  <2> QED BY <1>1, <1>2, <1>4, <2>1 DEF SaysEstimate
<1>5. ASSUME NEW m, GivenMessage(m), NEW d, CountStep(i, m, d)
      PROVE  Unanimous(b)'
  <2>1. /\ m.round = round[i] /\ current'[i] = d /\ d \in RoundData
        /\ AdoptsWithReason(current[i], d, m) /\ PhaseKept(current[i], d)
    BY <1>1, <1>5 DEF CountStep
  <2>2. /\ \A c \in Bits : /\ ValsBehind(current[i], m, c, F) => c = b
                           /\ ValsBehind(current[i], m, c, 2 * F) => c = b
                           /\ FinishesBehind(current[i], m, c, F) => c = b
                           /\ FinishesBehind(current[i], m, c, 2 * F) => c = b
        /\ \A v \in Vectors : ConfsBehind(current[i], m, v) => v = <<b>>
    <3>1. F >= F
      BY <1>1
    <3> QED BY <1>1, <1>5, <2>1, <3>1, OnlyForB
  <2>3. \A c \in Bits : ConfsBehind(current[i], m, <<c>>) => c = b
    BY <2>2, VectorsAssumption, SingleBit
  <2>4. Only(d)
    <3>1. d.estimate = b
      BY <1>1, <2>1, <2>3, RoundFields DEF AdoptsWithReason, Only
    <3>2. d.valuesR \subseteq {b} /\ current[i].valuesR \subseteq d.valuesR
      BY <1>1, <2>1, <2>2 DEF AdoptsWithReason, Only
    <3>3. d.state # "CollectingVal" => d.valuesR # {}
      BY <1>1, <2>1, <3>2 DEF AdoptsWithReason, Only
    <3> QED BY <3>1, <3>2, <3>3 DEF Only
  <2>5. ASSUME NEW x, Replies(i, m, d, x)
        PROVE  x.vec = <<b>>
    <3>1. CASE x.vec \in Orderings(d.valuesR) /\ d.state \in {"CollectingAux", "CollectingConf"}
      BY <2>4, <3>1, SingleOrdering DEF Only
    <3>2. CASE \E c \in Bits : x.vec = <<c>> /\
                 \/ ValsBehind(current[i], m, c, F) \/ ConfsBehind(current[i], m, <<c>>)
                 \/ FinishesBehind(current[i], m, c, F)
      BY <2>2, <2>3, <3>2
    <3> QED BY <2>5, <3>1, <3>2 DEF Replies, VoteFor
  <2>6. \A x \in sent' : x \in sent \/ x.vec = <<b>>
    BY <1>5, <2>5 DEF CountStep
  <2>7. \A j \in Replicas : decided'[j] \subseteq decided[j] \cup {b}
    BY <1>1, <1>5, <2>2 DEF CountStep
  <2> QED BY <1>2, <2>1, <2>4, <2>6, <2>7
<1>6. ASSUME NEW m, GivenMessage(m), NEW e, LeaveStep(i, m, e)
      PROVE  Unanimous(b)'
  <2>1. /\ m.round = round[i] /\ current'[i] = NewRound(e) /\ UNCHANGED <<sent, decided>>
        /\ ConfsBehind(current[i], m, m.vec)
        /\ e = current[i].estimate \/ Len(m.vec) # 1 \/ e = m.vec[1]
    BY <1>1, <1>6 DEF LeaveStep
  <2>2. m.vec = <<b>>
    BY <1>1, <1>6, <2>1, OnlyForB, MessageFields DEF GivenMessage
  <2>3. e = b
    BY <1>1, <2>1, <2>2 DEF Only
  <2>4. Only(current'[i])
    BY <2>1, <2>3 DEF Only, NewRound
  <2> QED BY <1>1, <1>2, <2>1, <2>4
<1> QED BY <1>3, <1>4, <1>5, <1>6 DEF OwnStep, StepShape

LEMMA InitUnanimous ==
  ASSUME Init
  PROVE  UnanimityInv
<1> SUFFICES ASSUME NEW b \in Bits, \A i \in Replicas : input[i] = b
             PROVE  Unanimous(b)
  BY DEF UnanimityInv
<1>1. /\ current = [i \in Replicas |-> NewRound(input[i])]
      /\ decided = [i \in Replicas |-> {}] /\ sent = {}
  BY DEF Init
<1> QED BY <1>1 DEF Unanimous, NewRound

LEMMA UnanimityStep ==
  ASSUME OthersFaulty, BaseInv, UnanimityInv, [Next]_vars
  PROVE  UnanimityInv'
<1>1. CASE UNCHANGED vars
  BY <1>1 DEF UnanimityInv, Unanimous, vars
<1>2. CASE Next
  <2>1. input' = input
    BY <1>2 DEF Next, Deliver, DeliverEnv, Poll, PollPanics, PollNone, PollMessage, Announce
  <2>2. PICK i \in Replicas : StepKeeps(i)
    BY <1>2, NextKeeps
  <2>3. ASSUME NEW b \in Bits, Unanimous(b)
        PROVE  Unanimous(b)'
    BY <2>2, <2>3, UnanimityKept DEF BaseInv, StepKeeps
  <2> QED BY <2>1, <2>3 DEF UnanimityInv
<1> QED BY <1>1, <1>2

THEOREM UnanimityInvariance ==
  ASSUME OthersFaulty
  PROVE  Spec => [](BaseInv /\ UnanimityInv)
<1>1. Init => BaseInv /\ UnanimityInv
  BY InitBase, InitUnanimous
<1>2. BaseInv /\ UnanimityInv /\ [Next]_vars => (BaseInv /\ UnanimityInv)'
  BY UnanimityStep, NextKeeps, BaseKept, StutterKeeps
<1> QED BY <1>1, <1>2, PTL DEF Spec

LEMMA UnanimityIsValidity ==
  ASSUME UnanimityInv
  PROVE  Validity
  BY DEF UnanimityInv, Unanimous, Validity

\* When all replicas start with the same bit, nothing else is decided, whatever the
\* other members send.
THEOREM ReplicasValid ==
  ASSUME OthersFaulty
  PROVE  Spec => []Validity
<1>1. BaseInv /\ UnanimityInv => Validity
  BY UnanimityIsValidity
<1> QED BY <1>1, UnanimityInvariance, PTL

-----------------------------------------------------------------------------
(***************************************************************************)
(* The agreement implements the abstract consensus.                        *)
(***************************************************************************)

LEMMA DecidingIsLearning ==
  ASSUME BaseInv, Validity', Agreement', [Next]_vars
  PROVE  [Abstract!BCNext]_<<input, decided>>
<1>1. CASE UNCHANGED vars
  BY <1>1 DEF vars
<1>2. CASE Next
  <2>1. input' = input
    BY <1>2 DEF Next, Deliver, DeliverEnv, Poll, PollPanics, PollNone, PollMessage, Announce
  <2>2. PICK i \in Replicas : StepKeeps(i)
    BY <1>2, NextKeeps
  <2>3. CASE decided' = decided
    BY <2>1, <2>3
  <2>4. ASSUME NEW v \in Bits, decided' = [decided EXCEPT ![i] = @ \cup {v}]
        PROVE  Abstract!Learn(i, v)
    <3>1. /\ decided \in [Replicas -> SUBSET Bits] /\ input \in [Replicas -> Bits]
      BY AgreementAssumption DEF BaseInv, TypeOK
    <3>2. v \in decided'[i] /\ \A j \in Replicas : decided[j] \subseteq decided'[j]
      BY <2>4, <3>1
    <3>3. \A j \in Replicas : decided[j] \subseteq {v}
      BY <3>2 DEF Agreement
    <3>4. \E j \in Replicas : input[j] = v
      <4>1. SUFFICES ASSUME \A j \in Replicas : input[j] # v
                     PROVE  FALSE
        OBVIOUS
      <4>2. PICK b \in Bits : b # v /\ \A c \in Bits : c # v => c = b
        BY DEF Bits
      <4>3. \A j \in Replicas : input[j] = b
        BY <3>1, <4>1, <4>2
      <4> QED BY <2>1, <3>2, <4>2, <4>3 DEF Validity
    <3>5. decided' = [decided EXCEPT ![i] = {v}]
      BY <2>4, <3>1, <3>3
    <3> QED BY <2>1, <3>3, <3>4, <3>5 DEF Abstract!Learn
  <2>5. decided' = decided \/ \E v \in Bits : decided' = [decided EXCEPT ![i] = @ \cup {v}]
    BY <2>2 DEF StepKeeps, OwnStep, StepShape, Idles, SaysEstimate, CountStep, LeaveStep
  <2> QED BY <2>3, <2>4, <2>5 DEF Abstract!BCNext
<1> QED BY <1>1, <1>2

\* The replicas decide as BinaryConsensus lets its members learn.
THEOREM AgreementRefines ==
  ASSUME OthersFaulty, Tight
  PROVE  Spec => ImplementsConsensus
<1>1. Init => Abstract!BCInit
  BY AgreementAssumption DEF Init, Abstract!BCInit
<1>2. BaseInv /\ Validity' /\ Agreement' /\ [Next]_vars => [Abstract!BCNext]_<<input, decided>>
  BY DecidingIsLearning
<1> QED BY <1>1, <1>2, BaseInvariance, ReplicasValid, ReplicasAgree, PTL
        DEF Spec, ImplementsConsensus, Abstract!BCSpec
=============================================================================
