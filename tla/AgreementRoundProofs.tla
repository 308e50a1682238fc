------------------------- MODULE AgreementRoundProofs -------------------------
(***************************************************************************)
(* What accepting a vote does to the data of a round, for every data and   *)
(* every vote: the phases never go back, only the vote at hand is counted, *)
(* and what makes the member broadcast or decide has its threshold of      *)
(* votes behind it.                                                        *)
(***************************************************************************)
EXTENDS AgreementRound, SequenceTheorems, TLAPS

\* A phase that was left is not entered again.
PhaseKept(old, new) ==
  /\ old.state # "CollectingVal" => new.state # "CollectingVal"
  /\ old.state \in {"CollectingConf", "Finishing"} =>
       new.state \in {"CollectingConf", "Finishing"}
  /\ old.state = "Finishing" => new.state = "Finishing"

\* The votes of old, and possibly the vote of j for k.
Counts(old, new, k, j) ==
  \A x \in DOMAIN old :
    /\ old[x] \subseteq new[x]
    /\ new[x] \subseteq old[x] \cup {j}
    /\ x # k => new[x] = old[x]

LEMMA VotesStay ==
  ASSUME NEW X, NEW Y, NEW votes \in [X -> SUBSET Y], NEW k, NEW j
  PROVE  Counts(votes, votes, k, j)
  BY DEF Counts

LEMMA RoundFields ==
  ASSUME NEW rd \in RoundData
  PROVE  /\ rd.state \in AgreementStates /\ rd.estimate \in Bits /\ rd.valuesR \subseteq Bits
         /\ rd.receivedVals \in [Bits -> SUBSET Nodes] /\ rd.broadcastEstimates \subseteq Bits
         /\ rd.receivedAux \in [Vectors -> SUBSET Nodes]
         /\ rd.receivedConf \in [Vectors -> SUBSET Nodes]
         /\ rd.receivedFinish \in [Bits -> SUBSET Nodes] /\ rd.broadcastFinish \subseteq Bits
  BY DEF RoundData

LEMMA NewRoundIsData ==
  ASSUME NEW estimate \in Bits
  PROVE  NewRound(estimate) \in RoundData
  BY DEF NewRound, RoundData, AgreementStates

-----------------------------------------------------------------------------
(***************************************************************************)
(* The four votes.                                                         *)
(***************************************************************************)

\* A VAL: the phase is left when 2F + 1 members estimate its value, and its value is
\* only adopted then.
THEOREM ValAccepted ==
  ASSUME NEW rd \in RoundData, NEW j \in Nodes, NEW b \in Bits
  PROVE  LET o == AcceptEstimate(rd, j, b)
             voters == rd.receivedVals[b] \cup {j}
         IN  /\ o.data \in RoundData /\ o.values \subseteq Bits
             /\ o.result \in {"Ignored", "AlreadyAccepted", "Accepted", "BroadcastEst", "BroadcastAux"}
             /\ Counts(rd.receivedVals, o.data.receivedVals, b, j)
             /\ o.data.receivedAux = rd.receivedAux /\ o.data.receivedConf = rd.receivedConf
             /\ o.data.receivedFinish = rd.receivedFinish /\ o.data.estimate = rd.estimate
             /\ PhaseKept(rd, o.data)
             /\ o.data.valuesR = rd.valuesR \/
                  (o.data.valuesR = rd.valuesR \cup {b} /\ Cardinality(voters) > 2 * F)
             /\ o.data.state # rd.state => b \in o.data.valuesR
             /\ o.data.state = "CollectingVal" => j \in o.data.receivedVals[b]
             /\ o.result = "BroadcastEst" => o.values = {b} /\ Cardinality(voters) > F
             /\ o.result = "BroadcastAux" =>
                  /\ rd.state = "CollectingVal" /\ o.data.state = "CollectingAux"
                  /\ o.values = o.data.valuesR
<1> DEFINE o       == AcceptEstimate(rd, j, b)
           voters  == rd.receivedVals[b] \cup {j}
           counted == [rd EXCEPT !.receivedVals[b] = voters]
<1>1. /\ counted \in RoundData
      /\ counted.receivedVals = [rd.receivedVals EXCEPT ![b] = voters]
      /\ counted.receivedAux = rd.receivedAux /\ counted.receivedConf = rd.receivedConf
      /\ counted.receivedFinish = rd.receivedFinish /\ counted.estimate = rd.estimate
      /\ counted.valuesR = rd.valuesR /\ counted.state = rd.state
  BY DEF RoundData
<1>2. Counts(rd.receivedVals, counted.receivedVals, b, j) /\ j \in counted.receivedVals[b]
  <2>1. rd.receivedVals \in [Bits -> SUBSET Nodes]
    BY RoundFields
  <2> HIDE DEF counted
  <2> QED BY <1>1, <2>1 DEF Counts
<1>3. Counts(rd.receivedVals, rd.receivedVals, b, j)
  BY RoundFields, VotesStay
<1>4. CASE ~CountsVals(rd) \/ j \in rd.receivedVals[b]
  <2>1. o.data = rd /\ o.values = {} /\ o.result \in {"Ignored", "AlreadyAccepted"}
    BY <1>4 DEF AcceptEstimate, Outcome
  <2>2. rd.state = "CollectingVal" => j \in rd.receivedVals[b]
    BY <1>4 DEF CountsVals
  <2> HIDE DEF o
  <2> QED BY <1>3, <2>1, <2>2 DEF PhaseKept, o
<1>5. CASE CountsVals(rd) /\ j \notin rd.receivedVals[b]
  <2>1. rd.state = "CollectingVal"
    BY <1>5 DEF CountsVals
  <2>2. CASE Cardinality(voters) > 2 * F
    <3> DEFINE left == [counted EXCEPT !.valuesR = @ \cup {b}, !.state = "CollectingAux"]
    <3>1. o.data = left /\ o.values = rd.valuesR \cup {b} /\ o.result = "BroadcastAux"
      BY <1>5, <2>2 DEF AcceptEstimate, Outcome, MoreThan, LeaveVal
    <3>2. /\ left \in RoundData /\ left.valuesR = rd.valuesR \cup {b}
          /\ left.state = "CollectingAux" /\ left.receivedVals = counted.receivedVals
          /\ left.receivedAux = rd.receivedAux /\ left.receivedConf = rd.receivedConf
          /\ left.receivedFinish = rd.receivedFinish /\ left.estimate = rd.estimate
      <4> HIDE DEF counted
      <4> QED BY <1>1 DEF RoundData, AgreementStates
    <3>3. rd.valuesR \cup {b} \subseteq Bits
      BY RoundFields
    <3> HIDE DEF o, left, counted
    <3> QED BY <1>2, <2>1, <2>2, <3>1, <3>2, <3>3 DEF PhaseKept, o
  <2>3. CASE ~(Cardinality(voters) > 2 * F) /\ Cardinality(voters) > F
               /\ b \notin rd.broadcastEstimates
    <3> DEFINE repeated == [counted EXCEPT !.broadcastEstimates = @ \cup {b}]
    <3>1. o.data = repeated /\ o.values = {b} /\ o.result = "BroadcastEst"
      BY <1>5, <2>3 DEF AcceptEstimate, Outcome, MoreThan
    <3>2. /\ repeated \in RoundData /\ repeated.valuesR = rd.valuesR
          /\ repeated.state = rd.state /\ repeated.receivedVals = counted.receivedVals
          /\ repeated.receivedAux = rd.receivedAux /\ repeated.receivedConf = rd.receivedConf
          /\ repeated.receivedFinish = rd.receivedFinish /\ repeated.estimate = rd.estimate
      <4> HIDE DEF counted
      <4> QED BY <1>1 DEF RoundData
    <3> HIDE DEF o, repeated, counted
    <3> QED BY <1>2, <2>1, <2>3, <3>1, <3>2 DEF PhaseKept, o
  <2>4. CASE ~(Cardinality(voters) > 2 * F)
               /\ ~(Cardinality(voters) > F /\ b \notin rd.broadcastEstimates)
    <3>1. o.data = counted /\ o.values = {} /\ o.result = "Accepted"
      BY <1>5, <2>4 DEF AcceptEstimate, Outcome, MoreThan
    <3> HIDE DEF o, counted
    <3> QED BY <1>1, <1>2, <2>1, <3>1 DEF PhaseKept, o
  <2> QED BY <2>2, <2>3, <2>4
<1> QED BY <1>4, <1>5

\* An AUX: it is kept for later while the estimates are collected, and the CONF it may
\* cause is for the values the member has adopted.
THEOREM AuxAccepted ==
  ASSUME NEW rd \in RoundData, NEW j \in Nodes, NEW vec \in Vectors
  PROVE  LET o == AcceptAuxiliary(rd, j, vec)
             voters == rd.receivedAux[vec] \cup {j}
         IN  /\ o.data \in RoundData /\ o.values \subseteq Bits
             /\ o.result \in {"Queue", "Ignored", "AlreadyAccepted", "Accepted", "BroadcastConf"}
             /\ Counts(rd.receivedAux, o.data.receivedAux, vec, j)
             /\ o.data.receivedVals = rd.receivedVals /\ o.data.receivedConf = rd.receivedConf
             /\ o.data.receivedFinish = rd.receivedFinish /\ o.data.estimate = rd.estimate
             /\ o.data.valuesR = rd.valuesR
             /\ PhaseKept(rd, o.data)
             /\ o.result = "Queue" <=> rd.state = "CollectingVal"
             /\ o.data.state = "CollectingAux" => j \in o.data.receivedAux[vec]
             /\ o.result = "BroadcastConf" =>
                  /\ rd.state = "CollectingAux" /\ o.data.state = "CollectingConf"
                  /\ o.values = o.data.valuesR
<1> DEFINE o       == AcceptAuxiliary(rd, j, vec)
           voters  == rd.receivedAux[vec] \cup {j}
           counted == [rd EXCEPT !.receivedAux[vec] = voters]
<1>1. /\ counted \in RoundData
      /\ counted.receivedAux = [rd.receivedAux EXCEPT ![vec] = voters]
      /\ counted.receivedVals = rd.receivedVals /\ counted.receivedConf = rd.receivedConf
      /\ counted.receivedFinish = rd.receivedFinish /\ counted.estimate = rd.estimate
      /\ counted.valuesR = rd.valuesR /\ counted.state = rd.state
  BY DEF RoundData
<1>2. Counts(rd.receivedAux, counted.receivedAux, vec, j) /\ j \in counted.receivedAux[vec]
  <2>1. rd.receivedAux \in [Vectors -> SUBSET Nodes]
    BY RoundFields
  <2> HIDE DEF counted
  <2> QED BY <1>1, <2>1 DEF Counts
<1>3. Counts(rd.receivedAux, rd.receivedAux, vec, j)
  BY RoundFields, VotesStay
<1>4. CASE rd.state # "CollectingAux" \/ j \in rd.receivedAux[vec]
  <2>1. /\ o.data = rd /\ o.values = {}
        /\ o.result \in {"Queue", "Ignored", "AlreadyAccepted"}
        /\ o.result = "Queue" <=> rd.state = "CollectingVal"
    BY <1>4, RoundFields DEF AcceptAuxiliary, Outcome, AgreementStates
  <2>2. rd.state = "CollectingAux" => j \in rd.receivedAux[vec]
    BY <1>4
  <2> HIDE DEF o
  <2> QED BY <1>3, <2>1, <2>2 DEF PhaseKept, o
<1>5. CASE rd.state = "CollectingAux" /\ j \notin rd.receivedAux[vec]
  <2>1. CASE Cardinality(voters) > 2 * F /\ ElementsOf(vec) \subseteq rd.valuesR
    <3> DEFINE left == [counted EXCEPT !.state = "CollectingConf"]
    <3>1. o.data = left /\ o.values = rd.valuesR /\ o.result = "BroadcastConf"
      BY <1>5, <2>1 DEF AcceptAuxiliary, Outcome, MoreThan
    <3>2. /\ left \in RoundData /\ left.valuesR = rd.valuesR
          /\ left.state = "CollectingConf" /\ left.receivedAux = counted.receivedAux
          /\ left.receivedVals = rd.receivedVals /\ left.receivedConf = rd.receivedConf
          /\ left.receivedFinish = rd.receivedFinish /\ left.estimate = rd.estimate
      <4> HIDE DEF counted
      <4> QED BY <1>1 DEF RoundData, AgreementStates
    <3>3. rd.valuesR \subseteq Bits
      BY RoundFields
    <3> HIDE DEF o, left, counted
    <3> QED BY <1>2, <1>5, <3>1, <3>2, <3>3 DEF PhaseKept, o
  <2>2. CASE ~(Cardinality(voters) > 2 * F /\ ElementsOf(vec) \subseteq rd.valuesR)
    <3>1. o.data = counted /\ o.values = {} /\ o.result = "Accepted"
      BY <1>5, <2>2 DEF AcceptAuxiliary, Outcome, MoreThan
    <3> HIDE DEF o, counted
    <3> QED BY <1>1, <1>2, <1>5, <3>1 DEF PhaseKept, o
  <2> QED BY <2>1, <2>2
<1> QED BY <1>4, <1>5

\* The coin: the round finishes on a single value that 2F + 1 members confirmed, or
\* hands an estimate to the next round.
LEMMA CoinFlipped ==
  ASSUME NEW rd \in RoundData, NEW vec \in Vectors, NEW coin \in Bits \cup {NoCoin}
  PROVE  LET o == PerformCoinFlip(rd, vec, coin) IN
         /\ o.data \in RoundData /\ o.values \subseteq Bits
         /\ o.data.receivedVals = rd.receivedVals /\ o.data.receivedAux = rd.receivedAux
         /\ o.data.receivedConf = rd.receivedConf /\ o.data.receivedFinish = rd.receivedFinish
         /\ o.data.valuesR = rd.valuesR
         /\ \/ /\ o.result \in {"Accepted", "BroadcastFinalized"}
               /\ coin \in Bits /\ vec = <<coin>> /\ o.values = {coin}
               /\ o.data.state = "Finishing" /\ o.data.estimate = coin
            \/ /\ o.result = "Failed" /\ o.data = rd /\ o.values # {}
               /\ vec # <<coin>>
               /\ \/ o.values = {rd.estimate}
                  \/ Len(vec) # 1
                  \/ o.values = {vec[1]}
<1> DEFINE o == PerformCoinFlip(rd, vec, coin)
<1>1. vec \in Seq(Bits)
  BY VectorsAssumption
<1>2. CASE vec = <<coin>>
  <2> DEFINE finishing == EnterFinishing(rd, coin)
  <2>1. coin \in Bits
    <3>1. Len(vec) = 1 /\ vec[1] = coin
      BY <1>2
    <3> QED BY <1>1, <3>1, ElementOfSeq
  <2>2. /\ o.data = finishing /\ o.values = {coin}
        /\ o.result \in {"Accepted", "BroadcastFinalized"}
    BY <1>2 DEF PerformCoinFlip, Outcome
  <2>3. /\ finishing \in RoundData
        /\ finishing.state = "Finishing" /\ finishing.estimate = coin
        /\ finishing.valuesR = rd.valuesR
        /\ finishing.receivedVals = rd.receivedVals /\ finishing.receivedAux = rd.receivedAux
        /\ finishing.receivedConf = rd.receivedConf
        /\ finishing.receivedFinish = rd.receivedFinish
    BY <2>1 DEF EnterFinishing, RoundData, AgreementStates
  <2> HIDE DEF o, finishing
  <2> QED BY <1>2, <2>1, <2>2, <2>3 DEF o
<1>3. CASE vec # <<coin>>
  <2> DEFINE next == NextEstimate(rd, vec, coin)
  <2>1. o.data = rd /\ o.values = {next} /\ o.result = "Failed"
    BY <1>3 DEF PerformCoinFlip, Outcome
  <2>2. CASE coin = NoCoin
    <3>1. next = rd.estimate
      BY <2>2 DEF NextEstimate
    <3> HIDE DEF o, next
    <3> QED BY <1>3, <2>1, <3>1, RoundFields DEF o
  <2>3. CASE coin # NoCoin /\ Len(vec) # 1
    <3>1. next = coin /\ coin \in Bits
      BY <2>3 DEF NextEstimate
    <3> HIDE DEF o, next
    <3> QED BY <1>3, <2>1, <2>3, <3>1 DEF o
  <2>4. CASE coin # NoCoin /\ Len(vec) = 1
    <3>1. next = vec[1]
      BY <2>4 DEF NextEstimate
    <3>2. 1 \in 1..Len(vec)
      BY <2>4
    <3>3. vec[1] \in Bits
      BY <1>1, <3>2, ElementOfSeq
    <3> HIDE DEF o, next
    <3> QED BY <1>3, <2>1, <3>1, <3>3 DEF o
  <2> QED BY <2>2, <2>3, <2>4
<1> QED BY <1>2, <1>3

\* A CONF: it is kept for later while estimates and AUXs are collected; what it
\* decides about the round has 2F + 1 CONFs of one vector behind it.
THEOREM ConfAccepted ==
  ASSUME NEW rd \in RoundData, NEW j \in Nodes, NEW vec \in Vectors,
         NEW coin \in Bits \cup {NoCoin}
  PROVE  LET o == AcceptConfirmation(rd, j, vec, coin)
             voters == rd.receivedConf[vec] \cup {j}
         IN  /\ o.data \in RoundData /\ o.values \subseteq Bits
             /\ o.result \in {"Queue", "Ignored", "AlreadyAccepted", "Accepted",
                              "BroadcastFinalized", "Failed"}
             /\ Counts(rd.receivedConf, o.data.receivedConf, vec, j)
             /\ o.data.receivedVals = rd.receivedVals /\ o.data.receivedAux = rd.receivedAux
             /\ o.data.receivedFinish = rd.receivedFinish /\ o.data.valuesR = rd.valuesR
             /\ PhaseKept(rd, o.data)
             /\ o.result = "Queue" <=> rd.state \in {"CollectingVal", "CollectingAux"}
             /\ o.data.state = "CollectingConf" => j \in o.data.receivedConf[vec]
             /\ o.data.estimate = rd.estimate \/
                  (Cardinality(voters) > 2 * F /\ vec = <<o.data.estimate>>)
             /\ o.result = "BroadcastFinalized" =>
                  /\ rd.state = "CollectingConf" /\ o.data.state = "Finishing"
                  /\ Cardinality(voters) > 2 * F
                  /\ \E v \in Bits : vec = <<v>> /\ o.values = {v}
             /\ o.result = "Failed" =>
                  /\ rd.state = "CollectingConf" /\ Cardinality(voters) > 2 * F
                  /\ o.values = {rd.estimate} \/ Len(vec) # 1 \/ o.values = {vec[1]}
<1> DEFINE o       == AcceptConfirmation(rd, j, vec, coin)
           voters  == rd.receivedConf[vec] \cup {j}
           counted == [rd EXCEPT !.receivedConf[vec] = voters]
<1>1. /\ counted \in RoundData
      /\ counted.receivedConf = [rd.receivedConf EXCEPT ![vec] = voters]
      /\ counted.receivedVals = rd.receivedVals /\ counted.receivedAux = rd.receivedAux
      /\ counted.receivedFinish = rd.receivedFinish /\ counted.estimate = rd.estimate
      /\ counted.valuesR = rd.valuesR /\ counted.state = rd.state
  BY DEF RoundData
<1>2. Counts(rd.receivedConf, counted.receivedConf, vec, j) /\ j \in counted.receivedConf[vec]
  <2>1. rd.receivedConf \in [Vectors -> SUBSET Nodes]
    BY RoundFields
  <2> HIDE DEF counted
  <2> QED BY <1>1, <2>1 DEF Counts
<1>3. Counts(rd.receivedConf, rd.receivedConf, vec, j)
  BY RoundFields, VotesStay
<1>4. CASE rd.state # "CollectingConf" \/ j \in rd.receivedConf[vec]
  <2>1. /\ o.data = rd /\ o.values = {}
        /\ o.result \in {"Queue", "Ignored", "AlreadyAccepted"}
        /\ o.result = "Queue" <=> rd.state \in {"CollectingVal", "CollectingAux"}
    BY <1>4, RoundFields DEF AcceptConfirmation, Outcome, AgreementStates
  <2>2. rd.state = "CollectingConf" => j \in rd.receivedConf[vec]
    BY <1>4
  <2> HIDE DEF o
  <2> QED BY <1>3, <2>1, <2>2 DEF PhaseKept, o
<1>5. CASE rd.state = "CollectingConf" /\ j \notin rd.receivedConf[vec]
  <2>1. CASE Cardinality(voters) > 2 * F /\ ElementsOf(vec) \subseteq rd.valuesR
    <3> DEFINE flipped == PerformCoinFlip(counted, vec, coin)
    <3>1. o = flipped
      BY <1>5, <2>1 DEF AcceptConfirmation, MoreThan
    <3>2. /\ flipped.data \in RoundData /\ flipped.values \subseteq Bits
          /\ flipped.data.receivedVals = counted.receivedVals
          /\ flipped.data.receivedAux = counted.receivedAux
          /\ flipped.data.receivedConf = counted.receivedConf
          /\ flipped.data.receivedFinish = counted.receivedFinish
          /\ flipped.data.valuesR = counted.valuesR
          /\ \/ /\ flipped.result \in {"Accepted", "BroadcastFinalized"}
                /\ coin \in Bits /\ vec = <<coin>> /\ flipped.values = {coin}
                /\ flipped.data.state = "Finishing" /\ flipped.data.estimate = coin
             \/ /\ flipped.result = "Failed" /\ flipped.data = counted /\ flipped.values # {}
                /\ vec # <<coin>>
                /\ \/ flipped.values = {counted.estimate}
                   \/ Len(vec) # 1
                   \/ flipped.values = {vec[1]}
      <4> HIDE DEF counted
      <4> QED BY <1>1, CoinFlipped
    <3> HIDE DEF o, flipped, counted
    <3> QED BY <1>1, <1>2, <1>5, <2>1, <3>1, <3>2 DEF PhaseKept, o
  <2>2. CASE ~(Cardinality(voters) > 2 * F /\ ElementsOf(vec) \subseteq rd.valuesR)
    <3>1. o.data = counted /\ o.values = {} /\ o.result = "Accepted"
      BY <1>5, <2>2 DEF AcceptConfirmation, Outcome, MoreThan
    <3> HIDE DEF o, counted
    <3> QED BY <1>1, <1>2, <1>5, <3>1 DEF PhaseKept, o
  <2> QED BY <2>1, <2>2
<1> QED BY <1>4, <1>5

\* A FINISH: it is kept for later until the member finishes itself; F + 1 of them make
\* it repeat the value, 2F + 1 decide.
THEOREM FinishAccepted ==
  ASSUME NEW rd \in RoundData, NEW j \in Nodes, NEW b \in Bits
  PROVE  LET o == AcceptFinish(rd, j, b)
             voters == rd.receivedFinish[b] \cup {j}
         IN  /\ o.data \in RoundData /\ o.values \subseteq Bits
             /\ o.result \in {"Queue", "AlreadyAccepted", "Accepted",
                              "BroadcastFinalized", "Finalized"}
             /\ Counts(rd.receivedFinish, o.data.receivedFinish, b, j)
             /\ o.data.receivedVals = rd.receivedVals /\ o.data.receivedAux = rd.receivedAux
             /\ o.data.receivedConf = rd.receivedConf /\ o.data.estimate = rd.estimate
             /\ o.data.valuesR = rd.valuesR /\ o.data.state = rd.state
             /\ o.result = "Queue" <=> rd.state # "Finishing"
             /\ rd.state = "Finishing" => j \in o.data.receivedFinish[b]
             /\ o.result = "BroadcastFinalized" =>
                  rd.state = "Finishing" /\ o.values = {b} /\ Cardinality(voters) > F
             /\ o.result = "Finalized" =>
                  rd.state = "Finishing" /\ o.values = {b} /\ Cardinality(voters) > 2 * F
<1> DEFINE o       == AcceptFinish(rd, j, b)
           voters  == rd.receivedFinish[b] \cup {j}
           counted == [rd EXCEPT !.receivedFinish[b] = voters]
<1>1. /\ counted \in RoundData
      /\ counted.receivedFinish = [rd.receivedFinish EXCEPT ![b] = voters]
      /\ counted.receivedVals = rd.receivedVals /\ counted.receivedAux = rd.receivedAux
      /\ counted.receivedConf = rd.receivedConf /\ counted.estimate = rd.estimate
      /\ counted.valuesR = rd.valuesR /\ counted.state = rd.state
  BY DEF RoundData
<1>2. Counts(rd.receivedFinish, counted.receivedFinish, b, j) /\ j \in counted.receivedFinish[b]
  <2>1. rd.receivedFinish \in [Bits -> SUBSET Nodes]
    BY RoundFields
  <2> HIDE DEF counted
  <2> QED BY <1>1, <2>1 DEF Counts
<1>3. Counts(rd.receivedFinish, rd.receivedFinish, b, j)
  BY RoundFields, VotesStay
<1>4. CASE rd.state # "Finishing" \/ j \in rd.receivedFinish[b]
  <2>1. /\ o.data = rd /\ o.values = {}
        /\ o.result \in {"Queue", "AlreadyAccepted"}
        /\ o.result = "Queue" <=> rd.state # "Finishing"
    BY <1>4 DEF AcceptFinish, Outcome
  <2>2. rd.state = "Finishing" => j \in rd.receivedFinish[b]
    BY <1>4
  <2> HIDE DEF o
  <2> QED BY <1>3, <2>1, <2>2 DEF o
<1>5. CASE rd.state = "Finishing" /\ j \notin rd.receivedFinish[b]
  <2>1. CASE Cardinality(voters) > 2 * F
    <3>1. o.data = counted /\ o.values = {b} /\ o.result = "Finalized"
      BY <1>5, <2>1 DEF AcceptFinish, Outcome, MoreThan, Decides
    <3> HIDE DEF o, counted
    <3> QED BY <1>1, <1>2, <1>5, <2>1, <3>1 DEF o
  <2>2. CASE ~(Cardinality(voters) > 2 * F) /\ Cardinality(voters) > F
               /\ b \notin rd.broadcastFinish
    <3> DEFINE repeated == [counted EXCEPT !.broadcastFinish = @ \cup {b}]
    <3>1. o.data = repeated /\ o.values = {b} /\ o.result = "BroadcastFinalized"
      BY <1>5, <2>2 DEF AcceptFinish, Outcome, MoreThan, Decides
    <3>2. /\ repeated \in RoundData /\ repeated.valuesR = rd.valuesR
          /\ repeated.state = rd.state /\ repeated.receivedFinish = counted.receivedFinish
          /\ repeated.receivedVals = rd.receivedVals /\ repeated.receivedAux = rd.receivedAux
          /\ repeated.receivedConf = rd.receivedConf /\ repeated.estimate = rd.estimate
      <4> HIDE DEF counted
      <4> QED BY <1>1 DEF RoundData
    <3> HIDE DEF o, repeated, counted
    <3> QED BY <1>2, <1>5, <2>2, <3>1, <3>2 DEF o
  <2>3. CASE ~(Cardinality(voters) > 2 * F)
               /\ ~(Cardinality(voters) > F /\ b \notin rd.broadcastFinish)
    <3>1. o.data = counted /\ o.values = {} /\ o.result = "Accepted"
      BY <1>5, <2>3 DEF AcceptFinish, Outcome, MoreThan, Decides
    <3> HIDE DEF o, counted
    <3> QED BY <1>1, <1>2, <1>5, <3>1 DEF o
  <2> QED BY <2>1, <2>2, <2>3
<1> QED BY <1>4, <1>5
=============================================================================
