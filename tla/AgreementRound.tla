---------------------------- MODULE AgreementRound ----------------------------
(***************************************************************************)
(* One round of the binary agreement at one member                         *)
(* (async_bin_agreement_round.rs): what accepting a vote makes of the      *)
(* round's data, and what the member has to do about it.                   *)
(*                                                                         *)
(* A bit is 0 or 1, a Vec<bool> a sequence of bits.  A vote set maps what  *)
(* was voted for to the members that voted for it; the partial signatures  *)
(* are abstracted to the outcome of the coin made of them.                 *)
(***************************************************************************)
EXTENDS QuorumInfo, Sequences

CONSTANT Vectors   \* the Vec<bool>s an AUX or a CONF may carry

Bits == {0, 1}

NoCoin == 2        \* combine_signatures returned an error

ASSUME VectorsAssumption ==
  /\ Vectors \subseteq Seq(Bits)
  /\ \A b \in Bits : <<b>> \in Vectors

AgreementStates == {"CollectingVal", "CollectingAux", "CollectingConf", "Finishing"}

RoundData ==
  [state : AgreementStates, estimate : Bits, valuesR : SUBSET Bits,
   receivedVals : [Bits -> SUBSET Nodes], broadcastEstimates : SUBSET Bits,
   receivedAux : [Vectors -> SUBSET Nodes],
   receivedConf : [Vectors -> SUBSET Nodes],
   receivedFinish : [Bits -> SUBSET Nodes], broadcastFinish : SUBSET Bits]

\* RoundData::new
NewRound(estimate) ==
  [state |-> "CollectingVal", estimate |-> estimate, valuesR |-> {},
   receivedVals |-> [b \in Bits |-> {}], broadcastEstimates |-> {},
   receivedAux |-> [v \in Vectors |-> {}],
   receivedConf |-> [v \in Vectors |-> {}],
   receivedFinish |-> [b \in Bits |-> {}], broadcastFinish |-> {}]

\* What accepting a vote returns: the round's new data, a RoundDataVoteAcceptResult
\* and the values that come with it.
Outcome(data, result, values) == [data |-> data, result |-> result, values |-> values]

\* The comparison of the count of a vote set with f and 2 * f; a mutant is off by one.
AtLeast(n, voters) == Cardinality(voters) >= n
MoreThan(n, voters) == Cardinality(voters) > n

\* The HashSet<bool> a Vec<bool> is collected into.
ElementsOf(vec) == {vec[k] : k \in 1..Len(vec)}

-----------------------------------------------------------------------------

\* The phase in which a VAL counts; a mutant lets it count later.
CountsLateVals(rd) == rd.state # "Finishing"
CountsVals(rd) == rd.state = "CollectingVal"

\* 2F + 1 members estimate the value; a mutant stays in the phase.
StayInVal(rd, estimate) == [rd EXCEPT !.valuesR = @ \cup {estimate}]
LeaveVal(rd, estimate) ==
  [rd EXCEPT !.valuesR = @ \cup {estimate}, !.state = "CollectingAux"]

AcceptEstimate(rd, sender, estimate) ==
  LET voters   == rd.receivedVals[estimate] \cup {sender}
      counted  == [rd EXCEPT !.receivedVals[estimate] = voters]
  IN CASE ~CountsVals(rd) -> Outcome(rd, "Ignored", {})
       [] CountsVals(rd) /\ sender \in rd.receivedVals[estimate] ->
            Outcome(rd, "AlreadyAccepted", {})
       [] OTHER ->
            IF MoreThan(2 * F, voters)
              THEN Outcome(LeaveVal(counted, estimate),
                           "BroadcastAux", rd.valuesR \cup {estimate})
            ELSE IF MoreThan(F, voters) /\ estimate \notin rd.broadcastEstimates
              THEN Outcome([counted EXCEPT !.broadcastEstimates = @ \cup {estimate}],
                           "BroadcastEst", {estimate})
            ELSE Outcome(counted, "Accepted", {})

AcceptAuxiliary(rd, sender, vec) ==
  LET voters  == rd.receivedAux[vec] \cup {sender}
      counted == [rd EXCEPT !.receivedAux[vec] = voters]
  IN CASE rd.state = "CollectingVal" -> Outcome(rd, "Queue", {})
       [] rd.state \in {"CollectingConf", "Finishing"} -> Outcome(rd, "Ignored", {})
       [] rd.state = "CollectingAux" /\ sender \in rd.receivedAux[vec] ->
            Outcome(rd, "AlreadyAccepted", {})
       [] OTHER ->
            IF MoreThan(2 * F, voters) /\ ElementsOf(vec) \subseteq rd.valuesR
              THEN Outcome([counted EXCEPT !.state = "CollectingConf"],
                           "BroadcastConf", rd.valuesR)
              ELSE Outcome(counted, "Accepted", {})

\* The estimate of the next round when the round does not finish on the winning
\* vector vec; coin is what the hash of the combined signature says.  A mutant
\* takes the coin, whatever it is worth.
CoinAnyway(rd, vec, coin) == coin
NextEstimate(rd, vec, coin) ==
  CASE coin = NoCoin -> rd.estimate
    [] coin # NoCoin /\ Len(vec) # 1 -> coin
    [] OTHER -> vec[1]

\* The round finishes on the coin; a mutant forgets the state.
FinishInConf(rd, coin) ==
  [rd EXCEPT !.estimate = coin, !.broadcastFinish = @ \cup {coin}]
EnterFinishing(rd, coin) ==
  [rd EXCEPT !.state = "Finishing", !.estimate = coin, !.broadcastFinish = @ \cup {coin}]

\* perform_coin_flip, and what its caller makes of an error.
PerformCoinFlip(rd, vec, coin) ==
  IF vec = <<coin>>
    THEN Outcome(EnterFinishing(rd, coin),
                 IF coin \in rd.broadcastFinish THEN "Accepted" ELSE "BroadcastFinalized",
                 {coin})
    ELSE Outcome(rd, "Failed", {NextEstimate(rd, vec, coin)})

AcceptConfirmation(rd, sender, vec, coin) ==
  LET voters  == rd.receivedConf[vec] \cup {sender}
      counted == [rd EXCEPT !.receivedConf[vec] = voters]
  IN CASE rd.state \in {"CollectingVal", "CollectingAux"} -> Outcome(rd, "Queue", {})
       [] rd.state = "Finishing" -> Outcome(rd, "Ignored", {})
       [] rd.state = "CollectingConf" /\ sender \in rd.receivedConf[vec] ->
            Outcome(rd, "AlreadyAccepted", {})
       [] OTHER ->
            IF MoreThan(2 * F, voters) /\ ElementsOf(vec) \subseteq rd.valuesR
              THEN PerformCoinFlip(counted, vec, coin)
              ELSE Outcome(counted, "Accepted", {})

\* The FINISH votes that decide; a mutant decides on those that make a member
\* repeat the FINISH.
DecidesEarly(voters) == MoreThan(F, voters)
Decides(voters) == MoreThan(2 * F, voters)

AcceptFinish(rd, sender, value) ==
  LET voters  == rd.receivedFinish[value] \cup {sender}
      counted == [rd EXCEPT !.receivedFinish[value] = voters]
  IN CASE rd.state # "Finishing" -> Outcome(rd, "Queue", {})
       [] rd.state = "Finishing" /\ sender \in rd.receivedFinish[value] ->
            Outcome(rd, "AlreadyAccepted", {})
       [] OTHER ->
            IF Decides(voters) THEN Outcome(counted, "Finalized", {value})
            ELSE IF MoreThan(F, voters) /\ value \notin rd.broadcastFinish
              THEN Outcome([counted EXCEPT !.broadcastFinish = @ \cup {value}],
                           "BroadcastFinalized", {value})
            ELSE Outcome(counted, "Accepted", {})
=============================================================================
