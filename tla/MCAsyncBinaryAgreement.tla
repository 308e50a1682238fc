----------------------- MODULE MCAsyncBinaryAgreement -----------------------
(***************************************************************************)
(* Small instances of AsyncBinaryAgreement.                                *)
(***************************************************************************)
EXTENDS AsyncBinaryAgreement, TLC

\* The Vec<bool>s members vote for.
Singles == {<<0>>, <<1>>}
AndBoth == Singles \cup {<<0, 1>>}

CONSTANT Targets   \* the members a limited instance singles out

\* The inputs: 0 for the targets and 1 for the others; 0 for all; one or the other.
SplitInputs == {[i \in Replicas |-> IF i \in Targets THEN 0 ELSE 1]}
ZeroInputs == {[i \in Replicas |-> 0]}
SplitOrZero == SplitInputs \cup ZeroInputs

\* What the other members may send: anything; votes for one value; these, but no share
\* for the coin of round 1; to the targets votes for 1 in every phase and to the others
\* VALs for 0; whatever makes LateInit and helps both sides to a decision from there;
\* VALs for 0, and from the targets an AUX and a FINISH that may be early; nothing.
Everything ==
  [i \in Replicas |-> {m \in Messages : m.from \notin Replicas /\ OneBit(m)}]
OnlyFor(b) == [i \in Replicas |-> {m \in Everything[i] : m.vec = <<b>>}]
OnlyZero == OnlyFor(0)
OnlyOne == OnlyFor(1)
OneFairCoin == [i \in Replicas |-> {m \in OnlyZero[i] : m.type = "Conf" => m.round # 1}]
Opposition ==
  [i \in Replicas |->
     IF i \in Targets THEN OnlyOne[i] ELSE {m \in OnlyZero[i] : m.type = "Val"}]
Latecomer ==
  [i \in Replicas |-> {m \in Everything[i] :
     IF i \in Targets THEN m.type = "Finish" /\ m.round = 0
     ELSE IF m.round = 0 THEN m.type \in {"Val", "Conf"} /\ m.vec = <<0>>
     ELSE m.round = 1 /\ m.vec = <<1>>}]
EarlyVotes ==
  [i \in Replicas |-> {m \in OnlyZero[i] :
     m.type = "Val" \/ (m.type \in {"Aux", "Finish"} /\ m.from \in Targets)}]
Silence == [i \in Replicas |-> {}]

\* The middle of a protocol: VALs of the faulty member made 0 win round 0 although
\* only the target started with it; the target flipped 0 and finishes, the others
\* could not combine the share of the faulty member and keep their estimate 1.
LateSent ==
  {Message("Val", i, 0, <<b>>) : i \in Replicas \ Targets, b \in Bits}
    \cup {Message("Val", i, 0, <<0>>) : i \in Targets}
    \cup {Message(type, i, 0, <<0>>) : type \in {"Aux", "Conf"}, i \in Replicas}
    \cup {Message("Finish", i, 0, <<0>>) : i \in Targets}

LateFinisher ==
  [NewRound(0) EXCEPT
     !.state = "Finishing", !.valuesR = {0}, !.broadcastEstimates = {0},
     !.broadcastFinish = {0},
     !.receivedVals[0] = Replicas, !.receivedAux[<<0>>] = Replicas,
     !.receivedConf[<<0>>] = Replicas]

LateInit ==
  /\ input \in SplitInputs
  /\ round = [i \in Replicas |-> IF i \in Targets THEN 0 ELSE 1]
  /\ current = [i \in Replicas |-> IF i \in Targets THEN LateFinisher ELSE NewRound(1)]
  /\ pending = [i \in Replicas |-> EmptyQueue]
  /\ panicked = [i \in Replicas |-> FALSE]
  /\ decided = [i \in Replicas |-> {}]
  /\ sent = LateSent
  /\ handed = [i \in Replicas |->
       IF i \in Targets
         THEN {m \in LateSent : m.type # "Finish" /\ m.vec = <<0>>}
         ELSE {m \in LateSent : m.type \in {"Val", "Aux"} /\ m.vec = <<0>>}
                \cup {m \in LateSent : m.type = "Conf" /\ m.from \notin Targets}
                \cup {m \in EnvMessages[i] : m.round = 0}]
  /\ coin \in {k \in [Rounds -> Bits] : k[0] = 0}

LateSpec == LateInit /\ [][Next]_vars

\* Another middle: the others, who started with 1, have left the estimates of round 0
\* with it, helped by the VAL the target repeated although it started with 0; they
\* have counted their own AUX votes, and the target has still to see its own VAL.
LastSent ==
  {Message("Val", i, 0, <<1>>) : i \in Replicas} \cup {Message("Val", i, 0, <<0>>) : i \in Targets}
    \cup {Message("Aux", i, 0, <<1>>) : i \in Replicas \ Targets}

LastRound(i) ==
  LET others == Replicas \ Targets IN
  IF i \in Targets
    THEN [NewRound(0) EXCEPT !.broadcastEstimates = {1},
            !.receivedVals[0] = Targets, !.receivedVals[1] = others]
    ELSE [NewRound(1) EXCEPT !.state = "CollectingAux", !.valuesR = {1}, !.broadcastEstimates = {1},
            !.receivedVals[0] = Targets, !.receivedVals[1] = Replicas,
            !.receivedAux[<<1>>] = others]

LastInit ==
  /\ input \in SplitInputs
  /\ round = [i \in Replicas |-> 0]
  /\ current = [i \in Replicas |-> LastRound(i)]
  /\ pending = [i \in Replicas |-> EmptyQueue]
  /\ panicked = [i \in Replicas |-> FALSE]
  /\ decided = [i \in Replicas |-> {}]
  /\ sent = LastSent
  /\ handed = [i \in Replicas |->
       IF i \in Targets
         THEN {m \in LastSent : m.type = "Val" /\ (m.from \in Targets => m.vec = <<0>>)}
         ELSE LastSent]
  /\ coin \in {k \in [Rounds -> Bits] : k[0] = 1}

LastSpec == LastInit /\ [][Next]_vars /\ Fairness

\* The replicas other than the targets are interchangeable.
Symmetry == Permutations(Replicas \ Targets)

\* Without what no longer matters: votes after their phase, and that a
\* message was handed over once it has been served.  When nothing may wait in a
\* queue, a message is served as soon as it is handed over.
RoundView(rd) ==
  <<rd.state, rd.estimate, rd.valuesR, rd.broadcastFinish,
    IF rd.state = "CollectingVal" THEN <<rd.receivedVals, rd.broadcastEstimates>> ELSE <<>>,
    IF rd.state \in {"CollectingVal", "CollectingAux"} THEN rd.receivedAux ELSE <<>>,
    IF rd.state # "Finishing" THEN rd.receivedConf ELSE <<>>,
    rd.receivedFinish>>

NoQueueView ==
  <<input, round, [i \in Replicas |-> RoundView(current[i])], panicked, decided, sent, coin>>

View ==
  <<NoQueueView, pending,
    [i \in Replicas |-> {m \in handed[i] : ~Served(i, m)}]>>
=============================================================================
