------------------------- MODULE AsyncBinaryAgreement -------------------------
(***************************************************************************)
(* Asynchronous binary agreement (async_bin_agreement.rs): rounds of VAL,  *)
(* AUX and CONF votes, each closed by a common coin, until FINISH votes    *)
(* decide.  Messages of later rounds, and of later phases of the current   *)
(* one, wait in a RoundQueue.                                              *)
(*                                                                         *)
(* Replicas are the members whose AsyncBinaryAgreement the module runs;    *)
(* what the other members may send is EnvMessages, available at any time   *)
(* and any number of times.  A message of a replica is delivered to each   *)
(* replica at most once, in any order.                                     *)
(***************************************************************************)
EXTENDS AgreementRound, RoundQueue

CONSTANTS
  Replicas,
  Inputs,          \* the input bits the replicas may be started with
  EnvMessages,     \* what the other members may send to each replica
  NetworkFails,    \* whether network.broadcast_message may return an error
  MaxRound,        \* bound: no replica goes beyond this round
  MaxPending       \* bound: how many messages wait for one round

Rounds == 0..MaxRound

Messages == [type : {"Val", "Aux", "Conf", "Finish"}, from : Nodes, round : Rounds, vec : Vectors]

Message(type, from, r, vec) == [type |-> type, from |-> from, round |-> r, vec |-> vec]

\* A VAL or a FINISH carries one bit.
OneBit(m) == m.type \in {"Val", "Finish"} => Len(m.vec) = 1

ASSUME AgreementAssumption ==
  /\ MaxRound \in Nat /\ MaxPending \in Nat /\ NetworkFails \in BOOLEAN
  /\ Replicas \subseteq Nodes
  /\ Inputs \subseteq [Replicas -> Bits]
  /\ EnvMessages \in
       [Replicas -> SUBSET {m \in Messages : m.from \notin Replicas /\ OneBit(m)}]

VARIABLES
  input,      \* input_bit
  round,      \* round
  current,    \* current_round
  pending,    \* pending_messages
  panicked,   \* the instance hit a panic and takes no more steps
  decided,    \* the values for which process_message returned Decided
  sent,       \* every message the replicas have broadcast
  handed,     \* the messages the network has handed to each replica
  coin        \* what a combined signature over a round hashes to

vars == <<input, round, current, pending, panicked, decided, sent, handed, coin>>

-----------------------------------------------------------------------------
(***************************************************************************)
(* process_message.  queue is the replica's pending_messages when the      *)
(* handler is entered.                                                     *)
(***************************************************************************)

\* A signature combined from the shares of replicas is the round's; the shares of
\* other members are not verified, so that with theirs it may be anything.  In a mutant
\* a replica flips a coin of its own.
OwnCoin(i, m) == Bits
CoinOutcomes(i, m) ==
  IF m.type = "Conf" /\ ~(current[i].receivedConf[m.vec] \cup {m.from} \subseteq Replicas)
    THEN Bits \cup {NoCoin}
    ELSE {coin[m.round]}

Accept(i, m, flip) ==
  CASE m.type = "Val"    -> AcceptEstimate(current[i], m.from, m.vec[1])
    [] m.type = "Aux"    -> AcceptAuxiliary(current[i], m.from, m.vec)
    [] m.type = "Conf"   -> AcceptConfirmation(current[i], m.from, m.vec, flip)
    [] m.type = "Finish" -> AcceptFinish(current[i], m.from, m.vec[1])

\* The Vec<bool>s a HashSet<bool> may be collected into.
Orderings(values) == {v \in Vectors : ElementsOf(v) = values /\ Len(v) = Cardinality(values)}

ReplyType(result) ==
  CASE result = "BroadcastEst"       -> "Val"
    [] result = "BroadcastAux"       -> "Aux"
    [] result = "BroadcastConf"      -> "Conf"
    [] result = "BroadcastFinalized" -> "Finish"

\* A message of a later round.
QueueFuture(i, m, queue) ==
  /\ m.round > round[i]
  /\ pending' = [pending EXCEPT ![i] = AddMessage(queue, m.round, m)]
  /\ UNCHANGED <<round, current, panicked, decided, sent>>

IgnorePast(i, m, queue) ==
  /\ m.round < round[i]
  /\ pending' = [pending EXCEPT ![i] = queue]
  /\ UNCHANGED <<round, current, panicked, decided, sent>>

\* Ignored, AlreadyAccepted and Accepted: the data is all that may change.
Count(i, m, queue, flip) ==
  LET outcome == Accept(i, m, flip) IN
  /\ m.round = round[i]
  /\ outcome.result \in {"Ignored", "AlreadyAccepted", "Accepted"}
  /\ current' = [current EXCEPT ![i] = outcome.data]
  /\ pending' = [pending EXCEPT ![i] = queue]
  /\ UNCHANGED <<round, panicked, decided, sent>>

\* A vote of a later phase of the round; a mutant loses it.
LoseCurrent(i, m, queue, flip) ==
  /\ m.round = round[i]
  /\ Accept(i, m, flip).result = "Queue"
  /\ pending' = [pending EXCEPT ![i] = queue]
  /\ UNCHANGED <<round, current, panicked, decided, sent>>
QueueCurrent(i, m, queue, flip) ==
  /\ m.round = round[i]
  /\ Accept(i, m, flip).result = "Queue"
  /\ pending' = [pending EXCEPT ![i] = AddMessage(queue, m.round, m)]
  /\ UNCHANGED <<round, current, panicked, decided, sent>>

\* An error of the network is unwrapped; a mutant only logs it.
LogNetworkError(i) == NetworkFails /\ UNCHANGED <<panicked, sent>>
UnwrapNetworkError(i) ==
  NetworkFails /\ panicked' = [panicked EXCEPT ![i] = TRUE] /\ UNCHANGED sent

\* The four arms that broadcast.
Reply(i, m, queue, flip) ==
  LET outcome == Accept(i, m, flip) IN
  /\ m.round = round[i]
  /\ outcome.result \in {"BroadcastEst", "BroadcastAux", "BroadcastConf", "BroadcastFinalized"}
  /\ current' = [current EXCEPT ![i] = outcome.data]
  /\ pending' = [pending EXCEPT ![i] = queue]
  /\ \/ /\ \E vec \in Orderings(outcome.values) :
             sent' = sent \cup {Message(ReplyType(outcome.result), i, round[i], vec)}
        /\ UNCHANGED panicked
     \/ UnwrapNetworkError(i)
  /\ UNCHANGED <<round, decided>>

\* Failed: advance_round.
AdvanceRound(i, m, queue, flip) ==
  LET outcome == Accept(i, m, flip) IN
  /\ m.round = round[i] /\ round[i] < MaxRound
  /\ outcome.result = "Failed"
  /\ \E estimate \in outcome.values :
       current' = [current EXCEPT ![i] = NewRound(estimate)]
  /\ round' = [round EXCEPT ![i] = @ + 1]
  /\ pending' = [pending EXCEPT ![i] = queue]
  /\ UNCHANGED <<panicked, decided, sent>>

\* Finalized: the result Decided, which drops the value; it may come repeatedly.
Decide(i, m, queue, flip) ==
  LET outcome == Accept(i, m, flip) IN
  /\ m.round = round[i]
  /\ outcome.result = "Finalized"
  /\ current' = [current EXCEPT ![i] = outcome.data]
  /\ decided' = [decided EXCEPT ![i] = @ \cup outcome.values]
  /\ pending' = [pending EXCEPT ![i] = queue]
  /\ UNCHANGED <<round, panicked, sent>>

ProcessMessage(i, m, queue) ==
  \/ QueueFuture(i, m, queue)
  \/ IgnorePast(i, m, queue)
  \/ \E flip \in CoinOutcomes(i, m) :
       \/ Count(i, m, queue, flip)
       \/ QueueCurrent(i, m, queue, flip)
       \/ Reply(i, m, queue, flip)
       \/ AdvanceRound(i, m, queue, flip)
       \/ Decide(i, m, queue, flip)

-----------------------------------------------------------------------------
(***************************************************************************)
(* The steps of the orchestrator and of the network.                       *)
(***************************************************************************)

\* Whether the handler puts m into the queue.
Waits(i, m) ==
  \/ m.round > round[i]
  \/ m.round = round[i] /\ Accept(i, m, NoCoin).result = "Queue"

HasRoom(i, m) == Waits(i, m) => Waiting(pending[i], m.round) < MaxPending

Deliver(i, m) ==
  /\ ~panicked[i]
  /\ m \in sent /\ m \notin handed[i] /\ HasRoom(i, m)
  /\ handed' = [handed EXCEPT ![i] = @ \cup {m}]
  /\ ProcessMessage(i, m, pending[i])
  /\ UNCHANGED <<input, coin>>

DeliverEnv(i, m) ==
  /\ ~panicked[i]
  /\ m \in EnvMessages[i] /\ HasRoom(i, m)
  /\ handed' = [handed EXCEPT ![i] = @ \cup {m}]
  /\ ProcessMessage(i, m, pending[i])
  /\ UNCHANGED <<input, coin>>

\* poll finds fewer rounds in the queue than it wants to drop.
PollPanics(i) ==
  /\ ~panicked[i]
  /\ DrainPanics(pending[i], round[i])
  /\ panicked' = [panicked EXCEPT ![i] = TRUE]
  /\ UNCHANGED <<input, round, current, pending, decided, sent, handed, coin>>

PollNone(i) ==
  LET queue == DrainTo(pending[i], round[i]) IN
  /\ ~panicked[i]
  /\ ~DrainPanics(pending[i], round[i]) /\ NothingToPop(queue)
  /\ pending' = [pending EXCEPT ![i] = queue]
  /\ UNCHANGED <<input, round, current, panicked, decided, sent, handed, coin>>

\* The message poll returns is handed back to process_message.
PollMessage(i) ==
  LET queue == DrainTo(pending[i], round[i]) IN
  /\ ~panicked[i]
  /\ ~DrainPanics(pending[i], round[i]) /\ ~NothingToPop(queue)
  /\ ProcessMessage(i, Top(queue), WithoutTop(queue))
  /\ UNCHANGED <<input, handed, coin>>

Poll(i) == PollPanics(i) \/ PollNone(i) \/ PollMessage(i)

\* Nothing in the crate broadcasts the estimate a round starts with; whoever runs
\* the instance has to do it.
Announce(i) ==
  LET m == Message("Val", i, round[i], <<current[i].estimate>>) IN
  /\ ~panicked[i]
  /\ current[i].state = "CollectingVal" /\ m \notin sent
  /\ sent' = sent \cup {m}
  /\ UNCHANGED <<input, round, current, pending, panicked, decided, handed, coin>>

-----------------------------------------------------------------------------

Init ==
  /\ input \in Inputs
  /\ round = [i \in Replicas |-> 0]
  /\ current = [i \in Replicas |-> NewRound(input[i])]
  /\ pending = [i \in Replicas |-> EmptyQueue]
  /\ panicked = [i \in Replicas |-> FALSE]
  /\ decided = [i \in Replicas |-> {}]
  /\ sent = {}
  /\ handed = [i \in Replicas |-> {}]
  /\ coin \in [Rounds -> Bits]

Next ==
  \E i \in Replicas :
    \/ \E m \in sent : Deliver(i, m)
    \/ \E m \in EnvMessages[i] : DeliverEnv(i, m)
    \/ Poll(i)
    \/ Announce(i)

Spec == Init /\ [][Next]_vars

\* The orchestrator polls regularly, and what the replicas broadcast arrives.
Fairness ==
  \A i \in Replicas : WF_vars(Poll(i)) /\ WF_vars(\E m \in sent : Deliver(i, m))

FairSpec == Spec /\ Fairness

-----------------------------------------------------------------------------
(***************************************************************************)
(* Properties.                                                             *)
(***************************************************************************)

\* The fields hold what their types say.
TypeOK ==
  /\ input \in Inputs
  /\ round \in [Replicas -> Rounds]
  /\ current \in [Replicas -> RoundData]
  /\ pending \in [Replicas -> [base : Rounds, rounds : Seq(Seq(Messages))]]
  /\ panicked \in [Replicas -> BOOLEAN]
  /\ decided \in [Replicas -> SUBSET Bits]
  /\ sent \subseteq {m \in Messages : m.from \in Replicas /\ OneBit(m)}
  /\ handed \in [Replicas -> SUBSET Messages]
  /\ \A i \in Replicas : handed[i] \subseteq sent \cup EnvMessages[i]
  /\ coin \in [Rounds -> Bits]

\* The members heard to say vec in round r, in a message of the type.
Said(type, r, vec) == {j \in Replicas : Message(type, j, r, vec) \in sent}

\* The queue never mixes rounds: what waits in a slot is of the slot's round, and
\* the queue is never ahead of the round the replica is in, although rounds are
\* dropped only when the replica is polled.
QueueAligned ==
  \A i \in Replicas : Aligned(pending[i]) /\ pending[i].base <= round[i]

\* m has been counted by replica i, or its phase is over.
Served(i, m) ==
  LET rd == current[i] IN
  \/ m.round < round[i]
  \/ m.round = round[i] /\
       CASE m.type = "Val"    -> rd.state # "CollectingVal" \/ m.from \in rd.receivedVals[m.vec[1]]
         [] m.type = "Aux"    -> \/ rd.state \in {"CollectingConf", "Finishing"}
                                 \/ m.from \in rd.receivedAux[m.vec]
         [] m.type = "Conf"   -> rd.state = "Finishing" \/ m.from \in rd.receivedConf[m.vec]
         [] m.type = "Finish" -> m.from \in rd.receivedFinish[m.vec[1]]

\* A message that was handed over is never lost: it waits, was counted, or came
\* too late to count, across every advance of the round and every poll.
NothingLost ==
  \A i \in Replicas : \A m \in handed[i] : Holds(pending[i], m) \/ Served(i, m)

\* A replica casts one AUX and one CONF vote in a round, on which the quorum
\* arguments of the next phases rest.
OneVoteEach ==
  \A m1, m2 \in sent :
    m1.from = m2.from /\ m1.round = m2.round /\ m1.type = m2.type /\ m1.type \in {"Aux", "Conf"}
      => m1 = m2

\* A FINISH is only broadcast for a value that F + 1 replicas confirmed in that
\* round, even by a replica that repeats what F + 1 others sent.
FinishBacked ==
  \A m \in sent :
    m.type = "Finish" => Cardinality(Said("Conf", m.round, m.vec)) >= F + 1

\* A replica that broadcast FINISH stays in the round, and only ever repeats it
\* there, so that those who can still move on are too few to decide otherwise.
FinishersStay ==
  \A m \in sent :
    m.type = "Finish" => round[m.from] = m.round /\ current[m.from].state = "Finishing"

\* No two replicas decide differently, in whichever rounds.
Agreement == \A i, j \in Replicas : \A v \in decided[i], w \in decided[j] : v = w

\* When the replicas start with the same bit, nothing else is decided.
Validity ==
  \A b \in Bits : (\A i \in Replicas : input[i] = b) => \A i \in Replicas : decided[i] \subseteq {b}

\* The members that may count as having voted for vec: the replicas that did, and
\* all the others.
Backers(type, r, vec) == Said(type, r, vec) \cup (Nodes \ Replicas)

\* Every vote a replica has counted in its round was cast there by its sender.
VotesHeard ==
  \A i \in Replicas :
    /\ \A b \in Bits : /\ current[i].receivedVals[b] \subseteq Backers("Val", round[i], <<b>>)
                       /\ current[i].receivedFinish[b] \subseteq Backers("Finish", round[i], <<b>>)
    /\ \A v \in Vectors : /\ current[i].receivedAux[v] \subseteq Backers("Aux", round[i], v)
                          /\ current[i].receivedConf[v] \subseteq Backers("Conf", round[i], v)

\* A replica that cast a vote has left the phase before it.
VotesOfPhase ==
  \A m \in sent :
    /\ m.round <= round[m.from]
    /\ m.round = round[m.from] =>
         /\ m.type = "Aux" => current[m.from].state # "CollectingVal"
         /\ m.type = "Conf" => current[m.from].state \in {"CollectingConf", "Finishing"}

\* A FINISH goes back to CONFs of 2F + 1 members, a decision to as many FINISHes.
QuorumsBehind ==
  /\ \A m \in sent :
       m.type = "Finish" => Cardinality(Backers("Conf", m.round, m.vec)) > 2 * F
  /\ \A i \in Replicas : \A v \in decided[i] :
       \E r \in Rounds : Cardinality(Backers("Finish", r, <<v>>)) > 2 * F

\* The inductive invariant behind the agreement: every vote counted or waiting, in
\* whichever round, was cast by its sender, each replica casts its votes phase by
\* phase and once, and every step towards a decision has a quorum behind it.
SafetyInv ==
  /\ TypeOK
  /\ \A i \in Replicas : \A m \in Messages : Holds(pending[i], m) => m \in handed[i]
  /\ VotesHeard
  /\ VotesOfPhase
  /\ OneVoteEach
  /\ FinishersStay
  /\ QuorumsBehind

\* The counted votes never reach a threshold that was not acted on, although a count is
\* only compared when it grows: the phase is over, or the vote does not help it (a
\* vector that is not within values_r), and a phase is entered with no vote counted.
\* As one value closes the estimates, values_r holds one.
RoundOpen(rd) ==
  /\ rd.state = "CollectingVal" =>
       /\ rd.valuesR = {}
       /\ \A b \in Bits : ~MoreThan(2 * F, rd.receivedVals[b])
       /\ \A v \in Vectors : rd.receivedAux[v] = {}
  /\ rd.state # "CollectingVal" => \E b \in Bits : rd.valuesR = {b}
  /\ rd.state \in {"CollectingVal", "CollectingAux"} => \A v \in Vectors : rd.receivedConf[v] = {}
  /\ rd.state = "CollectingAux" =>
       \A v \in Vectors : ElementsOf(v) \subseteq rd.valuesR => ~MoreThan(2 * F, rd.receivedAux[v])
  /\ rd.state = "CollectingConf" =>
       \A v \in Vectors : ElementsOf(v) \subseteq rd.valuesR => ~MoreThan(2 * F, rd.receivedConf[v])
  /\ rd.state # "Finishing" =>
       rd.broadcastFinish = {} /\ \A b \in Bits : rd.receivedFinish[b] = {}

ThresholdsActedOn ==
  \A i \in Replicas :
    /\ RoundOpen(current[i])
    /\ \A b \in Bits : MoreThan(2 * F, current[i].receivedFinish[b]) => b \in decided[i]

\* A phase is entered and its vote broadcast as one, unless the replica panics between
\* the two: a running replica has cast the AUX, the CONF and the FINISH its phase says.
VotesCast ==
  \A i \in Replicas : \A b \in Bits :
    LET rd == current[i] IN
    ~panicked[i] /\ rd.valuesR = {b} =>
      /\ i \in Said("Aux", round[i], <<b>>)
      /\ rd.state \in {"CollectingConf", "Finishing"} => i \in Said("Conf", round[i], <<b>>)
      /\ rd.state = "Finishing" => i \in Said("Finish", round[i], <<b>>)

\* Nobody else sends replica i a share for the coin of round r.
Unspoiled(i, r) == \A m \in EnvMessages[i] : ~(m.type = "Conf" /\ m.round = r)

\* A replica whose AUX vote was for the value the coin of its round shows never leaves
\* the round, whatever the others vote for, unless their shares spoil its coin.
CoinKeepsVoters ==
  \A i \in Replicas, r \in Rounds :
    i \in Said("Aux", r, <<coin[r]>>) /\ Unspoiled(i, r) => round[i] = r

\* Replica i has nothing left to do: it runs, was handed all messages, and those that
\* wait in its queue, for its round, are of a later phase.
AtRest(i) ==
  /\ ~panicked[i] /\ sent \subseteq handed[i]
  /\ \A m \in sent :
       m.round = round[i] /\ Holds(pending[i], m) => Accept(i, m, NoCoin).result = "Queue"

\* Replicas never wait for each other in vain where the protocol can end: when more
\* than 2F left the estimates of a round with the value its coin shows, and the coin is
\* not spoiled, they only come to rest with each of them having decided it.
LikeMindedNotStuck ==
  \A r \in Rounds : \A b \in Bits :
    LET voters == Said("Aux", r, <<b>>) IN
    coin[r] = b /\ MoreThan(2 * F, voters) /\ (\A i \in voters : AtRest(i) /\ Unspoiled(i, r))
      => \A i \in voters : b \in decided[i]

Abstract ==
  INSTANCE BinaryConsensus WITH Members <- Replicas, Values <- Bits,
                                proposal <- input, decisions <- decided

\* The replicas decide as the abstract consensus does: never differently, never
\* anew, and nothing none of them has proposed.
ImplementsConsensus == Abstract!BCSpec

\* The next message replica i is polled for is of a later phase than the replica is in,
\* and is put back on top of the queue (pop_message takes the last one that was added),
\* while below it waits a message of the phase the replica is in, or one it could act on.
Early(i, m) == Accept(i, m, NoCoin).result = "Queue"
Buried(i) ==
  LET queue == DrainTo(pending[i], round[i]) IN
  /\ ~NothingToPop(queue) /\ queue.rounds # <<>>
  /\ Early(i, Top(queue))
  /\ \E n \in 1..Len(queue.rounds[1]) : ~Early(i, queue.rounds[1][n])

\* When 2F + 1 replicas leave the estimates of the first round (insert_estimate) with
\* the value the coin will show, each of them decides it, in whichever phase the votes
\* of the others find it, unless a bad share spoils the coin, or some replica is for ever
\* polled for an early vote that hides one it needs.  Nothing less makes a round end:
\* replicas that left with different values wait for AUX votes that nobody is going
\* to cast.
LikeMinded == Said("Aux", 0, <<coin[0]>>)
LikeMindedDecide ==
  (\A i \in Replicas : []<>~Buried(i))
    => (Cardinality(LikeMinded) > 2 * F ~> \A i \in LikeMinded : decided[i] = {coin[0]})

\* "the orchestrator polls regularly" (aba.rs): it may do so in any state.
PollIsSafe == \A i \in Replicas : ~DrainPanics(pending[i], round[i])

\* "messages which are now ready to be processed" (aba.rs): a vote of the phase
\* the replica is in does not wait in the queue for ever.
ReadyMessagesAreProcessed ==
  \A i \in Replicas : \A m \in EnvMessages[i] :
    (Holds(pending[i], m) /\ m.type = "Aux" /\ m.round = round[i]
       /\ current[i].state = "CollectingAux") ~> Served(i, m)
=============================================================================
