# IronDumbo in TLA+

IronDumbo is a Rust implementation, in progress, of the Dumbo1 asynchronous ordering
protocol. What exists in code is the reliable broadcast, the binary agreement and the round
of an epoch that routes messages between them; the ordering protocol above is a skeleton.
This directory models these three layers, checks them with TLC on small memberships, and
proves with TLAPS that they are safe and that their members do not
wait for each other in vain. Paths below are relative to the crate's `src/`.

## The system

| Component | Source | State | Operations | Where it is hard |
|---|---|---|---|---|
| Quorum information | `quorum_info/quorum_info.rs` | members, f, n - f | `new` with an assertion | thresholds off by one, n > 3f + 1 |
| Reliable broadcast | `reliable_broadcast/` | state of four phases, proposed messages and digest, ECHO and READY voters, two FIFO queues | `process_message`, `poll`, `finalize` | equivocating sender, a SEND of someone else, messages and digest that do not belong together, votes out of order, requeued votes, lost messages |
| Agreement round | `async_bin_agreement/async_bin_agreement_round.rs` | phase, estimate, accepted values, votes per value or vector, partial signatures | `accept_estimate`, `accept_auxiliary`, `accept_confirmation` with the coin, `accept_finish` | one vote per phase, unverified shares of the coin |
| Agreement queue | `async_bin_agreement/pending_messages.rs` | base round, one stack per round | `add_message`, `pop_message` | base and round drift apart, `drain` past the end |
| Binary agreement | `async_bin_agreement/async_bin_agreement.rs` | round number, current round, queue | `process_message`, `poll`, `advance_round` | replicas in different rounds, failing broadcasts |
| Epoch orchestrator | `dumbo1/epoch.rs` | per member: broadcast, then agreement, then completed; the committee election | `process_message` | routing by sender, messages before the hand-over, replacing a running instance |
| Ordering protocol | `dumbo1/protocol.rs` | epoch, rounds | tolerance functions; the rest is `todo!()` | arithmetic |
| Adapters, traits | `dumbo1/network.rs`, `dumbo1/message.rs`, `rbc.rs`, `aba.rs`, `committee_election.rs`, `rq_aggregator.rs` | none | wrapping of messages, traits | none of their own |

The members exchange messages over an external network (Atlas). An orchestrator owns
each instance, hands it the messages the network delivers, polls it for messages that
were queued and hands those back to `process_message`, and finalizes it when it reports
`Finalized` or `Decided`. There is no concurrency inside an instance (`&mut self`);
concurrency is the interleaving of the members' handlers and of the messages.

What makes each part correct: the broadcast agrees on one digest, backed by enough
members, hands out messages that were sent with it, and loses no vote in its queues; a round of the agreement casts one vote per
phase and finishes only on a value that replicas confirmed; the agreement decides one
value, and only a replica's; the queue hands out each message once, in its round; the round
of an epoch runs the agreement on the payload its broadcast delivered and hears for each member
only that member.

## Modules

| Module | Models | Kind |
|---|---|---|
| `QuorumInfo` | membership, f, quorum size, the fault model; the tolerance functions of `dumbo1/protocol.rs` | constants, assumptions, operators |
| `ConsistentBroadcast` | what a broadcast promises, without messages | abstract specification |
| `ReliableBroadcast` | `reliable_broadcast.rs` at every correct member, with the network | specification and properties |
| `RoundQueue` | `pending_messages.rs` | operators on a queue |
| `AgreementRound` | `async_bin_agreement_round.rs` | operators on a round's data |
| `BinaryConsensus` | what an agreement promises, without rounds and messages | abstract specification |
| `AsyncBinaryAgreement` | `async_bin_agreement.rs` at every replica, with the network; composes `AgreementRound` and `RoundQueue` | specification and properties |
| `DumboRound` | `epoch.rs` at one replica: routing, the hand-over from broadcast to agreement, the election beside them | specification and properties |
| `MCReliableBroadcast`, `MCAsyncBinaryAgreement`, `MCDumboRound` | | instances for TLC |
| `QuorumInfoProofs`, `RoundQueueProofs`, `AgreementRoundProofs` | | proofs about the operators |
| `ReliableBroadcastProofs`, `AsyncBinaryAgreementProofs`, `DumboRoundProofs` | | proofs of the specifications' safety |
| `BroadcastProgressProofs`, `AgreementProgressProofs` | | proofs of what progress rests on |

### Correspondence

`ReliableBroadcast`: each variable is a function of the correct member, one variable per
field of `ReliableBroadcastInstance` (`rbState`, `tracking`, `pending`; `payload` and `proposed`
are the messages and the digest of `proposed_messages`), plus
`inflight`, the messages of correct members still to be delivered to each, and `output`,
what `finalize` returned, messages with their digest. `ProcessMessage` has one disjunct per arm of the `match`
(`ReceiveSend`, `IgnoreSend`, `ReceiveEcho`, `ReceiveReady`, `QueueMessage`), each with the
broadcast the arm makes; it takes the queue as an argument because `poll` pops before the
message is processed. `Deliver`, `DeliverFaulty`, `PollEcho`, `PollReady` and `Finalize`
are the orchestrator's steps. A SEND carries messages and a digest, which nothing compares with
each other; ECHO, READY and all guards are about the digest. The instance stores a `sender` and
never compares it with who sent a SEND: in the model `Sender` only says who broadcasts, if it is
correct, and every faulty member may send SENDs (`Forgeable`).

`AgreementRound` and `RoundQueue` have one operator per method; an accepting operator
returns the new data, the `RoundDataVoteAcceptResult` and its value. In
`AsyncBinaryAgreement` each variable is a function of the replica: `round`, `current`
(`current_round`), `pending`, `panicked` (an `expect` or `drain` unwound: the instance takes
no more steps) and `decided` (the values of `Finalized`, which the code drops).
`ProcessMessage` has one disjunct per way through the handler: `QueueFuture`, `IgnorePast`,
and for the current round `Count`, `QueueCurrent`, `Reply` (the four broadcasts, which may
fail where `NetworkFails`: `UnwrapNetworkError`), `AdvanceRound`, `Decide`. `Announce` is external: nothing in the
crate broadcasts the first VAL of a round, so whoever runs the instance does.

`DumboRound`: `nodeStates` is `node_states`, an entry being `RunningRBC` with the instance
of the broadcast or `RunningABA` with the completed payload and the instance of the
agreement; `election` is what the running election kept, `sent` what left through
`SendNodeWrapperRef` with the epoch on it, `reported` which messages were answered
`MessageQueued`. Each action is a way through `process_message`:

| Arm | Actions |
|---|---|
| broadcast messages | `AdoptPayload`, `CountVote`, `QueueVote` (R's own results), `HandOver`, `HandOverPanics` (R finalized), `IgnoreBroadcast` |
| agreement messages | `PassToAgreement`, `AgreementReplies`, `AgreementDecides`, `DropEarlyAgreement`, `IgnoreAgreement` |
| election messages | `PassToElection` |

`epoch.rs` is generic over the broadcast R, the agreement A and the election CE, and no type
of the crate implements the first of these traits yet. R is modelled after
`ReliableBroadcastInstance`: it adopts the first SEND, counts ECHOs until they are enough,
then READYs, and queues the rest; `EchoThreshold` and `ReadyThreshold` are its two thresholds.
What A and CE make of a message is any result their traits allow. A `todo!()` or
`unimplemented!()` on the way is a panic, in the state the code leaves it: in the middle of
the hand-over (`A::new`), in the adapter through which an agreement broadcasts once it has
counted a vote, after a decision. `NodeState::Completed` is never constructed, so it is not in the model.
`Tracked` holds the members that have an entry in `node_states`. The crate inserts
none, so with the code alone it is empty and nothing happens; the model starts from the
entries that whoever starts the broadcasts has to add.

The threshold signature is abstracted to the coin of a round. Shares of replicas combine
to `coin[round]`. With the share of another member, which the code does not verify, the
result is chosen freely from both bits and an error.

### Faults

A faulty member has no state. Every message it may send (`FaultyMessages`,
`EnvMessages`) can be delivered at any time and any number of times. Messages of correct
members are delivered at most once to each, in any order, and, without fairness, perhaps
never: this covers loss, and the broadcasts whose failure is only logged. The safety
properties are checked and proved without fairness. Nothing is persisted, so there is no
recovery to model.

## Runs

Reliable broadcast (module `MCReliableBroadcast`; n = 4 and f = 1 unless said):

| Run | Question | Instance |
|---|---|---|
| `rbc_safety` | `Agreement`, `DeliverySupport`, `ImplementsBroadcast` | the sender is faulty and sends and votes anything: two digests, and under each one payload to `a` and another to the rest |
| `rbc_queues` | `IndInv` (which holds `TypeOK`), `NothingLost`, `QuorumNotStuck` | equivocating sender, queues of up to two messages each |
| `rbc_liveness` | `QuorumDelivers`, `ReadiesAreServed`, `ProposerNotStuck` | starts where the others have exchanged ECHOs and the SEND of the correct sender has not reached one member; that member gets early READYs and, from the faulty member, a SEND and READYs for another digest, over and over; fairness |
| `rbc_totality` | refutes `Totality` | the faulty sender leaves one member out |
| `rbc_wide_quorum` | refutes `Agreement` | n = 5, f = 1 |

Binary agreement (module `MCAsyncBinaryAgreement`; three replicas and one faulty member
unless said):

| Run | Question | Instance |
|---|---|---|
| `aba_queues` | `TypeOK`, `QueueAligned`, `NothingLost`, `VotesCast`, `CoinKeepsVoters` | one replica, f = 0, three rounds, failing network; one vote passes a threshold, so every order of early and late votes over rounds and phases comes up; the other member may spoil the coins of rounds 0 and 2 but not of round 1, so that rounds are left both ways and one round keeps who voted for its coin |
| `aba_equivocation` | `Validity`, `OneVoteEach`, `FinishBacked`, `SafetyInv`, `ThresholdsActedOn` | inputs equal or different; the faulty member votes for 1 in every phase towards a replica with input 0 and sends the others VALs for 0; one round |
| `aba_late_round` | `Agreement`, `FinishersStay`, `ImplementsConsensus` | starts where one replica finishes round 0 on 0 and the others begin round 1 with 1; the faulty member helps both sides and spoils coins, so that a replica may go on to round 2 alone |
| `aba_decides` | `LikeMindedDecide`, `LikeMindedNotStuck` | three replicas, one round, the faulty member silent; starts (`LastInit`) where two have left the estimates with 1 and the third, which began with 0, has not; early votes wait in any number; fairness |
| `aba_poll` | refutes `PollIsSafe` | one replica that never queued a message |
| `aba_ready_messages` | refutes `ReadyMessagesAreProcessed` | a FINISH queued above an AUX, fairness |

Epoch round (module `MCDumboRound`):

| Run | Question | Instance |
|---|---|---|
| `round_handover` | `TypeOK`, `OwnVotesOnly`, `HandOverOnce` | a correct and a faulty member with an entry, two without that send READYs; two payloads; both thresholds 1, so that broadcasts do finalize |

The passing runs together take every action. `CHECK_DEADLOCK FALSE` is set because every
run ends: all have finalized or decided, the last round allowed is over, every message has
arrived, or the replica panicked.

### Bounds

* n = 4, f = 1 is the smallest membership with a fault; two digests, and two payloads under one,
  are enough to disagree. In `rbc_safety` each member is sent one payload, under either digest,
  since what it adopts first is all it ever holds of a payload.
* `MaxPending` bounds a queue by making the network hold back a message that would have to
  wait in a full one. In `rbc_safety` the queues have room for nothing: a message out of turn
  then waits in the network, which is all a queue adds to what the votes can do. `rbc_queues`
  checks the queues themselves, and the proofs have no bound.
* `MaxRound` bounds the rounds. One round holds every phase and vote; two are needed for a
  replica to leave another behind; `aba_queues` and `aba_late_round` have three, so that the
  base of the queue can fall two rounds behind and the replicas be in three rounds.
* In `aba_decides` `MaxPending` is 9, as many AUX, CONF and FINISH votes as the three replicas
  send in the round, so that it never holds a message back: votes that bury each other in the
  queue are part of the run.
* In `aba_equivocation` and `aba_late_round` the agreement's queues have room for nothing, as
  in `rbc_safety`.
* `EnvMessages` is restricted per run to the messages that can hurt the property.
* `Vectors` holds `<<0>>`, `<<1>>` and, where it matters, `<<0, 1>>`. `values_r` never holds
  two values, since the state leaves `CollectingVal` with the first, and `aba_equivocation`
  allows the two-element vector to show that no replica uses it.
* `LateInit` of both MC modules and `LastInit` are states the protocol reaches; starting there
  keeps the run small while the deep part is explored completely.
* The thresholds are 1 in `round_handover`, where the crate's broadcast has 2 ECHOs and 3 READYs,
  because with more than one READY nothing is ever handed over (theorem `NeverHandedOver`), and
  `HandOverOnce` would hold of a round in which nothing happens.
* `View` leaves out what can no longer change anything: votes of closed phases, and that a
  message was handed over after it was served. `SafetyInv` speaks of closed phases too, so
  its run checks it on the first state found of each class; the proof covers all. Symmetry permutes the replicas that the
  inputs and faulty messages do not tell apart, and in `rbc_safety`, whose faulty sender may send
  either digest to anyone, the digests too; it is not used with liveness.

### Fairness

The network is an asynchronous one that eventually delivers. The broadcast's `Fairness` is weak
fairness of delivering some message to each correct member, of polling and of finalizing. That
whoever owns an instance polls it is an assumption on the caller: the trait offers `poll`
(`rbc.rs:21`), no doc says how often it is called, and the crate's one caller, `epoch.rs:67`,
never does. What the liveness properties of the broadcast say holds for callers that poll. For
the agreement `aba.rs:10` says that the orchestrator polls regularly; its `Fairness` is weak
fairness of polling and of delivering some replica's message to each replica. The round has no
fairness and no liveness property. Nothing is asked of faulty members.

The agreement has no termination that fairness alone gives, and none is claimed: a poll may
panic, a FINISH on top of the queue starves what is below it, one bad share turns the coin
into an error, replicas that leave the estimates with different single values wait for AUX
votes nobody casts, and a FINISH of a round that was left is ignored. `LikeMindedDecide`
states what remains: when 2f + 1 replicas cast the AUX the coin will show, each of them decides,
or some replica's queue is `Buried` for ever: the vote on top, which every poll pops and
`process_message` puts back, is early, and one the replica could use lies below it. Without that
exception the property is false: with two votes of later phases in a queue the starvation of
`aba_ready_messages` happens among correct replicas too.

## What the runs found

* **No totality** (`rbc_totality`): `rbc.rs:11` promises delivery to all correct nodes. READYs of
  others never make a member send READY or accept a payload (`reliable_broadcast.rs:129`), so a
  member the sender leaves out waits for ever after the others finalized.
* **Wide quorums** (`rbc_wide_quorum`): `QuorumInfo::new` accepts all n >= 3f + 1. The broadcast
  is proved to agree for n = 3f + 1, where two sets of 2f + 1 READYs share a correct member, and
  for n > 5f, where two sets of n - 2f ECHOs do; the run refutes it for n = 5, f = 1, between
  the two. The agreement counts every phase in f alone, and is proved for n = 3f + 1 (`Tight`)
  only.
* **Poll may panic** (`aba_poll`): `pop_message` drains rounds the queue never had
  (`pending_messages.rs:51`).
* **A queued message may starve others** (`aba_ready_messages`): the queue is popped and pushed at
  the same end. A FINISH that is out of phase is returned by every poll and queued again,
  which leaves the state as it was: TLC reports the behaviour as stuttering although the
  replica is polled for ever, and an AUX below is never reached.

Six more, without a run of their own:

* **Anyone's SEND counts**: the instance is "for a specific sender" (`reliable_broadcast.rs:29`),
  but the SEND arm (`:91`) takes the first SEND of any member. A faulty member that is first gives
  one member another digest, which the others' votes then do not match, and the broadcast of a
  correct sender is not finalized there: the exception in `ProposerNotStuck`, which `rbc_liveness`
  reaches. With four members nobody finalizes it then unless the faulty one sends a READY.
* **Messages are not tied to their digest**: the SEND arm (`:95`) stores both without comparing
  them, the votes are about the digest, and `finalize` hands out the messages. Correct members that
  were sent different messages under one digest finalize it and deliver what they were sent:
  `ImplementsBroadcast` allows that, and `SameMessages` is false. If something outside the crate
  binds a digest to one payload, it is true (theorem `MessagesAgree`).
* **Early agreement messages are lost**: before the hand-over `epoch.rs:128` answers
  `MessageQueued` and drops the message (`DropEarlyAgreement`), with a TODO to queue it; nothing
  sends it again.
* **Nothing is handed over** with f > 0. `epoch.rs:57` looks up the entry of the *sender* of
  a message, so an ECHO or READY reaches the voter's own broadcast instance and no instance
  hears a second voter (`OwnVotesOnly`). A broadcast that wants more than one READY never
  finalizes (theorem `NeverHandedOver`).
* **Votes queued in R stay there**: the round calls `process_message` of the broadcast and
  never `poll` (`epoch.rs:67`).
* **The tolerance functions disagree**: `get_quorum_for_n` (`protocol.rs:75`) is made for
  n = 2f + 1, the others for 3f + 1. Of 3f + 1 members it wants fewer than `QuorumInfo`'s
  n - f, and two such quorums may be disjoint (theorem `ToleranceQuorumTooSmall`).
  `sequence_number` (`protocol.rs:91`) only calls itself.

Two comments of tests differ from the code. READY is sent after n - 2f ECHOs
(`reliable_broadcast.rs:117`), not "after n-f echoes"
(`reliable_broadcast/test/reliable_broadcast_test.rs:156`, whose assertion both satisfy). And
`async_bin_agreement/test/message_handling_test.rs:115` says that a VAL in the finishing state
should be queued; the test then asserts, and the code does, that it is ignored.

## Proofs

All theorems hold for every finite membership, every set of at most f faulty members,
everything those may send and every bound on queues and rounds. They rest on the assumptions
of the modules: `QuorumAssumption` (the assertion in `QuorumInfo::new`), `FaultAssumption`,
`BroadcastAssumption`, `FaultyAssumption`, `RoundAssumption` and those of the agreement, which
TLC evaluates in every run; and on the hypotheses named in the tables.

### Reliable broadcast

| Theorem | Statement | Assumes |
|---|---|---|
| `Invariance` | `Spec => []IndInv` | |
| `TypeCorrect` | `Spec => []TypeOK` | |
| `NoVoteIsLost` | `Spec => []NothingLost` | |
| `BroadcastSupport` | `Spec => []DeliverySupport` | |
| `BroadcastAgreement` | `Spec => []Agreement` | `Agreeing`: n = 3f + 1 (`Tight`), or n > 5f |
| `MessagesAgree` | `Spec => []SameMessages` | `Agreeing`, and `Binding`: no two payloads are sent under one digest, which the code does not check |
| `BroadcastRefines` | `Spec => ImplementsBroadcast` | `Agreeing` |
| `QuorumIsNotStuck` | `Spec => []QuorumNotStuck` | |
| `ProposerIsNotStuck` | `Spec => []ProposerNotStuck` | |

The inductive invariant `IndInv` is the conjunction of

* `TypeOK`;
* `VotesAreGenuine`: every ECHO or READY of a correct member, in flight, in a queue or counted,
  is for the digest that member adopted, and a READY only if its phase is past the ECHOs.
  Without it a step that counts a vote could not be related to the sender's state;
* `PhaseInv`: state, flags and vote sets of a member agree, and a member past a threshold
  still holds the votes for it;
* `OriginInv`: a member holds messages and a digest that were sent to it in one SEND.

`Agreement` is not inductive. It follows from `IndInv`: a member that finalized d counted
2f + 1 READYs, at least f + 1 of correct members (`CorrectMajority`); with n = 3f + 1
there are 2f + 1 or more correct members, of which two sets of f + 1 might still be
disjoint when fewer than f are faulty, so the count is made among all members: two sets of
2f + 1 out of 3f + 1 share f + 1 members, one of them correct (`CorrectInCommon`), which sent
READY for one digest only. With n > 5f the count is made one phase earlier: behind either
digest is the READY of a correct member, which counted n - 2f ECHOs for it (`ReadySaw`), and two
such sets share more than f members (`CorrectInBoth`), of which a correct one adopted one digest.
A correct sender does not help, since a faulty member may send a SEND too. `DeliverySupport`
needs f + 1 correct READYs only. For the refinement `output` is mapped to itself: `Finalize` is a
hand-out of what was sent (`OriginInv`), every other step a stutter. The abstract broadcast
promises one digest and not one payload: the code does not give more. `MessagesAgree` says what is
missing for one payload.

`NothingLost` is inductive relative to `IndInv`: whichever arm `process_message` takes,
it takes nothing out of a queue and either counts the vote, queues it, or has passed the
phase in which it matters (`HandlerLosesNothing`); a poll hands the vote it takes out to
that handler; a new vote of a correct member goes to everyone.

**No waiting in vain.** TLAPS does not prove liveness, but what liveness rests on are invariants.
A member is at rest (`AtRest`) when no message on its way to it, and none in its queue, is one
an arm of `process_message` would accept, and there is nothing left to finalize.
`QuorumNotStuck`: if all correct members are at rest and n - f of them adopted one digest, each of
these has finalized it. `ProposerNotStuck`: if the sender is correct and all are at rest, they have
finalized its digest, or one of them adopted the digest of someone else's SEND. Both hold
without fairness and for every membership: fairness is only needed to say that the members do
come to rest. The argument (`BroadcastProgressProofs`):

* `ThresholdsOpen`: a member in a phase counts fewer votes than would end it. It holds since a
  phase is entered with no vote counted for it (`PhaseInv`) and the vote that reaches the
  threshold ends it;
* `SendsWait`: the SEND of a correct sender is in flight to whoever is still in `Init`;
* so, by `NothingLost`, a member at rest counted every vote of a correct member for its digest
  (`RestCounts`). Nobody of the quorum then rests before its READY, and, all READYs of the quorum
  being cast, nobody before the end (`QuorumMoves`).

### Binary agreement

| Theorem | Statement | Assumes |
|---|---|---|
| `BaseInvariance` | `Spec => []BaseInv` | |
| `TypeCorrect`, `QueuesAligned`, `NothingIsLost` | `TypeOK`, `QueueAligned`, `NothingLost` | |
| `VotesOnce`, `FinishersNeverLeave` | `OneVoteEach`, `FinishersStay` | |
| `SafetyInvariant`, `FinishesBacked` | `SafetyInv`, `FinishBacked` | `OthersFaulty` |
| `ReplicasValid` | `Validity` | `OthersFaulty` |
| `ReplicasAgree` | `Agreement` | `OthersFaulty`, `Tight` |
| `AgreementRefines` | `Spec => ImplementsConsensus` | `OthersFaulty`, `Tight` |
| `NoThresholdOverlooked`, `PhasesAreAnnounced` | `ThresholdsActedOn`, `VotesCast` | |
| `CoinNeverLosesVoters` | `CoinKeepsVoters` | |
| `LikeMindedAreNotStuck` | `Spec => []LikeMindedNotStuck` | |

`OthersFaulty` says that the members which are not replicas of the model are among the faulty
ones; without it the thresholds mean nothing. The proof goes up in layers.

1. `AgreementRoundProofs` and `RoundQueueProofs` state a contract for each operator: what an
   accepting operator counts, when it may ask for a vote and for which value, which thresholds are
   behind it; what a queue keeps.
2. `ProcessShape`, `StepShape` and `OwnStep` turn every action into: one replica changed, this
   much was sent, and one of the contracts held. The invariants are then proved per
   shape instead of per action.
3. `BaseInv` is inductive by itself: types, the queue (`PendingHanded`, `QueueAligned`,
   `NothingLost`), `VotesHeard` (a vote that was counted was cast), `VotesOfPhase` (a replica
   that cast a vote has left the phase before it, without which nothing would keep it from
   voting again), `OneVoteEach` and `FinishersStay`.
4. `QuorumsBehind` is inductive relative to it: 2f + 1 CONFs stand behind a FINISH, 2f + 1
   FINISHes behind a decision. A FINISH that only repeats others goes back to one of a
   replica, since f + 1 hold one.
5. `Agreement`: two decisions have FINISHes of one replica in common under `Tight`, which
   stays in its round (`FinishersStay`), so both are of one round; the CONFs behind them
   share a replica, which cast one (`OneVoteEach`). `Validity` has an invariant of its own,
   `UnanimityInv`: while all started with b, replicas only say b, since the f others pass no
   threshold.

**No waiting in vain.** `LikeMindedNotStuck` is to `LikeMindedDecide` what `QuorumNotStuck` is to
the broadcast's liveness: when more than 2f replicas cast the AUX the coin agrees with, and no
other member can send them a share for that coin (`Unspoiled`), they are only at rest with the
value decided by each. Nothing is assumed about who is faulty or what the others send in the
other phases. A replica at rest has not panicked, was handed every message the replicas sent,
and keeps in its queue only messages of its round that are early. That leaves out the
starvation of `aba_ready_messages`, where it is polled for ever without coming to rest (`Buried` in
`LikeMindedDecide`). The
argument (`AgreementProgressProofs`), with the inductive invariant `ProgressInv` on top of
`BaseInv`:

* `ThresholdsActedOn`: the counted votes are below every threshold of the phase, with no exception
  for votes counted early (they are queued, not counted), and a FINISH quorum has been decided.
  It includes that `values_r` holds one value from the end of the estimates on, without which a
  vector within it could reach the threshold while a larger one is counted;
* `VotesCast`: a running replica has broadcast the AUX, CONF and FINISH of the phases it has left.
  It fails for one that panicked in `expect`, after the phase was left and before the message;
* `SingleVotes` and `OwnShares`: AUX and CONF votes are for one bit, and without shares of others
  all shares counted for a coin are the replicas'. With these, `CoinKeepsVoters`: a replica that
  voted for what the coin shows does not leave the round, since it only follows CONFs within its
  `values_r`, and these agree with the coin;
* so by `NothingLost` a replica at rest counted every AUX, then every CONF, then every FINISH of
  the like-minded (`RestCounts`), and passed each threshold (`LikeMindedMove`).

### Round and tolerance

| Theorem | Statement | Assumes |
|---|---|---|
| `RoundInvariance`, `TypeCorrect` | `Spec => []RoundInv`, `Spec => []TypeOK` | |
| `OwnVotes` | `Spec => []OwnVotesOnly` | |
| `HandOverIsOnce` | `Spec => HandOverOnce` | |
| `NeverHandedOver` | `Spec => []NoHandOver` | `ReadyThreshold > 1` |
| `ToleranceFits` | n = 3f + 1 is the least membership `QuorumInfo::new` accepts, and gives f back | |
| `ToleranceQuorumTooSmall` | the quorum of `get_quorum_for_n` is below n - f and need not meet another | |

`RoundInv` is `TypeOK` and `OwnVotesOnly`. One lemma per action says what it makes of the entry it
looks up, and `StepShape` that every entry goes on, is handed over with its payload, or is lost by
a panic in the middle of its hand-over, from which `HandOverOnce` follows. `NeverHandedOver` is
`OwnVotesOnly` counted: one voter is fewer than `ReadyThreshold`.

Only model-checked: liveness (`QuorumDelivers`, `ReadiesAreServed`, `LikeMindedDecide`), which
TLAPS does not prove. Every invariant and action
property of the runs that pass is proved. What is left to fairness in the two protocols is that
members come to rest; that the right thing has happened by then is proved.

## Not modelled

* Handlers that are `todo!()`: the ordering protocol's, the agreement's `finalize`, the network
  adapters of agreement and election, message verification. In `DumboRound` they are the panics
  that they are.
* `DumboRound` with the two protocols in it instead of their traits. The crate does not
  instantiate it (the broadcast lacks the trait, `A::new` of the agreement is
  `unimplemented!()`), and by `NeverHandedOver` the composition would never reach an
  agreement.
* That `DumboRound` does not compare the epoch of a message with its own: no caller that would
  choose the round exists. The functions that count completed members have no caller either.
* Committee election and request aggregation: there is no implementation.
* Cryptography and serialization: external. Whether a digest is the hash of its messages is left
  open, as the code leaves it.
* `previous_rounds` of the agreement and the return values that carry a message back: nothing reads
  them.

## Plan

Done: the broadcast, the agreement and the round, with abstract specifications, refinements,
the safety of each proved, and that neither protocol comes to rest too early.

Left, each waiting for code:

1. Once the crate implements its traits, `DumboRound` composed with `ReliableBroadcast` and
   `AsyncBinaryAgreement`, one of each per member.
2. Once the election and the ordering protocol exist: an abstract specification of the epoch
   (one set of payloads for all replicas) and the refinement to it.
3. Once a round of the agreement lets both values through: termination over several rounds.
