------------------------------ MODULE DumboRound ------------------------------
(***************************************************************************)
(* One epoch of Dumbo at one replica (epoch.rs): for every member its      *)
(* broadcast, then the binary agreement on that broadcast, and beside them *)
(* the election of the committee.  process_message hands each message to   *)
(* the part that runs it.                                                  *)
(*                                                                         *)
(* The broadcast R, the agreement A and the election CE are parameters of  *)
(* DumboRound, seen through their traits.  R is taken to adopt the first   *)
(* SEND, to count ECHO votes for its payload until they are EchoThreshold, *)
(* then READY votes until they are ReadyThreshold, and to keep the others  *)
(* for poll, as the crate's broadcast does; what A and CE make of a        *)
(* message is chosen freely from the results their traits allow.           *)
(***************************************************************************)
EXTENDS QuorumInfo

CONSTANTS
  Tracked,      \* the members node_states holds an entry for: none after new, and
                \* nothing in the crate inserts one
  Values,       \* what members broadcast
  NoValue,      \* no payload yet
  Epoch,        \* epoch_num
  EchoThreshold,   \* the ECHOs R sends READY with: n - 2f in the crate's broadcast
  ReadyThreshold,  \* the READYs it finalizes with: 2f + 1 there
  Network       \* the messages of other members to this replica

Votes == {"Echo", "Ready"}
Kinds == Votes \cup {"Send", "Agreement", "Election"}

Messages == [kind : Kinds, from : Nodes, value : Values]

ASSUME RoundAssumption ==
  /\ Tracked \subseteq Nodes
  /\ NoValue \notin Values
  /\ EchoThreshold \in Nat \ {0} /\ ReadyThreshold \in Nat \ {0}
  /\ Epoch \in Nat
  /\ Network \subseteq Messages

VARIABLES
  nodeStates,  \* node_states
  election,    \* the messages the running committee election has kept
  inflight,    \* messages the network has not handed over yet
  sent,        \* the DumboMessages this replica has broadcast
  reported,    \* the messages answered with MessageQueued, and what ran them then
  panicked     \* the replica hit a panic and takes no more steps

vars == <<nodeStates, election, inflight, sent, reported, panicked>>

-----------------------------------------------------------------------------
(***************************************************************************)
(* The instances, and NodeState.                                           *)
(***************************************************************************)

Broadcasts == [payload : Values \cup {NoValue}, voters : [Votes -> SUBSET Nodes], queued : SUBSET Messages]

\* R::new
NewBroadcast == [payload |-> NoValue, voters |-> [k \in Votes |-> {}], queued |-> {}]

Agreements == [input : BOOLEAN, counted : SUBSET Messages, queued : SUBSET Messages]

\* A::new
NewAgreement(input) == [input |-> input, counted |-> {}, queued |-> {}]

RunningRBC(rbc) == [phase |-> "RunningRBC", rbc |-> rbc]
RunningABA(payload, aba) == [phase |-> "RunningABA", completedRbc |-> payload, aba |-> aba]

NodeStates ==
  [phase : {"RunningRBC"}, rbc : Broadcasts]
    \cup [phase : {"RunningABA"}, completedRbc : Values \cup {NoValue}, aba : Agreements]

PhaseOf(j) == nodeStates[j].phase

\* The entry process_message looks up; a mutant takes any.
AnyEntry(m) == CHOOSE j \in Tracked : TRUE
EntryOf(m) == m.from

Handles(m, phase) == EntryOf(m) \in Tracked /\ PhaseOf(EntryOf(m)) = phase

Update(m, state) == nodeStates' = [nodeStates EXCEPT ![EntryOf(m)] = state]

Report(m, phase) == reported' = reported \cup {[message |-> m, phase |-> phase]}

\* network.broadcast through the SendNodeWrapperRef, which adds the epoch; a mutant
\* takes that of the next round.
StampedNext(kind, value) == [epoch |-> Epoch + 1, kind |-> kind, value |-> value]
Stamped(kind, value) == [epoch |-> Epoch, kind |-> kind, value |-> value]

-----------------------------------------------------------------------------
(***************************************************************************)
(* The arm of the broadcast messages.                                      *)
(***************************************************************************)

\* R adopts the payload and echoes it.
AdoptPayload(m) ==
  LET rbc == nodeStates[EntryOf(m)].rbc IN
  /\ m.kind = "Send" /\ Handles(m, "RunningRBC") /\ rbc.payload = NoValue
  /\ Update(m, RunningRBC([rbc EXCEPT !.payload = m.value]))
  /\ sent' = sent \cup {Stamped("Echo", m.value)}
  /\ UNCHANGED <<election, reported, panicked>>

\* The vote is counted.
Counted(rbc, m) == [rbc EXCEPT !.voters[m.kind] = @ \cup {m.from}]

Threshold(kind) == IF kind = "Echo" THEN EchoThreshold ELSE ReadyThreshold
Enough(rbc, kind) == Cardinality(rbc.voters[kind]) >= Threshold(kind)

\* R's result Finalized.
Finalized(rbc) == Enough(rbc, "Ready")

\* ECHOs count in the state Proposed, READYs in the state Echoed.
CountsVote(m) ==
  LET rbc == nodeStates[EntryOf(m)].rbc IN
  /\ m.kind \in Votes /\ Handles(m, "RunningRBC")
  /\ rbc.payload = m.value
  /\ m.kind = IF Enough(rbc, "Echo") THEN "Ready" ELSE "Echo"

\* R's result Processed.
CountVote(m) ==
  LET rbc == Counted(nodeStates[EntryOf(m)].rbc, m) IN
  /\ CountsVote(m) /\ ~Finalized(rbc)
  /\ Update(m, RunningRBC(rbc))
  /\ sent' = IF Enough(rbc, "Echo") THEN sent \cup {Stamped("Ready", m.value)} ELSE sent
  /\ UNCHANGED <<election, reported, panicked>>

\* The state after the hand-over: the instance that finalized is taken out, then
\* asked for its payload; a mutant asks the one put in its place.
PayloadOfDummy(rbc) == RunningABA(NewBroadcast.payload, NewAgreement(TRUE))
AfterBroadcast(rbc) == RunningABA(rbc.payload, NewAgreement(TRUE))

HandOver(m) ==
  LET rbc == Counted(nodeStates[EntryOf(m)].rbc, m) IN
  /\ CountsVote(m) /\ Finalized(rbc)
  /\ Update(m, AfterBroadcast(rbc))
  /\ UNCHANGED <<election, sent, reported, panicked>>

\* A::new panics, as the crate's agreement does, with R::new in the place of the
\* instance that finalized.
HandOverPanics(m) ==
  /\ CountsVote(m) /\ Finalized(Counted(nodeStates[EntryOf(m)].rbc, m))
  /\ Update(m, RunningRBC(NewBroadcast))
  /\ panicked' = TRUE
  /\ UNCHANGED <<election, sent, reported>>

\* A vote R cannot count yet, or ever; the round never polls R for it.
QueueVote(m) ==
  LET rbc == nodeStates[EntryOf(m)].rbc IN
  /\ m.kind \in Votes /\ Handles(m, "RunningRBC") /\ ~CountsVote(m)
  /\ Update(m, RunningRBC([rbc EXCEPT !.queued = @ \cup {m}]))
  /\ Report(m, "RunningRBC")
  /\ UNCHANGED <<election, sent, panicked>>

\* A second SEND, the broadcast messages after the hand-over, and what comes from a
\* member without an entry.
IgnoreBroadcast(m) ==
  /\ m.kind \in Votes \cup {"Send"}
  /\ Handles(m, "RunningRBC") =>
       m.kind = "Send" /\ nodeStates[EntryOf(m)].rbc.payload # NoValue
  /\ UNCHANGED <<nodeStates, election, sent, reported, panicked>>

-----------------------------------------------------------------------------
(***************************************************************************)
(* The arm of the agreement messages.                                      *)
(***************************************************************************)

\* A has counted m.
WithVote(entry, m) ==
  RunningABA(entry.completedRbc, [entry.aba EXCEPT !.counted = @ \cup {m}])

\* A's results Processed and MessageQueued.
PassToAgreement(m) ==
  LET entry == nodeStates[EntryOf(m)] IN
  /\ m.kind = "Agreement" /\ Handles(m, "RunningABA")
  /\ \/ Update(m, WithVote(entry, m)) /\ UNCHANGED reported
     \/ /\ Update(m, RunningABA(entry.completedRbc, [entry.aba EXCEPT !.queued = @ \cup {m}]))
        /\ Report(m, "RunningABA")
  /\ UNCHANGED <<election, sent, panicked>>

\* A has counted the vote and broadcasts, for which the adapter is todo!(), or it has
\* decided and A::new panics.
AgreementReplies(m) ==
  /\ m.kind = "Agreement" /\ Handles(m, "RunningABA")
  /\ Update(m, WithVote(nodeStates[EntryOf(m)], m))
  /\ panicked' = TRUE
  /\ UNCHANGED <<election, sent, reported>>

\* A's result Decided: a fresh instance takes the place of the one that decided, and
\* the rest is todo!().
AgreementDecides(m) ==
  /\ m.kind = "Agreement" /\ Handles(m, "RunningABA")
  /\ Update(m, RunningABA(nodeStates[EntryOf(m)].completedRbc, NewAgreement(FALSE)))
  /\ panicked' = TRUE
  /\ UNCHANGED <<election, sent, reported>>

\* Before the hand-over: answered with MessageQueued, and dropped.
DropEarlyAgreement(m) ==
  /\ m.kind = "Agreement" /\ Handles(m, "RunningRBC")
  /\ Report(m, "RunningRBC")
  /\ UNCHANGED <<nodeStates, election, sent, panicked>>

\* A ignores the message or fails, or there is no entry for the sender.
IgnoreAgreement(m) ==
  /\ m.kind = "Agreement" /\ ~Handles(m, "RunningRBC")
  /\ UNCHANGED <<nodeStates, election, sent, reported, panicked>>

-----------------------------------------------------------------------------
(***************************************************************************)
(* The arm of the election messages; no entry is looked up for them.       *)
(***************************************************************************)

\* CE's results Processed and MessageQueued, with which it may have kept the message;
\* MessageIgnored and errors; Decided, or a message to send, which are todo!().
PassToElection(m) ==
  /\ m.kind = "Election"
  /\ \/ election' = election \cup {m} /\ UNCHANGED <<reported, panicked>>
     \/ election' = election \cup {m} /\ Report(m, "RunningCE") /\ UNCHANGED panicked
     \/ UNCHANGED <<election, reported, panicked>>
     \/ election' \in {election, election \cup {m}} /\ panicked' = TRUE /\ UNCHANGED reported
  /\ UNCHANGED <<nodeStates, sent>>

ProcessMessage(m) ==
  \/ AdoptPayload(m) \/ CountVote(m) \/ HandOver(m) \/ HandOverPanics(m)
  \/ QueueVote(m) \/ IgnoreBroadcast(m)
  \/ PassToAgreement(m) \/ AgreementReplies(m) \/ AgreementDecides(m)
  \/ DropEarlyAgreement(m) \/ IgnoreAgreement(m)
  \/ PassToElection(m)

-----------------------------------------------------------------------------

\* DumboRound::new, with the entries that whoever starts the broadcasts has to add.
Init ==
  /\ nodeStates = [j \in Tracked |-> RunningRBC(NewBroadcast)]
  /\ election = {}
  /\ inflight = Network
  /\ sent = {}
  /\ reported = {}
  /\ panicked = FALSE

\* The network hands over a message; a faulty member may send its messages again.
Deliver(m) ==
  /\ ~panicked
  /\ m \in inflight
  /\ inflight' = IF m.from \in Faulty THEN inflight ELSE inflight \ {m}
  /\ ProcessMessage(m)

Next == \E m \in inflight : Deliver(m)

Spec == Init /\ [][Next]_vars

-----------------------------------------------------------------------------
(***************************************************************************)
(* Properties.                                                             *)
(***************************************************************************)

\* The fields hold what their types say, and everything sent is of this epoch.
TypeOK ==
  /\ nodeStates \in [Tracked -> NodeStates]
  /\ election \subseteq Messages
  /\ inflight \subseteq Messages
  /\ sent \subseteq [epoch : {Epoch}, kind : Votes, value : Values]
  /\ reported \subseteq [message : Messages, phase : {"RunningRBC", "RunningABA", "RunningCE"}]
  /\ panicked \in BOOLEAN

\* What member j's instance was given came from j, since messages are routed by their
\* sender: no one else's vote reaches the broadcast of j or the agreement on it.
OwnVotesOnly ==
  \A j \in Tracked :
    LET entry == nodeStates[j] IN
    /\ entry.phase = "RunningRBC" =>
         entry.rbc.voters \in [Votes -> SUBSET {j}] /\ \A m \in entry.rbc.queued : m.from = j
    /\ entry.phase = "RunningABA" =>
         \A m \in entry.aba.counted \cup entry.aba.queued : m.from = j

\* The broadcast of every member stays as it was: no step of the round forgets a
\* payload, a vote or a queued message of a broadcast that runs, the payload handed
\* over is that of the instance that finalized, and it stays whatever arrives later.
\* The one exception is a panic in the middle of the hand-over, which leaves a new
\* broadcast in the place of one that had its payload.
BroadcastPreserved ==
  \A j \in Tracked :
    LET old == nodeStates[j]
        new == nodeStates'[j]
    IN CASE old.phase = "RunningABA" ->
              new.phase = "RunningABA" /\ new.completedRbc = old.completedRbc
         [] old.phase = "RunningRBC" /\ new.phase = "RunningABA" ->
              old.rbc.payload # NoValue /\ new.completedRbc = old.rbc.payload /\ new.aba.input
         [] old.phase = "RunningRBC" /\ new.phase = "RunningRBC" ->
              \/ panicked' /\ old.rbc.payload # NoValue /\ new.rbc = NewBroadcast
              \/ /\ old.rbc.payload \in {NoValue, new.rbc.payload}
                 /\ \A k \in Votes : old.rbc.voters[k] \subseteq new.rbc.voters[k]
                 /\ old.rbc.queued \subseteq new.rbc.queued

HandOverOnce == [][BroadcastPreserved]_vars

\* If R wants READYs of more than one member, as the crate's broadcast does with f > 0,
\* no broadcast of any member ends, whoever votes: the votes of the other members go to
\* other instances, and the agreement never starts.
NoHandOver == \A j \in Tracked : PhaseOf(j) = "RunningRBC"
=============================================================================
