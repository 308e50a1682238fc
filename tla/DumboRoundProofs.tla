--------------------------- MODULE DumboRoundProofs ---------------------------
(***************************************************************************)
(* The hand-over from broadcast to agreement for every membership, every   *)
(* set of entries and every traffic.  One lemma says what delivering a     *)
(* message does to the entry of each member (StepShape); the theorems      *)
(* follow from it.                                                         *)
(***************************************************************************)
EXTENDS DumboRound, FiniteSetTheorems, TLAPS

\* What OwnVotesOnly says of the entry of member j.
OwnEntry(j, entry) ==
  /\ entry.phase = "RunningRBC" =>
       entry.rbc.voters \in [Votes -> SUBSET {j}] /\ \A m \in entry.rbc.queued : m.from = j
  /\ entry.phase = "RunningABA" =>
       \A m \in entry.aba.counted \cup entry.aba.queued : m.from = j

\* A broadcast that runs goes on, with all it has.
BroadcastGoesOn(old, new) ==
  /\ old.phase = "RunningRBC" /\ new.phase = "RunningRBC"
  /\ old.rbc.payload \in {NoValue, new.rbc.payload}
  /\ \A k \in Votes : old.rbc.voters[k] \subseteq new.rbc.voters[k]
  /\ old.rbc.queued \subseteq new.rbc.queued

\* A broadcast that ran is handed over with its payload.
HandsOver(old, new) ==
  /\ old.phase = "RunningRBC" /\ new.phase = "RunningABA"
  /\ old.rbc.payload # NoValue /\ new.completedRbc = old.rbc.payload /\ new.aba.input

\* An agreement goes on about the same payload.
AgreementStays(old, new) ==
  /\ old.phase = "RunningABA" /\ new.phase = "RunningABA"
  /\ new.completedRbc = old.completedRbc

\* A panic leaves a new broadcast in the place of the one that is handed over.
HandOverLost(old, new) ==
  /\ old.phase = "RunningRBC" /\ new.phase = "RunningRBC"
  /\ panicked' /\ old.rbc.payload # NoValue /\ new.rbc = NewBroadcast

\* All that a step may do to an entry.
Becomes(old, new) ==
  \/ BroadcastGoesOn(old, new)
  \/ HandsOver(old, new)
  \/ HandOverLost(old, new)
  \/ AgreementStays(old, new)

\* The step leaves entry j a good entry.
GoodEntry(j) ==
  /\ nodeStates'[j] \in NodeStates
  /\ OwnEntry(j, nodeStates'[j])
  /\ Becomes(nodeStates[j], nodeStates'[j])

\* The inductive invariant.
RoundInv == TypeOK /\ OwnVotesOnly

-----------------------------------------------------------------------------
(***************************************************************************)
(* Entries.                                                                *)
(***************************************************************************)

LEMMA RBCEntry ==
  ASSUME NEW rbc \in Broadcasts
  PROVE  RunningRBC(rbc) \in NodeStates /\ RunningRBC(rbc).phase = "RunningRBC"
           /\ RunningRBC(rbc).rbc = rbc
  BY DEF RunningRBC, NodeStates

LEMMA ABAEntry ==
  ASSUME NEW payload \in Values \cup {NoValue}, NEW aba \in Agreements
  PROVE  LET entry == RunningABA(payload, aba) IN
         /\ entry \in NodeStates /\ entry.phase = "RunningABA"
         /\ entry.completedRbc = payload /\ entry.aba = aba
  BY DEF RunningABA, NodeStates

\* An entry is in one of two phases and holds what belongs to it.
LEMMA EntryFields ==
  ASSUME NEW entry \in NodeStates
  PROVE  \/ entry.phase = "RunningRBC" /\ entry.rbc \in Broadcasts
         \/ entry.phase = "RunningABA" /\ entry.completedRbc \in Values \cup {NoValue}
              /\ entry.aba \in Agreements
  BY DEF NodeStates

LEMMA FreshInstances ==
  /\ NewBroadcast \in Broadcasts
  /\ NewBroadcast.payload = NoValue /\ NewBroadcast.queued = {}
  /\ \A j : NewBroadcast.voters \in [Votes -> SUBSET {j}]
  /\ \A input \in BOOLEAN :
       /\ NewAgreement(input) \in Agreements
       /\ NewAgreement(input).input = input
       /\ NewAgreement(input).counted = {} /\ NewAgreement(input).queued = {}
  BY DEF NewBroadcast, NewAgreement, Broadcasts, Agreements, Votes

\* Counting a vote of the member itself.
LEMMA CountedOwn ==
  ASSUME NEW rbc \in Broadcasts, NEW m \in Messages, m.kind \in Votes,
         rbc.voters \in [Votes -> SUBSET {m.from}]
  PROVE  LET next == Counted(rbc, m) IN
         /\ next \in Broadcasts
         /\ next.payload = rbc.payload /\ next.queued = rbc.queued
         /\ next.voters \in [Votes -> SUBSET {m.from}]
         /\ \A k \in Votes : rbc.voters[k] \subseteq next.voters[k]
  BY DEF Counted, Broadcasts, Messages

\* One entry is replaced and the others stay.
LEMMA EntryReplaced ==
  ASSUME TypeOK, OwnVotesOnly,
         NEW m \in Messages, m.from \in Tracked, NEW state \in NodeStates,
         Update(m, state),
         OwnEntry(m.from, state), Becomes(nodeStates[m.from], state)
  PROVE  /\ nodeStates' \in [Tracked -> NodeStates]
         /\ nodeStates'[m.from] = state
         /\ \A j \in Tracked : GoodEntry(j)
<1>1. nodeStates' = [nodeStates EXCEPT ![m.from] = state]
  BY DEF Update, EntryOf
<1>2. nodeStates' \in [Tracked -> NodeStates] /\ nodeStates'[m.from] = state
  BY <1>1 DEF TypeOK
<1>3. ASSUME NEW j \in Tracked, j # m.from
      PROVE  GoodEntry(j)
  <2>1. nodeStates'[j] = nodeStates[j] /\ nodeStates[j] \in NodeStates
    BY <1>1, <1>3 DEF TypeOK
  <2>2. OwnEntry(j, nodeStates[j])
    BY DEF OwnVotesOnly, OwnEntry
  <2>3. Becomes(nodeStates[j], nodeStates[j])
    BY <2>1, EntryFields DEF Becomes, BroadcastGoesOn, AgreementStays
  <2> QED BY <2>1, <2>2, <2>3 DEF GoodEntry
<1>4. GoodEntry(m.from)
  BY <1>2 DEF GoodEntry
<1> QED BY <1>2, <1>3, <1>4

LEMMA EntriesStay ==
  ASSUME TypeOK, OwnVotesOnly, nodeStates' = nodeStates
  PROVE  nodeStates' \in [Tracked -> NodeStates] /\ \A j \in Tracked : GoodEntry(j)
<1>1. ASSUME NEW j \in Tracked
      PROVE  GoodEntry(j)
  <2>1. nodeStates'[j] = nodeStates[j] /\ nodeStates[j] \in NodeStates
    BY DEF TypeOK
  <2>2. OwnEntry(j, nodeStates[j])
    BY DEF OwnVotesOnly, OwnEntry
  <2>3. Becomes(nodeStates[j], nodeStates[j])
    BY <2>1, EntryFields DEF Becomes, BroadcastGoesOn, AgreementStays
  <2> QED BY <2>1, <2>2, <2>3 DEF GoodEntry
<1> QED BY <1>1 DEF TypeOK

-----------------------------------------------------------------------------
(***************************************************************************)
(* Steps.                                                                  *)
(***************************************************************************)

StepIsGood(m) ==
  /\ nodeStates' \in [Tracked -> NodeStates]
  /\ \A j \in Tracked : GoodEntry(j)

\* What handling a message in phase RunningRBC finds.
LEMMA FoundRBC ==
  ASSUME TypeOK, OwnVotesOnly, NEW m \in Messages, Handles(m, "RunningRBC")
  PROVE  /\ m.from \in Tracked /\ EntryOf(m) = m.from
         /\ nodeStates[m.from].phase = "RunningRBC"
         /\ nodeStates[m.from].rbc \in Broadcasts
         /\ nodeStates[m.from].rbc.voters \in [Votes -> SUBSET {m.from}]
         /\ \A q \in nodeStates[m.from].rbc.queued : q.from = m.from
<1>1. m.from \in Tracked /\ EntryOf(m) = m.from /\ nodeStates[m.from].phase = "RunningRBC"
  BY DEF Handles, EntryOf, PhaseOf
<1>2. nodeStates[m.from].rbc \in Broadcasts
  BY <1>1, EntryFields DEF TypeOK
<1> QED BY <1>1, <1>2 DEF OwnVotesOnly

LEMMA FoundABA ==
  ASSUME TypeOK, OwnVotesOnly, NEW m \in Messages, Handles(m, "RunningABA")
  PROVE  /\ m.from \in Tracked /\ EntryOf(m) = m.from
         /\ nodeStates[m.from].phase = "RunningABA"
         /\ nodeStates[m.from].completedRbc \in Values \cup {NoValue}
         /\ nodeStates[m.from].aba \in Agreements
         /\ \A q \in nodeStates[m.from].aba.counted \cup nodeStates[m.from].aba.queued :
              q.from = m.from
<1>1. m.from \in Tracked /\ EntryOf(m) = m.from /\ nodeStates[m.from].phase = "RunningABA"
  BY DEF Handles, EntryOf, PhaseOf
<1>2. nodeStates[m.from].completedRbc \in Values \cup {NoValue} /\ nodeStates[m.from].aba \in Agreements
  BY <1>1, EntryFields DEF TypeOK
<1> QED BY <1>1, <1>2 DEF OwnVotesOnly

LEMMA GoodAdoptPayload ==
  ASSUME TypeOK, OwnVotesOnly, NEW m \in Messages, AdoptPayload(m)
  PROVE  StepIsGood(m)
<1> DEFINE rbc == nodeStates[m.from].rbc
           next == [rbc EXCEPT !.payload = m.value]
<1>1. Handles(m, "RunningRBC") /\ rbc.payload = NoValue /\ Update(m, RunningRBC(next))
  BY DEF AdoptPayload, EntryOf
<1>2. /\ m.from \in Tracked /\ nodeStates[m.from].phase = "RunningRBC" /\ rbc \in Broadcasts
      /\ rbc.voters \in [Votes -> SUBSET {m.from}] /\ \A q \in rbc.queued : q.from = m.from
  BY <1>1, FoundRBC
<1>3. next \in Broadcasts /\ next.voters = rbc.voters /\ next.queued = rbc.queued
  BY <1>2 DEF Broadcasts, Messages
<1>4. RunningRBC(next) \in NodeStates /\ RunningRBC(next).phase = "RunningRBC"
        /\ RunningRBC(next).rbc = next
  BY <1>3, RBCEntry
<1>5. OwnEntry(m.from, RunningRBC(next))
  BY <1>2, <1>3, <1>4 DEF OwnEntry
<1>6. Becomes(nodeStates[m.from], RunningRBC(next))
  BY <1>1, <1>2, <1>3, <1>4 DEF Becomes, BroadcastGoesOn
<1> QED BY <1>1, <1>2, <1>4, <1>5, <1>6, EntryReplaced DEF StepIsGood

\* The vote is counted for the member itself.
LEMMA CountsOwn ==
  ASSUME TypeOK, OwnVotesOnly, NEW m \in Messages, CountsVote(m)
  PROVE  LET old  == nodeStates[m.from]
             next == Counted(old.rbc, m)
         IN  /\ m.from \in Tracked /\ EntryOf(m) = m.from
             /\ old.phase = "RunningRBC" /\ old.rbc.payload \in Values
             /\ next \in Broadcasts
             /\ next.payload = old.rbc.payload /\ next.queued = old.rbc.queued
             /\ \A q \in next.queued : q.from = m.from
             /\ next.voters \in [Votes -> SUBSET {m.from}]
             /\ \A k \in Votes : old.rbc.voters[k] \subseteq next.voters[k]
<1>1. m.kind \in Votes /\ Handles(m, "RunningRBC") /\ nodeStates[EntryOf(m)].rbc.payload = m.value
  BY DEF CountsVote
<1> QED BY <1>1, FoundRBC, CountedOwn, ZenonT(60) DEF Messages

LEMMA GoodCountVote ==
  ASSUME TypeOK, OwnVotesOnly, NEW m \in Messages, CountVote(m)
  PROVE  StepIsGood(m)
<1> DEFINE next == Counted(nodeStates[m.from].rbc, m)
<1>1. CountsVote(m) /\ Update(m, RunningRBC(next))
  BY DEF CountVote, EntryOf
<1>2. RunningRBC(next) \in NodeStates /\ RunningRBC(next).phase = "RunningRBC"
        /\ RunningRBC(next).rbc = next
  BY <1>1, CountsOwn, RBCEntry
<1>3. OwnEntry(m.from, RunningRBC(next))
  BY <1>1, <1>2, CountsOwn DEF OwnEntry
<1>4. Becomes(nodeStates[m.from], RunningRBC(next))
  BY <1>1, <1>2, CountsOwn DEF Becomes, BroadcastGoesOn
<1> QED BY <1>1, <1>2, <1>3, <1>4, CountsOwn, EntryReplaced DEF StepIsGood

LEMMA GoodHandOver ==
  ASSUME TypeOK, OwnVotesOnly, NEW m \in Messages, HandOver(m)
  PROVE  StepIsGood(m)
<1> DEFINE next == Counted(nodeStates[m.from].rbc, m)
           state == RunningABA(next.payload, NewAgreement(TRUE))
<1>1. CountsVote(m) /\ Update(m, state)
  BY DEF HandOver, EntryOf, AfterBroadcast
<1>2. m.from \in Tracked /\ nodeStates[m.from].phase = "RunningRBC"
        /\ next.payload = nodeStates[m.from].rbc.payload /\ next.payload \in Values
  BY <1>1, CountsOwn
<1>3. state \in NodeStates /\ state.phase = "RunningABA" /\ state.completedRbc = next.payload
        /\ state.aba = NewAgreement(TRUE)
  <2>1. next.payload \in Values \cup {NoValue} /\ NewAgreement(TRUE) \in Agreements
    BY <1>2, FreshInstances
  <2> HIDE DEF next
  <2> QED BY <2>1, ABAEntry, ZenonT(60)
<1>4. OwnEntry(m.from, state)
  BY <1>3, FreshInstances DEF OwnEntry
<1>5. Becomes(nodeStates[m.from], state)
  BY <1>2, <1>3, FreshInstances, RoundAssumption DEF Becomes, HandsOver
<1> QED BY <1>1, <1>2, <1>3, <1>4, <1>5, EntryReplaced DEF StepIsGood

LEMMA GoodHandOverPanics ==
  ASSUME TypeOK, OwnVotesOnly, NEW m \in Messages, HandOverPanics(m)
  PROVE  StepIsGood(m)
<1> DEFINE state == RunningRBC(NewBroadcast)
<1>1. CountsVote(m) /\ Update(m, state) /\ panicked'
  BY DEF HandOverPanics
<1>2. m.from \in Tracked /\ nodeStates[m.from].phase = "RunningRBC"
        /\ nodeStates[m.from].rbc.payload # NoValue
  BY <1>1, CountsOwn, RoundAssumption
<1>3. state \in NodeStates /\ state.phase = "RunningRBC" /\ state.rbc = NewBroadcast
  BY RBCEntry, FreshInstances
<1>4. OwnEntry(m.from, state)
  BY <1>3, FreshInstances DEF OwnEntry
<1>5. Becomes(nodeStates[m.from], state)
  BY <1>1, <1>2, <1>3 DEF Becomes, HandOverLost
<1> QED BY <1>1, <1>2, <1>3, <1>4, <1>5, EntryReplaced DEF StepIsGood

LEMMA GoodQueueVote ==
  ASSUME TypeOK, OwnVotesOnly, NEW m \in Messages, QueueVote(m)
  PROVE  StepIsGood(m)
<1> DEFINE rbc == nodeStates[m.from].rbc
           next == [rbc EXCEPT !.queued = @ \cup {m}]
<1>1. Handles(m, "RunningRBC") /\ Update(m, RunningRBC(next))
  BY DEF QueueVote, EntryOf
<1>2. /\ m.from \in Tracked /\ nodeStates[m.from].phase = "RunningRBC" /\ rbc \in Broadcasts
      /\ rbc.voters \in [Votes -> SUBSET {m.from}] /\ \A q \in rbc.queued : q.from = m.from
  BY <1>1, FoundRBC
<1>3. next \in Broadcasts /\ next.voters = rbc.voters /\ next.queued = rbc.queued \cup {m}
        /\ next.payload = rbc.payload
  BY <1>2 DEF Broadcasts
<1>4. RunningRBC(next) \in NodeStates /\ RunningRBC(next).phase = "RunningRBC"
        /\ RunningRBC(next).rbc = next
  BY <1>3, RBCEntry, SMTT(20)
<1>5. OwnEntry(m.from, RunningRBC(next))
  BY <1>2, <1>3, <1>4 DEF OwnEntry
<1>6. Becomes(nodeStates[m.from], RunningRBC(next))
  BY <1>2, <1>3, <1>4 DEF Becomes, BroadcastGoesOn
<1> QED BY <1>1, <1>2, <1>4, <1>5, <1>6, EntryReplaced DEF StepIsGood

\* Steps that keep the agreement and give it a message.
LEMMA GoodAgreementVote ==
  ASSUME TypeOK, OwnVotesOnly, NEW m \in Messages, PassToAgreement(m) \/ AgreementReplies(m)
  PROVE  StepIsGood(m)
<1> DEFINE old     == nodeStates[m.from]
           counted == [old.aba EXCEPT !.counted = @ \cup {m}]
           queued  == [old.aba EXCEPT !.queued = @ \cup {m}]
<1>1. /\ Handles(m, "RunningABA")
      /\ \E aba \in {counted, queued} : Update(m, RunningABA(old.completedRbc, aba))
  BY DEF PassToAgreement, AgreementReplies, WithVote, EntryOf
<1>2. /\ m.from \in Tracked /\ old.phase = "RunningABA"
      /\ old.completedRbc \in Values \cup {NoValue} /\ old.aba \in Agreements
      /\ \A q \in old.aba.counted \cup old.aba.queued : q.from = m.from
  BY <1>1, FoundABA
<1>3. PICK aba \in {counted, queued} : Update(m, RunningABA(old.completedRbc, aba))
  BY <1>1
<1> DEFINE state == RunningABA(old.completedRbc, aba)
<1>4. aba \in Agreements /\ \A q \in aba.counted \cup aba.queued : q.from = m.from
  BY <1>2 DEF Agreements
<1>5. state \in NodeStates /\ state.phase = "RunningABA" /\ state.aba = aba
        /\ state.completedRbc = old.completedRbc
  BY <1>2, <1>4, ABAEntry
<1>6. OwnEntry(m.from, state) /\ Becomes(old, state)
  BY <1>2, <1>4, <1>5 DEF OwnEntry, Becomes, AgreementStays
<1> QED BY <1>2, <1>3, <1>5, <1>6, EntryReplaced DEF StepIsGood

LEMMA GoodAgreementDecides ==
  ASSUME TypeOK, OwnVotesOnly, NEW m \in Messages, AgreementDecides(m)
  PROVE  StepIsGood(m)
<1> DEFINE old   == nodeStates[m.from]
           state == RunningABA(old.completedRbc, NewAgreement(FALSE))
<1>1. Handles(m, "RunningABA") /\ Update(m, state)
  BY DEF AgreementDecides, EntryOf
<1>2. m.from \in Tracked /\ old.phase = "RunningABA" /\ old.completedRbc \in Values \cup {NoValue}
  BY <1>1, FoundABA
<1>3. state \in NodeStates /\ state.phase = "RunningABA" /\ state.aba = NewAgreement(FALSE)
        /\ state.completedRbc = old.completedRbc
  BY <1>2, ABAEntry, FreshInstances
<1>4. OwnEntry(m.from, state)
  BY <1>3, FreshInstances DEF OwnEntry
<1>5. Becomes(old, state)
  BY <1>1, <1>2, <1>3 DEF Becomes, AgreementStays
<1> QED BY <1>1, <1>2, <1>3, <1>4, <1>5, EntryReplaced DEF StepIsGood

\* The steps that leave the entries alone.
LEMMA GoodOther ==
  ASSUME TypeOK, OwnVotesOnly, NEW m \in Messages,
         IgnoreBroadcast(m) \/ DropEarlyAgreement(m) \/ IgnoreAgreement(m) \/ PassToElection(m)
  PROVE  StepIsGood(m)
<1>1. nodeStates' = nodeStates
  BY DEF IgnoreBroadcast, DropEarlyAgreement, IgnoreAgreement, PassToElection
<1> QED BY <1>1, EntriesStay DEF StepIsGood

\* Handling any message is a good step.
LEMMA StepShape ==
  ASSUME TypeOK, OwnVotesOnly, NEW m \in Messages, ProcessMessage(m)
  PROVE  StepIsGood(m)
  BY GoodAdoptPayload, GoodCountVote, GoodHandOver, GoodHandOverPanics, GoodQueueVote,
     GoodAgreementVote, GoodAgreementDecides, GoodOther
  DEF ProcessMessage

-----------------------------------------------------------------------------
(***************************************************************************)
(* The invariant.                                                          *)
(***************************************************************************)

LEMMA InitRoundInv == Init => RoundInv
<1> SUFFICES ASSUME Init PROVE RoundInv
  OBVIOUS
<1>1. /\ RunningRBC(NewBroadcast) \in NodeStates
      /\ RunningRBC(NewBroadcast).phase = "RunningRBC"
      /\ RunningRBC(NewBroadcast).rbc = NewBroadcast
  BY RBCEntry, FreshInstances
<1>2. TypeOK
  BY <1>1, RoundAssumption DEF Init, TypeOK
<1>3. OwnVotesOnly
  BY <1>1, FreshInstances DEF Init, OwnVotesOnly
<1> QED BY <1>2, <1>3 DEF RoundInv

\* The other fields keep their types.
LEMMA OtherTypes ==
  ASSUME TypeOK, OwnVotesOnly, NEW m \in inflight, Deliver(m)
  PROVE  /\ election' \subseteq Messages
         /\ inflight' \subseteq Messages
         /\ sent' \subseteq [epoch : {Epoch}, kind : Votes, value : Values]
         /\ reported' \subseteq [message : Messages, phase : {"RunningRBC", "RunningABA", "RunningCE"}]
         /\ panicked' \in BOOLEAN
<1>1. m \in Messages
  BY DEF TypeOK
<1>2. ProcessMessage(m) /\ inflight' \subseteq inflight
  BY DEF Deliver
<1>3. m.value \in Values
  BY <1>1 DEF Messages
<1>4. election' \subseteq election \cup {m}
  BY <1>2 DEF ProcessMessage, AdoptPayload, CountVote, HandOver, HandOverPanics, QueueVote,
              IgnoreBroadcast, PassToAgreement, AgreementReplies, AgreementDecides,
              DropEarlyAgreement, IgnoreAgreement, PassToElection
<1>5. sent' \subseteq sent \cup {Stamped("Echo", m.value), Stamped("Ready", m.value)}
  BY <1>2 DEF ProcessMessage, AdoptPayload, CountVote, HandOver, HandOverPanics, QueueVote,
              IgnoreBroadcast, PassToAgreement, AgreementReplies, AgreementDecides,
              DropEarlyAgreement, IgnoreAgreement, PassToElection
<1>6. panicked' \in {panicked, TRUE}
  BY <1>2 DEF ProcessMessage, AdoptPayload, CountVote, HandOver, HandOverPanics, QueueVote,
              IgnoreBroadcast, PassToAgreement, AgreementReplies, AgreementDecides,
              DropEarlyAgreement, IgnoreAgreement, PassToElection
<1>7. reported' \subseteq reported
        \cup {[message |-> m, phase |-> phase] : phase \in {"RunningRBC", "RunningABA", "RunningCE"}}
  BY <1>2 DEF ProcessMessage, AdoptPayload, CountVote, HandOver, HandOverPanics, QueueVote,
              IgnoreBroadcast, PassToAgreement, AgreementReplies, AgreementDecides,
              DropEarlyAgreement, IgnoreAgreement, PassToElection, Report
<1>8. election' \subseteq Messages /\ inflight' \subseteq Messages
  BY <1>1, <1>2, <1>4 DEF TypeOK
<1>9. sent' \subseteq [epoch : {Epoch}, kind : Votes, value : Values]
  BY <1>3, <1>5 DEF TypeOK, Stamped, Votes
<1>10. reported' \subseteq [message : Messages, phase : {"RunningRBC", "RunningABA", "RunningCE"}]
  BY <1>1, <1>7 DEF TypeOK
<1>11. panicked' \in BOOLEAN
  BY <1>6 DEF TypeOK
<1> QED BY <1>8, <1>9, <1>10, <1>11

LEMMA StepRoundInv == RoundInv /\ [Next]_vars => RoundInv'
<1> SUFFICES ASSUME RoundInv, [Next]_vars
             PROVE  RoundInv'
  OBVIOUS
<1>1. CASE UNCHANGED vars
  BY <1>1 DEF RoundInv, vars, TypeOK, OwnVotesOnly
<1>2. CASE Next
  <2>1. PICK m \in inflight : Deliver(m)
    BY <1>2 DEF Next
  <2>2. m \in Messages /\ ProcessMessage(m)
    BY <2>1 DEF RoundInv, TypeOK, Deliver
  <2>3. StepIsGood(m)
    BY <2>2, StepShape DEF RoundInv
  <2>4. TypeOK'
    BY <2>1, <2>3, OtherTypes DEF RoundInv, TypeOK, StepIsGood
  <2>5. OwnVotesOnly'
    BY <2>3 DEF StepIsGood, GoodEntry, OwnEntry, OwnVotesOnly
  <2> QED BY <2>4, <2>5 DEF RoundInv
<1> QED BY <1>1, <1>2

\* Types, and who an entry hears from, for every order of messages process_message is
\* called with.
THEOREM RoundInvariance == Spec => []RoundInv
<1>1. Init => RoundInv
  BY InitRoundInv
<1>2. RoundInv /\ [Next]_vars => RoundInv'
  BY StepRoundInv
<1> QED BY <1>1, <1>2, PTL DEF Spec

\* The entries keep their types, and what is sent carries the epoch of the round.
THEOREM TypeCorrect == Spec => []TypeOK
<1>1. RoundInv => TypeOK
  BY DEF RoundInv
<1> QED BY <1>1, RoundInvariance, PTL

\* The broadcast of a member and the agreement on it hear from that member only.
THEOREM OwnVotes == Spec => []OwnVotesOnly
<1>1. RoundInv => OwnVotesOnly
  BY DEF RoundInv
<1> QED BY <1>1, RoundInvariance, PTL

\* A broadcast that runs is never lost, but by a panic when it is handed over, and its
\* payload is the one the agreement is about.
THEOREM HandOverIsOnce == Spec => HandOverOnce
<1>1. RoundInv /\ [Next]_vars => [BroadcastPreserved]_vars
  <2> SUFFICES ASSUME RoundInv, Next
               PROVE  BroadcastPreserved
    OBVIOUS
  <2>1. PICK m \in inflight : Deliver(m)
    BY DEF Next
  <2>2. StepIsGood(m)
    BY <2>1, StepShape DEF RoundInv, TypeOK, Deliver
  <2>3. ASSUME NEW j \in Tracked
        PROVE  Becomes(nodeStates[j], nodeStates'[j])
    BY <2>2 DEF StepIsGood, GoodEntry
  <2> QED BY <2>3 DEF BroadcastPreserved, Becomes, BroadcastGoesOn, HandsOver, HandOverLost,
                      AgreementStays
<1> QED BY <1>1, RoundInvariance, PTL DEF Spec, HandOverOnce

-----------------------------------------------------------------------------
(***************************************************************************)
(* The routing by sender.                                                  *)
(***************************************************************************)

\* If R wants READYs of more than one member, as the crate's broadcast does with f > 0,
\* no broadcast of the round is ever finished: process_message gives the broadcast of
\* a member the votes of that member only.
THEOREM NeverHandedOver == ReadyThreshold > 1 => (Spec => []NoHandOver)
<1> SUFFICES ASSUME ReadyThreshold > 1
             PROVE  Spec => []NoHandOver
  OBVIOUS
<1>1. Init => NoHandOver
  <2>1. RunningRBC(NewBroadcast).phase = "RunningRBC"
    BY RBCEntry, FreshInstances
  <2> QED BY <2>1 DEF Init, NoHandOver, PhaseOf
<1>2. RoundInv /\ NoHandOver /\ [Next]_vars => NoHandOver'
  <2> SUFFICES ASSUME RoundInv, NoHandOver, [Next]_vars
               PROVE  NoHandOver'
    OBVIOUS
  <2>1. CASE UNCHANGED vars
    BY <2>1 DEF vars, NoHandOver, PhaseOf
  <2>2. CASE Next
    <3>1. PICK m \in inflight : Deliver(m)
      BY <2>2 DEF Next
    <3>2. m \in Messages /\ ProcessMessage(m) /\ TypeOK /\ OwnVotesOnly
      BY <3>1 DEF RoundInv, TypeOK, Deliver
    <3>3. ~HandOver(m)
      <4> SUFFICES ASSUME HandOver(m) PROVE FALSE
        OBVIOUS
      <4> DEFINE ready == Counted(nodeStates[m.from].rbc, m).voters["Ready"]
      <4>1. CountsVote(m) /\ Cardinality(ready) >= ReadyThreshold
        BY DEF HandOver, Finalized, Enough, Threshold, EntryOf
      <4>2. ready \in SUBSET {m.from}
        BY <3>2, <4>1, CountsOwn DEF Votes
      <4>3. ready = {} \/ ready = {m.from}
        BY <4>2
      <4>4. Cardinality({}) = 0 /\ Cardinality({m.from}) = 1
        BY FS_EmptySet, FS_Singleton
      <4> HIDE DEF ready
      <4> QED BY <4>1, <4>3, <4>4, RoundAssumption
    <3>4. ~Handles(m, "RunningABA")
      BY DEF Handles, NoHandOver, PhaseOf
    <3>5. nodeStates' = nodeStates \/ \E rbc : Update(m, RunningRBC(rbc))
      BY <3>2, <3>3, <3>4
      DEF ProcessMessage, AdoptPayload, CountVote, HandOverPanics, QueueVote, IgnoreBroadcast,
          PassToAgreement, AgreementReplies, AgreementDecides, DropEarlyAgreement,
          IgnoreAgreement, PassToElection
    <3> QED BY <3>2, <3>5 DEF NoHandOver, PhaseOf, TypeOK, Update, RunningRBC
  <2> QED BY <2>1, <2>2
<1> QED BY <1>1, <1>2, RoundInvariance, PTL DEF Spec
=============================================================================
