------------------------------ MODULE RoundQueue ------------------------------
(***************************************************************************)
(* The messages a binary agreement instance keeps for later                *)
(* (pending_messages.rs): one stack of messages per round, rounds[1] for   *)
(* round base.                                                             *)
(***************************************************************************)
EXTENDS Integers, Sequences

EmptyQueue == [base |-> 0, rounds |-> <<>>]

\* The slot of round r; a mutant forgets the base.
RoundAsSlot(q, r) == r + 1
SlotOf(q, r) == r - q.base + 1

\* add_message; the loop that pushes empty rounds is the padding.
AddMessage(q, r, m) ==
  LET k      == SlotOf(q, r)
      length == IF Len(q.rounds) < k THEN k ELSE Len(q.rounds)
      padded == [n \in 1..length |-> IF n <= Len(q.rounds) THEN q.rounds[n] ELSE <<>>]
  IN IF r < q.base THEN q
                   ELSE [q EXCEPT !.rounds = [padded EXCEPT ![k] = Append(@, m)]]

\* pop_message drains the rounds before r; drain panics when there are fewer.
DrainPanics(q, r) == r - q.base > Len(q.rounds)

\* A mutant also drops round r.
DrainThrough(q, r) ==
  IF r > q.base
    THEN [base |-> r, rounds |-> SubSeq(q.rounds, r - q.base + 2, Len(q.rounds))]
    ELSE q
DrainTo(q, r) ==
  IF r > q.base
    THEN [base |-> r, rounds |-> SubSeq(q.rounds, r - q.base + 1, Len(q.rounds))]
    ELSE q

\* front_mut()?.pop() takes the message that came last.
NothingToPop(q) == q.rounds # <<>> => q.rounds[1] = <<>>
Top(q) == q.rounds[1][Len(q.rounds[1])]
WithoutTop(q) == [q EXCEPT !.rounds[1] = SubSeq(@, 1, Len(@) - 1)]

\* Every message is in the slot of its own round.
Aligned(q) ==
  \A k \in 1..Len(q.rounds) : \A n \in 1..Len(q.rounds[k]) :
    q.rounds[k][n].round = q.base + k - 1

\* m waits in the queue.
Holds(q, m) == \E k \in 1..Len(q.rounds) : \E n \in 1..Len(q.rounds[k]) : q.rounds[k][n] = m

\* The number of messages that wait for round r.
Waiting(q, r) ==
  LET k == SlotOf(q, r) IN IF k \in 1..Len(q.rounds) THEN Len(q.rounds[k]) ELSE 0
=============================================================================
