--------------------------- MODULE RoundQueueProofs ---------------------------
(***************************************************************************)
(* What the operations of the queue keep, for any queue and any messages:  *)
(* the slots stay with their rounds, add_message only adds, and draining   *)
(* and popping lose nothing but what they are asked to drop.               *)
(***************************************************************************)
EXTENDS RoundQueue, SequenceTheorems, TLAPS

Queues(S) == [base : Nat, rounds : Seq(Seq(S))]

-----------------------------------------------------------------------------
(***************************************************************************)
(* add_message.                                                            *)
(***************************************************************************)

\* The slots after add_message, when the round is not one of the past.
LEMMA AddedSlots ==
  ASSUME NEW S, NEW q \in Queues(S), NEW r \in Nat, r >= q.base, NEW m \in S
  PROVE  LET k      == SlotOf(q, r)
             length == IF Len(q.rounds) < k THEN k ELSE Len(q.rounds)
             new    == AddMessage(q, r, m)
         IN  /\ k \in 1..length /\ length \in Nat
             /\ new \in Queues(S) /\ new.base = q.base /\ Len(new.rounds) = length
             /\ new.rounds[k] = Append(IF k <= Len(q.rounds) THEN q.rounds[k] ELSE <<>>, m)
             /\ \A n \in 1..length : n # k =>
                  new.rounds[n] = IF n <= Len(q.rounds) THEN q.rounds[n] ELSE <<>>
<1> DEFINE k      == SlotOf(q, r)
           length == IF Len(q.rounds) < k THEN k ELSE Len(q.rounds)
           padded == [n \in 1..length |-> IF n <= Len(q.rounds) THEN q.rounds[n] ELSE <<>>]
           slots  == [padded EXCEPT ![k] = Append(@, m)]
<1>1. q.base \in Nat /\ q.rounds \in Seq(Seq(S)) /\ Len(q.rounds) \in Nat
  BY DEF Queues
<1>2. k \in 1..length /\ length \in Nat
  BY <1>1 DEF SlotOf
<1>3. \A n \in 1..length : padded[n] \in Seq(S)
  BY <1>1
<1>4. Append(padded[k], m) \in Seq(S)
  <2> HIDE DEF padded, k, length
  <2> QED BY <1>2, <1>3
<1>5. /\ slots = [n \in 1..length |-> IF n = k THEN Append(padded[k], m) ELSE padded[n]]
      /\ \A n \in 1..length : slots[n] \in Seq(S)
  BY <1>2, <1>3, <1>4
<1>6. slots \in Seq(Seq(S)) /\ Len(slots) = length
  <2> HIDE DEF padded, length, k
  <2>1. slots \in [1..length -> Seq(S)]
    BY <1>5
  <2> HIDE DEF slots
  <2> QED BY <1>2, <2>1
<1>7. AddMessage(q, r, m) = [q EXCEPT !.rounds = slots]
  BY <1>1 DEF AddMessage
<1>8. /\ AddMessage(q, r, m) \in Queues(S)
      /\ AddMessage(q, r, m).base = q.base /\ AddMessage(q, r, m).rounds = slots
  <2> HIDE DEF slots
  <2> QED BY <1>6, <1>7 DEF Queues
<1> QED BY <1>2, <1>5, <1>6, <1>8

\* add_message keeps what waits and adds the message, and nothing else.
THEOREM AddMessageAdds ==
  ASSUME NEW S, NEW q \in Queues(S), NEW r \in Nat, r >= q.base, NEW m \in S
  PROVE  LET new == AddMessage(q, r, m) IN
         /\ new \in Queues(S) /\ new.base = q.base
         /\ \A x : Holds(new, x) <=> Holds(q, x) \/ x = m
         /\ Aligned(q) /\ m.round = r => Aligned(new)
<1> DEFINE k      == SlotOf(q, r)
           length == IF Len(q.rounds) < k THEN k ELSE Len(q.rounds)
           new    == AddMessage(q, r, m)
           old    == IF k <= Len(q.rounds) THEN q.rounds[k] ELSE <<>>
<1>1. /\ k \in 1..length /\ length \in Nat
      /\ new \in Queues(S) /\ new.base = q.base /\ Len(new.rounds) = length
      /\ new.rounds[k] = Append(old, m)
      /\ \A n \in 1..length : n # k =>
           new.rounds[n] = IF n <= Len(q.rounds) THEN q.rounds[n] ELSE <<>>
  BY AddedSlots
<1>2. q.base \in Nat /\ q.rounds \in Seq(Seq(S)) /\ Len(q.rounds) \in Nat
  BY DEF Queues
<1>3. old \in Seq(S)
  BY <1>1, <1>2
<1>4. /\ Len(new.rounds[k]) = Len(old) + 1 /\ Len(old) \in Nat
      /\ new.rounds[k][Len(old) + 1] = m
      /\ \A n \in 1..Len(old) : new.rounds[k][n] = old[n]
  <2> HIDE DEF old, new, k
  <2> QED BY <1>1, <1>3
<1>5. k = r - q.base + 1 /\ r = q.base + k - 1
  BY <1>2 DEF SlotOf
<1>5a. /\ k \in 1..Len(q.rounds) => old = q.rounds[k]
       /\ Len(old) > 0 => k \in 1..Len(q.rounds)
  BY <1>1, <1>2
<1>5b. ASSUME NEW n \in 1..length, n # k
       PROVE  /\ n \in 1..Len(q.rounds) => new.rounds[n] = q.rounds[n]
              /\ Len(new.rounds[n]) # 0 => n \in 1..Len(q.rounds)
  BY <1>1, <1>2, <1>5b
<1>5c. Len(q.rounds) <= length
  BY <1>2 DEF SlotOf
<1> HIDE DEF new, k, old, length
<1>6. ASSUME NEW x, Holds(new, x)
      PROVE  Holds(q, x) \/ x = m
  <2>1. PICK n \in 1..length : \E l \in 1..Len(new.rounds[n]) : new.rounds[n][l] = x
    BY <1>1, <1>6 DEF Holds
  <2>2. CASE n = k
    <3>1. PICK l \in 1..(Len(old) + 1) : new.rounds[k][l] = x
      BY <1>4, <2>1, <2>2
    <3>2. CASE l = Len(old) + 1
      BY <1>4, <3>1, <3>2
    <3>3. CASE l # Len(old) + 1
      <4>1. l \in 1..Len(old) /\ old[l] = x /\ Len(old) > 0
        BY <1>4, <3>1, <3>3
      <4> QED BY <1>5a, <4>1 DEF Holds
    <3> QED BY <3>2, <3>3
  <2>3. CASE n # k
    <3>1. PICK l \in 1..Len(new.rounds[n]) : new.rounds[n][l] = x
      BY <2>1
    <3>2. Len(new.rounds[n]) # 0
      BY <3>1
    <3> QED BY <1>5b, <2>3, <3>1, <3>2 DEF Holds
  <2> QED BY <2>2, <2>3
<1>7. ASSUME NEW x, Holds(q, x)
      PROVE  Holds(new, x)
  <2>1. PICK n \in 1..Len(q.rounds) : \E l \in 1..Len(q.rounds[n]) : q.rounds[n][l] = x
    BY <1>7 DEF Holds
  <2>2. n \in 1..length
    BY <1>1, <1>2, <1>5c
  <2>3. CASE n = k
    <3>1. PICK l \in 1..Len(old) : old[l] = x
      BY <1>5a, <2>1, <2>3
    <3>2. l \in 1..Len(new.rounds[k]) /\ new.rounds[k][l] = x
      BY <1>4, <3>1
    <3> QED BY <1>1, <3>2 DEF Holds
  <2>4. CASE n # k
    BY <1>1, <1>5b, <2>1, <2>2, <2>4 DEF Holds
  <2> QED BY <2>3, <2>4
<1>8. Holds(new, m)
  BY <1>1, <1>4 DEF Holds
<1>9. ASSUME Aligned(q), m.round = r
      PROVE  Aligned(new)
  <2> SUFFICES ASSUME NEW n \in 1..length, NEW l \in 1..Len(new.rounds[n])
               PROVE  new.rounds[n][l].round = q.base + n - 1
    BY <1>1 DEF Aligned
  <2>1. CASE n = k
    <3>1. l \in 1..(Len(old) + 1)
      BY <1>4, <2>1
    <3>2. CASE l = Len(old) + 1
      BY <1>4, <1>5, <1>9, <2>1, <3>2
    <3>3. CASE l # Len(old) + 1
      <4>1. l \in 1..Len(old) /\ new.rounds[n][l] = old[l] /\ Len(old) > 0
        BY <1>4, <2>1, <3>1, <3>3
      <4> QED BY <1>5a, <1>9, <2>1, <4>1 DEF Aligned
    <3> QED BY <3>2, <3>3
  <2>2. CASE n # k
    <3>1. Len(new.rounds[n]) # 0
      OBVIOUS
    <3> QED BY <1>5b, <1>9, <2>2, <3>1 DEF Aligned
  <2> QED BY <2>1, <2>2
<1> QED BY <1>1, <1>6, <1>7, <1>8, <1>9 DEF new

-----------------------------------------------------------------------------
(***************************************************************************)
(* pop_message.                                                            *)
(***************************************************************************)

\* Dropping the rounds before r keeps every message of round r and later.
THEOREM DrainKeepsTheRest ==
  ASSUME NEW S, NEW q \in Queues(S), NEW r \in Nat, ~DrainPanics(q, r)
  PROVE  LET new == DrainTo(q, r) IN
         /\ new \in Queues(S) /\ new.base >= r /\ new.base >= q.base
         /\ new.base \in {q.base, r}
         /\ \A x : Holds(new, x) => Holds(q, x)
         /\ Aligned(q) => Aligned(new) /\ \A x : Holds(q, x) /\ x.round >= r => Holds(new, x)
<1> DEFINE new == DrainTo(q, r)
           d   == r - q.base
<1>1. q.base \in Nat /\ q.rounds \in Seq(Seq(S)) /\ Len(q.rounds) \in Nat
  BY DEF Queues
<1>2. CASE r <= q.base
  BY <1>1, <1>2 DEF DrainTo
<1>3. CASE r > q.base
  <2>1. /\ new = [base |-> r, rounds |-> SubSeq(q.rounds, d + 1, Len(q.rounds))]
        /\ d \in Nat /\ d <= Len(q.rounds) /\ r = q.base + d
    <3>1. q.base \in Nat /\ r > q.base /\ ~(r - q.base > Len(q.rounds)) /\ r \in Nat
      BY <1>1, <1>3 DEF DrainPanics
    <3>2. d \in Nat /\ d <= Len(q.rounds) /\ r = q.base + d
      BY <1>1, <3>1
    <3>3. new = [base |-> r, rounds |-> SubSeq(q.rounds, d + 1, Len(q.rounds))]
      BY <1>3 DEF DrainTo
    <3> QED BY <3>2, <3>3
  <2>2. /\ SubSeq(q.rounds, d + 1, Len(q.rounds)) \in Seq(Seq(S))
        /\ Len(SubSeq(q.rounds, d + 1, Len(q.rounds))) = Len(q.rounds) - d
        /\ \A n \in 1..(Len(q.rounds) - d) :
             SubSeq(q.rounds, d + 1, Len(q.rounds))[n] = q.rounds[n + d]
    <3> HIDE DEF d
    <3> QED BY <1>1, <2>1
  <2>3. /\ new.base = r /\ new \in Queues(S) /\ Len(new.rounds) = Len(q.rounds) - d
        /\ \A n \in 1..(Len(q.rounds) - d) : new.rounds[n] = q.rounds[n + d]
    BY <2>1, <2>2, SMTT(20) DEF Queues
  <2> HIDE DEF new, d
  <2>4. ASSUME NEW x, Holds(new, x)
        PROVE  Holds(q, x)
    <3>1. PICK n \in 1..(Len(q.rounds) - d) :
            \E l \in 1..Len(new.rounds[n]) : new.rounds[n][l] = x
      BY <2>3, <2>4 DEF Holds
    <3>2. n + d \in 1..Len(q.rounds) /\ new.rounds[n] = q.rounds[n + d]
      BY <1>1, <2>1, <2>3
    <3> QED BY <3>1, <3>2 DEF Holds
  <2>5. ASSUME Aligned(q)
        PROVE  Aligned(new)
    <3> SUFFICES ASSUME NEW n \in 1..(Len(q.rounds) - d), NEW l \in 1..Len(new.rounds[n])
                 PROVE  new.rounds[n][l].round = r + n - 1
      BY <2>3 DEF Aligned
    <3>1. n + d \in 1..Len(q.rounds) /\ new.rounds[n] = q.rounds[n + d]
      BY <1>1, <2>1, <2>3
    <3>2. q.rounds[n + d][l].round = q.base + (n + d) - 1
      BY <2>5, <3>1 DEF Aligned
    <3>3. q.base + (n + d) - 1 = r + n - 1
      BY <1>1, <2>1
    <3> QED BY <3>1, <3>2, <3>3
  <2>6. ASSUME Aligned(q), NEW x, Holds(q, x), x.round >= r
        PROVE  Holds(new, x)
    <3>1. PICK n \in 1..Len(q.rounds) : \E l \in 1..Len(q.rounds[n]) : q.rounds[n][l] = x
      BY <2>6 DEF Holds
    <3>2. x.round = q.base + n - 1
      BY <2>6, <3>1 DEF Aligned
    <3>3. n - d \in 1..(Len(q.rounds) - d) /\ (n - d) + d = n
      BY <1>1, <2>1, <2>6, <3>2
    <3>4. new.rounds[n - d] = q.rounds[n]
      BY <2>3, <3>3
    <3> QED BY <2>3, <3>1, <3>3, <3>4 DEF Holds
  <2>7. r >= q.base
    BY <1>1, <1>3
  <2> QED BY <2>3, <2>4, <2>5, <2>6, <2>7 DEF new
<1> QED BY <1>1, <1>2, <1>3

\* pop takes one message out, and it is the only one that may be gone.
THEOREM PopTakesOne ==
  ASSUME NEW S, NEW q \in Queues(S), ~NothingToPop(q)
  PROVE  LET new == WithoutTop(q) IN
         /\ Top(q) \in S /\ Holds(q, Top(q))
         /\ new \in Queues(S) /\ new.base = q.base
         /\ \A x : Holds(new, x) => Holds(q, x)
         /\ \A x : Holds(q, x) => x = Top(q) \/ Holds(new, x)
         /\ Aligned(q) => Aligned(new) /\ Top(q).round = q.base
<1> DEFINE first == q.rounds[1]
           rest  == SubSeq(first, 1, Len(first) - 1)
           new   == WithoutTop(q)
<1>1. /\ q.base \in Nat /\ q.rounds \in Seq(Seq(S)) /\ Len(q.rounds) \in Nat
      /\ q.rounds # <<>> /\ first # <<>>
  BY DEF Queues, NothingToPop
<1>2. 1 \in 1..Len(q.rounds) /\ first \in Seq(S) /\ Len(first) \in Nat \ {0}
  BY <1>1
<1>3. Top(q) = first[Len(first)] /\ Len(first) \in 1..Len(first) /\ Top(q) \in S
  <2>1. Top(q) = first[Len(first)]
    BY DEF Top
  <2> HIDE DEF first
  <2> QED BY <1>2, <2>1
<1>4. /\ rest \in Seq(S) /\ Len(rest) = Len(first) - 1
      /\ \A l \in 1..(Len(first) - 1) : rest[l] = first[l]
  <2>1. Len(first) - 1 \in Nat /\ \A l \in 1..(Len(first) - 1) : first[l] \in S
    <3> HIDE DEF first
    <3> QED BY <1>2
  <2>2. /\ Len(rest) = Len(first) - 1
        /\ \A l \in 1..(Len(first) - 1) : rest[l] = first[l]
    <3> DEFINE n == Len(first) - 1
    <3>1. n \in Nat /\ n - 1 + 1 = n /\ \A l \in 1..n : first[l] \in S /\ 1 + l - 1 = l
      BY <2>1
    <3>2. /\ Len(SubSeq(first, 1, n)) = IF 1 <= n THEN n - 1 + 1 ELSE 0
          /\ \A l \in 1..(n - 1 + 1) : SubSeq(first, 1, n)[l] = first[1 + l - 1]
      <4> HIDE DEF first, n
      <4> QED BY <3>1, SubSeqProperties
    <3>3. Len(SubSeq(first, 1, n)) = n /\ \A l \in 1..n : SubSeq(first, 1, n)[l] = first[l]
      <4> HIDE DEF first, n
      <4> QED BY <3>1, <3>2
    <3> QED BY <3>3
  <2>3. rest \in Seq(S)
    <3> HIDE DEF first
    <3> QED BY <1>2, <2>1, SubSeqProperties
  <2> QED BY <2>2, <2>3
<1>5. new = [q EXCEPT !.rounds = [q.rounds EXCEPT ![1] = rest]]
  BY DEF WithoutTop
<1>6. /\ [q.rounds EXCEPT ![1] = rest] \in Seq(Seq(S))
      /\ Len([q.rounds EXCEPT ![1] = rest]) = Len(q.rounds)
      /\ [q.rounds EXCEPT ![1] = rest][1] = rest
      /\ \A n \in 1..Len(q.rounds) : n # 1 => [q.rounds EXCEPT ![1] = rest][n] = q.rounds[n]
  <2> HIDE DEF rest
  <2> QED BY <1>1, <1>2, <1>4
<1>7. /\ new \in Queues(S) /\ new.base = q.base /\ Len(new.rounds) = Len(q.rounds)
      /\ new.rounds[1] = rest
      /\ \A n \in 1..Len(q.rounds) : n # 1 => new.rounds[n] = q.rounds[n]
  <2> DEFINE slots == [q.rounds EXCEPT ![1] = rest]
  <2>1. new.base = q.base /\ new.rounds = slots /\ new \in Queues(S)
    <3>1. slots \in Seq(Seq(S)) /\ new = [q EXCEPT !.rounds = slots]
      BY <1>5, <1>6
    <3> HIDE DEF slots, new
    <3> QED BY <3>1 DEF Queues
  <2> QED BY <1>6, <2>1
<1> HIDE DEF new, rest, first
<1>7a. q.base + 1 - 1 = q.base
  BY <1>1
<1>8. q.rounds[1] = first
  BY DEF first
<1>9. Holds(q, Top(q))
  BY <1>2, <1>3, <1>8 DEF Holds
<1>10. ASSUME NEW x, Holds(new, x)
       PROVE  Holds(q, x)
  <2>1. PICK n \in 1..Len(q.rounds) : \E l \in 1..Len(new.rounds[n]) : new.rounds[n][l] = x
    BY <1>7, <1>10 DEF Holds
  <2>2. CASE n = 1
    <3>1. PICK l \in 1..Len(rest) : rest[l] = x
      BY <1>7, <2>1, <2>2
    <3>2. l \in 1..Len(first) /\ first[l] = x
      BY <1>2, <1>4, <3>1
    <3> QED BY <1>2, <1>8, <3>2 DEF Holds
  <2>3. CASE n # 1
    BY <1>7, <2>1, <2>3 DEF Holds
  <2> QED BY <2>2, <2>3
<1>11. ASSUME NEW x, Holds(q, x), x # Top(q)
       PROVE  Holds(new, x)
  <2>1. PICK n \in 1..Len(q.rounds) : \E l \in 1..Len(q.rounds[n]) : q.rounds[n][l] = x
    BY <1>11 DEF Holds
  <2>2. CASE n = 1
    <3>1. PICK l \in 1..Len(first) : first[l] = x
      BY <1>8, <2>1, <2>2
    <3>2. l \in 1..Len(rest) /\ rest[l] = x
      BY <1>2, <1>3, <1>4, <1>11, <3>1
    <3> QED BY <1>2, <1>7, <3>2 DEF Holds
  <2>3. CASE n # 1
    BY <1>7, <2>1, <2>3 DEF Holds
  <2> QED BY <2>2, <2>3
<1>12. ASSUME Aligned(q)
       PROVE  Aligned(new) /\ Top(q).round = q.base
  <2>1. ASSUME NEW n \in 1..Len(q.rounds), NEW l \in 1..Len(new.rounds[n])
        PROVE  new.rounds[n][l].round = q.base + n - 1
    <3>1. CASE n = 1
      <4>1. l \in 1..Len(first) /\ new.rounds[n][l] = first[l]
        <5>1. new.rounds[n] = rest /\ l \in 1..Len(rest)
          BY <1>7, <2>1, <3>1
        <5> QED BY <1>2, <1>4, <5>1
      <4>2. \A k \in 1..Len(first) : first[k].round = q.base + 1 - 1
        BY <1>2, <1>8, <1>12 DEF Aligned
      <4> QED BY <3>1, <4>1, <4>2
    <3>2. CASE n # 1
      BY <1>7, <1>12, <2>1, <3>2 DEF Aligned
    <3> QED BY <3>1, <3>2
  <2>2. Top(q).round = q.base + 1 - 1
    BY <1>2, <1>3, <1>8, <1>12 DEF Aligned
  <2> QED BY <1>1, <1>7, <1>7a, <2>1, <2>2 DEF Aligned
<1> QED BY <1>3, <1>7, <1>9, <1>10, <1>11, <1>12 DEF new
=============================================================================
