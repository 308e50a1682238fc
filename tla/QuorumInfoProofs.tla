--------------------------- MODULE QuorumInfoProofs ---------------------------
(***************************************************************************)
(* What the thresholds give the protocols: how many of a set of members    *)
(* are correct, and what two quorums share.  And the sizes the ordering    *)
(* protocol tells its host, against those that QuorumInfo::new accepts and *)
(* the protocols count with.                                               *)
(***************************************************************************)
EXTENDS QuorumInfo, FiniteSetTheorems, TLAPS

-----------------------------------------------------------------------------
(***************************************************************************)
(* Counting members.                                                       *)
(***************************************************************************)

\* Sets of members are finite, and a larger one counts more.
LEMMA FiniteParts ==
  /\ N \in Nat
  /\ \A S \in SUBSET Nodes : IsFiniteSet(S) /\ Cardinality(S) \in Nat /\ Cardinality(S) <= N
  /\ \A S \in SUBSET Nodes : \A T \in SUBSET S : Cardinality(T) <= Cardinality(S)
<1>1. N \in Nat
  BY QuorumAssumption, FS_CardinalityType DEF N
<1>2. ASSUME NEW S \in SUBSET Nodes
      PROVE  IsFiniteSet(S) /\ Cardinality(S) \in Nat /\ Cardinality(S) <= N
  BY QuorumAssumption, FS_Subset, FS_CardinalityType DEF N
<1>3. ASSUME NEW S \in SUBSET Nodes, NEW T \in SUBSET S
      PROVE  Cardinality(T) <= Cardinality(S)
  BY <1>2, FS_Subset
<1> QED BY <1>1, <1>2, <1>3

\* Of more than 2F members, more than F are correct.
LEMMA CorrectMajority ==
  ASSUME NEW S \in SUBSET Nodes, Cardinality(S) > 2 * F
  PROVE  Cardinality(S \cap Correct) >= F + 1
<1>1. /\ S \cap Faulty \in SUBSET Faulty /\ S \cap Correct \in SUBSET Nodes
      /\ S = (S \cap Correct) \cup (S \cap Faulty)
      /\ (S \cap Correct) \cap (S \cap Faulty) = {}
  BY FaultAssumption DEF Correct
<1>2. Cardinality(S \cap Faulty) <= F /\ Cardinality(S \cap Faulty) \in Nat
  BY <1>1, FiniteParts, FaultAssumption, QuorumAssumption
<1>3. Cardinality(S) = Cardinality(S \cap Correct) + Cardinality(S \cap Faulty)
                       - Cardinality((S \cap Correct) \cap (S \cap Faulty))
  BY <1>1, FiniteParts, FaultAssumption, FS_Union
<1>4. Cardinality((S \cap Correct) \cap (S \cap Faulty)) = 0
  BY <1>1, FS_EmptySet
<1> QED BY <1>1, <1>2, <1>3, <1>4, FiniteParts, QuorumAssumption

\* Two sets that overcount the members by more than F share a correct one.
LEMMA CorrectOverlap ==
  ASSUME NEW S \in SUBSET Nodes, NEW T \in SUBSET Nodes,
         Cardinality(S) + Cardinality(T) > N + F
  PROVE  \E k \in Correct : k \in S \cap T
<1>1. Cardinality(S \cup T) = Cardinality(S) + Cardinality(T) - Cardinality(S \cap T)
  BY FiniteParts, FS_Union
<1>2. S \cup T \in SUBSET Nodes /\ S \cap T \in SUBSET Nodes
  OBVIOUS
<1>3. Cardinality(S \cap T) > F
  BY <1>1, <1>2, FiniteParts, QuorumAssumption
<1>4. ~(S \cap T \subseteq Faulty)
  BY <1>3, FiniteParts, FaultAssumption, QuorumAssumption
<1> QED BY <1>2, <1>4 DEF Correct

\* Of 3F + 1 members, any two sets of more than 2F do.
LEMMA CorrectInCommon ==
  ASSUME Tight,
         NEW S \in SUBSET Nodes, Cardinality(S) > 2 * F,
         NEW T \in SUBSET Nodes, Cardinality(T) > 2 * F
  PROVE  \E k \in Correct : k \in S \cap T
<1>1. Cardinality(S) + Cardinality(T) > N + F
  BY FiniteParts, QuorumAssumption DEF Tight, GetNForF
<1> QED BY <1>1, CorrectOverlap

\* Of more than 5F members, any two sets with all but 2F of them do.
LEMMA CorrectInBoth ==
  ASSUME N > 5 * F,
         NEW S \in SUBSET Nodes, Cardinality(S) >= N - 2 * F,
         NEW T \in SUBSET Nodes, Cardinality(T) >= N - 2 * F
  PROVE  \E k \in Correct : k \in S \cap T
<1>1. Cardinality(S) + Cardinality(T) > N + F
  BY FiniteParts, QuorumAssumption
<1> QED BY <1>1, CorrectOverlap

\* Of more than F members, one is correct.
LEMMA CorrectAmong ==
  ASSUME NEW S \in SUBSET Nodes, Cardinality(S) > F
  PROVE  \E k \in Correct : k \in S
<1>1. ~(S \subseteq Faulty)
  BY FiniteParts, FaultAssumption, QuorumAssumption
<1> QED BY <1>1 DEF Correct

-----------------------------------------------------------------------------
(***************************************************************************)
(* The tolerance functions.                                                *)
(***************************************************************************)

LEMMA Thirds ==
  ASSUME NEW k \in Nat
  PROVE  /\ k \div 3 \in Nat /\ 3 * (k \div 3) <= k /\ k < 3 * (k \div 3) + 3
         /\ k \div 2 \in Nat /\ 2 * (k \div 2) <= k /\ k < 2 * (k \div 2) + 2
  OBVIOUS

\* get_f_for_n and get_n_for_f agree with the assertion of QuorumInfo::new: a quorum
\* is accepted exactly for the f that get_f_for_n allows, and for no fewer members
\* than get_n_for_f asks for.
THEOREM ToleranceFits ==
  ASSUME NEW n \in Nat \ {0}, NEW f \in Nat
  PROVE  /\ ValidQuorum(n, f) <=> f <= GetFForN(n)
         /\ ValidQuorum(n, f) <=> n >= GetNForF(f)
         /\ GetFForN(GetNForF(f)) = f
<1>1. ValidQuorum(n, f) <=> f <= GetFForN(n)
  BY DEF ValidQuorum, GetFForN
<1>2. ValidQuorum(n, f) <=> n >= GetNForF(f)
  <2>1. n - 1 \in Nat
    OBVIOUS
  <2> QED BY <2>1, Thirds DEF ValidQuorum, GetNForF
<1>3. GetFForN(GetNForF(f)) = f
  <2>1. 3 * f \in Nat /\ GetNForF(f) - 1 = 3 * f
    BY DEF GetNForF
  <2>2. /\ (3 * f) \div 3 \in Nat /\ 3 * ((3 * f) \div 3) <= 3 * f
        /\ 3 * f < 3 * ((3 * f) \div 3) + 3
    BY <2>1, Thirds
  <2> QED BY <2>1, <2>2 DEF GetFForN
<1> QED BY <1>1, <1>2, <1>3

\* get_quorum_for_n, written for n = 2f + 1, is no quorum of a membership of the size
\* get_n_for_f asks for: it is smaller than the quorum of QuorumInfo, and two of its
\* quorums need not even meet.
THEOREM ToleranceQuorumTooSmall ==
  ASSUME NEW f \in Nat
  PROVE  LET n == GetNForF(f) IN
         GetQuorumForN(n) < n - f /\ 2 * GetQuorumForN(n) < n
<1>1. 3 * f \in Nat /\ GetNForF(f) \in Nat /\ GetNForF(f) = 3 * f + 1
        /\ GetNForF(f) - 1 = 3 * f
  BY DEF GetNForF
<1>2. (3 * f) \div 2 \in Nat /\ 2 * ((3 * f) \div 2) <= 3 * f
  BY <1>1, Thirds
<1> QED BY <1>1, <1>2 DEF GetQuorumForN
=============================================================================
