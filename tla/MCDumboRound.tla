----------------------------- MODULE MCDumboRound -----------------------------
(***************************************************************************)
(* A small instance of DumboRound.                                         *)
(***************************************************************************)
EXTENDS DumboRound

Value == CHOOSE v \in Values : TRUE

\* A correct member with an entry broadcasts and votes for one payload, a faulty one
\* may broadcast another too and starts the election; one without an entry votes.
Traffic ==
  {m \in Messages :
     /\ m.value # Value => m.from \in Faulty /\ m.kind = "Send"
     /\ m.kind = "Election" => m.from \in Faulty
     /\ m.from \notin Tracked => m.kind = "Ready"}
=============================================================================
