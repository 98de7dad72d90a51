--------------------------- MODULE MC_PokerServer ---------------------------
(* An instance of PokerServer for TLC. *)
EXTENDS PokerServer

\* Connections come from addresses of their own, or two of them from the same; which
\* of them it is makes no difference.
Spread ==
  {CHOOSE f \in [Connections -> Addresses] : Cardinality({f[c] : c \in Connections}) = n :
     n \in {Cardinality(Connections) - 1, Cardinality(Connections)}}

SpreadInit == Init /\ address \in Spread

\* FairSpec from the addresses above.
SpreadSpec ==
  /\ SpreadInit /\ [][Next]_vars
  /\ WF_vars(CheckFlag) /\ WF_vars(Exit)
  /\ \A c \in Connections : WF_vars(CleanUp(c))
=============================================================================
