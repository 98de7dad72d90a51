------------------------- MODULE MC_MessageIntake --------------------------
(* Instances of MessageIntake for TLC. *)
EXTENDS MessageIntake, TLC

\* Connections behave alike, and so do messages that are signed alike.
Alike == Permutations(Connections) \cup Permutations(Genuine)
=============================================================================
