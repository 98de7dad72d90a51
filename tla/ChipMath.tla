------------------------------ MODULE ChipMath ------------------------------
(***************************************************************************)
(* Two recursive functions the table model is built from.  Both follow the *)
(* index, so that the proof system can reason about them: Sequences'       *)
(* SelectSeq is opaque to it, and a sum over a set has no order to induct  *)
(* along.                                                                  *)
(***************************************************************************)
EXTENDS Integers, Sequences

\* The members of S that occur in the sequence s, in the order of s: an
\* iterator's .filter(..).collect().
Filter(s, S) ==
  LET kept[i \in 0..Len(s)] ==
        IF i = 0 THEN <<>>
        ELSE IF s[i] \in S THEN Append(kept[i-1], s[i]) ELSE kept[i-1]
  IN  kept[Len(s)]

\* f[1] + ... + f[n].
SumTo(f, n) ==
  LET total[i \in 0..n] == IF i = 0 THEN 0 ELSE total[i-1] + f[i]
  IN  total[n]
=============================================================================
