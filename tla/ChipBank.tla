------------------------------ MODULE ChipBank ------------------------------
(***************************************************************************)
(* What a table promises about chips, whatever game is played: every       *)
(* player buys in once, for the same amount, and from then on chips only   *)
(* change hands between the players' purses and the escrow, or leave play. *)
(* A step may collect several stakes, settle the escrow and collect the    *)
(* next stakes at once, so a transfer says only what it must not do.       *)
(***************************************************************************)
EXTENDS ChipMath

CONSTANTS MaxPlayers, StartingChips

VARIABLES
  purse,    \* what each player holds
  escrow,   \* what has been staked and not settled
  joined    \* who has bought in

bankVars == <<purse, escrow, joined>>

Held == SumTo(purse, MaxPlayers) + escrow

Init ==
  /\ purse = [p \in 1..MaxPlayers |-> 0]
  /\ escrow = 0
  /\ joined = {}

\* One player buys in; the blinds of the hand that starts may move as well.
BuyIn ==
  /\ \E p \in (1..MaxPlayers) \ joined : joined' = joined \cup {p}
  /\ Held' <= Held + StartingChips

\* Stakes are collected and settled.
Transfer ==
  /\ joined' = joined
  /\ Held' <= Held

\* Nobody ever owes chips.
NoDebt ==
  /\ escrow' >= 0
  /\ \A p \in 1..MaxPlayers : purse'[p] >= 0

Next == (BuyIn \/ Transfer) /\ NoDebt

Spec == Init /\ [][Next]_bankVars
=============================================================================
