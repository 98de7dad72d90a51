---------------------------- MODULE MC_PokerGame ----------------------------
(* Small tables for TLC: the constants are set in the .cfg files.          *)
EXTENDS PokerGame

\* Bound: steps that sit a player out are taken and not followed up.
NobodySitsOut == table.is_sitting_out = {}

\* Bound: steps after which the table or its pot holds more chips than were bought
\* in, which calls of a folded player can do, are taken and not followed up.
NoMoreThanBoughtIn ==
  Max({table.pot, Bank!Held}) <= Len(table.order) * StartingChips

\* Players differ only by where the map lists them: states that are equal up to
\* a renaming of the players are one state.
ByPosition ==
  LET t == table
      Where(S) == {i \in 1..Len(t.order) : t.order[i] \in S}
  IN  <<inactivity,
        [i \in 1..Len(t.order) |-> <<t.chips[t.order[i]], t.current_bet[t.order[i]]>>],
        Where(t.has_acted), Where(t.is_all_in), Where(t.is_folded),
        Where(t.is_sitting_out), Where(t.hole_cards), Where({t.current_player_id}),
        t.community_cards, t.deck, t.pot, t.current_street, t.dealer_position,
        t.min_raise, t.game_stage>>
=============================================================================
