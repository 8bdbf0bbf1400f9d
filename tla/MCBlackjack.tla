---------------------------- MODULE MCBlackjack ----------------------------
(* Two users, two rounds' worth of bets. *)
EXTENDS Blackjack
=============================================================================
