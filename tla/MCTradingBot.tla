---------------------------- MODULE MCTradingBot ----------------------------
(* Small instances of TradingBot for TLC: bots and symbols are model values. *)
EXTENDS TradingBot, TLC

\* No bot or symbol is named anywhere: the invariants may be checked up to renaming.
Symmetric == Permutations(Bots) \cup Permutations(Symbols)
=============================================================================
