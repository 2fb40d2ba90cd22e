--------------------------- MODULE MCRunProgress ---------------------------
(* Small instances of RunProgress for TLC: assets and workers are model values. *)
EXTENDS RunProgress, TLC

\* Few phases, where the order of the processes matters and not that of the stages.
FewBefore  == <<>>
FewPerFold == <<"grid_search">>
FewAfter   == <<>>

\* A backtest, and an asset that never came to one.
MCKinds == {[executed |-> TRUE, combos |-> TRUE], [executed |-> FALSE, combos |-> FALSE]}
=============================================================================
