---------------------------- MODULE MCBacktest ----------------------------
(* A small instance of Backtest for TLC. *)
EXTENDS Backtest

MCPrices == -5..5

Plain == [bars |-> 3, delay |-> 1, levels |-> {}, breakeven |-> 0, trail |-> 0, trailTp |-> 0,
          timeout |-> 0, session |-> FALSE, rules |-> FALSE, subHourly |-> FALSE]

\* Level 4 lies on the stop, level 2 before it; a trailing distance of 6 exceeds the
\* stop's, so that a gain of break-even size must not trail it further away.
MCSetups == {
    [Plain EXCEPT !.timeout = 2, !.subHourly = TRUE],
    [Plain EXCEPT !.bars = 6, !.timeout = 3, !.session = TRUE],
    [Plain EXCEPT !.session = TRUE, !.rules = TRUE, !.delay = 0],
    [Plain EXCEPT !.bars = 6, !.levels = {2, 4}, !.breakeven = 2, !.trail = 1],
    [Plain EXCEPT !.levels = {2}, !.breakeven = 1, !.timeout = 2],
    [Plain EXCEPT !.levels = {2}, !.breakeven = 1, !.session = TRUE],
    [Plain EXCEPT !.trail = 2, !.trailTp = 1],
    [Plain EXCEPT !.breakeven = 1, !.trail = 6, !.timeout = 4]}

\* Timeout 2 gives the horizon 2, the other setups MaxBars.  An embargo of 12 exceeds
\* every training window.
MCConfigs ==
    [bars : 7..32, folds : {2, 4}, minTrain : {3, 10}, floor : {4}, minOos : {2, 3},
     embargo : {0, 1, 3, 12}, horizon : {2, 4}, anchored : BOOLEAN, cutoff : {3, 9, 32}]

MCFollowed ==
    {c \in MCConfigs : /\ c.bars = 32 /\ c.folds = 2 /\ c.minTrain = 10 /\ c.minOos = 3
                       /\ c.embargo = 1 /\ c.anchored /\ c.cutoff = 32}
=============================================================================
