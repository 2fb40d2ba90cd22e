------------------------------ MODULE Backtest ------------------------------
(***************************************************************************)
(* A backtest of one setup: the bars it is trained and tested on           *)
(* (WalkForward), and the trade of a training bar that gives the bar its   *)
(* label (TradeSim).  What the two have in common is the label horizon:    *)
(* the out-of-fold splits are purged by the number of bars that            *)
(* _effective_label_horizon (optimization/nested_cv.py) reads off the      *)
(* setup, and the kernel that makes the labels looks as far as it looks.   *)
(*                                                                         *)
(* Which bars there are does not depend on what happens on them: the       *)
(* market enters after the last split, and one trade of any training bar   *)
(* is followed.                                                            *)
(***************************************************************************)
EXTENDS TradeSim, WalkForward

CONSTANT Followed     \* configurations whose labels are followed; bounds the instance

ASSUME BacktestAssumption == Followed \subseteq Configs

BacktestInit ==
    /\ TradeInit
    /\ Init
    /\ config.horizon = Horizon

Label ==
    /\ step = "done" /\ config \in Followed
    /\ NextBar
    /\ UNCHANGED vars

BacktestNext == (Next /\ UNCHANGED tradeVars) \/ Label

BacktestSpec == BacktestInit /\ [][BacktestNext]_<<vars, tradeVars>>

-----------------------------------------------------------------------------
(* Properties. *)

(***************************************************************************)
(* The meta model's base learners predict a block from labels that ended   *)
(* the embargo before it.  The label of bar i is that of a trade entered   *)
(* at the next open, whose first bar is bar i + 1: the purge of            *)
(* _forward_oof_splits, the horizon read off the setup and the bar on      *)
(* which the kernel ends a trade have to fit together.                     *)
(***************************************************************************)
LabelsEndBeforeBlock ==
    labelExit # Open =>
        \A s \in oof : \A i \in s.train.from..(s.train.to - 1) :
            i + 1 + labelExit.at + config.embargo < s.val.from

=============================================================================
