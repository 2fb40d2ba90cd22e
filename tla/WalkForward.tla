---------------------------- MODULE WalkForward ----------------------------
(***************************************************************************)
(* Which bars a strategy is trained on and which it is tested on: the plan *)
(* of the walk-forward folds (optimization/robust_validation.py), the      *)
(* inner folds of each fold's training data and the out-of-fold splits of  *)
(* the meta model (optimization/nested_cv.py), and the fold of the holdout *)
(* (optimization/holdout.py).  process.py goes through them in this order. *)
(*                                                                         *)
(* Bars are numbered from 0; a window is the half-open interval from..to.  *)
(***************************************************************************)
EXTENDS Integers, Sequences, FiniteSets

CONSTANTS
    Configs,       \* what a symbol and its strategy may bring, see Config
    InnerFolds,    \* n_inner_folds
    OosSize,       \* longest validation window of an inner fold
    OofSplits      \* n_splits of _generate_oof_predictions

Config == [bars     : Nat,            \* total_len
           folds    : Nat \ {0},      \* target_folds
           minTrain : Nat \ {0},      \* target_min_train
           floor    : Nat \ {0},      \* train_floor
           minOos   : Nat \ {0},      \* min_oos
           embargo  : Nat,            \* embargo_bars
           horizon  : Nat \ {0},      \* _effective_label_horizon
           anchored : BOOLEAN,
           cutoff   : Nat]            \* development bars of a holdout

ASSUME WalkForwardAssumption ==
    /\ Configs \subseteq Config
    /\ InnerFolds \in Nat \ {0} /\ OosSize \in Nat \ {0} /\ OofSplits \in Nat \ {0, 1}

VARIABLES
    config,
    step,      \* "plan", "folds", "inner", "oof", "next", "done", "insufficient"
    plan,      \* folds, test size and training size of plan_walk_forward
    folds,     \* the walk-forward folds
    fold,      \* number of the fold being worked on
    inner,     \* its inner folds
    oof        \* its out-of-fold splits

vars == <<config, step, plan, folds, fold, inner, oof>>

Least(a, b)    == IF a < b THEN a ELSE b
Greatest(a, b) == IF a > b THEN a ELSE b

Window(from, to) == [from |-> from, to |-> to]
Size(w) == Greatest(0, w.to - w.from)

\* df.iloc[from:to]: a negative end counts from the end of the data.
Slice(from, to, length) ==
    Window(from, IF to < 0 THEN Greatest(0, length + to) ELSE Least(to, length))

-----------------------------------------------------------------------------
(* plan_walk_forward *)

\* Test size of n folds after so many training bars, 0 when they do not fit.
TestSize(n, train) == IF config.bars <= train THEN 0 ELSE (config.bars - train) \div n

Fits(n, train) == TestSize(n, train) >= config.minOos

MinFolds == Least(3, config.folds)

\* The most folds that fit, first with the target's training window, then with the floor.
Planned(n) ==
    LET train == IF Fits(n, config.minTrain) THEN config.minTrain ELSE config.floor
    IN  [n |-> n, test |-> TestSize(n, train), train |-> train]

PlanFolds ==
    /\ step = "plan"
    /\ LET possible == {n \in MinFolds..config.folds :
                          Fits(n, config.minTrain) \/ Fits(n, config.floor)}
       IN  IF possible = {}
           THEN step' = "insufficient" /\ UNCHANGED plan
           ELSE /\ step' = "folds"
                /\ \E n \in possible : /\ \A m \in possible : m <= n
                                       /\ plan' = Planned(n)
    /\ UNCHANGED <<config, folds, fold, inner, oof>>

-----------------------------------------------------------------------------
(* create_walk_forward_folds *)

Available == config.bars - plan.n * plan.test

\* Mutant: the embargo is taken from the test window.
FoldTestedLate(i) ==
    LET testStart == Available + i * plan.test
        trainEnd == testStart
    IN  [train |-> Slice(0, trainEnd, config.bars),
         test  |-> Slice(testStart + config.embargo, testStart + plan.test, config.bars)]

\* Fold i, counted from 0.
Fold(i) ==
    LET testStart == Available + i * plan.test
        trainEnd  == testStart - config.embargo
        start == IF config.anchored THEN 0
                 ELSE Greatest(0, testStart - testStart \div (i + 1))
        trainStart == IF trainEnd - start < plan.train
                      THEN Greatest(0, trainEnd - plan.train) ELSE start
    IN  [train |-> Slice(trainStart, trainEnd, config.bars),
         test  |-> Slice(testStart, testStart + plan.test, config.bars)]

CreateFolds ==
    /\ step = "folds"
    /\ IF Available < plan.train
       THEN step' = "insufficient" /\ UNCHANGED folds    \* ValueError
       ELSE /\ step' = "inner"
            /\ folds' = [k \in 1..plan.n |-> Fold(k - 1)]
    /\ UNCHANGED <<config, plan, fold, inner, oof>>

-----------------------------------------------------------------------------
(* Per fold: nested_cv_split and _forward_oof_splits on its training data, *)
(* whose bars they number from 0.                                          *)

TrainSize == Size(folds[fold].train)

ValSize == Least(OosSize, TrainSize \div (InnerFolds + 2))

InnerFold(i) ==
    LET valEnd   == TrainSize - i * ValSize
        valStart == valEnd - ValSize
    IN  [train |-> Window(0, valStart - config.embargo), val |-> Window(valStart, valEnd)]

\* Folds with too little training data are left out.
SplitInner ==
    /\ step = "inner"
    /\ inner' = {f \in {InnerFold(i) : i \in 0..InnerFolds - 1} : f.train.to >= 2 * ValSize}
    /\ step' = "oof"
    /\ UNCHANGED <<config, plan, folds, fold, oof>>

\* np.array_split: the first blocks are one longer when it does not divide evenly.
BlockStart(k) ==
    LET blocks == OofSplits + 1 IN
    k * (TrainSize \div blocks) + Least(k, TrainSize % blocks)

\* Mutant: the horizon is taken to count the labelled bar, which closes before the entry.
OofTrainEndLate(start) == start - (config.horizon - 1) - config.embargo

OofTrainEnd(start) == start - config.horizon - config.embargo

OofSplit(k) == [train |-> Window(0, OofTrainEnd(BlockStart(k))),
                val   |-> Window(BlockStart(k), BlockStart(k + 1))]

SplitOof ==
    /\ step = "oof"
    /\ oof' = {s \in {OofSplit(k) : k \in 1..OofSplits} : Size(s.val) > 0 /\ s.train.to > 0}
    /\ IF fold < Len(folds)
       THEN step' = "next" ELSE step' = "done"
    /\ UNCHANGED <<config, plan, folds, fold, inner>>

NextFold ==
    /\ step = "next"
    /\ fold' = fold + 1
    /\ step' = "inner"
    /\ inner' = {} /\ oof' = {}
    /\ UNCHANGED <<config, plan, folds>>

-----------------------------------------------------------------------------

\* holdout_fold, after the guard of _run_frozen.
HoldoutFold ==
    [train |-> Slice(0, Greatest(0, config.cutoff - config.embargo), config.bars),
     test  |-> Window(config.cutoff, config.bars)]

\* The symbol is frozen and evaluated on the data after the cutoff instead.
Holdout ==
    /\ step = "plan"
    /\ config.cutoff < config.bars
    /\ IF config.cutoff <= config.embargo
       THEN step' = "insufficient" /\ UNCHANGED folds
       ELSE folds' = <<HoldoutFold>> /\ step' = "done"
    /\ UNCHANGED <<config, plan, fold, inner, oof>>

Init ==
    /\ config \in Configs
    /\ step = "plan"
    /\ plan = [n |-> 0, test |-> 0, train |-> 0]
    /\ folds = <<>>
    /\ fold = 1
    /\ inner = {}
    /\ oof = {}

Next == PlanFolds \/ CreateFolds \/ SplitInner \/ SplitOof \/ NextFold \/ Holdout

Spec == Init /\ [][Next]_vars

-----------------------------------------------------------------------------
(* Properties. *)

Windows == [from : Nat, to : Nat]

TypeOK ==
    /\ config \in Configs
    /\ step \in {"plan", "folds", "inner", "oof", "next", "done", "insufficient"}
    /\ plan \in [n : Nat, test : Nat, train : Nat]
    /\ folds \in Seq([train : Windows, test : Windows])
    /\ fold \in Nat \ {0}
    /\ inner \subseteq [train : Windows, val : Windows]
    /\ oof \subseteq [train : Windows, val : Windows]

(***************************************************************************)
(* What plan_walk_forward plans can be built: no planned run ends for want *)
(* of data.                                                                *)
(***************************************************************************)
PlannedFoldsFit == step = "folds" => Available >= plan.train

(***************************************************************************)
(* The tests of a walk-forward run are consecutive windows of one size and *)
(* end with the data: no bar is tested twice or left out at the end.       *)
(***************************************************************************)
TestedOnce ==
    folds # <<>> =>
        /\ folds[Len(folds)].test.to = config.bars
        /\ \A k \in 1..Len(folds) - 1 : folds[k].test.to = folds[k + 1].test.from

\* The fold is trained on bars that come after the first bar it is tested on.
LooksAhead(f) == f.train.from < f.train.to /\ f.test.from < f.train.to

(***************************************************************************)
(* "No lookahead bias by construction" (README.md): no fold is trained on  *)
(* the bars it is tested on or on later ones.                              *)
(***************************************************************************)
NoLookahead == \A k \in 1..Len(folds) : ~LooksAhead(folds[k])

(***************************************************************************)
(* Exactly the embargo decides: folds look ahead when it reaches back      *)
(* before the first bar of the data and the data are longer than it.       *)
(***************************************************************************)
LooksAheadByEmbargo ==
    \A k \in 1..Len(folds) :
        LooksAhead(folds[k]) <=> folds[k].test.from < config.embargo /\ config.embargo < config.bars

(***************************************************************************)
(* No label the meta model's base learners are trained on depends on a bar *)
(* of the block they predict, nor of the embargo before it: a label of bar *)
(* i is known at bar i + horizon.                                          *)
(***************************************************************************)
NoLabelLeak ==
    \A s \in oof : \A i \in s.train.from..(s.train.to - 1) :
        i + config.horizon + config.embargo < s.val.from

=============================================================================
