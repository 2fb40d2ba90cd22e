------------------------------ MODULE TradeSim ------------------------------
(***************************************************************************)
(* One simulated trade, bar by bar: by the evaluator the backtest reports  *)
(* (simulation/trade.py, simulate_pro_trade) and, on the same bars, by the *)
(* kernel that labels the signal for training (simulation/numba_core.py).  *)
(* The market delivers any bars; the trade may scale in, move its stop to  *)
(* break-even, trail it, time out, or wait for its trading session.        *)
(*                                                                         *)
(* Prices are integers relative to the raw entry price.  Bars are counted  *)
(* from the first one that can end the trade.  d is 1 for a long trade, -1 *)
(* for a short one; of two prices the one further in that direction is the *)
(* better.  Overnight financing is left out (a rate of 0).                 *)
(***************************************************************************)
EXTENDS Integers, FiniteSets, FiniteSetsExt

CONSTANTS
    Prices,            \* prices a bar can show, 0 among them
    TpDistance, SlDistance,
    Cost,              \* spread and slippage
    MaxBars,           \* max_trade_bars
    Setups             \* what the strategy configures, see Setup

Setup == [bars      : Nat \ {0},   \* bars there are after the entry
          delay     : {0, 1},      \* entry at the signal's close or at the next open
          levels    : SUBSET Nat,  \* scale-in levels, as distances from the entry
          breakeven : Nat,         \* gain at which the stop moves to the average; 0: off
          trail     : Nat,         \* trailing distance of the stop; 0: off
          trailTp   : Nat,         \* trailing distance of the target, labels only; 0: off
          timeout   : Nat,         \* bars; 0: off
          session   : BOOLEAN,     \* exits only in the trading session
          rules     : BOOLEAN,     \* the strategy has exit rules, trades only
          subHourly : BOOLEAN]     \* sub-hourly data, trades only

ASSUME TradeAssumption ==
    /\ Prices \subseteq Int /\ 0 \in Prices
    /\ TpDistance \in Nat \ {0} /\ SlDistance \in Nat \ {0}
    /\ Cost \in Nat
    /\ MaxBars \in Nat \ {0}
    /\ Setups \subseteq Setup
    /\ \A s \in Setups : IsFiniteSet(s.levels) /\ \A S \in SUBSET s.levels : SumSet(S) \in Nat

VARIABLES
    setup, d,          \* fixed when the trade begins
    bar,               \* bars seen
    trade, tradeExit,  \* the evaluator's position and how it ended
    label, labelExit   \* the kernel's

tradeVars == <<setup, d, bar, trade, tradeExit, label, labelExit>>

Lesser(a, b)  == IF a < b THEN a ELSE b
Better(a, b) == IF d * (a - b) >= 0 THEN a ELSE b
Worse(a, b)  == IF d * (a - b) >= 0 THEN b ELSE a
IsBetter(a, b) == d * (a - b) > 0

-----------------------------------------------------------------------------
(* Bars. *)

\* inSession is the session mask: hours of the session, and not a flat bar.
Bar == {b \in [open : Prices, high : Prices, low : Prices, close : Prices,
               inSession : BOOLEAN, rule : BOOLEAN] :
          /\ b.low <= b.open /\ b.open <= b.high
          /\ b.low <= b.close /\ b.close <= b.high
          /\ b.low = b.high => ~b.inSession}

\* The entry bar opens at the raw entry price, unless the entry was the close before it.
MayFollow(b) ==
    /\ bar = 0 /\ setup.delay = 1 => b.open = 0
    /\ ~setup.session => b.inSession = (b.low # b.high)
    /\ ~setup.rules => ~b.rule

Counts(b) == setup.session => b.inSession

Favorable(b) == IF d = 1 THEN b.high ELSE b.low
Adverse(b)   == IF d = 1 THEN b.low ELSE b.high

-----------------------------------------------------------------------------
(* A position, and the exit rules evaluator and kernels share. *)

Entry == d * Cost      \* costs work against the trade
Trigger(l) == Entry - d * l

Qty(filled) == 1 + Cardinality(filled)
Avg(filled) == Entry - d * (SumSet(filled) \div Qty(filled))

\* _entry_levels and the trailing state.  Without break-even the kernel trails at once.
Opened(trailing) ==
    [best |-> Entry, sl |-> Entry - d * SlDistance, tp |-> Entry + d * TpDistance,
     trailing |-> trailing, filled |-> {}, counted |-> 0]

TpHit(p, b) == ~IsBetter(p.tp, Favorable(b))
SlHit(p, b) == ~IsBetter(Adverse(b), p.sl)

\* A gap through the stop fills at the open.
StopFill(p, b) == Worse(p.sl, b.open)

\* Scale-in: a level fills when touched, unless it lies beyond the stop.
Fills(p, b) == {l \in setup.levels \ p.filled :
                  ~IsBetter(Adverse(b), Trigger(l)) /\ IsBetter(Trigger(l), p.sl)}

ScaledIn(p, b) ==
    IF Fills(p, b) = {} THEN p
    ELSE LET filled == p.filled \cup Fills(p, b) IN
         [p EXCEPT !.filled = filled, !.tp = Avg(filled) + d * TpDistance]

BreakevenStop(p) == Better(p.sl, Avg(p.filled))

\* Mutant: the stop follows the best price of a bar that widened it.
TrailedStopLoose(sl, best) == best - d * setup.trail

TrailedStop(sl, best) == Better(sl, best - d * setup.trail)

\* _trail_after_bar: the levels of the next bar.
TrailAfter(p, b, trailTp) ==
    LET best  == Better(p.best, Favorable(b))
        moves == /\ ~p.trailing /\ setup.breakeven > 0
                 /\ ~IsBetter(Avg(p.filled) + d * setup.breakeven, best)
        on    == p.trailing \/ moves
        sl    == IF moves THEN BreakevenStop(p) ELSE p.sl
    IN [p EXCEPT !.best = best,
                 !.trailing = on,
                 !.sl = IF on /\ setup.trail > 0 THEN TrailedStop(sl, best) ELSE sl,
                 !.tp = IF on /\ trailTp > 0 THEN Better(@, best + d * trailTp) ELSE @]

Open == [how |-> "open"]

Wins(p, price) == d * (price - Avg(p.filled)) > 0

Closed(how, p, price, win) ==
    [how |-> how, at |-> bar, price |-> price, avg |-> Avg(p.filled),
     qty |-> Qty(p.filled), win |-> win]

-----------------------------------------------------------------------------
(* simulate_pro_trade *)

Last == Lesser(MaxBars, setup.bars)

\* Both levels in one bar: the stop counts, unless sub-hourly data shows the target first.
EvaluatorExits(p, b) ==
    LET q == ScaledIn(p, b)
        stop   == Closed("sl", q, StopFill(p, b), Wins(q, StopFill(p, b)))
        target == Closed("tp", p, p.tp, Wins(p, p.tp))   \* this bar's fills are undone
        atClose(how) == Closed(how, q, b.close, Wins(q, b.close))
    IN  IF Counts(b) /\ SlHit(p, b)
        THEN IF TpHit(p, b) /\ setup.subHourly THEN {stop, target} ELSE {stop}
        ELSE IF Counts(b) /\ TpHit(p, b) THEN {target}
        ELSE IF Counts(b) /\ setup.timeout > 0 /\ p.counted + 1 >= setup.timeout
        THEN {atClose("timeout")}
        ELSE IF b.rule THEN {atClose("exit_signal")}
        ELSE IF bar + 1 = Last
        THEN {atClose(IF setup.bars <= MaxBars THEN "end_of_data" ELSE "max_bars")}
        ELSE {Open}

EvaluatorBar(b) ==
    IF tradeExit # Open THEN UNCHANGED <<trade, tradeExit>>
    ELSE LET q == ScaledIn(trade, b) IN
         /\ tradeExit' \in EvaluatorExits(trade, b)
         /\ trade' = IF tradeExit' # Open THEN trade
                     ELSE IF ~Counts(b) THEN q
                     ELSE IF setup.breakeven > 0 \/ setup.trail > 0
                     THEN [TrailAfter(q, b, 0) EXCEPT !.counted = @ + 1]
                     ELSE [q EXCEPT !.counted = @ + 1]

-----------------------------------------------------------------------------
(* The kernels, which enter at the next open: _simulate_trade_scale_in_    *)
(* numba, of which the plain and the trailing kernel are the cases without *)
(* levels, or _simulate_trade_session_numba, which knows neither scale-in  *)
(* nor trailing.                                                           *)

SessionKernel ==
    setup.session /\ setup.levels = {} /\ setup.breakeven = 0 /\ setup.trail = 0

KernelCounts(b) == SessionKernel => b.inSession

\* Mutant: the entry bar is not counted.
KernelTimeoutLate(p) ==
    /\ setup.timeout > 0
    /\ IF SessionKernel THEN p.counted >= setup.timeout
                        ELSE bar >= Lesser(setup.timeout, setup.bars - 1)

\* Without a session the timeout is a bar of the data, at the latest its last one.
KernelTimeout(p) ==
    /\ setup.timeout > 0
    /\ IF SessionKernel THEN p.counted + 1 >= setup.timeout
                        ELSE bar >= Lesser(setup.timeout - 1, setup.bars - 1)

\* Mutant: a target that this bar's fills lowered already counts.
KernelExitLowered(p, b) ==
    LET q == ScaledIn(p, b) IN
    IF ~KernelCounts(b) THEN Open
    ELSE IF SlHit(p, b) THEN Closed("sl", q, StopFill(p, b), Wins(q, StopFill(p, b)))
    ELSE IF TpHit(q, b) THEN Closed("tp", q, q.tp, TRUE)
    ELSE IF KernelTimeout(p) THEN Closed("timeout", q, b.close, Wins(q, b.close))
    ELSE Open

\* Mutant: of two levels in one bar the target counts.
KernelExitTargetFirst(p, b) ==
    LET q == ScaledIn(p, b) IN
    IF ~KernelCounts(b) THEN Open
    ELSE IF TpHit(p, b) THEN Closed("tp", p, p.tp, TRUE)
    ELSE IF SlHit(p, b) THEN Closed("sl", q, StopFill(p, b), Wins(q, StopFill(p, b)))
    ELSE IF KernelTimeout(p) THEN Closed("timeout", q, b.close, Wins(q, b.close))
    ELSE Open

KernelExit(p, b) ==
    LET q == ScaledIn(p, b) IN
    IF ~KernelCounts(b) THEN Open
    ELSE IF SlHit(p, b) THEN Closed("sl", q, StopFill(p, b), Wins(q, StopFill(p, b)))
    ELSE IF TpHit(p, b) THEN Closed("tp", p, p.tp, TRUE)
    ELSE IF KernelTimeout(p) THEN Closed("timeout", q, b.close, Wins(q, b.close))
    ELSE Open

KernelBar(b) ==
    IF labelExit # Open \/ setup.delay = 0 THEN UNCHANGED <<label, labelExit>>
    ELSE /\ labelExit' = KernelExit(label, b)
         /\ label' = IF labelExit' # Open \/ ~KernelCounts(b) THEN label
                     ELSE [TrailAfter(ScaledIn(label, b), b, setup.trailTp)
                             EXCEPT !.counted = @ + 1]

-----------------------------------------------------------------------------

TradeInit ==
    /\ setup \in Setups
    /\ d \in {1, -1}
    /\ bar = 0
    /\ trade = Opened(setup.breakeven = 0 /\ setup.trail > 0)
    /\ label = Opened(setup.breakeven = 0)
    /\ tradeExit = Open
    /\ labelExit = Open

NextBar ==
    /\ bar < Last
    /\ tradeExit = Open \/ (labelExit = Open /\ setup.delay = 1)
    /\ bar' = bar + 1
    /\ \E b \in Bar : MayFollow(b) /\ EvaluatorBar(b) /\ KernelBar(b)
    /\ UNCHANGED <<setup, d>>

TradeSpec == TradeInit /\ [][NextBar]_tradeVars

-----------------------------------------------------------------------------
(* Properties. *)

Position == [best : Int, sl : Int, tp : Int, trailing : BOOLEAN, filled : SUBSET Nat,
             counted : Nat]
Exits(hows) == {Open} \cup [how : hows, at : Nat, price : Int, avg : Int, qty : Nat,
                            win : BOOLEAN]

TradeTypeOK ==
    /\ setup \in Setups
    /\ d \in {1, -1}
    /\ bar \in 0..Last
    /\ trade \in Position
    /\ label \in Position
    /\ tradeExit \in Exits({"tp", "sl", "timeout", "exit_signal", "end_of_data", "max_bars"})
    /\ labelExit \in Exits({"tp", "sl", "timeout"})

(***************************************************************************)
(* "Levels only ever tighten": no bar moves a stop away from the price,    *)
(* not break-even after scale-ins either.                                  *)
(***************************************************************************)
StopOnlyTightens ==
    [][~IsBetter(trade.sl, trade'.sl) /\ ~IsBetter(label.sl, label'.sl)]_tradeVars

\* The cases in which kernel and evaluator are to say the same.
SameRules ==
    /\ setup.delay = 1 /\ setup.trailTp = 0 /\ ~setup.rules
    /\ setup.session => SessionKernel

\* Exits that may differ by their reason only.
SameEnd(x, y) ==
    /\ x # Open /\ y # Open
    /\ x.at = y.at /\ x.price = y.price /\ x.avg = y.avg /\ x.qty = y.qty /\ x.win = y.win

(***************************************************************************)
(* The label is the trade: the kernel ends it on the bar, at the price and *)
(* with the result the evaluator reports.  Only a trade the evaluator      *)
(* closes because the data or the simulated bars end has no label, or one  *)
(* that timed out on the data's last bar.                                  *)
(***************************************************************************)
LabelIsTheTrade ==
    SameRules /\ ~setup.subHourly /\ tradeExit # Open =>
        \/ SameEnd(labelExit, tradeExit)
        \/ tradeExit.how \in {"end_of_data", "max_bars"} /\ labelExit = Open

(***************************************************************************)
(* Labels are conservative: with sub-hourly data the evaluator may see the *)
(* target first, but what the label calls a win is a win of the trade.     *)
(***************************************************************************)
LabelIsConservative ==
    SameRules /\ labelExit # Open /\ tradeExit # Open /\ labelExit.win => tradeExit.win

(***************************************************************************)
(* A label looks at no more bars than _effective_label_horizon says, which *)
(* is what training is purged by.                                          *)
(***************************************************************************)
Horizon ==
    IF setup.timeout > 0 /\ ~SessionKernel THEN Lesser(MaxBars, setup.timeout) ELSE MaxBars

LabelWithinHorizon ==
    /\ labelExit # Open => labelExit.at < Horizon
    /\ setup.delay = 1 /\ labelExit = Open => bar < Horizon \/ bar = Last

=============================================================================
