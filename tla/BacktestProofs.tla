--------------------------- MODULE BacktestProofs ---------------------------
(***************************************************************************)
(* Proofs about a backtest and its two halves, TradeSim and WalkForward.   *)
(*                                                                         *)
(* Of a trade, for any prices, distances and setups: a stop only tightens, *)
(* a label looks no further than its horizon, and the label is the trade.  *)
(* The last rests on an invariant that holds while both are open:          *)
(* evaluator and kernel hold the same stop, target and fills, and the same *)
(* trailing state wherever one of them uses it.                            *)
(*                                                                         *)
(* Of the splits, for every configuration of the data and of the folds:    *)
(* the inductive invariant says that the planned folds fit and gives each  *)
(* fold its place in the data; the rest is arithmetic, of which only       *)
(* products and quotients need a lemma.                                    *)
(*                                                                         *)
(* Of both together: no label of a training bar ends in the block that is  *)
(* predicted by what was trained on it.                                    *)
(***************************************************************************)
EXTENDS Backtest, SequenceTheorems, FiniteSetTheorems, TLAPS

-----------------------------------------------------------------------------
(* TradeSim *)

\* Fills of a setup are finitely many, and their distances have a sum.
LEMMA LevelFacts ==
    ASSUME setup \in Setups, NEW filled \in SUBSET setup.levels
    PROVE  Cardinality(filled) \in Nat /\ SumSet(filled) \in Nat
<1>1. IsFiniteSet(setup.levels) /\ SumSet(filled) \in Nat
  BY TradeAssumption
<1> QED
  BY <1>1, FS_Subset, FS_CardinalityType

\* A quotient of a natural number is an integer.
LEMMA Quotients ==
    ASSUME NEW a \in Nat, NEW n \in Nat \ {0}
    PROVE  a \div n \in Int
OBVIOUS

\* Entry and average are prices.
LEMMA AvgType ==
    ASSUME TradeTypeOK, NEW filled \in SUBSET setup.levels
    PROVE  /\ Entry \in Int /\ Avg(filled) \in Int /\ Qty(filled) \in Nat \ {0}
<1>1. Qty(filled) \in Nat \ {0} /\ SumSet(filled) \in Nat
  BY LevelFacts DEF TradeTypeOK, Qty
<1>2. SumSet(filled) \div Qty(filled) \in Int
  BY <1>1, Quotients
<1>3. d \in Int /\ Cost \in Int
  BY TradeAssumption DEF TradeTypeOK
<1>4. Entry \in Int
  BY <1>3 DEF Entry
<1> DEFINE gain == SumSet(filled) \div Qty(filled)
<1>5. Avg(filled) = Entry - d * gain
  BY DEF Avg
<1> HIDE DEF gain
<1>6. gain \in Int
  BY <1>2 DEF gain
<1> QED
  BY <1>1, <1>3, <1>4, <1>5, <1>6

\* The fields of a setup have their types.
LEMMA SetupTypes ==
    ASSUME setup \in Setups
    PROVE  /\ setup.bars \in Nat \ {0} /\ setup.delay \in {0, 1}
           /\ setup.levels \in SUBSET Nat
           /\ setup.breakeven \in Nat /\ setup.trail \in Nat /\ setup.trailTp \in Nat
           /\ setup.timeout \in Nat
           /\ setup.session \in BOOLEAN /\ setup.rules \in BOOLEAN
           /\ setup.subHourly \in BOOLEAN
BY TradeAssumption DEF Setup

\* The prices of a bar.
LEMMA BarTypes ==
    ASSUME NEW b \in Bar
    PROVE  /\ b.open \in Int /\ b.high \in Int /\ b.low \in Int /\ b.close \in Int
           /\ b.inSession \in BOOLEAN /\ b.rule \in BOOLEAN
           /\ Favorable(b) \in Int /\ Adverse(b) \in Int
BY TradeAssumption DEF Bar, Favorable, Adverse

\* Of two prices the better one is as good as either.
LEMMA BetterFacts ==
    ASSUME d \in {1, -1}, NEW a \in Int, NEW c \in Int
    PROVE  /\ Better(a, c) \in {a, c} /\ Better(a, c) \in Int
           /\ ~IsBetter(a, Better(a, c)) /\ ~IsBetter(c, Better(a, c))
           /\ Worse(a, c) \in Int
BY DEF Better, Worse, IsBetter

\* Stops that are no worse, one after the other.
LEMMA BetterTransitive ==
    ASSUME d \in {1, -1}, NEW x \in Int, NEW y \in Int, NEW z \in Int,
           ~IsBetter(x, y), ~IsBetter(y, z)
    PROVE  ~IsBetter(x, z)
BY DEF IsBetter

-----------------------------------------------------------------------------
(* One bar of one position. *)

\* A position of this setup.
PositionOK(p) == p \in Position /\ p.filled \in SUBSET setup.levels

\* Scaling in changes the fills and the target only.
LEMMA ScaledInFacts ==
    ASSUME TradeTypeOK, NEW p, PositionOK(p), NEW b \in Bar
    PROVE  /\ PositionOK(ScaledIn(p, b))
           /\ ScaledIn(p, b).sl = p.sl /\ ScaledIn(p, b).best = p.best
           /\ ScaledIn(p, b).trailing = p.trailing /\ ScaledIn(p, b).counted = p.counted
           /\ ScaledIn(p, b).filled = p.filled \cup Fills(p, b)
<1> DEFINE filled == p.filled \cup Fills(p, b)
           target == Avg(filled) + d * TpDistance
<1>1. filled \in SUBSET setup.levels
  BY DEF PositionOK, Fills
<1>2. target \in Int
  <2>1. Avg(filled) \in Int /\ d \in Int /\ TpDistance \in Int
    BY <1>1, AvgType, TradeAssumption DEF TradeTypeOK
  <2> HIDE DEF filled
  <2> QED
    BY <2>1
<1>3. filled \in SUBSET Nat
  BY <1>1, SetupTypes DEF TradeTypeOK
<1>4. CASE Fills(p, b) = {}
  BY <1>4 DEF ScaledIn, PositionOK
<1>5. CASE Fills(p, b) # {}
  <2>1. ScaledIn(p, b) = [p EXCEPT !.filled = filled, !.tp = target]
    BY <1>5 DEF ScaledIn
  <2> HIDE DEF filled, target
  <2>2. /\ ScaledIn(p, b) \in Position
        /\ ScaledIn(p, b).filled = filled
        /\ ScaledIn(p, b).sl = p.sl /\ ScaledIn(p, b).best = p.best
        /\ ScaledIn(p, b).trailing = p.trailing /\ ScaledIn(p, b).counted = p.counted
    BY <1>2, <1>3, <2>1 DEF PositionOK, Position
  <2> QED
    BY <1>1, <2>2 DEF PositionOK, filled
<1> QED
  BY <1>4, <1>5

\* After a bar the stop is at least as good as before.
LEMMA TrailAfterFacts ==
    ASSUME TradeTypeOK, NEW p, PositionOK(p), NEW b \in Bar, NEW trailTp \in Nat
    PROVE  /\ PositionOK(TrailAfter(p, b, trailTp))
           /\ ~IsBetter(p.sl, TrailAfter(p, b, trailTp).sl)
           /\ TrailAfter(p, b, trailTp).filled = p.filled
           /\ TrailAfter(p, b, trailTp).counted = p.counted
<1> DEFINE best  == Better(p.best, Favorable(b))
           moves == /\ ~p.trailing /\ setup.breakeven > 0
                    /\ ~IsBetter(Avg(p.filled) + d * setup.breakeven, best)
           on    == p.trailing \/ moves
           sl    == IF moves THEN BreakevenStop(p) ELSE p.sl
           stop  == IF on /\ setup.trail > 0 THEN TrailedStop(sl, best) ELSE sl
           tp    == IF on /\ trailTp > 0 THEN Better(p.tp, best + d * trailTp) ELSE p.tp
<1>1. /\ d \in {1, -1} /\ p.sl \in Int /\ p.tp \in Int /\ p.best \in Int
      /\ p.trailing \in BOOLEAN /\ Avg(p.filled) \in Int
      /\ setup.trail \in Nat
  BY AvgType, SetupTypes DEF TradeTypeOK, PositionOK, Position
<1>2. best \in Int
  BY <1>1, BarTypes, BetterFacts
<1>3. moves \in BOOLEAN /\ on \in BOOLEAN
  BY <1>1
<1>4. sl \in Int /\ ~IsBetter(p.sl, sl)
  <2>1. CASE moves
    <3>1. sl = Better(p.sl, Avg(p.filled))
      BY <2>1 DEF BreakevenStop
    <3> HIDE DEF sl
    <3> DEFINE avg == Avg(p.filled)
    <3>3. avg \in Int
      BY <1>1
    <3> HIDE DEF avg
    <3>4. ~IsBetter(p.sl, Better(p.sl, avg)) /\ Better(p.sl, avg) \in Int
      BY <1>1, <3>3, BetterFacts
    <3> QED
      BY <3>1, <3>4 DEF avg
  <2>2. CASE ~moves
    <3>1. sl = p.sl
      BY <2>2
    <3> QED
      BY <1>1, <3>1 DEF IsBetter
  <2> QED
    BY <2>1, <2>2
<1> HIDE DEF sl, best, moves, on
<1>5. stop \in Int /\ ~IsBetter(sl, stop)
  <2>1. CASE on /\ setup.trail > 0
    <3>1. stop = Better(sl, best - d * setup.trail)
      BY <2>1 DEF TrailedStop
    <3>2. best - d * setup.trail \in Int
      BY <1>1, <1>2
    <3> QED
      BY <1>1, <1>4, <3>1, <3>2, BetterFacts
  <2>2. CASE ~(on /\ setup.trail > 0)
    <3>1. stop = sl
      BY <2>2
    <3> QED
      BY <1>1, <1>4, <3>1 DEF IsBetter
  <2> QED
    BY <2>1, <2>2
<1>6. tp \in Int
  <2>1. best + d * trailTp \in Int
    BY <1>1, <1>2
  <2> QED
    BY <1>1, <2>1, BetterFacts
<1>7. TrailAfter(p, b, trailTp) =
        [p EXCEPT !.best = best, !.trailing = on, !.sl = stop, !.tp = tp]
  BY DEF TrailAfter, best, on, moves, sl
<1>8. ~IsBetter(p.sl, stop)
  <2> HIDE DEF stop
  <2> QED
    BY <1>1, <1>4, <1>5, BetterTransitive
<1> HIDE DEF stop, tp
<1>9. /\ TrailAfter(p, b, trailTp) \in Position
      /\ TrailAfter(p, b, trailTp).sl = stop
      /\ TrailAfter(p, b, trailTp).filled = p.filled
      /\ TrailAfter(p, b, trailTp).counted = p.counted
  BY <1>2, <1>3, <1>5, <1>6, <1>7 DEF PositionOK, Position
<1> QED
  BY <1>8, <1>9 DEF PositionOK

\* One more bar is counted.
LEMMA CountedFacts ==
    ASSUME NEW p, PositionOK(p)
    PROVE  /\ PositionOK([p EXCEPT !.counted = @ + 1])
           /\ [p EXCEPT !.counted = @ + 1].sl = p.sl
BY DEF PositionOK, Position

\* Which exits there are.
EvaluatorHows == {"tp", "sl", "timeout", "exit_signal", "end_of_data", "max_bars"}
KernelHows == {"tp", "sl", "timeout"}

\* A closed position is an exit.
LEMMA ClosedType ==
    ASSUME TradeTypeOK, NEW hows, NEW how \in hows, NEW p, PositionOK(p), NEW price \in Int,
           NEW win \in BOOLEAN
    PROVE  /\ Closed(how, p, price, win) \in Exits(hows)
           /\ Closed(how, p, price, win).at = bar
           /\ Closed(how, p, price, win).how = how
<1>1. Avg(p.filled) \in Int /\ Qty(p.filled) \in Nat
  BY AvgType DEF PositionOK
<1>2. bar \in Nat
  BY DEF TradeTypeOK
<1> QED
  BY <1>1, <1>2 DEF Closed, Exits

\* Prices and results of an exit have their types.
LEMMA ExitTypes ==
    ASSUME TradeTypeOK, NEW p, PositionOK(p), NEW b \in Bar, NEW price
    PROVE  StopFill(p, b) \in Int /\ p.tp \in Int /\ b.close \in Int
           /\ Wins(p, price) \in BOOLEAN
<1>1. p.sl \in Int /\ p.tp \in Int /\ b.open \in Int /\ b.close \in Int
  BY BarTypes DEF PositionOK, Position
<1>2. StopFill(p, b) \in Int
  BY <1>1 DEF StopFill, Worse
<1>3. Wins(p, price) \in BOOLEAN
  BY DEF Wins
<1> QED
  BY <1>1, <1>2, <1>3

\* The kernel's exit is one of its exits, on this bar.
LEMMA KernelExitFacts ==
    ASSUME TradeTypeOK, NEW p, PositionOK(p), NEW b \in Bar
    PROVE  /\ KernelExit(p, b) \in Exits(KernelHows)
           /\ KernelExit(p, b) # Open => KernelExit(p, b).at = bar
<1> DEFINE q == ScaledIn(p, b)
           stop == Closed("sl", q, StopFill(p, b), Wins(q, StopFill(p, b)))
           target == Closed("tp", p, p.tp, TRUE)
           timeout == Closed("timeout", q, b.close, Wins(q, b.close))
<1>1. PositionOK(q)
  BY ScaledInFacts
<1>2. stop \in Exits(KernelHows) /\ stop.at = bar
  <2>1. StopFill(p, b) \in Int /\ Wins(q, StopFill(p, b)) \in BOOLEAN /\ "sl" \in KernelHows
    BY <1>1, ExitTypes DEF KernelHows
  <2> HIDE DEF q
  <2> QED
    BY <1>1, <2>1, ClosedType
<1>3. target \in Exits(KernelHows) /\ target.at = bar
  <2>1. p.tp \in Int /\ "tp" \in KernelHows /\ TRUE \in BOOLEAN
    BY ExitTypes DEF KernelHows
  <2> QED
    BY <2>1, ClosedType
<1>4. timeout \in Exits(KernelHows) /\ timeout.at = bar
  <2>1. b.close \in Int /\ Wins(q, b.close) \in BOOLEAN /\ "timeout" \in KernelHows
    BY <1>1, ExitTypes DEF KernelHows
  <2> HIDE DEF q
  <2> QED
    BY <1>1, <2>1, ClosedType
<1>5. Open \in Exits(KernelHows)
  BY DEF Exits
<1>6. KernelExit(p, b) \in {stop, target, timeout, Open}
  BY DEF KernelExit
<1> HIDE DEF stop, target, timeout, Open
<1> QED
  BY <1>2, <1>3, <1>4, <1>5, <1>6

\* The evaluator's exits are of their type.
LEMMA EvaluatorExitFacts ==
    ASSUME TradeTypeOK, NEW p, PositionOK(p), NEW b \in Bar
    PROVE  EvaluatorExits(p, b) \subseteq Exits(EvaluatorHows)
<1> DEFINE q == ScaledIn(p, b)
           stop == Closed("sl", q, StopFill(p, b), Wins(q, StopFill(p, b)))
           target == Closed("tp", p, p.tp, Wins(p, p.tp))
           atClose(how) == Closed(how, q, b.close, Wins(q, b.close))
<1>1. PositionOK(q)
  BY ScaledInFacts
<1>2. stop \in Exits(EvaluatorHows)
  <2>1. StopFill(p, b) \in Int /\ Wins(q, StopFill(p, b)) \in BOOLEAN
        /\ "sl" \in EvaluatorHows
    BY <1>1, ExitTypes DEF EvaluatorHows
  <2> HIDE DEF q
  <2> QED
    BY <1>1, <2>1, ClosedType
<1>3. target \in Exits(EvaluatorHows)
  <2>1. p.tp \in Int /\ Wins(p, p.tp) \in BOOLEAN /\ "tp" \in EvaluatorHows
    BY ExitTypes DEF EvaluatorHows
  <2> QED
    BY <2>1, ClosedType
<1>4. ASSUME NEW how \in EvaluatorHows PROVE atClose(how) \in Exits(EvaluatorHows)
  <2>1. b.close \in Int /\ Wins(q, b.close) \in BOOLEAN
    BY <1>1, ExitTypes
  <2> HIDE DEF q
  <2> QED
    BY <1>1, <2>1, ClosedType
<1>5. Open \in Exits(EvaluatorHows)
  BY DEF Exits
<1>6. EvaluatorExits(p, b) \subseteq
        {stop, target, atClose("timeout"), atClose("exit_signal"), atClose("end_of_data"),
         atClose("max_bars"), Open}
  <2> DEFINE last == IF setup.bars <= MaxBars THEN "end_of_data" ELSE "max_bars"
  <2>1. atClose(last) \in {atClose("end_of_data"), atClose("max_bars")}
    OBVIOUS
  <2>2. EvaluatorExits(p, b) \in
          {{stop, target}, {stop}, {target}, {atClose("timeout")}, {atClose("exit_signal")},
           {atClose(last)}, {Open}}
    BY DEF EvaluatorExits
  <2> HIDE DEF stop, target, atClose, last, Open
  <2> QED
    BY <2>1, <2>2
<1>7. /\ atClose("timeout") \in Exits(EvaluatorHows)
      /\ atClose("exit_signal") \in Exits(EvaluatorHows)
      /\ atClose("end_of_data") \in Exits(EvaluatorHows)
      /\ atClose("max_bars") \in Exits(EvaluatorHows)
  BY <1>4 DEF EvaluatorHows
<1> HIDE DEF stop, target, atClose, Open
<1> QED
  BY <1>2, <1>3, <1>5, <1>6, <1>7

-----------------------------------------------------------------------------
(* The invariant of types and horizon, and the steps of the stops. *)

TradeInv == TradeTypeOK /\ PositionOK(trade) /\ PositionOK(label)

\* The evaluator's bar.
LEMMA EvaluatorBarFacts ==
    ASSUME TradeInv, NEW b \in Bar, EvaluatorBar(b)
    PROVE  /\ PositionOK(trade') /\ tradeExit' \in Exits(EvaluatorHows)
           /\ ~IsBetter(trade.sl, trade'.sl)
<1> DEFINE q == ScaledIn(trade, b)
<1>1. PositionOK(q) /\ q.sl = trade.sl
  BY ScaledInFacts DEF TradeInv
<1>2. trade.sl \in Int /\ q.sl \in Int /\ d \in {1, -1}
  BY <1>1 DEF TradeInv, TradeTypeOK, PositionOK, Position
<1>3. ~IsBetter(trade.sl, trade.sl)
  BY <1>2 DEF IsBetter
<1>4. CASE tradeExit # Open
  BY <1>3, <1>4 DEF EvaluatorBar, TradeInv, TradeTypeOK, EvaluatorHows
<1>5. CASE tradeExit = Open
  <2>1. tradeExit' \in EvaluatorExits(trade, b)
    BY <1>5 DEF EvaluatorBar
  <2>2. tradeExit' \in Exits(EvaluatorHows)
    BY <2>1, EvaluatorExitFacts DEF TradeInv
  <2>3. trade' \in {trade, q, [TrailAfter(q, b, 0) EXCEPT !.counted = @ + 1],
                    [q EXCEPT !.counted = @ + 1]}
    BY <1>5 DEF EvaluatorBar
  <2> HIDE DEF q
  <2>4. PositionOK([q EXCEPT !.counted = @ + 1]) /\ [q EXCEPT !.counted = @ + 1].sl = trade.sl
    BY <1>1, CountedFacts
  <2>5. PositionOK(TrailAfter(q, b, 0)) /\ ~IsBetter(q.sl, TrailAfter(q, b, 0).sl)
    BY <1>1, TrailAfterFacts DEF TradeInv
  <2>6. /\ PositionOK([TrailAfter(q, b, 0) EXCEPT !.counted = @ + 1])
        /\ [TrailAfter(q, b, 0) EXCEPT !.counted = @ + 1].sl = TrailAfter(q, b, 0).sl
    BY <2>5, CountedFacts
  <2> QED
    BY <1>1, <1>3, <2>2, <2>3, <2>4, <2>5, <2>6 DEF TradeInv
<1> QED
  BY <1>4, <1>5

\* The kernel's bar.
LEMMA KernelBarFacts ==
    ASSUME TradeInv, NEW b \in Bar, KernelBar(b)
    PROVE  /\ PositionOK(label') /\ labelExit' \in Exits(KernelHows)
           /\ ~IsBetter(label.sl, label'.sl)
<1> DEFINE q == ScaledIn(label, b)
<1>1. PositionOK(q) /\ q.sl = label.sl
  BY ScaledInFacts DEF TradeInv
<1>2. label.sl \in Int /\ d \in {1, -1} /\ setup.trailTp \in Nat
  BY SetupTypes DEF TradeInv, TradeTypeOK, PositionOK, Position
<1>3. ~IsBetter(label.sl, label.sl)
  BY <1>2 DEF IsBetter
<1>4. CASE labelExit # Open \/ setup.delay = 0
  BY <1>3, <1>4 DEF KernelBar, TradeInv, TradeTypeOK, KernelHows
<1>5. CASE ~(labelExit # Open \/ setup.delay = 0)
  <2>1. labelExit' = KernelExit(label, b)
    BY <1>5 DEF KernelBar
  <2>2. labelExit' \in Exits(KernelHows)
    BY <2>1, KernelExitFacts DEF TradeInv
  <2>3. label' \in {label, [TrailAfter(q, b, setup.trailTp) EXCEPT !.counted = @ + 1]}
    BY <1>5 DEF KernelBar
  <2> HIDE DEF q
  <2>4. /\ PositionOK(TrailAfter(q, b, setup.trailTp))
        /\ ~IsBetter(q.sl, TrailAfter(q, b, setup.trailTp).sl)
    BY <1>1, <1>2, TrailAfterFacts DEF TradeInv
  <2>5. /\ PositionOK([TrailAfter(q, b, setup.trailTp) EXCEPT !.counted = @ + 1])
        /\ [TrailAfter(q, b, setup.trailTp) EXCEPT !.counted = @ + 1].sl
              = TrailAfter(q, b, setup.trailTp).sl
    BY <2>4, CountedFacts
  <2> QED
    BY <1>1, <1>3, <2>2, <2>3, <2>4, <2>5 DEF TradeInv
<1> QED
  BY <1>4, <1>5

\* The constants of a run stay what they are.
LEMMA TradeInitInv == TradeInit => TradeInv
<1> SUFFICES ASSUME TradeInit PROVE TradeInv
  OBVIOUS
<1>1. /\ setup \in Setups /\ d \in {1, -1} /\ bar = 0
  BY DEF TradeInit
<1>2. 0 \in 0..Last
  BY <1>1, SetupTypes, TradeAssumption DEF Last, Lesser
<1>3. ASSUME NEW trailing \in BOOLEAN
      PROVE  Opened(trailing) \in Position /\ Opened(trailing).filled \in SUBSET setup.levels
  <2>1. /\ Entry \in Int /\ Entry - d * SlDistance \in Int /\ Entry + d * TpDistance \in Int
    BY <1>1, TradeAssumption DEF Entry
  <2> QED
    BY <2>1 DEF Opened, Position
<1>4. /\ (setup.breakeven = 0 /\ setup.trail > 0) \in BOOLEAN
      /\ (setup.breakeven = 0) \in BOOLEAN
  OBVIOUS
<1>5. PositionOK(trade) /\ PositionOK(label)
  BY <1>3, <1>4 DEF TradeInit, PositionOK
<1>6. tradeExit = Open /\ labelExit = Open
  BY DEF TradeInit
<1> QED
  BY <1>1, <1>2, <1>5, <1>6 DEF TradeInv, TradeTypeOK, PositionOK, Exits

\* Every bar keeps the invariant.
LEMMA StepInv == TradeInv /\ [NextBar]_tradeVars => TradeInv'
<1> SUFFICES ASSUME TradeInv, [NextBar]_tradeVars PROVE TradeInv'
  OBVIOUS
<1>1. CASE NextBar
  <2>1. PICK b \in Bar : EvaluatorBar(b) /\ KernelBar(b)
    BY <1>1 DEF NextBar
  <2>2. /\ PositionOK(trade') /\ tradeExit' \in Exits(EvaluatorHows)
        /\ PositionOK(label') /\ labelExit' \in Exits(KernelHows)
    BY <2>1, EvaluatorBarFacts, KernelBarFacts
  <2>3. Last \in Nat /\ Last' = Last
    BY <1>1, SetupTypes, TradeAssumption DEF TradeInv, TradeTypeOK, Last, Lesser, NextBar
  <2>4. bar' \in 0..Last'
    BY <1>1, <2>3 DEF TradeInv, TradeTypeOK, NextBar
  <2> QED
    BY <1>1, <2>2, <2>4
    DEF TradeInv, TradeTypeOK, PositionOK, NextBar, EvaluatorHows, KernelHows
<1>2. CASE UNCHANGED tradeVars
  BY <1>2 DEF tradeVars, TradeInv, TradeTypeOK, PositionOK, Last, Lesser, Exits, Open, Position
<1> QED
  BY <1>1, <1>2

\* The invariant holds in every state of a run.
LEMMA TradeInvHolds == TradeSpec => []TradeInv
BY TradeInitInv, StepInv, PTL DEF TradeSpec

\* Positions and exits keep their types.
THEOREM TradeTypeSafety == TradeSpec => []TradeTypeOK
<1>1. TradeInv => TradeTypeOK
  BY DEF TradeInv
<1> QED
  BY TradeInvHolds, <1>1, PTL

\* No bar moves a stop away from the price, by trailing, break-even or scaling in.
THEOREM StopSafety == TradeSpec => StopOnlyTightens
<1>1. TradeInv /\ [NextBar]_tradeVars
        => [~IsBetter(trade.sl, trade'.sl) /\ ~IsBetter(label.sl, label'.sl)]_tradeVars
  <2> SUFFICES ASSUME TradeInv, NextBar
               PROVE  ~IsBetter(trade.sl, trade'.sl) /\ ~IsBetter(label.sl, label'.sl)
    OBVIOUS
  <2> QED
    BY EvaluatorBarFacts, KernelBarFacts DEF NextBar
<1> QED
  BY TradeInvHolds, <1>1, PTL DEF TradeSpec, StopOnlyTightens

\* What is needed of the numbers of bars.
LEMMA Horizons ==
    ASSUME TradeTypeOK
    PROVE  /\ bar \in Nat /\ Last \in Nat /\ Last <= MaxBars /\ Last <= setup.bars
           /\ MaxBars \in Nat /\ setup.bars \in Nat /\ setup.timeout \in Nat
           /\ Horizon = IF setup.timeout > 0 /\ ~SessionKernel
                         THEN Lesser(MaxBars, setup.timeout) ELSE MaxBars
BY SetupTypes, TradeAssumption DEF TradeTypeOK, Last, Lesser, Horizon

\* A label ends before its horizon.
THEOREM HorizonSafety == TradeSpec => []LabelWithinHorizon
<1>1. TradeInit => LabelWithinHorizon
  <2> SUFFICES ASSUME TradeInit PROVE LabelWithinHorizon
    OBVIOUS
  <2>1. TradeTypeOK /\ bar = 0 /\ labelExit = Open
    BY TradeInitInv DEF TradeInit, TradeInv
  <2>2. MaxBars > 0
    BY TradeAssumption
  <2> QED
    BY <2>1, <2>2, Horizons DEF LabelWithinHorizon, Lesser
<1>2. LabelWithinHorizon /\ TradeInv /\ [NextBar]_tradeVars => LabelWithinHorizon'
  <2> SUFFICES ASSUME LabelWithinHorizon, TradeInv, [NextBar]_tradeVars PROVE LabelWithinHorizon'
    OBVIOUS
  <2>1. CASE NextBar
    <3>1. PICK b \in Bar : KernelBar(b)
      BY <2>1 DEF NextBar
    <3>2. /\ bar' = bar + 1 /\ bar < Last /\ setup' = setup /\ Last' = Last
          /\ Horizon' = Horizon
      BY <2>1 DEF NextBar, Last, Lesser, Horizon, SessionKernel
    <3>3. TradeTypeOK /\ bar \in Nat
      BY Horizons DEF TradeInv
    <3>4. CASE labelExit # Open \/ setup.delay = 0
      <4>1. labelExit' = labelExit
        BY <3>1, <3>4 DEF KernelBar
      <4>2. labelExit # Open => labelExit.at < Horizon
        BY DEF LabelWithinHorizon
      <4>3. setup.delay = 1 => labelExit # Open
        BY <3>4
      <4> HIDE DEF Open
      <4> QED
        BY <3>2, <4>1, <4>2, <4>3 DEF LabelWithinHorizon
    <3>5. CASE ~(labelExit # Open \/ setup.delay = 0)
      <4>1. labelExit' = KernelExit(label, b) /\ labelExit = Open /\ setup.delay = 1
        BY <3>1, <3>3, <3>5, SetupTypes DEF KernelBar, TradeTypeOK
      <4>2. bar < Horizon
        BY <3>2, <3>3, <4>1, Horizons DEF LabelWithinHorizon
      <4>3. labelExit' # Open => labelExit'.at = bar
        BY <3>3, <4>1, KernelExitFacts DEF TradeInv
      <4>4. ASSUME labelExit' = Open PROVE bar + 1 < Horizon \/ bar + 1 = Last
        <5>1. CASE setup.timeout > 0 /\ ~SessionKernel
          <6>1. ~(bar >= Lesser(setup.timeout - 1, setup.bars - 1))
            <7>1. KernelCounts(b) /\ ~KernelTimeout(label)
              BY <4>1, <4>4, <5>1
              DEF KernelExit, KernelCounts, Closed, Open
            <7> QED
              BY <5>1, <7>1 DEF KernelTimeout
          <6>2. bar + 1 < setup.timeout
            BY <3>3, <6>1, Horizons DEF Lesser
          <6> QED
            BY <3>2, <3>3, <5>1, <6>2, Horizons DEF Lesser
        <5>2. CASE ~(setup.timeout > 0 /\ ~SessionKernel)
          BY <3>2, <3>3, <5>2, Horizons
        <5> QED
          BY <5>1, <5>2
      <4> HIDE DEF Open
      <4> QED
        BY <3>2, <4>2, <4>3, <4>4 DEF LabelWithinHorizon
    <3> QED
      BY <3>4, <3>5
  <2>2. CASE UNCHANGED tradeVars
    BY <2>2 DEF tradeVars, LabelWithinHorizon, Last, Lesser, Horizon, SessionKernel, Open
  <2> QED
    BY <2>1, <2>2
<1> QED
  BY TradeInvHolds, <1>1, <1>2, PTL DEF TradeSpec

-----------------------------------------------------------------------------
(* The label is the trade. *)

TargetAtAverage(p) == p.tp = Avg(p.filled) + d * TpDistance

\* Both are open and hold the same position.
SamePosition ==
    /\ trade.sl = label.sl /\ trade.tp = label.tp /\ trade.filled = label.filled
    /\ trade.counted = label.counted
    /\ setup.breakeven > 0 \/ setup.trail > 0 => trade = label
    /\ TargetAtAverage(trade)
    /\ ~setup.session => trade.counted = bar

\* The data, or the bars that are simulated, end before the label does.
OnlyTradeEnds ==
    tradeExit.how \in {"end_of_data", "max_bars"} /\ labelExit = Open /\ bar = Last

\* Of two levels in one bar, sub-hourly data may show the evaluator the target first.
TradeWinsOnly(e, k) == setup.subHourly /\ e # Open /\ e.win /\ k # Open

Agree ==
    SameRules =>
        \/ tradeExit = Open /\ labelExit = Open /\ SamePosition
        \/ SameEnd(labelExit, tradeExit)
        \/ TradeWinsOnly(tradeExit, labelExit)
        \/ tradeExit # Open /\ OnlyTradeEnds

\* How the exits of evaluator and kernel on bar b may go together.
ExitsMatch(e, k, b) ==
    \/ e = Open /\ k = Open /\ Counts(b) = KernelCounts(b)
    \/ SameEnd(k, e)
    \/ TradeWinsOnly(e, k)
    \/ e # Open /\ e.how \in {"end_of_data", "max_bars"} /\ k = Open /\ bar + 1 = Last

\* A closed position is not an open one.
LEMMA ClosedNotOpen ==
    ASSUME NEW p, NEW price, NEW win, NEW how \in EvaluatorHows
    PROVE  /\ Closed(how, p, price, win) # Open
           /\ Closed(how, p, price, win).how = how
BY DEF Closed, Open, EvaluatorHows

\* Exits of positions with the same fills differ by their reason only.
LEMMA SameClosed ==
    ASSUME NEW p, NEW q, p.filled = q.filled, NEW h \in EvaluatorHows, NEW g \in EvaluatorHows,
           NEW price, NEW win, NEW b
    PROVE  ExitsMatch(Closed(h, p, price, win), Closed(g, q, price, win), b)
<1>1. Avg(p.filled) = Avg(q.filled) /\ Qty(p.filled) = Qty(q.filled)
  OBVIOUS
<1>2. /\ Closed(h, p, price, win) # Open /\ Closed(g, q, price, win) # Open
  BY ClosedNotOpen
<1> QED
  BY <1>1, <1>2 DEF ExitsMatch, SameEnd, Closed

\* A target the distance above the average is a win.
LEMMA TargetWins ==
    ASSUME TradeTypeOK, NEW p, PositionOK(p), TargetAtAverage(p)
    PROVE  Wins(p, p.tp) = TRUE
<1>1. Avg(p.filled) \in Int /\ p.tp = Avg(p.filled) + d * TpDistance
  BY AvgType DEF PositionOK, TargetAtAverage
<1>2. d \in {1, -1} /\ TpDistance \in Nat \ {0}
  BY TradeAssumption DEF TradeTypeOK
<1>3. d * (p.tp - Avg(p.filled)) > 0
  <2>1. CASE d = 1
    BY <1>1, <1>2, <2>1
  <2>2. CASE d = -1
    BY <1>1, <1>2, <2>2
  <2> QED
    BY <1>2, <2>1, <2>2
<1> QED
  BY <1>3 DEF Wins

\* Scaling in puts the target at its distance from the new average.
LEMMA ScaledInTarget ==
    ASSUME TradeTypeOK, NEW p, PositionOK(p), TargetAtAverage(p), NEW b \in Bar
    PROVE  TargetAtAverage(ScaledIn(p, b))
<1> DEFINE filled == p.filled \cup Fills(p, b)
           target == Avg(filled) + d * TpDistance
<1>1. CASE Fills(p, b) = {}
  BY <1>1 DEF ScaledIn
<1>2. CASE Fills(p, b) # {}
  <2>1. ScaledIn(p, b) = [p EXCEPT !.filled = filled, !.tp = target]
    BY <1>2 DEF ScaledIn
  <2>2. target = Avg(filled) + d * TpDistance
    OBVIOUS
  <2> HIDE DEF filled, target
  <2>3. ScaledIn(p, b).tp = target /\ ScaledIn(p, b).filled = filled
    BY <2>1 DEF PositionOK, Position
  <2> QED
    BY <2>2, <2>3 DEF TargetAtAverage
<1> QED
  BY <1>1, <1>2

\* Scaling in does the same to positions with the same stop, target and fills.
LEMMA ScaledInSame ==
    ASSUME TradeTypeOK, NEW p, PositionOK(p), NEW q, PositionOK(q), NEW b \in Bar,
           p.sl = q.sl, p.tp = q.tp, p.filled = q.filled
    PROVE  /\ ScaledIn(p, b).sl = ScaledIn(q, b).sl
           /\ ScaledIn(p, b).tp = ScaledIn(q, b).tp
           /\ ScaledIn(p, b).filled = ScaledIn(q, b).filled
<1>1. Fills(p, b) = Fills(q, b)
  BY DEF Fills
<1> DEFINE filled == p.filled \cup Fills(p, b)
           target == Avg(filled) + d * TpDistance
<1>2. CASE Fills(p, b) = {}
  BY <1>1, <1>2 DEF ScaledIn
<1>3. CASE Fills(p, b) # {}
  <2>1. /\ ScaledIn(p, b) = [p EXCEPT !.filled = filled, !.tp = target]
        /\ ScaledIn(q, b) = [q EXCEPT !.filled = filled, !.tp = target]
    BY <1>1, <1>3 DEF ScaledIn
  <2> HIDE DEF filled, target
  <2> QED
    BY <2>1 DEF PositionOK, Position
<1> QED
  BY <1>2, <1>3

\* Without break-even, trailing and trailing target a bar moves no level.
LEMMA TrailAfterIdle ==
    ASSUME NEW p, PositionOK(p), NEW b, setup.breakeven = 0, setup.trail = 0
    PROVE  /\ TrailAfter(p, b, 0).sl = p.sl /\ TrailAfter(p, b, 0).tp = p.tp
           /\ TrailAfter(p, b, 0).filled = p.filled
           /\ TrailAfter(p, b, 0).counted = p.counted
<1> DEFINE best == Better(p.best, Favorable(b))
           on   == p.trailing \/ (~p.trailing /\ setup.breakeven > 0
                     /\ ~IsBetter(Avg(p.filled) + d * setup.breakeven, best))
<1>1. /\ ~(setup.breakeven > 0) /\ ~(setup.trail > 0) /\ ~(0 > 0)
  OBVIOUS
<1>2. TrailAfter(p, b, 0) = [p EXCEPT !.best = best, !.trailing = on, !.sl = p.sl, !.tp = p.tp]
  BY <1>1 DEF TrailAfter
<1> HIDE DEF best, on
<1> QED
  BY <1>2 DEF PositionOK, Position

\* Nor does any bar move the target of a trade, whose target does not trail.
LEMMA TrailAfterTarget ==
    ASSUME NEW p, PositionOK(p), NEW b, TargetAtAverage(p)
    PROVE  TargetAtAverage(TrailAfter(p, b, 0))
<1>1. ~(0 > 0)
  OBVIOUS
<1>2. TrailAfter(p, b, 0).tp = p.tp /\ TrailAfter(p, b, 0).filled = p.filled
  BY <1>1 DEF TrailAfter, PositionOK, Position
<1> QED
  BY <1>2 DEF TargetAtAverage

\* A bar on which no trade is open changes nothing.
LEMMA AgreeClosed ==
    ASSUME TradeInv, Agree, SameRules, tradeExit # Open, NextBar
    PROVE  FALSE
<1>1. setup.delay = 1 /\ bar < Last
  BY DEF SameRules, NextBar
<1>2. labelExit = Open
  BY DEF NextBar
<1>3. OnlyTradeEnds
  BY <1>2 DEF Agree, SameEnd, TradeWinsOnly
<1>4. bar \in Nat /\ Last \in Nat
  BY Horizons DEF TradeInv
<1> QED
  BY <1>1, <1>3, <1>4 DEF OnlyTradeEnds

\* On the same bar, both exit alike or neither does, except at the end of the data.
LEMMA ExitsAgree ==
    ASSUME TradeInv, SameRules, SamePosition, bar < Last, NEW b \in Bar, MayFollow(b),
           NEW e \in EvaluatorExits(trade, b)
    PROVE  ExitsMatch(e, KernelExit(label, b), b)
<1> DEFINE q == ScaledIn(trade, b)
           r == ScaledIn(label, b)
           k == KernelExit(label, b)
           fill == StopFill(trade, b)
           last == IF setup.bars <= MaxBars THEN "end_of_data" ELSE "max_bars"
<1>1. /\ TradeTypeOK /\ PositionOK(trade) /\ PositionOK(label)
      /\ trade.sl = label.sl /\ trade.tp = label.tp /\ trade.filled = label.filled
      /\ trade.counted = label.counted /\ trade.counted \in Nat
      /\ ~setup.session => trade.counted = bar
  BY DEF TradeInv, SamePosition, PositionOK, Position
<1>2. /\ Counts(b) = KernelCounts(b) /\ Counts(b) \in BOOLEAN
      /\ setup.session = SessionKernel
      /\ ~SessionKernel => Counts(b)
  BY <1>1, SetupTypes, BarTypes
  DEF SameRules, Counts, KernelCounts, SessionKernel, TradeTypeOK
<1>3. q.filled = r.filled
  BY <1>1, ScaledInSame
<1>4. /\ SlHit(trade, b) = SlHit(label, b) /\ TpHit(trade, b) = TpHit(label, b)
      /\ fill = StopFill(label, b)
  BY <1>1 DEF SlHit, TpHit, StopFill
<1>5. ~b.rule
  BY DEF MayFollow, SameRules
<1>6. \A price : Wins(q, price) = Wins(r, price)
  BY <1>3 DEF Wins
<1>7. /\ setup.timeout \in Nat /\ setup.bars \in Nat /\ bar \in Nat /\ Last \in Nat
      /\ Last <= setup.bars
  BY <1>1, Horizons
<1>8. CASE Counts(b) /\ SlHit(trade, b)
  <2> DEFINE stop   == Closed("sl", q, fill, Wins(q, fill))
             target == Closed("tp", trade, trade.tp, TRUE)
  <2>1. \/ e = stop
        \/ setup.subHourly /\ e = target
    <3>1. Wins(trade, trade.tp) = TRUE
      BY <1>1, TargetWins DEF SamePosition
    <3> QED
      BY <1>8, <3>1 DEF EvaluatorExits
  <2>2. k = Closed("sl", r, fill, Wins(q, fill))
    BY <1>2, <1>4, <1>6, <1>8 DEF KernelExit
  <2> HIDE DEF q, r, fill, k
  <2>3. {"sl", "tp"} \subseteq EvaluatorHows
    BY DEF EvaluatorHows
  <2>4. CASE e = stop
    BY <1>3, <2>2, <2>3, <2>4, SameClosed DEF k
  <2>5. CASE setup.subHourly /\ e = target
    <3>1. e # Open /\ k # Open
      <4>1. \A h \in EvaluatorHows : \A p, price, win : Closed(h, p, price, win) # Open
        BY ClosedNotOpen
      <4> QED
        BY <2>2, <2>3, <2>5, <4>1
    <3>2. e.win = TRUE
      BY <2>5 DEF Closed
    <3> QED
      BY <2>5, <3>1, <3>2 DEF ExitsMatch, TradeWinsOnly, k
  <2> QED
    BY <2>1, <2>4, <2>5
<1>9. CASE Counts(b) /\ ~SlHit(trade, b) /\ TpHit(trade, b)
  <2>1. e = Closed("tp", trade, trade.tp, TRUE)
    <3>1. Wins(trade, trade.tp) = TRUE
      BY <1>1, TargetWins DEF SamePosition
    <3> QED
      BY <1>9, <3>1 DEF EvaluatorExits
  <2>2. k = Closed("tp", label, trade.tp, TRUE)
    BY <1>1, <1>2, <1>4, <1>9 DEF KernelExit
  <2> HIDE DEF k
  <2>3. "tp" \in EvaluatorHows
    BY DEF EvaluatorHows
  <2> QED
    BY <1>1, <2>1, <2>2, <2>3, SameClosed DEF k
<1>10. CASE Counts(b) /\ ~SlHit(trade, b) /\ ~TpHit(trade, b)
  <2>1. KernelCounts(b) /\ ~SlHit(label, b) /\ ~TpHit(label, b)
    BY <1>2, <1>4, <1>10
  <2>2. k = IF KernelTimeout(label) THEN Closed("timeout", r, b.close, Wins(q, b.close)) ELSE Open
    BY <1>6, <2>1 DEF KernelExit
  <2> DEFINE times == setup.timeout > 0 /\ trade.counted + 1 >= setup.timeout
  <2>3. e = IF times THEN Closed("timeout", q, b.close, Wins(q, b.close))
            ELSE IF bar + 1 = Last THEN Closed(last, q, b.close, Wins(q, b.close)) ELSE Open
    BY <1>5, <1>10 DEF EvaluatorExits
  <2>4. times => KernelTimeout(label)
    BY <1>1, <1>2, <1>7 DEF KernelTimeout, Lesser
  <2>5. KernelTimeout(label) /\ ~times => bar + 1 = Last
    BY <1>1, <1>2, <1>7 DEF KernelTimeout, Lesser
  <2>6. {"timeout", last} \subseteq EvaluatorHows /\ last \in {"end_of_data", "max_bars"}
    BY DEF EvaluatorHows
  <2> HIDE DEF q, r, k, times, last
  <2>7. CASE times
    <3>1. /\ e = Closed("timeout", q, b.close, Wins(q, b.close))
          /\ k = Closed("timeout", r, b.close, Wins(q, b.close))
      BY <2>2, <2>3, <2>4, <2>7
    <3> QED
      BY <1>3, <2>6, <3>1, SameClosed DEF k
  <2>8. CASE ~times /\ KernelTimeout(label)
    <3>1. /\ e = Closed(last, q, b.close, Wins(q, b.close))
          /\ k = Closed("timeout", r, b.close, Wins(q, b.close))
      BY <2>2, <2>3, <2>5, <2>8
    <3> QED
      BY <1>3, <2>6, <3>1, SameClosed DEF k
  <2>9. CASE ~times /\ ~KernelTimeout(label)
    <3>1. /\ k = Open
          /\ e = IF bar + 1 = Last THEN Closed(last, q, b.close, Wins(q, b.close)) ELSE Open
      BY <2>2, <2>3, <2>9
    <3> QED
      BY <1>2, <2>6, <3>1, ClosedNotOpen DEF k, ExitsMatch
  <2> QED
    BY <2>7, <2>8, <2>9
<1>11. CASE ~Counts(b)
  <2>1. k = Open
    BY <1>2, <1>11 DEF KernelExit
  <2>2. e = IF bar + 1 = Last THEN Closed(last, q, b.close, Wins(q, b.close)) ELSE Open
    BY <1>5, <1>11 DEF EvaluatorExits
  <2>3. last \in EvaluatorHows /\ last \in {"end_of_data", "max_bars"}
    BY DEF EvaluatorHows
  <2> HIDE DEF q, k, last
  <2> QED
    BY <1>2, <2>1, <2>2, <2>3, ClosedNotOpen DEF k, ExitsMatch
<1> QED
  BY <1>2, <1>8, <1>9, <1>10, <1>11

\* A bar on which both stay open leaves them at the same position.
LEMMA PositionsAgree ==
    ASSUME TradeInv, SameRules, SamePosition, tradeExit = Open, labelExit = Open,
           NEW b \in Bar, EvaluatorBar(b), KernelBar(b), Counts(b) = KernelCounts(b),
           tradeExit' = Open, labelExit' = Open, setup' = setup, d' = d, bar' = bar + 1
    PROVE  SamePosition'
<1> DEFINE q == ScaledIn(trade, b)
           r == ScaledIn(label, b)
           moving == setup.breakeven > 0 \/ setup.trail > 0
<1>1. /\ TradeTypeOK /\ PositionOK(trade) /\ PositionOK(label)
      /\ trade.sl = label.sl /\ trade.tp = label.tp /\ trade.filled = label.filled
      /\ trade.counted = label.counted /\ TargetAtAverage(trade)
      /\ setup.trailTp = 0 /\ setup.delay = 1
      /\ setup.breakeven \in Nat /\ setup.trail \in Nat /\ setup.session \in BOOLEAN
  BY SetupTypes DEF TradeInv, SamePosition, TradeTypeOK, SameRules
<1>2. /\ PositionOK(q) /\ PositionOK(r) /\ TargetAtAverage(q)
      /\ q.sl = r.sl /\ q.tp = r.tp /\ q.filled = r.filled
      /\ q.counted = r.counted /\ q.counted = trade.counted
  BY <1>1, ScaledInFacts, ScaledInSame, ScaledInTarget
<1>3. moving => q = r
  BY DEF SamePosition
<1>4. CASE ~Counts(b)
  <2>1. trade' = q /\ label' = label
    BY <1>1, <1>4 DEF EvaluatorBar, KernelBar
  <2>2. setup.session /\ setup.levels = {} /\ ~moving
    BY <1>1, <1>4 DEF Counts, SameRules, SessionKernel
  <2>3. q = trade
    BY <2>2 DEF ScaledIn, Fills
  <2> HIDE DEF q
  <2> QED
    BY <1>1, <2>1, <2>2, <2>3
    DEF SamePosition, TargetAtAverage, Avg, Entry, Qty
<1>5. CASE Counts(b)
  <2>1. /\ trade' = IF moving THEN [TrailAfter(q, b, 0) EXCEPT !.counted = @ + 1]
                    ELSE [q EXCEPT !.counted = @ + 1]
        /\ label' = [TrailAfter(r, b, 0) EXCEPT !.counted = @ + 1]
    BY <1>1, <1>5 DEF EvaluatorBar, KernelBar
  <2>2. ~setup.session => trade.counted = bar
    BY DEF SamePosition
  <2>3. PositionOK(TrailAfter(q, b, 0)) /\ PositionOK(TrailAfter(r, b, 0))
        /\ TrailAfter(q, b, 0).counted = q.counted
    <3> HIDE DEF q, r
    <3>1. 0 \in Nat
      OBVIOUS
    <3> QED
      BY <1>1, <1>2, <3>1, TrailAfterFacts
  <2>4. TargetAtAverage(TrailAfter(q, b, 0))
    BY <1>2, TrailAfterTarget
  <2> DEFINE t == TrailAfter(q, b, 0)
             u == TrailAfter(r, b, 0)
  <2>5. CASE moving
    <3>1. trade' = [t EXCEPT !.counted = @ + 1] /\ label' = trade'
      BY <1>3, <2>1, <2>5
    <3> HIDE DEF t, q, moving
    <3>2. /\ trade'.counted = t.counted + 1 /\ trade'.tp = t.tp /\ trade'.filled = t.filled
      BY <2>3, <3>1 DEF PositionOK, Position, t
    <3>3. t.tp = Avg(t.filled) + d * TpDistance
      BY <2>4 DEF TargetAtAverage, t
    <3>4. TargetAtAverage(trade)'
      BY <3>2, <3>3 DEF TargetAtAverage, Avg, Entry, Qty
    <3> QED
      BY <1>2, <2>2, <2>3, <3>1, <3>2, <3>4 DEF SamePosition, t
  <2>6. CASE ~moving
    <3>1. trade' = [q EXCEPT !.counted = @ + 1] /\ label' = [u EXCEPT !.counted = @ + 1]
      BY <2>1, <2>6
    <3>2. setup.breakeven = 0 /\ setup.trail = 0
      BY <1>1, <2>6
    <3> HIDE DEF q, r
    <3>3. u.sl = r.sl /\ u.tp = r.tp /\ u.filled = r.filled /\ u.counted = r.counted
      BY <1>2, <3>2, TrailAfterIdle
    <3> HIDE DEF u
    <3>4. /\ trade'.sl = q.sl /\ trade'.tp = q.tp /\ trade'.filled = q.filled
          /\ trade'.counted = q.counted + 1
      BY <1>2, <3>1 DEF PositionOK, Position
    <3>5. /\ label'.sl = u.sl /\ label'.tp = u.tp /\ label'.filled = u.filled
          /\ label'.counted = u.counted + 1
      BY <2>3, <3>1 DEF PositionOK, Position, u
    <3>6. TargetAtAverage(trade)'
      BY <1>2, <3>4 DEF TargetAtAverage, Avg, Entry, Qty
    <3>7. ~(setup'.breakeven > 0 \/ setup'.trail > 0)
      BY <3>2
    <3>8. /\ trade'.sl = label'.sl /\ trade'.tp = label'.tp /\ trade'.filled = label'.filled
          /\ trade'.counted = label'.counted
      BY <1>2, <3>3, <3>4, <3>5
    <3>9. ~setup'.session => trade'.counted = bar'
      BY <1>2, <2>2, <3>4
    <3> QED
      BY <3>6, <3>7, <3>8, <3>9 DEF SamePosition
  <2> QED
    BY <2>5, <2>6
<1> QED
  BY <1>4, <1>5

\* No fills sum up to nothing.
LEMMA EmptySum == SumSet({}) = 0
<1> DEFINE sums(g) == [s \in SUBSET {} |->
                         IF s = {} THEN 0
                         ELSE LET x == CHOOSE x \in s : TRUE IN x + g[s \ {x}]]
           iter == CHOOSE g : g = sums(g)
<1>1. SumSet({}) = iter[{}]
  BY DEF SumSet, FoldSet, MapThenFoldSet
<1>2. [s \in SUBSET {} |-> 0] = sums([s \in SUBSET {} |-> 0])
  OBVIOUS
<1>3. iter = sums(iter)
  BY <1>2
<1> HIDE DEF iter
<1>4. sums(iter)[{}] = 0
  OBVIOUS
<1> QED
  BY <1>1, <1>3, <1>4

\* Before the first bar both hold the same position.
LEMMA InitAgree == TradeInit => Agree
<1> SUFFICES ASSUME TradeInit PROVE Agree
  OBVIOUS
<1>1. TradeInv
  BY TradeInitInv
<1>2. setup.breakeven \in Nat /\ setup.trail \in Nat
  BY <1>1, SetupTypes DEF TradeInv, TradeTypeOK
<1>3. TargetAtAverage(trade)
  <2>1. SumSet({}) \div Qty({}) = 0 /\ Entry \in Int /\ d \in Int
    <3>1. Qty({}) = 1
      BY FS_EmptySet DEF Qty
    <3>2. 0 \div 1 = 0
      OBVIOUS
    <3> QED
      BY <1>1, <3>1, <3>2, EmptySum, TradeAssumption DEF TradeInv, TradeTypeOK, Entry
  <2>2. Avg({}) = Entry
    <3>1. Avg({}) = Entry - d * (SumSet({}) \div Qty({}))
      BY DEF Avg
    <3> QED
      BY <2>1, <3>1
  <2>3. trade.tp = Entry + d * TpDistance /\ trade.filled = {}
    BY DEF TradeInit, Opened
  <2> QED
    BY <2>2, <2>3 DEF TargetAtAverage
<1>4. /\ trade.sl = label.sl /\ trade.tp = label.tp /\ trade.filled = label.filled
      /\ trade.counted = label.counted /\ trade.counted = bar
  BY DEF TradeInit, Opened
<1>5. setup.breakeven > 0 \/ setup.trail > 0 => trade = label
  <2>1. CASE setup.breakeven > 0
    <3>1. setup.breakeven # 0
      BY <1>2, <2>1
    <3> QED
      BY <3>1 DEF TradeInit
  <2>2. CASE setup.breakeven = 0 /\ setup.trail > 0
    BY <2>2 DEF TradeInit
  <2> QED
    BY <1>2, <2>1, <2>2
<1> QED
  BY <1>3, <1>4, <1>5 DEF TradeInit, Agree, SamePosition

\* Every bar keeps the two together.
LEMMA StepAgree == TradeInv /\ Agree /\ [NextBar]_tradeVars => Agree'
<1> SUFFICES ASSUME TradeInv, Agree, [NextBar]_tradeVars PROVE Agree'
  OBVIOUS
<1>1. CASE UNCHANGED tradeVars
  BY <1>1 DEF tradeVars, Agree, SameRules, SessionKernel, SamePosition, TargetAtAverage,
     Avg, Entry, Qty, SameEnd, TradeWinsOnly, Open, OnlyTradeEnds, Last
<1>2. CASE NextBar
  <2>1. PICK b \in Bar : MayFollow(b) /\ EvaluatorBar(b) /\ KernelBar(b)
    BY <1>2 DEF NextBar
  <2>2. /\ setup' = setup /\ d' = d /\ bar' = bar + 1 /\ bar < Last /\ Last' = Last
        /\ SameRules' = SameRules
    BY <1>2 DEF NextBar, Last, SameRules, SessionKernel
  <2> SUFFICES ASSUME SameRules
               PROVE  \/ tradeExit' = Open /\ labelExit' = Open /\ SamePosition'
                      \/ SameEnd(labelExit', tradeExit')
                      \/ TradeWinsOnly(tradeExit, labelExit)'
                      \/ tradeExit' # Open /\ OnlyTradeEnds'
    BY <2>2 DEF Agree, SameEnd, TradeWinsOnly, Open
  <2>3. tradeExit = Open
    BY <1>2, AgreeClosed
  <2>4. labelExit = Open /\ SamePosition
    BY <2>3 DEF Agree, SameEnd, TradeWinsOnly
  <2>5. /\ tradeExit' \in EvaluatorExits(trade, b)
        /\ labelExit' = KernelExit(label, b)
    BY <2>1, <2>3, <2>4 DEF EvaluatorBar, KernelBar, SameRules
  <2>6. ExitsMatch(tradeExit', labelExit', b)
    BY <2>1, <2>2, <2>4, <2>5, ExitsAgree
  <2>7. CASE tradeExit' = Open /\ labelExit' = Open /\ Counts(b) = KernelCounts(b)
    BY <2>1, <2>2, <2>3, <2>4, <2>7, PositionsAgree
  <2>8. CASE /\ tradeExit' # Open /\ tradeExit'.how \in {"end_of_data", "max_bars"}
             /\ labelExit' = Open /\ bar + 1 = Last
    BY <2>2, <2>8 DEF OnlyTradeEnds, Open
  <2> QED
    BY <2>2, <2>6, <2>7, <2>8 DEF ExitsMatch, TradeWinsOnly
<1> QED
  BY <1>1, <1>2

\* What a model is trained on is what the backtest reports, bar for bar.
THEOREM LabelSafety == TradeSpec => []LabelIsTheTrade
<1>1. TradeInv /\ Agree => LabelIsTheTrade
  BY DEF Agree, TradeWinsOnly, OnlyTradeEnds, LabelIsTheTrade
<1> QED
  BY TradeInvHolds, InitAgree, StepAgree, <1>1, PTL DEF TradeSpec

(***************************************************************************)
(* Labels are conservative: when the evaluator sees the target before the  *)
(* stop in the sub-hourly data, the trade wins and the label does not say  *)
(* more; in every other setup the two say the same.                        *)
(***************************************************************************)
THEOREM ConservativeSafety == TradeSpec => []LabelIsConservative
<1>1. TradeInv /\ Agree => LabelIsConservative
  BY DEF Agree, TradeWinsOnly, SameEnd, OnlyTradeEnds, LabelIsConservative
<1> QED
  BY TradeInvHolds, InitAgree, StepAgree, <1>1, PTL DEF TradeSpec

-----------------------------------------------------------------------------
(* WalkForward *)

\* A product of natural numbers is one, and of two factors the larger has the larger product.
LEMMA Products ==
    ASSUME NEW a \in Nat, NEW b \in Nat, NEW t \in Nat, a <= b
    PROVE  a * t \in Nat /\ a * t <= b * t
<1>1. PICK c \in Nat : b = a + c
  OBVIOUS
<1>2. b * t = a * t + c * t
  BY <1>1
<1>3. a * t \in Nat /\ c * t \in Nat
  OBVIOUS
<1> QED
  BY <1>2, <1>3

\* So many times the quotient is at most what was divided.
LEMMA Quotient ==
    ASSUME NEW x \in Nat, NEW n \in Nat \ {0}
    PROVE  x \div n \in Nat /\ n * (x \div n) <= x
OBVIOUS

\* Products distribute over differences.
LEMMA Distribute ==
    ASSUME NEW a \in Int, NEW b \in Int, NEW t \in Int
    PROVE  (a - b) * t = a * t - b * t /\ a * t \in Int /\ b * t \in Int
OBVIOUS

\* The fields of a configuration have their types.
LEMMA ConfigTypes ==
    ASSUME TypeOK
    PROVE  /\ config.bars \in Nat /\ config.embargo \in Nat /\ config.cutoff \in Nat
           /\ config.folds \in Nat \ {0} /\ config.minTrain \in Nat \ {0}
           /\ config.floor \in Nat \ {0} /\ config.minOos \in Nat \ {0}
           /\ config.horizon \in Nat \ {0} /\ config.anchored \in BOOLEAN
BY WalkForwardAssumption DEF TypeOK, Config

-----------------------------------------------------------------------------
(* The inductive invariant. *)

\* What was planned is made of the configuration and fits into the data.
PlanFits ==
    step = "folds" =>
        /\ plan.n \in Nat \ {0}
        /\ plan.train \in {config.minTrain, config.floor}
        /\ plan.train + plan.n * plan.test <= config.bars

\* Fold i of n is tested on the i-th last of n windows of one size.
InPlace(fs) ==
    \E size \in Nat : \A k \in 1..Len(fs) :
        /\ fs[k].test.to = config.bars - (Len(fs) - k) * size
        /\ k < Len(fs) => fs[k + 1].test.from = fs[k].test.to

\* The fold that is worked on is one of them; another is to come after "next".
AtFold ==
    /\ step \in {"inner", "oof"} => fold <= Len(folds)
    /\ step = "next" => fold < Len(folds)
    /\ step \in {"plan", "folds"} => fold = 1

SplitInv == TypeOK /\ PlanFits /\ InPlace(folds) /\ AtFold /\ NoLabelLeak

\* A slice of natural bounds lies within the data.
LEMMA Slices ==
    ASSUME NEW from \in Nat, NEW to \in Int, NEW length \in Nat
    PROVE  /\ Slice(from, to, length) \in Windows
           /\ Slice(from, to, length).from = from
           /\ Slice(from, to, length).to <= length
           /\ to \in Nat => Slice(from, to, length).to <= to
           /\ to \in 0..length => Slice(from, to, length).to = to
BY DEF Slice, Window, Windows, Greatest, Least

\* What plan_walk_forward plans fits into the data.
LEMMA PlannedFits ==
    ASSUME TypeOK, NEW n \in Nat \ {0},
           Fits(n, config.minTrain) \/ Fits(n, config.floor)
    PROVE  /\ Planned(n) \in [n : Nat, test : Nat, train : Nat]
           /\ Planned(n).n = n
           /\ Planned(n).train \in {config.minTrain, config.floor}
           /\ Planned(n).train + n * Planned(n).test <= config.bars
<1>1. ASSUME NEW train \in {config.minTrain, config.floor}, Fits(n, train)
      PROVE  TestSize(n, train) \in Nat /\ train + n * TestSize(n, train) <= config.bars
  <2>1. config.bars > train
    BY <1>1, ConfigTypes DEF Fits, TestSize
  <2>2. config.bars - train \in Nat
    BY <2>1, ConfigTypes
  <2>3. TestSize(n, train) = (config.bars - train) \div n
    BY <2>1, ConfigTypes DEF TestSize
  <2> DEFINE x == config.bars - train
  <2>4. x \div n \in Nat /\ n * (x \div n) <= x
    BY <2>2, Quotient
  <2> HIDE DEF x
  <2>5. n * (x \div n) \in Nat
    BY <2>4
  <2>6. train + x = config.bars /\ train \in Nat /\ x \in Nat
    BY <2>2, ConfigTypes DEF x
  <2>7. TestSize(n, train) = x \div n
    BY <2>3 DEF x
  <2> QED
    BY <2>4, <2>5, <2>6, <2>7
<1> QED
  BY <1>1, ConfigTypes DEF Planned

\* One planned fold: its windows, and where its training ends.
LEMMA FoldWindows ==
    ASSUME TypeOK, PlanFits, step = "folds", Available >= plan.train,
           NEW i \in 0..plan.n - 1
    PROVE  /\ Fold(i) \in [train : Windows, test : Windows]
           /\ Fold(i).test.from = config.bars - (plan.n - i) * plan.test
           /\ Fold(i).test.to = config.bars - (plan.n - (i + 1)) * plan.test
           /\ LooksAhead(Fold(i)) <=>
                Fold(i).test.from < config.embargo /\ config.embargo < config.bars
<1> DEFINE start == Available + i * plan.test
           size == plan.test
<1>1. /\ plan.n \in Nat \ {0} /\ plan.test \in Nat /\ plan.train \in Nat /\ i \in Nat
  BY DEF TypeOK, PlanFits
<1>2. /\ start = config.bars - (plan.n - i) * size
      /\ start + size = config.bars - (plan.n - (i + 1)) * size
  <2>1. (plan.n - i) * size = plan.n * size - i * size
    BY <1>1, Distribute
  <2> DEFINE m == plan.n - i
  <2>2. (plan.n - (i + 1)) * size = (plan.n - i) * size - size
    <3>1. m \in Int /\ plan.n - (i + 1) = m - 1
      BY <1>1
    <3> HIDE DEF m
    <3>2. (m - 1) * size = m * size - 1 * size /\ 1 * size = size
      BY <1>1, <3>1, Distribute
    <3> QED
      BY <3>1, <3>2 DEF m
  <2>3. plan.n * size \in Int /\ i * size \in Int
    BY <1>1, Distribute
  <2> QED
    BY <1>1, <2>1, <2>2, <2>3, ConfigTypes DEF Available
<1>3. /\ i * size \in Nat /\ (plan.n - (i + 1)) * size \in Nat
  BY <1>1, Products
<1>4. /\ start \in Nat /\ start >= plan.train /\ start + size <= config.bars
  <2>1. Available \in Int
    BY <1>1, ConfigTypes DEF Available
  <2> HIDE DEF start
  <2>2. start \in Int /\ start >= plan.train
    BY <1>1, <1>3, <2>1 DEF start
  <2> QED
    BY <1>1, <1>2, <1>3, <2>2, ConfigTypes
<1>5. start \div (i + 1) \in Nat
  BY <1>1, <1>4, Quotient
<1> DEFINE end == start - config.embargo
           from == LET begin == IF config.anchored THEN 0
                                ELSE Greatest(0, start - start \div (i + 1))
                   IN  IF end - begin < plan.train THEN Greatest(0, end - plan.train) ELSE begin
<1>6. Fold(i) = [train |-> Slice(from, end, config.bars),
                 test |-> Slice(start, start + size, config.bars)]
  BY DEF Fold
<1>7. from \in Nat /\ end \in Int
  <2> HIDE DEF start
  <2> QED
    BY <1>1, <1>4, <1>5, ConfigTypes DEF Greatest
<1>8. Slice(start, start + size, config.bars).to = start + size
  <2> HIDE DEF start
  <2>1. start + size \in Nat /\ start + size <= config.bars
    BY <1>1, <1>4
  <2>2. start + size \in Int /\ start + size \in 0..config.bars
    BY <2>1, ConfigTypes
  <2> QED
    BY <1>4, <2>1, <2>2, ConfigTypes DEF Slice, Window, Least
<1> HIDE DEF start, from
<1>9. LET train == Slice(from, end, config.bars) IN
      train.from < train.to /\ start < train.to <=>
        start < config.embargo /\ config.embargo < config.bars
  <2>1. start \in Nat /\ start <= config.bars /\ config.embargo \in Nat /\ config.bars \in Nat
    BY <1>1, <1>4, ConfigTypes
  <2>2. CASE end < 0
    <3>1. from = 0
      BY <1>1, <1>5, <2>1, <2>2 DEF from, Greatest
    <3>2. Slice(from, end, config.bars).to = Greatest(0, config.bars + end)
      BY <2>2 DEF Slice, Window
    <3>3. Slice(from, end, config.bars).from = 0
      BY <3>1 DEF Slice, Window
    <3> QED
      BY <2>1, <2>2, <3>2, <3>3 DEF Greatest
  <2>3. CASE ~(end < 0)
    <3>1. Slice(from, end, config.bars).to <= start
      <4>1. Slice(from, end, config.bars).to = Least(end, config.bars)
        BY <2>3 DEF Slice, Window
      <4> QED
        BY <2>1, <2>3, <4>1 DEF Least
    <3>2. Slice(from, end, config.bars).to \in Int
      BY <1>7, <2>1, <2>3 DEF Slice, Window, Least
    <3> HIDE DEF end
    <3>3. ~(start < config.embargo)
      BY <2>1, <2>3 DEF end
    <3> QED
      BY <2>1, <3>1, <3>2, <3>3
  <2> QED
    BY <2>2, <2>3
<1>10. /\ Slice(from, end, config.bars) \in Windows
       /\ Slice(start, start + size, config.bars) \in Windows
       /\ Slice(start, start + size, config.bars).from = start
  <2>1. Slice(from, end, config.bars) \in Windows
    BY <1>7, Slices, ConfigTypes
  <2>2. start + size \in Nat
    BY <1>1, <1>4
  <2> QED
    BY <1>4, <2>1, <2>2, ConfigTypes DEF Slice, Window, Windows, Least
<1> QED
  BY <1>2, <1>6, <1>8, <1>9, <1>10 DEF LooksAhead

\* An inner fold that is not left out has windows of natural bounds.
LEMMA InnerWindows ==
    ASSUME TypeOK, TrainSize \in Nat, NEW i \in 0..InnerFolds - 1
    PROVE  InnerFold(i).train.to >= 2 * ValSize => InnerFold(i) \in [train : Windows, val : Windows]
<1> DEFINE n == InnerFolds + 2
           size == ValSize
<1>1. i \in Nat /\ i + 1 <= n /\ n \in Nat \ {0}
  BY WalkForwardAssumption
<1>2. TrainSize \div n \in Nat /\ n * (TrainSize \div n) <= TrainSize
  BY <1>1, Quotient
<1>3. size \in Nat /\ size <= TrainSize \div n
  <2> HIDE DEF n
  <2> QED
    BY <1>2, WalkForwardAssumption DEF ValSize, Least, n
<1>4. (i + 1) * size <= TrainSize
  <2> HIDE DEF n, size
  <2>1. (i + 1) * size <= n * size /\ (i + 1) * size \in Nat /\ n * size \in Nat
    BY <1>1, <1>3, Products
  <2>2. n * size = size * n /\ n * (TrainSize \div n) = (TrainSize \div n) * n
    BY <1>1, <1>2, <1>3
  <2>3. size * n <= (TrainSize \div n) * n /\ (TrainSize \div n) * n \in Nat
    BY <1>1, <1>2, <1>3, Products
  <2> QED
    BY <1>2, <2>1, <2>2, <2>3
<1>5. (i + 1) * size = i * size + size /\ i * size \in Nat
  <2> HIDE DEF size
  <2>1. i + 1 \in Int /\ (i + 1) - 1 = i
    BY <1>1
  <2>2. (i + 1 - 1) * size = (i + 1) * size - 1 * size
    BY <1>1, <1>3, Distribute
  <2>3. (i + 1) * size \in Nat /\ i * size \in Nat
    BY <1>1, <1>3, Products
  <2> QED
    BY <1>3, <2>1, <2>2, <2>3
<1> DEFINE from == TrainSize - i * ValSize - ValSize
<1>6. from \in Nat /\ TrainSize - i * ValSize \in Nat
  BY <1>3, <1>4, <1>5
<1>7. InnerFold(i) = [train |-> [from |-> 0, to |-> from - config.embargo],
                      val |-> [from |-> from, to |-> TrainSize - i * ValSize]]
  BY DEF InnerFold, Window
<1> HIDE DEF from
<1> QED
  BY <1>3, <1>6, <1>7, ConfigTypes DEF Windows

\* Where a block of the out-of-fold splits begins is a bar.
LEMMA BlockStarts ==
    ASSUME TypeOK, TrainSize \in Nat, NEW k \in Nat
    PROVE  BlockStart(k) \in Nat
<1> DEFINE n == OofSplits + 1
           size == TrainSize \div n
           rest == TrainSize % n
<1>1. n \in Nat \ {0}
  BY WalkForwardAssumption
<1>2. size \in Nat /\ rest \in Nat
  <2> HIDE DEF n
  <2> QED
    BY <1>1, Quotient
<1>3. k * size \in Nat
  <2> HIDE DEF size
  <2> QED
    BY <1>2
<1>4. BlockStart(k) = k * size + Least(k, rest)
  BY DEF BlockStart
<1> HIDE DEF size, rest
<1> QED
  BY <1>2, <1>3, <1>4 DEF Least

\* A window never has a negative number of bars.
LEMMA Sizes ==
    ASSUME NEW w \in Windows
    PROVE  Size(w) \in Nat
BY DEF Size, Windows, Greatest

\* The training data of the fold that is worked on has a size.
LEMMA TrainSizes ==
    ASSUME TypeOK, AtFold, step \in {"inner", "oof"}
    PROVE  TrainSize \in Nat
<1>1. fold \in 1..Len(folds)
  BY DEF TypeOK, AtFold
<1>2. folds[fold] \in [train : Windows, test : Windows]
  BY <1>1, ElementOfSeq DEF TypeOK
<1> QED
  BY <1>2, Sizes DEF TrainSize

\* What is left out of a step: nothing else of the invariant changes.
LEMMA Kept ==
    ASSUME SplitInv, UNCHANGED vars
    PROVE  SplitInv'
BY DEF SplitInv, vars, TypeOK, PlanFits, InPlace, AtFold, NoLabelLeak

-----------------------------------------------------------------------------
(* Every step keeps the invariant. *)

\* Before the first step.
LEMMA SplitInitInv == Init => SplitInv
<1> SUFFICES ASSUME Init PROVE SplitInv
  OBVIOUS
<1>1. Len(<<>>) = 0 /\ <<>> \in Seq([train : Windows, test : Windows])
  OBVIOUS
<1>2. TypeOK
  BY <1>1 DEF Init, TypeOK
<1>3. InPlace(folds)
  <2>1. folds = <<>> /\ 0 \in Nat /\ 1..Len(folds) = {}
    BY <1>1 DEF Init
  <2> QED
    BY <2>1 DEF InPlace
<1> QED
  BY <1>2, <1>3 DEF Init, SplitInv, PlanFits, AtFold, NoLabelLeak

\* plan_walk_forward.
LEMMA PlanInv == SplitInv /\ PlanFolds => SplitInv'
<1> SUFFICES ASSUME SplitInv, PlanFolds PROVE SplitInv'
  OBVIOUS
<1>1. CASE step' = "insufficient" /\ UNCHANGED plan
  BY <1>1 DEF SplitInv, PlanFolds, TypeOK, PlanFits, InPlace, AtFold, NoLabelLeak
<1>2. CASE step' = "folds"
  <2>1. PICK n \in MinFolds..config.folds :
             /\ Fits(n, config.minTrain) \/ Fits(n, config.floor)
             /\ plan' = Planned(n)
    BY <1>2 DEF PlanFolds
  <2>2. n \in Nat \ {0}
    BY ConfigTypes DEF SplitInv, MinFolds, Least
  <2>3. /\ Planned(n) \in [n : Nat, test : Nat, train : Nat]
        /\ Planned(n).n = n
        /\ Planned(n).train \in {config.minTrain, config.floor}
        /\ Planned(n).train + n * Planned(n).test <= config.bars
    BY <2>1, <2>2, PlannedFits DEF SplitInv
  <2>4. PlanFits'
    BY <2>1, <2>2, <2>3 DEF PlanFolds, PlanFits
  <2> QED
    BY <1>2, <2>1, <2>3, <2>4 DEF SplitInv, PlanFolds, TypeOK, InPlace, AtFold, NoLabelLeak
<1> QED
  BY <1>1, <1>2 DEF PlanFolds

\* create_walk_forward_folds.
LEMMA FoldsInv == SplitInv /\ CreateFolds => SplitInv'
<1> SUFFICES ASSUME SplitInv, CreateFolds PROVE SplitInv'
  OBVIOUS
<1>1. CASE Available < plan.train
  BY <1>1 DEF SplitInv, CreateFolds, TypeOK, PlanFits, InPlace, AtFold, NoLabelLeak
<1>2. CASE ~(Available < plan.train)
  <2>1. plan.n \in Nat \ {0} /\ plan.test \in Nat /\ plan.train \in Nat
    BY DEF SplitInv, TypeOK, PlanFits, CreateFolds
  <2>2. Available >= plan.train
    BY <1>2, <2>1, ConfigTypes DEF SplitInv, Available
  <2>3. folds' = [k \in 1..plan.n |-> Fold(k - 1)]
    BY <1>2 DEF CreateFolds
  <2>4. ASSUME NEW k \in 1..plan.n
        PROVE  /\ folds'[k] \in [train : Windows, test : Windows]
               /\ folds'[k].test.from = config.bars - (plan.n - (k - 1)) * plan.test
               /\ folds'[k].test.to = config.bars - (plan.n - k) * plan.test
    <3>1. k - 1 \in 0..plan.n - 1 /\ (k - 1) + 1 = k
      BY <2>1
    <3>2. folds'[k] = Fold(k - 1)
      BY <2>3
    <3> QED
      BY <2>2, <3>1, <3>2, FoldWindows DEF SplitInv, CreateFolds
  <2>5. folds' \in Seq([train : Windows, test : Windows]) /\ Len(folds') = plan.n
    <3> DEFINE S == [train : Windows, test : Windows]
    <3>1. folds' \in [1..plan.n -> S]
      <4>1. \A k \in 1..plan.n : folds'[k] \in S
        BY <2>4
      <4> HIDE DEF S
      <4> QED
        BY <2>3, <4>1
    <3> HIDE DEF S
    <3>2. folds' \in Seq(S) /\ Len(folds') = plan.n
      BY <2>1, <3>1
    <3> QED
      BY <3>2 DEF S
  <2>6. InPlace(folds')
    <3>1. ASSUME NEW k \in 1..Len(folds')
          PROVE  /\ folds'[k].test.to = config.bars - (Len(folds') - k) * plan.test
                 /\ k < Len(folds') => folds'[k + 1].test.from = folds'[k].test.to
      <4>1. k \in 1..plan.n /\ (k < plan.n => k + 1 \in 1..plan.n /\ (k + 1) - 1 = k)
        BY <2>1, <2>5
      <4> QED
        BY <2>4, <2>5, <4>1
    <3> QED
      BY <2>1, <3>1 DEF InPlace, CreateFolds
  <2>7. TypeOK'
    BY <1>2, <2>5 DEF SplitInv, CreateFolds, TypeOK
  <2>8. AtFold'
    BY <1>2, <2>1, <2>5 DEF SplitInv, CreateFolds, AtFold
  <2> QED
    BY <1>2, <2>6, <2>7, <2>8 DEF SplitInv, CreateFolds, PlanFits, InPlace, NoLabelLeak
<1> QED
  BY <1>1, <1>2

\* nested_cv_split.
LEMMA InnerInv == SplitInv /\ SplitInner => SplitInv'
<1> SUFFICES ASSUME SplitInv, SplitInner PROVE SplitInv'
  OBVIOUS
<1>1. TrainSize \in Nat
  BY TrainSizes DEF SplitInv, SplitInner
<1>2. inner' \subseteq [train : Windows, val : Windows]
  BY <1>1, InnerWindows DEF SplitInv, SplitInner
<1> QED
  BY <1>2 DEF SplitInv, SplitInner, TypeOK, PlanFits, InPlace, AtFold, NoLabelLeak

\* _forward_oof_splits: the labels of the training end before the validated block.
LEMMA OofInv == SplitInv /\ SplitOof => SplitInv'
<1> SUFFICES ASSUME SplitInv, SplitOof PROVE SplitInv'
  OBVIOUS
<1>1. TrainSize \in Nat
  BY TrainSizes DEF SplitInv, SplitOof
<1>2. ASSUME NEW s \in oof'
      PROVE  /\ s \in [train : Windows, val : Windows]
             /\ s.train.to + config.horizon + config.embargo = s.val.from
  <2>1. PICK k \in 1..OofSplits : s = OofSplit(k) /\ s.train.to > 0
    BY DEF SplitOof
  <2>2. k \in Nat /\ k + 1 \in Nat
    BY WalkForwardAssumption
  <2>3. BlockStart(k) \in Nat /\ BlockStart(k + 1) \in Nat
    BY <1>1, <2>2, BlockStarts DEF SplitInv
  <2>4. s = [train |-> [from |-> 0, to |-> BlockStart(k) - config.horizon - config.embargo],
             val |-> [from |-> BlockStart(k), to |-> BlockStart(k + 1)]]
    BY <2>1 DEF OofSplit, OofTrainEnd, Window
  <2> QED
    BY <2>1, <2>3, <2>4, ConfigTypes DEF SplitInv, Windows
<1>3. NoLabelLeak'
  <2> SUFFICES ASSUME NEW s \in oof', NEW i \in s.train.from..(s.train.to - 1)
               PROVE  i + config.horizon + config.embargo < s.val.from
    BY DEF NoLabelLeak, SplitOof
  <2>1. s.train.from \in Nat /\ s.train.to \in Nat /\ s.val.from \in Nat
    BY <1>2 DEF Windows
  <2> QED
    BY <1>2, <2>1, ConfigTypes DEF SplitInv
<1>4. TypeOK'
  <2>1. oof' \subseteq [train : Windows, val : Windows]
    BY <1>2
  <2> QED
    BY <2>1 DEF SplitInv, SplitOof, TypeOK
<1>5. AtFold'
  BY DEF SplitInv, TypeOK, SplitOof, AtFold
<1> QED
  BY <1>3, <1>4, <1>5 DEF SplitInv, SplitOof, PlanFits, InPlace

\* The next fold.
LEMMA NextFoldInv == SplitInv /\ NextFold => SplitInv'
<1> SUFFICES ASSUME SplitInv, NextFold PROVE SplitInv'
  OBVIOUS
<1>1. TypeOK'
  BY DEF SplitInv, NextFold, TypeOK
<1>2. AtFold'
  <2>1. fold < Len(folds) /\ fold \in Nat /\ Len(folds) \in Nat
    BY DEF SplitInv, NextFold, TypeOK, AtFold
  <2> QED
    BY <2>1 DEF NextFold, AtFold
<1> QED
  BY <1>1, <1>2 DEF SplitInv, NextFold, PlanFits, InPlace, NoLabelLeak

\* holdout_fold.
LEMMA HoldoutInv == SplitInv /\ Holdout => SplitInv'
<1> SUFFICES ASSUME SplitInv, Holdout PROVE SplitInv'
  OBVIOUS
<1>1. CASE config.cutoff <= config.embargo
  BY <1>1 DEF SplitInv, Holdout, TypeOK, PlanFits, InPlace, AtFold, NoLabelLeak
<1>2. CASE ~(config.cutoff <= config.embargo)
  <2>1. folds' = <<HoldoutFold>> /\ step' = "done"
    BY <1>2 DEF Holdout
  <2>2. HoldoutFold.test = Window(config.cutoff, config.bars)
    BY DEF HoldoutFold
  <2>3. HoldoutFold \in [train : Windows, test : Windows]
    BY ConfigTypes DEF SplitInv, HoldoutFold, Slice, Window, Windows, Greatest, Least
  <2>4. Len(folds') = 1 /\ folds'[1] = HoldoutFold
        /\ folds' \in Seq([train : Windows, test : Windows])
    BY <2>1, <2>3
  <2>5. InPlace(folds')
    <3>1. ASSUME NEW k \in 1..Len(folds')
          PROVE  /\ folds'[k].test.to = config.bars - (Len(folds') - k) * 0
                 /\ ~(k < Len(folds'))
      BY <2>2, <2>4, ConfigTypes DEF SplitInv, Window
    <3>2. config' = config
      BY DEF Holdout
    <3> QED
      BY <3>1, <3>2 DEF InPlace
  <2>6. TypeOK'
    BY <2>1, <2>4 DEF SplitInv, Holdout, TypeOK
  <2>7. InPlace(folds)'
    BY <2>5 DEF Holdout, InPlace
  <2> QED
    BY <2>1, <2>6, <2>7 DEF SplitInv, Holdout, PlanFits, AtFold, NoLabelLeak
<1> QED
  BY <1>1, <1>2

-----------------------------------------------------------------------------
(* The theorems. *)

\* The invariant holds in every state of a run.
LEMMA SplitInvHolds == Spec => []SplitInv
<1>1. SplitInv /\ [Next]_vars => SplitInv'
  <2> SUFFICES ASSUME SplitInv, [Next]_vars PROVE SplitInv'
    OBVIOUS
  <2>1. CASE PlanFolds  BY <2>1, PlanInv
  <2>2. CASE CreateFolds  BY <2>2, FoldsInv
  <2>3. CASE SplitInner  BY <2>3, InnerInv
  <2>4. CASE SplitOof  BY <2>4, OofInv
  <2>5. CASE NextFold  BY <2>5, NextFoldInv
  <2>6. CASE Holdout  BY <2>6, HoldoutInv
  <2>7. CASE UNCHANGED vars  BY <2>7, Kept
  <2> QED
    BY <2>1, <2>2, <2>3, <2>4, <2>5, <2>6, <2>7 DEF Next
<1> QED
  BY SplitInitInv, <1>1, PTL DEF Spec

\* Windows, plan and folds keep their types: no window begins or ends before the data.
THEOREM SplitTypeSafety == Spec => []TypeOK
<1>1. SplitInv => TypeOK
  BY DEF SplitInv
<1> QED
  BY SplitInvHolds, <1>1, PTL

\* What plan_walk_forward plans never fails in create_walk_forward_folds.
THEOREM PlannedSafety == Spec => []PlannedFoldsFit
<1>1. SplitInv => PlannedFoldsFit
  <2> SUFFICES ASSUME SplitInv, step = "folds" PROVE Available >= plan.train
    BY DEF PlannedFoldsFit
  <2>1. plan.n \in Nat /\ plan.test \in Nat /\ plan.train \in Nat /\ config.bars \in Nat
    BY ConfigTypes DEF SplitInv, TypeOK
  <2>2. plan.n * plan.test \in Nat /\ plan.train + plan.n * plan.test <= config.bars
    BY <2>1, Products DEF SplitInv, PlanFits
  <2> QED
    BY <2>1, <2>2 DEF Available
<1> QED
  BY SplitInvHolds, <1>1, PTL

\* The test windows follow one another without gap or overlap up to the last bar.
THEOREM TestedSafety == Spec => []TestedOnce
<1>1. SplitInv => TestedOnce
  <2> SUFFICES ASSUME SplitInv, folds # <<>>
               PROVE  /\ folds[Len(folds)].test.to = config.bars
                      /\ \A k \in 1..Len(folds) - 1 : folds[k].test.to = folds[k + 1].test.from
    BY DEF TestedOnce
  <2>1. Len(folds) \in Nat \ {0}
    BY EmptySeq DEF SplitInv, TypeOK
  <2>2. PICK size \in Nat : \A k \in 1..Len(folds) :
             /\ folds[k].test.to = config.bars - (Len(folds) - k) * size
             /\ k < Len(folds) => folds[k + 1].test.from = folds[k].test.to
    BY DEF SplitInv, InPlace
  <2>3. folds[Len(folds)].test.to = config.bars
    <3>1. Len(folds) \in 1..Len(folds) /\ (Len(folds) - Len(folds)) * size = 0
      BY <2>1
    <3>2. folds[Len(folds)].test.to = config.bars - (Len(folds) - Len(folds)) * size
      BY <2>2, <3>1
    <3>3. config.bars - 0 = config.bars
      BY ConfigTypes DEF SplitInv
    <3> QED
      BY <3>1, <3>2, <3>3
  <2>4. ASSUME NEW k \in 1..Len(folds) - 1
        PROVE  folds[k].test.to = folds[k + 1].test.from
    <3>1. k \in 1..Len(folds) /\ k < Len(folds)
      BY <2>1
    <3> QED
      BY <2>2, <3>1
  <2> QED
    BY <2>3, <2>4
<1> QED
  BY SplitInvHolds, <1>1, PTL

\* The meta model's base learners are never trained on labels of the bars they predict.
THEOREM LeakSafety == Spec => []NoLabelLeak
<1>1. SplitInv => NoLabelLeak
  BY DEF SplitInv
<1> QED
  BY SplitInvHolds, <1>1, PTL

\* Folds look ahead exactly when the embargo reaches back before the data, for every
\* configuration: an embargo no longer than the training windows is safe, a longer one is not.
THEOREM LookaheadExactly == Spec => []LooksAheadByEmbargo
<1>1. Init => LooksAheadByEmbargo
  BY DEF Init, LooksAheadByEmbargo
<1>2. LooksAheadByEmbargo /\ SplitInv /\ [Next]_vars => LooksAheadByEmbargo'
  <2> SUFFICES ASSUME LooksAheadByEmbargo, SplitInv, [Next]_vars PROVE LooksAheadByEmbargo'
    OBVIOUS
  <2>1. CASE CreateFolds /\ ~(Available < plan.train)
    <3>1. plan.n \in Nat \ {0} /\ plan.test \in Nat /\ plan.train \in Nat
      BY <2>1 DEF SplitInv, TypeOK, PlanFits, CreateFolds
    <3>2. Available >= plan.train
      BY <2>1, <3>1, ConfigTypes DEF SplitInv, Available
    <3>3. folds' = [k \in 1..plan.n |-> Fold(k - 1)] /\ Len(folds') = plan.n
      BY <2>1, <3>1 DEF CreateFolds
    <3>4. ASSUME NEW k \in 1..plan.n
          PROVE  LooksAhead(folds'[k]) <=>
                   folds'[k].test.from < config.embargo /\ config.embargo < config.bars
      <4>1. k - 1 \in 0..plan.n - 1 /\ folds'[k] = Fold(k - 1)
        BY <3>1, <3>3
      <4> QED
        BY <2>1, <3>2, <4>1, FoldWindows DEF SplitInv, CreateFolds
    <3> QED
      BY <2>1, <3>3, <3>4 DEF CreateFolds, LooksAheadByEmbargo, LooksAhead
  <2>2. CASE CreateFolds /\ Available < plan.train
    BY <2>2 DEF CreateFolds, LooksAheadByEmbargo, LooksAhead
  <2>3. CASE Holdout
    <3>1. CASE config.cutoff <= config.embargo
      BY <2>3, <3>1 DEF Holdout, LooksAheadByEmbargo, LooksAhead
    <3>2. CASE ~(config.cutoff <= config.embargo)
      <4>1. folds' = <<HoldoutFold>>
        BY <2>3, <3>2 DEF Holdout
      <4>2. ~LooksAhead(HoldoutFold) /\ ~(HoldoutFold.test.from < config.embargo)
        BY <3>2, ConfigTypes DEF SplitInv, HoldoutFold, LooksAhead, Slice, Window, Greatest, Least
      <4>3. \A k \in 1..Len(folds') : folds'[k] = HoldoutFold
        BY <4>1
      <4> QED
        BY <2>3, <4>2, <4>3 DEF Holdout, LooksAheadByEmbargo, LooksAhead
    <3> QED
      BY <3>1, <3>2
  <2>4. CASE PlanFolds \/ SplitInner \/ SplitOof \/ NextFold \/ UNCHANGED vars
    BY <2>4 DEF PlanFolds, SplitInner, SplitOof, NextFold, vars, LooksAheadByEmbargo, LooksAhead
  <2> QED
    BY <2>1, <2>2, <2>3, <2>4 DEF Next
<1> QED
  BY SplitInvHolds, <1>1, <1>2, PTL DEF Spec

-----------------------------------------------------------------------------
(* Backtest *)

\* A backtest is a trade and a walk through the folds.
LEMMA Halves == BacktestSpec => TradeSpec /\ Spec
<1>1. BacktestInit => TradeInit /\ Init
  BY DEF BacktestInit
<1>2. [BacktestNext]_<<vars, tradeVars>> => [NextBar]_tradeVars /\ [Next]_vars
  BY DEF BacktestNext, Label
<1> QED
  BY <1>1, <1>2, PTL DEF BacktestSpec, TradeSpec, Spec

\* The splits of a backtest are purged by the horizon of its setup.
LEMMA SameHorizon == BacktestSpec => [](config.horizon = Horizon)
<1>1. BacktestInit => config.horizon = Horizon
  BY DEF BacktestInit
<1>2. config.horizon = Horizon /\ [BacktestNext]_<<vars, tradeVars>>
      => (config.horizon = Horizon)'
  <2> SUFFICES ASSUME config.horizon = Horizon, [BacktestNext]_<<vars, tradeVars>>
               PROVE  config' = config /\ setup' = setup
    BY DEF Horizon, SessionKernel
  <2>1. CASE Next /\ UNCHANGED tradeVars
    BY <2>1 DEF Next, PlanFolds, CreateFolds, SplitInner, SplitOof, NextFold, Holdout, tradeVars
  <2>2. CASE Label
    BY <2>2 DEF Label, NextBar, vars
  <2>3. CASE UNCHANGED <<vars, tradeVars>>
    BY <2>3 DEF vars, tradeVars
  <2> QED
    BY <2>1, <2>2, <2>3 DEF BacktestNext
<1> QED
  BY <1>1, <1>2, PTL DEF BacktestSpec

\* No label of a training bar ends in the block its base learner predicts, nor in the
\* embargo before it, whatever the market did after that bar.
THEOREM BacktestLeakSafety == BacktestSpec => []LabelsEndBeforeBlock
<1>1. TradeInv /\ SplitInv /\ LabelWithinHorizon /\ NoLabelLeak /\ config.horizon = Horizon
      => LabelsEndBeforeBlock
  <2> SUFFICES ASSUME TradeInv, SplitInv, LabelWithinHorizon, NoLabelLeak,
                      config.horizon = Horizon,
                      NEW s \in oof, NEW i \in s.train.from..(s.train.to - 1),
                      labelExit # Open
               PROVE  i + 1 + labelExit.at + config.embargo < s.val.from
    BY DEF LabelsEndBeforeBlock
  <2>1. i + config.horizon + config.embargo < s.val.from
    BY DEF NoLabelLeak
  <2>2. labelExit.at < config.horizon
    BY DEF LabelWithinHorizon
  <2>3. config.horizon \in Nat /\ config.embargo \in Nat
    BY WalkForwardAssumption DEF SplitInv, TypeOK, Config
  <2>4. labelExit.at \in Nat
    BY DEF TradeInv, TradeTypeOK, Exits
  <2>5. s.train.from \in Nat /\ s.train.to \in Nat /\ s.val.from \in Nat /\ i \in Nat
    BY DEF SplitInv, TypeOK, Windows
  <2> QED
    BY <2>1, <2>2, <2>3, <2>4, <2>5
<1> QED
  BY <1>1, Halves, SameHorizon, TradeInvHolds, SplitInvHolds, HorizonSafety, LeakSafety, PTL
=============================================================================
