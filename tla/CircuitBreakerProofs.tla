------------------------ MODULE CircuitBreakerProofs ------------------------
(***************************************************************************)
(* Theorems about CircuitBreaker, for any limits, zone, results and number *)
(* of trades, late or repeated reports and restarts.  That a streak is     *)
(* counted right, and that trades without a loss sum up to none, is        *)
(* induction on the number of trades; apart from that, sums are compared   *)
(* by the trades they are over.                                            *)
(***************************************************************************)
EXTENDS CircuitBreaker, FiniteSetTheorems, WellFoundedInduction, TLAPS

\* Deal ids are unique, and the bot knows no trade the broker does not have.
ReportsInv ==
    /\ \A h, k \in history : h.id = k.id => h = k
    /\ events \subseteq history

\* A known state sums up the recorded trades of its day.
SumInv ==
    known => /\ dailyPnl = Pnl(OnDay(events, activeDay))
             /\ losses = Streak(OnDay(events, activeDay))

\* Clocks run forward from 0, and a day that has begun has a positive opening balance.
DayInv ==
    /\ now \in Nat /\ asked.at \in Nat
    /\ activeDay # None => startBalance > 0

\* An entry is only decided on a known state, and allowed only below both limits.
DecisionInv ==
    /\ pc \in {"answered", "allowed"} => known /\ activeDay # None
    /\ pc = "allowed" => ~LossLimitReached /\ ~InStreak

IInv == ReportsInv /\ SumInv /\ DayInv /\ DecisionInv

-----------------------------------------------------------------------------

\* No day of the account is mistaken for the day not yet known.
LEMMA DayIsSome == \A t \in Nat : Day(t) # None
  <1> SUFFICES ASSUME NEW t \in Nat PROVE Day(t) # None
    OBVIOUS
  <1>1. DayLength \in Nat /\ DayLength > 0 /\ ZoneOffset \in Nat
    BY BreakerAssumption
  <1>2. ASSUME NEW a \in Nat, NEW d \in Nat, d > 0 PROVE a \div d >= 0
    BY <1>2
  <1> QED
    BY <1>1, <1>2 DEF Day, None

\* What the bot recorded is what it was told of.
LEMMA ToldIsRecorded == ReportsInv => Told = events
  BY DEF ReportsInv, Told

\* Recording an answer adds trades of the broker only.
LEMMA RecordKeeps ==
  ASSUME ReportsInv, NEW reported \in SUBSET Reportable, Record(reported), UNCHANGED history
  PROVE  ReportsInv'
  BY DEF ReportsInv, Record, Reportable

\* The day an answer is for has an opening balance.
LEMMA BeginDayKeeps ==
  ASSUME DayInv, BeginDay, asked.balance > 0
  PROVE  activeDay' # None /\ startBalance' > 0
  <1>1. Day(asked.at) # None
    BY DayIsSome DEF DayInv
  <1> QED
    BY <1>1 DEF DayInv, BeginDay

\* The invariant is inductive.
LEMMA InvStep == IInv /\ [Next]_vars => IInv'
  <1> SUFFICES ASSUME IInv, [Next]_vars PROVE IInv'
    OBVIOUS
  <1> USE DEF state, broker
  <1>1. CASE Tick
    BY <1>1 DEF Tick, IInv, ReportsInv, SumInv, DayInv, DecisionInv, LossLimitReached, InStreak
  <1>2. CASE CloseTrade
    <2>1. PICK pnl \in Results, id \in 1..MaxTrades \ {e.id : e \in history} :
             history' = history \cup {[id |-> id, at |-> now, pnl |-> pnl]}
      BY <1>2 DEF CloseTrade
    <2>2. ReportsInv'
      BY <1>2, <2>1 DEF CloseTrade, IInv, ReportsInv
    <2> QED
      BY <1>2, <2>2 DEF CloseTrade, IInv, SumInv, DayInv, DecisionInv, LossLimitReached, InStreak
  <1>3. CASE Ask
    BY <1>3 DEF Ask, IInv, ReportsInv, SumInv, DayInv, DecisionInv, LossLimitReached, InStreak
  <1>4. CASE RefreshFails
    BY <1>4 DEF RefreshFails, IInv, ReportsInv, SumInv, DayInv, DecisionInv, NoQuestion
  <1>5. CASE Observe
    <2>1. ReportsInv'
      BY <1>5, RecordKeeps DEF Observe, IInv
    <2>2. activeDay' # None /\ startBalance' > 0
      BY <1>5, BeginDayKeeps DEF Observe, IInv
    <2>3. SumInv'
      BY <1>5 DEF Observe, Summarize, SumInv
    <2>4. DayInv'
      BY <1>5, <2>2 DEF Observe, IInv, DayInv, NoQuestion
    <2>5. DecisionInv'
      BY <1>5, <2>2 DEF Observe, DecisionInv
    <2> QED
      BY <2>1, <2>3, <2>4, <2>5 DEF IInv
  <1>6. CASE ObserveInvalid
    <2>1. ReportsInv'
      BY <1>6, RecordKeeps DEF ObserveInvalid, IInv
    <2>2. activeDay' # None /\ startBalance' > 0
      BY <1>6, BeginDayKeeps DEF ObserveInvalid, IInv
    <2>3. SumInv' /\ DecisionInv'
      BY <1>6 DEF ObserveInvalid, SumInv, DecisionInv
    <2>4. DayInv'
      BY <1>6, <2>2 DEF ObserveInvalid, IInv, DayInv, NoQuestion
    <2> QED
      BY <2>1, <2>3, <2>4 DEF IInv
  <1>7. CASE CanTrade
    BY <1>7 DEF CanTrade, IInv, ReportsInv, SumInv, DayInv, DecisionInv, LossLimitReached, InStreak
  <1>8. CASE Enter
    BY <1>8 DEF Enter, IInv, ReportsInv, SumInv, DayInv, DecisionInv
  <1>9. CASE Restart
    BY <1>9 DEF Restart, IInv, ReportsInv, SumInv, DayInv, DecisionInv, NoQuestion
  <1>10. CASE UNCHANGED vars
    BY <1>10 DEF vars, IInv, ReportsInv, SumInv, DayInv, DecisionInv, LossLimitReached, InStreak
  <1> QED
    BY <1>1, <1>2, <1>3, <1>4, <1>5, <1>6, <1>7, <1>8, <1>9, <1>10 DEF Next

\* At first no trade is recorded.
LEMMA InvInit == Init => IInv
  BY DEF Init, FreshState, IInv, ReportsInv, SumInv, DayInv, DecisionInv, NoQuestion

\* The inductive invariant holds throughout.
LEMMA Invariant == Spec => []IInv
  BY InvInit, InvStep, PTL DEF Spec

\* TradesCountOnce: a known state sums up the trades of its day it was told of, each once.
THEOREM SumSafety == Spec => []TradesCountOnce
  <1>1. IInv => TradesCountOnce
    BY ToldIsRecorded DEF IInv, SumInv, TradesCountOnce
  <1> QED
    BY <1>1, Invariant, PTL

\* NoEntryPastLossLimit: no entry once the day's trades lost the limit or more.
THEOREM LossLimitSafety == Spec => []NoEntryPastLossLimit
  <1>1. IInv => NoEntryPastLossLimit
    BY ToldIsRecorded
       DEF IInv, SumInv, DayInv, DecisionInv, LossLimitReached, NoEntryPastLossLimit
  <1> QED
    BY <1>1, Invariant, PTL

-----------------------------------------------------------------------------

\* No question asked is a question of the type.
LEMMA NoQuestionType == NoQuestion \in [at : 0..MaxTime, balance : Int]
  <1>1. 0 \in 0..MaxTime
    BY BreakerAssumption
  <1> QED
    BY <1>1 DEF NoQuestion

\* Every step preserves the types.
LEMMA TypeStep == TypeOK /\ [Next]_vars => TypeOK'
  <1> SUFFICES ASSUME TypeOK, [Next]_vars PROVE TypeOK'
    OBVIOUS
  <1>a. /\ DayLength \in Nat /\ DayLength > 0 /\ ZoneOffset \in Nat
        /\ PauseDuration \in Nat /\ MaxTrades \in Nat /\ MaxTime \in Nat /\ MaxRestarts \in Nat
        /\ Results \subseteq Int
    BY BreakerAssumption
  <1>b. ASSUME NEW a \in Nat PROVE a \div DayLength \in Int
    BY <1>a
  <1>c. \A t \in Nat : Day(t) \in Int /\ EndOfDay(t) \in Int
    BY <1>a, <1>b DEF Day, EndOfDay
  <1>d. BeginDay => /\ activeDay' \in {None} \cup Int /\ startBalance' \in Int
                    /\ pauseUntil' \in {None} \cup Int
    BY <1>a, <1>c DEF BeginDay, TypeOK
  <1>e. ASSUME NEW reported \in SUBSET Reportable, Record(reported) PROVE events' \subseteq Trades
    BY <1>e DEF Record, Reportable, TypeOK
  <1> USE DEF state, broker
  <1>1. CASE Tick
    BY <1>1, <1>a DEF Tick, TypeOK
  <1>2. CASE CloseTrade
    <2>1. PICK pnl \in Results, id \in 1..MaxTrades \ {e.id : e \in history} :
             /\ history' = history \cup {[id |-> id, at |-> now, pnl |-> pnl]}
             /\ balance' = balance + pnl
      BY <1>2 DEF CloseTrade
    <2>2. [id |-> id, at |-> now, pnl |-> pnl] \in Trades
      BY DEF Trades, TypeOK
    <2>3. history' \subseteq Trades /\ IsFiniteSet(history')
      BY <2>1, <2>2, FS_AddElement DEF TypeOK
    <2>4. balance' \in Int /\ positions' \in 0..MaxTrades
      BY <1>2, <1>a, <2>1 DEF CloseTrade, TypeOK
    <2> QED
      BY <1>2, <2>3, <2>4 DEF CloseTrade, TypeOK
  <1>3. CASE Ask
    BY <1>3 DEF Ask, TypeOK
  <1>4. CASE RefreshFails
    BY <1>4, <1>a, NoQuestionType DEF RefreshFails, TypeOK
  <1>5. CASE Observe
    BY <1>5, <1>a, <1>d, <1>e, NoQuestionType DEF Observe, TypeOK
  <1>6. CASE ObserveInvalid
    BY <1>6, <1>a, <1>d, <1>e, NoQuestionType DEF ObserveInvalid, TypeOK
  <1>7. CASE CanTrade
    <2>1. pauseUntil' \in {None} \cup Int
      BY <1>7, <1>a, <1>c DEF CanTrade, TypeOK
    <2> QED
      BY <1>7, <2>1 DEF CanTrade, TypeOK
  <1>8. CASE Enter
    <2>1. Cardinality(history) \in Nat
      BY FS_CardinalityType DEF TypeOK
    <2>2. positions' \in 0..MaxTrades
      BY <1>8, <1>a, <2>1 DEF Enter, TypeOK
    <2> QED
      BY <1>8, <2>2 DEF Enter, TypeOK
  <1>9. CASE Restart
    <2>1. restarts' \in 0..MaxRestarts
      BY <1>9, <1>a DEF Restart, TypeOK
    <2>2. asked' \in [at : 0..MaxTime, balance : Int]
      BY <1>9, NoQuestionType DEF Restart
    <2>3. events' \subseteq Trades /\ startBalance' \in Int
      BY <1>9 DEF Restart
    <2> QED
      BY <1>9, <2>1, <2>2, <2>3 DEF Restart, TypeOK
  <1>10. CASE UNCHANGED vars
    BY <1>10 DEF vars, TypeOK
  <1> QED
    BY <1>1, <1>2, <1>3, <1>4, <1>5, <1>6, <1>7, <1>8, <1>9, <1>10 DEF Next

\* TypeOK: every variable keeps its type.
THEOREM TypeSafety == Spec => []TypeOK
  <1>1. Init => TypeOK
    <2> SUFFICES ASSUME Init PROVE TypeOK
      OBVIOUS
    <2>1. /\ now \in 0..MaxTime /\ positions \in 0..MaxTrades /\ restarts \in 0..MaxRestarts
          /\ balance \in Int
      BY BreakerAssumption DEF Init
    <2>2. asked \in [at : 0..MaxTime, balance : Int]
      BY NoQuestionType DEF Init
    <2>3. history \subseteq Trades /\ IsFiniteSet(history)
      BY FS_EmptySet DEF Init
    <2>4. pc = "idle" /\ events = {} /\ startBalance = 0
      BY DEF Init, FreshState
    <2>5. observedAt = None /\ activeDay = None /\ pauseUntil = None
      BY DEF Init, FreshState
    <2>6. known \in BOOLEAN
      BY DEF Init, FreshState
    <2> QED
      BY <2>1, <2>2, <2>3, <2>4, <2>5, <2>6 DEF TypeOK
  <1> QED
    BY <1>1, TypeStep, PTL DEF Spec

-----------------------------------------------------------------------------
\* A set of natural numbers has a least one.
LEMMA LeastNumber ==
  ASSUME NEW T \in SUBSET Nat, T # {}
  PROVE  \E x \in T : \A y \in T : x <= y
  <1> DEFINE R == OpToRel(<, Nat)
  <1>1. \A x, y \in Nat : y < x => <<y, x>> \in R
    BY DEF OpToRel
  <1>2. IsWellFoundedOn(R, Nat)
    BY NatLessThanWellFounded
  <1> HIDE DEF R
  <1>3. PICK x \in T : \A y \in T : ~(<<y, x>> \in R)
    BY <1>2, WFMin
  <1>4. ASSUME NEW y \in T PROVE x <= y
    <2>1. x \in Nat /\ y \in Nat
      OBVIOUS
    <2>2. ~(y < x)
      BY <1>1, <1>3, <2>1
    <2> QED
      BY <2>1, <2>2
  <1> QED
    BY <1>4

-----------------------------------------------------------------------------
(* Streaks. *)

\* Trades with ids of their own.
Distinct(E) == E \subseteq Trades /\ \A e, f \in E : e.id = f.id => e = f

\* The losses of E after its last win.
LossesSinceWin(E) == {e \in E : e.pnl < 0 /\ \A w \in E : w.pnl > 0 => Before(w, e)}

\* The closes of a tick and of different ticks have one order.
LEMMA BeforeOrders ==
  ASSUME NEW E, Distinct(E)
  PROVE  /\ \A e \in E : e.id \in Nat /\ e.at \in Nat /\ e.pnl \in Int
         /\ \A e, f \in E : e = f \/ Before(e, f) \/ Before(f, e)
         /\ \A e, f \in E : ~(Before(e, f) /\ Before(f, e))
         /\ \A e, f, g \in E : Before(e, f) /\ Before(f, g) => Before(e, g)
  <1>1. MaxTime \in Nat /\ MaxTrades \in Nat /\ Results \subseteq Int
    BY BreakerAssumption
  <1>2. ASSUME NEW e \in E PROVE e.id \in Nat /\ e.at \in Nat /\ e.pnl \in Int
    <2>1. e \in Trades
      BY DEF Distinct
    <2>2. e.id \in 1..MaxTrades /\ e.at \in 0..MaxTime /\ e.pnl \in Results
      BY <2>1 DEF Trades
    <2>3. e.pnl \in Int
      BY <1>1, <2>2
    <2>4. e.id \in Nat /\ e.at \in Nat
      BY <1>1, <2>2
    <2> QED
      BY <2>3, <2>4
  <1> QED
    BY <1>2 DEF Before, Distinct

\* Some trades have a latest.
LEMMA LatestIs ==
  ASSUME NEW E, Distinct(E), E # {}
  PROVE  Latest(E) \in E /\ \A f \in E \ {Latest(E)} : Before(f, Latest(E))
  <1>1. MaxTime \in Nat /\ MaxTrades \in Nat
    BY BreakerAssumption
  <1>2. \A e \in E : e.id \in Nat /\ e.at \in Nat /\ e.at <= MaxTime /\ e.id <= MaxTrades
    BY <1>1 DEF Distinct, Trades
  <1> DEFINE ages == {MaxTime - e.at : e \in E}
  <1>3. ages \in SUBSET Nat /\ ages # {}
    BY <1>1, <1>2
  <1>4. PICK n \in ages : \A k \in ages : n <= k
    <2> HIDE DEF ages
    <2> QED
      BY <1>3, LeastNumber
  <1>5. PICK a \in E : n = MaxTime - a.at
    BY <1>4
  <1>6. ASSUME NEW e \in E PROVE e.at <= a.at
    <2>1. MaxTime - a.at <= MaxTime - e.at
      BY <1>4, <1>5
    <2> QED
      BY <1>1, <1>2, <2>1
  <1> DEFINE last == {e \in E : e.at = a.at}
             ids  == {MaxTrades - e.id : e \in last}
  <1>7. ids \in SUBSET Nat /\ ids # {}
    BY <1>1, <1>2
  <1>8. PICK m \in ids : \A k \in ids : m <= k
    <2> HIDE DEF ids
    <2> QED
      BY <1>7, LeastNumber
  <1>9. PICK b \in last : m = MaxTrades - b.id
    BY <1>8
  <1>10. ASSUME NEW e \in last PROVE e.id <= b.id
    <2>1. MaxTrades - b.id <= MaxTrades - e.id
      BY <1>8, <1>9
    <2> QED
      BY <1>1, <1>2, <2>1
  <1>11. \A f \in E \ {b} : Before(f, b)
    <2> TAKE f \in E \ {b}
    <2>1. CASE f.at < a.at
      BY <1>9, <2>1 DEF Before
    <2>2. CASE f.at = a.at
      <3>1. f.id <= b.id /\ f.id # b.id
        BY <1>9, <1>10, <2>2 DEF Distinct
      <3> QED
        BY <1>2, <1>9, <2>2, <3>1 DEF Before
    <2> QED
      BY <1>2, <1>6, <2>1, <2>2
  <1> QED
    BY <1>9, <1>11 DEF Latest

\* The latest trade adds to the losses since a win, ends them, or leaves them.
LEMMA LatestCounts ==
  ASSUME NEW E, Distinct(E), IsFiniteSet(E), E # {}
  PROVE  Cardinality(LossesSinceWin(E))
           = CountLoss(Latest(E), Cardinality(LossesSinceWin(E \ {Latest(E)})))
  <1> DEFINE x == Latest(E)
             before == LossesSinceWin(E \ {x})
  <1>1. x \in E /\ \A f \in E \ {x} : Before(f, x)
    BY LatestIs
  <1> HIDE DEF x
  <1>2. IsFiniteSet(before) /\ x \notin before
    BY FS_Subset DEF LossesSinceWin
  <1>3. x.pnl \in Int
    BY <1>1, BeforeOrders
  <1>4. CASE x.pnl < 0
    <2>1. LossesSinceWin(E) = before \cup {x}
      BY <1>1, <1>3, <1>4 DEF LossesSinceWin
    <2> QED
      BY <1>2, <1>4, <2>1, FS_AddElement DEF CountLoss, x
  <1>5. CASE x.pnl > 0
    <2>1. ASSUME NEW e \in LossesSinceWin(E) PROVE FALSE
      <3>1. e \in E /\ e # x /\ Before(x, e)
        BY <1>1, <1>3, <1>5 DEF LossesSinceWin
      <3> QED
        BY <1>1, <3>1, BeforeOrders
    <2>2. LossesSinceWin(E) = {}
      BY <2>1
    <2> QED
      BY <1>3, <1>5, <2>2, FS_EmptySet DEF CountLoss, x
  <1>6. CASE x.pnl = 0
    <2>1. LossesSinceWin(E) = before
      BY <1>1, <1>6 DEF LossesSinceWin
    <2> QED
      BY <1>6, <2>1 DEF CountLoss, x
  <1> QED
    BY <1>3, <1>4, <1>5, <1>6

\* A streak counts the losses since the last win.
LEMMA StreakCounts ==
  ASSUME NEW E, Distinct(E), IsFiniteSet(E)
  PROVE  Streak(E) = Cardinality(LossesSinceWin(E))
  <1> DEFINE counts(g) == [s \in SUBSET E |->
                             IF s = {} THEN 0
                             ELSE LET x == Latest(s) IN CountLoss(x, g[s \ {x}])]
             iter == CHOOSE g : g = counts(g)
             sizes == [s \in SUBSET E |-> Cardinality(LossesSinceWin(s))]
  <1>1. Streak(E) = iter[E]
    BY DEF Streak, MapThenFoldSet
  <1>2. \A s \in SUBSET E : Distinct(s) /\ IsFiniteSet(s)
    BY FS_Subset DEF Distinct
  <1>3. \A s \in SUBSET E : s # {} => s \ {Latest(s)} \in SUBSET E /\ Latest(s) \in s
    BY <1>2, LatestIs
  <1>4. LossesSinceWin({}) = {}
    BY DEF LossesSinceWin
  <1>5. sizes = counts(sizes)
    <2>1. ASSUME NEW s \in SUBSET E
          PROVE  Cardinality(LossesSinceWin(s)) =
                   IF s = {} THEN 0
                   ELSE CountLoss(Latest(s), Cardinality(LossesSinceWin(s \ {Latest(s)})))
      BY <1>2, <1>4, LatestCounts, FS_EmptySet
    <2>2. ASSUME NEW s \in SUBSET E PROVE sizes[s] = counts(sizes)[s]
      BY <1>3, <2>1
    <2> QED
      BY <2>2
  <1>6. iter = counts(iter)
    <2> HIDE DEF counts, sizes
    <2> QED
      BY <1>5
  <1> DEFINE wrong == {s \in SUBSET E : iter[s] # Cardinality(LossesSinceWin(s))}
             ranks == {Cardinality(s) : s \in wrong}
  <1> HIDE DEF iter
  <1>7. wrong = {}
    <2> SUFFICES ASSUME wrong # {} PROVE FALSE
      OBVIOUS
    <2>1. ranks \in SUBSET Nat /\ ranks # {}
      BY <1>2, FS_CardinalityType
    <2>2. PICK n \in ranks : \A k \in ranks : n <= k
      <3> HIDE DEF ranks
      <3> QED
        BY <2>1, LeastNumber
    <2>3. PICK s \in wrong : n = Cardinality(s)
      BY <2>2
    <2>4. CASE s = {}
      <3>1. iter[s] = 0
        BY <1>6, <2>4
      <3> QED
        BY <1>4, <2>3, <2>4, <3>1, FS_EmptySet
    <2>5. CASE s # {}
      <3>1. s \in SUBSET E /\ Latest(s) \in s /\ s \ {Latest(s)} \in SUBSET E
        BY <1>3, <2>5
      <3>2. Cardinality(s \ {Latest(s)}) = n - 1 /\ n \in Nat
        BY <1>2, <2>1, <2>3, <3>1, FS_RemoveElement
      <3>3. s \ {Latest(s)} \notin wrong
        BY <2>2, <3>2
      <3>4. iter[s] = CountLoss(Latest(s), iter[s \ {Latest(s)}])
        BY <1>6, <2>5, <3>1
      <3> QED
        BY <1>2, <2>3, <2>5, <3>1, <3>3, <3>4, LatestCounts
    <2> QED
      BY <2>4, <2>5
  <1> QED
    BY <1>1, <1>7

-----------------------------------------------------------------------------
(* Sums. *)

\* One of the trades, in the order MapThenSumSet adds them.
AnyOf(E) == CHOOSE e \in E : TRUE

\* Trades without a loss have no negative sum.
LEMMA SumOfNoLosses ==
  ASSUME NEW E, IsFiniteSet(E), \A e \in E : e.pnl \in Nat
  PROVE  Pnl(E) \in Nat
  <1> DEFINE sums(g) == [s \in SUBSET E |->
                           IF s = {} THEN 0
                           ELSE LET x == AnyOf(s) IN x.pnl + g[s \ {x}]]
             iter == CHOOSE g : g = sums(g)
  <1>1. Pnl(E) = iter[E]
    BY DEF Pnl, MapThenSumSet, MapThenFoldSet, AnyOf
  <1>2. \A s \in SUBSET E : IsFiniteSet(s) /\ Cardinality(s) \in Nat
    BY FS_Subset, FS_CardinalityType
  <1>3. \A s \in SUBSET E : s # {} =>
           /\ AnyOf(s) \in s /\ AnyOf(s).pnl \in Nat /\ s \ {AnyOf(s)} \in SUBSET E
           /\ Cardinality(s \ {AnyOf(s)}) = Cardinality(s) - 1
    BY <1>2, FS_RemoveElement DEF AnyOf
  <1>4. \A s \in SUBSET E : Cardinality(s) = 0 <=> s = {}
    BY <1>2, FS_EmptySet
  \* So far g is right on the sets of at most n trades.
  <1> DEFINE UpTo(g, n) == \A s \in SUBSET E : Cardinality(s) <= n => g[s] = sums(g)[s]
             unreached == {n \in Nat : ~\E g \in [SUBSET E -> Nat] : UpTo(g, n)}
  <1>5. unreached = {}
    <2> SUFFICES ASSUME unreached # {} PROVE FALSE
      OBVIOUS
    <2>1. PICK n \in unreached : \A k \in unreached : n <= k
      <3>1. unreached \in SUBSET Nat
        OBVIOUS
      <3> HIDE DEF unreached
      <3> QED
        BY <3>1, LeastNumber
    <2>2. CASE n = 0
      <3> DEFINE zero == [s \in SUBSET E |-> 0]
      <3>1. zero \in [SUBSET E -> Nat] /\ UpTo(zero, 0)
        BY <1>2, <1>4
      <3> QED
        BY <2>1, <2>2, <3>1
    <2>3. CASE n # 0
      <3>1. n \in Nat /\ n - 1 \in Nat
        BY <2>3
      <3>a. n - 1 \notin unreached
        <4> HIDE DEF unreached
        <4> QED
          BY <2>1, <3>1
      <3>2. PICK g \in [SUBSET E -> Nat] : UpTo(g, n - 1)
        BY <3>1, <3>a
      <3> DEFINE next == [s \in SUBSET E |-> sums(g)[s]]
      <3>3. next \in [SUBSET E -> Nat]
        <4>1. ASSUME NEW s \in SUBSET E PROVE sums(g)[s] \in Nat
          <5>1. CASE s = {}
            BY <5>1
          <5>2. CASE s # {}
            <6>1. AnyOf(s).pnl \in Nat /\ g[s \ {AnyOf(s)}] \in Nat
              BY <1>3, <5>2
            <6>2. sums(g)[s] = AnyOf(s).pnl + g[s \ {AnyOf(s)}]
              BY <5>2
            <6> HIDE DEF sums
            <6> QED
              BY <6>1, <6>2
          <5> QED
            BY <5>1, <5>2
        <4> HIDE DEF sums
        <4> QED
          BY <4>1
      <3>4. ASSUME NEW s \in SUBSET E, Cardinality(s) <= n PROVE next[s] = sums(next)[s]
        <4>1. CASE s = {}
          BY <4>1
        <4>2. CASE s # {}
          <5> DEFINE rest == s \ {AnyOf(s)}
          <5>1. rest \in SUBSET E /\ Cardinality(rest) <= n - 1
            BY <1>2, <1>3, <2>1, <3>4, <4>2
          <5>2. next[rest] = g[rest]
            <6> HIDE DEF sums
            <6> QED
              BY <3>2, <5>1
          <5> QED
            BY <4>2, <5>1, <5>2
        <4> QED
          BY <4>1, <4>2
      <3>5. UpTo(next, n)
        <4> HIDE DEF next, sums
        <4> QED
          BY <3>4
      <3> QED
        BY <2>1, <3>3, <3>5
    <2> QED
      BY <2>2, <2>3
  <1>6. PICK g \in [SUBSET E -> Nat] : UpTo(g, Cardinality(E))
    BY <1>2, <1>5
  <1>7. g = sums(g)
    <2>1. \A s \in SUBSET E : Cardinality(s) <= Cardinality(E)
      BY FS_Subset
    <2>2. \A s \in SUBSET E : g[s] = sums(g)[s]
      BY <1>6, <2>1
    <2> QED
      BY <1>6, <2>2
  <1>8. iter = sums(iter)
    <2> HIDE DEF sums
    <2> QED
      BY <1>7
  <1> DEFINE wrong == {s \in SUBSET E : iter[s] \notin Nat}
             ranks == {Cardinality(s) : s \in wrong}
  <1> HIDE DEF iter
  <1>9. wrong = {}
    <2> SUFFICES ASSUME wrong # {} PROVE FALSE
      OBVIOUS
    <2>1. ranks \in SUBSET Nat /\ ranks # {}
      BY <1>2
    <2>2. PICK n \in ranks : \A k \in ranks : n <= k
      <3> HIDE DEF ranks
      <3> QED
        BY <2>1, LeastNumber
    <2>3. PICK s \in wrong : n = Cardinality(s)
      BY <2>2
    <2>4. CASE s = {}
      BY <1>8, <2>3, <2>4
    <2>5. CASE s # {}
      <3>1. s \in SUBSET E /\ AnyOf(s).pnl \in Nat /\ s \ {AnyOf(s)} \in SUBSET E
            /\ Cardinality(s \ {AnyOf(s)}) = n - 1 /\ n \in Nat
        BY <1>2, <1>3, <2>3, <2>5
      <3>2. iter[s \ {AnyOf(s)}] \in Nat
        BY <2>2, <3>1
      <3>3. iter[s] = AnyOf(s).pnl + iter[s \ {AnyOf(s)}]
        BY <1>8, <2>5, <3>1
      <3> QED
        BY <2>3, <3>1, <3>2, <3>3
    <2> QED
      BY <2>4, <2>5
  <1> QED
    BY <1>1, <1>9

-----------------------------------------------------------------------------
(* What an entry is refused and allowed for. *)

\* The trades of a day that are on record.
LEMMA RecordedDay ==
  ASSUME TypeOK, ReportsInv
  PROVE  /\ Distinct(OnDay(events, activeDay)) /\ IsFiniteSet(OnDay(events, activeDay))
         /\ OnDay(events, activeDay) \subseteq history
         /\ \A e \in OnDay(events, activeDay) : e.pnl \in Int
  <1>1. OnDay(events, activeDay) \subseteq history
    BY DEF ReportsInv, OnDay
  <1>2. Distinct(OnDay(events, activeDay))
    BY <1>1 DEF TypeOK, ReportsInv, Distinct
  <1>3. IsFiniteSet(OnDay(events, activeDay))
    BY <1>1, FS_Subset DEF TypeOK
  <1> QED
    BY <1>1, <1>2, <1>3, BeforeOrders

\* NoEntryInAStreak: no entry while the last of the day's trades told of are losses.
THEOREM StreakSafety == Spec => []NoEntryInAStreak
  <1>1. IInv /\ TypeOK => NoEntryInAStreak
    <2> DEFINE day == OnDay(Told, activeDay)
    <2> SUFFICES ASSUME IInv, TypeOK, pc = "allowed", StreakLimit > 0,
                        NEW S \in SUBSET day, Cardinality(S) = StreakLimit,
                        \A e \in S : e.pnl < 0,
                        \A e \in S, w \in day : w.pnl > 0 => Before(w, e)
                 PROVE  FALSE
      BY DEF NoEntryInAStreak
    <2>1. day = OnDay(events, activeDay)
      BY ToldIsRecorded DEF IInv
    <2>2. Distinct(day) /\ IsFiniteSet(day)
      BY <2>1, RecordedDay DEF IInv
    <2>3. losses = Streak(day) /\ ~(losses >= StreakLimit)
      BY <2>1 DEF IInv, SumInv, DecisionInv, InStreak
    <2> HIDE DEF day
    <2>4. S \subseteq LossesSinceWin(day)
      BY DEF LossesSinceWin
    <2>5. LossesSinceWin(day) \subseteq day
      BY DEF LossesSinceWin
    <2>6. /\ IsFiniteSet(LossesSinceWin(day))
          /\ Cardinality(S) <= Cardinality(LossesSinceWin(day))
      BY <2>2, <2>4, <2>5, FS_Subset
    <2>7. Cardinality(LossesSinceWin(day)) \in Nat /\ StreakLimit \in Nat
      BY <2>6, FS_CardinalityType, BreakerAssumption
    <2> QED
      BY <2>2, <2>3, <2>6, <2>7, StreakCounts
  <1> QED
    BY <1>1, Invariant, TypeSafety, PTL

\* A pause is for a loss of the day it was set on.
LossToday == \E e \in history : e.pnl < 0 /\ Day(e.at) = activeDay

PauseInv == pauseUntil # None => LossToday

\* Either limit is reached by a loss of the day.
LEMMA LimitsNeedALoss ==
  ASSUME IInv, TypeOK, MaxDailyLoss > 0, known, activeDay # None, LossLimitReached \/ InStreak
  PROVE  LossToday
  <1> DEFINE day == OnDay(events, activeDay)
  <1>1. /\ Distinct(day) /\ IsFiniteSet(day) /\ day \subseteq history
        /\ \A e \in day : e.pnl \in Int /\ Day(e.at) = activeDay
    BY RecordedDay DEF IInv, OnDay
  <1>2. dailyPnl = Pnl(day) /\ losses = Streak(day)
    BY DEF IInv, SumInv
  <1> HIDE DEF day
  <1>3. CASE LossLimitReached
    <2> SUFFICES ASSUME \A e \in day : ~(e.pnl < 0) PROVE FALSE
      BY <1>1 DEF LossToday
    <2>1. Pnl(day) \in Nat
      BY <1>1, SumOfNoLosses
    <2>2. MaxDailyLoss \in Nat /\ startBalance \in Int /\ startBalance > 0
      BY BreakerAssumption DEF TypeOK, IInv, DayInv
    <2>3. ASSUME NEW a \in Nat, NEW b \in Nat, a > 0, b > 0 PROVE a * b > 0 /\ a * b \in Nat
      BY <2>3
    <2>4. MaxDailyLoss * startBalance > 0 /\ MaxDailyLoss * startBalance \in Nat
      BY <2>2, <2>3
    <2>5. -100 * dailyPnl >= MaxDailyLoss * startBalance
      BY <1>3 DEF LossLimitReached
    <2> QED
      BY <1>2, <2>1, <2>4, <2>5
  <1>4. CASE InStreak
    <2>1. losses = Cardinality(LossesSinceWin(day)) /\ losses >= StreakLimit
          /\ StreakLimit > 0 /\ StreakLimit \in Nat
      BY <1>1, <1>2, <1>4, StreakCounts, BreakerAssumption DEF InStreak
    <2>2. LossesSinceWin(day) # {}
      BY <2>1, FS_EmptySet
    <2>3. PICK e \in day : e.pnl < 0
      BY <2>2 DEF LossesSinceWin
    <2> QED
      BY <1>1, <2>3 DEF LossToday
  <1> QED
    BY <1>3, <1>4

\* A pause ends with its day, and every limit that sets one is reached by a loss of the day.
LEMMA PauseStep ==
  ASSUME IInv, TypeOK, MaxDailyLoss > 0, PauseInv, [Next]_vars
  PROVE  PauseInv'
  <1> USE DEF state, broker
  <1>1. CASE CanTrade
    <2>1. UNCHANGED <<history, activeDay>>
      BY <1>1 DEF CanTrade
    <2>2. CASE UNCHANGED pauseUntil
      BY <2>1, <2>2 DEF PauseInv, LossToday
    <2>3. CASE ~UNCHANGED pauseUntil
      <3>1. LossLimitReached \/ InStreak
        BY <1>1, <2>3 DEF CanTrade
      <3>2. known /\ activeDay # None
        BY <1>1 DEF CanTrade, IInv, DecisionInv
      <3> QED
        BY <2>1, <3>1, <3>2, LimitsNeedALoss DEF PauseInv, LossToday
    <2> QED
      BY <2>2, <2>3
  <1>2. CASE Observe \/ ObserveInvalid
    <2>1. BeginDay /\ UNCHANGED history
      BY <1>2 DEF Observe, ObserveInvalid
    <2> QED
      BY <2>1 DEF BeginDay, PauseInv, LossToday
  <1>3. CASE CloseTrade
    <2>1. history \subseteq history' /\ UNCHANGED <<pauseUntil, activeDay>>
      BY <1>3 DEF CloseTrade
    <2> QED
      BY <2>1 DEF PauseInv, LossToday
  <1>4. CASE Restart
    BY <1>4 DEF Restart, PauseInv
  <1>5. CASE UNCHANGED <<history, pauseUntil, activeDay>>
    BY <1>5 DEF PauseInv, LossToday
  <1> QED
    BY <1>1, <1>2, <1>3, <1>4, <1>5 DEF Next, Tick, Ask, RefreshFails, Enter, vars

\* RefusedForTodaysLosses: with a limit above 0, whatever the zone, no loss and no pause of
\* yesterday refuses an entry.
THEOREM TodaySafety == MaxDailyLoss > 0 => (Spec => RefusedForTodaysLosses)
  <1> SUFFICES ASSUME MaxDailyLoss > 0 PROVE Spec => RefusedForTodaysLosses
    OBVIOUS
  <1>1. Init => PauseInv
    BY DEF Init, FreshState, PauseInv
  <1>2. IInv /\ TypeOK /\ PauseInv /\ [Next]_vars => PauseInv'
    BY PauseStep
  <1>3. IInv /\ TypeOK /\ PauseInv /\ [Next]_vars
        => [pc = "answered" /\ pc' = "idle" /\ known' /\ restarts' = restarts
              => \E e \in history : e.pnl < 0 /\ Day(e.at) = Day(now)]_vars
    <2> SUFFICES ASSUME IInv, TypeOK, PauseInv, Next,
                        pc = "answered", pc' = "idle", known', restarts' = restarts
                 PROVE  \E e \in history : e.pnl < 0 /\ Day(e.at) = Day(now)
      OBVIOUS
    <2>1. CanTrade
      <3>1. ~Restart
        BY DEF Restart, TypeOK
      <3> QED
        BY <3>1 DEF Next, Tick, CloseTrade, Ask, RefreshFails, Observe, ObserveInvalid, Enter
    <2>2. activeDay = Day(now) /\ known /\ activeDay # None
      BY <2>1 DEF CanTrade, Stale, IInv, DecisionInv
    <2>3. LossToday
      <3>1. CASE Paused
        BY <3>1 DEF Paused, PauseInv
      <3>2. CASE LossLimitReached \/ InStreak
        BY <2>2, <3>2, LimitsNeedALoss
      <3> QED
        BY <2>1, <3>1, <3>2 DEF CanTrade
    <2> QED
      BY <2>2, <2>3 DEF LossToday
  <1> QED
    BY <1>1, <1>2, <1>3, Invariant, TypeSafety, PTL DEF Spec, RefusedForTodaysLosses
=============================================================================
