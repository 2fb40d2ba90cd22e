--------------------------- MODULE CircuitBreaker ---------------------------
(***************************************************************************)
(* The circuit breaker of the live bot: core/risk_state.py as bot.py       *)
(* drives it.  Before an entry the bot asks the broker for the balance and *)
(* the trades closed in the last two days, feeds them to RiskState.observe *)
(* and asks can_trade.  The broker's history is late, incomplete and       *)
(* repeats itself; time passes and trades close between the question, the  *)
(* answer and the decision; the bot may restart with an empty RiskState.   *)
(*                                                                         *)
(* Time is a count of ticks in UTC, days are those of the account's zone.  *)
(***************************************************************************)
EXTENDS Integers, FiniteSets, FiniteSetsExt, Folds

CONSTANTS
    DayLength,       \* ticks of a day
    ZoneOffset,      \* ticks the account's zone is ahead of UTC
    Deposit,         \* balance at the start
    MaxDailyLoss,    \* max_daily_loss_percent, in percent
    StreakLimit,     \* pause_after_consecutive_losses
    PauseDuration,   \* pause_duration_minutes, in ticks
    MaxAge,          \* max_observation_age_seconds, in ticks
    Results,         \* net results a trade can close with
    MaxTrades, MaxTime, MaxRestarts   \* bounds

ASSUME BreakerAssumption ==
    /\ DayLength \in Nat \ {0}
    /\ ZoneOffset \in 0..DayLength
    /\ {Deposit, MaxDailyLoss, StreakLimit, PauseDuration, MaxAge,
        MaxTrades, MaxTime, MaxRestarts} \subseteq Nat
    /\ Results \subseteq Int

VARIABLES
    now,
    balance,       \* of the account, at the broker
    positions,     \* number of open positions
    history,       \* closed trades, at the broker
    pc,            \* next step of the bot: "idle", "asked", "answered", "allowed"
    asked,         \* while it is asked: the time of the question and the balance read
    restarts,
    \* fields of RiskState
    known, observedAt, activeDay, startBalance, dailyPnl, losses, pauseUntil, events

state == <<known, observedAt, activeDay, startBalance, dailyPnl, losses, pauseUntil, events>>
broker == <<balance, positions, history>>
vars == <<now, broker, pc, asked, restarts, state>>

None == -1

Day(t) == (t + ZoneOffset) \div DayLength

\* The last tick of the UTC day of t: the pause after a daily loss ends there.
EndOfDay(t) == (t \div DayLength) * DayLength + DayLength - 1

OnDay(E, d) == {e \in E : Day(e.at) = d}
Pnl(E)      == MapThenSumSet(LAMBDA e : e.pnl, E)
Before(e, f) == e.at < f.at \/ (e.at = f.at /\ e.id < f.id)

Latest(E) == CHOOSE e \in E : \A f \in E \ {e} : Before(f, e)

\* Losses after the last win, in the order of the closes; break-even trades do not count.
CountLoss(e, n) == IF e.pnl < 0 THEN n + 1 ELSE IF e.pnl > 0 THEN 0 ELSE n
Streak(E) == MapThenFoldSet(CountLoss, 0, LAMBDA e : e, Latest, E)

NoQuestion == [at |-> 0, balance |-> 0]

FreshState ==
    /\ known = FALSE
    /\ observedAt = None
    /\ activeDay = None
    /\ startBalance = 0
    /\ dailyPnl = 0
    /\ losses = 0
    /\ pauseUntil = None
    /\ events = {}

Init ==
    /\ now = 0
    /\ balance = Deposit
    /\ positions = 0
    /\ history = {}
    /\ pc = "idle"
    /\ asked = NoQuestion
    /\ restarts = 0
    /\ FreshState

-----------------------------------------------------------------------------
(* The broker and the clock. *)

Tick ==
    /\ now < MaxTime
    /\ now' = now + 1
    /\ UNCHANGED <<broker, pc, asked, restarts, state>>

\* A position closes by its stop or target.  Deal ids do not follow the order of the closes;
\* they matter between trades of one tick only, so that later ticks get larger ids here.
CloseTrade ==
    /\ positions > 0
    /\ positions' = positions - 1
    /\ \E pnl \in Results, id \in 1..MaxTrades \ {e.id : e \in history} :
          /\ \A e \in history : e.at < now => e.id < id
          /\ history' = history \cup {[id |-> id, at |-> now, pnl |-> pnl]}
          /\ balance' = balance + pnl
    /\ UNCHANGED <<now, pc, asked, restarts, state>>

-----------------------------------------------------------------------------
(* _check_circuit_breaker: _refresh_risk_state, then can_trade *)

\* The clock is read first, then the account.
Ask ==
    /\ pc = "idle"
    /\ asked' = [at |-> now, balance |-> balance]
    /\ pc' = "asked"
    /\ UNCHANGED <<now, broker, restarts, state>>

\* What get_closed_trade_events may return: trades of the last two days, some still missing.
Reportable == {e \in history : e.at <= asked.at /\ e.at >= asked.at - 2 * DayLength}

\* mark_unknown: no balance (a failing query reads as 0) or no history.  The entry is refused.
RefreshFails ==
    /\ pc = "asked"
    /\ known' = FALSE
    /\ pc' = "idle"
    /\ asked' = NoQuestion
    /\ UNCHANGED <<now, broker, restarts, observedAt, activeDay,
                   startBalance, dailyPnl, losses, pauseUntil, events>>

\* Mutant: a pause survives midnight.
BeginDayPaused ==
    LET day == Day(asked.at) IN
    /\ pauseUntil' = pauseUntil
    /\ IF activeDay # day
       THEN activeDay' = day /\ startBalance' = asked.balance
       ELSE UNCHANGED <<activeDay, startBalance>>

\* observe: a new local day takes its opening balance from this observation.
BeginDay ==
    LET day == Day(asked.at) IN
    IF activeDay # day
    THEN /\ activeDay' = day
         /\ startBalance' = asked.balance
         /\ pauseUntil' = None
    ELSE UNCHANGED <<activeDay, startBalance, pauseUntil>>

\* process_close_event for every reported trade: a known id is ignored.
Record(reported) ==
    events' = events \cup {e \in reported : \A k \in events : k.id # e.id}

\* Mutant: every trade of the answer counts for the current day.
SummarizeEveryDay ==
    /\ dailyPnl' = Pnl(events')
    /\ losses' = Streak(events')

\* Mutant: only the trades that are new in the answer make a streak.
SummarizeNews ==
    /\ dailyPnl' = Pnl(OnDay(events', activeDay'))
    /\ losses' = Streak(OnDay(events' \ events, activeDay'))

Summarize ==
    /\ dailyPnl' = Pnl(OnDay(events', activeDay'))
    /\ losses' = Streak(OnDay(events', activeDay'))

\* observe with a valid answer.
Observe ==
    /\ pc = "asked"
    /\ asked.balance > 0
    /\ \E reported \in SUBSET Reportable : Record(reported)
    /\ BeginDay
    /\ Summarize
    /\ observedAt' = asked.at
    /\ known' = TRUE
    /\ pc' = "answered"
    /\ asked' = NoQuestion
    /\ UNCHANGED <<now, broker, restarts>>

\* observe with an event it cannot use: the day and the events before it are kept.
ObserveInvalid ==
    /\ pc = "asked"
    /\ asked.balance > 0
    /\ \E reported \in SUBSET Reportable : Record(reported)
    /\ BeginDay
    /\ IF OnDay(events' \ events, activeDay') = {}
       THEN UNCHANGED <<dailyPnl, losses>>
       ELSE Summarize
    /\ known' = FALSE
    /\ pc' = "idle"
    /\ asked' = NoQuestion
    /\ UNCHANGED <<now, broker, restarts, observedAt>>

Stale == now - observedAt > MaxAge \/ activeDay # Day(now)
\* Mutant: the loss limit sets one pause and is not asked again.
LossLimitReachedOnce ==
    startBalance > 0 /\ pauseUntil = None /\ -100 * dailyPnl >= MaxDailyLoss * startBalance

LossLimitReached == startBalance > 0 /\ -100 * dailyPnl >= MaxDailyLoss * startBalance
Paused == pauseUntil # None /\ now < pauseUntil
InStreak == StreakLimit > 0 /\ losses >= StreakLimit

\* can_trade, reading the clock again.
CanTrade ==
    /\ pc = "answered"
    /\ \/ /\ Stale
          /\ known' = FALSE
          /\ pc' = "idle"
          /\ UNCHANGED pauseUntil
       \/ /\ ~Stale /\ Paused
          /\ pc' = "idle"
          /\ UNCHANGED <<known, pauseUntil>>
       \/ /\ ~Stale /\ ~Paused /\ LossLimitReached
          /\ pauseUntil' = EndOfDay(now)
          /\ pc' = "idle"
          /\ UNCHANGED known
       \/ /\ ~Stale /\ ~Paused /\ ~LossLimitReached /\ InStreak
          /\ pauseUntil' = now + PauseDuration
          /\ pc' = "idle"
          /\ UNCHANGED known
       \/ /\ ~Stale /\ ~Paused /\ ~LossLimitReached /\ ~InStreak
          /\ pc' = "allowed"
          /\ UNCHANGED <<known, pauseUntil>>
    /\ UNCHANGED <<now, broker, asked, restarts, observedAt, activeDay,
                   startBalance, dailyPnl, losses, events>>

\* The rest of _execute_signal: the order fills, or a later check or the broker refuses it.
Enter ==
    /\ pc = "allowed"
    /\ pc' = "idle"
    /\ \/ UNCHANGED positions
       \/ /\ Cardinality(history) + positions < MaxTrades
          /\ positions' = positions + 1
    /\ UNCHANGED <<now, balance, history, asked, restarts, state>>

\* The bot starts again: __init__ builds a new RiskState.
Restart ==
    /\ restarts < MaxRestarts
    /\ restarts' = restarts + 1
    /\ pc' = "idle"
    /\ asked' = NoQuestion
    /\ known' = FALSE
    /\ observedAt' = None
    /\ activeDay' = None
    /\ startBalance' = 0
    /\ dailyPnl' = 0
    /\ losses' = 0
    /\ pauseUntil' = None
    /\ events' = {}
    /\ UNCHANGED <<now, broker>>

Next ==
    \/ Tick \/ CloseTrade
    \/ Ask \/ RefreshFails \/ Observe \/ ObserveInvalid \/ CanTrade \/ Enter
    \/ Restart

Spec == Init /\ [][Next]_vars

-----------------------------------------------------------------------------
(* Properties. *)

Trades == [id : 1..MaxTrades, at : 0..MaxTime, pnl : Results]

\* (dailyPnl and losses are whatever Pnl and Streak return.)
TypeOK ==
    /\ now \in 0..MaxTime
    /\ balance \in Int
    /\ positions \in 0..MaxTrades
    /\ history \subseteq Trades /\ IsFiniteSet(history)
    /\ pc \in {"idle", "asked", "answered", "allowed"}
    /\ asked \in [at : 0..MaxTime, balance : Int]
    /\ restarts \in 0..MaxRestarts
    /\ known \in BOOLEAN
    /\ observedAt \in {None} \cup 0..MaxTime
    /\ activeDay \in {None} \cup Int
    /\ startBalance \in Int
    /\ pauseUntil \in {None} \cup Int
    /\ events \subseteq Trades

\* The closed trades this incarnation of the bot was told of.
Told == {h \in history : \E e \in events : e.id = h.id}

(***************************************************************************)
(* However late, often and in whatever order the broker reports them, each *)
(* closed trade counts once and for the local day it was closed on: a      *)
(* known state holds the sum of the trades of the day it decides on that   *)
(* the bot was told of since it started, also those told of before that    *)
(* day began or with an answer that was refused.                           *)
(***************************************************************************)
TradesCountOnce ==
    known => dailyPnl = Pnl(OnDay(Told, activeDay))

(***************************************************************************)
(* No entry is allowed while the day's last StreakLimit trades that won or *)
(* lost, of those the broker just reported, were all losses: a restart     *)
(* does not forget a streak, and trades reported late take their place in  *)
(* it.                                                                     *)
(***************************************************************************)
NoEntryInAStreak ==
    pc = "allowed" /\ StreakLimit > 0 =>
        LET day == OnDay(Told, activeDay) IN
        ~\E S \in SUBSET day :
            /\ Cardinality(S) = StreakLimit
            /\ \A e \in S : e.pnl < 0
            /\ \A e \in S, w \in day : w.pnl > 0 => Before(w, e)

(***************************************************************************)
(* No entry is allowed once the closed trades the bot was told of lost     *)
(* MaxDailyLoss percent of the day's opening balance or more: the limit    *)
(* still holds when the pause it set has run out, and after a restart.     *)
(***************************************************************************)
NoEntryPastLossLimit ==
    pc = "allowed" =>
        ~(-100 * Pnl(OnDay(Told, activeDay)) >= MaxDailyLoss * startBalance)

(***************************************************************************)
(* A breaker that knows its state refuses an entry only for a loss of the  *)
(* local day it decides on: neither a pause nor a loss of yesterday        *)
(* outlives midnight in the account's zone.                                *)
(***************************************************************************)
RefusedForTodaysLosses ==
    [][pc = "answered" /\ pc' = "idle" /\ known' /\ restarts' = restarts
        => \E e \in history : e.pnl < 0 /\ Day(e.at) = Day(now)]_vars

=============================================================================
