----------------------------- MODULE TradingBot -----------------------------
(***************************************************************************)
(* The live trading bots of bot.py and __main__.py.  One process runs one  *)
(* bot per account.  A bot's main thread looks at the kill and the restart *)
(* signal, two files all bots of the process share, and, when it polls,    *)
(* checks the signals of its symbols; when it streams, a second thread     *)
(* does that for every bar the broker delivers.  Both threads may carry    *)
(* out a kill.  Broker calls fail, answers get lost, positions are closed  *)
(* by their stops, and the process is restarted whenever it ends.          *)
(*                                                                         *)
(* The circuit breaker is a possible refusal here (see CircuitBreaker), as *)
(* is the exposure limit, a ratio of the account's balance.                *)
(***************************************************************************)
EXTENDS Integers, FiniteSets

CONSTANTS
    Bots, Symbols,
    MaxConcurrent,   \* max_concurrent_positions
    MaxPerSymbol,    \* max_position_per_symbol
    Hours, MaxOrders, MaxFaults, MaxCrashes, MaxKills, MaxRestarts   \* bounds

ASSUME BotAssumption ==
    {MaxConcurrent, MaxPerSymbol, Hours, MaxOrders, MaxFaults, MaxCrashes, MaxKills, MaxRestarts}
        \subseteq Nat

Threads == {"main", "dispatch"}
Positions == [sym : Symbols, id : 1..MaxOrders]

VARIABLES
    killFile, restartFile,    \* the signals in stats_dir
    pos,          \* pos[b]: open positions of the account, at the broker
    hour,         \* current hour
    main,         \* main[b]: what the main thread does
    mode,         \* mode[b]: "stream" or "poll"
    stopped,      \* _stop_event
    killed,       \* _killed
    connected,    \* the adapter's session
    signalled,    \* last_signal_hour
    scan,         \* scan[b]: symbols _check_all_signals still has to look at
    job,          \* job[b]: the signal being executed, if any
    kill,         \* kill[b][t]: the kill thread t carries out, if any
    late,         \* late[b]: orders filled since a kill was ordered, Never when none was
    overtaken,    \* overtaken[b]: another bot took the signal away before b saw it
    orders, faults, crashes, kills, restarts   \* bounded counters

signals == <<killFile, restartFile>>
watch   == <<late, overtaken>>          \* observe only
budgets == <<orders, faults, crashes, kills, restarts>>
vars == <<signals, pos, hour, main, mode, stopped, killed, connected, signalled,
          scan, job, kill, watch, budgets>>

Never   == -1
NoJob   == [at |-> "idle"]
NoKill  == [at |-> "none"]
NoKills == [t \in Threads |-> NoKill]

Jobs == {NoJob} \cup [at : {"check", "kill", "limits", "order"}, sym : Symbols]
Kills == {NoKill} \cup [at : {"closing"}, found : SUBSET Positions,
                        todo : SUBSET Positions, ok : BOOLEAN]

\* The thread that checks signals: the broker's when streaming, else the main thread.
Worker(b) == IF mode[b] = "stream" THEN "dispatch" ELSE "main"

Idle(b) == job[b] = NoJob

Init ==
    /\ killFile = FALSE
    /\ restartFile = FALSE
    /\ pos = [b \in Bots |-> {}]
    /\ hour = 0
    /\ mode = [b \in Bots |-> "poll"]
    /\ stopped = [b \in Bots |-> FALSE]
    /\ killed = [b \in Bots |-> FALSE]
    /\ connected = [b \in Bots |-> FALSE]
    /\ signalled = [b \in Bots |-> [s \in Symbols |-> Never]]
    /\ scan = [b \in Bots |-> {}]
    /\ job = [b \in Bots |-> NoJob]
    /\ kill = [b \in Bots |-> NoKills]
    /\ main = [b \in Bots |-> "down"]
    /\ late = [b \in Bots |-> Never]
    /\ overtaken = [b \in Bots |-> FALSE]
    /\ orders = 0 /\ faults = 0 /\ crashes = 0 /\ kills = 0 /\ restarts = 0

Fault == faults < MaxFaults /\ faults' = faults + 1

-----------------------------------------------------------------------------
(* The process and its surroundings. *)

\* main: every account's bot is built anew and runs in a thread of its own.
StartProcess ==
    /\ \A b \in Bots : main[b] = "down"
    /\ main' = [b \in Bots |-> "init"]
    /\ IF killFile THEN UNCHANGED watch
                   ELSE /\ late' = [b \in Bots |-> Never]
                        /\ overtaken' = [b \in Bots |-> FALSE]
    /\ UNCHANGED <<signals, pos, hour, mode, stopped, killed, connected, signalled,
                   scan, job, kill, budgets>>

\* The process ends, with every thread in it: all bots are done, or it is killed.
EndProcess ==
    /\ \/ (\A b \in Bots : main[b] = "done") /\ UNCHANGED crashes
       \/ /\ crashes < MaxCrashes
          /\ \E b \in Bots : main[b] # "down"
          /\ crashes' = crashes + 1
    /\ stopped' = [b \in Bots |-> FALSE]
    /\ killed' = [b \in Bots |-> FALSE]
    /\ connected' = [b \in Bots |-> FALSE]
    /\ signalled' = [b \in Bots |-> [s \in Symbols |-> Never]]
    /\ scan' = [b \in Bots |-> {}]
    /\ job' = [b \in Bots |-> NoJob]
    /\ kill' = [b \in Bots |-> NoKills]
    /\ main' = [b \in Bots |-> "down"]
    /\ mode' = [b \in Bots |-> "poll"]
    /\ UNCHANGED <<signals, pos, hour, watch, orders, faults, kills, restarts>>

\* Somebody puts a signal file there.
OrderKill ==
    /\ ~killFile
    /\ kills < MaxKills
    /\ kills' = kills + 1
    /\ killFile' = TRUE
    /\ late' = [b \in Bots |-> 0]
    /\ overtaken' = [b \in Bots |-> FALSE]
    /\ UNCHANGED <<restartFile, pos, hour, main, mode, stopped, killed, connected, signalled,
                   scan, job, kill, orders, faults, crashes, restarts>>

OrderRestart ==
    /\ ~restartFile
    /\ restarts < MaxRestarts
    /\ restarts' = restarts + 1
    /\ restartFile' = TRUE
    /\ UNCHANGED <<killFile, pos, hour, main, mode, stopped, killed, connected, signalled,
                   scan, job, kill, watch, orders, faults, crashes, kills>>

HourPasses ==
    /\ hour < Hours
    /\ hour' = hour + 1
    /\ UNCHANGED <<signals, pos, main, mode, stopped, killed, connected, signalled,
                   scan, job, kill, watch, budgets>>

\* A stop or a target closes a position.
StopHit(b) ==
    /\ \E p \in pos[b] : pos' = [pos EXCEPT ![b] = @ \ {p}]
    /\ UNCHANGED <<signals, hour, main, mode, stopped, killed, connected, signalled,
                   scan, job, kill, watch, budgets>>

-----------------------------------------------------------------------------
(* The main thread. *)

\* initialize, then _run_streaming (which falls back to polling) or _run_polling.
Initialize(b) ==
    /\ main[b] = "init"
    /\ \/ /\ \E m \in {"stream", "poll"} : mode' = [mode EXCEPT ![b] = m]
          /\ main' = [main EXCEPT ![b] = "loop"]
          /\ connected' = [connected EXCEPT ![b] = TRUE]
          /\ UNCHANGED faults
       \/ /\ Fault
          /\ main' = [main EXCEPT ![b] = "done"]
          /\ UNCHANGED <<mode, connected>>
    /\ UNCHANGED <<signals, pos, hour, stopped, killed, signalled,
                   scan, job, kill, watch, orders, crashes, kills, restarts>>

\* kill: the positions are listed; when that fails the kill has failed.  The caller says
\* what the thread does while it closes them and what after it.
BeginKill(b, t) ==
    /\ killed' = [killed EXCEPT ![b] = TRUE]
    /\ stopped' = [stopped EXCEPT ![b] = TRUE]
    /\ \/ /\ connected[b]
          /\ kill' = [kill EXCEPT ![b][t] = [at |-> "closing", found |-> pos[b],
                                             todo |-> pos[b], ok |-> TRUE]]
          /\ UNCHANGED faults
       \/ /\ ~connected[b] /\ UNCHANGED <<kill, faults>>
       \/ /\ connected[b] /\ Fault /\ UNCHANGED kill

Begun(b, t) == kill'[b][t] # NoKill

\* _check_kill_switch at the head of the main loop.
MainCheck(b) ==
    /\ main[b] = "loop"
    /\ \/ /\ stopped[b] \/ killed[b]
          /\ main' = [main EXCEPT ![b] = "cleanup"]
          /\ UNCHANGED <<stopped, killed, kill, faults>>
       \/ /\ ~stopped[b] /\ ~killed[b] /\ killFile
          /\ BeginKill(b, "main")
          /\ main' = [main EXCEPT ![b] = IF Begun(b, "main") THEN "killing" ELSE "cleanup"]
       \/ /\ ~stopped[b] /\ ~killed[b] /\ ~killFile
          /\ main' = [main EXCEPT ![b] = "rest"]
          /\ UNCHANGED <<stopped, killed, kill, faults>>
    /\ UNCHANGED <<signals, pos, hour, mode, connected, signalled,
                   scan, job, watch, orders, crashes, kills, restarts>>

\* _check_restart_signal, and the polling bot's look at weekday and circuit breaker.
MainGoesOn(b) ==
    /\ main[b] = "rest"
    /\ \/ /\ restartFile
          /\ restartFile' = FALSE
          /\ main' = [main EXCEPT ![b] = "cleanup"]
          /\ UNCHANGED scan
       \/ /\ ~restartFile
          /\ \/ /\ main' = [main EXCEPT ![b] = "sleep"]
                /\ UNCHANGED scan
             \/ /\ mode[b] = "poll"
                /\ main' = [main EXCEPT ![b] = "scan"]
                /\ scan' = [scan EXCEPT ![b] = Symbols]
          /\ UNCHANGED restartFile
    /\ UNCHANGED <<killFile, pos, hour, mode, stopped, killed, connected, signalled,
                   job, kill, watch, budgets>>

MainSleeps(b) ==
    /\ \/ main[b] = "sleep" /\ main' = [main EXCEPT ![b] = "loop"]
       \/ /\ main[b] = "scan" /\ scan[b] = {} /\ Idle(b)
          /\ main' = [main EXCEPT ![b] = "sleep"]
    /\ UNCHANGED <<signals, pos, hour, mode, stopped, killed, connected, signalled,
                   scan, job, kill, watch, budgets>>

\* _cleanup ends the subscriptions, then the adapter disconnects.
Cleanup(b) ==
    /\ main[b] = "cleanup"
    /\ main' = [main EXCEPT ![b] = "done"]
    /\ connected' = [connected EXCEPT ![b] = FALSE]
    /\ UNCHANGED <<signals, pos, hour, mode, stopped, killed, signalled,
                   scan, job, kill, watch, budgets>>

-----------------------------------------------------------------------------
(* Signals: _check_signal and _execute_signal. *)

\* The hour is taken before the order is placed, whatever becomes of it.
Signal(b, s) ==
    /\ signalled[b][s] # hour
    /\ signalled' = [signalled EXCEPT ![b][s] = hour]
    /\ job' = [job EXCEPT ![b] = [at |-> "check", sym |-> s]]

\* _on_bar: subscriptions live from before the main loop until _cleanup.
Bar(b, s) ==
    /\ mode[b] = "stream"
    /\ main[b] \in {"loop", "killing", "rest", "sleep", "cleanup"}
    /\ Idle(b)
    /\ Signal(b, s)
    /\ UNCHANGED <<signals, pos, hour, main, mode, stopped, killed, connected,
                   scan, kill, watch, budgets>>

\* _check_all_signals
Scan(b, s) ==
    /\ main[b] = "scan" /\ Idle(b)
    /\ s \in scan[b]
    /\ scan' = [scan EXCEPT ![b] = @ \ {s}]
    /\ Signal(b, s) \/ UNCHANGED <<signalled, job>>
    /\ UNCHANGED <<signals, pos, hour, main, mode, stopped, killed, connected,
                   kill, watch, budgets>>

Goto(b, at) == job' = [job EXCEPT ![b].at = at]
Drop(b)     == job' = [job EXCEPT ![b] = NoJob]

\* Mutant: the kill switch is left to the main loop.
JobCheckStopped(b) ==
    /\ job[b].at = "check"
    /\ IF stopped[b] THEN Drop(b) ELSE Goto(b, "limits")
    /\ UNCHANGED <<signals, pos, hour, main, mode, stopped, killed, connected, signalled,
                   scan, kill, watch, budgets>>

\* _check_kill_switch before an order.
JobCheck(b) ==
    /\ job[b].at = "check"
    /\ \/ killed[b] /\ Drop(b) /\ UNCHANGED <<stopped, killed, kill, faults>>
       \/ /\ ~killed[b] /\ killFile
          /\ BeginKill(b, Worker(b))
          /\ IF Begun(b, Worker(b)) THEN Goto(b, "kill") ELSE Drop(b)
       \/ /\ ~killed[b] /\ ~killFile
          /\ Goto(b, "limits")
          /\ UNCHANGED <<stopped, killed, kill, faults>>
    /\ UNCHANGED <<signals, pos, hour, main, mode, connected, signalled,
                   scan, watch, orders, crashes, kills, restarts>>

Of(positions, s) == {p \in positions : p.sym = s}

\* Mutant: only the positions of the symbol are counted.
BelowLimitOfSymbol(b, s) == Cardinality(Of(pos[b], s)) < MaxPerSymbol

BelowLimits(b, s) ==
    /\ Cardinality(pos[b]) < MaxConcurrent
    /\ Cardinality(Of(pos[b], s)) < MaxPerSymbol

\* _check_circuit_breaker and _check_position_limits: any failing query refuses.
JobLimits(b) ==
    /\ job[b].at = "limits"
    /\ \/ Drop(b)
       \/ /\ connected[b]
          /\ BelowLimits(b, job[b].sym)
          /\ Goto(b, "order")
    /\ UNCHANGED <<signals, pos, hour, main, mode, stopped, killed, connected, signalled,
                   scan, kill, watch, budgets>>

\* Account, ATR and size may stop it; submit_order may be rejected.  An order that fills
\* with its answer lost counts as rejected for the bot and leaves the same state.
JobOrder(b) ==
    /\ job[b].at = "order"
    /\ Drop(b)
    /\ \/ UNCHANGED <<pos, orders, late>>
       \/ /\ connected[b]
          /\ orders < MaxOrders
          /\ orders' = orders + 1
          /\ pos' = [pos EXCEPT ![b] = @ \cup {[sym |-> job[b].sym, id |-> orders + 1]}]
          /\ late' = IF late[b] = Never THEN late ELSE [late EXCEPT ![b] = @ + 1]
    /\ UNCHANGED <<signals, overtaken, hour, main, mode, stopped, killed, connected, signalled,
                   scan, kill, faults, crashes, kills, restarts>>

-----------------------------------------------------------------------------
(* kill, in either thread: close_all_positions one by one, then the file. *)

\* A position that is gone is "not found", which counts as a failure; so does a lost answer.
CloseOne(b, t) ==
    /\ kill[b][t] # NoKill
    /\ \E p \in kill[b][t].todo :
          \/ /\ connected[b] /\ p \in pos[b]
             /\ pos' = [pos EXCEPT ![b] = @ \ {p}]
             /\ kill' = [kill EXCEPT ![b][t].todo = @ \ {p}]
             /\ UNCHANGED faults
          \/ /\ IF connected[b] /\ p \in pos[b]
                THEN Fault /\ pos' \in {pos, [pos EXCEPT ![b] = @ \ {p}]}
                ELSE UNCHANGED <<pos, faults>>
             /\ kill' = [kill EXCEPT ![b][t].todo = @ \ {p}, ![b][t].ok = FALSE]
    /\ UNCHANGED <<signals, hour, main, mode, stopped, killed, connected, signalled,
                   scan, job, watch, orders, crashes, kills, restarts>>

\* Mutant: a kill that found nothing to close has not succeeded.
EndKillOfSome(b, t) ==
    /\ kill[b][t] # NoKill
    /\ kill[b][t].todo = {}
    /\ killFile' = (killFile /\ ~(kill[b][t].ok /\ kill[b][t].found # {}))
    /\ overtaken' = [c \in Bots |-> overtaken[c] \/ (killFile /\ ~killFile' /\ ~killed[c])]
    /\ kill' = [kill EXCEPT ![b][t] = NoKill]
    /\ IF job[b].at = "kill" /\ Worker(b) = t
       THEN Drop(b) /\ UNCHANGED main
       ELSE main' = [main EXCEPT ![b] = "cleanup"] /\ UNCHANGED job
    /\ UNCHANGED <<restartFile, pos, hour, mode, stopped, killed, connected, signalled,
                   scan, late, budgets>>

\* The signal goes only when every close was confirmed; then the thread leaves its loop
\* (main) or gives its order up.
EndKill(b, t) ==
    /\ kill[b][t] # NoKill
    /\ kill[b][t].todo = {}
    /\ killFile' = (killFile /\ ~kill[b][t].ok)
    /\ overtaken' = [c \in Bots |-> overtaken[c] \/ (killFile /\ ~killFile' /\ ~killed[c])]
    /\ kill' = [kill EXCEPT ![b][t] = NoKill]
    /\ IF job[b].at = "kill" /\ Worker(b) = t
       THEN Drop(b) /\ UNCHANGED main
       ELSE main' = [main EXCEPT ![b] = "cleanup"] /\ UNCHANGED job
    /\ UNCHANGED <<restartFile, pos, hour, mode, stopped, killed, connected, signalled,
                   scan, late, budgets>>

-----------------------------------------------------------------------------

Main(b) == Initialize(b) \/ MainCheck(b) \/ MainGoesOn(b) \/ MainSleeps(b) \/ Cleanup(b)
Job(b)  == JobCheck(b) \/ JobLimits(b) \/ JobOrder(b)
Kill(b) == \E t \in Threads : CloseOne(b, t) \/ EndKill(b, t)

Next ==
    \/ StartProcess \/ EndProcess \/ OrderKill \/ OrderRestart \/ HourPasses
    \/ \E b \in Bots :
          \/ StopHit(b) \/ Main(b) \/ Job(b) \/ Kill(b)
          \/ \E s \in Symbols : Bar(b, s) \/ Scan(b, s)

Spec == Init /\ [][Next]_vars

(***************************************************************************)
(* Every thread goes on, its broker calls return, and the process is       *)
(* started again when it has ended (restart: unless-stopped).  A kill the  *)
(* broker's thread carries out takes seconds, the main thread, which ends  *)
(* the session when it sees the kill, wakes up once a minute: not every    *)
(* such kill is cut off.                                                   *)
(***************************************************************************)
Fairness ==
    /\ WF_vars(StartProcess) /\ WF_vars(EndProcess)
    /\ \A b \in Bots :
          /\ WF_vars(Main(b)) /\ WF_vars(Job(b)) /\ WF_vars(Kill(b))
          /\ SF_vars(connected[b] /\ Kill(b))
          /\ WF_vars(\E s \in Symbols : Scan(b, s))

FairSpec == Spec /\ Fairness

-----------------------------------------------------------------------------
(* Properties. *)

TypeOK ==
    /\ killFile \in BOOLEAN /\ restartFile \in BOOLEAN
    /\ pos \in [Bots -> SUBSET Positions]
    /\ hour \in 0..Hours
    /\ main \in [Bots -> {"down", "init", "loop", "killing", "rest", "sleep", "scan",
                          "cleanup", "done"}]
    /\ mode \in [Bots -> {"stream", "poll"}]
    /\ stopped \in [Bots -> BOOLEAN]
    /\ killed \in [Bots -> BOOLEAN]
    /\ connected \in [Bots -> BOOLEAN]
    /\ signalled \in [Bots -> [Symbols -> {Never} \cup 0..Hours]]
    /\ scan \in [Bots -> SUBSET Symbols]
    /\ job \in [Bots -> Jobs]
    /\ kill \in [Bots -> [Threads -> Kills]]
    /\ late \in [Bots -> {Never} \cup Nat]
    /\ overtaken \in [Bots -> BOOLEAN]
    /\ orders \in 0..MaxOrders
    /\ faults \in 0..MaxFaults
    /\ crashes \in 0..MaxCrashes
    /\ kills \in 0..MaxKills
    /\ restarts \in 0..MaxRestarts

(***************************************************************************)
(* An account never holds more positions than its limits allow, in all and *)
(* of one symbol: the positions counted before an order are still the most *)
(* there are when it fills, whatever was lost, restarted or killed in      *)
(* between.                                                                *)
(***************************************************************************)
PositionLimits ==
    \A b \in Bots :
        /\ Cardinality(pos[b]) <= MaxConcurrent
        /\ \A s \in Symbols : Cardinality(Of(pos[b], s)) <= MaxPerSymbol

(***************************************************************************)
(* From the order of a kill until the bot is started again with the signal *)
(* gone, at most one more order of it fills, the one that was past its     *)
(* check: however often the process is restarted before the kill succeeds, *)
(* and whichever of the threads carries it out.  The one way past it is    *)
(* another bot's success, which takes the signal away before this bot has  *)
(* seen it; that bot trades on (see SignalOutlivesPositions).              *)
(***************************************************************************)
OneOrderAfterKill == \A b \in Bots : late[b] > 1 => overtaken[b]

(***************************************************************************)
(* The kill signal goes only with a kill that has closed every position it *)
(* found.                                                                  *)
(***************************************************************************)
SignalGoesWithPositions ==
    [][killFile /\ ~killFile' =>
        \E b \in Bots, t \in Threads :
            kill[b][t] # NoKill /\ kill[b][t].found \cap pos[b] = {}]_vars

(***************************************************************************)
(* The kill signal is not given up: once the broker answers again, some    *)
(* start of the bot closes what it finds and takes the signal away.        *)
(***************************************************************************)
KillIsCarriedOut == killFile ~> ~killFile

(***************************************************************************)
(* "Keep the signal while positions may still be open, so the next start   *)
(* retries closing them instead of trading on." (bot.py:712)               *)
(***************************************************************************)
SignalOutlivesPositions ==
    [][killFile /\ ~killFile' => \A b \in Bots : pos[b] = {}]_vars

=============================================================================
