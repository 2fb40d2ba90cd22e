# Verification of fwbg

TLA+ modules for the parts of fwbg whose correctness rests on the order of steps: TLC
checks them on small instances, and TLAPS proves the safety properties for every
instance. Paths below are relative to the repository root.

Run everything from this directory:

    tlc -workers 2 -config MCRegisterRuns.cfg   MCRegister   # any run listed below
    for m in RegisterProofs GateSerialProofs RunServiceProofs CircuitBreakerProofs \
             TradingBotProofs BacktestProofs RunProgressProofs BackfillProofs
    do tlapm $m.tla; done

## 1. Inventory

fwbg searches trading strategies by backtests, records what was tried in a *research
register*, serves runs over an HTTP API, and trades live with a bot.

| Component (`src/fwbg/...`) | State | Operations | Interacts through |
| --- | --- | --- | --- |
| Gate, `research/gate.py` | none (pure) | `check` | called under the register lock by runs and studies |
| Ledger, `research/ledger.py` | `trials.jsonl`, append-only | `append_trial`, `read_trials` | file, its own `flock`, and the register lock |
| Pending markers, `research/pending.py` | `.staging/<run>.json` | `write_pending`, `finish`, `recover_stale`, `tag_run`, `live_runs` | files written by one process and recovered by another |
| Register repository, `research/repo.py` | `.register.lock`, `configs/`, git | `register_lock`, `store_config`, `commit_register` | `flock` between processes and hosts, git |
| Gated runs, `research/runs.py` | the run's pending trial | `before_run`, `record`, `run_gated` | gate, markers, ledger, the run directory |
| Commands, `research/commands.py`; cards, `research/card.py` | `strategies/S-NNNN-*.md` | `new_card`, `amend_criteria`, `write_verdict`, `reopen` | CLI and API processes, register lock |
| Studies, `research/study.py` | none | `register_trial` | as a run, but recorded at once |
| Reconcile, `research/reconcile.py` | none | `repair`, report of unindexed runs | operator |
| Backfill, `research/backfill.py`, `legacy.py`, `mapping.py` | none | one-off import of old runs | register lock, ledger |
| Run service, `api/run_service.py`, `api/runs.py` | jobs in memory, `run_state.json` | reserve, attach, release, fail, cancel, delete, list | request threads, child processes |
| Bot, `bot.py`; circuit breaker, `core/risk_state.py` | caches, last signal hour, risk state, kill file | bar callbacks, polling loop, kill, status | broker, streaming thread, files |
| IG streaming, `adapters/broker/ig/streaming.py` | current candle | `onItemUpdate` | Lightstreamer thread, bar callbacks |
| Message bus, `core/msgbus/` | subscriptions, queue, history | subscribe, publish, worker, stop | threads |
| Run progress, `utils/run_progress.py`; pool, `optimization/resource_manager.py` | `progress.json`, worker processes | stage updates, flush, signal handler | threads, processes, API readers |
| Trade simulation, `simulation/trade.py`, `simulation/numba_core.py` | levels, average price, fills of one trade | evaluator, label kernels | called per signal by the optimizer |
| Splits, `optimization/robust_validation.py`, `nested_cv.py`, `holdout.py` | folds | plan, outer and inner folds, out-of-fold splits, holdout fold | `process.py`, label horizon of the simulation |
| Optimizer, portfolio, features | frames | numerical search | sequential per process |
| Pipeline, presets, plugins, other API endpoints, SDK, MCP server | configuration files | load, validate, forward | one request at a time |

What is hard, and what makes each component correct:

* **Register** (gate to reconcile). Independent processes, possibly on two hosts that
  share the directory, serialise on a file lock, may be killed at every step, and write
  several files that no transaction ties together. Correct means: every evaluation that
  passed the gate is counted once (`RecordedOnce`, `PendingGetsRecorded`), the ledger is
  never ahead of its configurations (`ConfigsComplete`), verdicts are final
  (`ClosedCardSettled`), the holdout is looked at once without a reason and never by an
  iteration (`OneUnexplainedLook`, `HoldoutUnseenByIterations`), ids are unique
  (`RunIdsUsedOnce`), an unreadable file stops everything (`TornLedgerFreezes`) and
  nothing is locked out for ever (`OpenCardUsable`, `CommitsCatchUp`).
* **Run service.** Request threads race each other and the child process: cancel against
  attach, delete against spawn, a listing that rewrites the state file of a run that has
  just started. Correct means: no more active jobs than slots (`SlotsRespected`), no
  process without a job (`NoStrayProcess`), a cancellation is final
  (`CancelledIsFinal`), a result is not invented (`CompletedSucceeded`), and slots come
  back (`SlotsComeBack`).
* **Bot.** Two threads of a bot, and several bots that share two signal files, decide on
  state they read before several broker calls; calls fail or lose their answer, stops
  close positions, processes end and start again. Correct means: the limits of positions
  hold (`PositionLimits`), one order at most slips past a kill (`OneOrderAfterKill`), and
  the kill signal stays until a kill succeeded and is then gone
  (`SignalGoesWithPositions`, `KillIsCarriedOut`).
* **Circuit breaker.** It learns of closed trades from reports that are late, incomplete
  and repeat themselves, over midnight and restarts. Correct means: each trade counts
  once, on its day (`TradesCountOnce`), no entry in a losing streak or past the loss
  limit (`NoEntryInAStreak`, `NoEntryPastLossLimit`), and no refusal for yesterday's
  losses (`RefusedForTodaysLosses`).
* **Trade simulation.** Evaluator and kernels implement the same exits twice, bar by
  bar, with scale-ins that lower a target and stops that follow prices. Correct means:
  what a model is trained on is what the backtest reports (`LabelIsTheTrade`,
  `LabelIsConservative`), stops protect (`StopOnlyTightens`), and labels stay in their
  horizon (`LabelWithinHorizon`).
* **Splits.** Index arithmetic with rounding, embargo and purge. Correct means: no model
  is tested on what it, or its labels, have seen (`NoLookahead`, which a long embargo
  breaks, `LabelsEndBeforeBlock`), every bar is tested at most once (`TestedOnce`) and a
  plan can be carried out (`PlannedFoldsFit`).
* **Run progress and pool.** Worker processes report over a bounded queue, whose reader
  writes a file at most once a second, while the main process collects and saves results,
  and leaves by its end or by a signal. Correct means: every run ends (`RunEnds`), without
  workers left behind (`NoOrphans`), with its last state on disk (`FinalStateOnDisk`), and
  a failing callback costs at most the result it was saving (`ResultsOnDisk`).
* **Backfill.** An apply checks a mapping before and after it waits for the lock, breaks
  off between any two writes and is applied again, while gated runs write the same ledger
  and put their directories among the old ones. Correct means: what is mapped is recorded
  once and on one card, a gated run never (`BackfillImplementsTrialRegister`), before the
  card's holdout (`BackfillBeforeHoldout`), with its card and configuration
  (`BackfillComplete`), and in the end at all (`BackfillCompletes`).
* **IG streaming, message bus.** Partial updates, queued events at shutdown.

`PROJECT.json` lists every component with its status and every hazard at the line where
it bites.

## 2. Plan

1. `Gate`, `GateSerial`, `TrialRegister`, `Register`: the register. *Done*, with
   `RegisterProofs`, `GateSerialProofs`.
2. `RunService`, `RunServiceProofs`: slots, processes, cancellations. *Done.*
3. `TradingBot`, `CircuitBreaker` and their proofs: live trading. *Done.*
4. `TradeSim`, `WalkForward`, `Backtest`, which composes them, and `BacktestProofs`: what
   a backtest is made of. *Done.*
5. `RunProgress`, `RunProgressProofs`: the processes of an optimizer run. *Done.*
6. `Backfill`, `BackfillProofs`: the import of old runs, next to gated ones. *Done.*
7. Inductive invariants for everything the runs check but liveness. *Done.*

Worth doing next, in this order:

* `MessageBus` (handlers called outside the lock after they unsubscribed; `stop` leaves
  queued events), `CandleAssembly` (a candle merged from partial updates keeps the
  fields of an incomplete predecessor);
* a theorem that ties `TradingBot` to `CircuitBreaker`, which it sees as a refusal that
  may come at any time.

## 3. Modules

* `Gate.tla`: `gate.py` as operators over a card, a request and the ledger. `Denials` is
  `check`, including the order of its early returns; a hash, a note or a configuration
  is a value that tells two of them apart. The fingerprint consists of the
  configuration's name and the parts the gate itself sets (window and split).
* `GateSerial.tla`: one evaluation after another, criteria amended by command and cards
  edited by hand in between, which is what the gate's criteria and cutoff rules are
  there for.
* `TrialRegister.tla`: the abstract register. A run is absent, pending or recorded; the
  log grows by one line per recorded run or study.
* `Register.tla`: the register's files and processes.
* `RunService.tla`: the API's run service, the endpoints that use it and the processes
  they start.
* `TradingBot.tla`: the bots of `bot.py` and the process of `__main__.py`, down to the
  broker calls they make.
* `CircuitBreaker.tla`: `core/risk_state.py` and the part of `bot.py` that feeds and
  asks it. `TradingBot` sees it as a refusal that may come at any entry.
* `TradeSim.tla`: one trade, by the evaluator and by the kernel, on the same bars.
* `WalkForward.tla`: the windows a symbol is trained and tested on.
* `Backtest.tla`: both together. The out-of-fold splits are purged by the horizon of the
  setup, and the trade of one of their training bars gives the bar its label.
* `RunProgress.tla`: the processes and threads of one optimizer run, from the workers'
  messages to `progress.json` and the saved results.
* `Backfill.tla`: `fwbg research backfill apply`. It implements `TrialRegister`, too: to
  the log, what is mapped is a study. The steps of the gated runs that share the ledger
  are those of `Register`, one step per critical section here.
* `MCGateSerial.tla`, `MCRegister.tla`, `MCRunService.tla`, `MCTradingBot.tla`,
  `MCCircuitBreaker.tla`, `MCBacktest.tla`, `MCWalkForward.tla`, `MCRunProgress.tla`,
  `MCBackfill.tla`: instances for TLC.
* `RegisterProofs.tla`, `GateSerialProofs.tla`, `RunServiceProofs.tla`,
  `TradingBotProofs.tla`, `CircuitBreakerProofs.tla`, `BacktestProofs.tla` (about
  `TradeSim`, `WalkForward` and `Backtest`), `RunProgressProofs.tla`,
  `BackfillProofs.tla`: theorems.

### State of Register

| Variable | In the code |
| --- | --- |
| `cards` | `strategies/S-NNNN-*.md`: status, criteria hashes, cutoff; `Broken` does not parse |
| `ledger`, `torn` | readable lines of `trials.jsonl`; `torn`: an unreadable last line |
| `configs` | `configs/<fingerprint>.json` |
| `markers`, `draft` | `.staging/<run>.json` and the trial it holds (for a study, the trial in memory) |
| `head` | what the last register commit holds |
| `lock` | holder of the `flock` on `.register.lock` |
| `pc`, `job` | where a process is, and what it was started with |
| `outcome`, `tagged` | run directories: evaluated symbols, and the `research` block of `config.json` |
| `todo`, `fin`, `recovered` | locals of the critical section: markers left to look at, whose trial is being recorded, whether one was recovered |
| `faults` | failures so far, bounded by `MaxFaults` |

### Actions of Register

A process waits for the lock (`Start`, `Acquire`), records dead runs (`RecoverSkip`,
`RecoverBegin`, then `finish` as `FinishBegin`, `FinishStore`, `FinishAppend`,
`FinishUnlink`, one per disk write, then `CommitStale`), decides (`AdmitRun`,
`AdmitStudy`, `Refuse`, or a command `NewCard`, `Amend`, `Verdict`, `Reopen`,
`CommandRefused`; reconcile's `Validate` comes before the recovery), commits (`Commit`)
and, if it is a run, goes on without the lock (`RunWrites`, `RunEnds`), takes the lock
again to finish its own marker and tags its run directory (`Tag`). `FinishFails`,
`MarkerFails`, the failing branch of `GitCommit` and `NewCardKilled` are failing I/O;
`Killed` may happen at every step. `RepairLedger` and `RemoveBrokenCard` are the
operator, who does what the error messages ask for.

Steps under the lock are separate where a disk write or a look at another process
separates them. In particular the state of other processes is looked at once per marker
in recovery and once more in the decision, as in the code: that is where a rerun by
accident slips through (section 7). The decision itself, a sequence of reads of files
that only the lock holder writes, is one step; between its `live_runs` and its last read
another run can only die, and `MayClose` reads all markers after it looks at the live
ones, so a death in between changes nothing.

An append that fails after its line is complete (a failing `fsync`) behaves like
`FinishAppend` followed by a failure, and a complete line without its newline reads like
any other line (`append_trial` adds the newline), so `torn` stands for a line cut before
its end.

### State of RunService

| Variable | In the code |
| --- | --- |
| `status` | `_active_jobs[id]["status"]`; `"none"`: no such job |
| `attached` | jobs whose `"process"` is set |
| `file` | `run_state.json`: a status, `"lost"` for the failure `disk_state` makes up, `"none"` for no file |
| `child`, `termed` | the process of the run with its exit code, and whether it was sent SIGTERM while it is alive |
| `pc` | where the thread of the start request is |
| `killing` | cancellations between their unlock and their `_terminate` |
| `reader` | status requests between `snapshot`, the reading in `disk_state` and its writing |
| `faults`, `restarts` | failures and restarts so far, bounded by `MaxFaults`, `MaxRestarts` |

### Actions of RunService

What happens under `_active_jobs_lock` is one step, what happens outside it is not. A
start request is `Reserve`, `Preflight` (passes, releases or raises; a missing strategy
releases too), then `Look` (was it cancelled meanwhile?), `Spawn`, `Attach`, and for a
cancelled job `TerminateUnattached`; or `Release` and `ReleaseFiles`, or `FailSpawn`.
`Cancel` and `Kill` are the two halves of a cancellation. `Poll`, `ReadState` and
`WriteState` are a status request: `list_runs`, `get_run` and `get_run_progress` reap
under the lock and then call `disk_state` without it, the latter two for one run, the
listing for every directory its snapshot does not know. `Delete` removes a run that is
not active. Each state write has a failing variant (`ReserveFails`, `AttachFails`,
`CancelFails`, `PollFails`, branches of `FailSpawn` and `WriteState`). A write that
fails while reaping ends the loop over the jobs with one of them finished in memory only
(`ReapStops`). `ChildExits` and `Restart` are the environment.

The state file is replaced atomically (temporary file and `os.replace`), so it holds one
status or another. A job's id is new by construction (time and UUID), so a start request
and its job are identified.

### TradingBot

| Variable | In the code |
| --- | --- |
| `killFile`, `restartFile` | `kill_signal` and `restart_signal` in `stats_dir`, one for all bots of the process |
| `pos` | positions of the account at the broker |
| `main`, `mode` | where the bot's thread is, and whether it streams or polls |
| `stopped`, `killed`, `connected` | `_stop_event`, `_killed`, the adapter's session |
| `signalled` | `last_signal_hour` |
| `scan`, `job` | the rest of `_check_all_signals`, and the signal in `_execute_signal` |
| `kill` | per thread: the kill it carries out, positions found and still to close, all closed so far |
| `late`, `overtaken` | observe only: orders that filled since a kill was ordered, until the start that ends it; whether another bot took the signal away before this one saw it |

`Initialize`, `MainCheck`, `MainGoesOn`, `MainSleeps` and `Cleanup` are one turn of the
main loop, which streaming and polling share. `Bar` (the broker's thread) and `Scan`
(the polling loop) begin a signal; `JobCheck`, `JobLimits` and `JobOrder` are
`_execute_signal` with its three looks at the outside: the kill switch, the account and
its positions, and the order. `BeginKill`, `CloseOne` and `EndKill` are `kill` in either
thread, one broker call at a time. `EndProcess` and `StartProcess` are `main` ending or
being killed and docker starting it again (`docker-compose.yml`: `restart:
unless-stopped`); all but the files and the account is lost. An order executes at or
before its response; one whose answer is lost counts as rejected for the bot. The
exposure limit and the breaker are possible refusals.

### CircuitBreaker

`known` to `events` are the fields of `RiskState`; `history`, `balance` and `positions`
are the broker's, and `pc`, `asked` say where `_check_circuit_breaker` is. `Ask` reads
clock and account, `Observe` takes any part of the trades that closed until then,
including ones it was told of before (`process_close_event` ignores those),
`ObserveInvalid` stops at an event it cannot read, `RefreshFails` is `mark_unknown`;
`CanTrade` reads the clock again, and `Enter` is the order. The mutable fields are set
where the code sets them: the opening balance by the first observation of a local day,
the pause by a refusal. Ids matter between trades of one tick only. `Streak` goes through
the day's trades from the latest back (`Latest`), which counts what the loop of
`_recompute_day` counts from the earliest on.

### TradeSim

`setup` and `d` are what the strategy chose. `trade`, `tradeExit` are the evaluator's
position and result, `label`, `labelExit` the kernel's. `NextBar` shows the same
arbitrary bar to both: `EvaluatorBar` is one turn of the loop in `simulate_pro_trade`,
`KernelBar` one of `_simulate_trade_scale_in_numba`, of which the plain and the trailing
kernel are special cases, or of `_simulate_trade_session_numba`. Prices are integers
relative to the entry; an average is rounded like the integers, in both alike. Only one
of the two implements each of: exit rules, sub-hourly data, a session together with
scale-in or trailing, an entry at the signal's close (evaluator), a trailing target, an
offset of the break-even stop (kernel); `SameRules` names the rest, for which they have
to agree.

### WalkForward

`config` is what a symbol and its strategy bring. `PlanFolds` and `CreateFolds` are
`plan_walk_forward` and `create_walk_forward_folds`; for each fold `SplitInner` and
`SplitOof` compute `nested_cv_split` and `_forward_oof_splits` of its training data, and
`NextFold` goes on. `Holdout` is the fold of a holdout look, with `_run_frozen`'s guard.
`Slice` is a slice of a data frame, whose negative end counts from the end. Parallel
folds compute the same windows.

### Backtest

The state of both. `BacktestNext` goes through the splits and then, for the
configurations in `Followed`, shows bars to the two trades (`Label`): the trade of bar
`i` enters at the open of bar `i + 1`, so what a label depends on is
`i + 1 + labelExit.at`. The windows do not depend on prices, so it is enough to follow
one trade after the last split.

### RunProgress

| Variable | In the code |
| --- | --- |
| `main`, `current` | where `run_optimizer` is: forking the pool, collecting, in `on_result_ready`, draining the queue, joining workers and reader, saving |
| `future`, `result` | the futures of `map_adaptive`, and of its results what is asked of them later: was a backtest run, are there combinations |
| `up`, `job`, `broken` | the worker processes, what each works on, and whether one is gone and the executor has noticed |
| `sent` | how far each part of an asset's processing has reported |
| `buffer`, `pipe`, `jammed` | the `multiprocessing.Queue`: per process what its feeder thread has yet to move, the bounded pipe, a write lock that died with its holder |
| `reader` | the thread `_queue_reader` and the message it handles |
| `mem`, `file`, `fresh` | `RunProgress` in memory, `progress.json`, and whether the last write is less than a second ago |
| `onDisk` | `grid_details/<symbol>`: not there, with some files, with the two files of the fallback, whole |
| `hit` | the faults of this run |

`Take`, `Report`, `Finish`, `Exit` are a worker; `Feed` its feeder thread. The reader
takes a message (`ReaderGets`) and handles it in one call of the writer (`HandleResult`,
`HandleProgress`) or in two (`HandlePhase`, `FinishPhase`). `Flush` and `MaybeFlush` are
the debounced write. The main process goes through `StartPool`, `Collect` with
`MakeDirectory` and `SaveFiles`, `LeaveLoop`, `Drain`, `LeavePool`, `JoinReader`,
`CompleteRun`, `TearDown` and `SaveRun`, which ends in failure when no asset ran a
backtest (`RanRealBacktest`) and else writes what the fallback of `save_run_results`
writes. Faults, each named by `Faults`: a write of the progress file fails (`"write"`),
handling a message raises (`"reader"`), the reader outlasts its join (`"late"`), a worker
is killed (`"worker"`), the callback raises before it has created the directory
(`"early"`) or after it (`"files"`), `save_run_results` raises (`"save"`), SIGINT or
SIGTERM arrive (`"interrupt"`).

`WorkerDies` is the process killed from outside, `PoolBreaks` the executor that notices:
it fails the futures and sends the other workers SIGTERM. They have inherited
`_signal_handler`, so each either ends or hangs (in `executor.shutdown`, on a lock that
was held when it was forked); a worker that hangs stays in `up` and does nothing more.

A run saves its results and the indicator grid has one variant. The stages an asset
reports are constants; one per fold is enough for what the processes do. No phase text
maps to the stage `model_training`. `_write_asset_progress`, the stages file in the
directory of an asset, is left out.

### Backfill

| Variable | In the code |
| --- | --- |
| `dirs`, `tagged`, `looks` | directories in `test_results/`; gated runs whose `config.json` has a `research` block; those of them that look at the holdout |
| `markers` | `.staging/<run>.json` |
| `ledger`, `torn`, `cards`, `configs`, `head`, `lock` | as in `Register`; a card is its cutoff, criteria and text, a trial what it is of and on which card |
| `pc`, `job`, `todo` | where an apply is, its mapping with the runs it scanned and the gated runs it knows of, and what it has still to write |
| `faults` | failures so far, bounded by `MaxFaults` |

`Scan` is `scan_runs` with `load_run`'s refusal. `ReadTrials` and `Check` are the first
`_prepare`, without the lock: the ledger is read before markers and cards, so a run that
is recorded in between is in neither. `Lock` and `Prepare` are the lock and the second
`_prepare`, on the runs of the first scan. Then follow, one disk write each, `WriteCard`,
`StoreConfig` and `AppendTrial`, and `Commit`; within the cards and the trials the code
goes from card to card. `Breaks` is a write or commit that fails, cut off or complete, or
the end of the process; the next apply may be another process, or the same operator
again. `Appear`, `Admit`, `Record`, `Tag` and `EditCard` are the world around: old runs,
gated runs, `amend`, `verdict` and `reopen`. `RepairLedger` and `RemoveBrokenCard` are
what the error messages ask for. A study gets a run id on every card that names it (`IdOf`,
`_study_run_id`), and in `TrialRegister` each of these is a study of its own.

## 4. Runs

| Run | Configuration | Question and result |
| --- | --- | --- |
| `gate_serial` | 2 cards, 3 trials, 1 amendment each, 1 hand edit, 24 requests | With evaluations one after the other, the goals of the gate hold, whatever is edited by hand between them. |
| `register_runs` | 2 runs on two hosts, iterations and holdout looks of two configurations with and without reason, 1 clerk (verdict, reconcile), 2 failures, any number of killed runs | At most one unexplained look, no twins in progress, configurations before lines, closed cards settled, a torn ledger freezes everything, and refinement of `TrialRegister`. |
| `register_live` | 1 run, 1 study, 1 clerk who registers a card, amends, closes, reopens and reconciles, 1 failure, fairness | Run ids are unique, an amended card is never locked out, a pending run is recorded in the end, and git catches up. |
| `backfill` | 1 old run, 1 study, 1 gated run, 2 cards, 2 appliers, 3 mappings, 1 failure, 1 edited card, fairness | What is mapped is recorded once, before its holdout, with its files, and in the end at all; refinement of `TrialRegister`. |
| `service` | 2 start requests, 1 slot, 1 failing write, 1 restart, fairness | Slots respected, every process accounted for, no invented completion, cancellations final; slots come back. |
| `bot` | 1 bot, 2 symbols, limit 1, 2 hours, 3 orders, 1 each of failure, crash, kill and restart signal, fairness | Limits hold, of the bot at most the order in flight fills after a kill until the start after it, and every kill is carried out. |
| `bot_kill` | 2 bots, 1 symbol, 1 kill, no failures | Violation of `SignalOutlivesPositions` (section 7). |
| `breaker` | 3 trades of -2 or +1, days of 3 ticks, a zone 1 tick ahead, limit 30 % of 10, streak of 2, 1 restart | Every trade counts once and on its day, no entry against streak or limit, no refusal for yesterday's losses. |
| `backtest` | histories of 7 to 32 bars, 2 or 4 folds, embargo 0, 1, 3 or 12, horizon 2 or 4, anchored or rolling, three cutoffs; then all bars with prices -5..5, 3 or 6 of them, 8 settings, long and short | Every bar is tested at most once; label and trade agree, stops only tighten, labels stay in the horizon and end before the block they are used to predict. |
| `folds_embargo` | histories of 20 to 32 bars, embargo 0, 3 or 12 | Violation of `NoLookahead` (section 7). |
| `progress` | 2 assets, 1 worker, a pipe of 1 message, 1 fault of 8 kinds, fairness | No worker outlives the run, its last state is on disk, a failing callback costs at most its own result, and every run ends. |
| `progress_files` | the same with the fault `"files"` | Violation of `DirectoriesComplete` (section 7). |

Bounds. A hazard of the register involves at most three parties: a run that dies, a
second process that recovers it, and a clerk who decides about the card. Two failures
are needed for the longest interesting sequences (a failing recovery whose retry fails
differently). A third run adds nothing to a pairwise property (every property here
quantifies over at most two runs). In `register_live` a card is registered, amended once
and closed while a run and a study of it are in flight; more cards and amendments are
covered by the theorems (`RunIdSafety`, `CardUsable`). `PendingGetsRecorded` is checked
on one host, where every recovery can look up every pid. `CHECK_DEADLOCK FALSE` is set
where the instance really ends: all bounds reached (`gate_serial`, `breaker`), the trade
closed or the last fold split (`backtest`, `folds_embargo`), or in `progress` a worker
killed with the write lock of the queue, whose others' messages stay in their buffers.

An apply of the backfill meets at most one other, of another mapping: the lock lets one
write, and the other has to notice. The three mappings are the ones two operators may
disagree on (two items on two cards or on one) and one that takes a gated run for an old
one. One failure splits an apply anywhere, and the next one has to complete it; the
other hazards need an order of steps only. That one study is on two cards does not occur
in the instance; the proofs include it.

In the run service two requests and one slot (the default of `FWBG_MAX_CONCURRENT_RUNS`)
show every race: the properties but `SlotsRespected` concern one job, and slots of any
number are proved. One failure leaves memory and disk apart, a second one hits the
operation that would repair it.

For the bot, one account shows every race between its threads, and two symbols the two
limits; a second account matters only for the shared files, which is what `bot_kill` is
about. The exception in `OneOrderAfterKill` (`overtaken`) therefore never applies in
`bot`: there it says that at most one order fills. Three orders allow one before the
kill, one in flight and one too many. Three trades make a streak of two with a win
before or between; a day of three ticks has a local midnight inside the UTC day, and the
staleness limit of one tick is shorter than a day. With six bars the widest setting has
two scale-ins, a break-even and a trailing step before its exit. Histories up to 32 bars
cover every remainder of the divisions in plan, inner folds and blocks at the fold
counts used; an embargo of 12 exceeds every training window. Labels are followed for one
configuration per horizon, with every training bar of its last splits.

In a run, two assets on one worker have one that is processed while the result of the
other is being saved; a pipe of one message is always full or empty. Each of the eight
faults is met alone, at every point of the run, and each asset may or may not have come to
a backtest. `RunEnds` is about one worker: with several it is not promised, as a worker
that hangs in the inherited handler (see `PoolBreaks`), or one killed with the write lock
of the queue, can keep the executor waiting. The safety properties are proved for any
number.

Fairness (`LiveSpec` of `Register`, only for `register_live`). A process that has been
started goes on (`WF` of its own steps), the kernel gives the lock to every waiter (`SF`
of `Acquire`, as the lock is taken and freed infinitely often), and the operator runs
`fwbg research reconcile` again and again and repairs what it refuses to touch. The code
has no background recovery, so without an operator a dead run may wait for ever; the
design says so and reconcile is its answer. A killed or failing step is never fair.

`LiveSpec` of `RunService` (`service`): request threads run on, every backtest
ends, and some client asks for the state of a run again and again, as the MCP server's
`wait_for_run` does every 30 seconds (`packages/fwbg-mcp/src/fwbg_mcp/server.py:181`).
Only requests reap: without any, an exited process holds its slot, which does no harm as
nobody wants it. Cancellations, deletions, restarts and failures are not fair.

`FairSpec` of `TradingBot` (`bot`): threads go on and the process is started again
whenever it ended (`WF` of `StartProcess`, `EndProcess`, `Main`, `Job`, `Kill` and
`Scan`). In addition a kill whose session is alive gets somewhere (`SF` of `connected[b]
/\ Kill(b)`): when the broker's thread carries it out, the main thread sees `_killed`
only at its next wake-up, up to a minute later, and disconnects then; closing takes
seconds, so not every such kill is cut off. Failures, crashes and orders of kills are
bounded and not fair. Bars are not fair either: a kill is carried out without any.

`FairSpec` of `RunProgress` (`progress`): each thread and process goes on as long as
it can (`WF` of the main process, the reader, every worker's steps and every feeder). The
operating system schedules them, and a worker's computation ends. No fault is fair.

`LiveSpec` of `Backfill` (`backfill`): an apply goes on and gets the lock (`WF` of its
steps; other holders are one step here), the operator repairs what an apply refuses to
touch (`WF` of `Repair`) and applies a mapping again and again (`SF` of `Scan`, as other
appliers come between), as `apply_mapping` asks after a failure. `BackfillCompletes`
promises nothing for a mapping that does not stay applicable: another mapping may have
won, a card may be edited, a new run may lack a card.

Each property of a passing run has a mutant, defined next to the definition it replaces:
a plausible slip in that function, which TLC must find.

## 5. Proofs

Assumption of the register: `RegisterAssumption` (runs, studies and clerks are different
processes; requests are of the kind their process takes: a verdict closes a card, an
amendment sets criteria, a new card is active and states the criteria it registers; the
bounds are natural numbers). Nothing is assumed of the number of processes, cards,
failures, or of what is requested.

* `LockSafety`. `LockInv` is inductive. Every step of a process enters, stays in, leaves
  or stays outside its critical section (`StepMoves`, `FailureMoves`, `NextMoves`), and
  each of these keeps the lock with the process inside (`MovesKeepLock`).
* `RecordedOnceSafety`. `RecordedOnce` alone is not inductive: when a line is appended,
  that the run has none rests on what the lock holder read three steps before.
  `RecordInv` adds `LedgerInv` (lines are numbered in order, one per run), `JobInv` and
  `DraftInv` (what a marker or draft holds belongs to its process), `LifeInv` (what is
  known of a process by its program counter) and `FinInv` (from `store` to `append` the
  run is not in the ledger, is pending, and its configuration is stored). Steps that
  write nothing of this (`Quiet`) are dealt with in groups; the five that do (`Writers`)
  have a lemma each. `NextIdNumbersLines` shows that the highest number plus one is the
  next line's.
* `TornLedgerSafety` and `ConfigsSafety` follow from the same invariant, the latter with
  `ConfigsGrow` (configurations are never removed, a commit takes the worktree or
  nothing).
* `LookSafety`, `RunIdSafety`, `TwinSafety`, `VerdictSafety`, `CardUsable`. The gate
  decides under the lock, but what it granted has to stay true long after: while the run
  computes, while it is dead and nobody has recorded it, and in the ledger. `GrantsInv`
  says so of everybody who counts (`Counted`: who has a marker or a line, and a study on
  its way to the ledger). `EndedInv` says that a run is recorded by itself or when it
  cannot move any more, `AsksInv` that a process works on what it was started with,
  `LinesInv` that a line says what was granted, although the gate compares with lines and
  markers and the properties with grants. `CardsInv`: the card of a grant still exists,
  has the grant's criteria on record and its cutoff, and if it is closed, nobody is left
  to record; it needs that a card changes in few ways (`CardChanges`). `PairsInv`: no two
  who count share a run id or are both looks without a reason, and no two that run are
  twins. A new grant is compared with everybody who counts (`GrantedApart`,
  `TwinDenied`), as nobody's study is half-way to the ledger while another process
  decides (`CountedWhileDeciding`).
* `TypeSafety` needs the invariants before it: that only requests' fingerprints are stored
  rests on which cards there are (`GrantsAreTyped`) and on whose trial is being recorded
  (`FinInv`), and that only a run tags its directory is `TagInv`.
* `RegisterRefines`. Under the mapping of `Register!Trials`, `AdmitRun` and a
  half-failed `MarkerFails` are `Pend`, `FinishAppend` is `Record` or `RecordStudy`,
  everything else stutters; dropping the marker of a recorded run is a stutter since
  "recorded" takes precedence.

Assumption of the run service: `ServiceAssumption` (finitely many start requests; the
bounds are natural numbers).

* `TypeSafety`, from `TypeStep`; what reaping does to the two status functions is lemma
  `Reaping`.
* `StraySafety`, `CompletedSafety`. `ProcessInv` adds `Life` to the two properties:
  before the spawn there is no process, at `fail` it is terminated if there is one, and
  an active job is not cancelled on disk (without it, a cancellation that could not be
  written could not be told from one that could). `OthersKept` deals with the jobs a
  request merely reaps.
* `CancelledSafety`, `SlotsSafety`. `NextMoves`: only a granted reservation makes a job
  active, and a cancelled job is at most dropped. A reservation adds one job to fewer
  than `MaxConcurrent` (`SlotsStep`, with the library's facts about finite sets).

Assumption of the gate's history: `SerialAssumption` (a new card records the criteria it
states; days in requests are numbers or marked as missing or unreadable).

* `HoldoutSafety`, `CriteriaSafety`, `RerunSafety`, after `TypeSafety`. Each is a
  relation between two trials that only `Evaluate` extends, so each proof is about the
  new trial against an old one. The holdout rule needs that all trials of a card carry
  one cutoff, which a hand edit of the card would break were it not compared with the
  last trial (`CutoffMoved`); the criteria rule, that without an amendment all trials of
  a card carry the hash of the last one (`IsLast`).

Assumption of the breaker: `BreakerAssumption`.

* `SumSafety`. By `ReportsInv` ids name one trade each and what was recorded is part of
  the broker's history, so what the bot was told of is what it recorded
  (`ToldIsRecorded`); then `SumInv` and the property sum over the same set, and no
  arithmetic of the sum is needed. `LossLimitSafety` adds `DayInv` (a day that was begun
  has a positive opening balance) and `DecisionInv`: entries are only allowed while
  `LossLimitReached` and `InStreak` are false, and nothing the bot is told of changes
  until the order. (A trade that closes meanwhile is not told of.)
* `StreakSafety`. `StreakCounts`: the streak is the number of losses since the last win
  (`LossesSinceWin`), by induction on the number of trades, with one case per result of
  the latest trade (`LatestCounts`); some trades have a latest (`LatestIs`), because
  `Before` orders trades with ids of their own.
* `TodaySafety`, for a loss limit above 0. `LimitsNeedALoss`: either limit is reached by a
  loss of the day, as trades without a loss sum up to none (`SumOfNoLosses`); `PauseInv`: a
  pause is for a loss of the day it was set on, and a new day ends it. With a limit of 0,
  which nothing in the code excludes, the statement is false (section 7).

The two inductions are written out: of the trades for which the statement fails there
would be a smallest number (`LeastNumber`, from the library's `WFMin`).

Assumption of the bots: `BotAssumption` (the bounds are natural numbers).

* `PositionSafety`: between `JobLimits` and `JobOrder` positions only go away, so
  `BelowLimits` still holds when the order fills; `OrderFits` says so for every job at
  `order`. That a bot has one job at a time is why (the adapter delivers bars on one
  thread).
* `LateSafety`, for any number of bots. `LateInv`: from the order of a kill until the
  start that ends it the file is there or the bot has itself been killed, unless its
  process is down (then it has no job) or another bot took the file away before it looked
  (`overtaken`). So no job passes its check, and a bot with `late = 1` has none past it.
  `LateSafetyAlone`: with one bot nobody is overtaken, and the bound holds without
  exception. With two it does not: the bot that was overtaken trades on (section 7).
  `SignalSafety`: what
  a kill found and is not in its `todo` is closed (`ClosedSoFar`), and for good, ids of
  positions being used once (`KnownIds`), as long as `ok` holds.

Assumption of the simulation: `TradeAssumption`.

* `LabelSafety`, `ConservativeSafety`. The invariant `Agree` says that evaluator and
  kernel hold the same position as long as both are open (`best` and `trailing` aside
  where nothing trails), that they end on the same bar and alike, and that an open label
  with a closed trade has run out of bars. With sub-hourly data there is one more way: of
  two levels in one bar the evaluator saw the target first, so that the trade wins and the
  label does not (`TradeWinsOnly`). `HorizonSafety` counts the bars; `StopSafety` is the
  order of `Better`.

Assumption of the splits: `WalkForwardAssumption`. Nothing is assumed of the embargo.

* `PlannedSafety` is the fact that n times a quotient by n is at most the dividend,
  `TestedSafety` that consecutive folds differ by the test size. `LeakSafety` bounds
  training windows by the start of what they are tested on.
* `LookaheadExactly`: a fold looks ahead if and only if the embargo reaches back before
  the first bar and the data are longer than it. That is what `folds_embargo` shows one
  instance of, and everything there is to show: with a shorter embargo no fold looks ahead.
* `BacktestLeakSafety` is about `Backtest`: a label is decided within the horizon
  (`HorizonSafety`), the horizon is that of the setup (`SameHorizon`), and the splits are
  purged by it and the embargo (`LeakSafety`).

Assumption of the run: `RunProgressAssumption` (workers and assets are finite sets, the
bounds are positive, stages are known ones).

* `NoOrphansTheorem`, by `WorkersHandled`: workers exist only where a signal kills them.
  `FinalStateTheorem`, by `FileInv`: unless it outlasted its join, the reader is gone when
  `complete_run` writes the file (`ReaderJoined`), and nothing writes it afterwards.
* `ResultsOnDiskTheorem`, whatever goes wrong. `JobInv`: an asset is processed by one
  worker, so its future is collected once. `OnDiskInv`: outside the callback a collected
  result is whole, or has no directory after a callback that failed early, or has some
  files after one that failed late or a fallback that raised.

Assumption of the backfill: `BackfillAssumption` (old runs, gated runs and studies are
different things, and no run has the id of a study; dates and bounds are natural numbers;
a mapping assigns sets of runs and studies to cards, and no text of its is that of an
edited card). Nothing is assumed of which runs a mapping names, gated ones included.

* The invariant is `Inv`. `LockInv`: only the holder of the lock has something to write.
  `DirsInv`: a gated run that has a directory has a marker or a line, which is why the
  runs of an old scan contain no gated run the second check does not know of, and a
  mapping that names one is refused. `LedgerInv`: a line of a backfill is before its
  cutoff, which is its card's, and its card and configuration are there. `WritesInv` says
  of the lines to come that they are right once what is to be written before them is
  (`Right`), that they are not on record, and that no two have the same id.
  `PreparedTrials` and `PreparedWrites` show that the check under the lock establishes it,
  `WritesStep` that it lasts until the commit.
* `HoldoutIsLater` follows from `LedgerInv`. `RegisterComplete` adds `CommitInv`, the same
  of the last commit: whoever commits takes all of the worktree.
* `BackfillRefines`: under the mapping of `Backfill!Abstract` a line of an old run or a
  study is `RecordStudy`, `Admit` is `Pend`, `Record` is `Record`; a line is new as its id
  is not on record (`WritesInv`).

`LockProtectsSection`, `RecordedOnce`, `SignalGoesWithPositions`, `PlannedFoldsFit`,
`NoLabelLeak`, `LooksAheadByEmbargo`, `TypeOK` of `Register`, `GateSerial`, `RunService`,
`CircuitBreaker`, `TradingBot` and `WalkForward`, and `TradeTypeOK` are proved and in no
run. Everything else that is proved is what the passing runs check: all of their
invariants and action properties and both refinements. Two theorems have a hypothesis:
`TodaySafety` a limit above 0, which the run meets, and `LateSafetyAlone` a single bot.
Only model-checked is liveness
(`PendingGetsRecorded`, `CommitsCatchUp`, `SlotsComeBack`, `KillIsCarriedOut`, `RunEnds`,
`BackfillCompletes`): fairness and ENABLED are beyond the prover.

## 6. Not modelled

Power loss (the ledger line and the markers are fsynced, git objects and the removal of
a marker are not), pid reuse (a recycled pid makes a dead run look alive until that
process ends), a `.register.lock` on a file system without `flock`, hand edits of the
register while a process holds the lock, file ownership (`restore_owner`),
`init_research_repo`, the text of cards beyond status, criteria and cutoff, statistics
of verdicts, and everything `PROJECT.json` marks `not_modelled`. Of the run service: the
result files of a run (a cancelled run may be deleted while its process still writes),
endpoints that only read results, the gate switched off (tests only), a second API
process (excluded by the docstring of `run_service.py`), and several status requests at
once for one run, which write the same failure. Amendments and hand edits by the
operator are in `GateSerial`; in `Register` cards change only by commands.

Of the bot: training and its caches, position sizing, status and telemetry files
(`_cleanup` overwrites the status `KILLED` with `STOPPED`, which nothing reads back), a
third thread inside one bot, and a kill by `SIGKILL` of docker while a close is under
way beyond the loss of its answer. Of the breaker: `snapshot` and `from_snapshot`, which
nothing calls, and the exposure limit, which is skipped at a balance of zero. Of the
simulation: overnight financing, excursions, an absolute stop level, floating-point
rounding, and everything about more than one trade. Of a run: the terminal display with
the messages only it shows, log lines, remaining times, and `fail_asset` and `fail_run`,
which have no caller. Of the optimizer: the search and the statistics, which are
numerical. Of the backfill: the draft of a mapping and its parsing, the metrics it reads
from old result files and runs deleted between two applies (section 7). The IG session
and candles and the message bus are candidates (section 2); the remaining components
read and write one file per request or have no state.

## 7. Findings

`bot_kill`: "Keep the signal while positions may still be open, so the next start
retries closing them instead of trading on" (`src/fwbg/bot.py:712`). The signal is
removed by the first bot whose own close succeeds. Positions may be open then in two
ways: another account's bot shares the file, has not looked yet, and will not see it any
more; or an order of the same bot was past its check, filled after the positions were
listed, and nobody looks again. What holds is `SignalGoesWithPositions`: what the kill
found is closed. And a bot that was overtaken trades on, with any number of orders; for
every other bot the order in flight is the only one (`OneOrderAfterKill`).

`folds_embargo`: "No lookahead bias by construction." (`README.md:13`). An embargo longer
than what lies before the first test window gives `create_walk_forward_folds`
(`src/fwbg/optimization/robust_validation.py:187`) a negative end, and `iloc` counts it
from the end of the data: the fold is trained on bars it is tested on and on later ones.
`_run_frozen` guards against it, the walk-forward path does not. Theorem
`LookaheadExactly` says that there is no other way.

`progress_files`: "on_result_ready schreibt bereits vollständige Dateien. Hier nur
schreiben wenn noch kein Verzeichnis existiert" (`src/fwbg/results/storage.py:370`). The
callback creates the directory first and may fail before the last file, `map_adaptive`
swallows the exception, and the directory keeps the fallback from writing: a successful
run keeps a directory with some of its files. What holds is `ResultsOnDisk`. A callback
that failed earlier leaves the two files of the fallback, and nothing at all for a result
without combinations.

Observed while modelling, and not checked by a run:

* "Progress is aggregated across folds before reporting."
  (`src/fwbg/optimization/process.py:249`) is not so: every thread reports the position of
  its own fold, the writer keeps the last one, and the progress of the asset jumps back
  whenever an earlier fold reports. `set_parallel_mode` has no caller.
* "grid_details dir not created yet — on_result_ready handles it"
  (`src/fwbg/utils/run_progress.py:325`): `on_result_ready` reports the result first and
  creates the directory then; a reader that is as fast writes no stages for the asset, and
  nobody does later.
* A reader that outlasts its join of one second handles its message after
  `complete_run`; a phase turns the status of the ended run back into "running".
* `map_adaptive` empties the queue the reader is still reading, so the result message of
  the last asset may be thrown away, and a completed run shows an asset as running.
* `complete_run` sets the overall fraction to 1.0, and `_recalculate_totals` in the next
  line computes it anew: a run of which a worker was killed ends "completed" below 1.0.
* "Only an ungated run gets here (gated ones are skipped)"
  (`src/fwbg/research/legacy.py`, `load_run`) is not so: a gated holdout look gets there
  while it runs and when tagging it failed, and its directory refuses every `backfill
  apply`. `ungated_runs` means to tell such runs apart by ledger and markers, but only
  after they were loaded.
* "apply the same mapping again" (`apply_mapping`) takes a repair first when the failing
  write left a torn line or a broken card.
* A run the backfill recorded must stay in `test_results/`: once its directory is deleted,
  no mapping agrees with both the directories and the ledger.
* Goal 3 of the register, "An identical configuration is never re-run by accident"
  (`docs/plans/2026-10-19-research-register-design.md:39`), does not survive a run that
  is killed between recovery and the duplicate check of another run: recovery saw it
  alive, the check sees it gone, and the ledger does not have it yet.
* `GateDenied` says "nothing was started or written", but when the directory fsync in
  `write_pending` fails after the rename, the run is refused and its marker stays; the
  next recovery records it as a failed trial.
* The limit of concurrent processes (`src/fwbg/api/runs.py:33`) counts jobs: a cancelled
  one frees its slot before its process gets SIGTERM, so start, cancel, start has two
  processes alive with a limit of one.
* `get_run` calls `disk_state` for active runs as well, which declares their state file
  failed ("Run process state unavailable after API restart",
  `src/fwbg/api/run_service.py:262`) without a restart.
* If the state file of a cancelled run cannot be written, the job is cancelled and its
  process runs on; a second cancel answers "cancelled" and does nothing.
* A `max_daily_loss_percent` of 0 is neither rejected nor "no limit": `can_trade`
  (`src/fwbg/core/risk_state.py:191`) then refuses every entry of a day that is not in
  profit, also of one without a trade.
* The live breaker's streak is over only with a win or a new day: when its pause has run
  out, the next `can_trade` begins another. `simulate_with_circuit_breaker` resets the
  streak after a pause, so a backtest trades on where the bot does not.
* After a restart the breaker takes the day's opening balance from its first
  observation, so losses before it lower the base of the limit although they count
  against it.
* A restart signal ends the first bot that sees it, and removes the file for the others.
* A bot that could subscribe to some of its symbols streams these and does not poll the
  others; and if the update of its cache fails, it predicts on the last bar it has.
* `_update_asset_meta` (`src/fwbg/data/assets.py`) reads, changes and replaces a file
  without a lock and with one temporary name: two of them may lose a manual override.
* "Levels only ever tighten" (`_trail_after_bar`) is true of stops; a trailing target
  moves away from the price.
* A signal that reaches the main process inside `executor.submit` may find the lock taken
  that `_cleanup_on_interrupt` asks for in `executor.shutdown`, and hang. `StartPool`, the
  submission of all assets, is one step and leaves this out.
