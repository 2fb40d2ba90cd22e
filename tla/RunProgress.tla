---------------------------- MODULE RunProgress ----------------------------
(***************************************************************************)
(* One optimizer run: the main process (run_optimizer in cli/main.py), its *)
(* pool of worker processes (optimization/resource_manager.py), the queue  *)
(* over which they report progress, the reader thread of ProgressTracker   *)
(* (utils/progress.py) and the progress.json that RunProgressWriter keeps  *)
(* (utils/run_progress.py).                                                *)
(*                                                                         *)
(* The queue is a multiprocessing.Queue: put_nowait appends to a buffer of *)
(* the sending process, whose feeder thread moves it into a bounded pipe;  *)
(* a process cannot exit before its feeder is done.  Messages that change  *)
(* only the terminal display ("meta", "done", "log") are left out.         *)
(***************************************************************************)
EXTENDS Integers, Sequences, FiniteSets

CONSTANTS
    Assets,
    Workers,            \* max_concurrent_assets processes
    Before,             \* stages an asset reports before its folds,
    PerFold,            \* in each fold before the grid search, and
    After,              \* after the folds
    Folds,              \* walk-forward folds of an asset
    GridSteps,          \* progress reports of one fold's grid search
    MaxParallelFolds,   \* resources.max_parallel_folds
    PipeCapacity,       \* messages the pipe of the queue holds
    Kinds,              \* results of process_symbol, see Kind
    Faults,             \* what may go wrong, each at most once, see Fault
    MaxFaults           \* bound on the faults of a run

\* The order in which complete_earlier_stages takes the stages; "other" stands for a
\* phase text that _phase_to_stage maps to no known stage.
StageOrder == <<"data_loading", "indicators", "evaluation", "grid_search">>
Stages == {"data_loading", "indicators", "evaluation", "grid_search", "other"}
Place(stage) == CHOOSE i \in 1..Len(StageOrder) : StageOrder[i] = stage

Kind == [executed : BOOLEAN,    \* a backtest was run: _ran_real_backtest counts the result
         combos   : BOOLEAN]    \* it has grid_results

\* What grid_details/<symbol> holds: the directory does not exist, holds some of the
\* files of on_result_ready, the two files of the fallback, or all files.
DiskStates == {"nothing", "part", "summary", "all"}

ASSUME RunProgressAssumption ==
    /\ {Before, PerFold, After} \subseteq Seq(Stages)
    /\ IsFiniteSet(Assets) /\ Assets # {} /\ IsFiniteSet(Workers) /\ Workers # {}
    /\ {Folds, GridSteps, MaxParallelFolds, PipeCapacity} \subseteq Nat \ {0}
    /\ "main" \notin Workers /\ "nobody" \notin Assets
    /\ MaxFaults \in Nat
    /\ Kinds \subseteq Kind /\ Kinds # {}
    /\ Faults \subseteq {"write", "reader", "late", "worker", "early", "files", "save",
                       "interrupt"}

VARIABLES
    main,      \* where run_optimizer is
    current,   \* the asset whose result on_result_ready is saving
    future,    \* "pending", "running", "done", "failed", "collected" or "lost"
    result,    \* the results map_adaptive returns
    up,        \* worker processes that exist
    job,       \* the asset a worker is processing
    broken,    \* "no", "killed": a worker is gone, "handled": the executor has noticed
    sent,      \* messages each part of an asset's processing has reported
    buffer,    \* messages of a process its feeder has yet to move
    pipe,
    jammed,    \* a process was killed while it held the write lock of the pipe
    reader,    \* the queue reader thread: where it is and its message
    mem,       \* RunProgress, as the writer holds it
    file,      \* progress.json
    fresh,     \* the last write was less than WRITE_INTERVAL_SECONDS ago
    onDisk,    \* what there is of an asset's result
    hit        \* faults that have happened

pool  == <<future, result, up, job, broken, sent>>
queue == <<buffer, pipe, jammed>>
disk  == <<file, fresh>>
vars  == <<main, current, pool, queue, reader, mem, disk, onDisk, hit>>

Nobody == "nobody"
Senders == Workers \cup {"main"}

\* The fault of a kind happens: at most once, and only where Faults allows it.
Fault(kind) ==
    /\ kind \in Faults \ hit /\ Cardinality(hit) < MaxFaults
    /\ hit' = hit \cup {kind}

Ended    == main \in {"succeeded", "failed"}     \* what the exit code says
Alive    == ~Ended /\ main # "dead"
Stopping == main \in {"stop", "complete", "teardown", "save"}   \* _stop_event is set

-----------------------------------------------------------------------------
(* What an asset reports while it is processed. *)

Full == Folds * GridSteps     \* a fraction of 1.0
None == -1                    \* progress_fraction=None

Phase(a, stage)   == [type |-> "phase", of |-> a, stage |-> stage, frac |-> None]
Progress(a, frac) == [type |-> "progress", of |-> a, stage |-> "grid_search", frac |-> frac]
Result(a)         == [type |-> "result", of |-> a, stage |-> "other", frac |-> None]

\* compute_fold_progress, in steps of the grid search of all folds.
FoldProgress(fold, pos) == (fold - 1) * GridSteps + pos

\* The parts of process_symbol: 0 is what comes before the folds, Folds + 1 after them.
Parts == 0..(Folds + 1)

Phases(a, stages) == [i \in 1..Len(stages) |-> Phase(a, stages[i])]

Reports(a, part) ==
    CASE part = 0         -> Phases(a, Before)
      [] part = Folds + 1 -> Phases(a, After)
      [] OTHER            -> Phases(a, PerFold)
                             \o [i \in 1..GridSteps |-> Progress(a, FoldProgress(part, i))]

Over(a, part) == sent[a][part] = Len(Reports(a, part))

\* _process_single_variant and _run_folds_parallel: the threads take the folds in their
\* order, MaxParallelFolds at a time.
MayReport(a, part) ==
    CASE part = 0         -> TRUE
      [] part = Folds + 1 -> \A k \in 0..Folds : Over(a, k)
      [] OTHER            -> /\ Over(a, 0)
                             /\ Cardinality({k \in 1..(part - 1) : ~Over(a, k)})
                                    < MaxParallelFolds

-----------------------------------------------------------------------------
(* RunProgressWriter *)

\* What _serialize puts into the file, without the stages of unfinished assets.
Snapshot(m) == [status |-> m.status, asset |-> m.asset]

\* _flush_to_disk: a failed write is swallowed and counts as the last write.
Flush ==
    /\ fresh' = TRUE
    /\ \/ file' = Snapshot(mem') /\ UNCHANGED hit
       \/ Fault("write") /\ UNCHANGED file

MaybeFlush ==
    \/ ~fresh /\ Flush
    \/ fresh /\ UNCHANGED <<disk, hit>>

BeginAsset(a) ==
    /\ mem' = [mem EXCEPT !.asset[a] = "running", !.status = "running"]
    /\ MaybeFlush

\* complete_earlier_stages leaves an unknown stage without effect.
Completed(a, stage) ==
    [s \in Stages |->
        IF /\ stage # "other" /\ s # "other" /\ Place(s) < Place(stage)
           /\ mem.stage[a][s].status = "running"
        THEN [status |-> "completed", frac |-> Full]
        ELSE mem.stage[a][s]]

NewFraction(old, frac) == IF frac = None THEN old ELSE frac

\* update_asset_stage(a, stage, "running", progress_fraction=frac), after the stages
\* of the asset have become stages.
UpdateStage(a, stages, stage, frac) ==
    /\ mem' = [mem EXCEPT !.stage[a] =
                  [stages EXCEPT ![stage] = [status |-> "running",
                                             frac |-> NewFraction(@.frac, frac)]]]
    /\ MaybeFlush

\* Its _write_asset_progress, the stages of one asset for the display, is left out.
CompleteAsset(a) ==
    /\ mem' = [mem EXCEPT !.asset[a] = "completed"]
    /\ Flush

-----------------------------------------------------------------------------
(* Worker processes *)

\* SIGTERM from the executor hangs a worker or ends it, see PoolBreaks.
Works(w) == w \in up /\ broken # "handled"

Take(w, a) ==
    /\ Works(w) /\ job[w] = Nobody /\ future[a] = "pending"
    /\ job' = [job EXCEPT ![w] = a]
    /\ future' = [future EXCEPT ![a] = "running"]
    /\ UNCHANGED <<main, current, result, up, broken, sent, queue, reader, mem, disk, onDisk,
                   hit>>

\* report_phase and report_progress.
Report(w, part) ==
    LET a == job[w] IN
    /\ w \in up /\ a # Nobody /\ MayReport(a, part) /\ ~Over(a, part)
    /\ buffer' = [buffer EXCEPT ![w] = Append(@, Reports(a, part)[sent[a][part] + 1])]
    /\ sent' = [sent EXCEPT ![a][part] = @ + 1]
    /\ UNCHANGED <<main, current, future, result, up, job, broken, pipe, jammed, reader, mem,
                   disk, onDisk, hit>>

\* process_symbol returns a result in every case; it reaches the main process over a
\* queue of its own.
Finish(w) ==
    /\ Works(w) /\ job[w] # Nobody /\ \A part \in Parts : Over(job[w], part)
    /\ future' = [future EXCEPT ![job[w]] = "done"]
    /\ job' = [job EXCEPT ![w] = Nobody]
    /\ UNCHANGED <<main, current, result, up, broken, sent, queue, reader, mem, disk, onDisk,
                   hit>>

\* The feeder thread of a process.
Feed(p) ==
    /\ IF p = "main" THEN Alive ELSE p \in up
    /\ buffer[p] # <<>> /\ Len(pipe) < PipeCapacity /\ ~jammed
    /\ pipe' = Append(pipe, Head(buffer[p]))
    /\ buffer' = [buffer EXCEPT ![p] = Tail(@)]
    /\ UNCHANGED <<main, current, pool, jammed, reader, mem, disk, onDisk, hit>>

\* A worker leaves once the executor shuts down, and not before its feeder is done.
Exit(w) ==
    /\ main = "join" /\ Works(w) /\ job[w] = Nobody /\ buffer[w] = <<>>
    /\ up' = up \ {w}
    /\ UNCHANGED <<main, current, future, result, job, broken, sent, queue, reader, mem, disk,
                   onDisk, hit>>

\* These workers are gone, with what they had not sent; a feeder may hold the pipe.
Vanish(gone) ==
    /\ up' = up \ gone
    /\ job' = [w \in Workers |-> IF w \in gone THEN Nobody ELSE job[w]]
    /\ buffer' = [p \in Senders |-> IF p \in gone THEN <<>> ELSE buffer[p]]
    /\ jammed' \in {jammed, jammed \/ \E w \in gone : buffer[w] # <<>>}

\* A worker is killed from outside.  An executor that joins its workers need not notice.
WorkerDies(w) ==
    /\ Fault("worker") /\ w \in up /\ Alive /\ broken = "no"
    /\ Vanish({w})
    /\ broken' \in {"killed"} \cup (IF main = "join" THEN {"no"} ELSE {})
    /\ UNCHANGED <<main, current, future, result, sent, pipe, reader, mem, disk, onDisk>>

\* The executor fails every future that has no result and sends the other workers
\* SIGTERM.  They have inherited _signal_handler: it ends them, or hangs in
\* executor.shutdown on the lock that submit held when they were forked.
PoolBreaks ==
    /\ Alive /\ broken = "killed"
    /\ broken' = "handled"
    /\ future' = [a \in Assets |->
                     IF future[a] \in {"pending", "running"} THEN "failed" ELSE future[a]]
    /\ \E gone \in SUBSET up : Vanish(gone)
    /\ UNCHANGED <<main, current, result, sent, pipe, reader, mem, disk, onDisk, hit>>

-----------------------------------------------------------------------------
(* The queue reader.  "idle" is the wait in queue.get; the stop event is looked at after
   a message has been handled or the wait has timed out. *)

ReaderGets ==
    /\ Alive /\ reader.at = "idle" /\ pipe # <<>>
    /\ reader' = [at |-> "got", msg |-> Head(pipe)]
    /\ pipe' = Tail(pipe)
    /\ UNCHANGED <<main, current, pool, buffer, jammed, mem, disk, onDisk, hit>>

ReaderReturns == reader' = [reader EXCEPT !.at = IF Stopping THEN "gone" ELSE "idle"]

HandleResult ==
    /\ Alive /\ reader.at = "got" /\ reader.msg.type = "result"
    /\ CompleteAsset(reader.msg.of)
    /\ ReaderReturns
    /\ UNCHANGED <<main, current, pool, queue, onDisk>>

HandleProgress ==
    LET m == reader.msg IN
    /\ Alive /\ reader.at = "got" /\ m.type = "progress"
    /\ UpdateStage(m.of, mem.stage[m.of], m.stage, m.frac)
    /\ ReaderReturns
    /\ UNCHANGED <<main, current, pool, queue, onDisk>>

\* A phase is two calls of the writer that may write the file.
HandlePhase ==
    /\ Alive /\ reader.at = "got" /\ reader.msg.type = "phase"
    /\ BeginAsset(reader.msg.of)
    /\ reader' = [reader EXCEPT !.at = "begun"]
    /\ UNCHANGED <<main, current, pool, queue, onDisk>>

FinishPhase ==
    LET m == reader.msg IN
    /\ Alive /\ reader.at = "begun"
    /\ UpdateStage(m.of, Completed(m.of, m.stage), m.stage, m.frac)
    /\ ReaderReturns
    /\ UNCHANGED <<main, current, pool, queue, onDisk>>

\* An exception while a message is handled is printed, and the next message read.
\* Mutant: it ends the thread.
ReaderBreaks ==
    /\ Alive /\ reader.at \in {"got", "begun"} /\ Fault("reader")
    /\ reader' = [reader EXCEPT !.at = "gone"]
    /\ UNCHANGED <<main, current, pool, queue, mem, disk, onDisk>>

ReaderFails ==
    /\ Alive /\ reader.at \in {"got", "begun"} /\ Fault("reader")
    /\ ReaderReturns
    /\ UNCHANGED <<main, current, pool, queue, mem, disk, onDisk>>

ReaderStops ==
    /\ Alive /\ reader.at = "idle" /\ Stopping /\ pipe = <<>>
    /\ reader' = [reader EXCEPT !.at = "gone"]
    /\ UNCHANGED <<main, current, pool, queue, mem, disk, onDisk, hit>>

SecondPasses ==
    /\ Alive /\ fresh
    /\ fresh' = FALSE
    /\ UNCHANGED <<main, current, pool, queue, reader, mem, file, onDisk, hit>>

-----------------------------------------------------------------------------
(* run_optimizer *)

\* map_adaptive: the handlers are installed, then the workers started.
StartPool ==
    /\ main = "start"
    /\ main' = "pool" /\ up' = Workers
    /\ UNCHANGED <<current, future, result, job, broken, sent, queue, reader, mem, disk, onDisk,
                   hit>>

\* A future is done.  on_result_ready reports the result before it saves it, and every
\* exception of it is swallowed.
Collect(a) ==
    /\ main = "pool" /\ future[a] = "done"
    /\ future' = [future EXCEPT ![a] = "collected"]
    /\ \/ /\ buffer' = [buffer EXCEPT !["main"] = Append(@, Result(a))]
          /\ main' = "callback" /\ current' = a
          /\ UNCHANGED hit
       \/ Fault("early") /\ UNCHANGED <<buffer, main, current>>
    /\ UNCHANGED <<result, up, job, broken, sent, pipe, jammed, reader, mem, disk, onDisk>>

\* "Worker error": the future has no result, so nothing is reported or saved.
CollectFailure(a) ==
    /\ main = "pool" /\ future[a] = "failed"
    /\ future' = [future EXCEPT ![a] = "lost"]
    /\ UNCHANGED <<main, current, result, up, job, broken, sent, queue, reader, mem, disk, onDisk,
                   hit>>

MakeDirectory ==
    /\ main = "callback"
    /\ \/ /\ onDisk' = [onDisk EXCEPT ![current] = "part"]
          /\ main' = "files" /\ UNCHANGED <<current, hit>>
       \/ Fault("early") /\ main' = "pool" /\ current' = Nobody /\ UNCHANGED onDisk
    /\ UNCHANGED <<pool, queue, reader, mem, disk>>

SaveFiles ==
    /\ main = "files"
    /\ \/ onDisk' = [onDisk EXCEPT ![current] = "all"] /\ UNCHANGED hit
       \/ Fault("files") /\ UNCHANGED onDisk
    /\ main' = "pool" /\ current' = Nobody
    /\ UNCHANGED <<pool, queue, reader, mem, disk>>

\* map_adaptive empties the queue before the executor is left, beside the reader.
LeaveLoop ==
    /\ main = "pool" /\ \A a \in Assets : future[a] \in {"collected", "lost"}
    /\ main' = "drain"
    /\ UNCHANGED <<current, pool, queue, reader, mem, disk, onDisk, hit>>

Drain ==
    /\ main = "drain"
    /\ IF pipe = <<>> THEN main' = "join" /\ UNCHANGED pipe
                      ELSE pipe' = Tail(pipe) /\ UNCHANGED main
    /\ UNCHANGED <<current, pool, buffer, jammed, reader, mem, disk, onDisk, hit>>

\* The executor has joined its workers; ProgressTracker.stop sets the stop event.
LeavePool ==
    /\ main = "join" /\ up = {}
    /\ main' = "stop"
    /\ UNCHANGED <<current, pool, queue, reader, mem, disk, onDisk, hit>>

\* The reader is joined for one second, which a slow write may outlast.
JoinReader ==
    /\ main = "stop"
    /\ \/ reader.at = "gone" /\ UNCHANGED hit
       \/ reader.at \in {"got", "begun"} /\ Fault("late")
    /\ main' = "complete"
    /\ UNCHANGED <<current, pool, queue, reader, mem, disk, onDisk>>

\* Mutant: the last state is written like any other.
CompleteRunDebounced ==
    /\ main = "complete"
    /\ mem' = [mem EXCEPT !.status = "completed"]
    /\ MaybeFlush
    /\ main' = "teardown"
    /\ UNCHANGED <<current, pool, queue, reader, onDisk>>

CompleteRun ==
    /\ main = "complete"
    /\ mem' = [mem EXCEPT !.status = "completed"]
    /\ Flush
    /\ main' = "teardown"
    /\ UNCHANGED <<current, pool, queue, reader, onDisk>>

Collected == {a \in Assets : future[a] = "collected"}

\* The rest of stop throws away what is left of the queue; then run_optimizer looks at
\* what the results are.
TearDown ==
    /\ main = "teardown"
    /\ pipe' = <<>>
    /\ result' \in [Collected -> Kinds]
    /\ main' = "save"
    /\ UNCHANGED <<current, future, up, job, broken, sent, buffer, jammed, reader, mem, disk,
                   onDisk, hit>>

\* Mutant: save_run_results is not given the results of all assets.
NoFallback(a) == FALSE

\* The fallback of save_run_results writes where on_result_ready left no directory.
NeedsFallback(a) == a \in Collected /\ result[a].combos /\ onDisk[a] = "nothing"

\* _ran_real_backtest: otherwise run_optimizer returns None before it saves anything.
RanRealBacktest == \E a \in Collected : result[a].executed

SaveRun ==
    /\ main = "save"
    /\ main' = IF RanRealBacktest THEN "succeeded" ELSE "failed"
    /\ onDisk' = [a \in Assets |-> IF RanRealBacktest /\ NeedsFallback(a)
                                   THEN "summary" ELSE onDisk[a]]
    /\ UNCHANGED <<current, pool, queue, reader, mem, disk, hit>>

\* An exception ends the program, wherever the fallback may be.
SaveFails ==
    /\ main = "save" /\ Fault("save")
    /\ main' = "failed"
    /\ onDisk' \in {f \in [Assets -> DiskStates] :
                      \A a \in Assets : \/ f[a] = onDisk[a]
                                        \/ /\ RanRealBacktest /\ NeedsFallback(a)
                                           /\ f[a] \in {"part", "summary"}}
    /\ UNCHANGED <<current, pool, queue, reader, mem, disk>>

\* Mutant: the handlers are restored before the executor joins its workers.
HandledInLoop == main \in {"pool", "callback", "files", "drain"}

\* Between the two signal.signal calls of map_adaptive _signal_handler is installed: it
\* kills the children and leaves with os._exit.
Handled == main \in {"pool", "callback", "files", "drain", "join"}

\* SIGINT or SIGTERM.
Interrupted ==
    /\ Alive /\ Fault("interrupt")
    /\ main' = "dead"
    /\ up' = IF Handled THEN {} ELSE up
    /\ UNCHANGED <<current, future, result, job, broken, sent, queue, reader, mem, disk, onDisk>>

Gone == ~Alive /\ UNCHANGED vars

-----------------------------------------------------------------------------
Init ==
    /\ main = "start" /\ current = Nobody
    /\ future = [a \in Assets |-> "pending"]
    /\ result = <<>>
    /\ up = {} /\ job = [w \in Workers |-> Nobody] /\ broken = "no"
    /\ sent = [a \in Assets |-> [part \in Parts |-> 0]]
    /\ buffer = [p \in Senders |-> <<>>] /\ pipe = <<>> /\ jammed = FALSE
    /\ reader = [at |-> "idle", msg |-> Nobody]
    /\ mem = [status |-> "initializing",
              asset  |-> [a \in Assets |-> "pending"],
              stage  |-> [a \in Assets |->
                            [s \in Stages |-> [status |-> "absent", frac |-> 0]]]]
    /\ file = Snapshot(mem) /\ fresh = TRUE
    /\ onDisk = [a \in Assets |-> "nothing"]
    /\ hit = {}

WorkerNext ==
    \E w \in Workers :
        \/ \E a \in Assets : Take(w, a)
        \/ \E part \in Parts : Report(w, part)
        \/ Finish(w) \/ Exit(w) \/ WorkerDies(w)

ReaderNext ==
    \/ ReaderGets \/ HandleResult \/ HandleProgress \/ HandlePhase \/ FinishPhase
    \/ ReaderFails \/ ReaderStops

MainNext ==
    \/ StartPool \/ MakeDirectory \/ SaveFiles \/ LeaveLoop \/ Drain \/ LeavePool
    \/ JoinReader \/ CompleteRun \/ TearDown \/ SaveRun \/ SaveFails
    \/ \E a \in Assets : Collect(a) \/ CollectFailure(a)

Next ==
    \/ WorkerNext \/ ReaderNext \/ MainNext
    \/ \E p \in Senders : Feed(p)
    \/ PoolBreaks \/ Interrupted \/ SecondPasses \/ Gone

Spec == Init /\ [][Next]_vars

\* Every thread and process goes on as long as it can; nothing has to fail.
FairSpec ==
    /\ Spec
    /\ WF_vars(MainNext) /\ WF_vars(ReaderNext) /\ WF_vars(PoolBreaks)
    /\ \A w \in Workers :
          /\ WF_vars(\E a \in Assets : Take(w, a))
          /\ \A part \in Parts : WF_vars(Report(w, part))
          /\ WF_vars(Finish(w)) /\ WF_vars(Exit(w))
    /\ \A p \in Senders : WF_vars(Feed(p))

-----------------------------------------------------------------------------
(* Properties *)

\* The main process never leaves a worker behind: whether the run ends or is
\* interrupted by a signal, no worker process outlives it.
NoOrphans == ~Alive => up = {}

\* When a run has ended and neither a write failed nor the reader was overrun,
\* progress.json holds the last state of the writer, and a completed run.
FinalStateOnDisk ==
    Ended /\ hit \cap {"write", "late"} = {} =>
        file = Snapshot(mem) /\ file.status = "completed"

\* What a successful run leaves of the results it collected: on_result_ready and the
\* fallback of save_run_results together keep each one whole.  Only the one whose
\* callback failed may be missing, if it has no combinations, be reduced to what the
\* fallback knows, or be cut off where the callback broke off.
ResultsOnDisk ==
    main = "succeeded" => \A a \in Collected :
        /\ onDisk[a] = "nothing" => ~result[a].combos /\ "early" \in hit
        /\ onDisk[a] = "summary" => "early" \in hit
        /\ onDisk[a] = "part" => "files" \in hit

\* "on_result_ready schreibt bereits vollständige Dateien" (storage.py): where a
\* successful run has a directory for an asset, its files are not cut off.
DirectoriesComplete ==
    main = "succeeded" => \A a \in Collected : onDisk[a] # "part"

\* Every run comes to an end: no worker waits for ever on a full pipe, and the main
\* process never for ever on a worker or on the reader.
RunEnds == <>~Alive
=============================================================================
