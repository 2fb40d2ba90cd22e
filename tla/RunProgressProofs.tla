------------------------- MODULE RunProgressProofs -------------------------
(***************************************************************************)
(* Theorems about RunProgress, for any number of assets, workers, folds    *)
(* and messages, and any of the faults.                                    *)
(***************************************************************************)
EXTENDS RunProgress, TLAPS

-----------------------------------------------------------------------------
(***************************************************************************)
(* Workers exist only while the signal handlers of map_adaptive are        *)
(* installed.                                                              *)
(***************************************************************************)
WorkersHandled == up # {} => Handled

\* Whenever worker processes exist the handlers of map_adaptive are installed, so that no
\* way out of the main process, by its own end or by a signal, leaves one behind.
THEOREM NoOrphansTheorem == Spec => []NoOrphans
  <1>1. Init => WorkersHandled
    BY DEF Init, WorkersHandled
  <1>2. WorkersHandled /\ [Next]_vars => WorkersHandled'
    <2> SUFFICES ASSUME WorkersHandled, [Next]_vars PROVE WorkersHandled'
      OBVIOUS
    <2>1. ASSUME NEW w \in Workers, Exit(w) \/ WorkerDies(w) PROVE WorkersHandled'
      BY <2>1 DEF Exit, WorkerDies, Vanish, WorkersHandled, Handled
    <2>2. ASSUME WorkerNext, UNCHANGED <<main, up>> PROVE WorkersHandled'
      BY <2>2 DEF WorkersHandled, Handled
    <2>3. CASE WorkerNext
      BY <2>1, <2>2, <2>3 DEF WorkerNext, Take, Report, Finish
    <2>4. CASE ReaderNext
      BY <2>4 DEF ReaderNext, ReaderGets, HandleResult, HandleProgress, HandlePhase,
                  FinishPhase, ReaderFails, ReaderStops, pool, WorkersHandled, Handled
    <2>5. CASE MainNext
      <3>1. CASE StartPool
        BY <3>1 DEF StartPool, WorkersHandled, Handled
      <3>2. CASE MakeDirectory \/ SaveFiles \/ LeaveLoop \/ Drain
        BY <3>2 DEF MakeDirectory, SaveFiles, LeaveLoop, Drain, pool, WorkersHandled, Handled
      <3>3. CASE LeavePool
        BY <3>3 DEF LeavePool, pool, WorkersHandled, Handled
      <3>4. CASE JoinReader \/ CompleteRun \/ TearDown \/ SaveRun \/ SaveFails
        BY <3>4 DEF JoinReader, CompleteRun, TearDown, SaveRun, SaveFails, pool, WorkersHandled,
                    Handled
      <3>5. CASE \E a \in Assets : Collect(a) \/ CollectFailure(a)
        BY <3>5 DEF Collect, CollectFailure, WorkersHandled, Handled
      <3> QED
        BY <2>5, <3>1, <3>2, <3>3, <3>4, <3>5 DEF MainNext
    <2>6. CASE (\E p \in Senders : Feed(p)) \/ SecondPasses \/ Gone \/ UNCHANGED vars
      BY <2>6 DEF Feed, SecondPasses, Gone, vars, pool, WorkersHandled, Handled
    <2>7. CASE PoolBreaks
      BY <2>7 DEF PoolBreaks, Vanish, WorkersHandled, Handled
    <2>8. CASE Interrupted
      BY <2>8 DEF Interrupted, WorkersHandled
    <2> QED
      BY <2>3, <2>4, <2>5, <2>6, <2>7, <2>8 DEF Next
  <1>3. WorkersHandled => NoOrphans
    BY DEF WorkersHandled, NoOrphans, Handled, Alive, Ended
  <1> QED
    BY <1>1, <1>2, <1>3, PTL DEF Spec

-----------------------------------------------------------------------------
(***************************************************************************)
(* Once the main process has joined the reader nobody but itself touches   *)
(* the state of the writer, and complete_run is the last to write it.      *)
(***************************************************************************)
ReaderJoined ==
    main \in {"complete", "teardown", "save", "succeeded", "failed"} /\ "late" \notin hit =>
        reader.at = "gone"

LastWrite ==
    main \in {"teardown", "save", "succeeded", "failed"} /\ hit \cap {"write", "late"} = {} =>
        file = Snapshot(mem) /\ file.status = "completed"

FileInv ==
    /\ DOMAIN mem = {"status", "asset", "stage"}
    /\ ReaderJoined
    /\ LastWrite

\* A step of the reader leaves the main process where it is and needs a reader.
LEMMA ReaderKeepsFile ==
  ASSUME FileInv, ReaderNext
  PROVE  FileInv'
  <1>1. UNCHANGED main /\ reader.at # "gone" /\ hit \subseteq hit'
    BY DEF ReaderNext, ReaderGets, HandleResult, HandleProgress, HandlePhase, FinishPhase,
           ReaderFails, ReaderStops, CompleteAsset, BeginAsset, UpdateStage, MaybeFlush,
           Flush, Fault
  <1>2. DOMAIN mem' = DOMAIN mem
    BY DEF ReaderNext, ReaderGets, HandleResult, HandleProgress, HandlePhase, FinishPhase,
           ReaderFails, ReaderStops, CompleteAsset, BeginAsset, UpdateStage
  <1>3. main \in {"complete", "teardown", "save", "succeeded", "failed"} => "late" \in hit
    BY <1>1 DEF FileInv, ReaderJoined
  <1> QED
    BY <1>1, <1>2, <1>3 DEF FileInv, ReaderJoined, LastWrite

\* A step that leaves the reader, the writer and the file alone.
LEMMA OthersKeepFile ==
  ASSUME FileInv, UNCHANGED <<reader, mem, file>>, hit \subseteq hit',
         \/ UNCHANGED main
         \/ main' \notin {"complete", "teardown", "save", "succeeded", "failed"}
         \/ main \in {"teardown", "save"}
  PROVE  FileInv'
  BY DEF FileInv, ReaderJoined, LastWrite, Snapshot

\* complete_run writes progress.json after the last message was handled, and nothing
\* writes it later.
THEOREM FinalStateTheorem == Spec => []FinalStateOnDisk
  <1>1. Init => FileInv
    BY DEF Init, FileInv, ReaderJoined, LastWrite
  <1>2. FileInv /\ [Next]_vars => FileInv'
    <2> SUFFICES ASSUME FileInv, [Next]_vars PROVE FileInv'
      OBVIOUS
    <2>1. CASE WorkerNext
      BY <2>1, OthersKeepFile
         DEF WorkerNext, Take, Report, Finish, Exit, WorkerDies, Fault, disk
    <2>2. CASE ReaderNext
      BY <2>2, ReaderKeepsFile
    <2>3. CASE MainNext
      <3>1. CASE StartPool \/ LeaveLoop \/ Drain \/ LeavePool
        BY <3>1, OthersKeepFile DEF StartPool, LeaveLoop, Drain, LeavePool, disk
      <3>2. CASE MakeDirectory \/ SaveFiles
        BY <3>2, OthersKeepFile DEF MakeDirectory, SaveFiles, disk, Fault
      <3>3. CASE \E a \in Assets : Collect(a) \/ CollectFailure(a)
        BY <3>3, OthersKeepFile DEF Collect, CollectFailure, Fault, disk
      <3>4. CASE JoinReader
        <4>1. /\ main' = "complete" /\ UNCHANGED <<reader, mem>>
              /\ reader.at = "gone" \/ "late" \in hit'
          BY <3>4 DEF JoinReader, Fault
        <4> QED
          BY <4>1 DEF FileInv, ReaderJoined, LastWrite
      <3>5. CASE CompleteRun
        <4>1. /\ main = "complete" /\ main' = "teardown" /\ UNCHANGED reader
              /\ mem' = [mem EXCEPT !.status = "completed"] /\ Flush
          BY <3>5 DEF CompleteRun
        <4>2. DOMAIN mem' = DOMAIN mem /\ mem'.status = "completed"
          BY <4>1 DEF FileInv
        <4>3. hit \subseteq hit'
          BY <4>1 DEF Flush, Fault
        <4>4. ReaderJoined'
          BY <4>1, <4>3 DEF FileInv, ReaderJoined
        <4>5. file' = Snapshot(mem') \/ "write" \in hit'
          BY <4>1 DEF Flush, Fault
        <4>6. Snapshot(mem').status = "completed" /\ Snapshot(mem)' = Snapshot(mem')
          BY <4>2 DEF Snapshot
        <4>7. LastWrite'
          BY <4>5, <4>6 DEF LastWrite
        <4> QED
          BY <4>2, <4>4, <4>7 DEF FileInv
      <3>6. CASE TearDown \/ SaveRun \/ SaveFails
        BY <3>6, OthersKeepFile DEF TearDown, SaveRun, SaveFails, Fault, disk
      <3> QED
        BY <2>3, <3>1, <3>2, <3>3, <3>4, <3>5, <3>6 DEF MainNext
    <2>4. CASE (\E p \in Senders : Feed(p)) \/ SecondPasses \/ Gone \/ UNCHANGED vars
      BY <2>4, OthersKeepFile DEF Feed, SecondPasses, Gone, vars, disk
    <2>5. CASE PoolBreaks \/ Interrupted
      BY <2>5, OthersKeepFile DEF PoolBreaks, Interrupted, Fault, disk
    <2> QED
      BY <2>1, <2>2, <2>3, <2>4, <2>5 DEF Next
  <1>3. FileInv => FinalStateOnDisk
    BY DEF FileInv, LastWrite, FinalStateOnDisk, Ended
  <1> QED
    BY <1>1, <1>2, <1>3, PTL DEF Spec

-----------------------------------------------------------------------------
(***************************************************************************)
(* A worker processes an asset that nobody else processes and that is not  *)
(* done, until a broken executor gives it up.                              *)
(***************************************************************************)
FutureStates == {"pending", "running", "done", "failed", "collected", "lost"}

JobInv ==
    /\ future \in [Assets -> FutureStates]
    /\ job \in [Workers -> Assets \cup {Nobody}]
    /\ broken # "handled" =>
          \A w \in Workers : job[w] # Nobody => future[job[w]] = "running"
    /\ \A v, w \in Workers : job[v] = job[w] /\ job[v] # Nobody => v = w

\* No asset is processed by two workers, and one that is processed is not done.
LEMMA JobsAreApart == Spec => []JobInv
  <1> USE DEF pool, FutureStates
  <1>1. Init => JobInv
    BY DEF Init, JobInv
  <1>2. JobInv /\ [Next]_vars => JobInv'
    <2> SUFFICES ASSUME JobInv, [Next]_vars PROVE JobInv'
      OBVIOUS
    <2>1. ASSUME NEW w \in Workers, NEW a \in Assets, Take(w, a) PROVE JobInv'
      BY <2>1, RunProgressAssumption DEF Take, Works, JobInv, Nobody
    <2>2. ASSUME NEW w \in Workers, Finish(w) PROVE JobInv'
      BY <2>2 DEF Finish, Works, JobInv
    <2>3. ASSUME NEW a \in Assets, Collect(a) \/ CollectFailure(a) PROVE JobInv'
      BY <2>3 DEF Collect, CollectFailure, JobInv
    <2>4. ASSUME NEW w \in Workers, WorkerDies(w) PROVE JobInv'
      <3>1. /\ job' = [v \in Workers |-> IF v \in {w} THEN Nobody ELSE job[v]]
            /\ UNCHANGED future /\ broken # "handled"
        BY <2>4 DEF WorkerDies, Vanish
      <3> QED
        BY <3>1 DEF JobInv
    <2>10. CASE PoolBreaks
      <3>1. PICK gone \in SUBSET up :
                  job' = [v \in Workers |-> IF v \in gone THEN Nobody ELSE job[v]]
        BY <2>10 DEF PoolBreaks, Vanish
      <3>2. broken' = "handled" /\ future' \in [Assets -> FutureStates]
        BY <2>10 DEF PoolBreaks, JobInv
      <3> QED
        BY <3>1, <3>2 DEF JobInv
    <2>5. ASSUME UNCHANGED <<future, job, broken>> PROVE JobInv'
      BY <2>5 DEF JobInv
    <2>6. CASE ReaderNext
      BY <2>5, <2>6 DEF ReaderNext, ReaderGets, HandleResult, HandleProgress, HandlePhase,
                        FinishPhase, ReaderFails, ReaderStops
    <2>7. CASE MainNext
      BY <2>3, <2>5, <2>7
         DEF MainNext, StartPool, MakeDirectory, SaveFiles, LeaveLoop, Drain, LeavePool,
             JoinReader, CompleteRun, TearDown, SaveRun, SaveFails
    <2>8. CASE WorkerNext
      BY <2>1, <2>2, <2>4, <2>5, <2>8 DEF WorkerNext, Report, Exit
    <2>9. CASE (\E p \in Senders : Feed(p)) \/ Interrupted \/ SecondPasses \/ Gone
               \/ UNCHANGED vars
      BY <2>5, <2>9 DEF Feed, Interrupted, SecondPasses, Gone, vars
    <2> QED
      BY <2>6, <2>7, <2>8, <2>9, <2>10 DEF Next
  <1> QED
    BY <1>1, <1>2, PTL DEF Spec

-----------------------------------------------------------------------------
(***************************************************************************)
(* What there is of a collected result on disk, before the fallback and    *)
(* after it, except of the one being saved.                                *)
(***************************************************************************)
Saving == main \in {"callback", "files"}

OnDiskInv ==
    /\ onDisk \in [Assets -> DiskStates]
    /\ Saving => current \in Collected
    /\ main \notin {"callback", "files", "dead"} => current = Nobody
    /\ main = "callback" => onDisk[current] = "nothing"
    /\ main = "files" => onDisk[current] = "part"
    /\ \A a \in Assets \ Collected : onDisk[a] = "nothing"
    /\ \A a \in Collected : a # current =>
          /\ onDisk[a] = "nothing" => "early" \in hit
          /\ onDisk[a] = "summary" => Ended /\ "early" \in hit
          /\ onDisk[a] = "part" => "files" \in hit \/ main = "failed"
    /\ ResultsOnDisk

\* A step that collects nothing and saves nothing.
LEMMA OthersKeepDisk ==
  ASSUME OnDiskInv, UNCHANGED <<current, onDisk>>, Collected' = Collected, hit \subseteq hit',
         \/ main' = main /\ (main # "succeeded" \/ UNCHANGED result)
         \/ main' = "dead" /\ ~Ended
         \/ {main, main'} \cap {"callback", "files", "succeeded", "failed", "dead"} = {}
  PROVE  OnDiskInv'
  BY DEF OnDiskInv, Saving, ResultsOnDisk, Ended

\* Whatever goes wrong: of the results a successful run collected only
\* those whose callback failed are less than whole, and none with combinations is missing.
THEOREM ResultsOnDiskTheorem == Spec => []ResultsOnDisk
  <1>1. Init => OnDiskInv
    BY DEF Init, OnDiskInv, Saving, ResultsOnDisk, DiskStates, Collected, Ended
  <1>2. JobInv /\ OnDiskInv /\ [Next]_vars => OnDiskInv'
    <2> SUFFICES ASSUME JobInv, OnDiskInv, [Next]_vars PROVE OnDiskInv'
      OBVIOUS
    <2> USE DEF pool
    <2>1. ASSUME NEW w \in Workers, NEW a \in Assets, Take(w, a) PROVE OnDiskInv'
      BY <2>1, OthersKeepDisk DEF Take, JobInv, Collected
    <2>2. ASSUME NEW w \in Workers, Finish(w) PROVE OnDiskInv'
      BY <2>2, OthersKeepDisk DEF Finish, Works, JobInv, Collected
    <2>3. ASSUME NEW w \in Workers, Exit(w) \/ \E part \in Parts : Report(w, part)
          PROVE  OnDiskInv'
      BY <2>3, OthersKeepDisk DEF Exit, Report, Collected
    <2>4. ASSUME NEW w \in Workers, WorkerDies(w) PROVE OnDiskInv'
      BY <2>4, OthersKeepDisk DEF WorkerDies, Fault, Collected
    <2>5. CASE ReaderNext
      <3>1. UNCHANGED <<main, current, future, result, onDisk>> /\ hit \subseteq hit'
        BY <2>5
           DEF ReaderNext, ReaderGets, HandleResult, HandleProgress, HandlePhase, FinishPhase,
               ReaderFails, ReaderStops, CompleteAsset, BeginAsset, UpdateStage, MaybeFlush,
               Flush, Fault
      <3> QED
        BY <3>1, OthersKeepDisk DEF Collected
    <2>6. CASE MainNext
      <3>1. CASE StartPool \/ LeaveLoop \/ Drain \/ LeavePool
        BY <3>1, OthersKeepDisk DEF StartPool, LeaveLoop, Drain, LeavePool, Collected
      <3>2. CASE JoinReader \/ CompleteRun \/ TearDown
        BY <3>2, OthersKeepDisk DEF JoinReader, CompleteRun, TearDown, Flush, Fault, Collected
      <3>3. CASE MakeDirectory
        <4>1. current \in Collected /\ onDisk[current] = "nothing" /\ main = "callback"
              /\ Collected' = Collected /\ hit \subseteq hit'
          BY <3>3 DEF MakeDirectory, OnDiskInv, Saving, Collected, Fault
        <4> QED
          BY <3>3, <4>1 DEF MakeDirectory, OnDiskInv, Saving, ResultsOnDisk, DiskStates, Ended,
                            Fault, Collected
      <3>4. CASE SaveFiles
        <4>1. /\ main = "files" /\ main' = "pool" /\ current' = Nobody
              /\ Collected' = Collected /\ hit \subseteq hit' /\ current \in Assets
          BY <3>4 DEF SaveFiles, OnDiskInv, Saving, Collected, Fault
        <4>2. \/ onDisk' = [onDisk EXCEPT ![current] = "all"]
              \/ UNCHANGED onDisk /\ "files" \in hit'
          BY <3>4 DEF SaveFiles, Fault
        <4>3. onDisk' \in [Assets -> DiskStates]
          BY <4>1, <4>2 DEF OnDiskInv, DiskStates
        <4>4. \A a \in Assets \ Collected : onDisk'[a] = "nothing"
          BY <3>4, <4>1, <4>2 DEF OnDiskInv, Saving
        <4>5. onDisk[current] # "summary" /\ onDisk[current] # "nothing"
          BY <4>1 DEF OnDiskInv
        <4>6. ASSUME NEW a \in Collected
              PROVE  /\ onDisk'[a] = "nothing" => "early" \in hit'
                     /\ onDisk'[a] # "summary"
                     /\ onDisk'[a] = "part" => "files" \in hit'
          <5>1. CASE a = current
            BY <4>1, <4>2, <4>5, <5>1 DEF OnDiskInv
          <5>2. CASE a # current
            BY <4>1, <4>2, <5>2 DEF OnDiskInv, Ended, Collected
          <5> QED
            BY <5>1, <5>2
        <4> QED
          BY <4>1, <4>3, <4>4, <4>6 DEF OnDiskInv, Saving, ResultsOnDisk
      <3>5. ASSUME NEW a \in Assets, Collect(a) PROVE OnDiskInv'
        <4>1. /\ main = "pool" /\ a \notin Collected /\ UNCHANGED onDisk
              /\ Collected' = Collected \cup {a} /\ hit \subseteq hit'
              /\ \/ main' = "callback" /\ current' = a
                 \/ main' = "pool" /\ UNCHANGED current /\ "early" \in hit'
          BY <3>5 DEF Collect, Collected, JobInv, Fault
        <4>2. current = Nobody /\ onDisk[a] = "nothing"
          BY <4>1 DEF OnDiskInv
        <4>3. \A b \in Collected : b # current
          BY <4>2, RunProgressAssumption DEF Collected, Nobody
        <4>4. \A b \in Collected :
                 /\ onDisk[b] = "nothing" => "early" \in hit'
                 /\ onDisk[b] # "summary"
                 /\ onDisk[b] = "part" => "files" \in hit'
          BY <4>1, <4>3 DEF OnDiskInv, Ended
        <4> QED
          BY <4>1, <4>2, <4>4 DEF OnDiskInv, Saving, ResultsOnDisk
      <3>6. ASSUME NEW a \in Assets, CollectFailure(a) PROVE OnDiskInv'
        BY <3>6, OthersKeepDisk DEF CollectFailure, JobInv, Collected
      <3>7. CASE SaveRun
        <4>1. /\ main = "save" /\ current = Nobody /\ UNCHANGED <<current, hit, result>>
              /\ Collected' = Collected
              /\ \/ main' = "succeeded" /\ RanRealBacktest
                 \/ main' = "failed" /\ ~RanRealBacktest
          BY <3>7 DEF SaveRun, OnDiskInv, Collected
        <4>2. /\ onDisk' \in [Assets -> DiskStates]
              /\ \A a \in Assets : onDisk'[a] = IF RanRealBacktest /\ NeedsFallback(a)
                                               THEN "summary" ELSE onDisk[a]
          BY <3>7 DEF SaveRun, OnDiskInv, DiskStates
        <4>3. \A a \in Collected : a # current
          BY <4>1, RunProgressAssumption DEF Collected, Nobody
        <4>4. \A a \in Assets \ Collected : onDisk'[a] = "nothing"
          BY <4>2 DEF NeedsFallback, OnDiskInv
        <4>5. ASSUME NEW a \in Collected
              PROVE  /\ onDisk'[a] = "nothing" => "early" \in hit
                     /\ onDisk'[a] = "summary" => "early" \in hit
                     /\ onDisk'[a] = "part" => "files" \in hit
                     /\ onDisk'[a] = "nothing" /\ RanRealBacktest => ~result[a].combos
          <5>1. /\ onDisk[a] = "nothing" => "early" \in hit
                /\ onDisk[a] # "summary"
                /\ onDisk[a] = "part" => "files" \in hit
            BY <4>1, <4>3 DEF OnDiskInv, Ended
          <5>2. onDisk'[a] = IF RanRealBacktest /\ NeedsFallback(a)
                            THEN "summary" ELSE onDisk[a]
            BY <4>2 DEF Collected
          <5>3. NeedsFallback(a) <=> result[a].combos /\ onDisk[a] = "nothing"
            BY DEF NeedsFallback
          <5> QED
            BY <5>1, <5>2, <5>3
        <4> QED
          BY <4>1, <4>2, <4>4, <4>5 DEF OnDiskInv, Saving, ResultsOnDisk, Ended
      <3>8. CASE SaveFails
        <4>1. /\ main = "save" /\ main' = "failed" /\ current = Nobody /\ UNCHANGED current
              /\ Collected' = Collected /\ hit \subseteq hit'
              /\ onDisk' \in [Assets -> DiskStates]
              /\ \A a \in Assets : \/ onDisk'[a] = onDisk[a]
                                  \/ /\ NeedsFallback(a)
                                     /\ onDisk'[a] \in {"part", "summary"}
          BY <3>8 DEF SaveFails, OnDiskInv, Fault, Collected
        <4>2. \A a \in Collected : a # current
          BY <4>1, RunProgressAssumption DEF Collected, Nobody
        <4>3. \A a \in Assets \ Collected : onDisk'[a] = "nothing"
          BY <4>1 DEF NeedsFallback, OnDiskInv
        <4>4. ASSUME NEW a \in Collected
              PROVE  /\ onDisk'[a] = "nothing" => "early" \in hit'
                     /\ onDisk'[a] = "summary" => "early" \in hit'
          <5>1. /\ onDisk[a] = "nothing" => "early" \in hit
                /\ onDisk[a] # "summary"
            BY <4>1, <4>2 DEF OnDiskInv, Ended
          <5>2. \/ onDisk'[a] = onDisk[a]
                \/ NeedsFallback(a)
            BY <4>1 DEF Collected
          <5>3. NeedsFallback(a) => onDisk[a] = "nothing"
            BY DEF NeedsFallback
          <5> QED
            BY <4>1, <5>1, <5>2, <5>3
        <4> QED
          BY <4>1, <4>3, <4>4 DEF OnDiskInv, Saving, ResultsOnDisk, Ended
      <3> QED
        BY <2>6, <3>1, <3>2, <3>3, <3>4, <3>5, <3>6, <3>7, <3>8 DEF MainNext
    <2>7. CASE (\E p \in Senders : Feed(p)) \/ SecondPasses \/ Gone \/ UNCHANGED vars
      BY <2>7, OthersKeepDisk DEF Feed, SecondPasses, Gone, vars, Collected
    <2>8. CASE PoolBreaks
      BY <2>8, OthersKeepDisk DEF PoolBreaks, JobInv, Collected
    <2>9. CASE Interrupted
      BY <2>9, OthersKeepDisk DEF Interrupted, Alive, Fault, Collected
    <2> QED
      BY <2>1, <2>2, <2>3, <2>4, <2>5, <2>6, <2>7, <2>8, <2>9 DEF Next, WorkerNext
  <1>3. OnDiskInv => ResultsOnDisk
    BY DEF OnDiskInv
  <1> QED
    BY <1>1, <1>2, <1>3, JobsAreApart, PTL DEF Spec
=============================================================================
