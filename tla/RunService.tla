----------------------------- MODULE RunService -----------------------------
(***************************************************************************)
(* Optimizer runs started over HTTP: api/run_service.py and the endpoints  *)
(* of api/runs.py that use it.  Request threads share a registry of jobs   *)
(* under one lock, keep a state file per job and start, poll and terminate *)
(* child processes.                                                        *)
(*                                                                         *)
(* A section under the lock is one step; what a thread does before and     *)
(* after it are steps of their own: the preflight and the spawn of a start *)
(* request, the SIGTERM of a cancellation, the reading and rewriting of a  *)
(* state file by a status request.  Every start request has its own job id.*)
(***************************************************************************)
EXTENDS Naturals, FiniteSets

CONSTANTS Jobs,           \* start requests, which are also the ids of their jobs
          MaxConcurrent,  \* FWBG_MAX_CONCURRENT_RUNS
          MaxFaults,      \* bound on failing writes of state files
          MaxRestarts     \* bound on restarts of the API

ASSUME ServiceAssumption ==
    /\ IsFiniteSet(Jobs)
    /\ {MaxConcurrent, MaxFaults, MaxRestarts} \subseteq Nat

VARIABLES
    status,    \* job -> its status in memory, "none" when there is no such job
    attached,  \* jobs that hold their process
    file,      \* job -> status in run_state.json, "lost" for the failure disk_state writes
    child,     \* job -> its process: "none", "alive", "ok" or "bad" (exit code)
    termed,    \* jobs whose process was sent SIGTERM and is still alive
    pc,        \* job -> next step of its start request
    killing,   \* jobs a cancellation has finished and not yet terminated
    reader,    \* job -> next step of a status request, "none" when there is none
    faults,    \* failures so far
    restarts   \* restarts so far

vars == <<status, attached, file, child, termed, pc, killing, reader, faults, restarts>>

Active   == {"starting", "running"}
Terminal == {"completed", "failed", "cancelled"}

Fault == faults < MaxFaults /\ faults' = faults + 1

At(j, step)   == pc[j] = step
Goto(j, step) == pc' = [pc EXCEPT ![j] = step]

Init ==
    /\ status = [j \in Jobs |-> "none"]
    /\ attached = {}
    /\ file = [j \in Jobs |-> "none"]
    /\ child = [j \in Jobs |-> "none"]
    /\ termed = {}
    /\ pc = [j \in Jobs |-> "new"]
    /\ killing = {}
    /\ reader = [j \in Jobs |-> "none"]
    /\ faults = 0
    /\ restarts = 0

-----------------------------------------------------------------------------
(* _reap_locked: jobs whose process has exited are finished; most requests begin so *)

Exited == {j \in attached : status[j] \in Active /\ child[j] \in {"ok", "bad"}}

Outcome(j) == IF child[j] = "ok" THEN "completed" ELSE "failed"

With(statuses, done) == [j \in Jobs |-> IF j \in done THEN Outcome(j) ELSE statuses[j]]

Reaped     == With(status, Exited)
ReapedFile == With(file, Exited)

\* Mutant: a reservation holds no slot until its process is attached.
BusyRunning(statuses) == {j \in Jobs : statuses[j] = "running"}

Busy(statuses) == {j \in Jobs : statuses[j] \in Active}

\* A state file that cannot be written stops the loop: the status is set before.
ReapStops ==
    /\ Fault
    /\ \E j \in Exited : \E done \in SUBSET (Exited \ {j}) :
          status' = With(status, done \cup {j}) /\ file' = With(file, done)

\* _terminate: a process that is gone needs no signal.
Terminate(j) == termed' = IF child[j] = "alive" THEN termed \cup {j} ELSE termed

-----------------------------------------------------------------------------
(* start_run, one thread per job *)

\* reserve: a free slot is taken before anything is started.
Reserve(j) ==
    /\ At(j, "new")
    /\ IF Cardinality(Busy(Reaped)) >= MaxConcurrent
       THEN /\ status' = Reaped /\ file' = ReapedFile
            /\ Goto(j, "done")
       ELSE /\ status' = [Reaped EXCEPT ![j] = "starting"]
            /\ file' = [ReapedFile EXCEPT ![j] = "starting"]
            /\ Goto(j, "preflight")
    /\ UNCHANGED <<attached, child, termed, killing, reader, faults, restarts>>

\* The state file of this or of an exited job cannot be written: no reservation.
ReserveFails(j) ==
    /\ At(j, "new")
    /\ \/ ReapStops
       \/ /\ Cardinality(Busy(Reaped)) < MaxConcurrent
          /\ Fault
          /\ status' = Reaped /\ file' = ReapedFile
    /\ Goto(j, "done")
    /\ UNCHANGED <<attached, child, termed, killing, reader, restarts>>

\* No such strategy, or the research gate refuses; or the preflight raises.
Preflight(j) ==
    /\ At(j, "preflight")
    /\ \E next \in {"look", "release", "fail"} : Goto(j, next)
    /\ UNCHANGED <<status, attached, file, child, termed, killing, reader, faults, restarts>>

\* release: the job is dropped under the lock, its files are removed afterwards.
Release(j) ==
    /\ At(j, "release")
    /\ status' = [status EXCEPT ![j] = "none"]
    /\ Goto(j, "unlink")
    /\ UNCHANGED <<attached, file, child, termed, killing, reader, faults, restarts>>

ReleaseFiles(j) ==
    /\ At(j, "unlink")
    /\ file' = [file EXCEPT ![j] = "none"]
    /\ Goto(j, "done")
    /\ UNCHANGED <<status, attached, child, termed, killing, reader, faults, restarts>>

\* Was the job cancelled during the preflight?  (Tests that switch the gate off skip
\* preflight and question.)
Look(j) ==
    /\ At(j, "look")
    /\ Goto(j, IF status[j] = "starting" THEN "spawn" ELSE "done")
    /\ UNCHANGED <<status, attached, file, child, termed, killing, reader, faults, restarts>>

Spawn(j) ==
    /\ At(j, "spawn")
    /\ \/ child' = [child EXCEPT ![j] = "alive"] /\ Goto(j, "attach")
       \/ Goto(j, "fail") /\ UNCHANGED child
    /\ UNCHANGED <<status, attached, file, termed, killing, reader, faults, restarts>>

Attaching(j) ==
    /\ status' = [status EXCEPT ![j] = "running"]
    /\ attached' = attached \cup {j}

\* Mutant: the process of a job that was cancelled in the meantime is left alone.
AttachLeaving(j) ==
    /\ At(j, "attach")
    /\ IF status[j] = "starting"
       THEN Attaching(j) /\ file' = [file EXCEPT ![j] = "running"]
       ELSE UNCHANGED <<status, attached, file>>
    /\ Goto(j, "done")
    /\ UNCHANGED <<child, termed, killing, reader, faults, restarts>>

\* attach: a job that was cancelled in the meantime gets no process.
Attach(j) ==
    /\ At(j, "attach")
    /\ IF status[j] = "starting"
       THEN Attaching(j) /\ file' = [file EXCEPT ![j] = "running"] /\ Goto(j, "done")
       ELSE Goto(j, "terminate") /\ UNCHANGED <<status, attached, file>>
    /\ UNCHANGED <<child, termed, killing, reader, faults, restarts>>

\* The state file cannot be written: the process is terminated, the start has failed.
AttachFails(j) ==
    /\ At(j, "attach")
    /\ status[j] = "starting"
    /\ Fault
    /\ Attaching(j)
    /\ Terminate(j)
    /\ Goto(j, "fail")
    /\ UNCHANGED <<file, child, killing, reader, restarts>>

TerminateUnattached(j) ==
    /\ At(j, "terminate")
    /\ Terminate(j)
    /\ Goto(j, "done")
    /\ UNCHANGED <<status, attached, file, child, killing, reader, faults, restarts>>

\* Mutant: a cancelled job fails like any other.
FailSpawnAlways(j) ==
    /\ At(j, "fail")
    /\ status' = [status EXCEPT ![j] = "failed"] /\ file' = [file EXCEPT ![j] = "failed"]
    /\ Goto(j, "done")
    /\ UNCHANGED <<attached, child, termed, killing, reader, faults, restarts>>

\* Mutant: only the state file tells of the failure.
FailSpawnOnDisk(j) ==
    /\ At(j, "fail")
    /\ file' = [file EXCEPT ![j] = "failed"]
    /\ Goto(j, "done")
    /\ UNCHANGED <<status, attached, child, termed, killing, reader, faults, restarts>>

\* fail_spawn: a cancelled job stays cancelled.
FailSpawn(j) ==
    /\ At(j, "fail")
    /\ IF status[j] \in {"none", "cancelled"}
       THEN UNCHANGED <<status, file, faults>>
       ELSE /\ status' = [status EXCEPT ![j] = "failed"]
            /\ \/ file' = [file EXCEPT ![j] = "failed"] /\ UNCHANGED faults
               \/ Fault /\ UNCHANGED file
    /\ Goto(j, "done")
    /\ UNCHANGED <<attached, child, termed, killing, reader, restarts>>

-----------------------------------------------------------------------------
(* Cancellation, status requests, deletion *)

\* cancel: a terminal or unknown job is only reaped (see Poll).
Cancel(j) ==
    /\ Reaped[j] \in Active
    /\ status' = [Reaped EXCEPT ![j] = "cancelled"]
    /\ file' = [ReapedFile EXCEPT ![j] = "cancelled"]
    /\ killing' = IF j \in attached THEN killing \cup {j} ELSE killing
    /\ UNCHANGED <<attached, child, termed, pc, reader, faults, restarts>>

\* The state file cannot be written: the request ends before its SIGTERM.
CancelFails(j) ==
    /\ Reaped[j] \in Active
    /\ Fault
    /\ status' = [Reaped EXCEPT ![j] = "cancelled"]
    /\ file' = ReapedFile
    /\ UNCHANGED <<attached, child, termed, pc, killing, reader, restarts>>

\* The SIGTERM of a cancellation, after the lock is released.
Kill(j) ==
    /\ j \in killing
    /\ Terminate(j)
    /\ killing' = killing \ {j}
    /\ UNCHANGED <<status, attached, file, child, pc, reader, faults, restarts>>

\* snapshot, the first half of a status request: what has exited is finished.  Not
\* every request goes on to the state file.
Poll(j) ==
    /\ reader[j] = "none"
    /\ status' = Reaped /\ file' = ReapedFile
    /\ \E next \in {"none", "read"} : reader' = [reader EXCEPT ![j] = next]
    /\ UNCHANGED <<attached, child, termed, pc, killing, faults, restarts>>

\* A status request or cancellation that cannot write what it reaped ends there.
PollFails ==
    /\ ReapStops
    /\ UNCHANGED <<attached, child, termed, pc, killing, reader, restarts>>

\* disk_state, the second half, without the lock: an active status is called lost.
ReadState(j) ==
    /\ reader[j] = "read"
    /\ reader' = [reader EXCEPT ![j] = IF file[j] \in Active THEN "write" ELSE "none"]
    /\ UNCHANGED <<status, attached, file, child, termed, pc, killing, faults, restarts>>

\* Mutant: what was read is declared completed.
WriteStateCompleted(j) ==
    /\ reader[j] = "write"
    /\ \/ file' = [file EXCEPT ![j] = "completed"] /\ UNCHANGED faults
       \/ Fault /\ UNCHANGED file
    /\ reader' = [reader EXCEPT ![j] = "none"]
    /\ UNCHANGED <<status, attached, child, termed, pc, killing, restarts>>

WriteState(j) ==
    /\ reader[j] = "write"
    /\ \/ file' = [file EXCEPT ![j] = "lost"] /\ UNCHANGED faults
       \/ Fault /\ UNCHANGED file
    /\ reader' = [reader EXCEPT ![j] = "none"]
    /\ UNCHANGED <<status, attached, child, termed, pc, killing, restarts>>

\* delete_run: all files of a run that is not active; the job stays in memory.
Delete(j) ==
    /\ status[j] \notin Active
    /\ file[j] # "none"
    /\ file' = [file EXCEPT ![j] = "none"]
    /\ UNCHANGED <<status, attached, child, termed, pc, killing, reader, faults, restarts>>

-----------------------------------------------------------------------------
(* Processes *)

ChildExits(j) ==
    /\ child[j] = "alive"
    /\ \E code \in {"ok", "bad"} : child' = [child EXCEPT ![j] = code]
    /\ termed' = termed \ {j}
    /\ UNCHANGED <<status, attached, file, pc, killing, reader, faults, restarts>>

\* The API restarts: threads and registry are gone, files and children are not.
Restart ==
    /\ restarts < MaxRestarts
    /\ restarts' = restarts + 1
    /\ status' = [j \in Jobs |-> "none"]
    /\ attached' = {}
    /\ pc' = [j \in Jobs |-> IF pc[j] = "new" THEN "new" ELSE "done"]
    /\ killing' = {}
    /\ reader' = [j \in Jobs |-> "none"]
    /\ UNCHANGED <<file, child, termed, faults>>

\* A start request, from its reservation on.
Starting(j) ==
    \/ Preflight(j) \/ Release(j) \/ ReleaseFiles(j) \/ Look(j) \/ Spawn(j)
    \/ Attach(j) \/ TerminateUnattached(j) \/ FailSpawn(j)

Request(j) ==
    \/ Reserve(j) \/ ReserveFails(j) \/ AttachFails(j)
    \/ Cancel(j) \/ CancelFails(j) \/ Kill(j)
    \/ Poll(j) \/ ReadState(j) \/ WriteState(j)
    \/ Delete(j)

Next ==
    \/ \E j \in Jobs : Starting(j) \/ Request(j) \/ ChildExits(j)
    \/ PollFails
    \/ Restart

Spec == Init /\ [][Next]_vars

-----------------------------------------------------------------------------
(* Correctness *)

StartSteps == {"new", "preflight", "release", "unlink", "look", "spawn",
               "attach", "terminate", "fail", "done"}

TypeOK ==
    /\ status \in [Jobs -> Active \cup Terminal \cup {"none"}]
    /\ attached \subseteq Jobs
    /\ file \in [Jobs -> Active \cup Terminal \cup {"none", "lost"}]
    /\ child \in [Jobs -> {"none", "alive", "ok", "bad"}]
    /\ termed \subseteq Jobs
    /\ pc \in [Jobs -> StartSteps]
    /\ killing \subseteq Jobs
    /\ reader \in [Jobs -> {"none", "read", "write"}]
    /\ faults \in 0 .. MaxFaults
    /\ restarts \in 0 .. MaxRestarts

\* "Atomically reserve a slot before any subprocess spawn occurs": never more active
\* jobs than slots, whichever requests race for them.
SlotsRespected == Cardinality(Busy(status)) <= MaxConcurrent

\* A process that nobody told to stop belongs to a running job, or a thread is about
\* to attach or terminate it.  Exceptions: a restart forgets all jobs, and a
\* cancellation that could not be written ends before its SIGTERM.
NoStrayProcess ==
    \A j \in Jobs : child[j] = "alive" /\ j \notin termed =>
        \/ status[j] = "running" /\ j \in attached
        \/ At(j, "attach") \/ At(j, "terminate")
        \/ j \in killing
        \/ restarts > 0
        \/ status[j] = "cancelled" /\ file[j] # "cancelled"

\* "Cancellation is terminal even if the child exits later", or fails to start: a
\* cancelled job changes no more, unless it is dropped.
CancelledIsFinal ==
    [][\A j \in Jobs : status[j] = "cancelled" => status'[j] \in {"cancelled", "none"}]_vars

\* A run is shown as completed only if its process succeeded, also from its state
\* file after restarts.
CompletedSucceeded ==
    \A j \in Jobs : "completed" \in {status[j], file[j]} => child[j] = "ok"

-----------------------------------------------------------------------------
(***************************************************************************)
(* Fairness.  Threads run on, backtests end, and somebody asks for the     *)
(* state of a run again and again (every such request reaps).  Requests to *)
(* cancel or delete, failures and restarts are left to chance.             *)
(***************************************************************************)
Fairness ==
    \A j \in Jobs :
        /\ WF_vars(Starting(j)) /\ WF_vars(Kill(j)) /\ WF_vars(ChildExits(j))
        /\ WF_vars(Poll(j)) /\ WF_vars(ReadState(j)) /\ WF_vars(WriteState(j))

LiveSpec == Spec /\ Fairness

\* A slot that was reserved is free again in the end, however the start, the run or a
\* write fails.
SlotsComeBack == \A j \in Jobs : status[j] \in Active ~> status[j] \notin Active
=============================================================================
