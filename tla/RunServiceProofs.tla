-------------------------- MODULE RunServiceProofs --------------------------
(***************************************************************************)
(* Theorems about RunService, for any number of start requests, slots,     *)
(* failing writes and restarts.                                            *)
(***************************************************************************)
EXTENDS RunService, FiniteSetTheorems, TLAPS

Statuses == Active \cup Terminal \cup {"none"}

-----------------------------------------------------------------------------
(***************************************************************************)
(* Types, and what the next step of a start request tells of its job: this *)
(* is where the two meet, a process appears only in Spawn and a failing    *)
(* start has none that nobody terminated.                                  *)
(***************************************************************************)

\* Reaping gives the jobs whose process has exited its outcome, and no others.
LEMMA Reaping ==
  ASSUME TypeOK, NEW done \in SUBSET Exited
  PROVE  /\ With(status, done) \in [Jobs -> Statuses]
         /\ With(file, done) \in [Jobs -> Statuses \cup {"lost"}]
         /\ \A k \in done :
               /\ status[k] \in Active /\ k \in attached
               /\ \/ child[k] = "ok" /\ Outcome(k) = "completed"
                  \/ child[k] = "bad" /\ Outcome(k) = "failed"
               /\ With(status, done)[k] = Outcome(k) /\ With(file, done)[k] = Outcome(k)
         /\ \A k \in Jobs \ done :
               With(status, done)[k] = status[k] /\ With(file, done)[k] = file[k]
  <1>1. \A k \in done :
           /\ k \in Jobs /\ k \in attached /\ status[k] \in Active
           /\ \/ child[k] = "ok" /\ Outcome(k) = "completed"
              \/ child[k] = "bad" /\ Outcome(k) = "failed"
    BY DEF Exited, Outcome, TypeOK
  <1> QED
    BY <1>1 DEF With, TypeOK, Statuses, Terminal

\* Every step preserves the types.
LEMMA TypeStep == TypeOK /\ [Next]_vars => TypeOK'
  <1> SUFFICES ASSUME TypeOK, [Next]_vars PROVE TypeOK'
    OBVIOUS
  <1>1. /\ Reaped \in [Jobs -> Statuses]
        /\ ReapedFile \in [Jobs -> Statuses \cup {"lost"}]
    BY Reaping DEF Reaped, ReapedFile, TypeOK, Statuses
  <1>2. ASSUME Fault
        PROVE  faults' \in 0 .. MaxFaults
    BY <1>2, ServiceAssumption DEF Fault, TypeOK
  <1>3. ASSUME ReapStops
        PROVE  /\ status' \in [Jobs -> Statuses]
               /\ file' \in [Jobs -> Statuses \cup {"lost"}]
               /\ faults' \in 0 .. MaxFaults
    <2>1. \E some, done \in SUBSET Exited :
             status' = With(status, some) /\ file' = With(file, done)
      BY <1>3 DEF ReapStops
    <2> QED
      BY <1>2, <1>3, <2>1, Reaping DEF ReapStops, TypeOK, Statuses
  <1> USE DEF TypeOK, Statuses, StartSteps, Goto
  <1>4. ASSUME NEW j \in Jobs, Starting(j) PROVE TypeOK'
    <2>1. CASE Preflight(j) \/ Release(j) \/ ReleaseFiles(j) \/ Look(j)
      BY <2>1 DEF Preflight, Release, ReleaseFiles, Look
    <2>2. CASE Spawn(j)
      BY <2>2 DEF Spawn
    <2>3. CASE Attach(j)
      BY <2>3 DEF Attach, Attaching, Active
    <2>4. CASE TerminateUnattached(j)
      BY <2>4 DEF TerminateUnattached, Terminate
    <2>5. CASE FailSpawn(j)
      BY <2>5, <1>2 DEF FailSpawn, Terminal
    <2> QED
      BY <1>4, <2>1, <2>2, <2>3, <2>4, <2>5 DEF Starting
  <1>5. ASSUME NEW j \in Jobs, Request(j) PROVE TypeOK'
    <2>1. CASE Reserve(j)
      BY <2>1, <1>1 DEF Reserve, Active
    <2>2. CASE ReserveFails(j)
      BY <2>2, <1>1, <1>2, <1>3 DEF ReserveFails
    <2>3. CASE AttachFails(j)
      <3>1. status' \in [Jobs -> Statuses] /\ attached' \subseteq Jobs
        BY <2>3 DEF AttachFails, Attaching, Active
      <3>2. termed' \subseteq Jobs /\ pc' \in [Jobs -> StartSteps]
        BY <2>3 DEF AttachFails, Terminate
      <3> QED
        BY <2>3, <3>1, <3>2, <1>2 DEF AttachFails
    <2>4. CASE Cancel(j)
      BY <2>4, <1>1 DEF Cancel, Terminal
    <2>5. CASE CancelFails(j)
      BY <2>5, <1>1, <1>2 DEF CancelFails, Terminal
    <2>6. CASE Kill(j) \/ Delete(j)
      BY <2>6 DEF Kill, Delete, Terminate
    <2>7. CASE Poll(j)
      <3>1. reader' \in [Jobs -> {"none", "read", "write"}]
        BY <2>7 DEF Poll
      <3> QED
        BY <2>7, <3>1, <1>1 DEF Poll
    <2>8. CASE ReadState(j) \/ WriteState(j)
      BY <2>8, <1>2 DEF ReadState, WriteState
    <2> QED
      BY <1>5, <2>1, <2>2, <2>3, <2>4, <2>5, <2>6, <2>7, <2>8 DEF Request
  <1>6. ASSUME NEW j \in Jobs, ChildExits(j) PROVE TypeOK'
    BY <1>6 DEF ChildExits
  <1>7. CASE PollFails
    BY <1>7, <1>3 DEF PollFails
  <1>8. CASE Restart
    BY <1>8, ServiceAssumption DEF Restart
  <1>9. CASE UNCHANGED vars
    BY <1>9 DEF vars
  <1> QED
    BY <1>4, <1>5, <1>6, <1>7, <1>8, <1>9 DEF Next

\* The initial state is well typed.
LEMMA TypeInit == Init => TypeOK
  BY ServiceAssumption DEF Init, TypeOK, StartSteps

(***************************************************************************)
(* Every variable keeps its type: in particular a state file holds one of  *)
(* the five statuses or the failure disk_state makes up, and the program   *)
(* never leaves the bounds of failures and restarts.                       *)
(***************************************************************************)
THEOREM TypeSafety == Spec => []TypeOK
  BY TypeInit, TypeStep, PTL DEF Spec

-----------------------------------------------------------------------------
(***************************************************************************)
(* Processes.  None of the three properties is inductive by itself: that a *)
(* failing start leaves no process behind rests on where the request is,   *)
(* and that a cancellation which could not be written is recognised as one *)
(* rests on active jobs not being cancelled on disk.                       *)
(***************************************************************************)
BeforeSpawn == {"new", "preflight", "release", "unlink", "look", "spawn"}

Life(j) ==
    /\ pc[j] \in BeforeSpawn => child[j] = "none"
    /\ At(j, "new") => status[j] = "none"
    /\ At(j, "fail") /\ child[j] = "alive" => j \in termed
    /\ status[j] \in Active => file[j] # "cancelled"

\* The body of NoStrayProcess ...
NoStray(j) ==
    child[j] = "alive" /\ j \notin termed =>
        \/ status[j] = "running" /\ j \in attached
        \/ At(j, "attach") \/ At(j, "terminate")
        \/ j \in killing
        \/ restarts > 0
        \/ status[j] = "cancelled" /\ file[j] # "cancelled"

\* ... and of CompletedSucceeded.
Succeeded(j) == "completed" \in {status[j], file[j]} => child[j] = "ok"

ProcessInv == TypeOK /\ \A j \in Jobs : Life(j) /\ NoStray(j) /\ Succeeded(j)

\* A job that no request works on is at most reaped, and keeps the invariant.
LEMMA OthersKept ==
  ASSUME ProcessInv, NEW k \in Jobs,
         UNCHANGED <<child, attached>>, pc'[k] = pc[k], 
         k \in termed => k \in termed', k \in killing => k \in killing', restarts' = restarts,
         \/ status'[k] = status[k] /\ file'[k] = file[k]
         \/ /\ k \in Exited /\ status'[k] = Outcome(k)
            /\ file'[k] = Outcome(k) \/ file'[k] = file[k]
  PROVE  (Life(k) /\ NoStray(k) /\ Succeeded(k))'
  <1>1. CASE status'[k] = status[k] /\ file'[k] = file[k]
    BY <1>1 DEF ProcessInv, Life, NoStray, Succeeded, At
  <1>2. CASE /\ k \in Exited /\ status'[k] = Outcome(k)
             /\ file'[k] = Outcome(k) \/ file'[k] = file[k]
    BY <1>2 DEF ProcessInv, Life, NoStray, Succeeded, At, Exited, Outcome, Active
  <1> QED
    BY <1>1, <1>2

\* A step of a start request keeps the invariant.
LEMMA StartingKeeps ==
  ASSUME ProcessInv, NEW j \in Jobs, Starting(j), TypeOK', NEW k \in Jobs
  PROVE  (Life(k) /\ NoStray(k) /\ Succeeded(k))'
  <1> USE DEF ProcessInv, TypeOK, Life, NoStray, Succeeded, BeforeSpawn, At, Goto
  <1>1. CASE Preflight(j)
    BY <1>1 DEF Preflight
  <1>2. CASE Release(j) \/ ReleaseFiles(j)
    BY <1>2 DEF Release, ReleaseFiles, Active
  <1>3. CASE Look(j)
    BY <1>3 DEF Look
  <1>4. CASE Spawn(j)
    BY <1>4 DEF Spawn
  <1>5. CASE Attach(j)
    BY <1>5 DEF Attach, Attaching, Active
  <1>6. CASE TerminateUnattached(j)
    BY <1>6 DEF TerminateUnattached, Terminate
  <1>7. CASE FailSpawn(j)
    BY <1>7 DEF FailSpawn, Active
  <1> QED
    BY <1>1, <1>2, <1>3, <1>4, <1>5, <1>6, <1>7 DEF Starting

\* What ReapStops does: some exited jobs get their outcome, one of them not on disk.
LEMMA StoppedReaping ==
  ASSUME TypeOK, ReapStops, NEW k \in Jobs
  PROVE  \/ status'[k] = status[k] /\ file'[k] = file[k]
         \/ /\ k \in Exited /\ status'[k] = Outcome(k)
            /\ file'[k] = Outcome(k) \/ file'[k] = file[k]
  <1>1. PICK j \in Exited : \E done \in SUBSET (Exited \ {j}) :
           status' = With(status, done \cup {j}) /\ file' = With(file, done)
    BY DEF ReapStops
  <1>2. PICK done \in SUBSET (Exited \ {j}) :
           status' = With(status, done \cup {j}) /\ file' = With(file, done)
    BY <1>1
  <1> QED
    BY <1>2 DEF With

\* A request other than the steps of a start keeps the invariant.
LEMMA RequestKeeps ==
  ASSUME ProcessInv, NEW j \in Jobs, Request(j), TypeOK', NEW k \in Jobs
  PROVE  (Life(k) /\ NoStray(k) /\ Succeeded(k))'
  <1>1. /\ Reaped \in [Jobs -> Statuses] /\ ReapedFile \in [Jobs -> Statuses \cup {"lost"}]
        /\ \A i \in Jobs :
              \/ Reaped[i] = status[i] /\ ReapedFile[i] = file[i]
              \/ i \in Exited /\ Reaped[i] = Outcome(i) /\ ReapedFile[i] = Outcome(i)
    BY Reaping DEF Reaped, ReapedFile, ProcessInv
  <1>2. \A i \in Exited : child[i] \in {"ok", "bad"} /\ status[i] \in Active
    BY DEF Exited
  <1>3. \A i : Outcome(i) = IF child[i] = "ok" THEN "completed" ELSE "failed"
    BY DEF Outcome
  <1>4. CASE Reserve(j)
    <2>1. CASE k = j
      BY <1>1, <1>2, <1>3, <1>4, <2>1
         DEF Reserve, ProcessInv, TypeOK, Life, NoStray, Succeeded, BeforeSpawn, At, Goto, Active
    <2>2. CASE k # j
      BY <1>1, <1>4, <2>2, OthersKept DEF Reserve, ProcessInv, TypeOK, Goto, Statuses
    <2> QED
      BY <2>1, <2>2
  <1>5. CASE ReserveFails(j)
    <2>1. CASE k = j
      <3>1. status'[j] = status[j] /\ file'[j] = file[j]
        BY <1>1, <1>2, <1>5, <2>1, StoppedReaping
           DEF ReserveFails, ProcessInv, Life, At, Active
      <3> QED
        BY <1>5, <2>1, <3>1
           DEF ReserveFails, ProcessInv, TypeOK, Life, NoStray, Succeeded, BeforeSpawn, At, Goto
    <2>2. CASE k # j
      BY <1>1, <1>5, <2>2, StoppedReaping, OthersKept DEF ReserveFails, ProcessInv, TypeOK, Goto
    <2> QED
      BY <2>1, <2>2
  <1>6. CASE AttachFails(j)
    BY <1>6 DEF AttachFails, Attaching, Terminate, ProcessInv, TypeOK, Life, NoStray,
                Succeeded, BeforeSpawn, At, Goto, Active
  <1>7. CASE Cancel(j) \/ CancelFails(j)
    <2>1. CASE k = j
      BY <1>1, <1>2, <1>3, <1>7, <2>1
         DEF Cancel, CancelFails, ProcessInv, TypeOK, Life, NoStray, Succeeded, At, Active
    <2>2. CASE k # j
      BY <1>1, <1>7, <2>2, OthersKept DEF Cancel, CancelFails, ProcessInv, Statuses
    <2> QED
      BY <2>1, <2>2
  <1>8. CASE Kill(j) \/ Delete(j) \/ ReadState(j) \/ WriteState(j)
    BY <1>8 DEF Kill, Delete, ReadState, WriteState, Terminate, ProcessInv, TypeOK, Life,
                NoStray, Succeeded, At, Active
  <1>9. CASE Poll(j)
    BY <1>1, <1>9, OthersKept DEF Poll
  <1> QED
    BY <1>4, <1>5, <1>6, <1>7, <1>8, <1>9 DEF Request

\* The invariant is inductive.
LEMMA ProcessStep == ProcessInv /\ [Next]_vars => ProcessInv'
  <1> SUFFICES ASSUME ProcessInv, [Next]_vars PROVE ProcessInv'
    OBVIOUS
  <1>1. TypeOK'
    BY TypeStep DEF ProcessInv
  <1> SUFFICES ASSUME NEW k \in Jobs PROVE (Life(k) /\ NoStray(k) /\ Succeeded(k))'
    BY <1>1 DEF ProcessInv
  <1>2. ASSUME NEW j \in Jobs, Starting(j) \/ Request(j)
        PROVE  (Life(k) /\ NoStray(k) /\ Succeeded(k))'
    BY <1>1, <1>2, StartingKeeps, RequestKeeps
  <1>3. ASSUME NEW j \in Jobs, ChildExits(j)
        PROVE  (Life(k) /\ NoStray(k) /\ Succeeded(k))'
    BY <1>3 DEF ChildExits, ProcessInv, TypeOK, Life, NoStray, Succeeded, At
  <1>4. CASE PollFails
    <2>1. ReapStops /\ TypeOK
      BY <1>4 DEF PollFails, ProcessInv
    <2> QED
      BY <1>4, <2>1, StoppedReaping, OthersKept DEF PollFails
  <1>5. CASE Restart
    BY <1>5 DEF Restart, ProcessInv, TypeOK, Life, NoStray, Succeeded, At, BeforeSpawn, Active
  <1>6. CASE UNCHANGED vars
    BY <1>6 DEF vars, ProcessInv, Life, NoStray, Succeeded, At
  <1> QED
    BY <1>2, <1>3, <1>4, <1>5, <1>6 DEF Next

\* There is no job and no process initially.
LEMMA ProcessInit == Init => ProcessInv
  BY TypeInit DEF Init, ProcessInv, Life, NoStray, Succeeded, At, Active

(***************************************************************************)
(* A live process that nobody told to stop belongs to a running job or to  *)
(* a request that will attach or terminate it, up to restarts and to       *)
(* cancellations that could not be written.                                *)
(***************************************************************************)
THEOREM StraySafety == Spec => []NoStrayProcess
  <1>1. ProcessInv => NoStrayProcess
    BY DEF ProcessInv, NoStray, NoStrayProcess
  <1> QED
    BY ProcessInit, ProcessStep, <1>1, PTL DEF Spec

(***************************************************************************)
(* Completed means that the process exited with code 0, in memory and in   *)
(* the state file, across failing writes and restarts.                     *)
(***************************************************************************)
THEOREM CompletedSafety == Spec => []CompletedSucceeded
  <1>1. ProcessInv => CompletedSucceeded
    BY DEF ProcessInv, Succeeded, CompletedSucceeded
  <1> QED
    BY ProcessInit, ProcessStep, <1>1, PTL DEF Spec

-----------------------------------------------------------------------------
(***************************************************************************)
(* Statuses: how a step changes them, from which the two properties about  *)
(* slots and cancelled jobs follow.                                        *)
(***************************************************************************)

\* A reservation that is granted.
Granted(j) == Reserve(j) /\ Cardinality(Busy(Reaped)) < MaxConcurrent

\* Everything else makes no job active, and no step changes a cancelled job, unless it
\* drops it.
Moves(k) ==
    /\ status'[k] \in Active => status[k] \in Active \/ Granted(k)
    /\ status[k] = "cancelled" => status'[k] \in {"cancelled", "none"}

\* The steps of a start request: only attach goes on from starting to running, and
\* fail_spawn leaves a cancelled job alone.
LEMMA StartingMoves ==
  ASSUME ProcessInv, NEW j \in Jobs, Starting(j), NEW k \in Jobs
  PROVE  Moves(k)
  <1> USE DEF Moves, ProcessInv, TypeOK, Active
  <1>1. CASE Preflight(j) \/ ReleaseFiles(j) \/ Look(j) \/ Spawn(j) \/ TerminateUnattached(j)
    BY <1>1 DEF Preflight, ReleaseFiles, Look, Spawn, TerminateUnattached
  <1>2. CASE Release(j) \/ Attach(j) \/ FailSpawn(j)
    BY <1>2 DEF Release, Attach, Attaching, FailSpawn
  <1> QED
    BY <1>1, <1>2 DEF Starting

\* All other requests: reaping finishes active jobs, and a cancellation is for one of
\* those that are left.
LEMMA RequestMoves ==
  ASSUME ProcessInv, NEW j \in Jobs, Request(j), NEW k \in Jobs
  PROVE  Moves(k)
  <1> USE DEF Moves, ProcessInv, TypeOK, Active
  <1>1. /\ Reaped \in [Jobs -> Statuses]
        /\ \A i \in Jobs :
              \/ Reaped[i] = status[i]
              \/ status[i] \in Active /\ Reaped[i] \in {"completed", "failed"}
    BY Reaping DEF Reaped
  <1>2. CASE Reserve(j)
    <2>1. CASE Cardinality(Busy(Reaped)) >= MaxConcurrent
      BY <1>1, <1>2, <2>1 DEF Reserve
    <2>2. CASE ~(Cardinality(Busy(Reaped)) >= MaxConcurrent)
      <3>1. status' = [Reaped EXCEPT ![j] = "starting"] /\ status[j] = "none"
        BY <1>2, <2>2 DEF Reserve, Life
      <3>2. Granted(j)
        <4>1. Cardinality(Busy(Reaped)) \in Nat
          BY FS_Subset, FS_CardinalityType, ServiceAssumption DEF Busy
        <4> QED
          BY <1>2, <2>2, <4>1, ServiceAssumption DEF Granted
      <3> QED
        BY <1>1, <3>1, <3>2
    <2> QED
      BY <2>1, <2>2
  <1>3. ASSUME ReapStops PROVE Moves(k)
    BY <1>3, StoppedReaping DEF Exited, Outcome
  <1>4. CASE ReserveFails(j)
    BY <1>1, <1>3, <1>4 DEF ReserveFails
  <1>5. CASE AttachFails(j)
    BY <1>5 DEF AttachFails, Attaching
  <1>6. CASE Cancel(j) \/ CancelFails(j) \/ Poll(j)
    BY <1>1, <1>6 DEF Cancel, CancelFails, Poll
  <1>7. CASE Kill(j) \/ ReadState(j) \/ WriteState(j) \/ Delete(j)
    BY <1>7 DEF Kill, ReadState, WriteState, Delete
  <1> QED
    BY <1>2, <1>4, <1>5, <1>6, <1>7 DEF Request

\* Every step.
LEMMA NextMoves ==
  ASSUME ProcessInv, [Next]_vars, NEW k \in Jobs
  PROVE  Moves(k)
  <1>1. ASSUME NEW j \in Jobs, Starting(j) \/ Request(j) PROVE Moves(k)
    BY <1>1, StartingMoves, RequestMoves
  <1>2. CASE PollFails
    BY <1>2, StoppedReaping DEF PollFails, ProcessInv, Moves, Exited, Outcome, Active
  <1>3. CASE Restart
    BY <1>3 DEF Restart, Moves, Active
  <1>4. ASSUME UNCHANGED vars \/ \E j \in Jobs : ChildExits(j) PROVE Moves(k)
    BY <1>4 DEF vars, ChildExits, Moves
  <1> QED
    BY <1>1, <1>2, <1>3, <1>4 DEF Next

(***************************************************************************)
(* "Cancellation is terminal even if the child exits later", or fails to   *)
(* start, or a write fails: a cancelled job never has another status.      *)
(***************************************************************************)
THEOREM CancelledSafety == Spec => CancelledIsFinal
  <1>1. ProcessInv /\ [Next]_vars =>
          [\A j \in Jobs : status[j] = "cancelled" => status'[j] \in {"cancelled", "none"}]_vars
    BY NextMoves DEF Moves
  <1> QED
    BY ProcessInit, ProcessStep, <1>1, PTL DEF Spec, CancelledIsFinal

\* Sets of jobs are finite, and smaller ones have no more members.
LEMMA SmallerSlots ==
  ASSUME NEW S \in SUBSET Jobs, NEW T \in SUBSET S
  PROVE  Cardinality(T) \in Nat /\ Cardinality(S) \in Nat /\ Cardinality(T) <= Cardinality(S)
  <1>1. IsFiniteSet(S)
    BY FS_Subset, ServiceAssumption
  <1> QED
    BY <1>1, FS_Subset, FS_CardinalityType

\* A reservation adds one job to fewer than MaxConcurrent; no other step adds any.
LEMMA SlotsStep == ProcessInv /\ SlotsRespected /\ [Next]_vars => SlotsRespected'
  <1> SUFFICES ASSUME ProcessInv, SlotsRespected, [Next]_vars PROVE SlotsRespected'
    OBVIOUS
  <1>1. CASE \E j \in Jobs : Granted(j)
    <2>1. PICK j \in Jobs : Granted(j)
      BY <1>1
    <2>2. Reaped \in [Jobs -> Statuses] /\ status' = [Reaped EXCEPT ![j] = "starting"]
      <3>1. Cardinality(Busy(Reaped)) \in Nat
        BY SmallerSlots DEF Busy
      <3> QED
        BY <2>1, <3>1, Reaping, ServiceAssumption DEF Granted, Reserve, ProcessInv, Reaped
    <2>3. Busy(status)' \subseteq Busy(Reaped) \cup {j}
      BY <2>2 DEF Busy
    <2>4. Cardinality(Busy(Reaped) \cup {j}) <= MaxConcurrent
      <3>1. IsFiniteSet(Busy(Reaped)) /\ Cardinality(Busy(Reaped)) \in Nat
        BY FS_Subset, FS_CardinalityType, ServiceAssumption DEF Busy
      <3>2. \/ Cardinality(Busy(Reaped) \cup {j}) = Cardinality(Busy(Reaped))
            \/ Cardinality(Busy(Reaped) \cup {j}) = Cardinality(Busy(Reaped)) + 1
        BY <3>1, FS_AddElement
      <3>3. MaxConcurrent \in Nat /\ Cardinality(Busy(Reaped)) < MaxConcurrent
        BY <2>1, ServiceAssumption DEF Granted
      <3> QED
        BY <3>1, <3>2, <3>3
    <2> QED
      BY <2>3, <2>4, SmallerSlots, ServiceAssumption DEF SlotsRespected, Busy
  <1>2. CASE ~ \E j \in Jobs : Granted(j)
    <2>1. Busy(status)' \subseteq Busy(status)
      BY <1>2, NextMoves DEF Moves, Busy
    <2>2. Busy(status) \subseteq Jobs
      BY DEF Busy
    <2> QED
      BY <2>1, <2>2, SmallerSlots, ServiceAssumption DEF SlotsRespected
  <1> QED
    BY <1>1, <1>2

(***************************************************************************)
(* "Atomically reserve a slot before any subprocess spawn occurs": there   *)
(* are never more active jobs than slots, however many requests race,      *)
(* whatever fails and however often the API restarts.                      *)
(***************************************************************************)
THEOREM SlotsSafety == Spec => []SlotsRespected
  <1>1. Init => SlotsRespected
    <2> SUFFICES ASSUME Init PROVE SlotsRespected
      OBVIOUS
    <2>1. Busy(status) = {}
      BY DEF Init, Busy, Active
    <2> QED
      BY <2>1, FS_EmptySet, ServiceAssumption DEF SlotsRespected
  <1> QED
    BY <1>1, ProcessInit, ProcessStep, SlotsStep, PTL DEF Spec
=============================================================================
