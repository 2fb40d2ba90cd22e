--------------------------- MODULE RegisterProofs ---------------------------
(***************************************************************************)
(* Theorems about Register, for any number of runs, studies, clerks, cards *)
(* and failures, and for any requests and commands they may be given.      *)
(***************************************************************************)
EXTENDS Register, TLAPS

-----------------------------------------------------------------------------
(***************************************************************************)
(* Mutual exclusion.  Every step of a process moves its program counter in *)
(* one of four ways, and each of them keeps the lock with the process that *)
(* is in its critical section.                                             *)
(***************************************************************************)
LockInv ==
    /\ pc \in [Procs -> Steps]
    /\ lock \in Procs \cup {NoProc}
    /\ LockProtectsSection

Enters(p) ==
    lock = NoProc /\ lock' = p /\ \E step \in CriticalSteps : Goto(p, step)

Stays(p) ==
    pc[p] \in CriticalSteps /\ lock' = lock /\ \E step \in CriticalSteps : Goto(p, step)

Exits(p) ==
    /\ pc[p] \in CriticalSteps /\ lock' = NoProc
    /\ \E step \in Steps \ CriticalSteps : Goto(p, step)

StaysOut(p) ==
    /\ pc[p] \notin CriticalSteps /\ lock' = lock
    /\ \E step \in Steps \ CriticalSteps : Goto(p, step)

\* Any of the four, or no move at all, preserves the invariant.
LEMMA MovesKeepLock ==
  ASSUME LockInv,
         \/ \E p \in Procs : Enters(p) \/ Stays(p) \/ Exits(p) \/ StaysOut(p)
         \/ UNCHANGED <<pc, lock>>
  PROVE  LockInv'
  <1>1. CASE UNCHANGED <<pc, lock>>
    BY <1>1 DEF LockInv, LockProtectsSection
  <1>2. ASSUME NEW p \in Procs, Enters(p) \/ Stays(p) \/ Exits(p) \/ StaysOut(p)
        PROVE  LockInv'
    BY <1>2, RegisterAssumption
       DEF LockInv, LockProtectsSection, Enters, Stays, Exits, StaysOut, Goto, Steps
  <1> QED
    BY <1>1, <1>2

\* An operation that is over leaves its process outside of every critical section.
LEMMA EndOfStep == \A p : EndOf(p) \in Steps \ CriticalSteps
  BY DEF EndOf, Steps, CriticalSteps

\* What a process does by itself, by the part of its life the step belongs to.
LEMMA StepMoves ==
  ASSUME LockInv, NEW p \in Procs, Step(p)
  PROVE  Stays(p) \/ Exits(p) \/ StaysOut(p)
  <1> USE EndOfStep DEF CriticalSteps, Steps, Stays, Exits, StaysOut, Leave, Release
  <1>1. CASE Validate(p) \/ RecoverSkip(p) \/ RecoverBegin(p) \/ RecoverEnd(p)
    BY <1>1 DEF LockInv, Goto, Validate, RecoverSkip, RecoverBegin, RecoverEnd
  <1>2. CASE FinishBegin(p) \/ FinishStore(p) \/ FinishAppend(p) \/ FinishUnlink(p)
    BY <1>2 DEF FinishBegin, FinishStore, FinishAppend, FinishUnlink, GiveUp
  <1>3. CASE CommitStale(p) \/ Commit(p) \/ Tag(p) \/ RunEnds(p)
    BY <1>3 DEF CommitStale, Commit, Tag, RunEnds
  <1>4. CASE Refuse(p) \/ AdmitRun(p) \/ AdmitStudy(p)
    BY <1>4 DEF Refuse, AdmitRun, AdmitStudy, Deciding
  <1>5. CASE Amend(p) \/ Verdict(p) \/ Reopen(p) \/ NewCard(p) \/ CommandRefused(p)
    BY <1>5 DEF Amend, Verdict, Reopen, NewCard, CommandRefused, Deciding, WriteCard
  <1> QED
    BY <1>1, <1>2, <1>3, <1>4, <1>5 DEF Step

\* A failing write keeps or releases the lock; a kill releases what the process held.
LEMMA FailureMoves ==
  ASSUME LockInv, NEW p \in Procs, Failure(p)
  PROVE  Stays(p) \/ Exits(p) \/ StaysOut(p)
  <1> USE EndOfStep DEF CriticalSteps, Steps, Stays, Exits, StaysOut, Leave, Release
  <1>1. CASE FinishFails(p)
    BY <1>1 DEF FinishFails, GiveUp
  <1>2. CASE MarkerFails(p) \/ NewCardKilled(p)
    BY <1>2 DEF MarkerFails, NewCardKilled, Deciding
  <1>3. CASE Killed(p)
    BY <1>3 DEF Killed, LockInv, LockProtectsSection
  <1> QED
    BY <1>1, <1>2, <1>3 DEF Failure

\* Whatever happens, at most one process moves, and in one of the four ways.
LEMMA NextMoves ==
  ASSUME LockInv, Next
  PROVE  \/ \E p \in Procs : Enters(p) \/ Stays(p) \/ Exits(p) \/ StaysOut(p)
         \/ UNCHANGED <<pc, lock>>
  <1>1. ASSUME NEW p \in Procs, NEW ask \in Asks(p), Start(p, ask) PROVE StaysOut(p)
    BY <1>1 DEF Start, StaysOut, CriticalSteps, Steps
  <1>2. ASSUME NEW p \in Procs, Acquire(p) PROVE Enters(p)
    BY <1>2 DEF Acquire, Enters, CriticalSteps
  <1>3. ASSUME NEW r \in Runs, RunWrites(r) PROVE UNCHANGED <<pc, lock>>
    BY <1>3 DEF RunWrites
  <1>4. ASSUME RepairLedger \/ \E c \in Cards : RemoveBrokenCard(c)
        PROVE  UNCHANGED <<pc, lock>>
    BY <1>4 DEF RepairLedger, RemoveBrokenCard
  <1> QED
    BY <1>1, <1>2, <1>3, <1>4, StepMoves, FailureMoves DEF Next

\* Nobody is in a critical section initially, and the lock is free.
LEMMA LockInit == Init => LockInv
  <1> SUFFICES ASSUME Init PROVE LockInv
    OBVIOUS
  <1>1. pc \in [Procs -> Steps] /\ \A p \in Procs : pc[p] \notin CriticalSteps
    BY DEF Init, Steps, CriticalSteps
  <1> QED
    BY <1>1, RegisterAssumption DEF Init, LockInv, LockProtectsSection

\* The lock invariant is inductive.
LEMMA LockStep == LockInv /\ [Next]_vars => LockInv'
  <1>1. ASSUME LockInv, Next PROVE LockInv'
    BY <1>1, NextMoves, MovesKeepLock
  <1>2. ASSUME LockInv, UNCHANGED vars PROVE LockInv'
    BY <1>2, MovesKeepLock DEF vars
  <1> QED
    BY <1>1, <1>2

(***************************************************************************)
(* Only the process that holds the register lock is between its lock and   *)
(* its unlock, whoever is killed or fails at whichever step.               *)
(***************************************************************************)
THEOREM LockSafety == Spec => []LockProtectsSection
  <1>1. LockInv => LockProtectsSection
    BY DEF LockInv
  <1> QED
    BY LockInit, LockStep, <1>1, PTL DEF Spec

-----------------------------------------------------------------------------
(***************************************************************************)
(* Recording.  RecordedOnce is not inductive: that a run is not in the     *)
(* ledger when its line is appended rests on what the holder of the lock   *)
(* read before, on the lock that kept everybody else from appending since, *)
(* and, for a study, on its having no marker that somebody could recover.  *)
(***************************************************************************)
Recording == {"finish", "store", "append", "unlink"}

\* Lines are numbered in order and no run or study has two of them.
LedgerInv ==
    /\ ledger \in Seq({ledger[i] : i \in DOMAIN ledger})
    /\ \A i \in DOMAIN ledger : ledger[i].trial = i
    /\ \A i, j \in DOMAIN ledger : ledger[i].run = ledger[j].run => i = j

\* Requests go to runs and studies, and who is on record has drafted its own trial.
JobInv ==
    /\ DOMAIN job = Procs
    /\ \A p \in Procs : /\ job[p].op = "run" => p \in Runs
                        /\ job[p].op = "study" => p \in Studies
                        /\ p \in Runs => job[p].op \in {"none", "run"}

DraftInv ==
    /\ DOMAIN draft = Runs \cup Studies
    /\ markers \subseteq Runs
    /\ \A p \in OnRecord : draft[p].run = p
    /\ todo \subseteq OnRecord \cap Runs

\* The life of a run or study tells whether it is on record.
LifeInv ==
    /\ \A p \in Procs : pc[p] \in {"run", "ended"} => p \in Runs \cap OnRecord
    /\ \A r \in Runs :
          pc[r] \in {"new", "idle", "wait", "validate", "recover", "commitStale", "decide"}
             => r \notin OnRecord
    /\ \A r \in Runs : pc[r] \in Recording /\ fin # r => r \notin OnRecord
    /\ \A s \in Studies : Recorded(s) => pc[s] \in {"commit", "done", "dead"}

\* What the holder of the lock knows of the trial it is recording.
FinInv ==
    \A p \in Procs :
        /\ pc[p] \in Recording =>
              /\ fin \in Runs \cup Studies
              /\ draft[fin].run = fin
              /\ fin \in Runs => fin \in OnRecord
              /\ fin \in Studies => fin = p
        /\ pc[p] \in {"store", "append"} => ~Recorded(fin)
        /\ pc[p] = "append" => draft[fin].fp \in configs
        /\ pc[p] = "unlink" => fin \in Runs /\ Recorded(fin)
        /\ pc[p] \in {"store", "append", "unlink"} => ~torn

RecordInv == LedgerInv /\ JobInv /\ DraftInv /\ LifeInv /\ FinInv

\* ledger.py _next_id: the highest trial number plus one is the number of the next line.
LEMMA NextIdNumbersLines ==
  ASSUME LedgerInv
  PROVE  NextId(ledger) = Len(ledger) + 1
  <1>1. Len(ledger) \in Nat /\ DOMAIN ledger = 1 .. Len(ledger)
    BY DEF LedgerInv
  <1>2. TrialIds(ledger) = 1 .. Len(ledger)
    BY <1>1 DEF LedgerInv, TrialIds
  <1>3. CASE ledger = <<>>
    BY <1>3 DEF NextId
  <1>4. CASE ledger # <<>>
    <2> DEFINE N == Len(ledger)
               Highest == CHOOSE n \in TrialIds(ledger) : \A k \in TrialIds(ledger) : k <= n
    <2>1. N \in 1 .. N /\ \A k \in 1 .. N : k <= N
      BY <1>1, <1>4 DEF LedgerInv
    <2>2. Highest \in TrialIds(ledger) /\ \A k \in TrialIds(ledger) : k <= Highest
      BY <1>2, <2>1
    <2>3. NextId(ledger) = 1 + Highest
      BY <1>4 DEF NextId
    <2> HIDE DEF Highest
    <2>4. Highest = N
      BY <1>1, <1>2, <2>1, <2>2
    <2> QED
      BY <1>1, <2>3, <2>4
  <1> QED
    BY <1>3, <1>4

\* A line of a run or study that has none keeps lines numbered and single.
LEMMA AppendKeepsLedger ==
  ASSUME LedgerInv, NEW t, t.trial = Len(ledger) + 1,
         \A i \in DOMAIN ledger : ledger[i].run # t.run,
         ledger' = Append(ledger, t)
  PROVE  /\ LedgerInv'
         /\ \A p : Recorded(p)' <=> Recorded(p) \/ p = t.run
  <1> DEFINE S == {ledger[i] : i \in DOMAIN ledger}
  <1>1. ledger \in Seq(S) /\ Len(ledger) \in Nat /\ DOMAIN ledger = 1 .. Len(ledger)
    BY DEF LedgerInv
  <1>2. ledger' \in Seq(S \cup {t})
    BY <1>1
  <1>3. /\ DOMAIN ledger' = 1 .. Len(ledger) + 1
        /\ \A i \in 1 .. Len(ledger) : ledger'[i] = ledger[i]
        /\ ledger'[Len(ledger) + 1] = t
    BY <1>1
  <1>4. {ledger'[i] : i \in DOMAIN ledger'} = S \cup {t}
    BY <1>1, <1>3
  <1>5. \A p : Recorded(p)' <=> Recorded(p) \/ p = t.run
    BY <1>1, <1>3 DEF Recorded
  <1>6. LedgerInv'
    BY <1>1, <1>2, <1>3, <1>4 DEF LedgerInv
  <1> QED
    BY <1>5, <1>6

-----------------------------------------------------------------------------
(* Steps that leave the ledger, the markers and the drafts alone *)

Quiet == UNCHANGED <<ledger, markers, draft>>

\* A step that leaves ledger, markers and drafts alone keeps what they say.
LEMMA QuietRecords ==
  ASSUME Quiet
  PROVE  /\ \A p : Recorded(p)' <=> Recorded(p)
         /\ OnRecord' = OnRecord
         /\ LedgerInv => LedgerInv'
  <1>1. \A p : Recorded(p)' <=> Recorded(p)
    BY DEF Quiet, Recorded
  <1> QED
    BY <1>1 DEF Quiet, OnRecord, LedgerInv

\* The lock is taken by somebody who is not in a critical section, like everybody else.
LEMMA QuietAcquire ==
  ASSUME LockInv, RecordInv, NEW p \in Procs, Quiet, Acquire(p)
  PROVE  RecordInv'
  <1> USE QuietRecords
      DEF Quiet, LockInv, LockProtectsSection, CriticalSteps, Procs, RecordInv, JobInv,
          DraftInv, LifeInv, FinInv, Recording, Goto, ClearSection, NoJob, disk, section
  <1>1. \A q \in Procs : pc[q] \notin CriticalSteps
    BY RegisterAssumption DEF Acquire
  <1>2. JobInv'
    BY DEF Acquire
  <1>3. DraftInv'
    BY DEF Acquire
  <1>4. LifeInv'
    BY <1>1, RegisterAssumption DEF Acquire
  <1>5. FinInv'
    BY <1>1, RegisterAssumption DEF Acquire
  <1> QED
    BY <1>2, <1>3, <1>4, <1>5

\* reconcile.py repair stops or goes on to the markers.
LEMMA QuietValidate ==
  ASSUME LockInv, RecordInv, NEW p \in Procs, Quiet, Validate(p)
  PROVE  RecordInv'
  <1> USE QuietRecords
      DEF Quiet, LockInv, LockProtectsSection, CriticalSteps, Procs, RecordInv, JobInv,
          DraftInv, LifeInv, FinInv, Recording, Goto, ClearSection, NoJob, disk, section
  <1> USE DEF Validate, Leave, Release, EndOf
  <1>1. JobInv'
    OBVIOUS
  <1>2. DraftInv'
    OBVIOUS
  <1>3. LifeInv'
    BY RegisterAssumption
  <1>4. FinInv'
    OBVIOUS
  <1> QED
    BY <1>1, <1>2, <1>3, <1>4

\* Going through the markers and recording them, up to the ledger line.
LEMMA QuietRecovery ==
  ASSUME LockInv, RecordInv, NEW p \in Procs, Quiet,
         \/ RecoverSkip(p) \/ RecoverBegin(p) \/ RecoverEnd(p) \/ FinishBegin(p)
         \/ FinishStore(p) \/ FinishFails(p)
  PROVE  RecordInv'
  <1> USE QuietRecords
      DEF Quiet, LockInv, LockProtectsSection, CriticalSteps, Procs, RecordInv, JobInv,
          DraftInv, LifeInv, FinInv, Recording, Goto, ClearSection, NoJob, disk, section
  <1>1. CASE RecoverSkip(p)
    BY <1>1, RegisterAssumption DEF RecoverSkip
  <1>2. CASE RecoverBegin(p)
    BY <1>2, RegisterAssumption DEF RecoverBegin
  <1>3. CASE RecoverEnd(p)
    BY <1>3, RegisterAssumption DEF RecoverEnd
  <1>4. CASE FinishBegin(p)
    BY <1>4, RegisterAssumption DEF FinishBegin, GiveUp, Release
  <1>5. CASE FinishStore(p)
    BY <1>5, RegisterAssumption DEF FinishStore
  <1>6. CASE FinishFails(p)
    BY <1>6, RegisterAssumption DEF FinishFails, GiveUp, Release
  <1> QED
    BY <1>1, <1>2, <1>3, <1>4, <1>5, <1>6

\* Operations on cards, done or refused.
LEMMA QuietCards ==
  ASSUME LockInv, RecordInv, NEW p \in Procs, Quiet,
         \/ Amend(p) \/ Verdict(p) \/ Reopen(p) \/ NewCard(p)
         \/ CommandRefused(p) \/ NewCardKilled(p)
  PROVE  RecordInv'
  <1> USE QuietRecords
      DEF Quiet, LockInv, LockProtectsSection, CriticalSteps, Procs, RecordInv, JobInv,
          DraftInv, LifeInv, FinInv, Recording, Goto, ClearSection, NoJob, disk, section
  <1>1. CASE Amend(p)
    BY <1>1, RegisterAssumption DEF Amend, Deciding, WriteCard
  <1>2. CASE Verdict(p)
    BY <1>2, RegisterAssumption DEF Verdict, Deciding, WriteCard
  <1>3. CASE Reopen(p)
    BY <1>3, RegisterAssumption DEF Reopen, Deciding, WriteCard
  <1>4. CASE NewCard(p)
    BY <1>4, RegisterAssumption DEF NewCard, Deciding, WriteCard
  <1>5. CASE CommandRefused(p)
    BY <1>5, RegisterAssumption DEF CommandRefused, Leave, Release, EndOf, Deciding
  <1>6. CASE NewCardKilled(p)
    BY <1>6, RegisterAssumption DEF NewCardKilled, Deciding, Leave, Release, EndOf
  <1> QED
    BY <1>1, <1>2, <1>3, <1>4, <1>5, <1>6

\* Commits, refusals and the end of a run.
LEMMA QuietEnds ==
  ASSUME LockInv, RecordInv, NEW p \in Procs, Quiet,
         \/ CommitStale(p) \/ Commit(p) \/ Tag(p) \/ RunEnds(p)
         \/ Refuse(p)
  PROVE  RecordInv'
  <1> USE QuietRecords
      DEF Quiet, LockInv, LockProtectsSection, CriticalSteps, Procs, RecordInv, JobInv,
          DraftInv, LifeInv, FinInv, Recording, Goto, ClearSection, NoJob, disk, section
  <1>1. CASE CommitStale(p)
    BY <1>1, RegisterAssumption DEF CommitStale
  <1>2. CASE Commit(p)
    BY <1>2, RegisterAssumption DEF Commit, Leave, Release, EndOf
  <1>3. CASE Tag(p)
    BY <1>3, RegisterAssumption DEF Tag
  <1>4. CASE RunEnds(p)
    BY <1>4, RegisterAssumption DEF RunEnds
  <1>5. CASE Refuse(p)
    BY <1>5, RegisterAssumption DEF Refuse, Leave, Release, EndOf, Deciding
  <1> QED
    BY <1>1, <1>2, <1>3, <1>4, <1>5

\* A killed process leaves the critical section, or was not in it.
LEMMA QuietKilled ==
  ASSUME LockInv, RecordInv, NEW p \in Procs, Quiet, Killed(p), LockInv'
  PROVE  RecordInv'
  <1> USE DEF RecordInv
  <1>1. \A q \in Procs : \/ pc'[q] = pc[q]
                         \/ pc'[q] = "dead"
                         \/ pc'[q] = "idle" /\ q \in Clerks
    BY DEF Killed, Goto, LockInv
  <1>2. (\E q \in Procs : pc'[q] \in CriticalSteps)
        => UNCHANGED <<configs, todo, fin>> /\ (torn' => torn)
    <2>1. CASE lock = p
      <3>1. \A q \in Procs : pc'[q] \notin CriticalSteps
        BY <2>1, RegisterAssumption DEF Killed, LockInv, LockProtectsSection
      <3> QED
        BY <3>1
    <2>2. CASE lock # p
      <3>1. pc[p] # "append"
        BY <2>2 DEF LockInv, LockProtectsSection, CriticalSteps
      <3> QED
        BY <2>2, <3>1 DEF Killed, section
    <2> QED
      BY <2>1, <2>2
  <1>3. LedgerInv'
    BY QuietRecords DEF RecordInv
  <1>4. JobInv'
    BY DEF Killed, JobInv, NoJob
  <1>5. DraftInv'
    BY QuietRecords DEF Killed, DraftInv, Quiet, ClearSection, section
  <1>6. LifeInv'
    BY QuietRecords, <1>1, <1>2, RegisterAssumption DEF LifeInv, Recording, CriticalSteps, Procs
  <1>7. FinInv'
    BY QuietRecords, <1>1, <1>2 DEF FinInv, Recording, CriticalSteps, Quiet
  <1> QED
    BY <1>3, <1>4, <1>5, <1>6, <1>7

-----------------------------------------------------------------------------
(* Steps that write the ledger, the markers or the drafts *)

\* A line is appended for a run that is pending or a study that has run.
LEMMA AppendStep ==
  ASSUME LockInv, RecordInv, NEW p \in Procs, FinishAppend(p)
  PROVE  /\ RecordInv'
         /\ \A q : Recorded(q)' <=> Recorded(q) \/ q = fin
  <1> DEFINE t == [draft[fin] EXCEPT !.trial = Len(ledger) + 1, !.status = StatusOf(fin)]
  <1> USE DEF RecordInv
  <1>1. /\ pc[p] = "append" /\ ~Recorded(fin) /\ ~torn
        /\ fin \in Runs \cup Studies /\ draft[fin].run = fin
        /\ fin \in Runs => fin \in OnRecord
        /\ fin \in Studies => fin = p
    BY DEF FinishAppend, FinInv, Recording
  <1>2. /\ LedgerInv'
        /\ \A q : Recorded(q)' <=> Recorded(q) \/ q = fin
    <2>1. ledger' = Append(ledger, t)
      BY NextIdNumbersLines DEF FinishAppend, Appended
    <2>2. t.trial = Len(ledger) + 1 /\ t.run = fin
      BY <1>1
    <2>3. \A i \in DOMAIN ledger : ledger[i].run # t.run
      BY <1>1, <2>2 DEF Recorded
    <2> HIDE DEF t
    <2> QED
      BY <2>1, <2>2, <2>3, AppendKeepsLedger
  <1>3. OnRecord' = OnRecord \cup {fin}
    BY <1>1, <1>2 DEF FinishAppend, OnRecord
  <1>4. \A q \in Procs : pc[q] \in CriticalSteps <=> q = p
    BY <1>1 DEF LockInv, LockProtectsSection, CriticalSteps
  <1>5. JobInv'
    BY DEF FinishAppend, JobInv
  <1>6. DraftInv'
    BY <1>1, <1>3 DEF FinishAppend, DraftInv, section
  <1>7. LifeInv'
    BY <1>1, <1>2, <1>3, <1>4, RegisterAssumption
       DEF FinishAppend, LifeInv, LockInv, Recording, CriticalSteps, Goto, section, Procs
  <1>8. FinInv'
    BY <1>1, <1>2, <1>3, <1>4
       DEF FinishAppend, FinInv, LockInv, Recording, CriticalSteps, Goto, section
  <1> QED
    BY <1>2, <1>5, <1>6, <1>7, <1>8

\* The marker of a recorded run is dropped.
LEMMA UnlinkStep ==
  ASSUME LockInv, RecordInv, NEW p \in Procs, FinishUnlink(p)
  PROVE  RecordInv'
  <1> USE DEF RecordInv
  <1>1. /\ pc[p] = "unlink" /\ fin \in Runs /\ Recorded(fin)
        /\ UNCHANGED <<ledger, draft, torn, configs, job>>
    BY DEF FinishUnlink, FinInv
  <1>2. \A q : Recorded(q)' <=> Recorded(q)
    BY <1>1 DEF Recorded
  <1>3. OnRecord' = OnRecord
    BY <1>1, <1>2 DEF FinishUnlink, OnRecord
  <1>4. \A q \in Procs : pc[q] \in CriticalSteps <=> q = p
    BY <1>1 DEF LockInv, LockProtectsSection, CriticalSteps
  <1>5. LedgerInv' /\ JobInv'
    BY <1>1 DEF LedgerInv, JobInv
  <1>6. DraftInv'
    BY <1>1, <1>3 DEF FinishUnlink, DraftInv, section
  <1>7. LifeInv'
    BY <1>1, <1>2, <1>3, <1>4, RegisterAssumption
       DEF FinishUnlink, LifeInv, LockInv, Recording, CriticalSteps, Goto, section, Procs
  <1>8. FinInv'
    BY <1>1, <1>2, <1>3, <1>4
       DEF FinishUnlink, FinInv, LockInv, Recording, CriticalSteps, Goto, section
  <1> QED
    BY <1>5, <1>6, <1>7, <1>8

\* A run gets its draft and its marker, or fails to get them; nobody else is affected.
LEMMA AdmitRunStep ==
  ASSUME LockInv, RecordInv, NEW p \in Procs, AdmitRun(p) \/ MarkerFails(p)
  PROVE  RecordInv'
  <1> USE DEF RecordInv
  <1> DEFINE Marked == draft' = [draft EXCEPT ![p] = Drafted(p, job[p], "failed")]
                       /\ markers' = markers \cup {p}
  <1>1. /\ pc[p] = "decide" /\ p \in Runs /\ p \notin OnRecord
        /\ UNCHANGED <<ledger, configs, torn>>
        /\ Marked \/ UNCHANGED <<draft, markers>>
    BY RegisterAssumption DEF AdmitRun, MarkerFails, Deciding, JobInv, LifeInv
  <1>2. Drafted(p, job[p], "failed").run = p
    BY DEF Drafted
  <1>3. \A q : Recorded(q)' <=> Recorded(q)
    BY <1>1 DEF Recorded
  <1>4. OnRecord' = IF Marked THEN OnRecord \cup {p} ELSE OnRecord
    BY <1>1, <1>3 DEF OnRecord
  <1>5. \A q \in Procs : pc[q] \in CriticalSteps <=> q = p
    BY <1>1 DEF LockInv, LockProtectsSection, CriticalSteps
  <1>6. LedgerInv' /\ JobInv'
    BY <1>1 DEF AdmitRun, MarkerFails, Leave, LedgerInv, JobInv, NoJob
  <1>7. DraftInv'
    <2>1. todo' = {}
      BY DEF AdmitRun, MarkerFails, Leave, Release, ClearSection
    <2>2. CASE Marked
      BY <1>1, <1>2, <1>4, <2>1, <2>2 DEF DraftInv
    <2>3. CASE UNCHANGED <<draft, markers>>
      BY <1>1, <1>3, <2>1, <2>3 DEF DraftInv, OnRecord
    <2> QED
      BY <1>1, <2>2, <2>3
  <1>8. \A q \in Procs : pc'[q] = pc[q] \/ q = p
    BY DEF AdmitRun, MarkerFails, Leave, Release, Goto, LockInv
  <1>9. \/ pc'[p] = "run" /\ Marked
        \/ pc'[p] = "done"
    BY <1>1, RegisterAssumption
       DEF AdmitRun, MarkerFails, Leave, Release, Goto, EndOf, LockInv, Procs
  <1>10. LifeInv'
    BY <1>1, <1>3, <1>4, <1>5, <1>8, <1>9, RegisterAssumption
       DEF LifeInv, Recording, CriticalSteps, Procs
  <1>11. FinInv'
    BY <1>5, <1>8, <1>9 DEF FinInv, Recording, CriticalSteps
  <1> QED
    BY <1>6, <1>7, <1>10, <1>11

\* A study gets its draft and goes on to record it, under the same lock.
LEMMA AdmitStudyStep ==
  ASSUME LockInv, RecordInv, NEW p \in Procs, AdmitStudy(p)
  PROVE  RecordInv'
  <1> USE DEF RecordInv
  <1>1. /\ pc[p] = "decide" /\ p \in Studies /\ ~Recorded(p) /\ ~torn
        /\ UNCHANGED <<ledger, markers, configs, torn, todo, job>> /\ fin' = p
        /\ pc' = [pc EXCEPT ![p] = "store"]
    BY DEF AdmitStudy, Deciding, JobInv, LifeInv, Admitted, Goto
  <1>2. /\ DOMAIN draft' = DOMAIN draft
        /\ draft'[p].run = p
        /\ \A q \in DOMAIN draft : q # p => draft'[q] = draft[q]
    BY <1>1 DEF AdmitStudy, Drafted, DraftInv
  <1>3. \A q : Recorded(q)' <=> Recorded(q)
    BY <1>1 DEF Recorded
  <1>4. OnRecord' = OnRecord
    BY <1>1, <1>3 DEF OnRecord
  <1>5. \A q \in Procs : pc[q] \in CriticalSteps <=> q = p
    BY <1>1 DEF LockInv, LockProtectsSection, CriticalSteps
  <1>6. LedgerInv' /\ JobInv'
    BY <1>1 DEF LedgerInv, JobInv
  <1>7. DraftInv'
    BY <1>1, <1>2, <1>4 DEF DraftInv, OnRecord
  <1>8. LifeInv'
    BY <1>1, <1>3, <1>4, <1>5, RegisterAssumption
       DEF LifeInv, LockInv, Recording, CriticalSteps, Procs
  <1>9. FinInv'
    BY <1>1, <1>2, <1>3, <1>4, <1>5, RegisterAssumption
       DEF FinInv, LockInv, Recording, CriticalSteps, Procs
  <1> QED
    BY <1>6, <1>7, <1>8, <1>9

-----------------------------------------------------------------------------
\* Steps of nobody's critical section: a start, the run's own writes, the operator.
LEMMA OutsideStep ==
  ASSUME LockInv, RecordInv,
         \/ \E p \in Procs : \E ask \in Asks(p) : Start(p, ask)
         \/ \E r \in Runs : RunWrites(r)
         \/ RepairLedger \/ \E c \in Cards : RemoveBrokenCard(c)
  PROVE  Quiet /\ RecordInv'
  <1>1. Quiet
    BY DEF Quiet, Start, RunWrites, RepairLedger, RemoveBrokenCard, disk
  <1> USE QuietRecords, <1>1
      DEF RecordInv, JobInv, DraftInv, LifeInv, FinInv, Recording, Quiet, section, disk
  <1>2. ASSUME NEW p \in Procs, NEW ask \in Asks(p), Start(p, ask) PROVE RecordInv'
    <2>1. JobInv'
      BY <1>2, RegisterAssumption DEF Start, Asks, Procs
    <2>2. DraftInv'
      BY <1>2 DEF Start
    <2>3. LifeInv'
      BY <1>2, RegisterAssumption DEF Start, Goto, LockInv, Procs
    <2>4. FinInv'
      BY <1>2 DEF Start, Goto, LockInv
    <2> QED
      BY <2>1, <2>2, <2>3, <2>4
  <1>3. ASSUME NEW r \in Runs, RunWrites(r) PROVE RecordInv'
    BY <1>3 DEF RunWrites
  <1>4. CASE RepairLedger
    BY <1>4 DEF RepairLedger
  <1>5. ASSUME NEW c \in Cards, RemoveBrokenCard(c) PROVE RecordInv'
    BY <1>5 DEF RemoveBrokenCard
  <1> QED
    BY <1>1, <1>2, <1>3, <1>4, <1>5

\* Only these steps are not quiet.
LEMMA Writers ==
  ASSUME NEW p \in Procs, Acquire(p) \/ Step(p) \/ Failure(p)
  PROVE  \/ FinishAppend(p) \/ FinishUnlink(p) \/ AdmitRun(p) \/ AdmitStudy(p)
         \/ MarkerFails(p) \/ Quiet
  <1> USE DEF Quiet, disk
  <1>1. CASE Acquire(p)
    BY <1>1 DEF Acquire
  <1>2. CASE Validate(p) \/ RecoverSkip(p) \/ RecoverBegin(p) \/ RecoverEnd(p)
    BY <1>2 DEF Validate, RecoverSkip, RecoverBegin, RecoverEnd
  <1>3. CASE FinishBegin(p) \/ FinishStore(p) \/ FinishFails(p)
    BY <1>3 DEF FinishBegin, FinishStore, FinishFails
  <1>4. CASE CommitStale(p) \/ Commit(p) \/ Tag(p) \/ RunEnds(p) \/ Refuse(p)
    BY <1>4 DEF CommitStale, Commit, Tag, RunEnds, Refuse
  <1>5. CASE \/ Amend(p) \/ Verdict(p) \/ Reopen(p) \/ NewCard(p)
             \/ CommandRefused(p) \/ NewCardKilled(p)
    BY <1>5 DEF Amend, Verdict, Reopen, NewCard, CommandRefused, NewCardKilled, WriteCard
  <1>6. CASE Killed(p)
    BY <1>6 DEF Killed
  <1> QED
    BY <1>1, <1>2, <1>3, <1>4, <1>5, <1>6 DEF Step, Failure

\* The recording invariant is inductive, given the lock.
LEMMA RecordStep == LockInv /\ LockInv' /\ RecordInv /\ [Next]_vars => RecordInv'
  <1> SUFFICES ASSUME LockInv, LockInv', RecordInv, [Next]_vars PROVE RecordInv'
    OBVIOUS
  <1>1. ASSUME NEW p \in Procs, Acquire(p) \/ Step(p) \/ Failure(p) PROVE RecordInv'
    <2>1. CASE ~Quiet
      BY <1>1, <2>1, Writers, AppendStep, UnlinkStep, AdmitRunStep, AdmitStudyStep
    <2>2. CASE \/ FinishAppend(p) \/ FinishUnlink(p)
               \/ AdmitRun(p) \/ AdmitStudy(p) \/ MarkerFails(p)
      BY <2>2, AppendStep, UnlinkStep, AdmitRunStep, AdmitStudyStep
    <2>3. CASE Quiet /\ ~(\/ FinishAppend(p) \/ FinishUnlink(p) \/ AdmitRun(p) \/ AdmitStudy(p)
                          \/ MarkerFails(p))
      BY <1>1, <2>3, QuietAcquire, QuietValidate, QuietRecovery, QuietCards, QuietEnds,
         QuietKilled DEF Step, Failure
    <2> QED
      BY <2>1, <2>2, <2>3
  <1>2. CASE UNCHANGED vars
    <2>1. Quiet
      BY <1>2 DEF vars, Quiet
    <2> QED
      BY <1>2, <2>1, QuietRecords
         DEF vars, RecordInv, JobInv, DraftInv, LifeInv, FinInv, Quiet
  <1> QED
    BY <1>1, <1>2, OutsideStep DEF Next

\* Nothing is on record initially.
LEMMA RecordInit == Init => RecordInv
  <1> SUFFICES ASSUME Init PROVE RecordInv
    OBVIOUS
  <1>1. /\ ledger = <<>> /\ markers = {} /\ todo = {} /\ DOMAIN job = Procs
        /\ DOMAIN draft = Runs \cup Studies
        /\ \A p \in Procs : pc[p] \in {"idle", "new"} /\ job[p] = NoJob
    BY DEF Init
  <1>2. OnRecord = {} /\ \A p : ~Recorded(p)
    BY <1>1 DEF OnRecord, Recorded
  <1>3. LedgerInv
    BY <1>1 DEF LedgerInv
  <1>4. JobInv /\ DraftInv
    BY <1>1, <1>2 DEF JobInv, DraftInv, NoJob
  <1>5. LifeInv /\ FinInv
    BY <1>1, <1>2 DEF LifeInv, FinInv, Recording, Procs
  <1> QED
    BY <1>3, <1>4, <1>5 DEF RecordInv

\* Both invariants hold in every reachable state.
LEMMA RegisterInv == Spec => [](LockInv /\ RecordInv)
  <1>1. Init => LockInv /\ RecordInv
    BY LockInit, RecordInit
  <1>2. LockInv /\ RecordInv /\ [Next]_vars => (LockInv /\ RecordInv)'
    BY LockStep, RecordStep
  <1> QED
    BY <1>1, <1>2, PTL DEF Spec

(***************************************************************************)
(* A crash between the append and the unlink, and any number of recoveries *)
(* after it, never record a run twice, and ledger ids follow the lines.    *)
(***************************************************************************)
THEOREM RecordedOnceSafety == Spec => []RecordedOnce
  <1>1. RecordInv => RecordedOnce
    BY DEF RecordInv, LedgerInv, RecordedOnce
  <1> QED
    BY <1>1, RegisterInv, PTL

(***************************************************************************)
(* Fail closed: while the ledger does not parse, no run gets on record, no *)
(* trial is added and no marker is dropped.                                *)
(***************************************************************************)
THEOREM TornLedgerSafety == Spec => TornLedgerFreezes
  <1>1. ASSUME LockInv, RecordInv, [Next]_vars, torn, torn'
        PROVE  UNCHANGED ledger /\ markers' = markers
    <2>1. ASSUME NEW p \in Procs, Acquire(p) \/ Step(p) \/ Failure(p) PROVE Quiet
      <3>1. ~FinishAppend(p) /\ ~FinishUnlink(p)
        BY <1>1 DEF RecordInv, FinInv, FinishAppend, FinishUnlink
      <3>2. ~AdmitRun(p) /\ ~AdmitStudy(p) /\ ~MarkerFails(p)
        BY <1>1 DEF AdmitRun, AdmitStudy, MarkerFails, Admitted
      <3> QED
        BY <2>1, <3>1, <3>2, Writers
    <2>2. CASE UNCHANGED vars
      BY <2>2 DEF vars
    <2>3. Quiet => UNCHANGED ledger /\ markers' = markers
      BY DEF Quiet
    <2> QED
      BY <1>1, <2>1, <2>2, <2>3, OutsideStep DEF Next
  <1>2. LockInv /\ RecordInv /\ [Next]_vars
        => [torn /\ torn' => UNCHANGED ledger /\ markers' = markers]_vars
    BY <1>1
  <1> QED
    BY <1>2, RegisterInv, PTL DEF Spec, TornLedgerFreezes

\* Configs are only added; a commit takes the worktree or leaves the last one.
LEMMA ConfigsGrow ==
  ASSUME NEW p \in Procs, Acquire(p) \/ Step(p) \/ Failure(p)
  PROVE  /\ configs \subseteq configs'
         /\ head' = head \/ (head' = Worktree /\ UNCHANGED <<ledger, configs>>)
  <1> USE DEF disk
  <1>1. CASE Acquire(p) \/ Validate(p) \/ RecoverSkip(p) \/ RecoverBegin(p) \/ RecoverEnd(p)
    BY <1>1 DEF Acquire, Validate, RecoverSkip, RecoverBegin, RecoverEnd
  <1>2. CASE \/ FinishBegin(p) \/ FinishStore(p) \/ FinishAppend(p)
             \/ FinishUnlink(p) \/ FinishFails(p)
    BY <1>2 DEF FinishBegin, FinishStore, FinishAppend, FinishUnlink, FinishFails
  <1>3. CASE CommitStale(p) \/ Commit(p) \/ Tag(p) \/ RunEnds(p)
    BY <1>3 DEF CommitStale, Commit, Tag, RunEnds, GitCommit
  <1>4. CASE Refuse(p) \/ AdmitRun(p) \/ AdmitStudy(p) \/ MarkerFails(p)
    BY <1>4 DEF Refuse, AdmitRun, AdmitStudy, MarkerFails
  <1>5. CASE \/ Amend(p) \/ Verdict(p) \/ Reopen(p) \/ NewCard(p)
             \/ CommandRefused(p) \/ NewCardKilled(p)
    BY <1>5 DEF Amend, Verdict, Reopen, NewCard, CommandRefused, NewCardKilled, WriteCard
  <1>6. CASE Killed(p)
    BY <1>6 DEF Killed
  <1> QED
    BY <1>1, <1>2, <1>3, <1>4, <1>5, <1>6 DEF Step, Failure

(***************************************************************************)
(* The ledger never names a fingerprint without its config, on disk and in *)
(* every commit.                                                           *)
(***************************************************************************)
THEOREM ConfigsSafety == Spec => []ConfigsComplete
  <1>1. Init => ConfigsComplete
    BY DEF Init, ConfigsComplete
  <1>2. LockInv /\ RecordInv /\ ConfigsComplete /\ [Next]_vars => ConfigsComplete'
    <2> SUFFICES ASSUME LockInv, RecordInv, ConfigsComplete, [Next]_vars
                 PROVE  ConfigsComplete'
      OBVIOUS
    <2> USE DEF ConfigsComplete
    <2>1. ASSUME NEW p \in Procs, Acquire(p) \/ Step(p) \/ Failure(p)
          PROVE  ConfigsComplete'
      <3>1. \A i \in DOMAIN ledger' : ledger'[i].fp \in configs'
        <4>1. CASE FinishAppend(p)
          <5>1. /\ ledger' = Append(ledger, [draft[fin] EXCEPT !.trial = NextId(ledger),
                                                               !.status = StatusOf(fin)])
                /\ draft[fin].fp \in configs /\ UNCHANGED configs
            BY <4>1 DEF FinishAppend, Appended, RecordInv, FinInv
          <5>2. DOMAIN ledger = 1 .. Len(ledger) /\ Len(ledger) \in Nat
            BY DEF RecordInv, LedgerInv
          <5>3. DOMAIN ledger' = 1 .. Len(ledger) + 1 /\ \A i \in DOMAIN ledger' :
                   ledger'[i].fp = IF i = Len(ledger) + 1 THEN draft[fin].fp ELSE ledger[i].fp
            BY <5>1, <5>2 DEF RecordInv, LedgerInv
          <5> QED
            BY <5>1, <5>2, <5>3
        <4>2. CASE ~FinishAppend(p)
          <5>1. UNCHANGED ledger
            BY <2>1, <4>2, Writers
               DEF Quiet, FinishUnlink, AdmitRun, AdmitStudy, MarkerFails
          <5> QED
            BY <2>1, <5>1, ConfigsGrow
        <4> QED
          BY <4>1, <4>2
      <3>2. \A i \in DOMAIN head'.ledger : head'.ledger[i].fp \in head'.configs
        BY <2>1, ConfigsGrow DEF Worktree
      <3> QED
        BY <3>1, <3>2
    <2>2. ASSUME UNCHANGED <<ledger, configs, head>> PROVE ConfigsComplete'
      BY <2>2
    <2> QED
      BY <2>1, <2>2
         DEF Next, vars, disk, Start, RunWrites, RepairLedger, RemoveBrokenCard
  <1> QED
    BY <1>1, <1>2, RegisterInv, LockInit, LockStep, PTL DEF Spec


-----------------------------------------------------------------------------
(***************************************************************************)
(* Who counts.  The gate is asked under the lock, but a run keeps what the *)
(* gate granted long after it: while it runs, while it is dead and nobody  *)
(* has recorded it, and for ever in the ledger.  The invariants below say  *)
(* what stays true of every trial that was granted, first that nobody but  *)
(* the run itself moves it, then that its line says what was granted.      *)
(***************************************************************************)

\* Runs with a marker or a line, and studies that were granted and are being recorded.
Counted == OnRecord \cup {s \in Studies : pc[s] \in {"store", "append"} /\ fin = s}

\* Whom a process records: itself, or a run that is over and cannot move any more.
EndedInv ==
    /\ \A r \in Runs : pc[r] = "run" => r \in markers
    /\ \A p \in Procs : pc[p] \in Recording /\ fin # p => pc[fin] \in {"done", "dead"}
    /\ \A p \in Procs : pc[p] = "finish" => fin \in Runs

\* A process works on what it was started with.
AsksInv == \A p \in Procs : job[p] = NoJob \/ job[p] \in Asks(p)

\* A step of p moves nobody else, and nobody who is over.
LEMMA OnlyOneMoves ==
  ASSUME LockInv, NEW p \in Procs, Acquire(p) \/ Step(p) \/ Failure(p)
  PROVE  /\ \A q \in Procs : q # p => pc'[q] = pc[q]
         /\ DOMAIN pc' = Procs
  <1>1. Enters(p) \/ Stays(p) \/ Exits(p) \/ StaysOut(p)
    <2>1. CASE Acquire(p)
      BY <2>1 DEF Acquire, Enters, CriticalSteps
    <2>2. CASE Step(p) \/ Failure(p)
      BY <2>2, StepMoves, FailureMoves
    <2> QED
      BY <2>1, <2>2
  <1> QED
    BY <1>1 DEF Enters, Stays, Exits, StaysOut, Goto, LockInv

\* The holder of the lock is alone between its lock and its unlock.
LEMMA HolderIsAlone ==
  ASSUME LockInv, NEW p \in Procs, pc[p] \in CriticalSteps
  PROVE  lock = p /\ \A q \in Procs : q # p => pc[q] \notin CriticalSteps
  BY DEF LockInv, LockProtectsSection

\* Who is not between lock and unlock leaves the critical section of the holder alone.
LEMMA HolderIsLeftAlone ==
  ASSUME LockInv, NEW p \in Procs, NEW q \in Procs, p # q, pc[p] \in CriticalSteps,
         Acquire(q) \/ Step(q) \/ Failure(q)
  PROVE  /\ pc[q] \notin CriticalSteps \cup {"done", "dead"}
         /\ UNCHANGED <<section, ledger, markers, draft>>
  <1>1. lock = p /\ pc[q] \notin CriticalSteps /\ p # NoProc
    BY HolderIsAlone, RegisterAssumption
  <1> USE DEF CriticalSteps, section, disk
  <1>2. ~Acquire(q)
    BY <1>1 DEF Acquire
  <1>3. CASE Step(q)
    <2>1. Tag(q) \/ RunEnds(q)
      BY <1>1, <1>3
         DEF Step, Validate, RecoverSkip, RecoverBegin, RecoverEnd, FinishBegin, FinishStore,
             FinishAppend, FinishUnlink, CommitStale, Commit, Refuse, AdmitRun, AdmitStudy,
             Amend, Verdict, Reopen, NewCard, CommandRefused, Deciding
    <2> QED
      BY <1>1, <2>1 DEF Tag, RunEnds
  <1>4. CASE Failure(q)
    <2>1. Killed(q)
      BY <1>1, <1>4 DEF Failure, FinishFails, MarkerFails, NewCardKilled, Deciding
    <2> QED
      BY <1>1, <2>1 DEF Killed
  <1> QED
    BY <1>2, <1>3, <1>4

\* A process that moves was not over.
LEMMA OverIsOver ==
  ASSUME NEW p \in Procs, Acquire(p) \/ Step(p) \/ Failure(p)
  PROVE  pc[p] \notin {"done", "dead"}
  <1>1. CASE Acquire(p)
    BY <1>1 DEF Acquire
  <1>2. CASE Step(p)
    BY <1>2
       DEF Step, Validate, RecoverSkip, RecoverBegin, RecoverEnd, FinishBegin, FinishStore,
           FinishAppend, FinishUnlink, CommitStale, Commit, Tag, RunEnds, Refuse, AdmitRun,
           AdmitStudy, Amend, Verdict, Reopen, NewCard, CommandRefused, Deciding
  <1>3. CASE Failure(p)
    BY <1>3 DEF Failure, FinishFails, MarkerFails, NewCardKilled, Killed, Deciding
  <1> QED
    BY <1>1, <1>2, <1>3

\* Only an admitted run begins to run.
LEMMA OnlyAdmittedRuns ==
  ASSUME LockInv, NEW p \in Procs, Acquire(p) \/ Step(p) \/ Failure(p), ~AdmitRun(p),
         NEW r \in Procs, pc'[r] = "run"
  PROVE  pc[r] = "run"
  <1>1. CASE p = r
    <2> USE DEF LockInv, Goto, Leave, Release, EndOf, GiveUp
    <2>1. CASE Acquire(p)
      BY <1>1, <2>1 DEF Acquire
    <2>2. CASE Validate(p) \/ RecoverSkip(p) \/ RecoverBegin(p) \/ RecoverEnd(p)
      BY <1>1, <2>2 DEF Validate, RecoverSkip, RecoverBegin, RecoverEnd
    <2>3. CASE \/ FinishBegin(p) \/ FinishStore(p) \/ FinishAppend(p)
               \/ FinishUnlink(p) \/ FinishFails(p)
      BY <1>1, <2>3 DEF FinishBegin, FinishStore, FinishAppend, FinishUnlink, FinishFails
    <2>4. CASE CommitStale(p) \/ Commit(p) \/ Tag(p) \/ RunEnds(p)
      BY <1>1, <2>4 DEF CommitStale, Commit, Tag, RunEnds
    <2>5. CASE Refuse(p) \/ AdmitStudy(p) \/ MarkerFails(p)
      BY <1>1, <2>5 DEF Refuse, AdmitStudy, MarkerFails
    <2>6. CASE \/ Amend(p) \/ Verdict(p) \/ Reopen(p) \/ NewCard(p)
               \/ CommandRefused(p) \/ NewCardKilled(p)
      BY <1>1, <2>6
         DEF Amend, Verdict, Reopen, NewCard, CommandRefused, NewCardKilled, WriteCard
    <2>7. CASE Killed(p)
      BY <1>1, <2>7 DEF Killed
    <2> QED
      BY <2>1, <2>2, <2>3, <2>4, <2>5, <2>6, <2>7 DEF Step, Failure
  <1>2. CASE p # r
    BY <1>2, OnlyOneMoves
  <1> QED
    BY <1>1, <1>2

\* A run that runs has its marker: only its own admission lets it run, and only the
\* recording of a run that is over, or of the holder of the lock itself, drops one.
LEMMA RunningHasMarker ==
  ASSUME LockInv, RecordInv, EndedInv, NEW p \in Procs, Acquire(p) \/ Step(p) \/ Failure(p),
         NEW r \in Runs, pc'[r] = "run"
  PROVE  r \in markers'
  <1> USE DEF Procs
  <1>1. CASE AdmitRun(p)
    <2>1. p # r => pc[r] = "run"
      BY OnlyOneMoves
    <2> QED
      BY <1>1, <2>1 DEF AdmitRun, EndedInv
  <1>2. CASE FinishUnlink(p)
    <2>1. pc[r] = "run" /\ p # r
      BY <1>2, OnlyOneMoves DEF FinishUnlink, Goto, LockInv
    <2>2. fin # r
      BY <1>2, <2>1 DEF FinishUnlink, EndedInv, Recording
    <2> QED
      BY <1>2, <2>1, <2>2 DEF FinishUnlink, EndedInv
  <1>3. CASE ~AdmitRun(p) /\ ~FinishUnlink(p)
    <2>1. pc[r] = "run"
      BY <1>3, OnlyAdmittedRuns
    <2>2. markers \subseteq markers'
      BY <1>3, Writers DEF FinishAppend, AdmitStudy, MarkerFails, Quiet
    <2> QED
      BY <2>1, <2>2 DEF EndedInv
  <1> QED
    BY <1>1, <1>2, <1>3

\* Recording begins with a run that ended or with one that does not look alive.
LEMMA RecordingBegins ==
  ASSUME LockInv, RecordInv, EndedInv, NEW p \in Procs, Acquire(p) \/ Step(p) \/ Failure(p),
         pc'[p] \in Recording
  PROVE  /\ pc'[p] = "finish" => fin' \in Runs
         /\ fin' # p => pc[fin'] \in {"done", "dead"}
  <1> USE DEF LockInv, Recording, Procs
  <1>1. CASE Acquire(p)
    BY <1>1 DEF Acquire, Goto, RecordInv, LifeInv
  <1>2. CASE RecoverBegin(p)
    <2> PICK r \in todo : ~LooksAlive(p, r) /\ fin' = r
      BY <1>2 DEF RecoverBegin
    <2>1. r \in Runs /\ r \in OnRecord /\ ~Alive(r)
      BY DEF RecordInv, DraftInv, LooksAlive
    <2>2. pc[r] # "new"
      BY <2>1 DEF RecordInv, LifeInv
    <2> QED
      BY <2>1, <2>2 DEF Alive
  <1>3. CASE FinishBegin(p) \/ FinishStore(p) \/ FinishAppend(p) \/ FinishUnlink(p) \/ FinishFails(p)
    <2>1. pc[p] \in Recording /\ fin' = fin /\ pc'[p] # "finish"
      BY <1>3
         DEF FinishBegin, FinishStore, FinishAppend, FinishUnlink, FinishFails, GiveUp, Release,
             Goto, section
    <2> QED
      BY <2>1 DEF EndedInv
  <1>4. CASE AdmitStudy(p)
    BY <1>4 DEF AdmitStudy, Goto
  <1>5. CASE Validate(p) \/ RecoverSkip(p) \/ RecoverEnd(p)
    BY <1>5 DEF Validate, RecoverSkip, RecoverEnd, Leave, Release, EndOf, Goto
  <1>6. CASE CommitStale(p) \/ Commit(p) \/ Tag(p) \/ RunEnds(p)
    BY <1>6 DEF CommitStale, Commit, Tag, RunEnds, Leave, Release, EndOf, Goto
  <1>7. CASE Refuse(p) \/ AdmitRun(p) \/ MarkerFails(p)
    BY <1>7 DEF Refuse, AdmitRun, MarkerFails, Leave, Release, EndOf, Goto
  <1>8. CASE \/ Amend(p) \/ Verdict(p) \/ Reopen(p) \/ NewCard(p)
             \/ CommandRefused(p) \/ NewCardKilled(p)
    BY <1>8
       DEF Amend, Verdict, Reopen, NewCard, CommandRefused, NewCardKilled, WriteCard, Leave,
           Release, EndOf, Goto
  <1>9. CASE Killed(p)
    BY <1>9 DEF Killed, Goto
  <1> QED
    BY <1>1, <1>2, <1>3, <1>4, <1>5, <1>6, <1>7, <1>8, <1>9 DEF Step, Failure

\* The invariant is inductive.
LEMMA EndedStep == LockInv /\ LockInv' /\ RecordInv /\ EndedInv /\ [Next]_vars => EndedInv'
  <1> SUFFICES ASSUME LockInv, LockInv', RecordInv, EndedInv, [Next]_vars PROVE EndedInv'
    OBVIOUS
  <1>1. ASSUME NEW p \in Procs, Acquire(p) \/ Step(p) \/ Failure(p) PROVE EndedInv'
    <2>1. \A r \in Runs : pc'[r] = "run" => r \in markers'
      BY <1>1, RunningHasMarker
    <2>2. ASSUME NEW q \in Procs, pc'[q] \in Recording
          PROVE  /\ pc'[q] = "finish" => fin' \in Runs
                 /\ fin' # q => pc'[fin'] \in {"done", "dead"}
      <3>1. CASE q = p
        <4>1. /\ pc'[p] = "finish" => fin' \in Runs
              /\ fin' # p => pc[fin'] \in {"done", "dead"}
          BY <1>1, <2>2, <3>1, RecordingBegins
        <4>2. fin' \in Procs
          <5>1. RecordInv'
            BY <1>1, RecordStep
          <5> QED
            BY <2>2, <5>1 DEF RecordInv, FinInv, Procs
        <4> QED
          BY <1>1, <3>1, <4>1, <4>2, OnlyOneMoves
      <3>2. CASE q # p
        <4>1. pc[q] = pc'[q] /\ pc[q] \in CriticalSteps
          BY <1>1, <2>2, <3>2, OnlyOneMoves DEF Recording, CriticalSteps
        <4>2. UNCHANGED fin
          BY <1>1, <3>2, <4>1, HolderIsLeftAlone DEF section
        <4>3. fin \in Procs /\ (fin # q => pc[fin] \in {"done", "dead"})
          BY <2>2, <4>1 DEF EndedInv, RecordInv, FinInv, Procs
        <4>4. fin # q => fin # p
          BY <1>1, <4>3, OverIsOver
        <4> QED
          BY <1>1, <2>2, <4>1, <4>2, <4>3, <4>4, OnlyOneMoves DEF EndedInv
      <3> QED
        BY <3>1, <3>2
    <2> QED
      BY <2>1, <2>2 DEF EndedInv, Recording
  <1>2. ASSUME NEW p \in Procs, NEW ask \in Asks(p), Start(p, ask) PROVE EndedInv'
    <2>1. UNCHANGED <<markers, fin>> /\ pc' = [pc EXCEPT ![p] = "wait"] /\ pc[p] \in {"new", "idle"}
      BY <1>2 DEF Start, Goto, disk, section
    <2>2. \A q \in Procs : pc[q] \in Recording => fin \in Procs
      BY DEF RecordInv, FinInv, Procs
    <2> QED
      BY <2>1, <2>2 DEF EndedInv, LockInv, Recording, Procs
  <1>3. ASSUME UNCHANGED <<pc, fin, markers>> PROVE EndedInv'
    BY <1>3 DEF EndedInv
  <1> QED
    BY <1>1, <1>2, <1>3
       DEF Next, RunWrites, RepairLedger, RemoveBrokenCard, vars, disk, section

\* Nobody is between its lock and its unlock, or records anybody, initially.
LEMMA EndedInit == Init => EndedInv
  <1> SUFFICES ASSUME Init PROVE EndedInv
    OBVIOUS
  <1>1. \A p \in Procs : pc[p] \in {"idle", "new"}
    BY DEF Init
  <1> QED
    BY <1>1 DEF EndedInv, Recording, Procs

-----------------------------------------------------------------------------
(* What the processes were asked to do *)

\* Only a start gives a process something to do.
LEMMA JobMoves ==
  ASSUME NEW p \in Procs, Acquire(p) \/ Step(p) \/ Failure(p)
  PROVE  job' = job \/ job' = [job EXCEPT ![p] = NoJob]
  <1> USE DEF Leave
  <1>1. CASE Acquire(p) \/ Validate(p) \/ RecoverSkip(p) \/ RecoverBegin(p) \/ RecoverEnd(p)
    BY <1>1 DEF Acquire, Validate, RecoverSkip, RecoverBegin, RecoverEnd
  <1>2. CASE \/ FinishBegin(p) \/ FinishStore(p) \/ FinishAppend(p)
             \/ FinishUnlink(p) \/ FinishFails(p)
    BY <1>2 DEF FinishBegin, FinishStore, FinishAppend, FinishUnlink, FinishFails
  <1>3. CASE CommitStale(p) \/ Commit(p) \/ Tag(p) \/ RunEnds(p)
    BY <1>3 DEF CommitStale, Commit, Tag, RunEnds
  <1>4. CASE Refuse(p) \/ AdmitRun(p) \/ AdmitStudy(p) \/ MarkerFails(p)
    BY <1>4 DEF Refuse, AdmitRun, AdmitStudy, MarkerFails
  <1>5. CASE \/ Amend(p) \/ Verdict(p) \/ Reopen(p) \/ NewCard(p)
             \/ CommandRefused(p) \/ NewCardKilled(p)
    BY <1>5 DEF Amend, Verdict, Reopen, NewCard, CommandRefused, NewCardKilled, WriteCard
  <1>6. CASE Killed(p)
    BY <1>6 DEF Killed
  <1> QED
    BY <1>1, <1>2, <1>3, <1>4, <1>5, <1>6 DEF Step, Failure

\* The invariant is inductive.
LEMMA AsksStep == RecordInv /\ AsksInv /\ [Next]_vars => AsksInv'
  <1> SUFFICES ASSUME RecordInv, AsksInv, [Next]_vars PROVE AsksInv'
    OBVIOUS
  <1> USE DEF AsksInv, Asks
  <1>1. ASSUME NEW p \in Procs, Acquire(p) \/ Step(p) \/ Failure(p) PROVE AsksInv'
    BY <1>1, JobMoves DEF RecordInv, JobInv
  <1>2. ASSUME NEW p \in Procs, NEW ask \in Asks(p), Start(p, ask) PROVE AsksInv'
    BY <1>2 DEF Start, RecordInv, JobInv
  <1>3. ASSUME UNCHANGED job PROVE AsksInv'
    BY <1>3
  <1> QED
    BY <1>1, <1>2, <1>3 DEF Next, RunWrites, RepairLedger, RemoveBrokenCard, vars

\* A command is one of the commands: a verdict closes, an amendment sets other criteria.
LEMMA CommandsOnly ==
  ASSUME AsksInv, NEW p \in Procs
  PROVE  /\ job[p].op = "verdict" => job[p].status \in Closed
         /\ job[p].op = "amend" => job[p].hash \in Hashes
  <1>1. CASE job[p] = NoJob
    BY <1>1 DEF NoJob
  <1>2. CASE job[p] \in Asks(p)
    BY <1>2, RegisterAssumption DEF Asks
  <1> QED
    BY <1>1, <1>2 DEF AsksInv

-----------------------------------------------------------------------------
(* What the gate grants *)

\* gate.py check without a denial: the card is open, stands as its trials saw it, and
\* the ledger holds no other look and no other evaluation that would need a reason.
LEMMA GateGrants ==
  ASSUME NEW card, NEW req, NEW trials, Denials(TRUE, card, req, trials) = {}
  PROVE  /\ card.status = Open
         /\ ~CriteriaChanged(card, TrialsOf(req.card, trials))
         /\ ~CutoffMoved(card, TrialsOf(req.card, trials))
         /\ req.holdout => HoldoutDenials(card, req, TrialsOf(req.card, trials)) = {}
  <1> DEFINE own == TrialsOf(req.card, trials)
  <1>1. req.card # NoCard
    BY DEF Denials
  <1>2. /\ CodeIf(card.status # Open, "not_active") = {}
        /\ CodeIf(CriteriaChanged(card, own), "criteria_changed") = {}
        /\ CodeIf(CutoffMoved(card, own), "cutoff_moved") = {}
        /\ (IF req.holdout THEN HoldoutDenials(card, req, own) ELSE {}) = {}
    BY <1>1 DEF Denials
  <1> QED
    BY <1>2 DEF CodeIf

\* A second look of a card is granted only with a reason.
LEMMA SecondLookDenied ==
  ASSUME NEW card, NEW req, NEW trials, NEW i \in DOMAIN trials,
         trials[i].strategy = req.card, trials[i].kind = Holdout, ~req.reason
  PROVE  HoldoutDenials(card, req, TrialsOf(req.card, trials)) # {}
  <1> DEFINE S == {j \in DOMAIN trials : trials[j].strategy = req.card}
  <1>1. TrialsOf(req.card, trials) = [j \in S |-> trials[j]]
    BY DEF TrialsOf, Restrict
  <1>2. i \in DOMAIN TrialsOf(req.card, trials) /\ TrialsOf(req.card, trials)[i].kind = Holdout
    BY <1>1
  <1> QED
    BY <1>2 DEF HoldoutDenials

\* The trials of a card are the lines of the ledger that name it.
LEMMA OwnTrials ==
  ASSUME NEW c, NEW trials, NEW i \in DOMAIN TrialsOf(c, trials)
  PROVE  i \in DOMAIN trials /\ trials[i].strategy = c /\ TrialsOf(c, trials)[i] = trials[i]
  BY DEF TrialsOf, Restrict

\* p is granted what it asked for.
Admits(p) ==
    /\ Deciding(p, {"run", "study"}) /\ Admitted(p, job[p]) /\ p \notin Counted
    /\ \E status : draft' = [draft EXCEPT ![p] = Drafted(p, job[p], status)]
    /\ Counted' \subseteq Counted \cup {p}
    /\ markers' \subseteq markers \cup {p}
    /\ UNCHANGED <<cards, ledger>>

\* Nobody is granted anything.
GrantsNone == UNCHANGED draft /\ Counted' \subseteq Counted /\ markers' \subseteq markers

\* A study that is being recorded was granted before, under the same lock.
LEMMA StudiesCounted ==
  ASSUME LockInv, RecordInv, EndedInv, NEW p \in Procs, Acquire(p) \/ Step(p) \/ Failure(p),
         ~AdmitStudy(p), NEW s \in Studies, pc'[s] \in {"store", "append"}, fin' = s
  PROVE  s \in Counted
  <1> USE DEF Procs, LockInv, Goto
  <1>1. CASE s # p
    <2>1. pc[s] = pc'[s] /\ pc[s] \in CriticalSteps
      BY <1>1, OnlyOneMoves DEF CriticalSteps
    <2>2. UNCHANGED fin
      BY <1>1, <2>1, HolderIsLeftAlone DEF section
    <2> QED
      BY <2>1, <2>2 DEF Counted
  <1>2. CASE s = p
    <2> USE DEF Leave, Release, EndOf, GiveUp, section
    <2>1. CASE Acquire(p) \/ Validate(p) \/ RecoverSkip(p) \/ RecoverBegin(p) \/ RecoverEnd(p)
      BY <1>2, <2>1 DEF Acquire, Validate, RecoverSkip, RecoverBegin, RecoverEnd
    <2>2. CASE FinishBegin(p)
      BY <1>2, <2>2, RegisterAssumption DEF FinishBegin, EndedInv
    <2>3. CASE FinishStore(p)
      BY <1>2, <2>3 DEF FinishStore, Counted
    <2>4. CASE FinishAppend(p) \/ FinishUnlink(p) \/ FinishFails(p)
      BY <1>2, <2>4 DEF FinishAppend, FinishUnlink, FinishFails
    <2>5. CASE CommitStale(p) \/ Commit(p) \/ Tag(p) \/ RunEnds(p)
      BY <1>2, <2>5 DEF CommitStale, Commit, Tag, RunEnds
    <2>6. CASE Refuse(p) \/ AdmitRun(p) \/ MarkerFails(p)
      BY <1>2, <2>6 DEF Refuse, AdmitRun, MarkerFails
    <2>7. CASE \/ Amend(p) \/ Verdict(p) \/ Reopen(p) \/ NewCard(p)
               \/ CommandRefused(p) \/ NewCardKilled(p)
      BY <1>2, <2>7
         DEF Amend, Verdict, Reopen, NewCard, CommandRefused, NewCardKilled, WriteCard
    <2>8. CASE Killed(p)
      BY <1>2, <2>8 DEF Killed
    <2> QED
      BY <2>1, <2>2, <2>3, <2>4, <2>5, <2>6, <2>7, <2>8 DEF Step, Failure
  <1> QED
    BY <1>1, <1>2

\* Nobody is on record after a step who was not, but for a run whose marker is written
\* and for the trial a line is appended for, which counted already.
LEMMA OnRecordStep ==
  ASSUME LockInv, RecordInv, NEW p \in Procs, Acquire(p) \/ Step(p) \/ Failure(p)
  PROVE  \/ OnRecord' \subseteq Counted
         \/ /\ AdmitRun(p) \/ MarkerFails(p)
            /\ draft' = [draft EXCEPT ![p] = Drafted(p, job[p], "failed")]
            /\ OnRecord' \subseteq Counted \cup {p}
  <1> USE DEF Counted
  <1>1. CASE FinishAppend(p)
    <2>1. /\ \A q : Recorded(q)' <=> Recorded(q) \/ q = fin
          /\ UNCHANGED markers
      BY <1>1, AppendStep DEF FinishAppend
    <2>2. fin \in Counted
      BY <1>1 DEF FinishAppend, RecordInv, FinInv, Recording
    <2> QED
      BY <2>1, <2>2 DEF OnRecord
  <1>2. CASE FinishUnlink(p) \/ AdmitStudy(p)
    <2>1. UNCHANGED ledger /\ markers' \subseteq markers
      BY <1>2 DEF FinishUnlink, AdmitStudy
    <2> QED
      BY <2>1 DEF OnRecord, Recorded
  <1>3. CASE AdmitRun(p) \/ MarkerFails(p)
    <2>1. /\ UNCHANGED ledger
          /\ \/ UNCHANGED markers
             \/ /\ draft' = [draft EXCEPT ![p] = Drafted(p, job[p], "failed")]
                /\ markers' = markers \cup {p}
      BY <1>3 DEF AdmitRun, MarkerFails
    <2>2. \A q : Recorded(q)' <=> Recorded(q)
      BY <2>1 DEF Recorded
    <2> QED
      BY <1>3, <2>1, <2>2 DEF OnRecord
  <1>4. CASE Quiet
    BY <1>4, QuietRecords
  <1> QED
    BY <1>1, <1>2, <1>3, <1>4, Writers

\* Every step grants one process what it asked for, or nobody anything.
LEMMA CountedStep ==
  ASSUME LockInv, RecordInv, EndedInv, NEW p \in Procs, Acquire(p) \/ Step(p) \/ Failure(p)
  PROVE  Admits(p) \/ GrantsNone
  <1>1. CASE AdmitStudy(p)
    <2>1. p \in Studies /\ pc[p] = "decide" /\ p \notin OnRecord /\ fin' = p
      BY <1>1, RegisterAssumption
         DEF AdmitStudy, Deciding, RecordInv, JobInv, LifeInv, DraftInv, OnRecord
    <2>2. OnRecord' \subseteq OnRecord
      BY <1>1 DEF AdmitStudy, OnRecord, Recorded
    <2>3. p \notin Counted /\ Counted' \subseteq Counted \cup {p}
      BY <2>1, <2>2 DEF Counted
    <2> QED
      BY <1>1, <2>3 DEF AdmitStudy, Admits, Deciding
  <1>2. CASE ~AdmitStudy(p)
    <2>1. Counted' \subseteq Counted \cup OnRecord'
      BY <1>2, StudiesCounted DEF Counted
    <2> DEFINE Drafts == draft' = [draft EXCEPT ![p] = Drafted(p, job[p], "failed")]
    <2>2. CASE (AdmitRun(p) \/ MarkerFails(p)) /\ Drafts
      <3>1. p \in Runs /\ pc[p] = "decide" /\ p \notin OnRecord
        BY <2>2, RegisterAssumption
           DEF AdmitRun, MarkerFails, Deciding, RecordInv, JobInv, LifeInv
      <3>2. p \notin Counted
        BY <3>1, RegisterAssumption DEF Counted
      <3>3. OnRecord' \subseteq Counted \cup {p}
        BY OnRecordStep
      <3> QED
        BY <2>1, <2>2, <3>2, <3>3 DEF AdmitRun, MarkerFails, Admits, Deciding
    <2>3. CASE (AdmitRun(p) \/ MarkerFails(p)) /\ ~Drafts
      BY <2>1, <2>3, OnRecordStep DEF AdmitRun, MarkerFails, GrantsNone
    <2>4. CASE ~AdmitRun(p) /\ ~MarkerFails(p)
      <3>1. OnRecord' \subseteq Counted /\ UNCHANGED draft
        BY <1>2, <2>4, OnRecordStep, Writers DEF FinishAppend, FinishUnlink, Quiet
      <3>2. markers' \subseteq markers
        BY <1>2, <2>4, Writers DEF FinishAppend, FinishUnlink, Quiet
      <3> QED
        BY <2>1, <3>1, <3>2 DEF GrantsNone
    <2> QED
      BY <2>2, <2>3, <2>4
  <1> QED
    BY <1>1, <1>2

-----------------------------------------------------------------------------
(* What the ledger says *)

\* A line says what its run or study was granted.
LinesInv ==
    \A i \in DOMAIN ledger :
        LET t == ledger[i]
            d == draft[t.run]
        IN  /\ t.run \in Runs \cup Studies
            /\ t.id = d.id /\ t.strategy = d.strategy /\ t.kind = d.kind /\ t.fp = d.fp
            /\ t.criteria = d.criteria /\ t.cutoff = d.cutoff

\* Whoever has a line counts.
LEMMA LinesCounted ==
  ASSUME LinesInv, NEW i \in DOMAIN ledger
  PROVE  ledger[i].run \in Counted
  BY DEF LinesInv, Counted, OnRecord, Recorded

\* A trial that was granted stays what it was.
LEMMA DraftsKept ==
  ASSUME RecordInv, NEW p \in Procs, Admits(p) \/ GrantsNone, NEW q \in Counted
  PROVE  draft'[q] = draft[q]
  <1>1. q \in DOMAIN draft
    BY DEF Counted, OnRecord, RecordInv, DraftInv
  <1> QED
    BY <1>1 DEF Admits, GrantsNone

\* The line that is appended says what was granted.
LEMMA AppendedLine ==
  ASSUME LockInv, RecordInv, LinesInv, NEW p \in Procs, FinishAppend(p)
  PROVE  LinesInv'
  <1> DEFINE t == [draft[fin] EXCEPT !.trial = NextId(ledger), !.status = StatusOf(fin)]
  <1>1. ledger' = Append(ledger, t) /\ UNCHANGED draft
    BY DEF FinishAppend, Appended
  <1>2. fin \in Runs \cup Studies /\ draft[fin].run = fin
    BY DEF FinishAppend, RecordInv, FinInv, Recording
  <1>3. /\ t.run = fin
        /\ t.id = draft[fin].id /\ t.strategy = draft[fin].strategy
        /\ t.kind = draft[fin].kind /\ t.fp = draft[fin].fp
        /\ t.criteria = draft[fin].criteria /\ t.cutoff = draft[fin].cutoff
    BY <1>2
  <1> HIDE DEF t
  <1>4. /\ DOMAIN ledger' = 1 .. Len(ledger) + 1 /\ DOMAIN ledger = 1 .. Len(ledger)
        /\ \A i \in DOMAIN ledger' : ledger'[i] = IF i = Len(ledger) + 1 THEN t ELSE ledger[i]
    BY <1>1 DEF RecordInv, LedgerInv
  <1>5. ASSUME NEW i \in DOMAIN ledger'
        PROVE  LET s == ledger'[i]
                   d == draft'[s.run]
               IN  /\ s.run \in Runs \cup Studies
                   /\ s.id = d.id /\ s.strategy = d.strategy /\ s.kind = d.kind
                   /\ s.fp = d.fp /\ s.criteria = d.criteria /\ s.cutoff = d.cutoff
    <2>1. CASE i = Len(ledger) + 1
      BY <1>1, <1>2, <1>3, <1>4, <2>1
    <2>2. CASE i # Len(ledger) + 1
      <3>1. i \in DOMAIN ledger /\ ledger'[i] = ledger[i]
        BY <1>4, <2>2 DEF RecordInv, LedgerInv
      <3> QED
        BY <1>1, <3>1 DEF LinesInv
    <2> QED
      BY <2>1, <2>2
  <1> QED
    BY <1>5 DEF LinesInv

\* The invariant is inductive.
LEMMA LinesStep ==
  LockInv /\ RecordInv /\ EndedInv /\ LinesInv /\ [Next]_vars => LinesInv'
  <1> SUFFICES ASSUME LockInv, RecordInv, EndedInv, LinesInv, [Next]_vars PROVE LinesInv'
    OBVIOUS
  <1>1. ASSUME NEW p \in Procs, Acquire(p) \/ Step(p) \/ Failure(p) PROVE LinesInv'
    <2>1. CASE FinishAppend(p)
      BY <2>1, AppendedLine
    <2>2. CASE ~FinishAppend(p)
      <3>1. UNCHANGED ledger
        BY <1>1, <2>2, Writers DEF FinishUnlink, AdmitRun, AdmitStudy, MarkerFails, Quiet
      <3>2. \A i \in DOMAIN ledger : draft'[ledger[i].run] = draft[ledger[i].run]
        BY <1>1, CountedStep, DraftsKept, LinesCounted
      <3> QED
        BY <3>1, <3>2 DEF LinesInv
    <2> QED
      BY <2>1, <2>2
  <1>2. ASSUME UNCHANGED <<ledger, draft>> PROVE LinesInv'
    BY <1>2 DEF LinesInv
  <1> QED
    BY <1>1, <1>2 DEF Next, Start, RunWrites, RepairLedger, RemoveBrokenCard, vars, disk

-----------------------------------------------------------------------------
(* What the cards say *)

CardType ==
    [status : Closed \cup {Open, Absent, Broken}, cutoff : {InitialCard.cutoff},
     contaminated : BOOLEAN, criteria : Hashes, registered : Hashes, amended : Seq(Hashes)]

\* A card never states criteria it has no record of.
SoundCard(card) == card \in CardType /\ card.criteria = ExpectedCriteria(card)

\* The card a trial was granted on is still there, has the trial's criteria on record
\* and the trial's cutoff.
GrantKept(p) ==
    LET c == draft[p].strategy
    IN  /\ c \in Cards /\ cards[c].status \notin {Absent, Broken}
        /\ draft[p].criteria \in RecordedCriteria(cards[c])
        /\ draft[p].cutoff = InitialCard.cutoff

CardsInv ==
    /\ cards \in [Cards -> CardType]
    /\ \A c \in Cards : SoundCard(cards[c])
    /\ \A p \in Counted : GrantKept(p)
    /\ ClosedCardSettled

\* How a card may change: what it has on record stays there, it stays if it was
\* there, and it is closed only when no run of it is left to record.
CardChanges(c, card) ==
    /\ cards' = [cards EXCEPT ![c] = card]
    /\ SoundCard(card)
    /\ \/ cards[c].status \in {Absent, Broken}
       \/ /\ card.status \notin {Absent, Broken}
          /\ RecordedCriteria(cards[c]) \subseteq RecordedCriteria(card)
          /\ card.status = Open \/ (card.status = cards[c].status) \/ OwnMarkers(c) = {}

\* A sound card has the criteria it states on record.
LEMMA StatedIsRecorded ==
  ASSUME NEW card, SoundCard(card)
  PROVE  /\ card.criteria \in RecordedCriteria(card)
         /\ card.amended = <<>> => RecordedCriteria(card) = {card.criteria}
  <1>1. card.amended \in Seq(Hashes)
    BY DEF SoundCard, CardType
  <1>2. card.amended # <<>> => Len(card.amended) \in DOMAIN card.amended
    BY <1>1
  <1> QED
    BY <1>2 DEF SoundCard, ExpectedCriteria, RecordedCriteria

\* commands.py amend_criteria: the new criteria are stated and added to the record.
LEMMA AmendedCard ==
  ASSUME NEW card, SoundCard(card), NEW hash \in Hashes
  PROVE  LET new == [card EXCEPT !.criteria = hash, !.amended = Append(@, hash)]
         IN  /\ SoundCard(new) /\ new.status = card.status
             /\ RecordedCriteria(card) \subseteq RecordedCriteria(new)
  <1> DEFINE am == card.amended
             new == [card EXCEPT !.criteria = hash, !.amended = Append(am, hash)]
  <1>1. card \in CardType /\ am \in Seq(Hashes) /\ Len(am) \in Nat
    BY DEF SoundCard, CardType
  <1>2. /\ Append(am, hash) \in Seq(Hashes) /\ Len(Append(am, hash)) = Len(am) + 1
        /\ Append(am, hash)[Len(am) + 1] = hash
        /\ \A i \in DOMAIN am : i \in DOMAIN Append(am, hash) /\ Append(am, hash)[i] = am[i]
    BY <1>1
  <1>3. Append(am, hash) # <<>>
    BY <1>1, <1>2
  <1>4. /\ new \in CardType /\ new.status = card.status /\ new.registered = card.registered
        /\ new.criteria = hash /\ new.amended = Append(am, hash)
    BY <1>1, <1>2 DEF CardType
  <1> HIDE DEF new
  <1>5. SoundCard(new)
    BY <1>2, <1>3, <1>4 DEF SoundCard, ExpectedCriteria
  <1>6. RecordedCriteria(card) \subseteq RecordedCriteria(new)
    BY <1>2, <1>4 DEF RecordedCriteria
  <1> QED
    BY <1>4, <1>5, <1>6 DEF new

\* A verdict, a reopening or a loss of the file changes the status of a card only.
LEMMA OtherStatus ==
  ASSUME NEW card, SoundCard(card), NEW status \in Closed \cup {Open, Absent, Broken}
  PROVE  LET new == [card EXCEPT !.status = status]
         IN  /\ SoundCard(new) /\ new.status = status
             /\ RecordedCriteria(new) = RecordedCriteria(card)
  BY DEF SoundCard, CardType, ExpectedCriteria, RecordedCriteria

\* new_card writes a sound card, and where there is no card nothing unsound is said.
LEMMA NewCardIsSound == SoundCard(InitialCard) /\ SoundCard(NoCardFile)
  <1> DEFINE S == [status : {Open}, cutoff : Nat, contaminated : BOOLEAN, criteria : Hashes,
                   registered : {InitialCard.criteria}, amended : {<<>>}]
  <1>1. InitialCard \in CardType /\ InitialCard.amended = <<>>
        /\ InitialCard.registered = InitialCard.criteria
    <2>1. InitialCard \in S /\ InitialCard.criteria \in Hashes
      BY RegisterAssumption
    <2>2. <<>> \in Seq(Hashes)
      OBVIOUS
    <2> QED
      BY <2>1, <2>2 DEF CardType
  <1>2. SoundCard(InitialCard)
    BY <1>1 DEF SoundCard, ExpectedCriteria
  <1> QED
    BY <1>2, OtherStatus DEF NoCardFile

\* Every step changes no card, or one, and as a card may change.
LEMMA CardMoves ==
  ASSUME AsksInv, CardsInv, NEW p \in Procs, Acquire(p) \/ Step(p) \/ Failure(p)
  PROVE  UNCHANGED cards \/ \E c \in Cards : \E card : CardChanges(c, card)
  <1> USE DEF CardsInv
  <1>1. CASE Acquire(p) \/ Validate(p) \/ RecoverSkip(p) \/ RecoverBegin(p) \/ RecoverEnd(p)
    BY <1>1 DEF Acquire, Validate, RecoverSkip, RecoverBegin, RecoverEnd, disk
  <1>2. CASE \/ FinishBegin(p) \/ FinishStore(p) \/ FinishAppend(p)
             \/ FinishUnlink(p) \/ FinishFails(p)
    BY <1>2 DEF FinishBegin, FinishStore, FinishAppend, FinishUnlink, FinishFails, disk
  <1>3. CASE CommitStale(p) \/ Commit(p) \/ Tag(p) \/ RunEnds(p) \/ Killed(p)
    BY <1>3 DEF CommitStale, Commit, Tag, RunEnds, Killed, disk
  <1>4. CASE \/ Refuse(p) \/ AdmitRun(p) \/ AdmitStudy(p) \/ MarkerFails(p)
             \/ CommandRefused(p)
    BY <1>4 DEF Refuse, AdmitRun, AdmitStudy, MarkerFails, CommandRefused, disk
  <1>5. CASE Amend(p)
    <2> DEFINE c == job[p].card
               hash == job[p].hash
               new == [cards[c] EXCEPT !.criteria = hash, !.amended = Append(@, hash)]
    <2>1. c \in Cards /\ cards[c].status = Open /\ hash \in Hashes
          /\ cards' = [cards EXCEPT ![c] = new]
      BY <1>5, CommandsOnly DEF Amend, Deciding, MayAmend, IsOpen, Exists, WriteCard
    <2>2. /\ SoundCard(new) /\ new.status = cards[c].status
          /\ RecordedCriteria(cards[c]) \subseteq RecordedCriteria(new)
      BY <2>1, AmendedCard
    <2> HIDE DEF c, new
    <2>3. CardChanges(c, new)
      BY <2>1, <2>2 DEF CardChanges, Open, Absent, Broken
    <2> QED
      BY <2>1, <2>3
  <1>6. CASE Verdict(p)
    <2> DEFINE c == job[p].card
               new == [cards[c] EXCEPT !.status = job[p].status]
    <2>1. c \in Cards /\ job[p].status \in Closed /\ OwnMarkers(c) = {}
          /\ cards' = [cards EXCEPT ![c] = new]
      BY <1>6, CommandsOnly DEF Verdict, Deciding, MayClose, IsOpen, Exists, WriteCard
    <2>2. /\ SoundCard(new) /\ new.status = job[p].status
          /\ RecordedCriteria(new) = RecordedCriteria(cards[c])
      BY <2>1, OtherStatus
    <2> HIDE DEF c, new
    <2>3. CardChanges(c, new)
      BY <2>1, <2>2 DEF CardChanges, Closed, Absent, Broken
    <2> QED
      BY <2>1, <2>3
  <1>7. CASE Reopen(p)
    <2> DEFINE c == job[p].card
               new == [cards[c] EXCEPT !.status = Open]
    <2>1. c \in Cards /\ cards' = [cards EXCEPT ![c] = new]
      BY <1>7 DEF Reopen, MayReopen, Exists, WriteCard
    <2>2. /\ SoundCard(new) /\ new.status = Open
          /\ RecordedCriteria(new) = RecordedCriteria(cards[c])
      BY <2>1, OtherStatus
    <2> HIDE DEF c, new
    <2>3. CardChanges(c, new)
      BY <2>1, <2>2 DEF CardChanges, Open, Absent, Broken
    <2> QED
      BY <2>1, <2>3
  <1>8. CASE NewCard(p) \/ NewCardKilled(p)
    <2>1. CASE NextCard \notin Cards
      BY <1>8, <2>1 DEF NewCard, NewCardKilled, WriteCard
    <2>2. CASE NextCard \in Cards
      <3>1. cards[NextCard].status = Absent
        BY <1>8, <2>2 DEF NewCard, NewCardKilled, MayRegister, Exists
      <3>2. CASE NewCard(p)
        BY <2>2, <3>1, <3>2, NewCardIsSound DEF NewCard, WriteCard, CardChanges
      <3>3. CASE NewCardKilled(p)
        <4> DEFINE new == [cards[NextCard] EXCEPT !.status = Broken]
        <4>1. cards' = [cards EXCEPT ![NextCard] = new]
          BY <2>2, <3>3 DEF NewCardKilled
        <4>2. SoundCard(new)
          BY <2>2, OtherStatus
        <4> QED
          BY <2>2, <3>1, <4>1, <4>2 DEF CardChanges
      <3> QED
        BY <1>8, <3>2, <3>3
    <2> QED
      BY <2>1, <2>2
  <1> QED
    BY <1>1, <1>2, <1>3, <1>4, <1>5, <1>6, <1>7, <1>8 DEF Step, Failure

\* The operator removes a card that does not parse; nobody else outside of the critical
\* sections touches a card, and nobody is granted anything there.
LEMMA OutsideCards ==
  ASSUME LockInv, CardsInv,
         \/ \E p \in Procs : \E ask \in Asks(p) : Start(p, ask)
         \/ \E r \in Runs : RunWrites(r)
         \/ RepairLedger \/ \E c \in Cards : RemoveBrokenCard(c)
         \/ UNCHANGED vars
  PROVE  /\ GrantsNone
         /\ UNCHANGED cards \/ \E c \in Cards : \E card : CardChanges(c, card)
  <1>1. ASSUME UNCHANGED <<ledger, markers, draft, pc, fin>> PROVE GrantsNone
    BY <1>1 DEF GrantsNone, Counted, OnRecord, Recorded
  <1>2. ASSUME NEW p \in Procs, NEW ask \in Asks(p), Start(p, ask)
        PROVE  GrantsNone /\ UNCHANGED cards
    <2>1. /\ UNCHANGED <<cards, ledger, markers, draft, fin>>
          /\ \A q \in Procs : pc'[q] = pc[q] \/ pc'[q] = "wait"
      BY <1>2 DEF Start, disk, section, Goto, LockInv
    <2> QED
      BY <2>1 DEF GrantsNone, Counted, OnRecord, Recorded, Procs
  <1>3. ASSUME NEW c \in Cards, RemoveBrokenCard(c)
        PROVE  GrantsNone /\ \E card : CardChanges(c, card)
    <2> DEFINE new == [cards[c] EXCEPT !.status = Absent]
    <2>1. cards' = [cards EXCEPT ![c] = new] /\ cards[c].status = Broken
      BY <1>3 DEF RemoveBrokenCard, Readable, CardsInv
    <2>2. SoundCard(new)
      BY OtherStatus DEF CardsInv
    <2>3. CardChanges(c, new)
      BY <2>1, <2>2 DEF CardChanges
    <2> QED
      BY <1>1, <1>3, <2>3 DEF RemoveBrokenCard, section
  <1> QED
    BY <1>1, <1>2, <1>3 DEF RunWrites, RepairLedger, vars, disk, section

\* What was granted stays good while cards change as they may.
LEMMA ChangesKeepCards ==
  ASSUME CardsInv, GrantsNone, NEW c \in Cards, NEW card, CardChanges(c, card)
  PROVE  CardsInv'
  <1>1. /\ cards' = [cards EXCEPT ![c] = card] /\ cards'[c] = card
        /\ \A d \in Cards : d # c => cards'[d] = cards[d]
        /\ cards' \in [Cards -> CardType]
    BY DEF CardChanges, CardsInv, SoundCard
  <1>2. \A d \in Cards : SoundCard(cards'[d])
    BY <1>1 DEF CardChanges, CardsInv
  <1>3. ASSUME NEW q \in Counted' PROVE GrantKept(q)'
    <2> DEFINE d == draft[q].strategy
    <2>1. GrantKept(q) /\ draft'[q] = draft[q]
      BY DEF GrantsNone, CardsInv
    <2>2. d # c => cards'[d] = cards[d]
      BY <1>1, <2>1 DEF GrantKept
    <2>3. d = c => /\ cards'[d].status \notin {Absent, Broken}
                   /\ RecordedCriteria(cards[d]) \subseteq RecordedCriteria(cards'[d])
      BY <1>1, <2>1 DEF CardChanges, GrantKept
    <2> QED
      BY <2>1, <2>2, <2>3 DEF GrantKept
  <1>4. ASSUME NEW r \in markers' PROVE cards'[draft'[r].strategy].status = Open
    <2> DEFINE d == draft[r].strategy
    <2>1. r \in markers /\ draft'[r] = draft[r] /\ d \in Cards /\ cards[d].status = Open
      BY DEF GrantsNone, CardsInv, ClosedCardSettled, GrantKept, Counted, OnRecord
    <2>2. CASE d # c
      BY <1>1, <2>1, <2>2
    <2>3. CASE d = c
      <3>1. r \in OwnMarkers(c)
        BY <2>1, <2>3 DEF OwnMarkers
      <3>2. card.status = Open
        BY <2>1, <2>3, <3>1 DEF CardChanges, Open, Absent, Broken
      <3> QED
        BY <1>1, <2>1, <2>3, <3>2
    <2> QED
      BY <2>2, <2>3
  <1> QED
    BY <1>1, <1>2, <1>3, <1>4 DEF CardsInv, ClosedCardSettled

\* What is granted is granted on an open card, with the criteria the card states.
LEMMA AdmitsKeepCards ==
  ASSUME RecordInv, CardsInv, NEW p \in Procs, Admits(p)
  PROVE  CardsInv'
  <1> DEFINE c == job[p].card
             card == cards[c]
  <1>1. UNCHANGED cards
    BY DEF Admits
  <1>2. p \in DOMAIN draft
    BY DEF Admits, Deciding, RecordInv, JobInv, DraftInv
  <1>3. /\ c \in Cards /\ card.status = Open /\ SoundCard(card)
        /\ draft'[p].strategy = c /\ draft'[p].criteria = card.criteria
        /\ draft'[p].cutoff = card.cutoff
    <2>1. c \in Cards /\ Denials(TRUE, card, job[p], ledger) = {}
      BY DEF Admits, Admitted, Exists
    <2>2. card.status = Open /\ SoundCard(card)
      BY <2>1, GateGrants DEF CardsInv
    <2> PICK status : draft' = [draft EXCEPT ![p] = Drafted(p, job[p], status)]
      BY DEF Admits
    <2>3. draft'[p] = Drafted(p, job[p], status)
      BY <1>2
    <2> QED
      BY <2>1, <2>2, <2>3 DEF Drafted
  <1>4. GrantKept(p)'
    <2>1. card.criteria \in RecordedCriteria(card) /\ card.cutoff = InitialCard.cutoff
      BY <1>3, StatedIsRecorded DEF SoundCard, CardType
    <2> QED
      BY <1>1, <1>3, <2>1 DEF GrantKept, Open, Absent, Broken
  <1>5. ASSUME NEW q \in Counted', q # p PROVE q \in Counted /\ draft'[q] = draft[q]
    BY <1>5, DraftsKept DEF Admits
  <1>6. \A q \in Counted' : GrantKept(q)'
    BY <1>1, <1>4, <1>5 DEF GrantKept, CardsInv
  <1>7. ASSUME NEW r \in markers' PROVE cards'[draft'[r].strategy].status = Open
    <2>1. CASE r = p
      BY <1>1, <1>3, <2>1
    <2>2. CASE r # p
      <3>1. r \in markers /\ r \in Counted
        BY <2>2 DEF Admits, Counted, OnRecord
      <3> QED
        BY <1>1, <3>1, DraftsKept DEF CardsInv, ClosedCardSettled
    <2> QED
      BY <2>1, <2>2
  <1> QED
    BY <1>1, <1>6, <1>7 DEF CardsInv, ClosedCardSettled

\* The invariant is inductive.
LEMMA CardsStep ==
  LockInv /\ RecordInv /\ EndedInv /\ AsksInv /\ CardsInv /\ [Next]_vars => CardsInv'
  <1> SUFFICES ASSUME LockInv, RecordInv, EndedInv, AsksInv, CardsInv, [Next]_vars
               PROVE  CardsInv'
    OBVIOUS
  <1>1. ASSUME GrantsNone, UNCHANGED cards PROVE CardsInv'
    BY <1>1 DEF GrantsNone, CardsInv, GrantKept, ClosedCardSettled
  <1>2. ASSUME NEW p \in Procs, Acquire(p) \/ Step(p) \/ Failure(p) PROVE CardsInv'
    BY <1>1, <1>2, CountedStep, CardMoves, AdmitsKeepCards, ChangesKeepCards DEF Admits
  <1>3. ASSUME GrantsNone, UNCHANGED cards \/ \E c \in Cards : \E card : CardChanges(c, card)
        PROVE  CardsInv'
    BY <1>1, <1>3, ChangesKeepCards
  <1> QED
    BY <1>2, <1>3, OutsideCards DEF Next

\* Cards registered with the criteria they state, and nobody on record.
LEMMA CardsInit == Init => CardsInv
  <1> SUFFICES ASSUME Init PROVE CardsInv
    OBVIOUS
  <1>1. cards = [c \in Cards |-> IF c \in Registered THEN InitialCard ELSE NoCardFile]
    BY DEF Init
  <1>2. \A c \in Cards : SoundCard(cards[c])
    BY <1>1, NewCardIsSound
  <1>3. cards \in [Cards -> CardType]
    BY <1>1, <1>2 DEF SoundCard
  <1>4. markers = {} /\ Counted = {}
    BY RegisterAssumption DEF Init, Counted, OnRecord, Recorded, Procs
  <1> QED
    BY <1>2, <1>3, <1>4 DEF CardsInv, ClosedCardSettled

-----------------------------------------------------------------------------
(* What no two trials may have in common *)

\* Two trials with the same run id, and two looks of one strategy without a reason.
SameId(p, q) == draft[p].id = draft[q].id /\ draft[p].id # NoProc

BothFree(p, q) ==
    /\ draft[p].strategy = draft[q].strategy
    /\ draft[p].kind = Holdout /\ draft[q].kind = Holdout
    /\ ~draft[p].reason /\ ~draft[q].reason

PairsInv ==
    /\ \A p, q \in Counted : p # q => ~SameId(p, q) /\ ~BothFree(p, q)
    /\ NoTwinsRunning

\* While somebody decides, nobody else's study is half-way to the ledger.
LEMMA CountedWhileDeciding ==
  ASSUME LockInv, NEW p \in Procs, pc[p] = "decide", NEW q \in Counted
  PROVE  q \in markers \/ Recorded(q)
  <1>1. \A s \in Studies : pc[s] \notin {"store", "append"}
    BY HolderIsAlone DEF CriticalSteps, Procs
  <1> QED
    BY <1>1 DEF Counted, OnRecord

\* run_id_denials, pending_holdout_looks and the gate's repeated look compare the
\* request with everybody who counts.
LEMMA GrantedApart ==
  ASSUME LockInv, RecordInv, LinesInv, NEW p \in Procs, Admits(p), NEW q \in Counted
  PROVE  ~SameId(p, q)' /\ ~BothFree(p, q)'
  <1> DEFINE ask == job[p]
             card == cards[ask.card]
  <1>1. /\ pc[p] = "decide" /\ Admitted(p, ask) /\ p \in DOMAIN draft
        /\ draft'[q] = draft[q]
    BY DraftsKept DEF Admits, Deciding, RecordInv, JobInv, DraftInv
  <1>2. /\ draft'[p].id = ask.id /\ draft'[p].strategy = ask.card
        /\ draft'[p].kind = KindOf(ask) /\ draft'[p].reason = ask.reason
    <2> PICK status : draft' = [draft EXCEPT ![p] = Drafted(p, ask, status)]
      BY DEF Admits
    <2>1. draft'[p] = Drafted(p, ask, status)
      BY <1>1
    <2> QED
      BY <2>1 DEF Drafted
  <1>3. q \in markers \/ \E i \in DOMAIN ledger : ledger[i].run = q
    BY <1>1, CountedWhileDeciding DEF Recorded
  <1>4. ASSUME SameId(p, q)' PROVE FALSE
    <2>1. draft[q].id = ask.id /\ ask.id # NoProc
      BY <1>1, <1>2, <1>4 DEF SameId
    <2>2. ~IdInUse(p, ask)
      BY <1>1 DEF Admitted
    <2>3. q \notin markers
      BY <2>1, <2>2 DEF IdInUse, HasId
    <2>4. \A i \in DOMAIN ledger : ledger[i].run # q
      BY <2>1, <2>2 DEF IdInUse, LinesInv
    <2> QED
      BY <1>3, <2>3, <2>4
  <1>5. ASSUME BothFree(p, q)' PROVE FALSE
    <2>1. /\ draft[q].strategy = ask.card /\ draft[q].kind = Holdout
          /\ ask.holdout /\ ~ask.reason
      BY <1>1, <1>2, <1>5 DEF BothFree, KindOf, Holdout, Iteration
    <2>2. q \notin markers
      BY <1>1, <2>1 DEF Admitted, PendingLook, OwnMarkers
    <2>3. HoldoutDenials(card, ask, TrialsOf(ask.card, ledger)) = {}
      BY <1>1, <2>1, GateGrants DEF Admitted
    <2>4. ASSUME NEW i \in DOMAIN ledger, ledger[i].run = q PROVE FALSE
      <3>1. ledger[i].strategy = ask.card /\ ledger[i].kind = Holdout
        BY <2>1, <2>4 DEF LinesInv
      <3> QED
        BY <2>1, <2>3, <3>1, SecondLookDenied
    <2> QED
      BY <1>3, <2>2, <2>4
  <1> QED
    BY <1>4, <1>5

\* running_duplicates compares the request with every run that runs.
LEMMA TwinDenied ==
  ASSUME LockInv, RecordInv, EndedInv, NEW p \in Runs, AdmitRun(p), Admits(p),
         NEW q \in Runs, q # p, pc[q] = "run"
  PROVE  draft'[p].fp = draft'[q].fp => draft'[p].reason
  <1> DEFINE ask == job[p]
  <1>1. q \in markers /\ Alive(q) /\ q \in Counted
    BY DEF EndedInv, Alive, Counted, OnRecord
  <1>2. q \in LiveRuns(p) /\ p \in Procs
    BY <1>1 DEF LiveRuns, LooksAlive, Procs
  <1>3. draft'[q] = draft[q]
    BY <1>1, <1>2, DraftsKept
  <1>4. draft'[p] = Drafted(p, ask, "failed")
    BY DEF AdmitRun, RecordInv, DraftInv
  <1>5. /\ draft'[p].fp = Fingerprint(cards[ask.card], ask)
        /\ draft'[p].reason = ask.reason
    BY <1>4 DEF Drafted
  <1>6. ~RunningDuplicate(p, ask, Fingerprint(cards[ask.card], ask))
    BY DEF AdmitRun, Admitted
  <1> QED
    BY <1>2, <1>3, <1>5, <1>6 DEF RunningDuplicate

\* The ids and looks of those who count stay apart.
LEMMA PairsApart ==
  ASSUME LockInv, RecordInv, LinesInv, PairsInv, NEW p \in Procs, Admits(p) \/ GrantsNone
  PROVE  (\A a, b \in Counted : a # b => ~SameId(a, b) /\ ~BothFree(a, b))'
  <1>1. CASE GrantsNone
    BY <1>1 DEF GrantsNone, PairsInv, SameId, BothFree
  <1>2. CASE Admits(p)
    <2> SUFFICES ASSUME NEW a \in Counted', NEW b \in Counted', a # b
                 PROVE  ~SameId(a, b)' /\ ~BothFree(a, b)'
      OBVIOUS
    <2>1. \A q \in Counted : ~SameId(p, q)' /\ ~BothFree(p, q)'
      BY <1>2, GrantedApart
    <2>2. CASE a = p \/ b = p
      BY <1>2, <2>1, <2>2 DEF Admits, SameId, BothFree
    <2>3. CASE a # p /\ b # p
      <3>1. a \in Counted /\ b \in Counted
        BY <1>2, <2>3 DEF Admits
      <3> QED
        BY <1>2, <3>1, DraftsKept DEF PairsInv, SameId, BothFree
    <2> QED
      BY <2>2, <2>3
  <1> QED
    BY <1>1, <1>2

\* Two runs that run go on as they were; a third one compares itself with both.
LEMMA TwinsApart ==
  ASSUME LockInv, RecordInv, EndedInv, PairsInv, NEW p \in Procs,
         Acquire(p) \/ Step(p) \/ Failure(p)
  PROVE  NoTwinsRunning'
  <1> SUFFICES ASSUME NEW a \in Runs, NEW b \in Runs, a # b, pc'[a] = "run", pc'[b] = "run",
                      draft'[a].fp = draft'[b].fp
               PROVE  draft'[a].reason \/ draft'[b].reason
    BY DEF NoTwinsRunning
  <1>1. Admits(p) \/ GrantsNone
    BY CountedStep
  <1>2. CASE AdmitRun(p)
    <2>1. p \in Runs /\ p \notin OnRecord /\ p \in OnRecord'
      BY <1>2, RegisterAssumption DEF AdmitRun, Deciding, RecordInv, JobInv, LifeInv, OnRecord
    <2>2. Admits(p)
      BY <1>1, <2>1, RegisterAssumption DEF GrantsNone, Counted
    <2>3. \A q \in Runs : q # p /\ pc'[q] = "run" => pc[q] = "run" /\ draft'[q] = draft[q]
      <3>1. \A q \in Runs : q # p /\ pc'[q] = "run" => pc[q] = "run"
        BY OnlyOneMoves DEF Procs
      <3>2. \A q \in Runs : pc[q] = "run" => draft'[q] = draft[q]
        BY <1>1, DraftsKept DEF EndedInv, Counted, OnRecord
      <3> QED
        BY <3>1, <3>2
    <2>4. CASE a = p \/ b = p
      BY <1>2, <2>1, <2>2, <2>3, <2>4, TwinDenied
    <2>5. CASE a # p /\ b # p
      BY <2>3, <2>5 DEF PairsInv, NoTwinsRunning
    <2> QED
      BY <2>4, <2>5
  <1>3. CASE ~AdmitRun(p)
    <2>1. pc[a] = "run" /\ pc[b] = "run"
      BY <1>3, OnlyAdmittedRuns DEF Procs
    <2>2. draft'[a] = draft[a] /\ draft'[b] = draft[b]
      BY <1>1, <2>1, DraftsKept DEF EndedInv, Counted, OnRecord
    <2> QED
      BY <2>1, <2>2 DEF PairsInv, NoTwinsRunning
  <1> QED
    BY <1>2, <1>3

\* The invariant is inductive.
LEMMA PairsStep ==
  LockInv /\ RecordInv /\ EndedInv /\ LinesInv /\ CardsInv /\ PairsInv /\ [Next]_vars
    => PairsInv'
  <1> SUFFICES ASSUME LockInv, RecordInv, EndedInv, LinesInv, CardsInv, PairsInv, [Next]_vars
               PROVE  PairsInv'
    OBVIOUS
  <1>1. ASSUME NEW p \in Procs, Acquire(p) \/ Step(p) \/ Failure(p) PROVE PairsInv'
    BY <1>1, CountedStep, PairsApart, TwinsApart DEF PairsInv
  <1>2. ASSUME GrantsNone, \A q \in Procs : pc'[q] = "run" => pc[q] = "run" PROVE PairsInv'
    BY <1>2 DEF GrantsNone, PairsInv, SameId, BothFree, NoTwinsRunning, Procs
  <1>3. ASSUME \/ \E p \in Procs : \E ask \in Asks(p) : Start(p, ask)
               \/ \E r \in Runs : RunWrites(r)
               \/ RepairLedger \/ \E c \in Cards : RemoveBrokenCard(c)
               \/ UNCHANGED vars
        PROVE  \A q \in Procs : pc'[q] = "run" => pc[q] = "run"
    BY <1>3 DEF Start, Goto, LockInv, RunWrites, RepairLedger, RemoveBrokenCard, vars
  <1> QED
    BY <1>1, <1>2, <1>3, OutsideCards DEF Next

\* All that is said of what the gate granted.
GrantsInv == EndedInv /\ AsksInv /\ LinesInv /\ CardsInv /\ PairsInv

\* Nothing has been granted initially.
LEMMA GrantsInit == Init => GrantsInv
  <1> SUFFICES ASSUME Init PROVE GrantsInv
    OBVIOUS
  <1>1. EndedInv /\ CardsInv
    BY EndedInit, CardsInit
  <1>2. AsksInv /\ LinesInv
    BY DEF Init, AsksInv, LinesInv
  <1>3. Counted = {} /\ \A p \in Procs : pc[p] # "run"
    BY RegisterAssumption DEF Init, Counted, OnRecord, Recorded, Procs
  <1>4. PairsInv
    BY <1>3 DEF PairsInv, NoTwinsRunning, Procs
  <1> QED
    BY <1>1, <1>2, <1>4 DEF GrantsInv

\* The invariants of the lock, of recording and of what was granted hold together.
LEMMA GrantsHold == Spec => [](LockInv /\ RecordInv /\ GrantsInv)
  <1>1. Init => LockInv /\ RecordInv /\ GrantsInv
    BY LockInit, RecordInit, GrantsInit
  <1>2. LockInv /\ RecordInv /\ GrantsInv /\ [Next]_vars => (LockInv /\ RecordInv /\ GrantsInv)'
    BY LockStep, RecordStep, EndedStep, AsksStep, LinesStep, CardsStep, PairsStep
       DEF GrantsInv
  <1> QED
    BY <1>1, <1>2, PTL DEF Spec

(***************************************************************************)
(* The first holdout look of a strategy is free: of all looks of a card,   *)
(* recorded, running, dead or refused half-way, at most one lacks a reason.*)
(***************************************************************************)
THEOREM LookSafety == Spec => []OneUnexplainedLook
  <1>1. PairsInv => OneUnexplainedLook
    BY DEF PairsInv, BothFree, OneUnexplainedLook, Counted
  <1> QED
    BY <1>1, GrantsHold, PTL DEF GrantsInv

(***************************************************************************)
(* A run id is used once, also by dead runs nobody could record and by     *)
(* studies that take their id from a file.                                 *)
(***************************************************************************)
THEOREM RunIdSafety == Spec => []RunIdsUsedOnce
  <1>1. PairsInv => RunIdsUsedOnce
    BY DEF PairsInv, SameId, RunIdsUsedOnce, Counted
  <1> QED
    BY <1>1, GrantsHold, PTL DEF GrantsInv

(***************************************************************************)
(* Identical configurations do not run at the same time without a reason,  *)
(* on whichever hosts they were started.                                   *)
(***************************************************************************)
THEOREM TwinSafety == Spec => []NoTwinsRunning
  <1>1. PairsInv => NoTwinsRunning
    BY DEF PairsInv
  <1> QED
    BY <1>1, GrantsHold, PTL DEF GrantsInv

(***************************************************************************)
(* The statistics of a verdict are final: no run of a closed card is left  *)
(* to record, whoever dies between the verdict's recovery and its write.   *)
(***************************************************************************)
THEOREM VerdictSafety == Spec => []ClosedCardSettled
  <1>1. CardsInv => ClosedCardSettled
    BY DEF CardsInv
  <1> QED
    BY <1>1, GrantsHold, PTL DEF GrantsInv

(***************************************************************************)
(* Amendments while runs are in flight never lock a card: the criteria the *)
(* card states are those of its last amendment, every trial in the ledger  *)
(* ran under criteria it has on record, and its cutoff is every trial's.   *)
(***************************************************************************)
THEOREM CardUsable == Spec => []OpenCardUsable
  <1>1. ASSUME LinesInv, CardsInv PROVE OpenCardUsable
    <2> SUFFICES ASSUME NEW c \in Cards
                 PROVE  LET own == TrialsOf(c, ledger)
                        IN  ~CriteriaChanged(cards[c], own) /\ ~CutoffMoved(cards[c], own)
      BY DEF OpenCardUsable
    <2> DEFINE own == TrialsOf(c, ledger)
    <2>1. SoundCard(cards[c])
      BY <1>1 DEF CardsInv
    <2>2. ASSUME NEW i \in DOMAIN own
          PROVE  /\ own[i].criteria \in RecordedCriteria(cards[c])
                 /\ own[i].cutoff = cards[c].cutoff
      <3>1. i \in DOMAIN ledger /\ ledger[i].strategy = c /\ own[i] = ledger[i]
        BY OwnTrials
      <3>2. GrantKept(ledger[i].run)
        BY <1>1, <3>1, LinesCounted DEF CardsInv
      <3>3. /\ draft[ledger[i].run].strategy = c
            /\ own[i].criteria = draft[ledger[i].run].criteria
            /\ own[i].cutoff = draft[ledger[i].run].cutoff
        BY <1>1, <3>1 DEF LinesInv
      <3> QED
        BY <2>1, <3>2, <3>3 DEF GrantKept, SoundCard, CardType
    <2> HIDE DEF own
    <2>3. cards[c].amended = <<>> => \A i \in DOMAIN own : own[i].criteria = cards[c].criteria
      BY <2>1, <2>2, StatedIsRecorded
    <2>4. ~CriteriaChanged(cards[c], own)
      BY <2>1, <2>2, <2>3 DEF CriteriaChanged, IsLast, SoundCard
    <2>5. ~CutoffMoved(cards[c], own)
      BY <2>2 DEF CutoffMoved
    <2> QED
      BY <2>4, <2>5 DEF own
  <1> QED
    BY <1>1, GrantsHold, PTL DEF GrantsInv

-----------------------------------------------------------------------------
(* Types *)

\* What a process holds and leaves in files, apart from the cards and the ledger.
StateType ==
    /\ torn \in BOOLEAN
    /\ tagged \subseteq Runs
    /\ outcome \in [Runs -> {"none", "started", "evaluated"}]
    /\ fin \in Runs \cup Studies \cup {NoProc}
    /\ recovered \in BOOLEAN
    /\ faults \in 0 .. MaxFaults

\* Everything that is drafted has the fingerprint of a request, on any card.
DraftType ==
    /\ \A p \in Runs \cup Studies :
          draft[p].run = NoProc \/ (draft[p].run = p /\ draft[p].fp \in Fingerprints)
    /\ configs \subseteq Fingerprints

\* Only a run has a directory to tag.
TagInv == \A p \in Procs : pc[p] = "tag" => p \in Runs

TypeInv == StateType /\ DraftType /\ TagInv

\* A process that is granted something drafts the fingerprint of its request.
LEMMA GrantsAreTyped ==
  ASSUME RecordInv, AsksInv, CardsInv, DraftType, NEW p \in Procs, Admits(p)
  PROVE  \A q \in Runs \cup Studies :
            draft'[q].run = NoProc \/ (draft'[q].run = q /\ draft'[q].fp \in Fingerprints)
  <1> DEFINE ask == job[p]
             card == cards[ask.card]
  <1>1. p \in Runs \cup Studies /\ ask.op \in {"run", "study"} /\ Admitted(p, ask)
    BY DEF Admits, Deciding, RecordInv, JobInv
  <1>2. ask \in RunAsks \cup StudyAsks
    BY <1>1, RegisterAssumption DEF AsksInv, Asks, NoJob
  <1>3. card.cutoff = InitialCard.cutoff
    BY <1>1 DEF Admitted, Exists, CardsInv, CardType
  <1>4. Fingerprint(card, ask) = Fingerprint(InitialCard, ask)
    BY <1>3 DEF Fingerprint, EffectiveEnd
  <1>5. PICK status : draft' = [draft EXCEPT ![p] = Drafted(p, ask, status)]
    BY DEF Admits
  <1>6. Drafted(p, ask, status).run = p /\ Drafted(p, ask, status).fp \in Fingerprints
    BY <1>2, <1>4 DEF Drafted, Fingerprints
  <1> HIDE DEF ask, card
  <1> QED
    BY <1>1, <1>5, <1>6 DEF RecordInv, DraftInv, DraftType

\* Only requests' fingerprints are drafted, and only what is drafted is stored.
LEMMA DraftTypeStep ==
  ASSUME LockInv, RecordInv, EndedInv, AsksInv, CardsInv, DraftType, [Next]_vars
  PROVE  DraftType'
  <1>1. ASSUME NEW p \in Procs, Admits(p) \/ GrantsNone
        PROVE  \A q \in Runs \cup Studies :
                  draft'[q].run = NoProc \/ (draft'[q].run = q /\ draft'[q].fp \in Fingerprints)
    BY <1>1, GrantsAreTyped DEF GrantsNone, DraftType
  <1>2. ASSUME NEW p \in Procs, FinishStore(p) PROVE configs' \subseteq Fingerprints
    <2>1. fin \in Runs \cup Studies /\ draft[fin].run = fin /\ fin # NoProc
      BY <1>2, RegisterAssumption DEF FinishStore, RecordInv, FinInv, Recording, Procs
    <2> QED
      BY <1>2, <2>1 DEF FinishStore, DraftType
  <1>3. ASSUME NEW p \in Procs, Acquire(p) \/ Step(p) \/ Failure(p) PROVE DraftType'
    <2>1. FinishStore(p) \/ UNCHANGED configs
      BY <1>3 DEF Acquire, Step, Failure, Validate, RecoverSkip, RecoverBegin, RecoverEnd,
                  FinishBegin, FinishAppend, FinishUnlink, CommitStale, Commit, Tag,
                  Refuse, AdmitRun, AdmitStudy, Amend, Verdict, Reopen, NewCard,
                  CommandRefused, RunEnds, FinishFails, MarkerFails, NewCardKilled, Killed,
                  WriteCard, disk
    <2> QED
      BY <1>1, <1>2, <1>3, <2>1, CountedStep DEF DraftType
  <1>4. ASSUME \/ \E p \in Procs : \E ask \in Asks(p) : Start(p, ask)
               \/ \E r \in Runs : RunWrites(r)
               \/ RepairLedger \/ \E c \in Cards : RemoveBrokenCard(c)
               \/ UNCHANGED vars
        PROVE  DraftType'
    <2>1. UNCHANGED <<draft, configs>>
      BY <1>4 DEF Start, RunWrites, RepairLedger, RemoveBrokenCard, vars, disk
    <2> QED
      BY <2>1 DEF DraftType
  <1> QED
    BY <1>3, <1>4 DEF Next

\* Only a run goes on to tag its directory, after its commit.
LEMMA TagStep ==
  ASSUME LockInv, TagInv, [Next]_vars
  PROVE  TagInv'
  <1> USE DEF TagInv, LockInv, Goto
  <1>1. ASSUME NEW p \in Procs, NEW step, Goto(p, step), step = "tag" => p \in Runs
        PROVE  TagInv'
    BY <1>1
  <1>2. ASSUME UNCHANGED pc PROVE TagInv'
    BY <1>2
  <1> USE DEF Leave, Release, EndOf
  <1> HIDE DEF TagInv, LockInv, Goto
  <1>3. ASSUME NEW p \in Procs, Acquire(p) PROVE TagInv'
    BY <1>1, <1>3 DEF Acquire
  <1>4. ASSUME NEW p \in Procs, Step(p) PROVE TagInv'
    <2>1. CASE Validate(p) \/ RecoverSkip(p) \/ RecoverBegin(p) \/ RecoverEnd(p)
      BY <1>1, <1>2, <2>1 DEF Validate, RecoverSkip, RecoverBegin, RecoverEnd
    <2>2. CASE FinishBegin(p) \/ FinishStore(p) \/ FinishAppend(p) \/ FinishUnlink(p)
      BY <1>1, <2>2 DEF FinishBegin, FinishStore, FinishAppend, FinishUnlink, GiveUp
    <2>3. CASE CommitStale(p) \/ Commit(p) \/ Tag(p) \/ RunEnds(p)
      BY <1>1, <2>3 DEF CommitStale, Commit, Tag, RunEnds
    <2>4. CASE Refuse(p) \/ AdmitRun(p) \/ AdmitStudy(p) \/ CommandRefused(p)
      BY <1>1, <2>4 DEF Refuse, AdmitRun, AdmitStudy, CommandRefused
    <2>5. CASE Amend(p) \/ Verdict(p) \/ Reopen(p) \/ NewCard(p)
      BY <1>1, <2>5 DEF Amend, Verdict, Reopen, NewCard, WriteCard
    <2> QED
      BY <1>4, <2>1, <2>2, <2>3, <2>4, <2>5 DEF Step
  <1>5. ASSUME NEW p \in Procs, Failure(p) PROVE TagInv'
    BY <1>1, <1>5 DEF Failure, FinishFails, GiveUp, MarkerFails, NewCardKilled, Killed
  <1>6. ASSUME NEW p \in Procs, NEW ask \in Asks(p), Start(p, ask) PROVE TagInv'
    BY <1>1, <1>6 DEF Start
  <1>7. ASSUME \/ \E r \in Runs : RunWrites(r)
               \/ RepairLedger \/ \E c \in Cards : RemoveBrokenCard(c)
               \/ UNCHANGED vars
        PROVE  TagInv'
    BY <1>2, <1>7 DEF RunWrites, RepairLedger, RemoveBrokenCard, vars
  <1> QED
    BY <1>3, <1>4, <1>5, <1>6, <1>7 DEF Next

\* A failure is counted up to the bound.
LEMMA FaultType ==
  ASSUME StateType
  PROVE  Fault => faults' \in 0 .. MaxFaults
  BY RegisterAssumption DEF StateType, Fault

\* What a process does by itself keeps the types.
LEMMA StateTypeMoves ==
  ASSUME RecordInv, TagInv, StateType, NEW p \in Procs, Acquire(p) \/ Step(p) \/ Failure(p)
  PROVE  StateType'
  <1> USE FaultType DEF StateType, section, disk, Leave, Release, ClearSection
  <1>a. \A r \in Runs : TagRun(r) => tagged' \subseteq Runs
    BY DEF TagRun
  <1>1. CASE Acquire(p)
    BY <1>1 DEF Acquire, RecordInv, LifeInv
  <1>2. CASE Validate(p) \/ RecoverSkip(p) \/ RecoverEnd(p)
    BY <1>2 DEF Validate, RecoverSkip, RecoverEnd
  <1>3. CASE RecoverBegin(p)
    BY <1>3 DEF RecoverBegin, RecordInv, DraftInv
  <1>4. CASE FinishBegin(p) \/ FinishStore(p) \/ FinishAppend(p)
    BY <1>4 DEF FinishBegin, FinishStore, FinishAppend, GiveUp
  <1>5. CASE FinishUnlink(p)
    <2>1. fin \in Runs
      BY <1>5 DEF FinishUnlink, RecordInv, FinInv
    <2> QED
      BY <1>5, <1>a, <2>1 DEF FinishUnlink
  <1>6. CASE CommitStale(p) \/ Commit(p)
    BY <1>6 DEF CommitStale, Commit, GitCommit
  <1>7. CASE Tag(p)
    <2>1. tagged' \subseteq Runs
      BY <1>7, <1>a DEF Tag, TagInv
    <2> QED
      BY <1>7, <2>1 DEF Tag
  <1>8. CASE Refuse(p) \/ AdmitRun(p) \/ RunEnds(p) \/ CommandRefused(p)
    BY <1>8 DEF Refuse, AdmitRun, RunEnds, CommandRefused
  <1>9. CASE AdmitStudy(p)
    BY <1>9 DEF AdmitStudy, Deciding, RecordInv, JobInv
  <1>10. CASE Amend(p) \/ Verdict(p) \/ Reopen(p) \/ NewCard(p)
    BY <1>10 DEF Amend, Verdict, Reopen, NewCard, WriteCard
  <1>11. CASE FinishFails(p)
    BY <1>11 DEF FinishFails, GiveUp
  <1>12. CASE MarkerFails(p) \/ NewCardKilled(p)
    BY <1>12 DEF MarkerFails, NewCardKilled
  <1>13. CASE Killed(p)
    BY <1>13 DEF Killed
  <1> QED
    BY <1>1, <1>2, <1>3, <1>4, <1>5, <1>6, <1>7, <1>8, <1>9, <1>10, <1>11, <1>12, <1>13
       DEF Step, Failure

\* Every step keeps the types.
LEMMA StateTypeStep ==
  ASSUME RecordInv, TagInv, StateType, [Next]_vars
  PROVE  StateType'
  <1> USE DEF StateType, section, disk
  <1>1. ASSUME NEW p \in Procs, NEW ask \in Asks(p), Start(p, ask) PROVE StateType'
    BY <1>1 DEF Start
  <1>2. ASSUME NEW r \in Runs, RunWrites(r) PROVE StateType'
    BY <1>2 DEF RunWrites
  <1>3. CASE RepairLedger \/ \E c \in Cards : RemoveBrokenCard(c)
    BY <1>3 DEF RepairLedger, RemoveBrokenCard
  <1>4. CASE UNCHANGED vars
    BY <1>4 DEF vars
  <1> QED
    BY <1>1, <1>2, <1>3, <1>4, StateTypeMoves DEF Next

\* TypeOK: what is in the files and what the processes hold is what the code puts there;
\* in particular every stored configuration is one somebody asked for.
THEOREM TypeSafety == Spec => []TypeOK
  <1>1. Init => TypeInv
    <2> SUFFICES ASSUME Init PROVE TypeInv
      OBVIOUS
    <2>1. StateType
      <3>1. 0 \in 0 .. MaxFaults
        BY RegisterAssumption
      <3> QED
        BY <3>1 DEF Init, StateType
    <2>2. DraftType /\ TagInv
      BY DEF Init, DraftType, NoTrial, TagInv
    <2> QED
      BY <2>1, <2>2 DEF TypeInv
  <1>2. LockInv /\ RecordInv /\ GrantsInv /\ TypeInv /\ [Next]_vars => TypeInv'
    BY DraftTypeStep, StateTypeStep, TagStep DEF TypeInv, GrantsInv
  <1>3. LockInv /\ RecordInv /\ GrantsInv /\ TypeInv => TypeOK
    <2> SUFFICES ASSUME LockInv, RecordInv, GrantsInv, TypeInv PROVE TypeOK
      OBVIOUS
    <2>1. ASSUME NEW c \in Cards
          PROVE  /\ cards[c].status \in Closed \cup {Open, Absent, Broken}
                 /\ RecordedCriteria(cards[c]) \cup {cards[c].criteria} \subseteq Hashes
      <3>1. cards[c] \in CardType
        BY DEF GrantsInv, CardsInv
      <3>2. /\ cards[c].status \in Closed \cup {Open, Absent, Broken}
            /\ cards[c].criteria \in Hashes /\ cards[c].registered \in Hashes
            /\ cards[c].amended \in Seq(Hashes)
        BY <3>1 DEF CardType
      <3> QED
        BY <3>2 DEF RecordedCriteria
    <2>2. /\ \A i \in DOMAIN ledger : ledger[i].trial = i
          /\ markers \cup todo \subseteq Runs
          /\ \A p \in DOMAIN draft : draft[p].run \in {p, NoProc}
      BY DEF RecordInv, LedgerInv, DraftInv, TypeInv, DraftType
    <2> QED
      BY <2>1, <2>2 DEF TypeOK, TypeInv, StateType, DraftType, LockInv
  <1> QED
    BY <1>1, <1>2, <1>3, GrantsHold, PTL DEF Spec

-----------------------------------------------------------------------------
(***************************************************************************)
(* Register implements TrialRegister: under the mapping of Register's      *)
(* instance Trials, every step of the files, the lock and the crashes is   *)
(* one step of a pending or recorded trial, or none.                       *)
(***************************************************************************)
Phase == [r \in Runs |-> IF Recorded(r) THEN "recorded"
                         ELSE IF r \in markers THEN "pending" ELSE "absent"]
Log   == [i \in DOMAIN ledger |-> ledger[i].run]

\* A line of the ledger becomes a line of the log.
LEMMA AppendToLog ==
  ASSUME LedgerInv, NEW t, ledger' = Append(ledger, t)
  PROVE  Log' = Append(Log, t.run)
  <1> DEFINE S == {ledger[i] : i \in DOMAIN ledger}
             R == {s.run : s \in S}
  <1>1. ledger \in Seq(S) /\ Len(ledger) \in Nat /\ DOMAIN ledger = 1 .. Len(ledger)
    BY DEF LedgerInv
  <1>2. Log \in Seq(R) /\ Len(Log) = Len(ledger)
    BY <1>1 DEF Log
  <1>3. Log' \in Seq(R \cup {t.run}) /\ Len(Log') = Len(ledger) + 1
    BY <1>1 DEF Log
  <1>4. Append(Log, t.run) \in Seq(R \cup {t.run}) /\ Len(Append(Log, t.run)) = Len(ledger) + 1
    BY <1>2
  <1>5. \A i \in 1 .. Len(ledger) + 1 : Log'[i] = Append(Log, t.run)[i]
    BY <1>1, <1>2 DEF Log
  <1> QED
    BY <1>3, <1>4, <1>5

\* An empty register is an empty abstract register.
LEMMA InitRefines == Init => Trials!Init
  <1> SUFFICES ASSUME Init PROVE Trials!Init
    OBVIOUS
  <1>1. ledger = <<>> /\ markers = {}
    BY DEF Init
  <1>2. \A p : ~Recorded(p)
    BY <1>1 DEF Recorded
  <1>3. [i \in DOMAIN ledger |-> ledger[i].run] = <<>>
    BY <1>1
  <1> QED
    BY <1>1, <1>2, <1>3 DEF Trials!Init

\* A line appended for a pending run is Record, for a study RecordStudy.
LEMMA AppendRefines ==
  ASSUME LockInv, RecordInv, NEW p \in Procs, FinishAppend(p)
  PROVE  Trials!Next
  <1>1. /\ ~Recorded(fin) /\ draft[fin].run = fin
        /\ fin \in Runs \/ fin \in Studies
        /\ fin \in Runs => fin \in markers
        /\ UNCHANGED markers
    BY DEF FinishAppend, RecordInv, FinInv, Recording, OnRecord
  <1>2. \A q : Recorded(q)' <=> Recorded(q) \/ q = fin
    BY AppendStep
  <1>3. Log' = Append(Log, fin)
    <2> DEFINE t == [draft[fin] EXCEPT !.trial = NextId(ledger), !.status = StatusOf(fin)]
    <2>1. ledger' = Append(ledger, t) /\ t.run = fin
      BY <1>1 DEF FinishAppend, Appended
    <2> HIDE DEF t
    <2> QED
      BY <2>1, AppendToLog DEF RecordInv
  <1>4. ASSUME NEW r \in Runs, r = fin PROVE Trials!Next
    <2>1. Phase[r] = "pending" /\ Phase' = [Phase EXCEPT ![r] = "recorded"]
      BY <1>1, <1>2, <1>4 DEF Phase
    <2>2. Trials!Record(r)
      BY <1>3, <1>4, <2>1 DEF Trials!Record, Phase, Log
    <2> QED
      BY <2>2 DEF Trials!Next
  <1>5. ASSUME NEW s \in Studies, s = fin PROVE Trials!Next
    <2>1. Phase' = Phase
      BY <1>1, <1>2, <1>5, RegisterAssumption DEF Phase
    <2>2. \A i \in DOMAIN Log : Log[i] # s
      BY <1>1, <1>5 DEF Log, Recorded
    <2>3. Trials!RecordStudy(s)
      BY <1>3, <1>5, <2>1, <2>2 DEF Trials!RecordStudy, Trials!InLog, Phase, Log
    <2> QED
      BY <2>3 DEF Trials!Next
  <1> QED
    BY <1>1, <1>4, <1>5

\* A run gets its marker, or none: nobody is recorded.
LEMMA AdmitRefines ==
  ASSUME LockInv, RecordInv, NEW p \in Procs, AdmitRun(p) \/ MarkerFails(p)
  PROVE  Trials!Next \/ UNCHANGED Trials!vars
  <1>1. /\ p \in Runs /\ p \notin OnRecord /\ UNCHANGED ledger
        /\ markers' = markers \cup {p} \/ UNCHANGED markers
    BY RegisterAssumption DEF AdmitRun, MarkerFails, Deciding, RecordInv, JobInv, LifeInv
  <1>2. Log' = Log /\ \A q : Recorded(q)' <=> Recorded(q)
    BY <1>1 DEF Log, Recorded
  <1>3. CASE markers' = markers \cup {p}
    <2>1. Phase[p] = "absent" /\ Phase' = [Phase EXCEPT ![p] = "pending"]
      BY <1>1, <1>2, <1>3 DEF Phase, OnRecord
    <2>2. Trials!Pend(p)
      BY <1>2, <2>1 DEF Trials!Pend, Phase, Log
    <2> QED
      BY <1>1, <2>2 DEF Trials!Next
  <1>4. CASE UNCHANGED markers
    <2>1. Phase' = Phase
      BY <1>2, <1>4 DEF Phase
    <2> QED
      BY <1>2, <2>1 DEF Trials!vars, Phase, Log
  <1> QED
    BY <1>1, <1>3, <1>4

\* The marker of a recorded run is dropped: it was, and is, recorded.
LEMMA UnlinkRefines ==
  ASSUME LockInv, RecordInv, NEW p \in Procs, FinishUnlink(p)
  PROVE  UNCHANGED Trials!vars
  <1>1. UNCHANGED ledger /\ markers' = markers \ {fin} /\ Recorded(fin)
    BY DEF FinishUnlink, RecordInv, FinInv
  <1>2. Log' = Log /\ \A q : Recorded(q)' <=> Recorded(q)
    BY <1>1 DEF Log, Recorded
  <1>3. Phase' = Phase
    BY <1>1, <1>2 DEF Phase
  <1> QED
    BY <1>2, <1>3 DEF Trials!vars, Phase, Log

\* What leaves ledger and markers alone is a stuttering step.
LEMMA StillRefines ==
  ASSUME UNCHANGED <<ledger, markers>>
  PROVE  UNCHANGED Trials!vars
  <1>1. Log' = Log /\ \A q : Recorded(q)' <=> Recorded(q)
    BY DEF Log, Recorded
  <1>2. Phase' = Phase
    BY <1>1 DEF Phase
  <1> QED
    BY <1>1, <1>2 DEF Trials!vars, Phase, Log

(***************************************************************************)
(* No pending run is forgotten, none is recorded twice, no line of the     *)
(* ledger moves, and a study is recorded at once or not at all.            *)
(***************************************************************************)
THEOREM RegisterRefines == Spec => ImplementsTrialRegister
  <1>1. LockInv /\ RecordInv /\ [Next]_vars => [Trials!Next]_(Trials!vars)
    <2> SUFFICES ASSUME LockInv, RecordInv, [Next]_vars
                 PROVE  Trials!Next \/ UNCHANGED Trials!vars
      OBVIOUS
    <2>1. ASSUME NEW p \in Procs, Acquire(p) \/ Step(p) \/ Failure(p)
          PROVE  Trials!Next \/ UNCHANGED Trials!vars
      <3>1. CASE Quiet \/ AdmitStudy(p)
        BY <3>1, StillRefines DEF Quiet, AdmitStudy
      <3> QED
        BY <2>1, <3>1, Writers, AppendRefines, UnlinkRefines, AdmitRefines
    <2>2. CASE UNCHANGED vars
      BY <2>2, StillRefines DEF vars
    <2>3. Quiet => UNCHANGED Trials!vars
      BY StillRefines DEF Quiet
    <2> QED
      BY <2>1, <2>2, <2>3, OutsideStep DEF Next
  <1>2. Init => Trials!Init
    BY InitRefines
  <1> QED
    BY <1>1, <1>2, RegisterInv, PTL DEF Spec, ImplementsTrialRegister, Trials!Spec
=============================================================================
