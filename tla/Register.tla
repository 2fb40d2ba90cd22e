------------------------------ MODULE Register ------------------------------
(***************************************************************************)
(* The research register of fwbg (src/fwbg/research): cards, an append-    *)
(* only trial ledger, stored configurations and pending markers in one     *)
(* directory with a git repository, written by independent processes that  *)
(* serialise on a file lock and may be killed at any step.                 *)
(*                                                                         *)
(* A gated backtest run takes the lock, records what dead runs left behind,*)
(* asks the gate, puts itself on record with a marker, runs without the    *)
(* lock, and takes the lock again to turn its marker into a trial.  Study  *)
(* scripts, the register commands and reconcile use the same lock.         *)
(*                                                                         *)
(* Only the holder of the lock writes the register, so the state of the    *)
(* current critical section (todo, fin, recovered) is kept once and not    *)
(* per process.                                                            *)
(***************************************************************************)
EXTENDS Gate

CONSTANTS Runs,           \* processes of gated runs, each started once
          Studies,        \* register_trial calls of study scripts, each made once
          Clerks,         \* processes of register commands, started again and again
          HostOf,         \* process -> host name (PID namespace)
          MaxCards,       \* card ids are 1 .. MaxCards
          Hashes,         \* hashes of success criteria
          RunAsks,        \* requests a run may be started with
          StudyAsks,      \* requests a study script may record
          Commands,       \* commands a clerk may be given
          InitialCard,    \* what new_card writes
          Registered,     \* cards that exist from the start
          MaxAmendments,  \* bound on the amendments of a card
          MaxFaults,      \* bound on failing writes and commits and killed clerks
          NoProc          \* nobody

Procs == Runs \cup Studies \cup Clerks
Cards == 1 .. MaxCards

ASSUME RegisterAssumption ==
    /\ Runs \cap Studies = {} /\ Runs \cap Clerks = {} /\ Studies \cap Clerks = {}
    /\ NoProc \notin Procs
    /\ \A ask \in RunAsks : ask.op = "run"
    /\ \A ask \in StudyAsks : ask.op = "study"
    /\ \A ask \in Commands : ask.op \in {"new", "amend", "verdict", "reopen", "reconcile"}
    \* write_verdict, amend_criteria: a verdict closes, an amendment sets other criteria.
    /\ \A ask \in Commands : /\ ask.op = "verdict" => ask.status \in Closed
                             /\ ask.op = "amend" => ask.hash \in Hashes
    \* new_card: an active card, registered with the criteria it states.
    /\ InitialCard \in [status : {Open}, cutoff : Nat, contaminated : BOOLEAN,
                        criteria : Hashes, registered : {InitialCard.criteria},
                        amended : {<<>>}]
    /\ MaxCards \in Nat \ {0} /\ Registered \subseteq Cards
    /\ MaxAmendments \in Nat
    /\ MaxFaults \in Nat

VARIABLES
    cards,      \* card id -> card file
    ledger,     \* trials.jsonl, the readable lines
    torn,       \* TRUE: an interrupted append left an unreadable last line
    configs,    \* fingerprints with a file in configs/
    markers,    \* runs with a file in .staging/
    draft,      \* run or study -> its trial, complete except for the outcome
    head,       \* what the last git commit holds of cards, ledger and configs
    lock,       \* holder of .register.lock
    pc,         \* process -> next step
    job,        \* process -> request or command it was started with
    outcome,    \* run -> what its run directory shows
    tagged,     \* runs whose config.json names their trial
    todo,       \* stale markers the holder has still to look at
    fin,        \* run or study the holder is recording
    recovered,  \* TRUE: the holder has recorded a dead run
    faults      \* failures so far

vars == <<cards, ledger, torn, configs, markers, draft, head, lock, pc, job,
          outcome, tagged, todo, fin, recovered, faults>>

section == <<todo, fin, recovered>>
disk    == <<cards, ledger, torn, configs, markers, draft, tagged>>

-----------------------------------------------------------------------------
(* The files *)

Absent == "absent"
Broken == "broken"   \* the card file does not parse

NoCardFile == [InitialCard EXCEPT !.status = Absent]

Worktree == [cards |-> cards, ledger |-> ledger, torn |-> torn, configs |-> configs]

NoJob == [op |-> "none"]

NoTrial == [trial |-> 0, run |-> NoProc, id |-> NoProc, strategy |-> NoCard, kind |-> "none",
            status |-> "failed",
            fp |-> [variant |-> Unhashable, start |-> NoDay, end |-> NoDay, split |-> NoDay],
            criteria |-> "none", cutoff |-> NoDay, reason |-> FALSE]

Readable(c) == cards[c].status # Broken
Exists(c)   == c \in Cards /\ cards[c].status # Absent

TrialIds(trials) == {trials[i].trial : i \in DOMAIN trials}

NextId(trials) ==
    IF trials = <<>> THEN 1
    ELSE 1 + CHOOSE n \in TrialIds(trials) : \A k \in TrialIds(trials) : k <= n

\* ledger.py append_trial, for the drafted trial of p with its outcome.
Appended(p, status) ==
    Append(ledger, [draft[p] EXCEPT !.trial = NextId(ledger), !.status = status])

Recorded(p) == \E i \in DOMAIN ledger : ledger[i].run = p

-----------------------------------------------------------------------------
(* Processes *)

Alive(p) == pc[p] \notin {"new", "done", "dead"}

\* Mutant: a pid of another host is looked up here and not found.
LooksAliveHere(p, r) == HostOf[r] = HostOf[p] /\ Alive(r)

\* Mutant: a marker is trusted for ever.
LooksAliveAlways(p, r) == TRUE

\* pending.py _alive: a pid of another host cannot be checked and counts as alive.
LooksAlive(p, r) == HostOf[r] # HostOf[p] \/ Alive(r)

LiveRuns(p) == {r \in markers : LooksAlive(p, r)}

OwnMarkers(c) == {r \in markers : draft[r].strategy = c}

Goto(p, step) == pc' = [pc EXCEPT ![p] = step]

\* Leaving the critical section of p, or never having been in one.
ClearSection == todo' = {} /\ fin' = NoProc /\ recovered' = FALSE

Release(p, step) == lock' = NoProc /\ Goto(p, step) /\ ClearSection

\* The operation is over; a clerk is ready for its next command.
EndOf(p) == IF p \in Clerks THEN "idle" ELSE "done"
Leave(p) == Release(p, EndOf(p)) /\ job' = [job EXCEPT ![p] = NoJob]

Fault == faults < MaxFaults /\ faults' = faults + 1

Init ==
    /\ cards = [c \in Cards |-> IF c \in Registered THEN InitialCard ELSE NoCardFile]
    /\ ledger = <<>>
    /\ torn = FALSE
    /\ configs = {}
    /\ markers = {}
    /\ draft = [p \in Runs \cup Studies |-> NoTrial]
    /\ head = [cards |-> cards, ledger |-> <<>>, torn |-> FALSE, configs |-> {}]
    /\ lock = NoProc
    /\ pc = [p \in Procs |-> IF p \in Clerks THEN "idle" ELSE "new"]
    /\ job = [p \in Procs |-> NoJob]
    /\ outcome = [r \in Runs |-> "none"]
    /\ tagged = {}
    /\ todo = {}
    /\ fin = NoProc
    /\ recovered = FALSE
    /\ faults = 0

-----------------------------------------------------------------------------
(* Starting, waiting for the lock, recovering what dead runs left behind *)

Asks(p) == IF p \in Runs THEN RunAsks ELSE IF p \in Studies THEN StudyAsks ELSE Commands

\* A process starts; reconcile reads the ledger before it waits for the lock.
Start(p, ask) ==
    /\ pc[p] \in {"new", "idle"}
    /\ ask \in Asks(p)
    /\ ask.op = "reconcile" => ~torn
    /\ job' = [job EXCEPT ![p] = ask]
    /\ Goto(p, "wait")
    /\ UNCHANGED <<disk, head, lock, outcome, section, faults>>

\* repo.py register_lock: a run that ended goes on with its own marker, the others
\* with the operation they were started for.
Acquire(p) ==
    /\ lock = NoProc
    /\ lock' = p
    /\ \/ /\ pc[p] = "ended"
          /\ fin' = p
          /\ Goto(p, "finish")
          /\ UNCHANGED todo
       \/ /\ pc[p] = "wait"
          /\ job[p].op \in {"run", "study", "verdict"}
          /\ todo' = markers
          /\ Goto(p, "recover")
          /\ UNCHANGED fin
       \/ /\ pc[p] = "wait"
          /\ job[p].op = "reconcile"
          /\ Goto(p, "validate")
          /\ UNCHANGED <<todo, fin>>
       \/ /\ pc[p] = "wait"
          /\ job[p].op \in {"new", "amend", "reopen"}
          /\ Goto(p, "decide")
          /\ UNCHANGED <<todo, fin>>
    /\ UNCHANGED <<disk, head, job, outcome, recovered, faults>>

\* reconcile.py repair: an unreadable ledger or card stops it before any write.
Validate(p) ==
    /\ pc[p] = "validate"
    /\ IF torn \/ \E c \in Cards : ~Readable(c)
       THEN Leave(p)
       ELSE todo' = markers /\ Goto(p, "recover") /\ UNCHANGED <<job, lock, fin, recovered>>
    /\ UNCHANGED <<disk, head, outcome, faults>>

\* pending.py recover_stale: a marker whose process looks alive is left alone.
RecoverSkip(p) ==
    /\ pc[p] = "recover"
    /\ \E r \in todo : LooksAlive(p, r) /\ todo' = todo \ {r}
    /\ UNCHANGED <<disk, head, lock, pc, job, outcome, fin, recovered, faults>>

RecoverBegin(p) ==
    /\ pc[p] = "recover"
    /\ \E r \in todo : ~LooksAlive(p, r) /\ fin' = r /\ todo' = todo \ {r}
    /\ Goto(p, "finish")
    /\ UNCHANGED <<disk, head, lock, job, outcome, recovered, faults>>

\* Reconcile always commits, the others only what they recovered.
RecoverEnd(p) ==
    /\ pc[p] = "recover"
    /\ todo = {}
    /\ Goto(p, IF job[p].op = "reconcile" THEN "commit"
               ELSE IF recovered THEN "commitStale" ELSE "decide")
    /\ UNCHANGED <<disk, head, lock, job, outcome, section, faults>>

-----------------------------------------------------------------------------
(* pending.py finish, one disk write per step: config, ledger line, marker *)

\* An exception: recovery goes on with the next marker, a run or study gives up.
GiveUp(p) ==
    IF fin = p
    THEN Release(p, "done")
    ELSE fin' = NoProc /\ Goto(p, "recover") /\ UNCHANGED <<lock, todo, recovered>>

\* A ledger that does not parse fails the read; a run in the ledger only loses its marker.
FinishBegin(p) ==
    /\ pc[p] = "finish"
    /\ IF torn THEN GiveUp(p)
       ELSE /\ Goto(p, IF Recorded(fin) THEN "unlink" ELSE "store")
            /\ UNCHANGED <<lock, section>>
    /\ UNCHANGED <<disk, head, job, outcome, faults>>

\* Mutant: the config of a run that evaluated nothing is not kept.
FinishStoreIfOk(p) ==
    /\ pc[p] = "store"
    /\ configs' = IF fin \in Runs /\ outcome[fin] # "evaluated" THEN configs
                  ELSE configs \cup {draft[fin].fp}
    /\ Goto(p, "append")
    /\ UNCHANGED <<cards, ledger, torn, markers, draft, tagged, head, lock, job, outcome,
                   section, faults>>

FinishStore(p) ==
    /\ pc[p] = "store"
    /\ configs' = configs \cup {draft[fin].fp}
    /\ Goto(p, "append")
    /\ UNCHANGED <<cards, ledger, torn, markers, draft, tagged, head, lock, job, outcome,
                   section, faults>>

StatusOf(p) == IF p \in Studies THEN draft[p].status
               ELSE IF outcome[p] = "evaluated" THEN "ok" ELSE "failed"

FinishAppend(p) ==
    /\ pc[p] = "append"
    /\ ledger' = Appended(fin, StatusOf(fin))
    /\ Goto(p, IF fin \in Runs THEN "unlink" ELSE "commit")
    /\ UNCHANGED <<cards, torn, configs, markers, draft, tagged, head, lock, job, outcome,
                   section, faults>>

\* tag_run writes config.json, which the run directory may lack; a failure only warns.
TagRun(r) == \/ tagged' = tagged
             \/ outcome[r] # "none" /\ tagged' = tagged \cup {r}

FinishUnlink(p) ==
    /\ pc[p] = "unlink"
    /\ markers' = markers \ {fin}
    /\ IF fin = p
       THEN Goto(p, "commit") /\ UNCHANGED <<tagged, section>>
       ELSE /\ TagRun(fin)
            /\ fin' = NoProc
            /\ recovered' = TRUE
            /\ Goto(p, "recover")
            /\ UNCHANGED todo
    /\ UNCHANGED <<cards, ledger, torn, configs, draft, head, lock, job, outcome, faults>>

\* Mutant: the marker is dropped whatever happened.
FinishFailsDropping(p) ==
    /\ pc[p] \in {"finish", "store", "append", "unlink"}
    /\ Fault
    /\ markers' = markers \ {fin}
    /\ GiveUp(p)
    /\ UNCHANGED <<cards, ledger, torn, configs, draft, tagged, head, job, outcome>>

\* A read or write fails; a failing append may leave part of its line behind.
FinishFails(p) ==
    /\ pc[p] \in {"finish", "store", "append", "unlink"}
    /\ Fault
    /\ torn' \in {torn, torn \/ pc[p] = "append"}
    /\ GiveUp(p)
    /\ UNCHANGED <<cards, ledger, configs, markers, draft, tagged, head, job, outcome>>

-----------------------------------------------------------------------------
(* repo.py commit_register: all register paths, or nothing when git fails *)

\* Mutant: the cards are not among the committed paths.
GitCommitNoCards == \/ head' = [Worktree EXCEPT !.cards = head.cards] /\ UNCHANGED faults
                    \/ Fault /\ UNCHANGED head

GitCommit == \/ head' = Worktree /\ UNCHANGED faults
             \/ Fault /\ UNCHANGED head

CommitStale(p) ==
    /\ pc[p] = "commitStale"
    /\ GitCommit
    /\ Goto(p, "decide")
    /\ UNCHANGED <<disk, lock, job, outcome, section>>

\* The operation's own commit; a run has its directory left to tag.
Commit(p) ==
    /\ pc[p] = "commit"
    /\ GitCommit
    /\ IF p \in Runs THEN Release(p, "tag") /\ UNCHANGED job ELSE Leave(p)
    /\ UNCHANGED <<disk, outcome>>

\* runs.py record: the run's config.json names its trial, after the lock is released.
Tag(p) ==
    /\ pc[p] = "tag"
    /\ TagRun(p)
    /\ Goto(p, "done")
    /\ UNCHANGED <<cards, ledger, torn, configs, markers, draft, head, lock, job, outcome,
                   section, faults>>

-----------------------------------------------------------------------------
(* runs.py _gate and study.py _record: the decision, under the lock *)

HasId(p, id) == id # NoProc /\ draft[p].id = id

\* Mutant: only runs that look alive keep their id.
IdInUseLive(p, ask) ==
    \/ \E i \in DOMAIN ledger : ask.id # NoProc /\ ledger[i].id = ask.id
    \/ \E r \in LiveRuns(p) : HasId(r, ask.id)

\* runs.py run_id_denials: in the ledger, pending, or (a run only) in a run directory.
IdInUse(p, ask) ==
    \/ \E i \in DOMAIN ledger : ask.id # NoProc /\ ledger[i].id = ask.id
    \/ \E r \in markers : HasId(r, ask.id)
    \/ p \in Runs /\ \E r \in Runs : HasId(r, ask.id) /\ outcome[r] # "none"

\* runs.py running_duplicates.
RunningDuplicate(p, ask, fp) == ~ask.reason /\ \E r \in LiveRuns(p) : draft[r].fp = fp

\* Mutant: a look whose process is gone does not count.
PendingLookAlive(ask) ==
    /\ ask.holdout /\ ~ask.reason
    /\ \E r \in OwnMarkers(ask.card) : Alive(r) /\ draft[r].kind = Holdout

\* runs.py pending_holdout_looks: every marker counts, not only live ones.
PendingLook(ask) ==
    ask.holdout /\ ~ask.reason /\ \E r \in OwnMarkers(ask.card) : draft[r].kind = Holdout

\* Mutant: an unreadable line at the end of the ledger is skipped.
AdmittedTorn(p, ask) ==
    /\ Exists(ask.card) /\ Readable(ask.card)
    /\ Denials(TRUE, cards[ask.card], ask, ledger) = {}
    /\ ~IdInUse(p, ask)
    /\ ~RunningDuplicate(p, ask, Fingerprint(cards[ask.card], ask))
    /\ ~PendingLook(ask)

\* The register is readable and raises no denial.
Admitted(p, ask) ==
    /\ ~torn
    /\ Exists(ask.card) /\ Readable(ask.card)
    /\ Denials(TRUE, cards[ask.card], ask, ledger) = {}
    /\ ~IdInUse(p, ask)
    /\ ~RunningDuplicate(p, ask, Fingerprint(cards[ask.card], ask))
    /\ ~PendingLook(ask)

Drafted(p, ask, status) ==
    LET card == cards[ask.card]
    IN  [trial |-> 0, run |-> p, id |-> ask.id, strategy |-> ask.card, kind |-> KindOf(ask),
         status |-> status, fp |-> Fingerprint(card, ask), criteria |-> card.criteria,
         cutoff |-> card.cutoff, reason |-> ask.reason]

Deciding(p, ops) == pc[p] = "decide" /\ job[p].op \in ops

\* GateDenied, or GateChecked after --check: nothing is written, nothing starts.
Refuse(p) ==
    /\ Deciding(p, {"run", "study"})
    /\ ~Admitted(p, job[p]) \/ (job[p].op = "run" /\ job[p].check)
    /\ Leave(p)
    /\ UNCHANGED <<disk, head, outcome, faults>>

\* write_pending puts the run on record; it runs once the lock is released.
AdmitRun(p) ==
    /\ Deciding(p, {"run"})
    /\ Admitted(p, job[p]) /\ ~job[p].check
    /\ draft' = [draft EXCEPT ![p] = Drafted(p, job[p], "failed")]
    /\ markers' = markers \cup {p}
    /\ Release(p, "run")
    /\ UNCHANGED <<cards, ledger, torn, configs, tagged, head, job, outcome, faults>>

\* write_pending raises, before or after os.replace: the run is refused either way.
MarkerFails(p) ==
    /\ Deciding(p, {"run"})
    /\ Admitted(p, job[p]) /\ ~job[p].check
    /\ Fault
    /\ \/ UNCHANGED <<draft, markers>>
       \/ /\ draft' = [draft EXCEPT ![p] = Drafted(p, job[p], "failed")]
          /\ markers' = markers \cup {p}
    /\ Leave(p)
    /\ UNCHANGED <<cards, ledger, torn, configs, tagged, head, outcome>>

\* A study has run already: its trial goes to the ledger at once.
AdmitStudy(p) ==
    /\ Deciding(p, {"study"})
    /\ Admitted(p, job[p])
    /\ draft' = [draft EXCEPT ![p] = Drafted(p, job[p], job[p].status)]
    /\ fin' = p
    /\ Goto(p, "store")
    /\ UNCHANGED <<cards, ledger, torn, configs, markers, tagged, head, lock, job, outcome,
                   todo, recovered, faults>>

-----------------------------------------------------------------------------
(* commands.py *)

WriteCard(p, c, card) ==
    /\ cards' = [cards EXCEPT ![c] = card]
    /\ Goto(p, "commit")
    /\ UNCHANGED <<ledger, torn, configs, markers, draft, tagged, head, lock, job, outcome,
                   section, faults>>

IsOpen(c)   == Exists(c) /\ cards[c].status = Open
MayReopen(c) == Exists(c) /\ cards[c].status \in {"parked", "rejected"}

MayAmend(c, hash) ==
    /\ ~torn
    /\ IsOpen(c)
    /\ ~CriteriaChanged(cards[c], TrialsOf(c, ledger))
    /\ hash # cards[c].criteria
    /\ Len(cards[c].amended) < MaxAmendments

\* Mutant: a verdict only waits for runs that look alive.
MayCloseLive(p, c) ==
    ~torn /\ IsOpen(c) /\ LiveRuns(p) \cap OwnMarkers(c) = {}

\* No run of the card may be in progress or left unrecorded.
MayClose(p, c) ==
    /\ ~torn
    /\ IsOpen(c)
    /\ LiveRuns(p) \cap OwnMarkers(c) = {}
    /\ OwnMarkers(c) = {}

UsedCards == {c \in Cards : Exists(c)} \cup {ledger[i].strategy : i \in DOMAIN ledger}

\* card.py next_card_id: the id after the highest one in use.
NextCard == CHOOSE n \in 1 .. MaxCards + 1 :
                (\A c \in UsedCards : c < n) /\ (n = 1 \/ n - 1 \in UsedCards)

\* write_card: an existing card is never overwritten.
MayRegister == ~torn /\ NextCard <= MaxCards /\ ~Exists(NextCard)

\* Mutant: an amendment replaces the registered hash.
AmendRewriting(p) ==
    /\ Deciding(p, {"amend"})
    /\ LET c == job[p].card
           hash == job[p].hash
       IN  /\ MayAmend(c, hash)
           /\ WriteCard(p, c, [cards[c] EXCEPT !.criteria = hash, !.registered = hash,
                                               !.amended = Append(@, hash)])

Amend(p) ==
    /\ Deciding(p, {"amend"})
    /\ LET c == job[p].card
           hash == job[p].hash
       IN  /\ MayAmend(c, hash)
           /\ WriteCard(p, c, [cards[c] EXCEPT !.criteria = hash, !.amended = Append(@, hash)])

Verdict(p) ==
    /\ Deciding(p, {"verdict"})
    /\ MayClose(p, job[p].card)
    /\ WriteCard(p, job[p].card, [cards[job[p].card] EXCEPT !.status = job[p].status])

Reopen(p) ==
    /\ Deciding(p, {"reopen"})
    /\ MayReopen(job[p].card)
    /\ WriteCard(p, job[p].card, [cards[job[p].card] EXCEPT !.status = Open])

NewCard(p) ==
    /\ Deciding(p, {"new"})
    /\ MayRegister
    /\ WriteCard(p, NextCard, InitialCard)

\* write_card creates the file and then fills it: a process killed between the two
\* leaves a card that does not parse.
NewCardKilled(p) ==
    /\ Deciding(p, {"new"})
    /\ MayRegister
    /\ Fault
    /\ cards' = [cards EXCEPT ![NextCard].status = Broken]
    /\ Leave(p)
    /\ UNCHANGED <<ledger, torn, configs, markers, draft, tagged, head, outcome>>

CommandRefused(p) ==
    /\ \/ Deciding(p, {"amend"}) /\ ~MayAmend(job[p].card, job[p].hash)
       \/ Deciding(p, {"verdict"}) /\ ~MayClose(p, job[p].card)
       \/ Deciding(p, {"reopen"}) /\ ~MayReopen(job[p].card)
       \/ Deciding(p, {"new"}) /\ ~MayRegister
    /\ Leave(p)
    /\ UNCHANGED <<disk, head, outcome, faults>>

-----------------------------------------------------------------------------
(* The run itself, killed processes and the operator *)

\* The run writes its directory, first config.json, then evaluated symbols.
RunWrites(p) ==
    /\ pc[p] = "run"
    /\ \/ outcome[p] = "none" /\ outcome' = [outcome EXCEPT ![p] = "started"]
       \/ outcome[p] = "started" /\ outcome' = [outcome EXCEPT ![p] = "evaluated"]
    /\ UNCHANGED <<disk, head, lock, pc, job, section, faults>>

\* The run returns or raises; run_gated records it in both cases.
RunEnds(p) ==
    /\ pc[p] = "run"
    /\ Goto(p, "ended")
    /\ UNCHANGED <<disk, head, lock, job, outcome, section, faults>>

\* SIGKILL or os._exit at any step: the kernel releases the lock.
Killed(p) ==
    /\ pc[p] \notin {"new", "idle", "done", "dead"}
    /\ IF p \in Clerks THEN Fault ELSE UNCHANGED faults
    /\ torn' \in {torn, torn \/ pc[p] = "append"}
    /\ Goto(p, IF p \in Clerks THEN "idle" ELSE "dead")
    /\ job' = [job EXCEPT ![p] = NoJob]
    /\ IF lock = p THEN lock' = NoProc /\ ClearSection ELSE UNCHANGED <<lock, section>>
    /\ UNCHANGED <<cards, ledger, configs, markers, draft, tagged, head, outcome>>

\* The operator removes the torn line, as the ledger's error message asks.
RepairLedger ==
    /\ torn /\ lock = NoProc
    /\ torn' = FALSE
    /\ UNCHANGED <<cards, ledger, configs, markers, draft, tagged, head, lock, pc, job,
                   outcome, section, faults>>

\* The operator removes a card file that does not parse.
RemoveBrokenCard(c) ==
    /\ ~Readable(c) /\ lock = NoProc
    /\ cards' = [cards EXCEPT ![c].status = Absent]
    /\ UNCHANGED <<ledger, torn, configs, markers, draft, tagged, head, lock, pc, job,
                   outcome, section, faults>>

-----------------------------------------------------------------------------
\* What p does by itself once it is started.
Step(p) ==
    \/ Validate(p) \/ RecoverSkip(p) \/ RecoverBegin(p) \/ RecoverEnd(p)
    \/ FinishBegin(p) \/ FinishStore(p) \/ FinishAppend(p) \/ FinishUnlink(p)
    \/ CommitStale(p) \/ Commit(p) \/ Tag(p)
    \/ Refuse(p) \/ AdmitRun(p) \/ AdmitStudy(p)
    \/ Amend(p) \/ Verdict(p) \/ Reopen(p) \/ NewCard(p) \/ CommandRefused(p)
    \/ RunEnds(p)

Failure(p) == FinishFails(p) \/ MarkerFails(p) \/ NewCardKilled(p) \/ Killed(p)

Next ==
    \/ \E p \in Procs : \/ \E ask \in Asks(p) : Start(p, ask)
                        \/ Acquire(p)
                        \/ Step(p)
                        \/ Failure(p)
    \/ \E r \in Runs : RunWrites(r)
    \/ RepairLedger
    \/ \E c \in Cards : RemoveBrokenCard(c)

Spec == Init /\ [][Next]_vars

-----------------------------------------------------------------------------
(* Correctness *)

Fingerprints ==
    {Fingerprint(InitialCard, ask) : ask \in RunAsks \cup StudyAsks}

CriticalSteps == {"validate", "recover", "finish", "store", "append", "unlink",
                  "commitStale", "decide", "commit"}

Steps == CriticalSteps \cup {"new", "idle", "wait", "run", "ended", "tag", "done", "dead"}

TypeOK ==
    /\ \A c \in Cards : /\ cards[c].status \in Closed \cup {Open, Absent, Broken}
                        /\ RecordedCriteria(cards[c]) \cup {cards[c].criteria} \subseteq Hashes
    /\ \A i \in DOMAIN ledger : ledger[i].trial = i
    /\ torn \in BOOLEAN
    /\ configs \subseteq Fingerprints
    /\ markers \cup tagged \cup todo \subseteq Runs
    /\ \A p \in DOMAIN draft : draft[p].run \in {p, NoProc}
    /\ lock \in Procs \cup {NoProc}
    /\ pc \in [Procs -> Steps]
    /\ outcome \in [Runs -> {"none", "started", "evaluated"}]
    /\ fin \in Runs \cup Studies \cup {NoProc}
    /\ recovered \in BOOLEAN
    /\ faults \in 0 .. MaxFaults

\* Only the process that holds the register lock is between its lock and its
\* unlock, and whoever is killed there leaves the lock free.
LockProtectsSection == \A p \in Procs : pc[p] \in CriticalSteps <=> lock = p

\* pending.py finish: a crash between the append and the unlink, and any number of
\* recoveries after it, never record a run twice; ledger ids follow the lines.
RecordedOnce ==
    \A i, j \in DOMAIN ledger :
        ledger[i].run = ledger[j].run \/ ledger[i].trial = ledger[j].trial => i = j

\* "The ledger must never name a fingerprint without its config", on disk and in
\* every commit, whichever step the writer was killed at.
ConfigsComplete ==
    /\ \A i \in DOMAIN ledger : ledger[i].fp \in configs
    /\ \A i \in DOMAIN head.ledger : head.ledger[i].fp \in head.configs

OnRecord == markers \cup {p \in Runs \cup Studies : Recorded(p)}

\* A run id is used once: no two runs or studies on record share one, dead runs that
\* could not be recorded included.
RunIdsUsedOnce ==
    \A p, q \in OnRecord : p # q /\ draft[p].id = draft[q].id => draft[p].id = NoProc

\* write_verdict: the statistics of a verdict are final.  A closed card has no run
\* on record whose trial is still to come, even when runs die while it is decided.
ClosedCardSettled == \A r \in markers : cards[draft[r].strategy].status = Open

\* "The first holdout trial per strategy is free": one look of a card may lack a
\* reason, whether the others are recorded, running, dead or refused half-way.
OneUnexplainedLook ==
    \A p, q \in OnRecord :
        /\ draft[p].strategy = draft[q].strategy
        /\ draft[p].kind = Holdout /\ draft[q].kind = Holdout
        /\ ~draft[p].reason /\ ~draft[q].reason
        => p = q

\* "An identical configuration must not run twice at once", unless a reason says why.
NoTwinsRunning ==
    \A p, q \in Runs :
        /\ p # q /\ pc[p] = "run" /\ pc[q] = "run"
        /\ draft[p].fp = draft[q].fp
        => draft[p].reason \/ draft[q].reason

\* Amending while runs are in flight never locks a card: the trials they record later
\* ran under criteria the card still has on record, so the gate stays usable.
OpenCardUsable ==
    \A c \in Cards : IsOpen(c) =>
        LET own == TrialsOf(c, ledger)
        IN  ~CriteriaChanged(cards[c], own) /\ ~CutoffMoved(cards[c], own)

\* Fail closed: while the ledger does not parse, no run gets on record, no trial is
\* added and no marker is dropped.
TornLedgerFreezes == [][torn /\ torn' => UNCHANGED ledger /\ markers' = markers]_vars

-----------------------------------------------------------------------------
(* The abstract register *)

Trials == INSTANCE TrialRegister WITH
    phase <- [r \in Runs |-> IF Recorded(r) THEN "recorded"
                             ELSE IF r \in markers THEN "pending" ELSE "absent"],
    log   <- [i \in DOMAIN ledger |-> ledger[i].run]

\* Every step of the register is a step of the abstract one or leaves it unchanged:
\* no pending run is forgotten, none is recorded twice, no line moves.
ImplementsTrialRegister == Trials!Spec

-----------------------------------------------------------------------------
(***************************************************************************)
(* Fairness.  A started process goes on until it is killed, a backtest run *)
(* ends, and the kernel gives the lock to every waiter in the end.  The    *)
(* operator runs reconcile again and again and repairs what it refuses to  *)
(* touch.  Nothing is assumed of failures, which MaxFaults bounds.         *)
(***************************************************************************)
Fairness ==
    /\ \A p \in Procs : WF_vars(Step(p)) /\ SF_vars(Acquire(p))
    /\ \A k \in Clerks : SF_vars(\E ask \in Commands : ask.op = "reconcile" /\ Start(k, ask))
    /\ SF_vars(RepairLedger)
    /\ \A c \in Cards : SF_vars(RemoveBrokenCard(c))

LiveSpec == Spec /\ Fairness

\* Goal 5, "every evaluation is counted": a run that passed the gate is recorded in
\* the end, however it was killed and whichever writes failed on the way.
PendingGetsRecorded == Trials!EveryPendingRecorded

\* "The next register commit includes it": again and again git holds all that the
\* cards, the ledger and the configs say on disk.
CommitsCatchUp == []<>(head = Worktree)
=============================================================================
