------------------------------ MODULE Backfill ------------------------------
(***************************************************************************)
(* Importing into the research register what was evaluated before there    *)
(* was a gate (src/fwbg/research/backfill.py): an operator maps old run    *)
(* directories and documented studies to cards, and "research backfill     *)
(* apply" writes the cards, the configurations and the trials, and commits *)
(* them.                                                                   *)
(*                                                                         *)
(* An apply reads the run directories without the lock, checks the mapping,*)
(* takes the register's lock, checks again and writes file after file; it  *)
(* may fail or be killed at every write, and the operator then applies the *)
(* same mapping again.  Meanwhile gated runs go on record in the same      *)
(* ledger, and their directories lie among the old ones.                   *)
(***************************************************************************)
EXTENDS Naturals, Sequences, FiniteSets, FiniteSetsExt, Functions

CONSTANTS LegacyRuns,   \* runs of the time before the gate
          Studies,      \* studies that ran outside the run system
          Gated,        \* runs that go through the gate
          Cards,        \* ids of research cards
          Appliers,     \* processes of "research backfill apply"
          Mappings,     \* mapping files the operator may apply
          Day,          \* legacy run or study -> its date
          ConfigOf,     \* run -> fingerprint of its configuration, or NoConfig
          Today,
          Edited,       \* text of a card that was edited
          NoConfig, NoOne,
          MaxFaults,    \* bound on failing writes and commits and killed processes
          MaxEdits      \* bound on edited cards

Runs  == LegacyRuns \cup Gated
Items == LegacyRuns \cup Studies

ASSUME BackfillAssumption ==
    /\ LegacyRuns \cap Gated = {} /\ Runs \cap Studies = {}
    /\ Runs \cap (Cards \X Studies) = {}    \* STUDY_PREFIX, see IdOf
    /\ NoOne \notin Appliers /\ Cards \subseteq Nat \ {0}
    /\ \A x \in Runs \cup Studies : Day[x] \in Nat
    /\ Today \in Nat /\ MaxFaults \in Nat /\ MaxEdits \in Nat
    \* load_mapping: a run may be named by any card, a text is never that of an edit
    /\ \A m \in Mappings : /\ m.plan \in [Cards -> SUBSET (Runs \cup Studies)]
                           /\ \A c \in Cards : m.text[c] # Edited

VARIABLES
    dirs,       \* runs with a directory under test_results/
    markers,    \* gated runs with a file in .staging/
    looks,      \* those of them that look at the holdout
    tagged,     \* gated runs whose config.json has a research block
    ledger,     \* trials.jsonl, the readable lines
    torn,       \* TRUE: an interrupted append left an unreadable last line
    cards,      \* card id -> card file
    configs,    \* fingerprints with a file in configs/
    head,       \* what the last git commit holds of cards, configs and ledger
    lock,       \* applier that holds .register.lock
    pc,         \* applier -> next step
    job,        \* applier -> its mapping, the runs it scanned, the gated ones it knows of
    todo,       \* what the holder of the lock has still to write
    faults

register == <<ledger, torn, cards, configs>>
gate     == <<markers, looks, tagged>>
process  == <<lock, pc, job, todo>>
vars     == <<dirs, gate, register, head, process, faults>>

-----------------------------------------------------------------------------
(* The register *)

NoFile == [file |-> "absent", cutoff |-> 0, criteria |-> "none", text |-> "none"]
BrokenFile == [NoFile EXCEPT !.file = "broken"]

\* The run id of a trial: a study gets one on every card that names it, _study_run_id.
IdOf(t) == IF t.of \in Studies THEN <<t.card, t.of>> ELSE t.of

GatedTrial(r) == [of |-> r, kind |-> "gated", card |-> 0, criteria |-> "none", cutoff |-> 0]

Trials     == Range(ledger)
Backfilled == {t \in Trials : t.kind = "backfill"}

GatedOnRecord == {t.of : t \in {t \in Trials : t.kind = "gated"}}

Worktree == [cards |-> cards, configs |-> configs, ledger |-> ledger]

Nothing == [cards |-> {}, configs |-> {}, trials |-> {}]
NoJob   == [map |-> NoOne, runs |-> {}, known |-> {}]

Fault == faults < MaxFaults /\ faults' = faults + 1

Init ==
    /\ dirs = {} /\ markers = {} /\ looks = {} /\ tagged = {}
    /\ ledger = <<>> /\ torn = FALSE
    /\ cards = [c \in Cards |-> NoFile] /\ configs = {}
    /\ head = [cards |-> [c \in Cards |-> NoFile], configs |-> {}, ledger |-> <<>>]
    /\ lock = NoOne /\ pc = [p \in Appliers |-> "idle"]
    /\ job = [p \in Appliers |-> NoJob] /\ todo = Nothing
    /\ faults = 0

-----------------------------------------------------------------------------
(* Checking a mapping: _prepare *)

Planned(m) == {c \in Cards : m.plan[c] # {}}

MappedRuns(m) == (UNION Range(m.plan)) \ Studies

\* _ungated: a gated run is in the ledger or still has its marker.
Ungated(runs, known) == (runs \ known) \ markers

\* _check_coverage: no run is unknown, mapped twice or left out.
Covers(m, runs) ==
    /\ MappedRuns(m) = runs
    /\ \A c, d \in Cards : c # d => m.plan[c] \cap m.plan[d] \subseteq Studies

\* _check_ledger.  The id of a study's trial names its card.
KeepsGrouping(m) == \A t \in Backfilled : t.of \in m.plan[t.card]

\* _cutoff: the day after the card's last run or study.
Cutoff(m, c) == 1 + Max({Day[x] : x \in m.plan[c]})

NewCard(m, c) ==
    [file |-> "written", cutoff |-> Cutoff(m, c), criteria |-> m.criteria[c],
     text |-> m.text[c]]

\* Mutant: only what the mapping says about the card itself is compared.
AgreesInText(m, c) == cards[c].text = m.text[c] /\ cards[c].criteria = m.criteria[c]

\* _check_existing
Agrees(m, c) ==
    /\ cards[c].cutoff = Cutoff(m, c)
    /\ cards[c].criteria = m.criteria[c]
    /\ cards[c].text = m.text[c]

Fits(m, runs, known) ==
    /\ Covers(m, Ungated(runs, known))
    /\ KeepsGrouping(m)
    /\ \A c \in Planned(m) : /\ \A x \in m.plan[c] : Day[x] <= Today
                             /\ cards[c].file = "written" => Agrees(m, c)

\* Mutant: a card that exists already refuses the mapping.
PreparedOnce(m, runs, known) ==
    /\ ~torn
    /\ Fits(m, runs, known)
    /\ \A c \in Planned(m) : cards[c].file = "absent"

\* An unreadable ledger or card refuses the mapping, too.
Prepared(m, runs, known) ==
    /\ ~torn
    /\ Fits(m, runs, known)
    /\ \A c \in Planned(m) : cards[c].file # "broken"

CardFor(m, c) == IF cards[c].file = "absent" THEN NewCard(m, c) ELSE cards[c]

\* _legacy_trial and _study_trial
TrialOf(m, c, x) ==
    [of |-> x, kind |-> "backfill", card |-> c,
     criteria |-> CardFor(m, c).criteria, cutoff |-> CardFor(m, c).cutoff]

Done(c, x) == \E t \in Backfilled : t.of = x /\ t.card = c

\* The configurations of recorded runs are stored again.
Writes(m) ==
    [cards   |-> {c \in Planned(m) : cards[c].file = "absent"},
     configs |-> {ConfigOf[r] : r \in MappedRuns(m)} \ {NoConfig},
     trials  |-> UNION {{TrialOf(m, c, x) : x \in {x \in m.plan[c] : ~Done(c, x)}}
                          : c \in Planned(m)}]

-----------------------------------------------------------------------------
(* Applying it: _apply, apply_mapping *)

Goto(p, step) == pc' = [pc EXCEPT ![p] = step]

Leave(p) ==
    /\ Goto(p, "idle")
    /\ job' = [job EXCEPT ![p] = NoJob]
    /\ lock' = IF lock = p THEN NoOne ELSE lock
    /\ todo' = IF lock = p THEN Nothing ELSE todo

\* scan_runs skips tagged runs; load_run refuses the directory of any other holdout look.
Scan(p, m) ==
    /\ pc[p] = "idle"
    /\ looks \cap dirs \subseteq tagged
    /\ job' = [job EXCEPT ![p] = [NoJob EXCEPT !.map = m, !.runs = dirs \ tagged]]
    /\ Goto(p, "read")
    /\ UNCHANGED <<dirs, gate, register, head, lock, todo, faults>>

\* _prepare without the lock reads the ledger first, and the markers and cards later.
ReadTrials(p) ==
    /\ pc[p] = "read"
    /\ IF torn THEN Leave(p)
       ELSE /\ job' = [job EXCEPT ![p].known = GatedOnRecord]
            /\ Goto(p, "check") /\ UNCHANGED <<lock, todo>>
    /\ UNCHANGED <<dirs, gate, register, head, faults>>

Check(p) ==
    /\ pc[p] = "check"
    /\ IF Prepared(job[p].map, job[p].runs, job[p].known)
       THEN /\ job' = [job EXCEPT ![p].known = {}]
            /\ Goto(p, "wait") /\ UNCHANGED <<lock, todo>>
       ELSE Leave(p)
    /\ UNCHANGED <<dirs, gate, register, head, faults>>

Lock(p) ==
    /\ pc[p] = "wait" /\ lock = NoOne
    /\ lock' = p
    /\ Goto(p, "prepare")
    /\ UNCHANGED <<dirs, gate, register, head, job, todo, faults>>

\* Mutant: the mapping is not checked again under the lock.
PrepareUnchecked(p) ==
    /\ pc[p] = "prepare"
    /\ todo' = Writes(job[p].map)
    /\ Goto(p, "write") /\ UNCHANGED <<lock, job>>
    /\ UNCHANGED <<dirs, gate, register, head, faults>>

\* The runs are those of the scan, everything else is read again.
Prepare(p) ==
    /\ pc[p] = "prepare"
    /\ IF Prepared(job[p].map, job[p].runs, GatedOnRecord)
       THEN /\ todo' = Writes(job[p].map)
            /\ job' = [job EXCEPT ![p].runs = {}]
            /\ Goto(p, "write") /\ UNCHANGED lock
       ELSE Leave(p)
    /\ UNCHANGED <<dirs, gate, register, head, faults>>

\* Cards and trials are written in the order of the cards.
First(some) == {c \in some : \A d \in some : c <= d}
NextTrials  == {t \in todo.trials : \A u \in todo.trials : t.card <= u.card}

WriteCard(p) ==
    /\ pc[p] = "write"
    /\ \E c \in First(todo.cards) :
          /\ cards' = [cards EXCEPT ![c] = NewCard(job[p].map, c)]
          /\ todo' = [todo EXCEPT !.cards = @ \ {c}]
    /\ UNCHANGED <<dirs, gate, ledger, torn, configs, head, lock, pc, job, faults>>

StoreConfig(p) ==
    /\ pc[p] = "write" /\ todo.cards = {}
    /\ \E f \in todo.configs :
          /\ configs' = configs \cup {f}
          /\ todo' = [todo EXCEPT !.configs = @ \ {f}]
    /\ UNCHANGED <<dirs, gate, ledger, torn, cards, head, lock, pc, job, faults>>

\* Mutant: the trials are written before the configurations.
MayAppendEarly(p) == pc[p] = "write" /\ todo.cards = {}

MayAppend(p) == pc[p] = "write" /\ todo.cards = {} /\ todo.configs = {}

AppendTrial(p) ==
    /\ MayAppend(p)
    /\ \E t \in NextTrials :
          /\ ledger' = Append(ledger, t)
          /\ todo' = [todo EXCEPT !.trials = @ \ {t}]
    /\ UNCHANGED <<dirs, gate, torn, cards, configs, head, lock, pc, job, faults>>

Commit(p) ==
    /\ pc[p] = "write" /\ todo = Nothing
    /\ head' = Worktree
    /\ Leave(p)
    /\ UNCHANGED <<dirs, gate, register, faults>>

\* The process is killed, or a write or the commit raises, which ends the apply; before its
\* first write an apply may end without a trace.  A card whose text was cut off is removed
\* unless that fails, too; a line may be cut off, or complete although not synced.
Breaks(p) ==
    /\ pc[p] = "write" /\ Fault
    /\ \/ UNCHANGED register
       \/ /\ \E c \in First(todo.cards) : cards' = [cards EXCEPT ![c] = BrokenFile]
          /\ UNCHANGED <<ledger, torn, configs>>
       \/ /\ MayAppend(p)
          /\ \E t \in NextTrials : \/ torn' = TRUE /\ UNCHANGED ledger
                                   \/ ledger' = Append(ledger, t) /\ UNCHANGED torn
          /\ UNCHANGED <<cards, configs>>
    /\ Leave(p)
    /\ UNCHANGED <<dirs, gate, head>>

-----------------------------------------------------------------------------
(* Runs, the gate and the operator; what takes the lock is one step here. *)

\* A run of the old version writes its directory.
Appear(r) ==
    /\ dirs' = dirs \cup {r}
    /\ UNCHANGED <<gate, register, head, process, faults>>

\* A gated run gets its marker and then its directory; before it has one, no scan sees it.
Admit(r) ==
    /\ lock = NoOne /\ ~torn
    /\ r \notin dirs
    /\ markers' = markers \cup {r} /\ dirs' = dirs \cup {r}
    /\ looks' \in {looks, looks \cup {r}}
    /\ UNCHANGED <<tagged, register, head, process, faults>>

\* finish, by the run itself or by whoever recovers it: the trial is appended, the marker
\* removed, and all of the register committed.
Record(r) ==
    /\ lock = NoOne /\ ~torn /\ r \in markers
    /\ \/ /\ r \notin GatedOnRecord /\ Fault /\ torn' = TRUE
          /\ UNCHANGED <<ledger, markers, head>>
       \/ /\ ledger' = IF r \in GatedOnRecord THEN ledger ELSE Append(ledger, GatedTrial(r))
          /\ UNCHANGED <<torn, cards, configs>>
          /\ \/ markers' = markers \ {r} /\ head' = Worktree' /\ UNCHANGED faults
             \/ markers' \in {markers, markers \ {r}} /\ Fault /\ UNCHANGED head
    /\ UNCHANGED <<dirs, looks, tagged, cards, configs, process>>

\* A failure to tag a run is logged and forgotten.
Tag(r) ==
    /\ r \in (dirs \cap GatedOnRecord) \ markers
    /\ tagged' = tagged \cup {r}
    /\ UNCHANGED <<dirs, markers, looks, register, head, process, faults>>

\* research reopen, amend and verdict rewrite a card and commit.
EditCard(c) ==
    /\ lock = NoOne /\ cards[c].file = "written"
    /\ Cardinality({d \in Cards : cards[d].text = Edited}) < MaxEdits
    /\ cards' = [cards EXCEPT ![c].text = Edited]
    /\ UNCHANGED <<dirs, gate, ledger, torn, configs, process, faults>>
    /\ head' = Worktree'

\* What the error messages ask the operator to do.
RepairLedger ==
    /\ torn /\ lock = NoOne
    /\ torn' = FALSE
    /\ UNCHANGED <<dirs, gate, ledger, cards, configs, head, process, faults>>

RemoveBrokenCard(c) ==
    /\ cards[c].file = "broken" /\ lock = NoOne
    /\ cards' = [cards EXCEPT ![c] = NoFile]
    /\ UNCHANGED <<dirs, gate, ledger, torn, configs, head, process, faults>>

-----------------------------------------------------------------------------
Step(p) == \/ ReadTrials(p) \/ Check(p) \/ Prepare(p)
           \/ WriteCard(p) \/ StoreConfig(p) \/ AppendTrial(p) \/ Commit(p)

Repair == RepairLedger \/ \E c \in Cards : RemoveBrokenCard(c)

Next ==
    \/ \E p \in Appliers : \/ \E m \in Mappings : Scan(p, m)
                           \/ Lock(p) \/ Step(p) \/ Breaks(p)
    \/ \E r \in LegacyRuns \ dirs : Appear(r)
    \/ \E r \in Gated : Admit(r) \/ Record(r) \/ Tag(r)
    \/ \E c \in Cards : EditCard(c)
    \/ Repair

Spec == Init /\ [][Next]_vars

\* Mappings without a gated run, which no mapping may name.
Sensible == {m \in Mappings : UNION Range(m.plan) \subseteq Items}

\* A started apply goes on and gets the lock in the end.  The operator repairs what an
\* apply refuses to touch, and applies a mapping again and again.
Fairness ==
    /\ \A p \in Appliers : WF_vars(Lock(p) \/ Step(p))
    /\ \A m \in Sensible : SF_vars(\E p \in Appliers : Scan(p, m))
    /\ WF_vars(Repair)

LiveSpec == Spec /\ Fairness

-----------------------------------------------------------------------------
(* Properties *)

Abstract == INSTANCE TrialRegister WITH
    Runs    <- Gated,
    Studies <- LegacyRuns \cup (Cards \X Studies),
    phase   <- [r \in Gated |-> IF r \in GatedOnRecord THEN "recorded"
                                ELSE IF r \in markers THEN "pending" ELSE "absent"],
    log     <- [i \in DOMAIN ledger |-> IdOf(ledger[i])]

\* A backfill writes the register as studies do: what it maps is recorded once and, unless
\* it is a study, on one card, over any number of applies, mappings and failures; and a
\* gated run never.
BackfillImplementsTrialRegister == Abstract!Spec

\* The holdout of a card starts after all that was evaluated for it: no mapping, and no
\* mapping after another, brings a later run or study to a card, or moves its cutoff.
BackfillBeforeHoldout ==
    \A t \in Backfilled : Day[t.of] < t.cutoff /\ t.cutoff = cards[t.card].cutoff

\* "The register never names a fingerprint without its config", nor a card without its
\* file, on disk and in every commit, wherever an apply broke off and whoever commits.
BackfillComplete ==
    \A r \in {Worktree, head} : \A t \in Range(r.ledger) : t.kind = "backfill" =>
        /\ r.cards[t.card].file = "written"
        /\ t.of \in Runs => ConfigOf[t.of] \in r.configs \cup {NoConfig}

\* Nothing stands in the way of m: no run is missing from it or recorded elsewhere, its
\* cards are as it says, and no holdout look lacks its tag.
Applicable(m) ==
    /\ looks \cap dirs \subseteq tagged
    /\ Fits(m, dirs \ tagged, GatedOnRecord)

Applied(m) ==
    \A c \in Planned(m) :
        /\ head.cards[c].file = "written"
        /\ \A x \in m.plan[c] : \E t \in Range(head.ledger) : t.of = x /\ t.card = c

\* "If a write fails part-way, apply the same mapping again": given repairs, a mapping
\* that stays applicable is on record and committed in the end.
BackfillCompletes == \A m \in Sensible : <>[]Applicable(m) => <>Applied(m)
=============================================================================
