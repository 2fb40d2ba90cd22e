-------------------------------- MODULE Gate --------------------------------
(***************************************************************************)
(* The pre-run gate of the research register, research/gate.py: the pure   *)
(* decision whether a requested run may start, given its research card and *)
(* the whole ledger.                                                       *)
(*                                                                         *)
(* Days are natural numbers.  A configuration is named by the part of it   *)
(* that the gate leaves alone, its variant; the fingerprint adds the parts *)
(* the gate may set, the window and the holdout split.                     *)
(***************************************************************************)
EXTENDS Integers, Sequences, FiniteSets, Functions

NoDay  == -1        \* start_date, end_date or holdout_cutoff is not given
BadDay == -2        \* given, but not a YYYY-MM-DD date
NoCard == 0         \* no research id: card ids S-0001, S-0002, ... are 1, 2, ...

\* A configuration that has no fingerprint: no symbols, NaN, unresolved preset.
Unhashable == "unhashable"

Open   == "active"
Parked == "parked"
Closed == {"parked", "rejected", "candidate"}   \* what a verdict sets

Iteration == "iteration"
Holdout   == "holdout"

-----------------------------------------------------------------------------
(***************************************************************************)
(* A card:    [status, cutoff, contaminated, criteria, registered, amended]*)
(*            criteria is the hash of the criteria the card states now,    *)
(*            registered the hash written at registration and amended the  *)
(*            sequence of the hashes its amendments record.                *)
(* A request: [card, holdout, variant, start, end, split, note, reason]    *)
(*            split is a holdout_cutoff the caller put into the metadata;  *)
(*            note and reason are TRUE when the text passes its check.     *)
(* A trial:   [strategy, kind, status, fp, criteria, cutoff, ...]          *)
(***************************************************************************)

RecordedCriteria(card) ==
    {card.registered} \cup {card.amended[i] : i \in DOMAIN card.amended}

\* The hash the current criteria must have: the last amendment's, else the registration's.
ExpectedCriteria(card) ==
    IF card.amended = <<>> THEN card.registered ELSE card.amended[Len(card.amended)]

\* The trials of a card, at their places in the ledger.
TrialsOf(c, trials) == Restrict(trials, {i \in DOMAIN trials : trials[i].strategy = c})

IsLast(i, own) == i \in DOMAIN own /\ \A j \in DOMAIN own : j <= i

\* Mutant: without the guards against an edited registration hash.
CriteriaChangedFromCard(card, own) == card.criteria # ExpectedCriteria(card)

CriteriaChanged(card, own) ==
    \/ card.criteria # ExpectedCriteria(card)
    \/ /\ card.amended = <<>>
       /\ \E i \in DOMAIN own : IsLast(i, own) /\ own[i].criteria # card.criteria
    \/ \E i \in DOMAIN own : own[i].criteria \notin RecordedCriteria(card)

\* Mutant: only a cutoff moved to a later day is noticed.
CutoffMovedLater(card, own) == \E i \in DOMAIN own : own[i].cutoff < card.cutoff

CutoffMoved(card, own) == \E i \in DOMAIN own : own[i].cutoff # card.cutoff

\* An iteration without an end date gets the cutoff, unless a malformed date stopped the check.
EffectiveEnd(card, req) ==
    IF req.end = NoDay /\ ~req.holdout /\ req.start # BadDay THEN card.cutoff ELSE req.end

\* The denial of the window, as a set of at most one code; the first failing check decides.
WindowDenials(card, req) ==
    LET end == EffectiveEnd(card, req)
    IN  IF \/ req.start = BadDay \/ req.end = BadDay
           \/ req.holdout /\ req.start # NoDay /\ req.start >= card.cutoff
        THEN {"invalid_window"}
        ELSE IF end = NoDay THEN {}
        ELSE IF ~req.holdout /\ end > card.cutoff THEN {"after_cutoff"}
        ELSE IF \/ req.holdout /\ end <= card.cutoff
                \/ req.start # NoDay /\ req.start >= end
        THEN {"invalid_window"}
        ELSE {}

\* The metadata the run starts with, as far as the fingerprint tells two runs apart.
Fingerprint(card, req) ==
    [variant |-> req.variant,
     start   |-> req.start,
     end     |-> EffectiveEnd(card, req),
     split   |-> IF req.holdout THEN card.cutoff ELSE req.split]

HoldoutDenials(card, req, own) ==
    IF card.contaminated THEN {"holdout_contaminated"}
    ELSE IF req.reason THEN {}
    ELSE IF \E i \in DOMAIN own : own[i].kind = Holdout THEN {"holdout_repeat"} ELSE {}

\* Mutant: only the last trial is compared.
DuplicateDenialsLast(fp, trials) ==
    IF trials # <<>> /\ trials[Len(trials)].fp = fp /\ trials[Len(trials)].status = "ok"
    THEN {"duplicate_fingerprint"} ELSE {}

DuplicateDenials(fp, trials) ==
    IF \E i \in DOMAIN trials : trials[i].fp = fp /\ trials[i].status = "ok"
    THEN {"duplicate_fingerprint"} ELSE {}

CodeIf(condition, code) == IF condition THEN {code} ELSE {}

(***************************************************************************)
(* check(): the codes of all denials; the run may start when there are     *)
(* none.  found says whether a card with the requested id exists.          *)
(***************************************************************************)
Denials(found, card, req, trials) ==
    IF req.card = NoCard THEN {"missing_research_id"}
    ELSE IF ~found THEN {"card_not_found"}
    ELSE LET own == TrialsOf(req.card, trials)
         IN  CodeIf(~req.note, "missing_note")
             \cup CodeIf(card.status # Open, "not_active")
             \cup CodeIf(CriteriaChanged(card, own), "criteria_changed")
             \cup CodeIf(CutoffMoved(card, own), "cutoff_moved")
             \cup CodeIf(req.split # NoDay, "invalid_config")
             \cup WindowDenials(card, req)
             \cup (IF req.holdout THEN HoldoutDenials(card, req, own) ELSE {})
             \cup (IF req.variant = Unhashable
                   THEN {"invalid_config"}
                   ELSE IF req.reason THEN {}
                        ELSE DuplicateDenials(Fingerprint(card, req), trials))

KindOf(req) == IF req.holdout THEN Holdout ELSE Iteration
=============================================================================
