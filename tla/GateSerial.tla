----------------------------- MODULE GateSerial -----------------------------
(***************************************************************************)
(* What research/gate.py promises when evaluations follow one another: a   *)
(* run is gated, evaluated and recorded before the next one is gated.      *)
(* Between two runs the operator amends criteria, closes and reopens       *)
(* cards, and may edit a card file by hand, which the gate is there to     *)
(* notice.  (Register has the same gate with concurrent runs and crashes.) *)
(***************************************************************************)
EXTENDS Gate

CONSTANTS Cards,          \* registered cards, a set of positive numbers
          Hashes,         \* hashes of success criteria
          Days,           \* possible cutoffs
          Requests,       \* what a caller may ask the gate for
          FirstCard,      \* the card every element of Cards starts as
          MaxTrials,      \* bound on the ledger
          MaxAmendments,  \* bound on the amendments of a card
          MaxEdits        \* bound on hand edits

CardFiles == [status : Closed \cup {Open}, cutoff : Nat, contaminated : BOOLEAN,
              criteria : Hashes, registered : Hashes, amended : Seq(Hashes)]

\* A new card records the criteria it states; a request may hold anything but a typed day.
ASSUME SerialAssumption ==
    /\ Cards \subseteq Nat \ {NoCard}
    /\ Days \subseteq Nat
    /\ FirstCard \in CardFiles
    /\ FirstCard.amended = <<>>
    /\ FirstCard.registered = FirstCard.criteria
    /\ \A req \in Requests : {req.start, req.end, req.split} \subseteq Nat \cup {NoDay, BadDay}
    /\ {MaxTrials, MaxAmendments, MaxEdits} \subseteq Nat

VARIABLES cards,    \* card id -> card file
          trials,   \* the ledger
          edits     \* hand edits so far

vars == <<cards, trials, edits>>

Init == /\ cards = [c \in Cards |-> FirstCard]
        /\ trials = <<>>
        /\ edits = 0

\* A gated evaluation, recorded with its outcome.
Evaluate(req, status) ==
    LET card == cards[req.card] IN
    /\ Len(trials) < MaxTrials
    /\ Denials(req.card \in Cards, card, req, trials) = {}
    /\ trials' = Append(trials,
                    [strategy |-> req.card,
                     kind     |-> KindOf(req),
                     status   |-> status,
                     fp       |-> Fingerprint(card, req),
                     criteria |-> card.criteria,
                     cutoff   |-> card.cutoff,
                     reason   |-> req.reason])
    /\ UNCHANGED <<cards, edits>>

\* commands.py amend_criteria.
Amend(c, hash) ==
    /\ cards[c].status = Open
    /\ Len(cards[c].amended) < MaxAmendments
    /\ ~CriteriaChanged(cards[c], TrialsOf(c, trials))
    /\ hash # cards[c].criteria
    /\ cards' = [cards EXCEPT ![c].criteria = hash, ![c].amended = Append(@, hash)]
    /\ UNCHANGED <<trials, edits>>

\* A card file changed in an editor; its amendments are left to git's history.
HandEdit(c) ==
    /\ edits < MaxEdits
    /\ edits' = edits + 1
    /\ \/ \E day \in Days : cards' = [cards EXCEPT ![c].cutoff = day]
       \/ \E hash \in Hashes : cards' = [cards EXCEPT ![c].criteria = hash]
       \/ \E hash \in Hashes :
             cards' = [cards EXCEPT ![c].criteria = hash, ![c].registered = hash]
       \/ cards' = [cards EXCEPT ![c].contaminated = TRUE]
    /\ UNCHANGED trials

Next == \/ \E req \in Requests, status \in {"ok", "failed"} : Evaluate(req, status)
        \/ \E c \in Cards, hash \in Hashes : Amend(c, hash)
        \/ \E c \in Cards : HandEdit(c)

Spec == Init /\ [][Next]_vars

-----------------------------------------------------------------------------
Fingerprints ==
    [variant : {req.variant : req \in Requests} \ {Unhashable},
     start : Nat \cup {NoDay}, end : Nat \cup {NoDay}, split : Nat \cup {NoDay}]

Trials == [strategy : Cards, kind : {Iteration, Holdout}, status : {"ok", "failed"},
           fp : Fingerprints, criteria : Hashes, cutoff : Nat,
           reason : {req.reason : req \in Requests}]

TypeOK ==
    /\ cards \in [Cards -> CardFiles]
    /\ \A c \in Cards : Len(cards[c].amended) <= MaxAmendments
    /\ trials \in Seq(Trials)
    /\ Len(trials) <= MaxTrials
    /\ edits \in 0 .. MaxEdits

\* Goal 6 of the register: no iteration of a card saw a day that a holdout look
\* of the card evaluated, whichever of the two ran first and whatever was edited
\* in the card between them.
HoldoutUnseenByIterations ==
    \A i, j \in DOMAIN trials :
        /\ trials[i].strategy = trials[j].strategy
        /\ trials[i].kind = Iteration
        /\ trials[j].kind = Holdout
        => /\ trials[i].fp.end # NoDay
           /\ trials[i].fp.end <= trials[j].fp.split
           /\ trials[j].fp.start < trials[j].fp.split
           /\ trials[j].fp.end # NoDay => trials[j].fp.split < trials[j].fp.end

\* Goal 3: a configuration that was evaluated is not evaluated again, by any
\* card, unless a reason says why.
NeverRerunByAccident ==
    \A i, j \in DOMAIN trials :
        i < j /\ trials[i].fp = trials[j].fp /\ trials[i].status = "ok" => trials[j].reason

\* Goal 1, pre-registration: trials of a card that ran under different criteria
\* imply that the card records an amendment, also when the criteria and their
\* registration hash are both edited by hand.
CriteriaChangesAreAmended ==
    \A i, j \in DOMAIN trials :
        /\ trials[i].strategy = trials[j].strategy
        /\ trials[i].criteria # trials[j].criteria
        => cards[trials[i].strategy].amended # <<>>
=============================================================================
