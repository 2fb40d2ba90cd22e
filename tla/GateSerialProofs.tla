-------------------------- MODULE GateSerialProofs --------------------------
(***************************************************************************)
(* Theorems about GateSerial: what the gate promises for every ledger,     *)
(* every sequence of requests, amendments and hand edits of cards.         *)
(***************************************************************************)
EXTENDS GateSerial, TLAPS

\* Trials of one card ran under one cutoff.
OneCutoff ==
    \A i, j \in DOMAIN trials :
        trials[i].strategy = trials[j].strategy => trials[i].cutoff = trials[j].cutoff

\* A trial's window ends on, or a look's begins before and ends after, its cutoff.
Windows ==
    \A i \in DOMAIN trials :
        /\ trials[i].kind = Iteration =>
              trials[i].fp.end # NoDay /\ trials[i].fp.end <= trials[i].cutoff
        /\ trials[i].kind = Holdout =>
              /\ trials[i].fp.split = trials[i].cutoff
              /\ trials[i].fp.start < trials[i].fp.split
              /\ trials[i].fp.end # NoDay => trials[i].fp.split < trials[i].fp.end

\* Without an amendment all trials of a card ran under the same criteria.
Preregistered ==
    \A i, j \in DOMAIN trials :
        /\ trials[i].strategy = trials[j].strategy
        /\ cards[trials[i].strategy].amended = <<>>
        => trials[i].criteria = trials[j].criteria

IInv == TypeOK /\ OneCutoff /\ Windows /\ Preregistered /\ NeverRerunByAccident

-----------------------------------------------------------------------------

\* What an accepted request has passed.
LEMMA Accepted ==
  ASSUME NEW found, NEW card, NEW req, NEW T, Denials(found, card, req, T) = {}
  PROVE  /\ req.card # NoCard
         /\ found
         /\ ~CriteriaChanged(card, TrialsOf(req.card, T))
         /\ ~CutoffMoved(card, TrialsOf(req.card, T))
         /\ req.split = NoDay
         /\ WindowDenials(card, req) = {}
         /\ req.variant # Unhashable
         /\ req.reason \/ DuplicateDenials(Fingerprint(card, req), T) = {}
  <1>1. req.card # NoCard /\ found
    BY DEF Denials
  <1> DEFINE own == TrialsOf(req.card, T)
  <1>2. /\ CodeIf(CriteriaChanged(card, own), "criteria_changed") = {}
        /\ CodeIf(CutoffMoved(card, own), "cutoff_moved") = {}
        /\ CodeIf(req.split # NoDay, "invalid_config") = {}
        /\ WindowDenials(card, req) = {}
        /\ (IF req.variant = Unhashable
            THEN {"invalid_config"}
            ELSE IF req.reason THEN {}
                 ELSE DuplicateDenials(Fingerprint(card, req), T)) = {}
    BY <1>1 DEF Denials
  <1> QED
    BY <1>1, <1>2 DEF CodeIf

\* An accepted window lies on its side of the cutoff.
LEMMA AcceptedWindow ==
  ASSUME NEW card, card.cutoff \in Nat, NEW req,
         {req.start, req.end} \subseteq Nat \cup {NoDay, BadDay},
         WindowDenials(card, req) = {}
  PROVE  LET fp == Fingerprint(card, req) IN
         /\ fp.start \in Nat \cup {NoDay} /\ fp.end \in Nat \cup {NoDay}
         /\ ~req.holdout => fp.end # NoDay /\ fp.end <= card.cutoff
         /\ req.holdout => /\ fp.split = card.cutoff
                           /\ fp.start < fp.split
                           /\ fp.end # NoDay => fp.split < fp.end
  <1>1. req.start # BadDay /\ req.end # BadDay
    BY DEF WindowDenials
  <1>2. EffectiveEnd(card, req) \in Nat \cup {NoDay}
    BY <1>1 DEF EffectiveEnd, NoDay, BadDay
  <1>3. CASE ~req.holdout
    <2>1. EffectiveEnd(card, req) # NoDay /\ ~(EffectiveEnd(card, req) > card.cutoff)
      BY <1>1, <1>3 DEF EffectiveEnd, WindowDenials, NoDay
    <2> QED
      BY <1>1, <1>2, <1>3, <2>1 DEF Fingerprint, NoDay, BadDay
  <1>4. CASE req.holdout
    <2>1. /\ ~(req.start # NoDay /\ req.start >= card.cutoff)
          /\ EffectiveEnd(card, req) # NoDay => ~(EffectiveEnd(card, req) <= card.cutoff)
      BY <1>1, <1>4 DEF WindowDenials
    <2> QED
      BY <1>1, <1>2, <1>4, <2>1 DEF Fingerprint, NoDay, BadDay
  <1> QED
    BY <1>3, <1>4

-----------------------------------------------------------------------------

\* An accepted evaluation appends a trial of the right type that fits those before it.
LEMMA EvaluateStep ==
  ASSUME IInv, NEW req \in Requests, NEW status \in {"ok", "failed"}, Evaluate(req, status)
  PROVE  IInv'
  <1> DEFINE c == req.card
             card == cards[c]
             own == TrialsOf(c, trials)
             n == Len(trials) + 1
             t == [strategy |-> c, kind |-> KindOf(req), status |-> status,
                   fp |-> Fingerprint(card, req), criteria |-> card.criteria,
                   cutoff |-> card.cutoff, reason |-> req.reason]
  <1>1. /\ c \in Cards
        /\ ~CriteriaChanged(card, own)
        /\ ~CutoffMoved(card, own)
        /\ req.split = NoDay
        /\ WindowDenials(card, req) = {}
        /\ req.variant # Unhashable
        /\ req.reason \/ DuplicateDenials(Fingerprint(card, req), trials) = {}
    <2>1. Denials(c \in Cards, card, req, trials) = {}
      BY DEF Evaluate
    <2> HIDE DEF card
    <2> QED
      BY <2>1, Accepted
  <1>2. card \in CardFiles /\ trials \in Seq(Trials)
    BY <1>1 DEF IInv, TypeOK
  <1>3. {req.start, req.end, req.split} \subseteq Nat \cup {NoDay, BadDay}
    BY SerialAssumption
  <1>4. LET fp == Fingerprint(card, req) IN
        /\ fp.start \in Nat \cup {NoDay} /\ fp.end \in Nat \cup {NoDay}
        /\ ~req.holdout => fp.end # NoDay /\ fp.end <= card.cutoff
        /\ req.holdout => /\ fp.split = card.cutoff
                          /\ fp.start < fp.split
                          /\ fp.end # NoDay => fp.split < fp.end
    <2>1. card.cutoff \in Nat
      BY <1>2 DEF CardFiles
    <2> HIDE DEF card
    <2> QED
      BY <1>1, <1>3, <2>1, AcceptedWindow
  <1>5. t \in Trials
    <2>1. Fingerprint(card, req) \in Fingerprints
      BY <1>1, <1>2, <1>4 DEF Fingerprint, Fingerprints, CardFiles
    <2> QED
      BY <1>1, <1>2, <2>1 DEF Trials, CardFiles, KindOf
  <1>6. /\ trials' \in Seq(Trials)
        /\ DOMAIN trials' = DOMAIN trials \cup {n}
        /\ n \notin DOMAIN trials /\ \A i \in DOMAIN trials : i < n
        /\ trials'[n] = t
        /\ \A i \in DOMAIN trials : trials'[i] = trials[i]
        /\ UNCHANGED <<cards, edits>>
        /\ Len(trials') <= MaxTrials
    BY <1>2, <1>5, SerialAssumption DEF Evaluate
  <1>7. TypeOK'
    BY <1>6 DEF IInv, TypeOK
  <1>8. \A i \in DOMAIN trials : trials[i].strategy = c =>
           /\ i \in DOMAIN own /\ own[i] = trials[i]
           /\ trials[i].cutoff = card.cutoff
    <2> SUFFICES ASSUME NEW i \in DOMAIN trials, trials[i].strategy = c
                 PROVE  i \in DOMAIN own /\ own[i] = trials[i] /\ trials[i].cutoff = card.cutoff
      OBVIOUS
    <2>1. i \in DOMAIN own /\ own[i] = trials[i]
      BY DEF TrialsOf, Restrict
    <2> QED
      BY <1>1, <2>1 DEF CutoffMoved
  <1>9. /\ t.strategy = c /\ t.cutoff = card.cutoff /\ t.criteria = card.criteria
        /\ t.fp = Fingerprint(card, req) /\ t.reason = req.reason /\ t.kind = KindOf(req)
    OBVIOUS
  <1>10. card.amended = <<>> =>
            \A i \in DOMAIN trials : trials[i].strategy = c => trials[i].criteria = card.criteria
    <2> SUFFICES ASSUME card.amended = <<>>, NEW i \in DOMAIN trials, trials[i].strategy = c
                 PROVE  trials[i].criteria = card.criteria
      OBVIOUS
    <2>1. card.criteria = card.registered
      BY <1>1 DEF CriteriaChanged, ExpectedCriteria
    <2>2. trials[i].criteria \in RecordedCriteria(card)
      BY <1>1, <1>8 DEF CriteriaChanged
    <2>3. RecordedCriteria(card) = {card.registered}
      BY DEF RecordedCriteria
    <2> QED
      BY <2>1, <2>2, <2>3
  <1>11. ~req.reason =>
            \A i \in DOMAIN trials : ~(trials[i].fp = Fingerprint(card, req) /\ trials[i].status = "ok")
    BY <1>1 DEF DuplicateDenials
  <1> HIDE DEF t, n, own, card, c
  <1>12. OneCutoff'
    BY <1>6, <1>8, <1>9 DEF IInv, OneCutoff
  <1>13. Windows'
    BY <1>4, <1>6, <1>9 DEF IInv, Windows, KindOf, Iteration, Holdout
  <1>14. Preregistered'
    BY <1>6, <1>9, <1>10 DEF IInv, Preregistered, card
  <1>15. NeverRerunByAccident'
    <2> SUFFICES ASSUME NEW i \in DOMAIN trials', NEW j \in DOMAIN trials', i < j,
                        trials'[i].fp = trials'[j].fp, trials'[i].status = "ok"
                 PROVE  trials'[j].reason
      BY DEF NeverRerunByAccident
    <2>1. i \in DOMAIN trials
      <3>1. DOMAIN trials \subseteq Nat /\ n \in Nat
        BY <1>2 DEF n
      <3> QED
        BY <1>6, <3>1
    <2>2. CASE j \in DOMAIN trials
      BY <1>6, <2>1, <2>2 DEF IInv, NeverRerunByAccident
    <2>3. CASE j = n
      BY <1>6, <1>9, <1>11, <2>1, <2>3
    <2> QED
      BY <1>6, <2>2, <2>3
  <1> QED
    BY <1>7, <1>12, <1>13, <1>14, <1>15 DEF IInv

\* Cards change, the ledger does not: only a card without amendments may lose its promise.
LEMMA CardStep ==
  ASSUME IInv, UNCHANGED trials, TypeOK',
         \A c \in Cards : cards'[c].amended = <<>> => cards[c].amended = <<>>
  PROVE  IInv'
  <1>1. \A i \in DOMAIN trials : trials[i].strategy \in Cards
    <2>1. \A i \in DOMAIN trials : trials[i] \in Trials
      BY DEF IInv, TypeOK
    <2> QED
      BY <2>1 DEF Trials
  <1> QED
    BY <1>1 DEF IInv, OneCutoff, Windows, Preregistered, NeverRerunByAccident

\* An amendment is recorded on the card.
LEMMA AmendStep ==
  ASSUME IInv, NEW c \in Cards, NEW hash \in Hashes, Amend(c, hash)
  PROVE  IInv'
  <1>1. cards[c] \in CardFiles /\ Len(cards[c].amended) < MaxAmendments
    BY DEF IInv, TypeOK, Amend
  <1> DEFINE new == [cards[c] EXCEPT !.criteria = hash, !.amended = Append(@, hash)]
  <1>2. cards' = [cards EXCEPT ![c] = new]
    BY <1>1 DEF Amend, IInv, TypeOK, CardFiles
  <1>3. /\ new \in CardFiles /\ new.amended # <<>> /\ Len(new.amended) <= MaxAmendments
    <2>1. new.amended = Append(cards[c].amended, hash) /\ cards[c].amended \in Seq(Hashes)
      BY <1>1 DEF CardFiles
    <2>2. /\ new.amended \in Seq(Hashes) /\ new.amended # <<>>
          /\ Len(new.amended) = Len(cards[c].amended) + 1
      BY <2>1
    <2>3. Len(new.amended) <= MaxAmendments
      BY <1>1, <2>1, <2>2, SerialAssumption
    <2>4. new \in CardFiles
      BY <1>1, <2>1, <2>2 DEF CardFiles
    <2> QED
      BY <2>2, <2>3, <2>4
  <1> HIDE DEF new
  <1>4. TypeOK'
    BY <1>2, <1>3 DEF IInv, TypeOK, Amend
  <1> QED
    BY <1>2, <1>3, <1>4, CardStep DEF Amend, IInv, TypeOK

\* An edit leaves the amendments of the card.
LEMMA HandEditStep ==
  ASSUME IInv, NEW c \in Cards, HandEdit(c)
  PROVE  IInv'
  <1>1. cards[c] \in CardFiles /\ cards \in [Cards -> CardFiles]
    BY DEF IInv, TypeOK
  <1>2. PICK new \in CardFiles : cards' = [cards EXCEPT ![c] = new] /\ new.amended = cards[c].amended
    <2>1. ASSUME NEW day \in Days, cards' = [cards EXCEPT ![c].cutoff = day]
          PROVE  \E new \in CardFiles : cards' = [cards EXCEPT ![c] = new]
                                        /\ new.amended = cards[c].amended
      <3>1. [cards[c] EXCEPT !.cutoff = day] \in CardFiles
        BY <1>1, SerialAssumption DEF CardFiles
      <3> QED
        BY <1>1, <2>1, <3>1 DEF CardFiles
    <2>2. ASSUME NEW hash \in Hashes, cards' = [cards EXCEPT ![c].criteria = hash]
          PROVE  \E new \in CardFiles : cards' = [cards EXCEPT ![c] = new]
                                        /\ new.amended = cards[c].amended
      <3>1. [cards[c] EXCEPT !.criteria = hash] \in CardFiles
        BY <1>1 DEF CardFiles
      <3> QED
        BY <1>1, <2>2, <3>1 DEF CardFiles
    <2>3. ASSUME NEW hash \in Hashes,
                 cards' = [cards EXCEPT ![c].criteria = hash, ![c].registered = hash]
          PROVE  \E new \in CardFiles : cards' = [cards EXCEPT ![c] = new]
                                        /\ new.amended = cards[c].amended
      <3>1. [cards[c] EXCEPT !.criteria = hash, !.registered = hash] \in CardFiles
        BY <1>1 DEF CardFiles
      <3> QED
        BY <1>1, <2>3, <3>1 DEF CardFiles
    <2>4. ASSUME cards' = [cards EXCEPT ![c].contaminated = TRUE]
          PROVE  \E new \in CardFiles : cards' = [cards EXCEPT ![c] = new]
                                        /\ new.amended = cards[c].amended
      <3>1. [cards[c] EXCEPT !.contaminated = TRUE] \in CardFiles
        BY <1>1 DEF CardFiles
      <3> QED
        BY <1>1, <2>4, <3>1 DEF CardFiles
    <2> QED
      BY <2>1, <2>2, <2>3, <2>4 DEF HandEdit
  <1>3. \A d \in Cards : cards'[d].amended = cards[d].amended
    BY <1>1, <1>2
  <1>4. edits' \in 0 .. MaxEdits
    BY SerialAssumption DEF HandEdit, IInv, TypeOK
  <1>5. TypeOK'
    BY <1>1, <1>2, <1>3, <1>4 DEF IInv, TypeOK, HandEdit
  <1> QED
    BY <1>3, <1>5, CardStep DEF HandEdit

\* The invariant is inductive.
LEMMA InvStep == IInv /\ [Next]_vars => IInv'
  <1> SUFFICES ASSUME IInv, [Next]_vars PROVE IInv'
    OBVIOUS
  <1>1. CASE UNCHANGED vars
    <2>1. TypeOK'
      BY <1>1 DEF IInv, TypeOK, vars
    <2> QED
      BY <1>1, <2>1, CardStep DEF vars
  <1> QED
    BY <1>1, EvaluateStep, AmendStep, HandEditStep DEF Next

\* At first there is no trial.
LEMMA InvInit == Init => IInv
  <1> SUFFICES ASSUME Init PROVE IInv
    OBVIOUS
  <1>1. TypeOK
    BY SerialAssumption DEF Init, TypeOK
  <1>2. DOMAIN trials = {}
    BY DEF Init
  <1> QED
    BY <1>1, <1>2 DEF IInv, OneCutoff, Windows, Preregistered, NeverRerunByAccident

\* The inductive invariant holds throughout.
LEMMA Invariant == Spec => []IInv
  BY InvInit, InvStep, PTL DEF Spec

\* TypeOK: cards, ledger and edits keep their types.
THEOREM TypeSafety == Spec => []TypeOK
  <1>1. IInv => TypeOK
    BY DEF IInv
  <1> QED
    BY <1>1, Invariant, PTL

\* HoldoutUnseenByIterations: no iteration saw a day a holdout look of its card evaluated.
THEOREM HoldoutSafety == Spec => []HoldoutUnseenByIterations
  <1>1. IInv => HoldoutUnseenByIterations
    BY DEF IInv, OneCutoff, Windows, HoldoutUnseenByIterations
  <1> QED
    BY <1>1, Invariant, PTL

\* NeverRerunByAccident: an evaluated configuration runs again only with a reason.
THEOREM RerunSafety == Spec => []NeverRerunByAccident
  <1>1. IInv => NeverRerunByAccident
    BY DEF IInv
  <1> QED
    BY <1>1, Invariant, PTL

\* CriteriaChangesAreAmended: trials under different criteria have a recorded amendment.
THEOREM CriteriaSafety == Spec => []CriteriaChangesAreAmended
  <1>1. IInv => CriteriaChangesAreAmended
    BY DEF IInv, Preregistered, CriteriaChangesAreAmended
  <1> QED
    BY <1>1, Invariant, PTL
=============================================================================
