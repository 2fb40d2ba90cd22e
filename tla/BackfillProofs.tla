--------------------------- MODULE BackfillProofs ---------------------------
(***************************************************************************)
(* Theorems about Backfill, for any runs, studies, cards, mappings and     *)
(* appliers, and any failures: the holdout of a card starts after all that *)
(* was evaluated for it, what the ledger names has its file, on disk and   *)
(* in every commit, and a backfill writes the ledger as the abstract trial *)
(* register does.                                                          *)
(*                                                                         *)
(* The argument is about the holder of the lock.  What it has still to     *)
(* write was right when it checked the mapping for the second time, and    *)
(* nobody else writes cards, configurations or trials until it is done, or *)
(* dead (WritesInv); so that what is written stays right (LedgerInv).      *)
(***************************************************************************)
EXTENDS Backfill, WellFoundedInduction, TLAPS

-----------------------------------------------------------------------------
(* Numbers. *)

\* A set of natural numbers has a least one.
LEMMA LeastNumber ==
  ASSUME NEW T \in SUBSET Nat, T # {}
  PROVE  \E x \in T : \A y \in T : x <= y
  <1> DEFINE R == OpToRel(<, Nat)
  <1>1. \A x, y \in Nat : y < x => <<y, x>> \in R
    BY DEF OpToRel
  <1>2. IsWellFoundedOn(R, Nat)
    BY NatLessThanWellFounded
  <1> HIDE DEF R
  <1>3. PICK x \in T : \A y \in T : ~(<<y, x>> \in R)
    BY <1>2, WFMin
  <1>4. ASSUME NEW y \in T PROVE x <= y
    <2>1. x \in Nat /\ y \in Nat
      OBVIOUS
    <2>2. ~(y < x)
      BY <1>1, <1>3, <2>1
    <2> QED
      BY <2>1, <2>2
  <1> QED
    BY <1>4

\* A bounded one has a greatest.
LEMMA GreatestNumber ==
  ASSUME NEW D \in SUBSET Nat, D # {}, NEW b \in Nat, \A x \in D : x <= b
  PROVE  Max(D) \in D /\ \A x \in D : x <= Max(D)
  <1>1. PICK k \in {n \in Nat : \A x \in D : x <= n} :
           \A l \in {n \in Nat : \A x \in D : x <= n} : k <= l
    BY LeastNumber
  <1>2. k \in D
    <2> SUFFICES ASSUME k \notin D PROVE FALSE
      OBVIOUS
    <2>1. \A x \in D : x < k
      BY <1>1
    <2>2. k # 0
      <3>1. PICK x \in D : TRUE
        OBVIOUS
      <3>2. x \in Nat /\ x < k
        BY <2>1
      <3> QED
        BY <3>2
    <2>3. k - 1 \in Nat /\ \A x \in D : x <= k - 1
      BY <2>1, <2>2
    <2> QED
      BY <1>1, <2>3
  <1>3. \E x \in D : \A y \in D : x >= y
    BY <1>1, <1>2
  <1> QED
    BY <1>3 DEF Max

\* A card's cutoff is the day after the last of what is planned for it.
LEMMA CutoffIsLater ==
  ASSUME NEW m \in Mappings, NEW c \in Planned(m), \A x \in m.plan[c] : Day[x] <= Today
  PROVE  /\ Cutoff(m, c) \in Nat
         /\ \A x \in m.plan[c] : Day[x] < Cutoff(m, c)
  <1> DEFINE days == {Day[x] : x \in m.plan[c]}
  <1>1. m.plan[c] \subseteq Runs \cup Studies /\ m.plan[c] # {} /\ Today \in Nat
    BY BackfillAssumption DEF Planned
  <1>2. \A x \in m.plan[c] : Day[x] \in Nat
    BY <1>1, BackfillAssumption
  <1>3. days \in SUBSET Nat /\ days # {} /\ \A n \in days : n <= Today
    BY <1>1, <1>2
  <1>4. Max(days) \in days /\ \A n \in days : n <= Max(days)
    <2> HIDE DEF days
    <2> QED
      BY <1>1, <1>3, GreatestNumber
  <1>5. Max(days) \in Nat
    BY <1>3, <1>4
  <1>6. Cutoff(m, c) = 1 + Max(days)
    BY DEF Cutoff
  <1> HIDE DEF days
  <1>7. \A x \in m.plan[c] : Day[x] \in days
    BY DEF days
  <1> QED
    BY <1>2, <1>4, <1>5, <1>6, <1>7

-----------------------------------------------------------------------------
(* Types. *)

Criteria == {m.criteria[c] : m \in Mappings, c \in Cards} \cup {"none"}
Texts    == {m.text[c] : m \in Mappings, c \in Cards} \cup {"none", Edited}

CardFile == [file : {"absent", "broken", "written"}, cutoff : Nat, criteria : Criteria,
             text : Texts]

Entry == [of : Runs \cup Studies, kind : {"gated", "backfill"}, card : Cards \cup {0},
          criteria : Criteria, cutoff : Nat]

Steps == {"idle", "read", "check", "wait", "prepare", "write"}

TypeInv ==
    /\ dirs \subseteq Runs /\ markers \subseteq Gated
    /\ ledger \in Seq(Entry)
    /\ cards \in [Cards -> CardFile]
    /\ lock \in Appliers \cup {NoOne}
    /\ pc \in [Appliers -> Steps]
    /\ job \in [Appliers -> [map : Mappings \cup {NoOne}, runs : SUBSET Runs,
                             known : SUBSET Runs]]
    /\ todo \in [cards : SUBSET Cards, configs : SUBSET {ConfigOf[r] : r \in Runs},
                 trials : SUBSET Entry]

(***************************************************************************)
(* Who holds the lock, and what an applier that started is applying.       *)
(***************************************************************************)
LockInv ==
    /\ \A p \in Appliers : pc[p] \in {"prepare", "write"} <=> lock = p
    /\ \A p \in Appliers : pc[p] # "idle" => job[p].map \in Mappings
    /\ (\A p \in Appliers : pc[p] # "write") => todo = Nothing

(***************************************************************************)
(* A gated run has a directory from its admission on, and is then pending  *)
(* or on record.                                                           *)
(***************************************************************************)
DirsInv ==
    /\ dirs \cap Gated = markers \cup GatedOnRecord
    /\ \A p \in Appliers : job[p].runs \subseteq dirs

(***************************************************************************)
(* What is on record, given the files written.                             *)
(***************************************************************************)
Stands(t, someCards, someConfigs) ==
    /\ someCards[t.card].file = "written"
    /\ t.of \in Runs => ConfigOf[t.of] \in someConfigs \cup {NoConfig}

LedgerInv ==
    \A i \in DOMAIN ledger :
        LET t == ledger[i] IN
        \/ t.kind = "gated" /\ t.of \in Gated
        \/ /\ t.kind = "backfill" /\ t.of \in Items /\ t.card \in Cards
           /\ Day[t.of] < t.cutoff /\ t.cutoff = cards[t.card].cutoff
           /\ Stands(t, cards, configs)

CommitInv ==
    \A t \in Range(head.ledger) : t.kind = "backfill" => Stands(t, head.cards, head.configs)

(***************************************************************************)
(* What the holder of the lock has still to write.                         *)
(***************************************************************************)
Logged == {IdOf(ledger[i]) : i \in DOMAIN ledger}

Right(t, m) ==
    /\ t.kind = "backfill" /\ t.card \in Planned(m) /\ t.of \in m.plan[t.card] \cap Items
    /\ Day[t.of] < t.cutoff /\ t.cutoff = Cutoff(m, t.card)
    /\ \/ t.card \in todo.cards
       \/ cards[t.card].file = "written" /\ cards[t.card].cutoff = t.cutoff
    /\ t.of \in Runs => ConfigOf[t.of] \in todo.configs \cup configs \cup {NoConfig}

WritesInv ==
    \A p \in Appliers : pc[p] = "write" =>
        /\ \A c \in todo.cards :
              /\ cards[c].file = "absent" /\ Cutoff(job[p].map, c) \in Nat
        /\ \A t \in todo.trials : Right(t, job[p].map) /\ IdOf(t) \notin Logged
        /\ \A t, u \in todo.trials : IdOf(t) = IdOf(u) => t = u

Inv == TypeInv /\ LockInv /\ DirsInv /\ LedgerInv /\ WritesInv

-----------------------------------------------------------------------------
(* Facts about the definitions. *)

\* A mapping plans runs and studies for cards, and no card of it reads as edited.
LEMMA MappingTypes ==
  ASSUME NEW m \in Mappings
  PROVE  m.plan \in [Cards -> SUBSET (Runs \cup Studies)]
  BY BackfillAssumption

\* Trials are the lines of the ledger.
LEMMA TrialsAre ==
  ASSUME TypeInv
  PROVE  /\ \A i \in DOMAIN ledger : ledger[i] \in Entry /\ ledger[i] \in Trials
         /\ \A t \in Trials : \E i \in DOMAIN ledger : t = ledger[i]
  BY DEF TypeInv, Trials, Range

\* Another line: the lines before it stay.
LEMMA Appended ==
  ASSUME TypeInv, NEW t \in Entry, ledger' = Append(ledger, t)
  PROVE  /\ ledger' \in Seq(Entry)
         /\ DOMAIN ledger' = DOMAIN ledger \cup {Len(ledger) + 1}
         /\ Len(ledger) + 1 \notin DOMAIN ledger
         /\ \A i \in DOMAIN ledger : ledger'[i] = ledger[i]
         /\ ledger'[Len(ledger) + 1] = t
         /\ Trials' = Trials \cup {t}
  <1>1. /\ ledger' \in Seq(Entry)
        /\ DOMAIN ledger' = 1..Len(ledger) + 1 /\ DOMAIN ledger = 1..Len(ledger)
        /\ Len(ledger) \in Nat
        /\ \A i \in DOMAIN ledger : ledger'[i] = ledger[i]
        /\ ledger'[Len(ledger) + 1] = t
    BY DEF TypeInv
  <1>2. 1..Len(ledger) + 1 = 1..Len(ledger) \cup {Len(ledger) + 1}
    BY <1>1
  <1>3. Trials' = Trials \cup {t}
    BY <1>1, <1>2 DEF Trials, Range
  <1> QED
    BY <1>1, <1>2, <1>3

\* A line adds its run id, and its run if it is of a gated one.
LEMMA AppendedIds ==
  ASSUME TypeInv, NEW t \in Entry, ledger' = Append(ledger, t)
  PROVE  /\ Logged' = Logged \cup {IdOf(t)}
         /\ GatedOnRecord' = GatedOnRecord \cup (IF t.kind = "gated" THEN {t.of} ELSE {})
  <1>1. Logged' = {IdOf(ledger'[i]) : i \in DOMAIN ledger'}
    BY DEF Logged, IdOf
  <1>2. Logged' = Logged \cup {IdOf(t)}
    BY <1>1, Appended DEF Logged
  <1>3. Trials' = Trials \cup {t}
    BY Appended
  <1>4. GatedOnRecord' = {u.of : u \in {u \in Trials' : u.kind = "gated"}}
    BY DEF GatedOnRecord
  <1> QED
    BY <1>2, <1>3, <1>4 DEF GatedOnRecord

\* The trial of a gated run is an entry, and is of that run.
LEMMA GatedEntry ==
  ASSUME NEW r \in Gated
  PROVE  /\ GatedTrial(r) \in Entry /\ IdOf(GatedTrial(r)) = r
         /\ GatedTrial(r).kind = "gated" /\ GatedTrial(r).of = r
  BY BackfillAssumption DEF GatedTrial, Entry, IdOf, Criteria, Runs

\* Runs with a gated trial are gated.
LEMMA GatedAre ==
  ASSUME TypeInv, LedgerInv
  PROVE  GatedOnRecord \subseteq Gated
  BY TrialsAre DEF LedgerInv, GatedOnRecord

\* Only the holder of the lock writes, and nobody has the lock otherwise.
LEMMA HolderAlone ==
  ASSUME LockInv, TypeInv, NEW p \in Appliers
  PROVE  /\ pc[p] \in {"prepare", "write"} =>
               lock = p /\ \A q \in Appliers \ {p} : pc[q] \notin {"prepare", "write"}
         /\ lock = NoOne => pc[p] \notin {"prepare", "write"}
         /\ pc[p] \notin {"prepare", "write"} => lock # p
  BY BackfillAssumption DEF LockInv, TypeInv

-----------------------------------------------------------------------------
(* Types. *)

\* A new card and the trials of a checked mapping have their types.
LEMMA NewCardType ==
  ASSUME NEW m \in Mappings, NEW c \in Cards, Cutoff(m, c) \in Nat
  PROVE  NewCard(m, c) \in CardFile
  BY DEF NewCard, CardFile, Criteria, Texts

\* What Writes plans has its type.
LEMMA WritesType ==
  ASSUME TypeInv, NEW m \in Mappings, NEW runs, NEW known, Prepared(m, runs, known)
  PROVE  /\ Writes(m) \in [cards : SUBSET Cards, configs : SUBSET {ConfigOf[r] : r \in Runs},
                           trials : SUBSET Entry]
         /\ \A c \in Planned(m) : Cutoff(m, c) \in Nat
  <1>1. \A c \in Planned(m) : c \in Cards /\ m.plan[c] \subseteq Runs \cup Studies
    BY MappingTypes DEF Planned
  <1>2. \A c \in Planned(m) : Cutoff(m, c) \in Nat
    BY CutoffIsLater DEF Prepared, Fits
  <1>3. \A c \in Planned(m) : CardFor(m, c) \in CardFile
    BY <1>1, <1>2, NewCardType DEF CardFor, TypeInv
  <1>4. \A c \in Planned(m) : \A x \in m.plan[c] : TrialOf(m, c, x) \in Entry
    <2> TAKE c \in Planned(m)
    <2> TAKE x \in m.plan[c]
    <2>1. CardFor(m, c).criteria \in Criteria /\ CardFor(m, c).cutoff \in Nat
      BY <1>3 DEF CardFile
    <2>2. x \in Runs \cup Studies /\ c \in Cards
      BY <1>1
    <2> QED
      BY <2>1, <2>2 DEF TrialOf, Entry
  <1>5. UNION {{TrialOf(m, c, x) : x \in {x \in m.plan[c] : ~Done(c, x)}} : c \in Planned(m)}
           \subseteq Entry
    BY <1>4
  <1>6. {c \in Planned(m) : cards[c].file = "absent"} \subseteq Cards
    BY <1>1
  <1>7. {ConfigOf[r] : r \in MappedRuns(m)} \ {NoConfig} \subseteq {ConfigOf[r] : r \in Runs}
    <2>1. MappedRuns(m) \subseteq Runs
      BY MappingTypes DEF Range, MappedRuns
    <2> QED
      BY <2>1
  <1> QED
    BY <1>2, <1>5, <1>6, <1>7 DEF Writes

\* Leaving keeps the types.
LEMMA LeaveType ==
  ASSUME TypeInv, NEW p \in Appliers, Leave(p)
  PROVE  /\ lock' \in Appliers \cup {NoOne}
         /\ pc' \in [Appliers -> Steps]
         /\ job' \in [Appliers -> [map : Mappings \cup {NoOne}, runs : SUBSET Runs,
                                   known : SUBSET Runs]]
         /\ todo' \in [cards : SUBSET Cards, configs : SUBSET {ConfigOf[r] : r \in Runs},
                       trials : SUBSET Entry]
  BY DEF TypeInv, Leave, Goto, NoJob, Nothing, Steps

\* Every step preserves the types.
LEMMA TypeStep == Inv /\ [Next]_vars => TypeInv'
  <1> SUFFICES ASSUME Inv, [Next]_vars PROVE TypeInv'
    OBVIOUS
  <1>a. TypeInv /\ LockInv /\ WritesInv /\ LedgerInv
    BY DEF Inv
  <1> USE DEF register, gate, process
  <1>1. ASSUME NEW p \in Appliers, NEW m \in Mappings, Scan(p, m) PROVE TypeInv'
    BY <1>1, <1>a DEF Scan, TypeInv, NoJob, Goto, Steps
  <1>2. ASSUME NEW p \in Appliers, ReadTrials(p) PROVE TypeInv'
    <2>1. GatedOnRecord \subseteq Runs
      BY <1>a, GatedAre DEF Runs
    <2>2. CASE torn
      BY <1>2, <2>2, <1>a, LeaveType DEF ReadTrials, TypeInv
    <2>3. CASE ~torn
      <3>1. /\ job' = [job EXCEPT ![p].known = GatedOnRecord]
            /\ pc' = [pc EXCEPT ![p] = "check"]
            /\ UNCHANGED <<dirs, markers, ledger, cards, lock, todo>>
        BY <1>2, <2>3 DEF ReadTrials, Goto
      <3>2. job'[p] \in [map : Mappings \cup {NoOne}, runs : SUBSET Runs, known : SUBSET Runs]
        BY <1>a, <2>1, <3>1 DEF TypeInv
      <3> QED
        BY <1>a, <3>1, <3>2 DEF TypeInv, Steps
    <2> QED
      BY <2>2, <2>3
  <1>3. ASSUME NEW p \in Appliers, Check(p) PROVE TypeInv'
    <2>1. CASE Prepared(job[p].map, job[p].runs, job[p].known)
      BY <1>3, <2>1, <1>a DEF Check, TypeInv, Goto, Steps
    <2>2. CASE ~Prepared(job[p].map, job[p].runs, job[p].known)
      BY <1>3, <2>2, <1>a, LeaveType DEF Check, TypeInv
    <2> QED
      BY <2>1, <2>2
  <1>4. ASSUME NEW p \in Appliers, Lock(p) PROVE TypeInv'
    BY <1>4, <1>a DEF Lock, TypeInv, Goto, Steps
  <1>5. ASSUME NEW p \in Appliers, Prepare(p) PROVE TypeInv'
    <2>1. CASE Prepared(job[p].map, job[p].runs, GatedOnRecord)
      <3>1. job[p].map \in Mappings
        BY <1>5, <1>a DEF Prepare, LockInv
      <3>2. todo' = Writes(job[p].map) /\ job' = [job EXCEPT ![p].runs = {}]
            /\ pc' = [pc EXCEPT ![p] = "write"] /\ UNCHANGED lock
        BY <1>5, <2>1 DEF Prepare, Goto
      <3> QED
        BY <1>5, <2>1, <3>1, <3>2, <1>a, WritesType DEF Prepare, TypeInv, Steps
    <2>2. CASE ~Prepared(job[p].map, job[p].runs, GatedOnRecord)
      BY <1>5, <2>2, <1>a, LeaveType DEF Prepare, TypeInv
    <2> QED
      BY <2>1, <2>2
  <1>6. ASSUME NEW p \in Appliers, WriteCard(p) PROVE TypeInv'
    <2>1. PICK c \in First(todo.cards) : /\ cards' = [cards EXCEPT ![c] = NewCard(job[p].map, c)]
                                         /\ todo' = [todo EXCEPT !.cards = @ \ {c}]
      BY <1>6 DEF WriteCard
    <2>2. c \in todo.cards /\ c \in Cards /\ job[p].map \in Mappings
      BY <1>6, <1>a DEF First, TypeInv, WriteCard, LockInv
    <2>3. NewCard(job[p].map, c) \in CardFile
      BY <1>6, <1>a, <2>2, NewCardType DEF WriteCard, WritesInv
    <2> QED
      BY <1>6, <1>a, <2>1, <2>2, <2>3 DEF WriteCard, TypeInv
  <1>7. ASSUME NEW p \in Appliers, StoreConfig(p) PROVE TypeInv'
    BY <1>7, <1>a DEF StoreConfig, TypeInv
  <1>8. ASSUME NEW p \in Appliers, AppendTrial(p) PROVE TypeInv'
    <2>1. PICK t \in NextTrials : ledger' = Append(ledger, t)
                                  /\ todo' = [todo EXCEPT !.trials = @ \ {t}]
      BY <1>8 DEF AppendTrial
    <2>2. t \in Entry
      BY <1>a DEF NextTrials, TypeInv
    <2> QED
      BY <1>8, <1>a, <2>1, <2>2, Appended DEF AppendTrial, TypeInv
  <1>9. ASSUME NEW p \in Appliers, Commit(p) PROVE TypeInv'
    BY <1>9, <1>a, LeaveType DEF Commit, TypeInv
  <1>10. ASSUME NEW p \in Appliers, Breaks(p) PROVE TypeInv'
    <2>1. BrokenFile \in CardFile
      BY DEF BrokenFile, NoFile, CardFile, Criteria, Texts
    <2>2. cards' \in [Cards -> CardFile]
      BY <1>10, <1>a, <2>1 DEF Breaks, TypeInv
    <2>3. ledger' \in Seq(Entry)
      BY <1>10, <1>a, Appended DEF Breaks, NextTrials, TypeInv
    <2> QED
      BY <1>10, <1>a, <2>2, <2>3, LeaveType DEF Breaks, TypeInv
  <1>11. ASSUME NEW r \in LegacyRuns, Appear(r) PROVE TypeInv'
    BY <1>11, <1>a DEF Appear, TypeInv, Runs
  <1>12. ASSUME NEW r \in Gated, Admit(r) PROVE TypeInv'
    BY <1>12, <1>a DEF Admit, TypeInv, Runs
  <1>13. ASSUME NEW r \in Gated, Record(r) PROVE TypeInv'
    <2>1. ledger' \in Seq(Entry)
      BY <1>13, <1>a, Appended, GatedEntry DEF Record, TypeInv
    <2> QED
      BY <1>13, <1>a, <2>1 DEF Record, TypeInv
  <1>14. ASSUME NEW r \in Gated, Tag(r) PROVE TypeInv'
    BY <1>14, <1>a DEF Tag, TypeInv
  <1>15. ASSUME NEW c \in Cards, EditCard(c) PROVE TypeInv'
    <2>1. cards[c] \in CardFile /\ Edited \in Texts
      BY <1>a DEF TypeInv, Texts
    <2>2. [cards[c] EXCEPT !.text = Edited] \in CardFile
      BY <2>1 DEF CardFile
    <2> QED
      BY <1>15, <1>a, <2>2 DEF EditCard, TypeInv
  <1>16. CASE RepairLedger
    BY <1>16, <1>a DEF RepairLedger, TypeInv
  <1>17. ASSUME NEW c \in Cards, RemoveBrokenCard(c) PROVE TypeInv'
    <2>1. NoFile \in CardFile
      BY DEF NoFile, CardFile, Criteria, Texts
    <2> QED
      BY <1>17, <1>a, <2>1 DEF RemoveBrokenCard, TypeInv
  <1>18. CASE UNCHANGED vars
    BY <1>18, <1>a DEF vars, TypeInv
  <1> QED
    BY <1>1, <1>2, <1>3, <1>4, <1>5, <1>6, <1>7, <1>8, <1>9, <1>10, <1>11, <1>12, <1>13,
       <1>14, <1>15, <1>16, <1>17, <1>18 DEF Next, Step, Repair

-----------------------------------------------------------------------------
(* The lock. *)

\* An applier that leaves gives back the lock if it has it.
LEMMA LeaveKeepsLock ==
  ASSUME TypeInv, LockInv, NEW p \in Appliers, Leave(p)
  PROVE  LockInv'
  <1>1. /\ pc' = [pc EXCEPT ![p] = "idle"] /\ job' = [job EXCEPT ![p] = NoJob]
        /\ lock' = IF lock = p THEN NoOne ELSE lock
        /\ todo' = IF lock = p THEN Nothing ELSE todo
    BY DEF Leave, Goto
  <1>2. \A q \in Appliers : pc'[q] \in {"prepare", "write"} <=> lock' = q
    BY <1>1, BackfillAssumption DEF TypeInv, LockInv
  <1>3. \A q \in Appliers : pc'[q] # "idle" => job'[q].map \in Mappings
    BY <1>1 DEF TypeInv, LockInv
  <1>4. ASSUME \A q \in Appliers : pc'[q] # "write" PROVE todo' = Nothing
    BY <1>1, <1>4, HolderAlone DEF TypeInv, LockInv
  <1> QED
    BY <1>2, <1>3, <1>4 DEF LockInv

\* Every step preserves the lock invariant.
LEMMA LockStep == Inv /\ [Next]_vars => LockInv'
  <1> SUFFICES ASSUME Inv, [Next]_vars PROVE LockInv'
    OBVIOUS
  <1>a. TypeInv /\ LockInv
    BY DEF Inv
  <1> USE DEF process
  <1>1. ASSUME NEW p \in Appliers, NEW m \in Mappings, Scan(p, m) PROVE LockInv'
    BY <1>1, <1>a DEF Scan, TypeInv, LockInv, NoJob, Goto
  <1>2. ASSUME NEW p \in Appliers, ReadTrials(p) \/ Check(p) PROVE LockInv'
    <2>1. CASE Leave(p)
      BY <2>1, <1>a, LeaveKeepsLock
    <2>2. CASE ~Leave(p)
      <3>1. /\ pc[p] \in {"read", "check"} /\ UNCHANGED <<lock, todo>>
            /\ \E known \in SUBSET Runs : job' = [job EXCEPT ![p].known = known]
            /\ \E step \in {"check", "wait"} : pc' = [pc EXCEPT ![p] = step]
        <4>1. CASE ReadTrials(p)
          BY <2>2, <4>1, <1>a, GatedAre DEF ReadTrials, Goto, Inv, Runs
        <4>2. CASE Check(p)
          BY <2>2, <4>2 DEF Check, Goto
        <4> QED
          BY <1>2, <4>1, <4>2
      <3>2. \A q \in Appliers : pc'[q] # "idle" => pc[q] # "idle" /\ job'[q].map = job[q].map
        BY <3>1, <1>a DEF TypeInv
      <3>3. \A q \in Appliers : pc'[q] = pc[q] \/ {pc[q], pc'[q]} \cap {"prepare", "write"} = {}
        BY <3>1, <1>a DEF TypeInv
      <3> QED
        BY <3>1, <3>2, <3>3, <1>a DEF LockInv
    <2> QED
      BY <2>1, <2>2
  <1>3. ASSUME NEW p \in Appliers, Lock(p) PROVE LockInv'
    <2>1. \A q \in Appliers : pc[q] \notin {"prepare", "write"}
      BY <1>3, <1>a, HolderAlone DEF Lock
    <2> QED
      BY <1>3, <1>a, <2>1, BackfillAssumption DEF Lock, TypeInv, LockInv, Goto
  <1>4. ASSUME NEW p \in Appliers, Prepare(p) PROVE LockInv'
    <2>1. CASE Leave(p)
      BY <2>1, <1>a, LeaveKeepsLock
    <2>2. CASE ~Leave(p)
      <3>1. /\ pc[p] = "prepare" /\ UNCHANGED lock
            /\ pc' = [pc EXCEPT ![p] = "write"] /\ job' = [job EXCEPT ![p].runs = {}]
        BY <1>4, <2>2 DEF Prepare, Goto
      <3>2. \A q \in Appliers : job'[q].map = job[q].map
        BY <3>1, <1>a DEF TypeInv
      <3> QED
        BY <3>1, <3>2, <1>a DEF TypeInv, LockInv
    <2> QED
      BY <2>1, <2>2
  <1>5. ASSUME NEW p \in Appliers, WriteCard(p) \/ StoreConfig(p) \/ AppendTrial(p)
        PROVE  LockInv'
    BY <1>5, <1>a DEF WriteCard, StoreConfig, AppendTrial, MayAppend, LockInv
  <1>6. ASSUME NEW p \in Appliers, Commit(p) \/ Breaks(p) PROVE LockInv'
    BY <1>6, <1>a, LeaveKeepsLock DEF Commit, Breaks
  <1>7. CASE UNCHANGED process
    BY <1>7, <1>a DEF LockInv
  <1> QED
    BY <1>1, <1>2, <1>3, <1>4, <1>5, <1>6, <1>7
       DEF Next, Step, Repair, Appear, Admit, Record, Tag, EditCard, RepairLedger,
           RemoveBrokenCard, vars

-----------------------------------------------------------------------------
(* Directories. *)

\* Every step preserves the invariant of directories, markers and gated trials.
LEMMA DirsStep == Inv /\ [Next]_vars => DirsInv'
  <1> SUFFICES ASSUME Inv, [Next]_vars PROVE DirsInv'
    OBVIOUS
  <1>a. TypeInv /\ DirsInv /\ WritesInv
    BY DEF Inv
  <1> USE DEF register, gate, process
  <1>b. UNCHANGED ledger => UNCHANGED GatedOnRecord
    BY DEF GatedOnRecord, Trials
  <1>c. ASSUME NEW p \in Appliers, Leave(p) PROVE \A q \in Appliers : job'[q].runs \subseteq job[q].runs
    BY <1>c, <1>a DEF Leave, NoJob, TypeInv
  <1>d. job \in [Appliers -> [map : Mappings \cup {NoOne}, runs : SUBSET Runs,
                              known : SUBSET Runs]]
    BY <1>a DEF TypeInv
  <1>1. ASSUME NEW p \in Appliers, NEW m \in Mappings, Scan(p, m) PROVE DirsInv'
    BY <1>1, <1>a, <1>b DEF Scan, DirsInv, TypeInv, NoJob
  <1>2. ASSUME NEW p \in Appliers, ReadTrials(p) \/ Check(p) \/ Lock(p) \/ Prepare(p)
        PROVE  DirsInv'
    <2>1. UNCHANGED <<dirs, markers, ledger>>
      BY <1>2 DEF ReadTrials, Check, Lock, Prepare
    <2>2. \A q \in Appliers : job'[q].runs \subseteq job[q].runs
      <3>1. CASE Lock(p)
        BY <3>1 DEF Lock
      <3>2. CASE ReadTrials(p)
        BY <3>2, <1>c, <1>d DEF ReadTrials
      <3>3. CASE Check(p)
        BY <3>3, <1>c, <1>d DEF Check
      <3>4. CASE Prepare(p)
        BY <3>4, <1>c, <1>d DEF Prepare
      <3> QED
        BY <1>2, <3>1, <3>2, <3>3, <3>4
    <2> QED
      BY <2>1, <2>2, <1>a, <1>b DEF DirsInv
  <1>3. ASSUME NEW p \in Appliers, WriteCard(p) \/ StoreConfig(p) PROVE DirsInv'
    BY <1>3, <1>a, <1>b DEF WriteCard, StoreConfig, DirsInv
  <1>4. ASSUME NEW p \in Appliers, AppendTrial(p) PROVE DirsInv'
    <2>1. PICK t \in todo.trials : ledger' = Append(ledger, t)
      BY <1>4 DEF AppendTrial, NextTrials
    <2>2. t \in Entry /\ t.kind = "backfill"
      BY <1>4, <1>a DEF AppendTrial, MayAppend, TypeInv, WritesInv, Right
    <2>3. UNCHANGED GatedOnRecord
      BY <1>a, <2>1, <2>2, AppendedIds
    <2> QED
      BY <1>4, <1>a, <2>3 DEF AppendTrial, DirsInv
  <1>5. ASSUME NEW p \in Appliers, Commit(p) PROVE DirsInv'
    BY <1>5, <1>a, <1>b, <1>c DEF Commit, DirsInv
  <1>6. ASSUME NEW p \in Appliers, Breaks(p) PROVE DirsInv'
    <2>1. UNCHANGED GatedOnRecord
      <3>1. CASE UNCHANGED ledger
        BY <3>1, <1>b
      <3>2. ASSUME NEW t \in NextTrials, ledger' = Append(ledger, t) PROVE UNCHANGED GatedOnRecord
        <4>1. t \in Entry /\ t.kind = "backfill"
          BY <1>6, <1>a, <3>2 DEF Breaks, NextTrials, TypeInv, WritesInv, Right
        <4> QED
          BY <1>a, <3>2, <4>1, AppendedIds
      <3> QED
        BY <1>6, <3>1, <3>2 DEF Breaks
    <2> QED
      BY <1>6, <1>a, <2>1, <1>c DEF Breaks, DirsInv
  <1>7. ASSUME NEW r \in LegacyRuns, Appear(r) PROVE DirsInv'
    <2>1. r \notin Gated
      BY BackfillAssumption
    <2> QED
      BY <1>7, <1>a, <1>b, <2>1 DEF Appear, DirsInv
  <1>8. ASSUME NEW r \in Gated, Admit(r) PROVE DirsInv'
    BY <1>8, <1>a, <1>b DEF Admit, DirsInv
  <1>9. ASSUME NEW r \in Gated, Record(r) PROVE DirsInv'
    <2>1. UNCHANGED <<dirs, job>> /\ r \in markers
      BY <1>9 DEF Record
    <2>2. CASE UNCHANGED <<ledger, markers>>
      BY <2>1, <2>2, <1>a, <1>b DEF DirsInv
    <2>3. CASE r \in GatedOnRecord /\ UNCHANGED ledger /\ markers' \in {markers, markers \ {r}}
      BY <2>1, <2>3, <1>a, <1>b DEF DirsInv
    <2>4. CASE ledger' = Append(ledger, GatedTrial(r)) /\ markers' \in {markers, markers \ {r}}
      <3>1. GatedOnRecord' = GatedOnRecord \cup {r}
        BY <2>4, <1>a, GatedEntry, AppendedIds
      <3> QED
        BY <2>1, <2>4, <3>1, <1>a DEF DirsInv
    <2> QED
      BY <1>9, <2>2, <2>3, <2>4 DEF Record
  <1>10. CASE UNCHANGED <<dirs, markers, ledger, job>>
    BY <1>10, <1>a, <1>b DEF DirsInv
  <1> QED
    BY <1>1, <1>2, <1>3, <1>4, <1>5, <1>6, <1>7, <1>8, <1>9, <1>10
       DEF Next, Step, Repair, Tag, EditCard, RepairLedger, RemoveBrokenCard, vars

-----------------------------------------------------------------------------
(* The ledger. *)

\* Written cards stay as they are, but for their text, and configurations are kept.
FilesKept ==
    /\ \A c \in Cards : cards[c].file = "written" =>
          cards'[c].file = "written" /\ cards'[c].cutoff = cards[c].cutoff
    /\ configs \subseteq configs'

\* What a trial of a backfill needs to be on record.
Backed(t) ==
    /\ t.kind = "backfill" /\ t.of \in Items /\ t.card \in Cards
    /\ Day[t.of] < t.cutoff /\ t.cutoff = cards[t.card].cutoff
    /\ Stands(t, cards, configs)

\* A trial on record stays backed while the files are kept.
LEMMA BackedKept ==
  ASSUME NEW t, Backed(t), FilesKept
  PROVE  /\ t.cutoff = cards'[t.card].cutoff
         /\ Stands(t, cards', configs')
  BY DEF Backed, Stands, FilesKept

\* Keeping the files keeps the ledger in order.
LEMMA LedgerKept ==
  ASSUME LedgerInv, FilesKept, UNCHANGED ledger
  PROVE  LedgerInv'
  <1> SUFFICES ASSUME NEW i \in DOMAIN ledger,
                      ~(ledger[i].kind = "gated" /\ ledger[i].of \in Gated)
               PROVE  /\ ledger[i].kind = "backfill" /\ ledger[i].of \in Items
                      /\ ledger[i].card \in Cards /\ Day[ledger[i].of] < ledger[i].cutoff
                      /\ ledger[i].cutoff = cards'[ledger[i].card].cutoff
                      /\ Stands(ledger[i], cards', configs')
    BY DEF LedgerInv
  <1>1. Backed(ledger[i])
    BY DEF LedgerInv, Backed
  <1> QED
    BY <1>1, BackedKept DEF Backed

\* So does a line that is backed, or of a gated run.
LEMMA LineKept ==
  ASSUME TypeInv, LedgerInv, UNCHANGED <<cards, configs>>, NEW t \in Entry,
         Backed(t) \/ (t.kind = "gated" /\ t.of \in Gated),
         ledger' = Append(ledger, t)
  PROVE  LedgerInv'
  <1> SUFFICES ASSUME NEW i \in DOMAIN ledger'
               PROVE  \/ ledger'[i].kind = "gated" /\ ledger'[i].of \in Gated
                      \/ Backed(ledger'[i])
    BY DEF LedgerInv, Backed, Stands
  <1>1. ledger'[i] = t \/ (i \in DOMAIN ledger /\ ledger'[i] = ledger[i])
    BY Appended
  <1> QED
    BY <1>1 DEF LedgerInv, Backed

\* The trials an applier appends are backed.
LEMMA RightIsBacked ==
  ASSUME TypeInv, LockInv, WritesInv, NEW p \in Appliers, MayAppend(p), NEW t \in NextTrials
  PROVE  t \in Entry /\ Backed(t) /\ IdOf(t) \notin Logged
  <1>1. t \in todo.trials /\ t \in Entry
    BY DEF NextTrials, TypeInv
  <1>2. Right(t, job[p].map) /\ IdOf(t) \notin Logged
    BY <1>1 DEF MayAppend, WritesInv
  <1>3. t.card \in Cards /\ todo.cards = {} /\ todo.configs = {}
    BY <1>2 DEF MayAppend, Right, Planned
  <1> QED
    BY <1>1, <1>2, <1>3 DEF Right, Backed, Stands

\* Only the holder of the lock changes a card, and only one that is not written.
LEMMA FilesStay ==
  ASSUME Inv, [Next]_vars
  PROVE  FilesKept
  <1>a. TypeInv /\ WritesInv
    BY DEF Inv
  <1> USE DEF register, process
  <1>b. ASSUME NEW c \in Cards, cards[c].file # "written",
               NEW card, cards' = [cards EXCEPT ![c] = card], UNCHANGED configs
        PROVE  FilesKept
    BY <1>b, <1>a DEF TypeInv, FilesKept
  <1>1. CASE UNCHANGED <<cards, configs>>
    BY <1>1 DEF FilesKept
  <1>2. ASSUME NEW p \in Appliers, WriteCard(p) PROVE FilesKept
    <2>1. PICK c \in todo.cards : cards' = [cards EXCEPT ![c] = NewCard(job[p].map, c)]
      BY <1>2 DEF WriteCard, First
    <2>2. c \in Cards /\ cards[c].file # "written"
      BY <1>2, <1>a DEF WriteCard, WritesInv, TypeInv
    <2> QED
      BY <1>2, <1>b, <2>1, <2>2 DEF WriteCard
  <1>3. ASSUME NEW p \in Appliers, StoreConfig(p) PROVE FilesKept
    BY <1>3 DEF StoreConfig, FilesKept
  <1>4. ASSUME NEW p \in Appliers, Breaks(p) PROVE FilesKept
    <2>1. UNCHANGED configs
      BY <1>4 DEF Breaks
    <2>2. ASSUME NEW c \in todo.cards, cards' = [cards EXCEPT ![c] = BrokenFile]
          PROVE  FilesKept
      <3>1. c \in Cards /\ cards[c].file # "written"
        BY <1>4, <1>a, <2>2 DEF Breaks, WritesInv, TypeInv
      <3> QED
        BY <1>b, <2>1, <2>2, <3>1
    <2> QED
      BY <1>1, <1>4, <2>1, <2>2 DEF Breaks, First
  <1>5. ASSUME NEW c \in Cards, EditCard(c) PROVE FilesKept
    <2>1. cards[c] \in CardFile /\ cards' = [cards EXCEPT ![c].text = Edited]
          /\ UNCHANGED configs
      BY <1>5, <1>a DEF EditCard, TypeInv
    <2>2. cards'[c].file = cards[c].file /\ cards'[c].cutoff = cards[c].cutoff
      BY <1>a, <2>1 DEF TypeInv, CardFile
    <2>3. \A d \in Cards \ {c} : cards'[d] = cards[d]
      BY <1>a, <2>1 DEF TypeInv
    <2> QED
      BY <2>1, <2>2, <2>3 DEF FilesKept
  <1>6. ASSUME NEW c \in Cards, RemoveBrokenCard(c) PROVE FilesKept
    BY <1>6, <1>b DEF RemoveBrokenCard
  <1> QED
    BY <1>1, <1>2, <1>3, <1>4, <1>5, <1>6
       DEF Next, Step, Repair, Scan, ReadTrials, Check, Lock, Prepare, AppendTrial, Commit,
           Appear, Admit, Record, Tag, RepairLedger, vars

\* Every step preserves the ledger invariant.
LEMMA LedgerStep == Inv /\ [Next]_vars => LedgerInv'
  <1> SUFFICES ASSUME Inv, [Next]_vars PROVE LedgerInv'
    OBVIOUS
  <1>a. TypeInv /\ LockInv /\ LedgerInv /\ WritesInv
    BY DEF Inv
  <1>b. FilesKept
    BY FilesStay
  <1> USE DEF register, process
  <1>1. CASE UNCHANGED ledger
    BY <1>1, <1>a, <1>b, LedgerKept
  <1>2. ASSUME NEW p \in Appliers, AppendTrial(p) PROVE LedgerInv'
    BY <1>2, <1>a, RightIsBacked, LineKept DEF AppendTrial
  <1>3. ASSUME NEW p \in Appliers, Breaks(p) PROVE LedgerInv'
    <2>1. CASE ~UNCHANGED ledger
      <3>1. MayAppend(p) /\ (\E t \in NextTrials : ledger' = Append(ledger, t))
            /\ UNCHANGED <<cards, configs>>
        BY <1>3, <2>1 DEF Breaks
      <3> QED
        BY <3>1, <1>a, RightIsBacked, LineKept
    <2> QED
      BY <1>1, <2>1
  <1>4. ASSUME NEW r \in Gated, Record(r) PROVE LedgerInv'
    <2>1. CASE ~UNCHANGED ledger
      <3>1. ledger' = Append(ledger, GatedTrial(r)) /\ UNCHANGED <<cards, configs>>
        BY <1>4, <2>1 DEF Record
      <3> QED
        BY <3>1, <1>a, GatedEntry, LineKept
    <2> QED
      BY <1>1, <2>1
  <1> QED
    BY <1>1, <1>2, <1>3, <1>4
       DEF Next, Step, Repair, Scan, ReadTrials, Check, Lock, Prepare, WriteCard, StoreConfig,
           Commit, Appear, Admit, Tag, EditCard, RepairLedger, RemoveBrokenCard, vars

\* A commit takes what is in the worktree, or in the worktree it leaves.
LEMMA CommitStep == Inv /\ CommitInv /\ LedgerInv' /\ TypeInv' /\ [Next]_vars => CommitInv'
  <1> SUFFICES ASSUME Inv, CommitInv, LedgerInv', TypeInv', [Next]_vars PROVE CommitInv'
    OBVIOUS
  <1> USE DEF register, process
  <1>1. CASE UNCHANGED head
    BY <1>1 DEF CommitInv, Stands
  <1>2. CASE head' = Worktree'
    <2>1. \A t \in Range(ledger') : t.kind = "backfill" => Stands(t, cards', configs')
      BY <1>2 DEF LedgerInv, Stands, Range
    <2> QED
      BY <1>2, <2>1 DEF Worktree, CommitInv
  <1>3. ASSUME NEW p \in Appliers, Commit(p) PROVE head' = Worktree'
    BY <1>3 DEF Commit, Worktree
  <1> QED
    BY <1>1, <1>2, <1>3
       DEF Next, Step, Repair, Scan, ReadTrials, Check, Lock, Prepare, WriteCard, StoreConfig,
           AppendTrial, Breaks, Appear, Admit, Record, Tag, EditCard, RepairLedger,
           RemoveBrokenCard, vars

-----------------------------------------------------------------------------
(* What is still to write. *)

\* Writes goes by what was checked: it names no gated run, a run on one card only, and
\* nothing that is on record.
LEMMA PreparedTrials ==
  ASSUME Inv, NEW m \in Mappings, NEW runs \in SUBSET dirs, Prepared(m, runs, GatedOnRecord)
  PROVE  /\ \A c, d \in Planned(m) : \A x \in m.plan[c] \cap m.plan[d] : c = d \/ x \in Studies
         /\ \A c \in Planned(m) : \A x \in m.plan[c] :
               /\ x \in Items
               /\ x \in Runs => x \in MappedRuns(m)
               /\ \A t \in Backfilled : t.of = x => t.card = c \/ x \in Studies
  <1>a. TypeInv /\ DirsInv /\ LedgerInv
    BY DEF Inv
  <1>b. \A c \in Planned(m) : c \in Cards /\ m.plan[c] \subseteq Runs \cup Studies
    BY MappingTypes DEF Planned
  <1>1. /\ MappedRuns(m) = (runs \ GatedOnRecord) \ markers
        /\ \A c, d \in Cards : c # d => m.plan[c] \cap m.plan[d] \subseteq Studies
        /\ \A t \in Backfilled : t.of \in m.plan[t.card]
    BY DEF Prepared, Fits, Covers, Ungated, KeepsGrouping
  <1>2. MappedRuns(m) \cap Gated = {}
    BY <1>1, <1>a DEF DirsInv
  <1>3. ASSUME NEW c \in Planned(m), NEW x \in m.plan[c]
        PROVE  x \in Items /\ (x \in Runs => x \in MappedRuns(m))
    <2>1. x \in UNION Range(m.plan)
      BY <1>3, <1>b, MappingTypes DEF Range
    <2>2. x \in Runs => x \notin Studies
      BY BackfillAssumption
    <2> QED
      BY <1>2, <1>b, <2>1, <2>2 DEF MappedRuns, Items, Runs
  <1>4. \A t \in Backfilled : t.card \in Cards
    BY <1>a, TrialsAre DEF Backfilled, LedgerInv
  <1> QED
    BY <1>1, <1>3, <1>4, <1>b

\* A trial's id tells a run from a study, and a study's names its card.
LEMMA IdsTell ==
  ASSUME NEW t, NEW u, t.of \in Items, u.of \in Items \cup Gated, t.card \in Cards,
         u.of \in Studies => u.card \in Cards, IdOf(t) = IdOf(u)
  PROVE  /\ t.of = u.of
         /\ t.of \in Studies => t.card = u.card
  <1>1. CASE t.of \in Studies /\ u.of \in Studies
    BY <1>1 DEF IdOf
  <1>2. CASE t.of \in Studies /\ u.of \notin Studies
    <2>1. <<t.card, t.of>> = u.of /\ u.of \in Runs
      BY <1>2 DEF IdOf, Items, Runs
    <2>2. <<t.card, t.of>> \in Cards \X Studies
      BY <1>2
    <2> QED
      BY <2>1, <2>2, BackfillAssumption
  <1>3. CASE t.of \notin Studies /\ u.of \in Studies
    <2>1. <<u.card, u.of>> = t.of /\ t.of \in Runs
      BY <1>3 DEF IdOf, Items, Runs
    <2>2. <<u.card, u.of>> \in Cards \X Studies
      BY <1>3
    <2> QED
      BY <2>1, <2>2, BackfillAssumption
  <1>4. CASE t.of \notin Studies /\ u.of \notin Studies
    BY <1>4 DEF IdOf
  <1> QED
    BY <1>1, <1>2, <1>3, <1>4

\* The checked mapping's writes are right.
LEMMA PreparedWrites ==
  ASSUME Inv, NEW p \in Appliers, Prepare(p), ~Leave(p)
  PROVE  WritesInv'
  <1>a. TypeInv /\ LockInv /\ DirsInv /\ LedgerInv
    BY DEF Inv
  <1>e. /\ pc[p] = "prepare" /\ Prepared(job[p].map, job[p].runs, GatedOnRecord)
        /\ todo' = Writes(job[p].map) /\ job' = [job EXCEPT ![p].runs = {}]
        /\ pc' = [pc EXCEPT ![p] = "write"]
        /\ UNCHANGED <<ledger, cards, configs>>
    BY DEF Prepare, Goto, register
  <1>c. PICK m \in Mappings : m = job[p].map /\ job'[p].map = m
    BY <1>a, <1>e DEF LockInv, TypeInv
  <1>b. /\ job[p].runs \in SUBSET dirs /\ Prepared(m, job[p].runs, GatedOnRecord)
        /\ todo' = Writes(m) /\ UNCHANGED <<ledger, cards, configs>>
    BY <1>a, <1>c, <1>e DEF DirsInv
  <1>d. \A q \in Appliers : pc'[q] = "write" => q = p
    BY <1>a, <1>e, HolderAlone DEF TypeInv
  <1>1. /\ todo'.cards = {c \in Planned(m) : cards[c].file = "absent"}
        /\ todo'.configs = {ConfigOf[r] : r \in MappedRuns(m)} \ {NoConfig}
        /\ todo'.trials = UNION {{TrialOf(m, c, x) : x \in {x \in m.plan[c] : ~Done(c, x)}}
                                   : c \in Planned(m)}
    BY <1>b DEF Writes
  <1>2. \A c \in Planned(m) : /\ c \in Cards /\ Cutoff(m, c) \in Nat
                              /\ \A x \in m.plan[c] : Day[x] < Cutoff(m, c)
    BY <1>b, <1>c, CutoffIsLater DEF Prepared, Fits, Planned
  <1>3. \A c \in Planned(m) :
           \/ cards[c].file = "absent"
           \/ cards[c].file = "written" /\ cards[c].cutoff = Cutoff(m, c)
    BY <1>a, <1>b, <1>2 DEF Prepared, Fits, Agrees, TypeInv, CardFile
  <1>4. \A c \in Planned(m) : CardFor(m, c).cutoff = Cutoff(m, c)
    BY <1>3 DEF CardFor, NewCard
  <1>5. ASSUME NEW t \in todo'.trials
        PROVE  /\ t.kind = "backfill" /\ t.card \in Planned(m) /\ t.of \in m.plan[t.card]
               /\ t.cutoff = Cutoff(m, t.card) /\ ~Done(t.card, t.of)
               /\ t = TrialOf(m, t.card, t.of)
    BY <1>1, <1>4 DEF TrialOf
  <1>6. ASSUME NEW t \in todo'.trials PROVE Right(t, m)'
    <2>1. t.of \in Items /\ (t.of \in Runs => t.of \in MappedRuns(m))
      BY <1>5, <1>b, <1>c, PreparedTrials
    <2>2. t.of \in Runs => ConfigOf[t.of] \in todo'.configs \cup {NoConfig}
      BY <1>1, <2>1
    <2>3. \/ t.card \in todo'.cards
          \/ cards'[t.card].file = "written" /\ cards'[t.card].cutoff = t.cutoff
      BY <1>1, <1>3, <1>5, <1>b
    <2> QED
      BY <1>2, <1>5, <2>1, <2>2, <1>b, <2>3 DEF Right
  <1>7. ASSUME NEW t \in todo'.trials, NEW i \in DOMAIN ledger, IdOf(t) = IdOf(ledger[i])
        PROVE  FALSE
    <2>1. t.of \in Items /\ t.card \in Cards
      BY <1>2, <1>5, <1>b, <1>c, PreparedTrials
    <2>2. t.of \notin Gated
      BY <2>1, BackfillAssumption DEF Items, Runs
    <2>3. /\ ledger[i].of \in Items \cup Gated
          /\ ledger[i].of \in Studies => ledger[i].card \in Cards
      BY <1>a, BackfillAssumption DEF LedgerInv, Runs
    <2>4. t.of = ledger[i].of /\ (t.of \in Studies => t.card = ledger[i].card)
      BY <1>7, <2>1, <2>3, IdsTell
    <2>5. ledger[i] \in Backfilled
      BY <1>a, <2>2, <2>4, TrialsAre DEF LedgerInv, Backfilled
    <2>6. t.card = ledger[i].card
      BY <1>5, <1>b, <1>c, <2>4, <2>5, PreparedTrials
    <2> QED
      BY <1>5, <2>4, <2>5, <2>6 DEF Done
  <1>8. ASSUME NEW t \in todo'.trials, NEW u \in todo'.trials, IdOf(t) = IdOf(u) PROVE t = u
    <2>1. /\ t.of \in Items /\ t.card \in Cards /\ u.of \in Items /\ u.card \in Cards
      BY <1>2, <1>5, <1>b, <1>c, PreparedTrials
    <2>2. t.of = u.of /\ (t.of \in Studies => t.card = u.card)
      BY <1>8, <2>1, IdsTell
    <2>3. t.card = u.card
      BY <1>5, <1>b, <1>c, <2>2, PreparedTrials
    <2> QED
      BY <1>5, <2>2, <2>3
  <1>9. \A c \in todo'.cards : cards'[c].file = "absent" /\ Cutoff(m, c) \in Nat
    BY <1>1, <1>2, <1>b
  <1>10. \A t \in todo'.trials : IdOf(t) \notin Logged'
    BY <1>7, <1>b DEF Logged, IdOf
  <1> QED
    BY <1>6, <1>8, <1>9, <1>10, <1>c, <1>d DEF WritesInv

\* Who still writes goes on with the same mapping, and nothing it relies on changed.
LEMMA WritesKept ==
  ASSUME WritesInv, UNCHANGED <<ledger, cards, configs, todo>>,
         \A q \in Appliers : pc'[q] = "write" => pc[q] = "write" /\ job'[q].map = job[q].map
  PROVE  WritesInv'
  <1> SUFFICES ASSUME NEW q \in Appliers, pc'[q] = "write", NEW m, m = job'[q].map
               PROVE  /\ \A c \in todo'.cards :
                            /\ cards'[c].file = "absent" /\ Cutoff(m, c) \in Nat
                      /\ \A t \in todo'.trials : Right(t, m)' /\ IdOf(t) \notin Logged'
                      /\ \A t, u \in todo'.trials : IdOf(t) = IdOf(u) => t = u
    BY DEF WritesInv
  <1>1. pc[q] = "write" /\ m = job[q].map
    OBVIOUS
  <1>2. UNCHANGED Logged
    BY DEF Logged
  <1>3. \A t : Right(t, m) => Right(t, m)'
    BY DEF Right
  <1> QED
    BY <1>1, <1>2, <1>3 DEF WritesInv

\* Nobody writes while nobody has the lock, and the holder who leaves was the only one.
LEMMA NobodyWrites ==
  ASSUME TypeInv, LockInv, LockInv', lock' = NoOne
  PROVE  WritesInv'
  BY BackfillAssumption DEF LockInv, WritesInv

\* Every step preserves what is right about the writes ahead.
LEMMA WritesStep == Inv /\ LockInv' /\ [Next]_vars => WritesInv'
  <1> SUFFICES ASSUME Inv, LockInv', [Next]_vars PROVE WritesInv'
    OBVIOUS
  <1>a. TypeInv /\ LockInv /\ WritesInv
    BY DEF Inv
  <1> USE DEF register, process
  <1>1. CASE lock' = NoOne
    BY <1>1, <1>a, NobodyWrites
  <1>2. CASE UNCHANGED <<ledger, cards, configs, process>>
    BY <1>2, <1>a, WritesKept
  <1>3. ASSUME NEW p \in Appliers, NEW m \in Mappings, Scan(p, m) PROVE WritesInv'
    BY <1>3, <1>a, WritesKept DEF Scan, Goto, TypeInv
  <1>4. ASSUME NEW p \in Appliers, ReadTrials(p) \/ Check(p) PROVE WritesInv'
    <2>1. pc[p] \in {"read", "check"} /\ UNCHANGED <<ledger, cards, configs>>
      BY <1>4 DEF ReadTrials, Check
    <2>2. UNCHANGED todo
      BY <1>4, <1>a, <2>1, HolderAlone DEF ReadTrials, Check, Leave
    <2>3. \A q \in Appliers :
             pc'[q] = "write" => pc[q] = "write" /\ job'[q].map = job[q].map
      BY <1>4, <1>a DEF ReadTrials, Check, Leave, Goto, TypeInv
    <2> QED
      BY <1>a, <2>1, <2>2, <2>3, WritesKept
  <1>5. ASSUME NEW p \in Appliers, Lock(p) PROVE WritesInv'
    BY <1>5, <1>a, WritesKept DEF Lock, Goto, TypeInv
  <1>6. ASSUME NEW p \in Appliers, Prepare(p) PROVE WritesInv'
    <2>1. CASE Leave(p)
      BY <1>1, <1>6, <1>a, <2>1, HolderAlone DEF Prepare, Leave
    <2> QED
      BY <1>6, <2>1, PreparedWrites
  <1>7. ASSUME NEW p \in Appliers, WriteCard(p) PROVE WritesInv'
    <2>1. PICK m : m = job[p].map
      OBVIOUS
    <2>2. PICK c \in todo.cards : /\ cards' = [cards EXCEPT ![c] = NewCard(m, c)]
                                  /\ todo' = [todo EXCEPT !.cards = @ \ {c}]
      BY <1>7, <2>1 DEF WriteCard, First
    <2>3. /\ UNCHANGED <<ledger, configs, pc, job, lock>> /\ pc[p] = "write"
      BY <1>7 DEF WriteCard
    <2>4. \A q \in Appliers : pc'[q] = "write" => q = p
      BY <1>a, <2>3, HolderAlone
    <2>5. /\ todo'.cards = todo.cards \ {c} /\ todo'.trials = todo.trials
          /\ todo'.configs = todo.configs
          /\ cards'[c] = NewCard(m, c) /\ \A d \in Cards \ {c} : cards'[d] = cards[d]
      BY <1>a, <2>2 DEF TypeInv
    <2>6. \A d \in todo'.cards : cards'[d].file = "absent" /\ Cutoff(m, d) \in Nat
      BY <1>a, <2>1, <2>3, <2>5 DEF WritesInv, TypeInv
    <2>7. ASSUME NEW t \in todo'.trials PROVE Right(t, m)'
      <3>1. Right(t, m)
        BY <1>a, <2>1, <2>3, <2>5 DEF WritesInv
      <3>2. \/ t.card \in todo'.cards
            \/ cards'[t.card].file = "written" /\ cards'[t.card].cutoff = t.cutoff
        BY <3>1, <2>5 DEF Right, NewCard, Planned
      <3>3. UNCHANGED <<configs>> /\ UNCHANGED todo.configs
        BY <2>3, <2>5
      <3> QED
        BY <3>1, <3>2, <3>3 DEF Right
    <2>8. UNCHANGED Logged
      BY <2>3 DEF Logged
    <2> QED
      BY <1>a, <2>1, <2>3, <2>4, <2>5, <2>6, <2>7, <2>8 DEF WritesInv
  <1>8. ASSUME NEW p \in Appliers, StoreConfig(p) PROVE WritesInv'
    <2>1. PICK m : m = job[p].map
      OBVIOUS
    <2>2. PICK f \in todo.configs : /\ configs' = configs \cup {f}
                                    /\ todo' = [todo EXCEPT !.configs = @ \ {f}]
      BY <1>8 DEF StoreConfig
    <2>3. /\ UNCHANGED <<ledger, cards, pc, job, lock>> /\ pc[p] = "write"
      BY <1>8 DEF StoreConfig
    <2>4. \A q \in Appliers : pc'[q] = "write" => q = p
      BY <1>a, <2>3, HolderAlone
    <2>5. /\ todo'.cards = todo.cards /\ todo'.trials = todo.trials
          /\ todo.configs \cup configs = todo'.configs \cup configs'
      BY <1>a, <2>2 DEF TypeInv
    <2>6. ASSUME NEW t \in todo'.trials PROVE Right(t, m)'
      <3>1. Right(t, m)
        BY <1>a, <2>1, <2>3, <2>5 DEF WritesInv
      <3> QED
        BY <3>1, <2>3, <2>5 DEF Right
    <2>7. UNCHANGED Logged
      BY <2>3 DEF Logged
    <2> QED
      BY <1>a, <2>1, <2>3, <2>4, <2>5, <2>6, <2>7 DEF WritesInv
  <1>9. ASSUME NEW p \in Appliers, AppendTrial(p) PROVE WritesInv'
    <2>1. PICK m : m = job[p].map
      OBVIOUS
    <2>2. PICK t \in NextTrials : /\ ledger' = Append(ledger, t)
                                  /\ todo' = [todo EXCEPT !.trials = @ \ {t}]
      BY <1>9 DEF AppendTrial
    <2>3. /\ UNCHANGED <<cards, configs, pc, job, lock>> /\ pc[p] = "write"
          /\ t \in todo.trials /\ t \in Entry
      BY <1>9, <1>a, RightIsBacked DEF AppendTrial, MayAppend, NextTrials
    <2>4. \A q \in Appliers : pc'[q] = "write" => q = p
      BY <1>a, <2>3, HolderAlone
    <2>5. /\ todo'.cards = todo.cards /\ todo'.trials = todo.trials \ {t}
          /\ todo'.configs = todo.configs
      BY <1>a, <2>2 DEF TypeInv
    <2>6. ASSUME NEW u \in todo'.trials PROVE Right(u, m)'
      <3>1. Right(u, m)
        BY <1>a, <2>1, <2>3, <2>5 DEF WritesInv
      <3> QED
        BY <3>1, <2>3, <2>5 DEF Right
    <2>7. Logged' = Logged \cup {IdOf(t)}
      BY <1>a, <2>2, <2>3, AppendedIds
    <2> QED
      BY <1>a, <2>1, <2>3, <2>4, <2>5, <2>6, <2>7 DEF WritesInv
  <1>10. ASSUME NEW p \in Appliers, Commit(p) \/ Breaks(p) PROVE lock' = NoOne
    BY <1>10, <1>a, HolderAlone DEF Commit, Breaks, Leave
  <1> QED
    BY <1>1, <1>2, <1>3, <1>4, <1>5, <1>6, <1>7, <1>8, <1>9, <1>10
       DEF Next, Step, Repair, Appear, Admit, Record, Tag, EditCard, RepairLedger,
           RemoveBrokenCard, vars

-----------------------------------------------------------------------------
(* The theorems. *)

\* The invariant holds at first.
LEMMA InvInit == Init => Inv /\ CommitInv
  <1> SUFFICES ASSUME Init PROVE Inv /\ CommitInv
    OBVIOUS
  <1>1. ledger = <<>> /\ DOMAIN ledger = {} /\ Trials = {} /\ GatedOnRecord = {}
    BY DEF Init, Trials, Range, GatedOnRecord
  <1>2. NoFile \in CardFile /\ NoJob \in [map : Mappings \cup {NoOne}, runs : SUBSET Runs,
                                          known : SUBSET Runs]
    BY DEF NoFile, CardFile, Criteria, Texts, NoJob
  <1>3. TypeInv
    BY <1>1, <1>2 DEF Init, TypeInv, Nothing, Steps
  <1>4. LockInv /\ DirsInv
    BY <1>1, BackfillAssumption DEF Init, LockInv, DirsInv, NoJob
  <1>5. LedgerInv /\ WritesInv
    BY <1>1 DEF Init, LedgerInv, WritesInv
  <1>6. CommitInv
    BY DEF Init, CommitInv, Range
  <1> QED
    BY <1>3, <1>4, <1>5, <1>6 DEF Inv

\* Every step preserves it.
LEMMA InvStep == Inv /\ CommitInv /\ [Next]_vars => Inv' /\ CommitInv'
  <1> SUFFICES ASSUME Inv, CommitInv, [Next]_vars PROVE Inv' /\ CommitInv'
    OBVIOUS
  <1>1. TypeInv' /\ LockInv' /\ DirsInv' /\ LedgerInv'
    BY TypeStep, LockStep, DirsStep, LedgerStep
  <1>2. WritesInv'
    BY <1>1, WritesStep
  <1>3. CommitInv'
    BY <1>1, CommitStep
  <1> QED
    BY <1>1, <1>2, <1>3 DEF Inv

LEMMA BackfillInvariant == Spec => [](Inv /\ CommitInv)
  BY InvInit, InvStep, PTL DEF Spec

\* The holdout of a card starts after every run and study recorded for it, whatever is
\* mapped, in however many applies (backfill.py: _cutoff, _check_existing).
THEOREM HoldoutIsLater == Spec => []BackfillBeforeHoldout
  <1>1. Inv => BackfillBeforeHoldout
    <2> SUFFICES ASSUME Inv, NEW t \in Backfilled
                 PROVE  Day[t.of] < t.cutoff /\ t.cutoff = cards[t.card].cutoff
      BY DEF BackfillBeforeHoldout
    <2>1. TypeInv /\ LedgerInv
      BY DEF Inv
    <2>2. PICK i \in DOMAIN ledger : t = ledger[i]
      BY <2>1, TrialsAre DEF Backfilled
    <2> QED
      BY <2>1, <2>2 DEF LedgerInv, Backfilled
  <1> QED
    BY <1>1, BackfillInvariant, PTL

\* What the ledger names has its card and its configuration, in the worktree and in every
\* commit, wherever an apply breaks off and whoever commits next.
THEOREM RegisterComplete == Spec => []BackfillComplete
  <1>1. Inv /\ CommitInv => BackfillComplete
    <2> SUFFICES ASSUME Inv, CommitInv PROVE BackfillComplete
      OBVIOUS
    <2>1. LedgerInv
      BY DEF Inv
    <2>2. \A t \in Range(ledger) : t.kind = "backfill" => Stands(t, cards, configs)
      BY <2>1 DEF LedgerInv, Range
    <2>3. /\ Worktree.ledger = ledger /\ Worktree.cards = cards
          /\ Worktree.configs = configs
      BY DEF Worktree
    <2> QED
      BY <2>2, <2>3 DEF BackfillComplete, CommitInv, Stands
  <1> QED
    BY <1>1, BackfillInvariant, PTL

-----------------------------------------------------------------------------
(***************************************************************************)
(* The refinement: under the mapping of Backfill's instance Abstract, a    *)
(* backfilled trial is a study, recorded at once or not at all, and the    *)
(* gate goes on as before.                                                 *)
(***************************************************************************)
Phase == [r \in Gated |-> IF r \in GatedOnRecord THEN "recorded"
                          ELSE IF r \in markers THEN "pending" ELSE "absent"]
Log   == [i \in DOMAIN ledger |-> IdOf(ledger[i])]

\* A line of the ledger becomes a line of the log.
LEMMA AppendToLog ==
  ASSUME TypeInv, NEW t \in Entry, ledger' = Append(ledger, t)
  PROVE  Log' = Append(Log, IdOf(t))
  <1> DEFINE R == {IdOf(u) : u \in Entry}
  <1>1. ledger \in Seq(Entry) /\ Len(ledger) \in Nat /\ DOMAIN ledger = 1 .. Len(ledger)
    BY DEF TypeInv
  <1>2. Log' = [i \in DOMAIN ledger' |-> IdOf(ledger'[i])]
    BY DEF Log, IdOf
  <1>3. \A i \in DOMAIN ledger : ledger[i] \in Entry
    BY <1>1
  <1>4. /\ \A u \in Entry : IdOf(u) \in R
        /\ DOMAIN ledger' = 1 .. Len(ledger) + 1
        /\ \A i \in 1 .. Len(ledger) : ledger'[i] = ledger[i]
        /\ ledger'[Len(ledger) + 1] = t
    BY <1>1
  <1> HIDE DEF R
  <1>5. Log \in Seq(R) /\ Len(Log) = Len(ledger)
    <2>1. Log = [i \in 1 .. Len(ledger) |-> IdOf(ledger[i])]
      BY <1>1 DEF Log
    <2>2. \A i \in 1 .. Len(ledger) : IdOf(ledger[i]) \in R
      BY <1>1, <1>3, <1>4
    <2> QED
      BY <1>1, <2>1, <2>2
  <1>6. Log' \in Seq(R) /\ Len(Log') = Len(ledger) + 1
    <2>1. Log' = [i \in 1 .. Len(ledger) + 1 |-> IdOf(ledger'[i])]
      BY <1>2, <1>4
    <2>2. \A i \in 1 .. Len(ledger) + 1 : IdOf(ledger'[i]) \in R
      BY <1>1, <1>3, <1>4
    <2>3. Len(ledger) + 1 \in Nat
      BY <1>1
    <2> QED
      BY <2>1, <2>2, <2>3
  <1>7. Append(Log, IdOf(t)) \in Seq(R) /\ Len(Append(Log, IdOf(t))) = Len(ledger) + 1
    BY <1>4, <1>5
  <1>8. \A i \in 1 .. Len(ledger) + 1 : Log'[i] = Append(Log, IdOf(t))[i]
    <2> TAKE i \in 1 .. Len(ledger) + 1
    <2>1. CASE i = Len(ledger) + 1
      BY <1>1, <1>2, <1>4, <1>5, <2>1
    <2>2. CASE i # Len(ledger) + 1
      <3>1. i \in 1 .. Len(ledger)
        BY <1>1, <2>2
      <3>2. Append(Log, IdOf(t))[i] = Log[i]
        BY <1>4, <1>5, <3>1
      <3> QED
        BY <1>1, <1>2, <1>4, <3>1, <3>2 DEF Log
    <2> QED
      BY <2>1, <2>2
  <1> QED
    BY <1>6, <1>7, <1>8

\* An empty register is an empty abstract register.
LEMMA InitRefines == Init => Abstract!Init
  <1> SUFFICES ASSUME Init PROVE Abstract!Init
    OBVIOUS
  <1>1. ledger = <<>> /\ markers = {} /\ GatedOnRecord = {}
    BY DEF Init, GatedOnRecord, Trials, Range
  <1>2. [i \in DOMAIN ledger |-> IdOf(ledger[i])] = <<>>
    BY <1>1
  <1> QED
    BY <1>1, <1>2 DEF Abstract!Init

\* A line of a backfill is the trial of a study that was not recorded before.
LEMMA TrialRefines ==
  ASSUME Inv, NEW p \in Appliers, MayAppend(p), NEW t \in NextTrials,
         ledger' = Append(ledger, t), UNCHANGED markers
  PROVE  Abstract!Next
  <1>1. t \in Entry /\ Backed(t) /\ IdOf(t) \notin Logged /\ TypeInv
    BY RightIsBacked DEF Inv
  <1>2. Log' = Append(Log, IdOf(t)) /\ UNCHANGED GatedOnRecord
    BY <1>1, AppendToLog, AppendedIds DEF Backed
  <1>3. UNCHANGED Phase
    BY <1>2 DEF Phase
  <1>4. IdOf(t) \in LegacyRuns \cup (Cards \X Studies)
    BY <1>1 DEF Backed, IdOf, Items
  <1>5. \A i \in DOMAIN Log : Log[i] # IdOf(t)
    BY <1>1 DEF Log, Logged
  <1>6. Abstract!RecordStudy(IdOf(t))
    BY <1>2, <1>3, <1>5 DEF Abstract!RecordStudy, Abstract!InLog, Phase, Log
  <1> QED
    BY <1>4, <1>6 DEF Abstract!Next

\* A gated run gets its marker when it was neither pending nor on record.
LEMMA AdmitRefines ==
  ASSUME Inv, NEW r \in Gated, Admit(r)
  PROVE  Abstract!Next
  <1>1. /\ r \notin markers /\ r \notin GatedOnRecord
        /\ markers' = markers \cup {r} /\ UNCHANGED ledger
    BY DEF Admit, Inv, DirsInv, register
  <1>2. UNCHANGED Log /\ UNCHANGED GatedOnRecord
    BY <1>1 DEF Log, GatedOnRecord, Trials, IdOf
  <1>3. Phase[r] = "absent" /\ Phase' = [Phase EXCEPT ![r] = "pending"]
    BY <1>1, <1>2 DEF Phase
  <1>4. Abstract!Pend(r)
    BY <1>2, <1>3 DEF Abstract!Pend, Phase, Log
  <1> QED
    BY <1>4 DEF Abstract!Next

\* What leaves the ledger alone, and no run without marker or trial, is no step.
LEMMA StillRefines ==
  ASSUME UNCHANGED ledger, \A r \in Gated \ GatedOnRecord : r \in markers <=> r \in markers'
  PROVE  UNCHANGED Abstract!vars
  <1>1. UNCHANGED Log /\ UNCHANGED GatedOnRecord
    BY DEF Log, GatedOnRecord, Trials, IdOf
  <1>2. UNCHANGED Phase
    BY <1>1 DEF Phase
  <1> QED
    BY <1>1, <1>2 DEF Abstract!vars, Phase, Log

\* A pending run is recorded, once; a second finish only drops the marker.
LEMMA RecordRefines ==
  ASSUME Inv, NEW r \in Gated, Record(r)
  PROVE  Abstract!Next \/ UNCHANGED Abstract!vars
  <1>1. r \in markers /\ TypeInv
    BY DEF Record, Inv
  <1>2. CASE UNCHANGED <<ledger, markers>>
    BY <1>2, StillRefines
  <1>3. CASE r \in GatedOnRecord /\ UNCHANGED ledger /\ markers' \in {markers, markers \ {r}}
    BY <1>3, StillRefines
  <1>4. CASE /\ r \notin GatedOnRecord /\ ledger' = Append(ledger, GatedTrial(r))
             /\ markers' \in {markers, markers \ {r}}
    <2>1. GatedOnRecord' = GatedOnRecord \cup {r} /\ Log' = Append(Log, r)
      BY <1>1, <1>4, GatedEntry, AppendedIds, AppendToLog
    <2>2. Phase[r] = "pending" /\ Phase' = [Phase EXCEPT ![r] = "recorded"]
      BY <1>1, <1>4, <2>1 DEF Phase
    <2>3. Abstract!Record(r)
      BY <2>1, <2>2 DEF Abstract!Record, Phase, Log
    <2> QED
      BY <2>3 DEF Abstract!Next
  <1> QED
    BY <1>1, <1>2, <1>3, <1>4 DEF Record

(***************************************************************************)
(* What a mapping names is recorded once, and on one card unless it is a   *)
(* study, over any number of applies, mappings and failures; a gated run   *)
(* never, whatever happens to its marker in between.                       *)
(***************************************************************************)
THEOREM BackfillRefines == Spec => BackfillImplementsTrialRegister
  <1>1. Inv /\ [Next]_vars => [Abstract!Next]_(Abstract!vars)
    <2> SUFFICES ASSUME Inv, [Next]_vars
                 PROVE  Abstract!Next \/ UNCHANGED Abstract!vars
      OBVIOUS
    <2> USE DEF register, gate
    <2>1. CASE UNCHANGED <<ledger, markers>>
      BY <2>1, StillRefines
    <2>2. ASSUME NEW p \in Appliers, AppendTrial(p) PROVE Abstract!Next
      BY <2>2, TrialRefines DEF AppendTrial
    <2>3. ASSUME NEW p \in Appliers, Breaks(p)
          PROVE  Abstract!Next \/ UNCHANGED Abstract!vars
      BY <2>1, <2>3, TrialRefines DEF Breaks
    <2> QED
      BY <2>1, <2>2, <2>3, AdmitRefines, RecordRefines
         DEF Next, Step, Repair, Scan, ReadTrials, Check, Lock, Prepare, WriteCard,
             StoreConfig, Commit, Appear, Tag, EditCard, RepairLedger, RemoveBrokenCard, vars
  <1> QED
    BY <1>1, InitRefines, BackfillInvariant, PTL
       DEF Spec, BackfillImplementsTrialRegister, Abstract!Spec
=============================================================================
