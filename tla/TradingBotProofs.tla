-------------------------- MODULE TradingBotProofs --------------------------
(* Proofs about TradingBot: its types, the position limits and the kill.   *)
EXTENDS TradingBot, FiniteSetTheorems, TLAPS

\* A job about to order was counted, and nothing has been opened since.
OrderFits == \A b \in Bots : job[b].at = "order" => BelowLimits(b, job[b].sym)

PositionInv ==
    /\ PositionLimits
    /\ \A b \in Bots : IsFiniteSet(pos[b])
    /\ OrderFits

Past(j) == j.at \in {"limits", "order"}

(***************************************************************************)
(* As long as a kill stands for a bot, the file is there or the bot has    *)
(* itself been killed, unless its process is down and holds no job; so an  *)
(* order past its check is the first since the kill was ordered.           *)
(***************************************************************************)
LateInv ==
    \A b \in Bots :
        /\ \A t \in Threads : kill[b][t] # NoKill => killed[b]
        /\ main[b] = "down" => job[b] = NoJob
        /\ late[b] # Never /\ ~overtaken[b] =>
              /\ killFile \/ killed[b] \/ main[b] = "down"
              /\ late[b] <= 1
              /\ Past(job[b]) => late[b] = 0

\* Positions are numbered in the order of their opening.
KnownIds ==
    \A b \in Bots :
        /\ \A p \in pos[b] : p.id <= orders
        /\ \A t \in Threads : kill[b][t] # NoKill => \A p \in kill[b][t].found : p.id <= orders

\* What a kill without failures has found and not to do any more is closed.
ClosedSoFar ==
    \A b \in Bots, t \in Threads :
        kill[b][t] # NoKill /\ kill[b][t].ok =>
            kill[b][t].found \cap pos[b] \subseteq kill[b][t].todo

-----------------------------------------------------------------------------
(* Types. *)

\* The bounds are natural numbers.
LEMMA Bounds ==
    /\ MaxConcurrent \in Nat /\ MaxPerSymbol \in Nat /\ Hours \in Nat /\ MaxOrders \in Nat
    /\ MaxFaults \in Nat /\ MaxCrashes \in Nat /\ MaxKills \in Nat /\ MaxRestarts \in Nat
  BY BotAssumption

\* Replacing the kill of one thread keeps the type of all.
LEMMA KillUpdate ==
  ASSUME TypeOK, NEW b \in Bots, NEW t \in Threads, NEW k \in Kills
  PROVE  [kill EXCEPT ![b][t] = k] \in [Bots -> [Threads -> Kills]]
  <1>1. kill \in [Bots -> [Threads -> Kills]]
    BY DEF TypeOK
  <1>2. kill[b] \in [Threads -> Kills]
    BY <1>1
  <1>3. [kill[b] EXCEPT ![t] = k] \in [Threads -> Kills]
    BY <1>2
  <1> QED
    BY <1>1, <1>3

\* A thread that begins a kill carries one out or none, and is stopped.
LEMMA BeginTypes ==
  ASSUME TypeOK, NEW b \in Bots, NEW t \in Threads, BeginKill(b, t)
  PROVE  /\ killed' \in [Bots -> BOOLEAN] /\ stopped' \in [Bots -> BOOLEAN]
         /\ kill' \in [Bots -> [Threads -> Kills]]
         /\ faults' \in 0..MaxFaults
  <1>1. killed' \in [Bots -> BOOLEAN] /\ stopped' \in [Bots -> BOOLEAN]
    BY DEF TypeOK, BeginKill
  <1>2. faults' \in 0..MaxFaults
    BY Bounds DEF TypeOK, BeginKill, Fault
  <1>3. [at |-> "closing", found |-> pos[b], todo |-> pos[b], ok |-> TRUE] \in Kills
    BY DEF TypeOK, Kills
  <1>4. kill' \in [Bots -> [Threads -> Kills]]
    <2> DEFINE begun == [at |-> "closing", found |-> pos[b], todo |-> pos[b], ok |-> TRUE]
    <2>1. kill' = kill \/ kill' = [kill EXCEPT ![b][t] = begun]
      BY DEF BeginKill
    <2>2. begun \in Kills
      BY <1>3
    <2>3. kill \in [Bots -> [Threads -> Kills]]
      BY DEF TypeOK
    <2> HIDE DEF begun
    <2> QED
      BY <2>1, <2>2, <2>3, KillUpdate
  <1> QED
    BY <1>1, <1>2, <1>4

\* A thread that closes positions carries out a kill of the right type.
LEMMA KillTypes ==
  ASSUME TypeOK, NEW b \in Bots, NEW t \in Threads, kill[b][t] # NoKill
  PROVE  kill[b][t] \in [at : {"closing"}, found : SUBSET Positions,
                         todo : SUBSET Positions, ok : BOOLEAN]
  <1>1. kill[b][t] \in Kills
    BY DEF TypeOK
  <1> QED
    BY <1>1 DEF Kills

\* A job that is not idle may go to any of its stages.
LEMMA GotoTypes ==
  ASSUME TypeOK, NEW b \in Bots, job[b] # NoJob,
         NEW at \in {"check", "kill", "limits", "order"}, Goto(b, at)
  PROVE  job' \in [Bots -> Jobs] /\ job'[b].at = at /\ job'[b].sym = job[b].sym
  <1>1. job[b] \in [at : {"check", "kill", "limits", "order"}, sym : Symbols]
    BY DEF TypeOK, Jobs
  <1>2. [job[b] EXCEPT !.at = at] \in [at : {"check", "kill", "limits", "order"}, sym : Symbols]
    BY <1>1
  <1> QED
    BY <1>1, <1>2 DEF TypeOK, Jobs, Goto

LEMMA DropTypes ==
  ASSUME TypeOK, NEW b \in Bots, Drop(b)
  PROVE  job' \in [Bots -> Jobs] /\ job'[b].at = "idle"
  BY DEF TypeOK, Drop, Jobs, NoJob

Places == {"down", "init", "loop", "killing", "rest", "sleep", "scan", "cleanup", "done"}

LEMMA MainTypes == TypeOK => main \in [Bots -> Places]
  BY DEF TypeOK, Places

LEMMA Update ==
  ASSUME NEW D, NEW R, NEW f \in [D -> R], NEW d \in D, NEW value \in R
  PROVE  [f EXCEPT ![d] = value] \in [D -> R]
  OBVIOUS

\* Every step preserves the types.
LEMMA TypeStep == TypeOK /\ [Next]_vars => TypeOK'
  <1> SUFFICES ASSUME TypeOK, [Next]_vars PROVE TypeOK'
    OBVIOUS
  <1> USE Bounds DEF signals, watch, budgets
  <1>1. CASE StartProcess
    <2>1. late' \in [Bots -> {Never} \cup Nat] /\ overtaken' \in [Bots -> BOOLEAN]
      <3>1. CASE killFile
        BY <1>1, <3>1 DEF StartProcess, TypeOK
      <3>2. CASE ~killFile
        BY <1>1, <3>2 DEF StartProcess
      <3> QED
        BY <3>1, <3>2
    <2> QED
      BY <1>1, <2>1 DEF StartProcess, TypeOK
  <1>2. CASE EndProcess
    BY <1>2 DEF EndProcess, TypeOK, Jobs, NoKills, Kills, Never
  <1>3. CASE OrderKill \/ OrderRestart \/ HourPasses
    <2>1. CASE OrderKill
      BY <2>1 DEF OrderKill, TypeOK
    <2>2. CASE OrderRestart
      BY <2>2 DEF OrderRestart, TypeOK
    <2>3. CASE HourPasses
      BY <2>3 DEF HourPasses, TypeOK
    <2> QED
      BY <1>3, <2>1, <2>2, <2>3
  <1>4. ASSUME NEW b \in Bots, StopHit(b) PROVE TypeOK'
    BY <1>4 DEF StopHit, TypeOK
  <1>5. ASSUME NEW b \in Bots, Main(b) PROVE TypeOK'
    <2>1. CASE Initialize(b)
      <3>1. faults' \in 0..MaxFaults
        BY <2>1 DEF Initialize, Fault, TypeOK
      <3>2. main' \in [Bots -> Places]
        <4>1. main' = [main EXCEPT ![b] = "loop"] \/ main' = [main EXCEPT ![b] = "done"]
          BY <2>1 DEF Initialize
        <4> QED
          BY <4>1, MainTypes, Update DEF Places
      <3>3. mode' \in [Bots -> {"stream", "poll"}]
        <4>1. mode' = mode \/ \E m \in {"stream", "poll"} : mode' = [mode EXCEPT ![b] = m]
          BY <2>1 DEF Initialize
        <4>2. mode \in [Bots -> {"stream", "poll"}]
          BY DEF TypeOK
        <4> QED
          BY <4>1, <4>2, Update
      <3>4. connected' \in [Bots -> BOOLEAN]
        <4>1. connected' = connected \/ connected' = [connected EXCEPT ![b] = TRUE]
          BY <2>1 DEF Initialize
        <4>2. connected \in [Bots -> BOOLEAN]
          BY DEF TypeOK
        <4> QED
          BY <4>1, <4>2, Update
      <3> QED
        BY <2>1, <3>1, <3>2, <3>3, <3>4 DEF Initialize, TypeOK, Places
    <2>2. CASE MainCheck(b)
      <3>1. /\ killed' \in [Bots -> BOOLEAN] /\ stopped' \in [Bots -> BOOLEAN]
            /\ kill' \in [Bots -> [Threads -> Kills]]
            /\ faults' \in 0..MaxFaults
        BY <2>2, BeginTypes DEF MainCheck, TypeOK, Threads
      <3> QED
        BY <2>2, <3>1 DEF MainCheck, TypeOK
    <2>3. CASE MainGoesOn(b) \/ MainSleeps(b) \/ Cleanup(b)
      <3>1. CASE MainGoesOn(b)
        <4>1. main' \in [Bots -> Places]
          <5>1. \E at \in {"cleanup", "sleep", "scan"} : main' = [main EXCEPT ![b] = at]
            BY <3>1 DEF MainGoesOn
          <5> QED
            BY <5>1, MainTypes, Update DEF Places
        <4>2. restartFile' \in BOOLEAN
          BY <3>1 DEF MainGoesOn, TypeOK
        <4>3. scan' \in [Bots -> SUBSET Symbols]
          <5>1. scan' = scan \/ scan' = [scan EXCEPT ![b] = Symbols]
            BY <3>1 DEF MainGoesOn
          <5>2. scan \in [Bots -> SUBSET Symbols] /\ Symbols \in SUBSET Symbols
            BY DEF TypeOK
          <5> QED
            BY <5>1, <5>2, Update
        <4> QED
          BY <3>1, <4>1, <4>2, <4>3 DEF MainGoesOn, TypeOK, Places
      <3>2. CASE MainSleeps(b)
        BY <3>2 DEF MainSleeps, TypeOK
      <3>3. CASE Cleanup(b)
        BY <3>3 DEF Cleanup, TypeOK
      <3> QED
        BY <2>3, <3>1, <3>2, <3>3
    <2> QED
      BY <1>5, <2>1, <2>2, <2>3 DEF Main
  <1>6. ASSUME NEW b \in Bots, Job(b) PROVE TypeOK'
    <2> job[b] # NoJob
      BY <1>6 DEF Job, JobCheck, JobLimits, JobOrder, NoJob
    <2>1. job' \in [Bots -> Jobs]
      BY <1>6, GotoTypes, DropTypes DEF Job, JobCheck, JobLimits, JobOrder, TypeOK
    <2>2. CASE JobCheck(b)
      <3>1. /\ killed' \in [Bots -> BOOLEAN] /\ stopped' \in [Bots -> BOOLEAN]
            /\ kill' \in [Bots -> [Threads -> Kills]]
            /\ faults' \in 0..MaxFaults
        BY <2>2, BeginTypes DEF JobCheck, TypeOK, Threads, Worker
      <3> QED
        BY <2>1, <2>2, <3>1 DEF JobCheck, TypeOK
    <2>3. CASE JobLimits(b)
      BY <2>1, <2>3 DEF JobLimits, TypeOK
    <2>4. CASE JobOrder(b)
      <3>1. CASE UNCHANGED <<pos, orders, late>>
        BY <2>1, <2>4, <3>1 DEF JobOrder, TypeOK
      <3>2. CASE ~UNCHANGED <<pos, orders, late>>
        <4>1. /\ orders < MaxOrders /\ orders' = orders + 1
              /\ pos' = [pos EXCEPT ![b] = @ \cup {[sym |-> job[b].sym, id |-> orders + 1]}]
              /\ late' = IF late[b] = Never THEN late ELSE [late EXCEPT ![b] = @ + 1]
          BY <2>4, <3>2 DEF JobOrder
        <4>2. orders' \in 0..MaxOrders /\ late' \in [Bots -> {Never} \cup Nat]
          BY <4>1 DEF TypeOK
        <4>3. job[b].sym \in Symbols
          BY DEF TypeOK, Jobs
        <4>4. [sym |-> job[b].sym, id |-> orders + 1] \in Positions
          BY <4>1, <4>3 DEF TypeOK, Positions
        <4>5. pos' \in [Bots -> SUBSET Positions]
          BY <4>1, <4>4 DEF TypeOK
        <4> QED
          BY <2>1, <2>4, <4>2, <4>5 DEF JobOrder, TypeOK
      <3> QED
        BY <3>1, <3>2
    <2> QED
      BY <1>6, <2>2, <2>3, <2>4 DEF Job
  <1>7. ASSUME NEW b \in Bots, NEW t \in Threads, CloseOne(b, t) PROVE TypeOK'
    <2>1. PICK p \in kill[b][t].todo :
             /\ pos' \in {pos, [pos EXCEPT ![b] = @ \ {p}]}
             /\ \/ kill' = [kill EXCEPT ![b][t].todo = @ \ {p}]
                \/ kill' = [kill EXCEPT ![b][t].todo = @ \ {p}, ![b][t].ok = FALSE]
             /\ Fault \/ UNCHANGED faults
      BY <1>7 DEF CloseOne
    <2>2. kill[b][t] \in [at : {"closing"}, found : SUBSET Positions,
                          todo : SUBSET Positions, ok : BOOLEAN]
      BY <1>7, KillTypes DEF CloseOne
    <2>3. /\ [kill[b][t] EXCEPT !.todo = @ \ {p}] \in Kills
          /\ [kill[b][t] EXCEPT !.todo = @ \ {p}, !.ok = FALSE] \in Kills
      BY <2>2 DEF Kills
    <2>4. kill' \in [Bots -> [Threads -> Kills]]
      <3>1. \/ kill' = [kill EXCEPT ![b][t] = [kill[b][t] EXCEPT !.todo = @ \ {p}]]
            \/ kill' = [kill EXCEPT ![b][t] = [kill[b][t] EXCEPT !.todo = @ \ {p}, !.ok = FALSE]]
        BY <2>1, <2>2 DEF TypeOK
      <3> DEFINE done   == [kill[b][t] EXCEPT !.todo = @ \ {p}]
                 failed == [kill[b][t] EXCEPT !.todo = @ \ {p}, !.ok = FALSE]
      <3>2. /\ kill' = [kill EXCEPT ![b][t] = done] \/ kill' = [kill EXCEPT ![b][t] = failed]
            /\ done \in Kills /\ failed \in Kills
        BY <2>3, <3>1
      <3> HIDE DEF done, failed
      <3> QED
        BY <3>2, KillUpdate
    <2>5. pos' \in [Bots -> SUBSET Positions]
      <3>1. pos \in [Bots -> SUBSET Positions] /\ pos[b] \ {p} \in SUBSET Positions
        BY DEF TypeOK
      <3> QED
        BY <2>1, <3>1
    <2>6. faults' \in 0..MaxFaults
      BY <2>1 DEF TypeOK, Fault
    <2> QED
      BY <1>7, <2>4, <2>5, <2>6 DEF CloseOne, TypeOK
  <1>8. ASSUME NEW b \in Bots, NEW t \in Threads, EndKill(b, t) PROVE TypeOK'
    <2>1. job' \in [Bots -> Jobs] /\ kill' \in [Bots -> [Threads -> Kills]]
      BY <1>8, DropTypes DEF EndKill, TypeOK, Kills
    <2>2. kill[b][t].ok \in BOOLEAN
      BY <1>8, KillTypes DEF EndKill
    <2> QED
      BY <1>8, <2>1, <2>2 DEF EndKill, TypeOK
  <1>9. ASSUME NEW b \in Bots, NEW s \in Symbols, Bar(b, s) \/ Scan(b, s) PROVE TypeOK'
    <2>1. ASSUME Signal(b, s)
          PROVE  /\ job' \in [Bots -> Jobs]
                 /\ signalled' \in [Bots -> [Symbols -> {Never} \cup 0..Hours]]
      <3>1. [at |-> "check", sym |-> s] \in Jobs
        BY DEF Jobs
      <3> QED
        BY <2>1, <3>1 DEF Signal, TypeOK
    <2>2. CASE Bar(b, s)
      BY <2>1, <2>2 DEF Bar, TypeOK
    <2>3. CASE Scan(b, s)
      <3>1. /\ job' \in [Bots -> Jobs]
            /\ signalled' \in [Bots -> [Symbols -> {Never} \cup 0..Hours]]
        BY <2>1, <2>3 DEF Scan, TypeOK
      <3>2. scan' \in [Bots -> SUBSET Symbols]
        BY <2>3 DEF Scan, TypeOK
      <3> QED
        BY <2>3, <3>1, <3>2 DEF Scan, TypeOK
    <2> QED
      BY <1>9, <2>2, <2>3
  <1>10. CASE UNCHANGED vars
    BY <1>10 DEF vars, TypeOK
  <1> QED
    BY <1>1, <1>2, <1>3, <1>4, <1>5, <1>6, <1>7, <1>8, <1>9, <1>10 DEF Next, Kill

\* The initial state has the types.
LEMMA TypeInit == Init => TypeOK
  <1> SUFFICES ASSUME Init PROVE TypeOK
    OBVIOUS
  <1>1. NoKills \in [Threads -> Kills] /\ NoJob \in Jobs
    BY DEF NoKills, Kills, Jobs
  <1> QED
    <2>1. kill \in [Bots -> [Threads -> Kills]] /\ job \in [Bots -> Jobs]
      BY <1>1 DEF Init
    <2>2. signalled \in [Bots -> [Symbols -> {Never} \cup 0..Hours]]
      BY DEF Init
    <2>3. /\ hour \in 0..Hours /\ orders \in 0..MaxOrders /\ faults \in 0..MaxFaults
          /\ crashes \in 0..MaxCrashes /\ kills \in 0..MaxKills /\ restarts \in 0..MaxRestarts
      BY Bounds DEF Init
    <2> QED
      BY <2>1, <2>2, <2>3 DEF Init, TypeOK

\* TypeOK: every variable keeps its type, for any number of bots, symbols and faults.
THEOREM TypeSafety == Spec => []TypeOK
  BY TypeInit, TypeStep, PTL DEF Spec
-----------------------------------------------------------------------------
(***************************************************************************)
(* Position limits: what was counted before an order stays an upper bound, *)
(* because only the one job of the bot opens positions.                    *)
(***************************************************************************)

\* Fewer positions count for less, in all and of each symbol.
LEMMA FewerCount ==
  ASSUME NEW S, IsFiniteSet(S), NEW T \in SUBSET S
  PROVE  /\ IsFiniteSet(T)
         /\ Cardinality(T) <= Cardinality(S)
         /\ Cardinality(S) \in Nat /\ Cardinality(T) \in Nat
         /\ \A s : /\ Cardinality(Of(T, s)) <= Cardinality(Of(S, s))
                   /\ Cardinality(Of(S, s)) \in Nat
                   /\ Cardinality(Of(T, s)) \in Nat
  <1>1. IsFiniteSet(T) /\ Cardinality(T) <= Cardinality(S)
    BY FS_Subset
  <1>2. ASSUME NEW s
        PROVE  /\ Cardinality(Of(T, s)) <= Cardinality(Of(S, s))
               /\ IsFiniteSet(Of(S, s)) /\ IsFiniteSet(Of(T, s))
    <2>1. IsFiniteSet(Of(S, s))
      BY FS_Subset DEF Of
    <2>2. Of(T, s) \in SUBSET Of(S, s)
      BY DEF Of
    <2> QED
      BY <2>1, <2>2, FS_Subset
  <1> QED
    BY <1>1, <1>2, FS_CardinalityType

\* One position more counts for at most one more, and only of its symbol.
LEMMA OneMoreCounts ==
  ASSUME NEW S, IsFiniteSet(S), NEW x
  PROVE  /\ IsFiniteSet(S \cup {x})
         /\ Cardinality(S \cup {x}) <= Cardinality(S) + 1
         /\ \A s : Cardinality(Of(S \cup {x}, s))
                     <= Cardinality(Of(S, s)) + (IF x.sym = s THEN 1 ELSE 0)
  <1>1. /\ IsFiniteSet(S \cup {x})
        /\ Cardinality(S \cup {x}) <= Cardinality(S) + 1
    <2>1. Cardinality(S) \in Nat
      BY FS_CardinalityType
    <2>2. /\ IsFiniteSet(S \cup {x})
          /\ Cardinality(S \cup {x}) = IF x \in S THEN Cardinality(S) ELSE Cardinality(S) + 1
      BY FS_AddElement
    <2> QED
      BY <2>1, <2>2
  <1>2. ASSUME NEW s
        PROVE  Cardinality(Of(S \cup {x}, s))
                 <= Cardinality(Of(S, s)) + (IF x.sym = s THEN 1 ELSE 0)
    <2> DEFINE old == Of(S, s)
    <2>1. IsFiniteSet(old) /\ Cardinality(old) \in Nat
      BY FS_Subset, FS_CardinalityType DEF Of
    <2>2. CASE x.sym = s
      <3>1. Of(S \cup {x}, s) = old \cup {x}
        BY <2>2 DEF Of
      <3>2. Cardinality(old \cup {x}) <= Cardinality(old) + 1
        BY <2>1, FS_AddElement
      <3> QED
        BY <2>2, <3>1, <3>2
    <2>3. CASE x.sym # s
      <3>1. Of(S \cup {x}, s) = old
        BY <2>3 DEF Of
      <3> QED
        BY <2>1, <2>3, <3>1
    <2> QED
      BY <2>2, <2>3
  <1> QED
    BY <1>1, <1>2

\* A step that opens no position and lets no uncounted job order keeps the limits.
LEMMA NothingOpened ==
  ASSUME TypeOK, PositionInv,
         \A b \in Bots : pos'[b] \in SUBSET pos[b],
         \A b \in Bots : job'[b].at = "order" => BelowLimits(b, job'[b].sym)
  PROVE  PositionInv'
  <1>1. ASSUME NEW b \in Bots
        PROVE  /\ IsFiniteSet(pos'[b])
               /\ Cardinality(pos'[b]) <= MaxConcurrent
               /\ \A s \in Symbols : Cardinality(Of(pos'[b], s)) <= MaxPerSymbol
    <2>1. IsFiniteSet(pos[b]) /\ pos'[b] \in SUBSET pos[b]
      BY DEF PositionInv
    <2>2. /\ Cardinality(pos[b]) <= MaxConcurrent
          /\ \A s \in Symbols : Cardinality(Of(pos[b], s)) <= MaxPerSymbol
      BY DEF PositionInv, PositionLimits
    <2>3. /\ IsFiniteSet(pos'[b])
          /\ Cardinality(pos'[b]) <= Cardinality(pos[b])
          /\ Cardinality(pos'[b]) \in Nat /\ Cardinality(pos[b]) \in Nat
          /\ \A s : /\ Cardinality(Of(pos'[b], s)) <= Cardinality(Of(pos[b], s))
                    /\ Cardinality(Of(pos'[b], s)) \in Nat
                    /\ Cardinality(Of(pos[b], s)) \in Nat
      BY <2>1, FewerCount
    <2> QED
      BY <2>2, <2>3, Bounds
  <1>2. ASSUME NEW b \in Bots, job'[b].at = "order" PROVE BelowLimits(b, job[b].sym)'
    <2>1. BelowLimits(b, job'[b].sym) /\ IsFiniteSet(pos[b]) /\ pos'[b] \in SUBSET pos[b]
      BY <1>2 DEF PositionInv
    <2> DEFINE s == job'[b].sym
    <2>2. /\ Cardinality(pos[b]) < MaxConcurrent
          /\ Cardinality(Of(pos[b], s)) < MaxPerSymbol
      BY <2>1 DEF BelowLimits
    <2>3. /\ Cardinality(pos'[b]) < MaxConcurrent
          /\ Cardinality(Of(pos'[b], s)) < MaxPerSymbol
      <3>1. /\ Cardinality(pos'[b]) <= Cardinality(pos[b])
            /\ Cardinality(pos'[b]) \in Nat /\ Cardinality(pos[b]) \in Nat
        BY <2>1, FewerCount
      <3>2. /\ Cardinality(Of(pos'[b], s)) <= Cardinality(Of(pos[b], s))
            /\ Cardinality(Of(pos'[b], s)) \in Nat /\ Cardinality(Of(pos[b], s)) \in Nat
        BY <2>1, FewerCount
      <3> HIDE DEF s
      <3> QED
        BY <2>2, <3>1, <3>2, Bounds
    <2> QED
      BY <2>3 DEF BelowLimits
  <1> QED
    BY <1>1, <1>2 DEF PositionInv, PositionLimits, OrderFits

\* Every step keeps the limits.
LEMMA PositionStep == TypeOK /\ PositionInv /\ [Next]_vars => PositionInv'
  <1> SUFFICES ASSUME TypeOK, PositionInv, [Next]_vars PROVE PositionInv'
    OBVIOUS
  <1> DEFINE Fewer == \A b \in Bots : pos'[b] \in SUBSET pos[b]
             Fits  == \A b \in Bots : job'[b].at = "order" => BelowLimits(b, job'[b].sym)
  <1>a. Fewer /\ Fits => PositionInv'
    BY NothingOpened
  <1>b. UNCHANGED pos => Fewer
    OBVIOUS
  <1>c. UNCHANGED job => Fits
    BY DEF PositionInv, OrderFits
  <1>d. ASSUME NEW b \in Bots, Drop(b) PROVE Fits
    BY <1>d, DropTypes DEF Drop, TypeOK, PositionInv, OrderFits
  <1>e. ASSUME NEW b \in Bots, NEW at \in {"check", "kill", "limits", "order"}, Goto(b, at),
               job[b] # NoJob, at = "order" => BelowLimits(b, job[b].sym)
        PROVE  Fits
    <2>1. job'[b].at = at /\ job'[b].sym = job[b].sym
      BY <1>e, GotoTypes
    <2> QED
      BY <1>e, <2>1 DEF Goto, TypeOK, PositionInv, OrderFits
  <1>f. ASSUME NEW b \in Bots, NEW s \in Symbols, Signal(b, s) PROVE Fits
    BY <1>f DEF Signal, TypeOK, PositionInv, OrderFits
  <1>g. ASSUME NEW b \in Bots, NEW p, pos' = [pos EXCEPT ![b] = @ \ {p}] PROVE Fewer
    BY <1>g DEF TypeOK
  <1> HIDE DEF Fewer, Fits
  <1> USE DEF signals, watch, budgets
  <1>1. CASE StartProcess \/ OrderKill \/ OrderRestart \/ HourPasses
    BY <1>1, <1>a, <1>b, <1>c DEF StartProcess, OrderKill, OrderRestart, HourPasses
  <1>2. CASE EndProcess
    <2>1. \A b \in Bots : job'[b].at = "idle"
      BY <1>2 DEF EndProcess, NoJob
    <2>2. Fits
      BY <2>1 DEF Fits
    <2> QED
      BY <1>2, <2>2, <1>a, <1>b DEF EndProcess
  <1>3. ASSUME NEW b \in Bots, StopHit(b) PROVE PositionInv'
    BY <1>3, <1>a, <1>c, <1>g DEF StopHit
  <1>4. ASSUME NEW b \in Bots, Main(b) PROVE PositionInv'
    BY <1>4, <1>a, <1>b, <1>c
       DEF Main, Initialize, MainCheck, MainGoesOn, MainSleeps, Cleanup
  <1>5. ASSUME NEW b \in Bots, JobCheck(b) \/ JobLimits(b) PROVE PositionInv'
    <2>1. job[b] # NoJob /\ UNCHANGED pos
      BY <1>5 DEF JobCheck, JobLimits, NoJob
    <2>2. \/ Drop(b)
          \/ Goto(b, "kill") \/ Goto(b, "limits")
          \/ Goto(b, "order") /\ BelowLimits(b, job[b].sym)
      BY <1>5 DEF JobCheck, JobLimits
    <2> QED
      BY <2>1, <2>2, <1>a, <1>b, <1>d, <1>e
  <1>6. ASSUME NEW b \in Bots, JobOrder(b) PROVE PositionInv'
    <2>1. Drop(b) /\ job[b].at = "order"
      BY <1>6 DEF JobOrder
    <2>2. CASE UNCHANGED pos
      BY <2>1, <2>2, <1>a, <1>b, <1>d
    <2>3. CASE ~UNCHANGED pos
      <3> DEFINE x == [sym |-> job[b].sym, id |-> orders + 1]
      <3>1. pos' = [pos EXCEPT ![b] = @ \cup {x}] /\ x.sym = job[b].sym
        BY <1>6, <2>3 DEF JobOrder
      <3> HIDE DEF x
      <3>2. /\ pos'[b] = pos[b] \cup {x} /\ IsFiniteSet(pos[b])
            /\ \A c \in Bots \ {b} : pos'[c] = pos[c]
        BY <3>1 DEF TypeOK, PositionInv
      <3>3. /\ Cardinality(pos[b]) < MaxConcurrent
            /\ Cardinality(Of(pos[b], x.sym)) < MaxPerSymbol
        BY <2>1, <3>1 DEF PositionInv, OrderFits, BelowLimits
      <3>4. /\ IsFiniteSet(pos'[b])
            /\ Cardinality(pos'[b]) <= MaxConcurrent
        <4>1. /\ IsFiniteSet(pos[b] \cup {x})
              /\ Cardinality(pos[b] \cup {x}) <= Cardinality(pos[b]) + 1
              /\ Cardinality(pos[b] \cup {x}) \in Nat /\ Cardinality(pos[b]) \in Nat
          BY <3>2, OneMoreCounts, FS_CardinalityType
        <4> QED
          BY <3>2, <3>3, <4>1, Bounds
      <3>5. ASSUME NEW s \in Symbols PROVE Cardinality(Of(pos'[b], s)) <= MaxPerSymbol
        <4> DEFINE old == Cardinality(Of(pos[b], s))
                   new == Cardinality(Of(pos[b] \cup {x}, s))
        <4>1. old \in Nat /\ new \in Nat
          BY <3>2, FewerCount, OneMoreCounts
        <4>2. new <= old + (IF x.sym = s THEN 1 ELSE 0)
          BY <3>2, OneMoreCounts
        <4>3. old <= MaxPerSymbol /\ (x.sym = s => old < MaxPerSymbol)
          BY <3>3 DEF PositionInv, PositionLimits
        <4> HIDE DEF old, new
        <4>4. new <= MaxPerSymbol
          BY <4>1, <4>2, <4>3, Bounds
        <4> QED
          BY <3>2, <4>4 DEF new
      <3>6. \A c \in Bots \ {b} :
               /\ IsFiniteSet(pos'[c])
               /\ Cardinality(pos'[c]) <= MaxConcurrent
               /\ \A s \in Symbols : Cardinality(Of(pos'[c], s)) <= MaxPerSymbol
        BY <3>2 DEF PositionInv, PositionLimits
      <3>7. OrderFits'
        <4>1. job'[b].at = "idle" /\ \A c \in Bots \ {b} : job'[c] = job[c]
          BY <2>1, DropTypes DEF Drop, TypeOK
        <4> QED
          BY <3>2, <4>1 DEF PositionInv, OrderFits, BelowLimits
      <3> QED
        BY <3>4, <3>5, <3>6, <3>7 DEF PositionInv, PositionLimits
    <2> QED
      BY <2>2, <2>3
  <1>7. ASSUME NEW b \in Bots, NEW t \in Threads, CloseOne(b, t) PROVE PositionInv'
    <2>1. UNCHANGED job /\ (UNCHANGED pos \/ \E p : pos' = [pos EXCEPT ![b] = @ \ {p}])
      BY <1>7 DEF CloseOne
    <2> QED
      BY <2>1, <1>a, <1>b, <1>c, <1>g
  <1>8. ASSUME NEW b \in Bots, NEW t \in Threads, EndKill(b, t) PROVE PositionInv'
    BY <1>8, <1>a, <1>b, <1>c, <1>d DEF EndKill
  <1>9. ASSUME NEW b \in Bots, NEW s \in Symbols, Bar(b, s) \/ Scan(b, s) PROVE PositionInv'
    BY <1>9, <1>a, <1>b, <1>c, <1>f DEF Bar, Scan
  <1>10. CASE UNCHANGED vars
    BY <1>10, <1>a, <1>b, <1>c DEF vars
  <1> QED
    BY <1>1, <1>2, <1>3, <1>4, <1>5, <1>6, <1>7, <1>8, <1>9, <1>10 DEF Next, Job, Kill

\* No position is open at first.
LEMMA PositionInit == Init => PositionInv
  <1> SUFFICES ASSUME Init PROVE PositionInv
    OBVIOUS
  <1>1. \A s : Of({}, s) = {}
    BY DEF Of
  <1>2. \A b \in Bots : pos[b] = {} /\ job[b].at = "idle"
    BY DEF Init, NoJob
  <1>3. IsFiniteSet({}) /\ Cardinality({}) = 0
    BY FS_EmptySet
  <1> QED
    <2>1. OrderFits
      BY <1>2 DEF OrderFits
    <2>2. ASSUME NEW b \in Bots
          PROVE  /\ IsFiniteSet(pos[b])
                 /\ Cardinality(pos[b]) = 0
                 /\ \A s \in Symbols : Cardinality(Of(pos[b], s)) = 0
      BY <1>1, <1>2, <1>3
    <2> QED
      BY <2>1, <2>2, Bounds DEF PositionInv, PositionLimits

\* PositionLimits: no account ever holds more positions than its limits allow.
THEOREM PositionSafety == Spec => []PositionLimits
  <1>1. Init => TypeOK /\ PositionInv
    BY TypeInit, PositionInit
  <1>2. TypeOK /\ PositionInv /\ [Next]_vars => (TypeOK /\ PositionInv)'
    BY TypeStep, PositionStep
  <1>3. PositionInv => PositionLimits
    BY DEF PositionInv
  <1> QED
    BY <1>1, <1>2, <1>3, PTL DEF Spec
-----------------------------------------------------------------------------
(***************************************************************************)
(* The kill: an order is past its check at most once after it was ordered, *)
(* and a kill that reports success has closed all it found.                *)
(***************************************************************************)

\* What the invariant says of a bot that nobody overtook.
LEMMA LateBound ==
  ASSUME TypeOK, LateInv, NEW b \in Bots, ~overtaken[b]
  PROVE  late[b] <= 1 /\ ~(late[b] > 1)
  <1>1. late[b] \in {-1} \cup Nat
    BY DEF TypeOK, Never
  <1>2. late[b] # -1 => late[b] <= 1
    BY DEF LateInv, Never
  <1> QED
    BY <1>1, <1>2

\* The one order past its check.
LEMMA LateStep == TypeOK /\ LateInv /\ [Next]_vars => LateInv'
  <1> SUFFICES ASSUME TypeOK, LateInv, [Next]_vars PROVE LateInv'
    OBVIOUS
  <1> USE DEF signals, watch, budgets
  \* A step that orders and fills nothing, takes no signal away and passes no check.
  <1>a. ASSUME UNCHANGED <<killFile, late, overtaken>>,
               \A b \in Bots :
                  /\ Past(job'[b]) => Past(job[b])
                  /\ killed[b] => killed'[b]
                  /\ \A t \in Threads : kill'[b][t] # NoKill => kill[b][t] # NoKill \/ killed'[b]
                  /\ main'[b] = "down" => main[b] = "down" /\ job'[b] = NoJob
                  /\ main[b] = "down" => main'[b] = "down" \/ killed[b]
        PROVE  LateInv'
    BY <1>a DEF LateInv
  <1>b. ASSUME NEW b \in Bots, Drop(b)
        PROVE  \A c \in Bots : /\ Past(job'[c]) => Past(job[c])
                               /\ job'[c] = job[c] \/ job'[c] = NoJob
    BY <1>b, DropTypes DEF Drop, TypeOK, Past
  <1>c. ASSUME NEW b \in Bots, NEW t \in Threads, BeginKill(b, t)
        PROVE  \A c \in Bots :
                  /\ killed[c] => killed'[c]
                  /\ \A u \in Threads : kill'[c][u] # NoKill => kill[c][u] # NoKill \/ killed'[c]
    <2>1. killed'[b] /\ \A c \in Bots \ {b} : killed'[c] = killed[c]
      BY <1>c DEF BeginKill, TypeOK
    <2>2. \A c \in Bots \ {b} : kill'[c] = kill[c]
      BY <1>c DEF BeginKill, TypeOK
    <2> QED
      BY <2>1, <2>2
  <1>1. CASE StartProcess
    <2>1. /\ \A b \in Bots : main'[b] # "down"
          /\ \A b \in Bots : job[b] = NoJob
          /\ UNCHANGED <<kill, killed, job, killFile>>
      BY <1>1 DEF StartProcess, LateInv
    <2>2. CASE killFile
      BY <1>1, <2>1, <2>2 DEF StartProcess, LateInv
    <2>3. CASE ~killFile
      <3>1. \A b \in Bots : late'[b] = Never
        BY <1>1, <2>3 DEF StartProcess
      <3> QED
        BY <2>1, <3>1 DEF LateInv
    <2> QED
      BY <2>2, <2>3
  <1>2. CASE EndProcess
    <2>1. \A b \in Bots : /\ job'[b] = NoJob /\ main'[b] = "down"
                          /\ \A t \in Threads : kill'[b][t] = NoKill
      BY <1>2 DEF EndProcess, NoKills
    <2> QED
      BY <1>2, <2>1 DEF EndProcess, LateInv, NoJob, Past
  <1>3. CASE OrderKill
    BY <1>3 DEF OrderKill, LateInv
  <1>4. CASE OrderRestart \/ HourPasses
    BY <1>4, <1>a DEF OrderRestart, HourPasses, LateInv
  <1>5. ASSUME NEW b \in Bots, StopHit(b) PROVE LateInv'
    BY <1>5, <1>a DEF StopHit, LateInv
  <1>6. ASSUME NEW b \in Bots, Main(b) PROVE LateInv'
    <2>1. /\ main[b] # "down" /\ main'[b] # "down"
          /\ \A c \in Bots \ {b} : main'[c] = main[c]
          /\ UNCHANGED <<killFile, late, overtaken, job>>
      <3>1. CASE Initialize(b)
        BY <3>1 DEF Initialize, TypeOK
      <3>2. CASE MainCheck(b)
        BY <3>2 DEF MainCheck, TypeOK
      <3>3. CASE MainGoesOn(b)
        BY <3>3 DEF MainGoesOn, TypeOK
      <3>4. CASE MainSleeps(b)
        BY <3>4 DEF MainSleeps, TypeOK
      <3>5. CASE Cleanup(b)
        BY <3>5 DEF Cleanup, TypeOK
      <3> QED
        BY <1>6, <3>1, <3>2, <3>3, <3>4, <3>5 DEF Main
    <2>2. UNCHANGED <<killed, kill>> \/ BeginKill(b, "main")
      BY <1>6 DEF Main, Initialize, MainCheck, MainGoesOn, MainSleeps, Cleanup
    <2>3. \A c \in Bots :
             /\ killed[c] => killed'[c]
             /\ \A u \in Threads : kill'[c][u] # NoKill => kill[c][u] # NoKill \/ killed'[c]
      BY <2>2, <1>c DEF Threads
    <2> QED
      BY <2>1, <2>3, <1>a DEF LateInv
  <1>7. ASSUME NEW b \in Bots, JobCheck(b) PROVE LateInv'
    <2>1. /\ job[b].at = "check" /\ job[b] # NoJob /\ main[b] # "down"
          /\ UNCHANGED <<killFile, late, overtaken, main>>
      BY <1>7 DEF JobCheck, NoJob, LateInv
    <2>2. CASE killed[b] \/ killFile
      <3>1. \A c \in Bots :
               /\ killed[c] => killed'[c]
               /\ \A u \in Threads : kill'[c][u] # NoKill => kill[c][u] # NoKill \/ killed'[c]
        BY <1>7, <2>2, <1>c DEF JobCheck, Worker, Threads
      <3>2. \A c \in Bots : /\ Past(job'[c]) => Past(job[c])
                            /\ c # b => job'[c] = job[c]
        <4>1. CASE Drop(b)
          BY <4>1, <1>b DEF Drop, TypeOK
        <4>2. CASE Goto(b, "kill")
          <5>1. job'[b].at = "kill"
            BY <2>1, <4>2, GotoTypes
          <5> QED
            BY <4>2, <5>1 DEF Goto, TypeOK, Past
        <4> QED
          BY <1>7, <2>2, <4>1, <4>2 DEF JobCheck
      <3> QED
        BY <2>1, <3>1, <3>2, <1>a DEF LateInv
    <2>3. CASE ~killed[b] /\ ~killFile
      <3>1. Goto(b, "limits") /\ UNCHANGED <<killed, kill>>
        BY <1>7, <2>3 DEF JobCheck
      <3>2. \A c \in Bots \ {b} : job'[c] = job[c]
        BY <3>1 DEF Goto, TypeOK
      <3>3. late[b] = Never \/ overtaken[b]
        BY <2>1, <2>3 DEF LateInv
      <3> QED
        BY <2>1, <3>1, <3>2, <3>3 DEF LateInv
    <2> QED
      BY <2>2, <2>3
  <1>8. ASSUME NEW b \in Bots, JobLimits(b) PROVE LateInv'
    <2>1. job[b].at = "limits" /\ job[b] # NoJob /\ main[b] # "down"
      BY <1>8 DEF JobLimits, NoJob, LateInv
    <2>2. \A c \in Bots : /\ Past(job'[c]) => Past(job[c])
                          /\ c # b => job'[c] = job[c]
      BY <1>8, <2>1, <1>b DEF JobLimits, Goto, Drop, TypeOK, Past
    <2> QED
      BY <1>8, <2>1, <2>2, <1>a DEF JobLimits, LateInv
  <1>9. ASSUME NEW b \in Bots, JobOrder(b) PROVE LateInv'
    <2>1. /\ Past(job[b]) /\ job'[b] = NoJob
          /\ \A c \in Bots \ {b} : job'[c] = job[c]
          /\ UNCHANGED <<killFile, killed, kill, main, overtaken>>
      BY <1>9 DEF JobOrder, Drop, TypeOK, Past
    <2>2. /\ \A c \in Bots \ {b} : late'[c] = late[c]
          /\ late'[b] = late[b] \/ (late[b] # Never /\ late'[b] = late[b] + 1)
      <3>1. late' = late \/ (late[b] # Never /\ late' = [late EXCEPT ![b] = @ + 1])
        BY <1>9 DEF JobOrder
      <3>2. late \in [Bots -> {Never} \cup Nat]
        BY DEF TypeOK
      <3> QED
        BY <3>1, <3>2
    <2>3. ~Past(NoJob)
      BY DEF Past, NoJob
    <2> QED
      BY <2>1, <2>2, <2>3 DEF LateInv
  <1>10. ASSUME NEW b \in Bots, NEW t \in Threads, CloseOne(b, t) PROVE LateInv'
    <2>1. kill[b][t] # NoKill /\ \A c \in Bots \ {b} : kill'[c] = kill[c]
      BY <1>10 DEF CloseOne, TypeOK
    <2>2. killed[b]
      BY <2>1 DEF LateInv
    <2> QED
      BY <1>10, <2>1, <2>2, <1>a DEF CloseOne, LateInv
  <1>11. ASSUME NEW b \in Bots, NEW t \in Threads, EndKill(b, t) PROVE LateInv'
    <2>1. killed[b]
      BY <1>11 DEF EndKill, LateInv
    <2>2. \A c \in Bots : /\ Past(job'[c]) => Past(job[c])
                          /\ job'[c] = job[c] \/ job'[c] = NoJob
      BY <1>11, <1>b DEF EndKill
    <2>3. \A c \in Bots : /\ main'[c] = "down" => main[c] = "down"
                          /\ main[c] = "down" => main'[c] = "down" \/ killed[c]
      BY <1>11, <2>1 DEF EndKill, TypeOK
    <2>4. \A c \in Bots, u \in Threads : kill'[c][u] # NoKill => kill[c][u] # NoKill
      BY <1>11 DEF EndKill, TypeOK
    <2>5. \A c \in Bots :
             /\ late'[c] = late[c] /\ killed'[c] = killed[c]
             /\ ~overtaken'[c] => ~overtaken[c] /\ (killFile => killFile' \/ killed[c])
      BY <1>11 DEF EndKill
    <2> QED
      BY <2>2, <2>3, <2>4, <2>5 DEF LateInv
  <1>12. ASSUME NEW b \in Bots, NEW s \in Symbols, Bar(b, s) \/ Scan(b, s) PROVE LateInv'
    <2>1. UNCHANGED job \/ Signal(b, s)
      BY <1>12 DEF Bar, Scan
    <2>2. /\ \A c \in Bots : Past(job'[c]) => Past(job[c])
          /\ \A c \in Bots \ {b} : job'[c] = job[c]
      <3>1. ASSUME Signal(b, s)
            PROVE  job'[b].at = "check" /\ \A c \in Bots \ {b} : job'[c] = job[c]
        BY <3>1 DEF Signal, TypeOK
      <3> QED
        BY <2>1, <3>1 DEF Past
    <2>3. main[b] # "down"
      BY <1>12 DEF Bar, Scan
    <2> QED
      BY <1>12, <2>2, <2>3, <1>a DEF Bar, Scan, LateInv
  <1>13. CASE UNCHANGED vars
    BY <1>13, <1>a DEF vars, LateInv
  <1> QED
    BY <1>1, <1>2, <1>3, <1>4, <1>5, <1>6, <1>7, <1>8, <1>9, <1>10, <1>11, <1>12, <1>13
       DEF Next, Job, Kill

LEMMA LateStart == Init => LateInv
  BY DEF Init, LateInv, NoKills

(***************************************************************************)
(* OneOrderAfterKill: for any number of bots, one order at most slips past *)
(* a kill, over any number of restarts and until the kill is over, except  *)
(* for a bot whose signal another bot has taken away.                      *)
(***************************************************************************)
THEOREM LateSafety == Spec => []OneOrderAfterKill
  <1>1. Init => TypeOK /\ LateInv
    BY TypeInit, LateStart
  <1>2. TypeOK /\ LateInv /\ [Next]_vars => (TypeOK /\ LateInv)'
    BY TypeStep, LateStep
  <1>3. TypeOK /\ LateInv => OneOrderAfterKill
    BY LateBound DEF OneOrderAfterKill
  <1> QED
    BY <1>1, <1>2, <1>3, PTL DEF Spec

\* Of one bot alone no order but one ever fills after a kill: nobody overtakes it.
THEOREM LateSafetyAlone ==
  ASSUME \A b, c \in Bots : b = c
  PROVE  Spec => [](\A b \in Bots : late[b] <= 1)
  <1> DEFINE Alone == \A b \in Bots : ~overtaken[b]
  <1>1. Init => Alone
    BY DEF Init
  <1>2. TypeOK /\ LateInv /\ Alone /\ [Next]_vars => Alone'
    <2> SUFFICES ASSUME TypeOK, LateInv, Alone, [Next]_vars PROVE Alone'
      OBVIOUS
    <2>1. CASE UNCHANGED overtaken
      BY <2>1
    <2>2. CASE StartProcess \/ OrderKill
      BY <2>2 DEF StartProcess, OrderKill, watch
    <2>3. ASSUME NEW b \in Bots, NEW t \in Threads, EndKill(b, t) PROVE Alone'
      <3>1. \A c \in Bots : killed[c]
        BY <2>3 DEF EndKill, LateInv
      <3> QED
        BY <2>3, <3>1 DEF EndKill
    <2>4. StartProcess \/ OrderKill \/ UNCHANGED overtaken
            \/ \E b \in Bots, t \in Threads : EndKill(b, t)
      <3> USE DEF watch
      <3>1. EndProcess \/ OrderRestart \/ HourPasses => UNCHANGED overtaken
        BY DEF EndProcess, OrderRestart, HourPasses
      <3>2. ASSUME NEW b \in Bots, StopHit(b) \/ Main(b) PROVE UNCHANGED overtaken
        BY <3>2 DEF StopHit, Main, Initialize, MainCheck, MainGoesOn, MainSleeps, Cleanup
      <3>3. ASSUME NEW b \in Bots, Job(b) PROVE UNCHANGED overtaken
        BY <3>3 DEF Job, JobCheck, JobLimits, JobOrder
      <3>4. ASSUME NEW b \in Bots, NEW t \in Threads, CloseOne(b, t) PROVE UNCHANGED overtaken
        BY <3>4 DEF CloseOne
      <3>5. ASSUME NEW b \in Bots, NEW s \in Symbols, Bar(b, s) \/ Scan(b, s)
            PROVE  UNCHANGED overtaken
        BY <3>5 DEF Bar, Scan
      <3>6. UNCHANGED vars => UNCHANGED overtaken
        BY DEF vars
      <3> QED
        BY <3>1, <3>2, <3>3, <3>4, <3>5, <3>6 DEF Next, Kill
    <2> QED
      BY <2>1, <2>2, <2>3, <2>4
  <1>3. TypeOK /\ LateInv /\ Alone => \A b \in Bots : late[b] <= 1
    BY LateBound
  <1>4. Init => TypeOK /\ LateInv
    BY TypeInit, LateStart
  <1>5. TypeOK /\ LateInv /\ [Next]_vars => (TypeOK /\ LateInv)'
    BY TypeStep, LateStep
  <1> QED
    BY <1>1, <1>2, <1>3, <1>4, <1>5, PTL DEF Spec

\* The kills of the threads, as functions.
LEMMA KillFunction ==
  ASSUME TypeOK
  PROVE  /\ kill \in [Bots -> [Threads -> Kills]]
         /\ \A b \in Bots : kill[b] \in [Threads -> Kills]
  <1>1. kill \in [Bots -> [Threads -> Kills]]
    BY DEF TypeOK
  <1> QED
    BY <1>1

ClosedInv == KnownIds /\ ClosedSoFar

\* Steps that touch neither the kills nor the number of orders, and only close.
LEMMA NoKillTouched ==
  ASSUME TypeOK, ClosedInv, UNCHANGED <<kill, orders>>,
         \A b \in Bots : pos'[b] \in SUBSET pos[b]
  PROVE  ClosedInv'
  BY DEF ClosedInv, KnownIds, ClosedSoFar

\* A kill begins with all that is open to find and to do.
LEMMA BeginCloses ==
  ASSUME TypeOK, ClosedInv, NEW b \in Bots, NEW t \in Threads, BeginKill(b, t),
         UNCHANGED <<pos, orders>>
  PROVE  ClosedInv'
  <1>1. CASE UNCHANGED kill
    BY <1>1, NoKillTouched
  <1>2. CASE ~UNCHANGED kill
    <2> DEFINE k == [at |-> "closing", found |-> pos[b], todo |-> pos[b], ok |-> TRUE]
    <2>1. kill' = [kill EXCEPT ![b][t] = k]
      BY <1>2 DEF BeginKill
    <2>2. k.found = pos[b] /\ k.todo = pos[b]
      OBVIOUS
    <2> HIDE DEF k
    <2>3. \A c \in Bots, u \in Threads :
             kill'[c][u] = IF c = b /\ u = t THEN k ELSE kill[c][u]
      BY <2>1, KillFunction
    <2> QED
      BY <2>2, <2>3 DEF ClosedInv, KnownIds, ClosedSoFar
  <1> QED
    BY <1>1, <1>2

\* Closed stays closed: the positions a kill found are never opened again.
LEMMA ClosedStep == TypeOK /\ ClosedInv /\ [Next]_vars => ClosedInv'
  <1> SUFFICES ASSUME TypeOK, ClosedInv, [Next]_vars PROVE ClosedInv'
    OBVIOUS
  <1> USE DEF signals, watch, budgets
  <1>1. CASE StartProcess \/ OrderKill \/ OrderRestart \/ HourPasses
    BY <1>1, NoKillTouched DEF StartProcess, OrderKill, OrderRestart, HourPasses
  <1>2. CASE EndProcess
    <2>1. /\ UNCHANGED <<pos, orders>>
          /\ \A b \in Bots, t \in Threads : kill'[b][t] = NoKill
      BY <1>2 DEF EndProcess, NoKills
    <2> QED
      BY <2>1 DEF ClosedInv, KnownIds, ClosedSoFar
  <1>3. ASSUME NEW b \in Bots, StopHit(b) PROVE ClosedInv'
    <2>1. \A c \in Bots : pos'[c] \in SUBSET pos[c]
      BY <1>3 DEF StopHit, TypeOK
    <2> QED
      BY <1>3, <2>1, NoKillTouched DEF StopHit
  <1>4. ASSUME NEW b \in Bots, Main(b) PROVE ClosedInv'
    <2>1. UNCHANGED <<pos, orders>> /\ (UNCHANGED kill \/ BeginKill(b, "main"))
      BY <1>4 DEF Main, Initialize, MainCheck, MainGoesOn, MainSleeps, Cleanup
    <2> QED
      BY <2>1, NoKillTouched, BeginCloses DEF Threads
  <1>5. ASSUME NEW b \in Bots, JobCheck(b) \/ JobLimits(b) PROVE ClosedInv'
    <2>1. UNCHANGED <<pos, orders>> /\ (UNCHANGED kill \/ BeginKill(b, Worker(b)))
      BY <1>5 DEF JobCheck, JobLimits
    <2> QED
      BY <2>1, NoKillTouched, BeginCloses DEF Threads, Worker
  <1>6. ASSUME NEW b \in Bots, JobOrder(b) PROVE ClosedInv'
    <2>1. CASE UNCHANGED <<pos, orders>>
      BY <1>6, <2>1, NoKillTouched DEF JobOrder
    <2>2. CASE ~UNCHANGED <<pos, orders>>
      <3> DEFINE x == [sym |-> job[b].sym, id |-> orders + 1]
      <3>1. /\ orders' = orders + 1 /\ UNCHANGED kill /\ x.id = orders + 1
            /\ pos' = [pos EXCEPT ![b] = @ \cup {x}]
        BY <1>6, <2>2 DEF JobOrder
      <3> HIDE DEF x
      <3>2. pos'[b] = pos[b] \cup {x} /\ \A c \in Bots \ {b} : pos'[c] = pos[c]
        BY <3>1 DEF TypeOK
      <3>3. orders \in Nat
        BY Bounds DEF TypeOK
      <3>4. \A c \in Bots : \A p \in pos[c] : p.id \in Nat
        BY DEF TypeOK, Positions
      <3>5. ASSUME NEW c \in Bots, NEW t \in Threads, kill[c][t] # NoKill
            PROVE  \A p \in kill[c][t].found : p.id \in Nat
        <4>1. kill[c][t].found \subseteq Positions
          BY <3>5, KillTypes
        <4> QED
          BY <4>1 DEF Positions
      <3>6. KnownIds'
        BY <3>1, <3>2, <3>3, <3>4, <3>5 DEF ClosedInv, KnownIds
      <3>7. ASSUME NEW c \in Bots, NEW t \in Threads, kill[c][t] # NoKill
            PROVE  x \notin kill[c][t].found
        BY <3>1, <3>3, <3>7 DEF ClosedInv, KnownIds
      <3>8. ClosedSoFar'
        BY <3>1, <3>2, <3>7 DEF ClosedInv, ClosedSoFar
      <3> QED
        BY <3>6, <3>8 DEF ClosedInv
    <2> QED
      BY <2>1, <2>2
  <1>7. ASSUME NEW b \in Bots, NEW t \in Threads, CloseOne(b, t) PROVE ClosedInv'
    <2>1. PICK p \in kill[b][t].todo :
             \/ /\ pos' = [pos EXCEPT ![b] = @ \ {p}]
                /\ kill' = [kill EXCEPT ![b][t].todo = @ \ {p}]
             \/ /\ pos' \in {pos, [pos EXCEPT ![b] = @ \ {p}]}
                /\ kill' = [kill EXCEPT ![b][t].todo = @ \ {p}, ![b][t].ok = FALSE]
      BY <1>7 DEF CloseOne
    <2>2. kill[b][t] # NoKill /\ UNCHANGED orders
      BY <1>7 DEF CloseOne
    <2>a. pos' = pos \/ pos' = [pos EXCEPT ![b] = @ \ {p}]
      BY <2>1
    <2>3. \A c \in Bots : pos'[c] \in SUBSET pos[c]
      BY <2>a DEF TypeOK
    <2>4. kill[b][t] \in [at : {"closing"}, found : SUBSET Positions,
                          todo : SUBSET Positions, ok : BOOLEAN]
      BY <2>2, KillTypes
    <2> DEFINE done   == [kill[b][t] EXCEPT !.todo = @ \ {p}]
               failed == [kill[b][t] EXCEPT !.todo = @ \ {p}, !.ok = FALSE]
    <2>5. /\ done.found = kill[b][t].found /\ done.todo = kill[b][t].todo \ {p}
          /\ done.ok = kill[b][t].ok
          /\ failed.found = kill[b][t].found /\ ~failed.ok
      BY <2>4
    <2>6. \/ p \notin pos'[b] /\ kill' = [kill EXCEPT ![b][t] = done]
          \/ kill' = [kill EXCEPT ![b][t] = failed]
      <3>1. pos' = [pos EXCEPT ![b] = @ \ {p}] => p \notin pos'[b]
        BY DEF TypeOK
      <3> QED
        BY <2>1, <2>4, <3>1, KillFunction
    <2> HIDE DEF done, failed
    <2>7. CASE p \notin pos'[b] /\ kill' = [kill EXCEPT ![b][t] = done]
      <3>1. \A c \in Bots, u \in Threads :
               kill'[c][u] = IF c = b /\ u = t THEN done ELSE kill[c][u]
        BY <2>7, KillFunction
      <3>2. KnownIds'
        <4>1. \A c \in Bots : \A q \in pos'[c] : q.id <= orders'
          BY <2>2, <2>3 DEF ClosedInv, KnownIds
        <4>2. ASSUME NEW c \in Bots, NEW u \in Threads, kill'[c][u] # NoKill
              PROVE  \A q \in kill'[c][u].found : q.id <= orders'
          <5>1. CASE c = b /\ u = t
            BY <2>2, <2>5, <3>1, <5>1 DEF ClosedInv, KnownIds
          <5>2. CASE ~(c = b /\ u = t)
            BY <2>2, <3>1, <4>2, <5>2 DEF ClosedInv, KnownIds
          <5> QED
            BY <5>1, <5>2
        <4> QED
          BY <4>1, <4>2 DEF KnownIds
      <3>3. ASSUME NEW c \in Bots, NEW u \in Threads, kill'[c][u] # NoKill, kill'[c][u].ok
            PROVE  kill'[c][u].found \cap pos'[c] \subseteq kill'[c][u].todo
        <4>1. CASE c = b /\ u = t
          <5>1. kill'[c][u] = done /\ kill[b][t].ok
            BY <2>5, <3>1, <3>3, <4>1
          <5>2. kill[b][t].found \cap pos[b] \subseteq kill[b][t].todo
            BY <2>2, <5>1 DEF ClosedInv, ClosedSoFar
          <5>3. p \notin pos'[b] /\ pos'[b] \in SUBSET pos[b]
            BY <2>3, <2>7
          <5> QED
            BY <2>5, <4>1, <5>1, <5>2, <5>3
        <4>2. CASE ~(c = b /\ u = t)
          BY <2>3, <3>1, <3>3, <4>2 DEF ClosedInv, ClosedSoFar
        <4> QED
          BY <4>1, <4>2
      <3> QED
        BY <3>2, <3>3 DEF ClosedInv, ClosedSoFar
    <2>8. CASE kill' = [kill EXCEPT ![b][t] = failed]
      <3>1. \A c \in Bots, u \in Threads :
               kill'[c][u] = IF c = b /\ u = t THEN failed ELSE kill[c][u]
        BY <2>8, KillFunction
      <3>2. KnownIds'
        <4>1. \A c \in Bots : \A q \in pos'[c] : q.id <= orders'
          BY <2>2, <2>3 DEF ClosedInv, KnownIds
        <4>2. ASSUME NEW c \in Bots, NEW u \in Threads, kill'[c][u] # NoKill
              PROVE  \A q \in kill'[c][u].found : q.id <= orders'
          <5>1. CASE c = b /\ u = t
            BY <2>2, <2>5, <3>1, <5>1 DEF ClosedInv, KnownIds
          <5>2. CASE ~(c = b /\ u = t)
            BY <2>2, <3>1, <4>2, <5>2 DEF ClosedInv, KnownIds
          <5> QED
            BY <5>1, <5>2
        <4> QED
          BY <4>1, <4>2 DEF KnownIds
      <3>3. ASSUME NEW c \in Bots, NEW u \in Threads, kill'[c][u] # NoKill, kill'[c][u].ok
            PROVE  kill'[c][u].found \cap pos'[c] \subseteq kill'[c][u].todo
        <4>1. CASE c = b /\ u = t
          BY <2>2, <2>3, <2>5, <3>1, <3>3, <4>1 DEF ClosedInv, ClosedSoFar
        <4>2. CASE ~(c = b /\ u = t)
          BY <2>3, <3>1, <3>3, <4>2 DEF ClosedInv, ClosedSoFar
        <4> QED
          BY <4>1, <4>2
      <3> QED
        BY <3>2, <3>3 DEF ClosedInv, ClosedSoFar
    <2> QED
      BY <2>6, <2>7, <2>8
  <1>8. ASSUME NEW b \in Bots, NEW t \in Threads, EndKill(b, t) PROVE ClosedInv'
    <2>1. /\ kill' = [kill EXCEPT ![b][t] = NoKill]
          /\ UNCHANGED <<pos, orders>>
      BY <1>8 DEF EndKill
    <2>2. \A c \in Bots, u \in Threads :
             kill'[c][u] = IF c = b /\ u = t THEN NoKill ELSE kill[c][u]
      BY <2>1, KillFunction
    <2> QED
      BY <2>1, <2>2 DEF ClosedInv, KnownIds, ClosedSoFar
  <1>9. ASSUME NEW b \in Bots, NEW s \in Symbols, Bar(b, s) \/ Scan(b, s) PROVE ClosedInv'
    BY <1>9, NoKillTouched DEF Bar, Scan
  <1>10. CASE UNCHANGED vars
    BY <1>10, NoKillTouched DEF vars
  <1> QED
    BY <1>1, <1>2, <1>3, <1>4, <1>5, <1>6, <1>7, <1>8, <1>9, <1>10 DEF Next, Job, Kill

\* Only the end of a kill without failures takes the signal away.
LEMMA SignalStep ==
  TypeOK /\ ClosedInv /\ [Next]_vars =>
    (killFile /\ ~killFile' =>
        \E b \in Bots, t \in Threads :
            kill[b][t] # NoKill /\ kill[b][t].found \cap pos[b] = {})
  <1> SUFFICES ASSUME TypeOK, ClosedInv, [Next]_vars, killFile, ~killFile'
               PROVE  \E b \in Bots, t \in Threads :
                         kill[b][t] # NoKill /\ kill[b][t].found \cap pos[b] = {}
    OBVIOUS
  <1>1. PICK b \in Bots, t \in Threads : EndKill(b, t)
    <2>1. ~(StartProcess \/ EndProcess)
      BY DEF StartProcess, EndProcess, signals
    <2>2. ~(OrderKill \/ OrderRestart \/ HourPasses)
      BY DEF OrderKill, OrderRestart, HourPasses, signals
    <2>3. ASSUME NEW b \in Bots PROVE ~StopHit(b)
      BY DEF StopHit, signals
    <2>4. ASSUME NEW b \in Bots PROVE ~Main(b)
      <3>1. ~(Initialize(b) \/ MainCheck(b))
        BY DEF Initialize, MainCheck, signals
      <3>2. ~(MainGoesOn(b) \/ MainSleeps(b) \/ Cleanup(b))
        BY DEF MainGoesOn, MainSleeps, Cleanup, signals
      <3> QED
        BY <3>1, <3>2 DEF Main
    <2>5. ASSUME NEW b \in Bots PROVE ~Job(b)
      BY DEF Job, JobCheck, JobLimits, JobOrder, signals
    <2>6. ASSUME NEW b \in Bots, NEW t \in Threads PROVE ~CloseOne(b, t)
      BY DEF CloseOne, signals
    <2>7. ASSUME NEW b \in Bots, NEW s \in Symbols PROVE ~(Bar(b, s) \/ Scan(b, s))
      BY DEF Bar, Scan, signals
    <2>8. ~UNCHANGED vars
      BY DEF vars, signals
    <2>9. \E b \in Bots : Kill(b)
      BY <2>1, <2>2, <2>3, <2>4, <2>5, <2>7, <2>8 DEF Next
    <2> QED
      BY <2>6, <2>9 DEF Kill
  <1>2. kill[b][t] # NoKill /\ kill[b][t].todo = {} /\ kill[b][t].ok
    BY <1>1 DEF EndKill
  <1> QED
    BY <1>2 DEF ClosedInv, ClosedSoFar

\* SignalGoesWithPositions: the kill signal goes only with a kill that closed all it found.
THEOREM SignalSafety == Spec => SignalGoesWithPositions
  <1>1. Init => TypeOK /\ ClosedInv
    BY TypeInit DEF Init, ClosedInv, KnownIds, ClosedSoFar, NoKills
  <1>2. TypeOK /\ ClosedInv /\ [Next]_vars => (TypeOK /\ ClosedInv)'
    BY TypeStep, ClosedStep
  <1>3. TypeOK /\ ClosedInv /\ [Next]_vars =>
          [killFile /\ ~killFile' =>
             \E b \in Bots, t \in Threads :
                 kill[b][t] # NoKill /\ kill[b][t].found \cap pos[b] = {}]_vars
    BY SignalStep
  <1> QED
    BY <1>1, <1>2, <1>3, PTL DEF Spec, SignalGoesWithPositions
=============================================================================
