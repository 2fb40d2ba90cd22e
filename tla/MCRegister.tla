----------------------------- MODULE MCRegister -----------------------------
(* Small instances of Register for TLC: one per question. *)
EXTENDS Register, TLC

CONSTANTS r1, r2, s1, k1

Card1 == [status |-> Open, cutoff |-> 2, contaminated |-> FALSE,
          criteria |-> "h0", registered |-> "h0", amended |-> <<>>]

OneHost  == [p \in Procs |-> "host"]
TwoHosts == [p \in Procs |-> IF p = r2 THEN "container" ELSE "host"]

\* A request of a run or study with an open window and always the same configuration.
Ask(op, card, holdout, reason, id) ==
    [op |-> op, card |-> card, holdout |-> holdout, variant |-> "v", start |-> NoDay,
     end |-> NoDay, split |-> NoDay, note |-> TRUE, reason |-> reason, id |-> id,
     check |-> FALSE, status |-> "ok"]

Close(status)   == [op |-> "verdict", card |-> 1, status |-> status]
Reopen1         == [op |-> "reopen", card |-> 1]
Amend1(hash)    == [op |-> "amend", card |-> 1, hash |-> hash]
RegisterCard    == [op |-> "new"]
Reconcile       == [op |-> "reconcile"]

\* Runs: holdout looks of two configurations and identical iterations, all without a
\* reason, runs that need not avoid each other, and a --check.
Look      == Ask("run", 1, TRUE, FALSE, NoProc)
Iterates  == Ask("run", 1, FALSE, FALSE, NoProc)
Explained == Ask("run", 1, FALSE, TRUE, NoProc)
RunsAsks  == {Look, [Look EXCEPT !.variant = "w"], Iterates, Explained,
              [Explained EXCEPT !.check = TRUE]}
RunsCommands == {Close("parked"), Reconcile}

\* Liveness: a run and a study compete for a run id, and a clerk registers the card they
\* name and is free to amend, close and reopen it.
LiveRunAsks   == {[Iterates EXCEPT !.id = "a"]}
LiveStudyAsks == {Ask("study", 1, FALSE, TRUE, "a")}
LiveCommands  == {RegisterCard, Amend1("h1"), Close("parked"), Reopen1, Reconcile}
=============================================================================
