--------------------------- MODULE TrialRegister ---------------------------
(***************************************************************************)
(* What the research register promises about trials, without files, locks  *)
(* or crashes.  A run that passed the gate is pending; sooner or later it  *)
(* is recorded, by itself or by somebody else, and it is recorded once.    *)
(* A study is recorded at once or not at all.  Lines keep their places.    *)
(* Register implements this specification.                                 *)
(***************************************************************************)
EXTENDS Naturals, Sequences

CONSTANTS Runs,     \* gated runs
          Studies   \* study trials

VARIABLES phase,    \* run -> "absent", "pending" or "recorded"
          log       \* whose trial each line of the ledger is

vars == <<phase, log>>

InLog(p) == \E i \in DOMAIN log : log[i] = p

Init == phase = [r \in Runs |-> "absent"] /\ log = <<>>

Pend(r) ==
    /\ phase[r] = "absent"
    /\ phase' = [phase EXCEPT ![r] = "pending"]
    /\ UNCHANGED log

Record(r) ==
    /\ phase[r] = "pending"
    /\ phase' = [phase EXCEPT ![r] = "recorded"]
    /\ log' = Append(log, r)

RecordStudy(s) ==
    /\ ~InLog(s)
    /\ log' = Append(log, s)
    /\ UNCHANGED phase

Next == \/ \E r \in Runs : Pend(r) \/ Record(r)
        \/ \E s \in Studies : RecordStudy(s)

Spec == Init /\ [][Next]_vars

\* What a pending run may rely on, given that somebody looks after the register.
EveryPendingRecorded == \A r \in Runs : phase[r] = "pending" ~> phase[r] = "recorded"
=============================================================================
