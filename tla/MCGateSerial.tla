---------------------------- MODULE MCGateSerial ----------------------------
(* GateSerial for TLC: two cards, cutoffs on day 2 or 3, and requests whose *)
(* windows end before, on and after a cutoff, are open or are malformed.    *)
EXTENDS GateSerial

MCCards  == {1, 2}
MCHashes == {"h0", "h1"}
MCDays   == {2, 3}

MCFirstCard ==
    [status |-> Open, cutoff |-> 3, contaminated |-> FALSE,
     criteria |-> "h0", registered |-> "h0", amended |-> <<>>]

Ask(c, holdout, start, end, reason) ==
    [card |-> c, holdout |-> holdout, variant |-> "v", start |-> start, end |-> end,
     split |-> NoDay, note |-> TRUE, reason |-> reason]

Malformed ==
    {[Ask(1, FALSE, NoDay, NoDay, FALSE) EXCEPT !.variant = Unhashable],
     [Ask(1, FALSE, NoDay, 3, FALSE) EXCEPT !.split = 2],
     [Ask(1, FALSE, NoDay, 2, FALSE) EXCEPT !.note = FALSE],
     Ask(1, FALSE, BadDay, NoDay, FALSE)}

MCRequests ==
    {Ask(1, holdout, start, end, FALSE) :
        holdout \in BOOLEAN, start \in {NoDay, 2}, end \in {NoDay, 2, 3, 4}}
    \cup {Ask(1, holdout, NoDay, NoDay, TRUE) : holdout \in BOOLEAN}
    \cup {Ask(2, FALSE, NoDay, NoDay, FALSE), Ask(2, TRUE, NoDay, NoDay, FALSE)}
    \cup Malformed
=============================================================================
