----------------------------- MODULE MCBackfill -----------------------------
(* A small instance of Backfill for TLC. *)
EXTENDS Backfill, TLC

CONSTANTS r1, s1, g1, p1, p2

MCDay      == r1 :> 1 @@ s1 :> 2 @@ g1 :> 4
MCConfigOf == r1 :> "c" @@ g1 :> "d"

Mapping(first, second) ==
    [plan     |-> <<first, second>>,
     criteria |-> <<"h0", "h1">>,
     text     |-> <<"first", "second">>]

\* A run and a study on two cards or on one, and a mapping that names a gated run, as a
\* scan would draft it if it took the run for an old one.
MCMappings == {Mapping({r1}, {s1}), Mapping({r1, s1}, {}), Mapping({r1}, {s1, g1})}
=============================================================================
