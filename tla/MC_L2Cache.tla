----------------------------- MODULE MC_L2Cache -----------------------------
(* Small instances of L2Cache.  The cache only copies words and compares     *)
(* none, so one word of two values among words that stay v0 shows every      *)
(* stale, lost or misplaced copy.                                            *)
EXTENDS L2Cache, TLC

CONSTANTS l0, l1, s0, v0, v1

ContentWith(lines, words, tracked) ==
    [a \in lines \X words |-> IF a \in tracked THEN {v0, v1} ELSE {v0}]

\* Three one-word lines compete for the two ways of one set, and bursts run from
\* line to line; one line is in the host's window, which the host writes too and
\* which is fetched anew each time.
Lines    == {l0, l1, s0}
SetOf    == [l \in Lines |-> 0]
After    == (l0 :> l1) @@ (l1 :> s0) @@ (s0 :> l0)
Contents == ContentWith(Lines, {0}, {<<l0, 0>>, <<s0, 0>>})
=============================================================================
