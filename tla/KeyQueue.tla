-------------------------------- MODULE KeyQueue --------------------------------
(***************************************************************************)
(* What INT 16h promises its callers: keys wait in a queue of limited      *)
(* length, are given in the order they came, and Ctrl-Break throws all of  *)
(* them away and leaves one key of its own.                                *)
(***************************************************************************)
EXTENDS Naturals, Sequences

CONSTANTS Key,          \* what may be queued
          Break,        \* the key Ctrl-Break leaves
          Room          \* keys that may wait

VARIABLES queue, given

Init == queue = <<>> /\ given = <<>>

Comes == /\ Len(queue) < Room
         /\ \E k \in Key : queue' = Append(queue, k)
         /\ UNCHANGED given

Taken == /\ queue # <<>>
         /\ given' = <<Head(queue)>> /\ queue' = Tail(queue)

Shown == /\ given' = (IF queue = <<>> THEN <<>> ELSE <<Head(queue)>>)
         /\ UNCHANGED queue

Broken == queue' = <<Break>> /\ UNCHANGED given

Restarted == queue' = <<>> /\ given' = <<>>

Next == Comes \/ Taken \/ Shown \/ Broken \/ Restarted

Spec == Init /\ [][Next]_<<queue, given>>
=============================================================================
