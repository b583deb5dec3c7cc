---------------------------- MODULE MemoryService ----------------------------
(***************************************************************************)
(* What the memory behind the L2 cache promises the bus master: a write is  *)
(* visible at once and whole; the words of a burst come one by one, in     *)
(* address order, each with a value its address had after the burst came   *)
(* to it; a read of absent memory returns the open bus.  This module has   *)
(* no cache: L2Cache implements it (src/rtl/cache/l2_cache.v).             *)
(***************************************************************************)
EXTENDS Naturals

CONSTANTS
    Address, Value,
    After,       \* the address after an address
    OpenBus,     \* what absent memory reads as
    MaxBurst,
    HostArea     \* addresses the host writes

VARIABLES
    mem,         \* the memory
    awaited,     \* the burst in progress: its next address, words left, and
                 \* whether it reads absent memory; left = 0 when there is none
    seen,        \* values the next word has had since the burst came to it
    reply        \* the word being returned, {} when there is none

NoBurst(b) == b.left = 0

Init ==
    /\ mem \in [Address -> Value]
    /\ awaited \in [a: Address, left: {0}, absent: {FALSE}]
    /\ seen = {}
    /\ reply = {}

Write(a, v) ==
    /\ NoBurst(awaited)
    /\ mem' = [mem EXCEPT ![a] = v]
    /\ awaited' = [awaited EXCEPT !.a = a]
    /\ reply' = {}
    /\ UNCHANGED seen

StartRead(a, n, absent) ==
    /\ NoBurst(awaited)
    /\ awaited' = [a |-> a, left |-> n, absent |-> absent]
    /\ seen' = {mem[a]}
    /\ reply' = {}
    /\ UNCHANGED mem

ReturnWord ==
    /\ ~NoBurst(awaited)
    /\ \E v \in IF awaited.absent THEN {OpenBus} ELSE seen :
         reply' = {[a |-> awaited.a, v |-> v]}
    /\ IF awaited.left > 1
       THEN /\ awaited' = [awaited EXCEPT !.a = After[@], !.left = @ - 1]
            /\ seen' = {mem[After[awaited.a]]}
       ELSE /\ awaited' = [awaited EXCEPT !.left = 0]
            /\ seen' = {}
    /\ UNCHANGED mem

HostWrite(a, v) ==
    /\ a \in HostArea
    /\ mem' = [mem EXCEPT ![a] = v]
    /\ seen' = IF ~NoBurst(awaited) /\ a = awaited.a THEN seen \union {v} ELSE seen
    /\ UNCHANGED <<awaited, reply>>

\* A reset abandons the burst.
Abandon ==
    /\ awaited' = [awaited EXCEPT !.left = 0]
    /\ seen' = {}
    /\ reply' = {}
    /\ UNCHANGED mem

\* A clock that returns nothing.
Quiet == reply' = {} /\ UNCHANGED <<mem, awaited, seen>>

Next ==
    \/ Quiet
    \/ ReturnWord
    \/ Abandon
    \/ \E a \in Address, v \in Value : HostWrite(a, v) \/ Write(a, v)
    \/ \E a \in Address, n \in 1 .. MaxBurst, absent \in BOOLEAN : StartRead(a, n, absent)

Spec == Init /\ [][Next]_<<mem, awaited, seen, reply>>

=============================================================================
