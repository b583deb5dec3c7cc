------------------------------- MODULE BiosMemory -------------------------------
(***************************************************************************)
(* Memory services of the system BIOS (src/sw/sysbios): the three ways INT *)
(* 15h tells how much memory there is (AH=88h, AX=E801h, AX=E820h), gate   *)
(* A20 (AH=24h), the block move of AH=87h and the step into protected mode *)
(* of AH=89h.  Sizes are in kilobytes.                                     *)
(***************************************************************************)
EXTENDS Integers, Sequences

CONSTANTS Memories,         \* what CMOS 30h (K above 1M) and 34h (64K above 16M) say
          Moves             \* where programs move blocks: kilobytes

VARIABLES
    cmos,       \* the sizes
    a20,        \* port 92h, bit 1
    mem,        \* the memory map as handed out, where the next call continues, blocks moved
    told        \* what the last call answered

memoryVars == <<cmos, a20, mem, told>>

NotTold == [fn |-> "none"]
Tells(a) == told' = a

-----------------------------------------------------------------------------
Above1M == cmos.k
Lesser(a, b) == IF a < b THEN a ELSE b

\* A bug: memory above 16M is counted as if it began at 1M.
Top_Low(c) == IF c.blocks > 0 THEN 1024 + c.blocks * 64 ELSE 1024 + c.k

Top(c) == IF c.blocks > 0 THEN 16384 + Lesser(c.blocks * 64, 3129344) ELSE 1024 + c.k

\* AX=E820h: the ranges, and the value that asks for the next; 0 ends.
Range(i, c) ==
    CASE i = 0 -> [from |-> 0,    to |-> 636,  ram |-> TRUE,  next |-> 1]
      [] i = 1 -> [from |-> 636,  to |-> 640,  ram |-> FALSE, next |-> 2]
      [] i = 2 -> [from |-> 824,  to |-> 832,  ram |-> FALSE, next |-> 3]
      [] i = 3 -> [from |-> 960,  to |-> 1024, ram |-> FALSE, next |-> IF Top(c) <= 1024 THEN 0 ELSE 4]
      [] i = 4 -> [from |-> 1024, to |-> Top(c), ram |-> TRUE, next |-> 0]

Silent == told = NotTold

int15_e820 ==
    /\ Silent
    /\ IF mem.next \in 0 .. 4
       THEN LET r == Range(mem.next, cmos)
            IN  /\ mem' = [mem EXCEPT !.map = Append(IF mem.next = 0 THEN <<>> ELSE @, r), !.next = r.next]
                /\ Tells([fn |-> "e820", last |-> r.next = 0])
       ELSE Tells([fn |-> "unsupported"]) /\ UNCHANGED mem
    /\ UNCHANGED <<cmos, a20>>

int15_e801 ==
    /\ Silent
    /\ Tells([fn |-> "e801", below |-> Lesser(cmos.k, 15360), above |-> cmos.blocks])
    /\ UNCHANGED <<cmos, a20, mem>>

int15_88 ==
    /\ Silent
    /\ Tells([fn |-> "88", k |-> Lesser(cmos.k, 65472)])
    /\ UNCHANGED <<cmos, a20, mem>>

\* INT 12h: the word at 40:13, from POST.
int12_handler == Silent /\ Tells([fn |-> "int12", k |-> 639]) /\ UNCHANGED <<cmos, a20, mem>>

-----------------------------------------------------------------------------
\* Port 92h: the new setting; what it was is answered.
int15_a20 ==
    /\ Silent
    /\ \E al \in {0, 1, 2, 3, 4} :
          /\ a20' = CASE al = 0 -> FALSE [] al = 1 -> TRUE [] OTHER -> a20
          /\ Tells([fn |-> "a20", al |-> al, on |-> a20'])
    /\ UNCHANGED <<cmos, mem>>

\* With gate A20 off bit 20 of every address is 0.
Physical(k, on) == IF on \/ (k \div 1024) % 2 = 0 THEN k ELSE k - 1024

\* AH=87h opens gate A20, moves, and puts it back.
\* A bug: the gate is left as the program set it.
During_AsSet(on) == on

During(on) == TRUE

int15_87 ==
    /\ Silent
    /\ \E from \in Moves, to \in Moves :
          /\ mem' = [mem EXCEPT !.moved = [from |-> Physical(from, During(a20)), to |-> Physical(to, During(a20))]]
          /\ Tells([fn |-> "87", from |-> from, to |-> to, gate |-> a20])
    /\ UNCHANGED <<cmos, a20>>

\* AH=89h never returns to where it was called from: it opens the gate and
\* masks every interrupt.
int15_89 == /\ Silent /\ ~mem.protected
            /\ a20' = TRUE /\ mem' = [mem EXCEPT !.protected = TRUE]
            /\ Tells([fn |-> "89"]) /\ UNCHANGED cmos

Read == ~Silent /\ ~mem.protected /\ told' = NotTold /\ UNCHANGED <<cmos, a20, mem>>

MemoryInit ==
    /\ cmos \in Memories /\ a20 \in BOOLEAN
    /\ mem = [map |-> <<>>, next |-> 0, moved |-> [from |-> 0, to |-> 0], protected |-> FALSE]
    /\ told = NotTold

MemoryNext == \/ int15_e820 \/ int15_e801 \/ int15_88 \/ int12_handler
              \/ int15_a20 \/ int15_87 \/ int15_89 \/ Read

-----------------------------------------------------------------------------
(* Properties *)

\* The map's ranges follow one another, and it ends where the older calls
\* say memory ends; conventional memory is within its first range and the
\* reserved one after it.
Known(c) == c.blocks = 0 \/ (c.k >= 15360 /\ c.blocks * 64 <= 3129344)
MapAgrees ==
    /\ \A i \in 1 .. Len(mem.map) - 1 : mem.map[i].to <= mem.map[i + 1].from
    /\ \A i \in DOMAIN mem.map : mem.map[i].from < mem.map[i].to
    /\ (mem.map # <<>> /\ mem.next = 0 /\ Known(cmos)) =>
          LET end == mem.map[Len(mem.map)].to
          IN  /\ told.fn = "e801" /\ cmos.k <= 15360 => end = 1024 + told.below + 64 * told.above
              /\ told.fn = "88" => end >= 1024 + Lesser(told.k, 15360)
              /\ told.fn = "int12" => told.k <= mem.map[2].to

\* A block is moved from and to the addresses given, and the gate is after
\* it as it was before.
MovedAsAsked == told.fn = "87" => /\ mem.moved = [from |-> told.from, to |-> told.to]
                                  /\ a20 = told.gate
=============================================================================
