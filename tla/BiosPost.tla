-------------------------------- MODULE BiosPost --------------------------------
(***************************************************************************)
(* The tables the power-on self test leaves (src/sw/sysbios, normal_post): *)
(* interrupt vectors and controllers, the clock, the equipment word and    *)
(* the fixed disk parameter tables, each from the CMOS and in the order in *)
(* which it comes.  The real-time clock goes on meanwhile.  A vector is    *)
(* its handler's name; memory is left as it was but for what is written.   *)
(***************************************************************************)
EXTENDS Integers, Sequences, FiniteSets, FiniteSetsExt

CONSTANTS Computers,     \* what POST finds
          Computer(_)    \* a computer's record: time, disks, stale, equipment, lpts, coms

VARIABLES
    computer,   \* which one this is
    cmosTime,   \* the real-time clock, in seconds since midnight
    post        \* the stage to come; hours, minutes and seconds read; what was written

postVars == <<computer, cmosTime, post>>
This == Computer(computer)

-----------------------------------------------------------------------------
\* Interrupt vectors, by the stage that sets them.
Stages == <<"vectors", "timer", "keyboard", "ports", "hours", "minutes", "seconds",
            "handlers", "controllers", "video", "floppy", "disk0", "disk1", "options", "booted">>

\* A bug: the slave's are taken to follow the master's.
SlaveVectors_Next == 16 .. 23

SlaveVectors == 112 .. 119       \* 70h .. 77h

\* post_init_ivt, then the SET_INT_VECTORs of each stage.
FirstVectors ==
    [v \in 0 .. 255 |->
        CASE v = 17 -> "int11_handler" [] v = 18 -> "int12_handler" [] v = 21 -> "int15_handler"
          [] v = 23 -> "int17_handler" [] v = 24 -> "int18_handler" [] v = 25 -> "int19_handler"
          [] v \in 8 .. 15 -> "dummy_master_pic_irq_handler"
          [] v \in SlaveVectors -> "dummy_slave_pic_irq_handler"
          [] v \in {29, 31} \union (96 .. 103) \union (120 .. 255) -> "none"
          [] OTHER -> "dummy_iret_handler"]
Sets(stage) ==
    CASE stage = "timer"    -> {<<8, "int08_handler">>}
      [] stage = "keyboard" -> {<<9, "int09_handler">>, <<22, "int16_handler">>}
      [] stage = "ports"    -> {<<20, "int14_handler">>}
      [] stage = "hours"    -> {<<26, "int1a_handler">>, <<74, "dummy_iret_handler">>, <<112, "int70_handler">>}
      [] stage = "handlers" -> {<<113, "int71_handler">>, <<116, "int74_handler">>, <<117, "int75_handler">>,
                                <<16, "int10_handler">>}
      [] stage = "floppy"   -> {<<30, "diskette_param_table2">>, <<64, "int13_diskette">>, <<14, "int0e_handler">>}
      [] stage = "disk0"    -> {<<19, "int13_handler">>, <<118, "int76_handler">>, <<65, "table0">>, <<70, "table1">>}
      [] OTHER -> {}
Passed(stage) == \E n \in 1 .. post.next - 1 : Stages[n] = stage
Vector(v) ==
    LET set(n)  == {entry \in Sets(Stages[n]) : entry[1] = v}
        setters == {n \in 1 .. post.next - 1 : set(n) # {}}
    IN  IF setters = {} THEN FirstVectors[v] ELSE (CHOOSE entry \in set(Max(setters)) : TRUE)[2]

\* The controllers a handler gives an end of interrupt; int71_handler calls
\* that of IRQ 2 for the master's.
EndsOne(handler) ==
    CASE handler \in {"dummy_master_pic_irq_handler", "int08_handler", "int09_handler", "int0e_handler"} -> {"master"}
      [] handler \in {"dummy_slave_pic_irq_handler", "int70_handler", "int74_handler",
                      "int75_handler", "int76_handler"} -> {"master", "slave"}
      [] handler = "int71_handler" -> {"slave"}
      [] OTHER -> {}
Ends(handler) == EndsOne(handler) \union (IF handler = "int71_handler" THEN EndsOne(Vector(10)) ELSE {})

\* post_init_pic: where the lines point.
IrqVector(line) == IF line < 8 THEN 8 + line ELSE 112 + line - 8

-----------------------------------------------------------------------------
\* timer_tick_post.
Bcd(n) == 16 * (n \div 10) + (n % 10)
\* A bug: the clock is not in BCD.
BcdToBin_Plain(al) == al

BcdToBin(al) == (al % 16) + 10 * (al \div 16)

\* The high 32 bits of s * 886942379, a byte of the factor at a time.
Fraction(s) ==
    LET carry(byte, low) == (s * byte + low) \div 256
    IN  carry(52, carry(221, carry(170, carry(171, 0))))
Ticks(hms) == LET s == (60 * BcdToBin(hms[1]) + BcdToBin(hms[2])) * 60 + BcdToBin(hms[3])
              IN  18 * s + Fraction(s)

Reads(stage) ==
    CASE stage = "hours"   -> <<Bcd(cmosTime \div 3600)>>
      [] stage = "minutes" -> <<Bcd((cmosTime \div 60) % 60)>>
      [] stage = "seconds" -> <<Bcd(cmosTime % 60)>>
      [] OTHER -> <<>>

-----------------------------------------------------------------------------
\* The equipment word: the byte of the CMOS and the ports that answer.
Equipment == [cmos |-> This.equipment, lpts |-> Cardinality(This.lpts), coms |-> Cardinality(This.coms)]
WordOf(e) == (e.cmos % 256) + 512 * e.coms + 16384 * e.lpts

-----------------------------------------------------------------------------
\* hard_drive_post: a disk of more than 1024 cylinders is described with
\* fewer of them and more heads.
Low(w) == w % 256
High(w) == w \div 256
Word(t, at, w) == [t EXCEPT ![at] = Low(w), ![at + 1] = High(w)]
Scale(cylinders) == IF cylinders <= 2048 THEN 2 ELSE IF cylinders <= 4096 THEN 4
                    ELSE IF cylinders <= 8192 THEN 8 ELSE 16

SumTo13(t) == t[0] + t[1] + t[2] + t[3] + t[4] + t[5] + t[6] + t[7] + t[8] + t[9] + t[10] + t[11] + t[12] + t[13]
\* A bug: a byte is left out of the sum.
Checksum_Short(t) == (-SumTo13(t)) % 256

Checksum(t) == (-(SumTo13(t) + t[14])) % 256

Table(g, stale) ==
    LET common == [Word(Word(stale, 5, g.precomp), 12, g.landing) EXCEPT ![8] = g.control]
        k      == Scale(g.c)
        both   == [Word(Word(common, 9, g.c), 0, g.c \div k) EXCEPT
                      ![11] = g.h, ![4] = g.s, ![14] = g.s, ![3] = 160, ![2] = (g.h * k) % 256]
    IN  IF g.c <= 1024 THEN [Word(common, 0, g.c) EXCEPT ![2] = g.h, ![14] = g.s]
                       ELSE [both EXCEPT ![15] = Checksum(both)]

\* Type Fh with the extended type 47 is a disk; the first may be missing or of
\* another type, a second one stops the machine then.
IsDisk(d) == d.type = 15 /\ d.extended = 47
Halts(n, d) == IF n = 1 THEN d.type = 15 /\ d.extended # 47 ELSE d.type # 0 /\ ~IsDisk(d)
Disk(n, t) == IF IsDisk(This.disks[n]) THEN [t EXCEPT ![n] = Table(This.disks[n], @)] ELSE t

-----------------------------------------------------------------------------
Stage == Stages[post.next]

Halting == \/ Stage = "disk0" /\ Halts(1, This.disks[1])
           \/ Stage = "disk1" /\ Halts(2, This.disks[2])
TimeRead == post.hms \o Reads(Stage)
Turned == Stage \in {"minutes", "seconds"} /\ cmosTime \div 60 # post.began
Tables == CASE Stage = "disk0" -> Disk(1, post.tables)
            [] Stage = "disk1" -> Disk(2, post.tables)
            [] OTHER -> post.tables

RunStage ==
    /\ post.next < Len(Stages) /\ ~post.halted
    /\ post' = [post EXCEPT
           !.next = @ + 1, !.halted = Halting, !.hms = TimeRead,
           !.began = IF Stage = "hours" THEN cmosTime \div 60 ELSE @,
           !.torn = @ \/ Turned,
           !.ticks = IF Stage = "seconds" THEN Ticks(TimeRead) ELSE @,
           !.equipment = IF Stage = "ports" THEN WordOf(Equipment) ELSE @,
           !.tables = IF Halting THEN @ ELSE Tables]
    /\ UNCHANGED <<computer, cmosTime>>

\* POST takes less than a second over it.
Second == /\ cmosTime = This.time
          /\ cmosTime' = (cmosTime + 1) % 86400
          /\ UNCHANGED <<computer, post>>

PostInit ==
    /\ computer \in Computers
    /\ cmosTime = This.time
    /\ post = [next |-> 1, halted |-> FALSE, hms |-> <<>>, began |-> 0, torn |-> FALSE,
               ticks |-> 0, equipment |-> 0, tables |-> <<This.stale, This.stale>>]

PostNext == RunStage \/ Second

-----------------------------------------------------------------------------
(* Properties *)

\* From the time the controllers let interrupts through, which is before ROMs
\* run that may turn them on, every line's vector leads to a handler that ends
\* the interrupt at just the controllers it came through, whichever lines are
\* let through later.
IrqsEnded ==
    Passed("controllers") =>
        \A line \in 0 .. 15 \ {2} :
            Ends(Vector(IrqVector(line))) = IF line < 8 THEN {"master"} ELSE {"master", "slave"}

\* The clock starts at the time of day: within 3 ticks of that part of the
\* BIOS's day (1800B0h ticks), before its end, unless the minute turned while
\* it was read.
TicksADay == 1573040
Near(a, b, distance) == a - b <= distance /\ b - a <= distance
ClockSet ==
    Passed("seconds") /\ ~post.torn =>
        LET s == BcdToBin(post.hms[1]) * 3600 + BcdToBin(post.hms[2]) * 60 + BcdToBin(post.hms[3])
        IN  /\ s \in {This.time, (This.time + 1) % 86400}
            /\ 0 <= post.ticks /\ post.ticks < TicksADay
            /\ Near(1080 * post.ticks, 19663 * s, 3 * 1080)

\* As many ports are counted as answer, and the CMOS's bits are kept.
EquipmentCounts ==
    Passed("ports") =>
        /\ post.equipment % 256 = This.equipment
        /\ (post.equipment \div 512) % 8 = Cardinality(This.coms)
        /\ post.equipment \div 16384 = Cardinality(This.lpts)

\* The tables of INT 41h and 46h describe the disks in no more than 1024
\* cylinders and no more sectors than there are, and all but a few of them; one
\* that is translated has the true geometry besides and sums to zero.  Beyond
\* 8192 cylinders only with fewer than 16 heads: a byte cannot hold 256.
Describes(t, g) ==
    LET cylinders == t[0] + 256 * t[1]
    IN  /\ cylinders \in 1 .. 1024 /\ t[2] \in 1 .. 255 /\ t[14] = g.s
        /\ cylinders * t[2] \in (g.c * g.h - 16 * g.h) .. (g.c * g.h)
        /\ g.c > 1024 => /\ t[3] = 160 /\ t[9] + 256 * t[10] = g.c /\ t[11] = g.h
                         /\ (SumTo13(t) + t[14] + t[15]) % 256 = 0
DiskTables ==
    \A n \in {1, 2} :
        LET g == This.disks[n]
        IN  Passed(<<"disk0", "disk1">>[n]) /\ ~post.halted /\ IsDisk(g) /\ (g.c > 8192 => g.h < 16) =>
                Describes(post.tables[n], g)
=============================================================================
