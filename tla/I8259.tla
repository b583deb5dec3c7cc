--------------------------------- MODULE I8259 ---------------------------------
(***************************************************************************)
(* One i8259 interrupt controller (module i8259 of src/rtl/soc/pic.v) as   *)
(* functions of its registers: Clock gives the registers after one clock   *)
(* edge.  Levels are the bits of its registers, which are sets of levels   *)
(* here; a write is [on, a, d]: whether one is strobed, the address bit    *)
(* and the byte.  OCW3 (poll, special mask, register select) is left out.  *)
(***************************************************************************)
EXTENDS Integers, Sequences

Level == 0 .. 7
ByteValue == 0 .. 255

\* The registers.  do and vector are interrupt_do and interrupt_vector,
\* cascade is slave_active, slaves irr_slave, lowest lowest_priority, expect
\* init_byte_expected.
Chip == [irr : SUBSET Level, isr : SUBSET Level, imr : SUBSET Level, last : SUBSET Level,
         do : BOOLEAN, vector : ByteValue, spurious : BOOLEAN, cascade : BOOLEAN,
         lowest : Level, offset : 0 .. 31, slaves : SUBSET Level, level_mode : BOOLEAN,
         auto_eoi : BOOLEAN, rotate : BOOLEAN,
         in_init : BOOLEAN, need4 : BOOLEAN, expect : {0, 2, 3, 4}]

InReset == [irr |-> {}, isr |-> {}, imr |-> Level, last |-> {},
            do |-> FALSE, vector |-> 0, spurious |-> FALSE, cascade |-> FALSE,
            lowest |-> 7, offset |-> 14, slaves |-> {}, level_mode |-> FALSE,
            auto_eoi |-> FALSE, rotate |-> FALSE,
            in_init |-> FALSE, need4 |-> FALSE, expect |-> 0]

NoWrite == [on |-> FALSE, a |-> 0, d |-> 0]

-----------------------------------------------------------------------------
\* What a write is.
Bit(d, n) == (d \div <<1, 2, 4, 8, 16, 32, 64, 128>>[n + 1]) % 2 = 1
Bits(d) == {l \in Level : Bit(d, l)}

High(d) == d \div 8                     \* bits 7 to 3

Icw1(w) == w.on /\ w.a = 0 /\ Bit(w.d, 4)
Icw(c, w, n) == w.on /\ w.a = 1 /\ c.in_init /\ c.expect = n
Ocw1(c, w) == w.on /\ w.a = 1 /\ ~c.in_init
Ocw2(w) == w.on /\ w.a = 0 /\ ~Bit(w.d, 4) /\ ~Bit(w.d, 3)
AnyEoi(w) == Ocw2(w) /\ w.d \in {32, 160}
SpecificEoi(w) == Ocw2(w) /\ High(w.d) \in {12, 28}
SetsPriority(w) == Ocw2(w) /\ High(w.d) \in {24, 28}

-----------------------------------------------------------------------------
\* Priorities run down from the level after lowest, round to lowest.
Rank(c, l) == (l + 7 - c.lowest) % 8
Ranked(c, r) == (c.lowest + r + 1) % 8
First(c, levels) == IF levels = {} THEN 7
                    ELSE CHOOSE r \in Level : /\ Ranked(c, r) \in levels
                                              /\ \A l \in levels : r <= Rank(c, l)

Prepared(c) == c.irr \ (c.imr \cup c.isr)

\* A bug: anything unmasked interrupts, whatever is in service.
Irq_Flat(c) == Prepared(c) # {}

Irq(c) == Prepared(c) # {} /\ First(c, Prepared(c)) <= First(c, c.isr)
IrqValue(c) == Ranked(c, First(c, Prepared(c)))

\* What the processor takes with interrupt_done: a spurious interrupt is no level.
Taken(c, done) == IF done /\ ~c.spurious THEN {c.vector % 8} ELSE {}

-----------------------------------------------------------------------------
\* A bug: a request outlives its being taken.
IrrNext_Kept(c, taken, lines) ==
    (c.irr \cap lines) \cup (IF c.level_mode THEN lines ELSE lines \ c.last)

\* The registers after the edge, but for ICW1.
IrrNext(c, taken, lines) ==
    ((c.irr \cap lines) \ taken) \cup (IF c.level_mode THEN lines ELSE lines \ c.last)

\* A bug: automatic EOI is not looked at.
IsrNext_NoAuto(c, w, taken) ==
    IF SpecificEoi(w) THEN c.isr \ {w.d % 8}
    ELSE IF AnyEoi(w) THEN c.isr \ {Ranked(c, First(c, c.isr))}
    ELSE c.isr \cup taken

IsrNext(c, w, taken) ==
    IF SpecificEoi(w) THEN c.isr \ {w.d % 8}
    ELSE IF AnyEoi(w) THEN c.isr \ {Ranked(c, First(c, c.isr))}
    ELSE IF c.auto_eoi THEN c.isr
    ELSE c.isr \cup taken

\* A bug: a rotating EOI moves priorities on by one, as the unspecific one does.
LowestNext_ByOne(c, w, taken) ==
    IF Ocw2(w) /\ High(w.d) = 24 THEN w.d % 8
    ELSE IF SetsPriority(w) \/ (Ocw2(w) /\ w.d = 160) THEN (c.lowest + 1) % 8
    ELSE c.lowest

LowestNext(c, w, taken) ==
    IF SetsPriority(w) THEN w.d % 8
    ELSE IF (Ocw2(w) /\ w.d = 160) \/ (taken # {} /\ c.auto_eoi /\ c.rotate)
    THEN (c.lowest + 1) % 8
    ELSE c.lowest

\* A bug: the request to the processor falls with the one that made it.
DoNext_Follows(c, done) == ~done /\ Irq(c)

DoNext(c, done) == ~done /\ (c.do \/ Irq(c))

SpuriousNext(c, done) == IF c.do /\ ~done /\ ~Irq(c) THEN TRUE
                         ELSE c.spurious /\ ~done /\ ~Irq(c)
VectorNext(c) == IF Irq(c) \/ c.do THEN 8 * c.offset + IrqValue(c) ELSE c.vector

CascadeNext(c, done) == IF done THEN FALSE
                        ELSE IF Irq(c) \/ c.do THEN IrqValue(c) \in c.slaves
                        ELSE c.cascade

\* ICW1 starts the initialisation over.
Restarted(c, w, lines) ==
    [c EXCEPT !.irr = {}, !.isr = {}, !.imr = {}, !.last = lines,
              !.do = FALSE, !.vector = 0, !.spurious = FALSE, !.cascade = FALSE, !.lowest = 7,
              !.level_mode = Bit(w.d, 3), !.auto_eoi = FALSE, !.rotate = FALSE,
              !.in_init = TRUE, !.need4 = Bit(w.d, 0), !.expect = 2]

\* The initialisation words and the mask.
Programmed(c, w) ==
    [c EXCEPT
        !.imr = IF Ocw1(c, w) THEN Bits(w.d) ELSE @,
        !.offset = IF Icw(c, w, 2) THEN High(w.d) ELSE @,
        !.slaves = IF Icw(c, w, 3) THEN Bits(w.d) ELSE @,
        !.auto_eoi = IF Icw(c, w, 4) THEN Bit(w.d, 1) ELSE @,
        !.rotate = IF Ocw2(w) /\ w.d % 128 = 0 THEN Bit(w.d, 7) ELSE @,
        !.in_init = @ /\ ~(Icw(c, w, 3) /\ ~c.need4) /\ ~Icw(c, w, 4),
        !.expect = IF Icw(c, w, 2) THEN 3
                   ELSE IF Icw(c, w, 3) /\ c.need4 THEN 4 ELSE @]

Clock(c, w, lines, done) ==
    IF Icw1(w) THEN Restarted(c, w, lines)
    ELSE [Programmed(c, w) EXCEPT
             !.irr = IrrNext(c, Taken(c, done), lines),
             !.isr = IsrNext(c, w, Taken(c, done)),
             !.last = lines,
             !.lowest = LowestNext(c, w, Taken(c, done)),
             !.do = DoNext(c, done),
             !.spurious = SpuriousNext(c, done),
             !.vector = VectorNext(c),
             !.cascade = CascadeNext(c, done)]
=============================================================================
