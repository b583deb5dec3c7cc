-------------------------------- MODULE Pic_proofs --------------------------------
(***************************************************************************)
(* Proofs about the interrupt controllers: what a controller has in        *)
(* service is what the handlers have yet to end, every line is taken no    *)
(* more often than it rose, the slave is acknowledged only while it asks,  *)
(* and priorities, fixed or rotating, are kept.  The facts about one       *)
(* controller come first, then the invariant of the two together with the  *)
(* processor and the program, and what each kind of step does to it.       *)
(***************************************************************************)
EXTENDS Pic, SequenceTheorems, TLAPS

-----------------------------------------------------------------------------
(* Priorities *)

\* Remainders by 8 of the sums that occur.
LEMMA Mod8 ==
    /\ \A x \in 0 .. 7 : x % 8 = x
    /\ \A x \in 8 .. 15 : x % 8 = x - 8
  OBVIOUS

\* A level's rank is its distance from the level after the lowest.
LEMMA RankIs ==
    ASSUME NEW c \in Chip, NEW l \in Level
    PROVE  /\ Rank(c, l) \in Level
           /\ l > c.lowest => Rank(c, l) = l - c.lowest - 1
           /\ l <= c.lowest => Rank(c, l) = l + 7 - c.lowest
<1>1. c.lowest \in 0 .. 7 /\ l \in 0 .. 7
  BY DEF Chip, Level
<1> DEFINE w == c.lowest
<1> HIDE DEF w
<1>2. w \in 0 .. 7
  BY <1>1 DEF w
<1>3. CASE l > w
  <2>1. l + 7 - w \in 8 .. 15
    BY <1>1, <1>2, <1>3
  <2>2. PICK x \in 8 .. 15 : x = l + 7 - w
    BY <2>1
  <2>3. x % 8 = x - 8
    BY Mod8
  <2>4. Rank(c, l) = l - w - 1
    BY <2>2, <2>3, <1>1, <1>2 DEF Rank, w
  <2>5. QED BY <1>1, <1>2, <1>3, <2>4 DEF Level, w
<1>4. CASE l <= w
  <2>1. l + 7 - w \in 0 .. 7
    BY <1>1, <1>2, <1>4
  <2>2. PICK x \in 0 .. 7 : x = l + 7 - w
    BY <2>1
  <2>3. x % 8 = x
    BY Mod8
  <2>4. QED BY <1>1, <1>2, <1>4, <2>2, <2>3 DEF Rank, Level, w
<1>5. QED BY <1>1, <1>2, <1>3, <1>4 DEF Level

\* A rank's level lies that far from it.
LEMMA RankedIs ==
    ASSUME NEW c \in Chip, NEW r \in Level
    PROVE  /\ Ranked(c, r) \in Level
           /\ Rank(c, Ranked(c, r)) = r
<1> DEFINE w == c.lowest
<1>1. w \in 0 .. 7 /\ r \in 0 .. 7
  BY DEF Chip, Level
<1>2. Ranked(c, r) = (w + r + 1) % 8
  BY DEF Ranked
<1> HIDE DEF w
<1>3. CASE w + r + 1 < 8
  <2>0. PICK x \in 0 .. 7 : x = w + r + 1
    BY <1>1, <1>3
  <2>1. x % 8 = x
    BY Mod8
  <2>2. Ranked(c, r) \in Level /\ Ranked(c, r) > w /\ Ranked(c, r) - w - 1 = r
    BY <1>1, <1>2, <1>3, <2>0, <2>1 DEF Level
  <2>3. QED BY <2>2, RankIs DEF w
<1>4. CASE w + r + 1 >= 8
  <2>1. PICK x \in 8 .. 15 : x = w + r + 1
    BY <1>1, <1>4
  <2>2. x % 8 = x - 8
    BY Mod8
  <2>3. Ranked(c, r) \in Level /\ Ranked(c, r) <= w /\ Ranked(c, r) + 7 - w = r
    BY <1>1, <1>2, <1>4, <2>1, <2>2 DEF Level
  <2>4. QED BY <2>3, RankIs DEF w
<1>5. QED BY <1>1, <1>3, <1>4

LEMMA RankInverse ==
    ASSUME NEW c \in Chip, NEW l \in Level
    PROVE  Ranked(c, Rank(c, l)) = l
<1> DEFINE w == c.lowest
<1>1. w \in 0 .. 7 /\ l \in 0 .. 7
  BY DEF Chip, Level
<1>2. Ranked(c, Rank(c, l)) = (w + Rank(c, l) + 1) % 8
  BY DEF Ranked
<1>3. CASE l > w
  <2>1. Rank(c, l) = l - w - 1
    BY <1>3, RankIs
  <2>2. w + Rank(c, l) + 1 = l
    BY <1>1, <2>1
  <2>3. QED BY <1>1, <1>2, <2>2, Mod8
<1>4. CASE l <= w
  <2>1. Rank(c, l) = l + 7 - w
    BY <1>4, RankIs
  <2>2. w + Rank(c, l) + 1 = l + 8 /\ l + 8 \in 8 .. 15
    BY <1>1, <2>1
  <2>3. (l + 8) % 8 = l
    BY <1>1, <2>2, Mod8
  <2>4. QED BY <1>2, <2>2, <2>3
<1>5. QED BY <1>1, <1>3, <1>4

\* No two levels have the same rank.
LEMMA RanksDiffer ==
    ASSUME NEW c \in Chip, NEW l \in Level, NEW m \in Level, Rank(c, l) = Rank(c, m)
    PROVE  l = m
  BY RankInverse

\* Of a set of ranks there is a least one.
LEMMA LeastRank ==
    ASSUME NEW R \in SUBSET Level, R # {}
    PROVE  \E r \in R : \A q \in R : r <= q
<1>1. 0 \in R \/ 1 \in R \/ 2 \in R \/ 3 \in R \/ 4 \in R \/ 5 \in R \/ 6 \in R \/ 7 \in R
  <2>1. PICK x \in R : x \in 0 .. 7
    BY DEF Level
  <2>2. x = 0 \/ x = 1 \/ x = 2 \/ x = 3 \/ x = 4 \/ x = 5 \/ x = 6 \/ x = 7
    BY <2>1
  <2>3. QED BY <2>1, <2>2
<1>2. CASE 0 \in R
  BY <1>2 DEF Level
<1>3. CASE 0 \notin R /\ 1 \in R
  BY <1>3 DEF Level
<1>4. CASE 0 \notin R /\ 1 \notin R /\ 2 \in R
  BY <1>4 DEF Level
<1>5. CASE 0 \notin R /\ 1 \notin R /\ 2 \notin R /\ 3 \in R
  BY <1>5 DEF Level
<1>6. CASE 0 \notin R /\ 1 \notin R /\ 2 \notin R /\ 3 \notin R /\ 4 \in R
  <2>1. \A q \in R : q \in 0 .. 7 /\ q # 0 /\ q # 1 /\ q # 2 /\ q # 3
    BY <1>6 DEF Level
  <2>2. \A q \in R : 4 <= q
    BY <2>1
  <2>3. QED BY <1>6, <2>2
<1>7. CASE 0 \notin R /\ 1 \notin R /\ 2 \notin R /\ 3 \notin R /\ 4 \notin R
  BY <1>7, <1>1 DEF Level
<1>8. QED BY <1>2, <1>3, <1>4, <1>5, <1>6, <1>7

\* First gives the rank of the first of the levels.
LEMMA FirstIs ==
    ASSUME NEW c \in Chip, NEW L \in SUBSET Level, L # {}
    PROVE  /\ First(c, L) \in Level
           /\ Ranked(c, First(c, L)) \in L
           /\ \A l \in L : First(c, L) <= Rank(c, l)
<1> DEFINE R == {Rank(c, l) : l \in L}
<1>1. R \in SUBSET Level /\ R # {}
  BY RankIs
<1>2. PICK r \in R : \A q \in R : r <= q
  BY <1>1, LeastRank, Zenon
<1>3. r \in Level /\ Ranked(c, r) \in L /\ \A l \in L : r <= Rank(c, l)
  BY <1>1, <1>2, RankInverse
<1> DEFINE P(x) == Ranked(c, x) \in L /\ \A l \in L : x <= Rank(c, l)
<1>4. First(c, L) = CHOOSE x \in Level : P(x)
  BY Zenon DEF First
<1>5. \E x \in Level : P(x)
  BY <1>3
<1> HIDE DEF P
<1>6. First(c, L) \in Level /\ P(First(c, L))
  BY <1>4, <1>5, Zenon
<1>7. QED BY <1>6 DEF P

LEMMA FirstOfNone == ASSUME NEW c PROVE First(c, {}) = 7
  BY DEF First

\* A request is one of the levels prepared, ranks first of them, and before
\* everything in service.
LEMMA IrqMeans ==
    ASSUME NEW c \in Chip, Irq(c)
    PROVE  /\ IrqValue(c) \in Prepared(c) /\ IrqValue(c) \in Level
           /\ \A l \in Prepared(c) : Rank(c, IrqValue(c)) <= Rank(c, l)
           /\ \A m \in c.isr : Rank(c, IrqValue(c)) < Rank(c, m)
<1> DEFINE v == IrqValue(c)
<1>1. Prepared(c) \in SUBSET Level /\ Prepared(c) # {} /\ c.isr \in SUBSET Level
  BY DEF Irq, Prepared, Chip
<1>2. First(c, Prepared(c)) \in Level /\ v \in Prepared(c)
      /\ \A l \in Prepared(c) : First(c, Prepared(c)) <= Rank(c, l)
  BY <1>1, FirstIs DEF IrqValue
<1>3. v \in Level /\ Rank(c, v) = First(c, Prepared(c))
  BY <1>1, <1>2, RankedIs DEF IrqValue
<1>4. ASSUME NEW m \in c.isr PROVE Rank(c, v) < Rank(c, m)
  <2>1. First(c, c.isr) <= Rank(c, m) /\ First(c, c.isr) \in Level /\ m \in Level
    BY <1>1, <1>4, FirstIs
  <2>2. Rank(c, v) <= Rank(c, m)
    BY <1>2, <1>3, <2>1, RankIs DEF Irq, Level
  <2>3. v # m
    BY <1>2, <1>4 DEF Prepared
  <2>4. Rank(c, v) # Rank(c, m)
    BY <1>3, <2>1, <2>3, RanksDiffer
  <2>5. QED BY <1>3, <2>1, <2>2, <2>4, RankIs DEF Level
<1>5. QED BY <1>2, <1>3, <1>4

\* A level prepared that ranks before everything in service is a request.
LEMMA IrqIf ==
    ASSUME NEW c \in Chip, NEW l \in Prepared(c), \A m \in c.isr : Rank(c, l) < Rank(c, m)
    PROVE  Irq(c)
<1>1. Prepared(c) \in SUBSET Level /\ c.isr \in SUBSET Level /\ l \in Level
  BY DEF Prepared, Chip
<1>2. First(c, Prepared(c)) \in Level /\ First(c, Prepared(c)) <= Rank(c, l) /\ Rank(c, l) \in Level
  BY <1>1, FirstIs, RankIs
<1>3. CASE c.isr = {}
  BY <1>2, <1>3, FirstOfNone DEF Irq, Level
<1>4. CASE c.isr # {}
  <2>1. First(c, c.isr) \in Level /\ Ranked(c, First(c, c.isr)) \in c.isr
    BY <1>1, <1>4, FirstIs
  <2>2. Rank(c, l) < First(c, c.isr)
    BY <2>1, RankedIs
  <2>3. QED BY <1>2, <2>1, <2>2 DEF Irq, Level
<1>5. QED BY <1>3, <1>4

\* With nothing in service a controller that does not ask has nothing to
\* ask for, and shows the lowest level.
LEMMA NothingPrepared ==
    ASSUME NEW c \in Chip, c.isr = {}, ~Irq(c)
    PROVE  Prepared(c) = {} /\ IrqValue(c) = c.lowest
<1>1. Prepared(c) = {}
  BY IrqIf
<1>2. First(c, Prepared(c)) = 7 /\ c.lowest \in Level
  BY <1>1, FirstOfNone DEF Chip
<1>3. QED BY <1>1, <1>2 DEF IrqValue, Ranked, Level

\* What an unspecific EOI ends: the first of the levels in service.
LEMMA FirstInService ==
    ASSUME NEW c \in Chip, NEW v \in c.isr, \A m \in c.isr : m = v \/ Rank(c, v) < Rank(c, m)
    PROVE  Ranked(c, First(c, c.isr)) = v
<1>1. c.isr \in SUBSET Level /\ c.isr # {} /\ v \in Level
  BY DEF Chip
<1> DEFINE f == Ranked(c, First(c, c.isr))
<1>2. First(c, c.isr) \in Level /\ f \in c.isr /\ First(c, c.isr) <= Rank(c, v)
  BY <1>1, FirstIs
<1>3. Rank(c, f) = First(c, c.isr) /\ Rank(c, v) \in Level
  BY <1>1, <1>2, RankedIs, RankIs
<1>4. QED BY <1>2, <1>3 DEF Level

-----------------------------------------------------------------------------
(* A clock of one controller *)

Strobes == [on : BOOLEAN, a : {0, 1}, d : ByteValue]

\* What a clock without ICW1 does to the requests, ...
Requests(c, c2, ls, done) ==
    /\ c2.irr = IrrNext(c, Taken(c, done), ls) /\ c2.last = ls
    /\ c2.do = DoNext(c, done) /\ c2.spurious = SpuriousNext(c, done)
    /\ c2.vector = VectorNext(c) /\ c2.cascade = CascadeNext(c, done)
\* ... and to what was programmed.
Keeps(c, c2) ==
    /\ c2.imr = c.imr /\ c2.offset = c.offset /\ c2.slaves = c.slaves /\ c2.level_mode = c.level_mode
    /\ c2.auto_eoi = c.auto_eoi /\ c2.rotate = c.rotate /\ c2.in_init = c.in_init
    /\ c2.need4 = c.need4 /\ c2.expect = c.expect

\* A controller that was started over.
LEMMA RestartedIs ==
    ASSUME NEW last \in SUBSET Level, NEW level \in BOOLEAN, NEW slaves \in SUBSET Level,
           NEW need \in BOOLEAN, NEW offset \in 0 .. 31
    PROVE  [irr |-> {}, isr |-> {}, imr |-> {}, last |-> last, do |-> FALSE,
            vector |-> 0, spurious |-> FALSE, cascade |-> FALSE,
            lowest |-> 7, offset |-> offset, slaves |-> slaves,
            level_mode |-> level, auto_eoi |-> FALSE, rotate |-> FALSE,
            in_init |-> TRUE, need4 |-> need, expect |-> 2] \in Chip
<1>1. 0 \in ByteValue /\ 7 \in Level /\ {} \in SUBSET Level
  BY DEF Level, ByteValue
<1>2. QED BY <1>1, Zenon DEF Chip

LEMMA HighIs == ASSUME NEW d \in ByteValue PROVE High(d) \in 0 .. 31
  BY DEF High, ByteValue

LEMMA ProgrammedIs ==
    ASSUME NEW c \in Chip, NEW w \in Strobes
    PROVE  LET p == Programmed(c, w)
           IN  /\ p \in Chip
               /\ p.level_mode = c.level_mode /\ p.need4 = c.need4
               /\ p.imr = IF Ocw1(c, w) THEN Bits(w.d) ELSE c.imr
               /\ p.offset = IF Icw(c, w, 2) THEN High(w.d) ELSE c.offset
               /\ p.slaves = IF Icw(c, w, 3) THEN Bits(w.d) ELSE c.slaves
               /\ p.auto_eoi = IF Icw(c, w, 4) THEN Bit(w.d, 1) ELSE c.auto_eoi
               /\ p.rotate = IF Ocw2(w) /\ w.d % 128 = 0 THEN Bit(w.d, 7) ELSE c.rotate
               /\ p.in_init = (c.in_init /\ ~(Icw(c, w, 3) /\ ~c.need4) /\ ~Icw(c, w, 4))
               /\ p.expect = IF Icw(c, w, 2) THEN 3 ELSE IF Icw(c, w, 3) /\ c.need4 THEN 4 ELSE c.expect
<1>1. Bits(w.d) \in SUBSET Level /\ Bit(w.d, 1) \in BOOLEAN /\ Bit(w.d, 7) \in BOOLEAN
  BY DEF Bits, Bit
<1>2. High(w.d) \in 0 .. 31
  BY HighIs DEF Strobes
<1> DEFINE imr == IF Ocw1(c, w) THEN Bits(w.d) ELSE c.imr
           offset == IF Icw(c, w, 2) THEN High(w.d) ELSE c.offset
           slaves == IF Icw(c, w, 3) THEN Bits(w.d) ELSE c.slaves
           auto == IF Icw(c, w, 4) THEN Bit(w.d, 1) ELSE c.auto_eoi
           rotate == IF Ocw2(w) /\ w.d % 128 = 0 THEN Bit(w.d, 7) ELSE c.rotate
           in_init == c.in_init /\ ~(Icw(c, w, 3) /\ ~c.need4) /\ ~Icw(c, w, 4)
           expect == IF Icw(c, w, 2) THEN 3 ELSE IF Icw(c, w, 3) /\ c.need4 THEN 4 ELSE c.expect
<1>3. /\ imr \in SUBSET Level /\ offset \in 0 .. 31 /\ slaves \in SUBSET Level
      /\ expect \in {0, 2, 3, 4}
  BY <1>1, <1>2 DEF Chip
<1>4. auto \in BOOLEAN /\ rotate \in BOOLEAN /\ in_init \in BOOLEAN
  <2>1. c.auto_eoi \in BOOLEAN /\ c.rotate \in BOOLEAN /\ c.in_init \in BOOLEAN
    BY DEF Chip
  <2>2. QED BY <1>1, <2>1, Zenon
<1>5. Programmed(c, w) =
      [c EXCEPT !.imr = imr, !.offset = offset, !.slaves = slaves, !.auto_eoi = auto,
                !.rotate = rotate, !.in_init = in_init, !.expect = expect]
  BY Zenon DEF Programmed
<1> HIDE DEF imr, offset, slaves, auto, rotate, in_init, expect
<1>6. LET p == Programmed(c, w)
      IN  /\ p \in Chip
          /\ p.level_mode = c.level_mode /\ p.need4 = c.need4
          /\ p.imr = imr /\ p.offset = offset /\ p.slaves = slaves /\ p.auto_eoi = auto
          /\ p.rotate = rotate /\ p.in_init = in_init /\ p.expect = expect
  <2> DEFINE q == Programmed(c, w)
  <2>1. q = [c EXCEPT !.imr = imr, !.offset = offset, !.slaves = slaves, !.auto_eoi = auto,
                      !.rotate = rotate, !.in_init = in_init, !.expect = expect]
    BY <1>5
  <2> HIDE DEF q
  <2>2. /\ q \in Chip
        /\ q.level_mode = c.level_mode /\ q.need4 = c.need4
        /\ q.imr = imr /\ q.offset = offset /\ q.slaves = slaves /\ q.auto_eoi = auto
        /\ q.rotate = rotate /\ q.in_init = in_init /\ q.expect = expect
    <3>1. q = [irr |-> c.irr, isr |-> c.isr, imr |-> imr, last |-> c.last, do |-> c.do,
               vector |-> c.vector, spurious |-> c.spurious, cascade |-> c.cascade,
               lowest |-> c.lowest, offset |-> offset, slaves |-> slaves,
               level_mode |-> c.level_mode, auto_eoi |-> auto, rotate |-> rotate,
               in_init |-> in_init, need4 |-> c.need4, expect |-> expect]
      BY <2>1 DEF Chip
    <3>2. q \in Chip
      <4>1. /\ c.irr \in SUBSET Level /\ c.isr \in SUBSET Level /\ c.last \in SUBSET Level /\ c.do \in BOOLEAN
            /\ c.vector \in ByteValue /\ c.spurious \in BOOLEAN /\ c.cascade \in BOOLEAN /\ c.lowest \in Level
            /\ c.level_mode \in BOOLEAN /\ c.need4 \in BOOLEAN
        BY DEF Chip
      <4>2. QED BY <1>3, <1>4, <3>1, <4>1 DEF Chip
    <3>3. QED BY <3>1, <3>2
  <2>3. QED BY <2>2, Zenon DEF q
<1>7. QED BY <1>6, Zenon DEF imr, offset, slaves, auto, rotate, in_init, expect

LEMMA IrqValueIs ==
    ASSUME NEW c \in Chip
    PROVE  IrqValue(c) \in Level
<1>1. Prepared(c) \in SUBSET Level
  BY DEF Prepared, Chip
<1>2. First(c, Prepared(c)) \in Level
  BY <1>1, FirstIs, FirstOfNone DEF Level
<1>3. QED BY <1>2, RankedIs DEF IrqValue

LEMMA VectorIs ==
    ASSUME NEW o \in 0 .. 31, NEW v \in Level
    PROVE  /\ 8 * o + v \in ByteValue
           /\ (8 * o + v) % 8 = v /\ (8 * o + v) \div 8 = o
<1>1. v \in 0 .. 7
  BY DEF Level
<1>2. QED BY <1>1 DEF ByteValue

LEMMA ValuesAre ==
    ASSUME NEW c \in Chip, NEW w \in Strobes, NEW ls \in SUBSET Level, NEW done \in BOOLEAN
    PROVE  /\ Taken(c, done) \in SUBSET Level
           /\ IrrNext(c, Taken(c, done), ls) \in SUBSET Level
           /\ IsrNext(c, w, Taken(c, done)) \in SUBSET Level
           /\ LowestNext(c, w, Taken(c, done)) \in Level
           /\ DoNext(c, done) \in BOOLEAN /\ SpuriousNext(c, done) \in BOOLEAN
           /\ VectorNext(c) \in ByteValue /\ CascadeNext(c, done) \in BOOLEAN
<1>1. /\ c.irr \in SUBSET Level /\ c.isr \in SUBSET Level /\ c.vector \in ByteValue /\ c.lowest \in Level
      /\ c.do \in BOOLEAN /\ c.spurious \in BOOLEAN /\ c.cascade \in BOOLEAN /\ c.offset \in 0 .. 31
      /\ w.d \in ByteValue
  BY DEF Chip, Strobes
<1>2. c.vector % 8 \in Level /\ w.d % 8 \in Level /\ (c.lowest + 1) % 8 \in Level
  BY <1>1 DEF ByteValue, Level
<1>3. Taken(c, done) \in SUBSET Level
  BY <1>2 DEF Taken
<1>4. IrrNext(c, Taken(c, done), ls) \in SUBSET Level
  BY <1>1 DEF IrrNext
<1>5. IsrNext(c, w, Taken(c, done)) \in SUBSET Level
  BY <1>1, <1>3 DEF IsrNext
<1>6. LowestNext(c, w, Taken(c, done)) \in Level
  BY <1>1, <1>2 DEF LowestNext
<1>7. VectorNext(c) \in ByteValue
  BY <1>1, IrqValueIs, VectorIs DEF VectorNext
<1>8. Irq(c) \in BOOLEAN
  BY DEF Irq
<1>9. DoNext(c, done) \in BOOLEAN /\ SpuriousNext(c, done) \in BOOLEAN /\ CascadeNext(c, done) \in BOOLEAN
  <2>1. DoNext(c, done) \in BOOLEAN
    BY Zenon DEF DoNext
  <2>2. SpuriousNext(c, done) \in BOOLEAN
    BY <1>1, Zenon DEF SpuriousNext
  <2>3. CascadeNext(c, done) \in BOOLEAN
    <3> DEFINE b == IrqValue(c) \in c.slaves
    <3>1. b \in BOOLEAN
      OBVIOUS
    <3>2. CascadeNext(c, done) = IF done THEN FALSE ELSE IF Irq(c) \/ c.do THEN b ELSE c.cascade
      BY Zenon DEF CascadeNext
    <3> HIDE DEF b
    <3>3. QED BY <1>1, <3>1, <3>2, Zenon
  <2>4. QED BY <2>1, <2>2, <2>3
<1>10. QED BY <1>3, <1>4, <1>5, <1>6, <1>7, <1>9

\* The registers after a clock without ICW1.
LEMMA ClockIs ==
    ASSUME NEW c \in Chip, NEW w \in Strobes, NEW ls \in SUBSET Level, NEW done \in BOOLEAN, ~Icw1(w)
    PROVE  LET c2 == Clock(c, w, ls, done)
               p == Programmed(c, w)
           IN  /\ c2 \in Chip /\ Requests(c, c2, ls, done)
               /\ c2.isr = IsrNext(c, w, Taken(c, done)) /\ c2.lowest = LowestNext(c, w, Taken(c, done))
               /\ Keeps(p, c2)
<1> DEFINE p == Programmed(c, w)
           irr == IrrNext(c, Taken(c, done), ls)
           isr == IsrNext(c, w, Taken(c, done))
           lowest == LowestNext(c, w, Taken(c, done))
           do == DoNext(c, done)
           spurious == SpuriousNext(c, done)
           vector == VectorNext(c)
           cascade == CascadeNext(c, done)
<1>1. p \in Chip
  BY ProgrammedIs
<1>2. /\ irr \in SUBSET Level /\ isr \in SUBSET Level /\ lowest \in Level /\ do \in BOOLEAN
      /\ spurious \in BOOLEAN /\ vector \in ByteValue /\ cascade \in BOOLEAN
  BY ValuesAre
<1>3. Clock(c, w, ls, done) = [p EXCEPT !.irr = irr, !.isr = isr, !.last = ls, !.lowest = lowest, !.do = do,
                                        !.spurious = spurious, !.vector = vector, !.cascade = cascade]
  BY DEF Clock
<1>4. SUFFICES LET c2 == Clock(c, w, ls, done)
               IN  /\ c2 \in Chip
                   /\ c2.irr = irr /\ c2.isr = isr /\ c2.last = ls /\ c2.lowest = lowest /\ c2.do = do
                   /\ c2.spurious = spurious /\ c2.vector = vector /\ c2.cascade = cascade /\ Keeps(p, c2)
  BY DEF Requests
<1> HIDE DEF p, irr, isr, lowest, do, spurious, vector, cascade
<1> DEFINE q == Clock(c, w, ls, done)
<1>5. q = [p EXCEPT !.irr = irr, !.isr = isr, !.last = ls, !.lowest = lowest, !.do = do,
                    !.spurious = spurious, !.vector = vector, !.cascade = cascade]
  BY <1>3
<1> HIDE DEF q
<1>6. /\ q \in Chip
      /\ q.irr = irr /\ q.isr = isr /\ q.last = ls /\ q.lowest = lowest /\ q.do = do
      /\ q.spurious = spurious /\ q.vector = vector /\ q.cascade = cascade
      /\ Keeps(p, q)
  <2>1. q = [irr |-> irr, isr |-> isr, imr |-> p.imr, last |-> ls, do |-> do,
             vector |-> vector, spurious |-> spurious, cascade |-> cascade,
             lowest |-> lowest, offset |-> p.offset, slaves |-> p.slaves,
             level_mode |-> p.level_mode, auto_eoi |-> p.auto_eoi, rotate |-> p.rotate,
             in_init |-> p.in_init, need4 |-> p.need4, expect |-> p.expect]
    BY <1>1, <1>5 DEF Chip
  <2>2. q \in Chip
    <3>1. /\ p.imr \in SUBSET Level /\ p.offset \in 0 .. 31 /\ p.slaves \in SUBSET Level
          /\ p.level_mode \in BOOLEAN /\ p.auto_eoi \in BOOLEAN /\ p.rotate \in BOOLEAN
          /\ p.in_init \in BOOLEAN /\ p.need4 \in BOOLEAN /\ p.expect \in {0, 2, 3, 4}
      BY <1>1 DEF Chip
    <3>2. QED BY <1>2, <2>1, <3>1 DEF Chip
  <2>3. QED BY <2>1, <2>2 DEF Keeps
<1>7. QED BY <1>6, Zenon DEF q

\* ICW1 starts a controller over.
LEMMA RestartIs ==
    ASSUME NEW c \in Chip, NEW w \in Strobes, NEW ls \in SUBSET Level, NEW done \in BOOLEAN, Icw1(w)
    PROVE  LET c2 == Clock(c, w, ls, done)
           IN  /\ c2 \in Chip
               /\ c2.irr = {} /\ c2.isr = {} /\ c2.last = ls /\ ~c2.do /\ ~c2.spurious /\ c2.lowest = 7
               /\ (c2.level_mode <=> Bit(w.d, 3)) /\ ~c2.auto_eoi /\ ~c2.rotate
               /\ c2.in_init /\ (c2.need4 <=> Bit(w.d, 0)) /\ c2.expect = 2
<1>1. Bit(w.d, 3) \in BOOLEAN /\ Bit(w.d, 0) \in BOOLEAN /\ 7 \in Level /\ 0 \in ByteValue
  BY DEF Bit, Level, ByteValue
<1>2. Clock(c, w, ls, done) = Restarted(c, w, ls)
  BY DEF Clock
<1> DEFINE level == Bit(w.d, 3)
           need == Bit(w.d, 0)
<1> HIDE DEF level, need
<1>3. Restarted(c, w, ls) =
      [c EXCEPT !.irr = {}, !.isr = {}, !.imr = {}, !.last = ls,
                !.do = FALSE, !.vector = 0, !.spurious = FALSE, !.cascade = FALSE, !.lowest = 7,
                !.level_mode = level, !.auto_eoi = FALSE, !.rotate = FALSE,
                !.in_init = TRUE, !.need4 = need, !.expect = 2]
  BY DEF Restarted, level, need
<1>4. level \in BOOLEAN /\ need \in BOOLEAN
  BY <1>1 DEF level, need
<1>5. LET c2 == Clock(c, w, ls, done)
      IN  /\ c2 \in Chip
          /\ c2.irr = {} /\ c2.isr = {} /\ c2.last = ls /\ ~c2.do /\ ~c2.spurious /\ c2.lowest = 7
          /\ c2.level_mode = level /\ ~c2.auto_eoi /\ ~c2.rotate
          /\ c2.in_init /\ c2.need4 = need /\ c2.expect = 2
  <2> DEFINE q == Clock(c, w, ls, done)
  <2>1. q = [c EXCEPT !.irr = {}, !.isr = {}, !.imr = {}, !.last = ls,
                !.do = FALSE, !.vector = 0, !.spurious = FALSE, !.cascade = FALSE, !.lowest = 7,
                !.level_mode = level, !.auto_eoi = FALSE, !.rotate = FALSE,
                !.in_init = TRUE, !.need4 = need, !.expect = 2]
    BY <1>2, <1>3
  <2> HIDE DEF q
  <2>2. /\ q \in Chip
        /\ q.irr = {} /\ q.isr = {} /\ q.last = ls /\ ~q.do /\ ~q.spurious /\ q.lowest = 7
        /\ q.level_mode = level /\ ~q.auto_eoi /\ ~q.rotate
        /\ q.in_init /\ q.need4 = need /\ q.expect = 2
    <3> DEFINE offset == c.offset
               slaves == c.slaves
    <3>1. offset \in 0 .. 31 /\ slaves \in SUBSET Level
      BY DEF Chip
    <3>2. q = [irr |-> {}, isr |-> {}, imr |-> {}, last |-> ls, do |-> FALSE,
               vector |-> 0, spurious |-> FALSE, cascade |-> FALSE,
               lowest |-> 7, offset |-> offset, slaves |-> slaves,
               level_mode |-> level, auto_eoi |-> FALSE, rotate |-> FALSE,
               in_init |-> TRUE, need4 |-> need, expect |-> 2]
      BY <2>1 DEF Chip
    <3> HIDE DEF offset, slaves
    <3>3. [irr |-> {}, isr |-> {}, imr |-> {}, last |-> ls, do |-> FALSE,
           vector |-> 0, spurious |-> FALSE, cascade |-> FALSE,
           lowest |-> 7, offset |-> offset, slaves |-> slaves,
           level_mode |-> level, auto_eoi |-> FALSE, rotate |-> FALSE,
           in_init |-> TRUE, need4 |-> need, expect |-> 2] \in Chip
      BY <1>4, <3>1, RestartedIs, Zenon
    <3>4. q \in Chip
      BY <3>2, <3>3, Zenon
    <3>5. QED BY <3>2, <3>4
  <2>3. QED BY <2>2, Zenon DEF q
<1>6. QED BY <1>5 DEF level, need

\* A clock without a command: what is taken goes into service.
LEMMA PlainClock ==
    ASSUME NEW c \in Chip, NEW w \in Strobes, NEW ls \in SUBSET Level, NEW done \in BOOLEAN,
           ~w.on \/ w.a = 1, ~c.rotate
    PROVE  LET c2 == Clock(c, w, ls, done)
           IN  /\ c2 \in Chip /\ Requests(c, c2, ls, done) /\ c2.lowest = c.lowest
               /\ c2.isr = c.isr \cup (IF c.auto_eoi THEN {} ELSE Taken(c, done))
               /\ c2.level_mode = c.level_mode /\ c2.rotate = c.rotate /\ c2.need4 = c.need4
               /\ ~w.on \/ ~c.in_init => /\ c2.in_init = c.in_init /\ c2.expect = c.expect /\ c2.auto_eoi = c.auto_eoi
                                         /\ c2.offset = c.offset /\ c2.slaves = c.slaves
               /\ ~w.on => c2.imr = c.imr
<1>1. ~Icw1(w) /\ ~Ocw2(w) /\ (~w.on => ~Ocw1(c, w)) /\ (~w.on \/ ~c.in_init => \A n \in {2, 3, 4} : ~Icw(c, w, n))
  BY DEF Icw1, Ocw1, Ocw2, Icw, Strobes
<1>2. c.in_init \in BOOLEAN
  BY DEF Chip
<1>3. IsrNext(c, w, Taken(c, done)) = c.isr \cup (IF c.auto_eoi THEN {} ELSE Taken(c, done))
  BY <1>1 DEF IsrNext, SpecificEoi, AnyEoi
<1>4. LowestNext(c, w, Taken(c, done)) = c.lowest
  BY <1>1 DEF LowestNext, SetsPriority
<1>5. QED BY <1>1, <1>2, <1>3, <1>4, ClockIs, ProgrammedIs DEF Keeps

-----------------------------------------------------------------------------
(* The invariant *)

\* Words of the setup written so far, and those a controller has had.
Stage == 10 - Len(setup)
Words(chip) == IF chip = "master" THEN (Stage + 1) \div 2 ELSE Stage \div 2
Word(chip, n) == task.setup[IF chip = "master" THEN 2 * n - 1 ELSE 2 * n].d
Handler == [chip : Which, level : Level, real : BOOLEAN, ends : Seq(Write)]

Types ==
    /\ task \in Tasks
    /\ pic \in [Which -> Chip]
    /\ lines \subseteq Lines
    /\ cpu \in {"run", "out", "possible", "done"} /\ enabled \in BOOLEAN
    /\ setup \in Seq(Write) /\ handlers \in Seq(Handler)
    /\ edges \in [Lines -> Nat] /\ taken \in [Lines -> Nat] /\ passed \in [Lines -> SUBSET Line]

\* What is left of the setup is its end, ...
SetupLeft == /\ Len(setup) <= 10
             /\ \A n \in DOMAIN setup : setup[n] = task.setup[Stage + n]

\* ... and a controller is programmed as far as it has had its words.
ProgrammedTo(chip, c, n) ==
    /\ c.in_init <=> n \in 1 .. 3
    /\ n \in 1 .. 3 => c.expect = n + 1 /\ c.need4
    /\ ~c.level_mode /\ ~c.rotate
    /\ n >= 2 => c.offset = High(Word(chip, 2))
    /\ chip = "master" /\ n >= 3 => c.slaves = {2}
    /\ c.auto_eoi <=> n >= 4 /\ task.eoi = "automatic"
    /\ task.eoi # "rotating" \/ setup # <<>> => c.lowest = 7
ProgramKept == \A chip \in Which : ProgrammedTo(chip, pic[chip], Words(chip))

\* Nothing is asked for until both controllers were started, nothing is taken
\* until they are set up, and without nesting not in a handler.
Untouched(c) == c.irr = {} /\ ~c.do /\ ~c.spurious /\ c.isr = {}
Phases ==
    /\ setup # <<>> => handlers = <<>> /\ ~enabled /\ \A l \in Lines : passed[l] = {}
    /\ Stage < 2 => lines = {} /\ \A chip \in Which : Untouched(pic[chip])
    /\ cpu \in {"possible", "done"} => pic["master"].do /\ enabled
    /\ ~task.nested => Len(handlers) <= 1 /\ (enabled => handlers = <<>>)

\* A vector that is shown is its controller's, and the slave's when it says so.
VectorOf(chip, c) == c.do => /\ c.vector \div 8 = c.offset
                             /\ chip = "master" => (c.cascade <=> c.vector % 8 = 2)
Vectors == Stage >= 7 => \A chip \in Which : VectorOf(chip, pic[chip])

\* What a handler may still have to end.  At each controller the later of two
\* handlers outranks the earlier, so an unspecific EOI ends the later one's.
Owed(h) ==
    CASE task.eoi = "automatic" -> {<<>>}
      [] task.eoi # "automatic" /\ h.chip = "slave" ->
            {<<>>, <<Eoi("master", 2)>>} \cup (IF h.real THEN {<<Eoi("slave", h.level), Eoi("master", 2)>>} ELSE {})
      [] OTHER -> {<<>>} \cup (IF h.real THEN {<<Eoi("master", h.level)>>} ELSE {})
Opened(h, chip) == \E k \in DOMAIN h.ends : h.ends[k].chip = chip
HandlersNest ==
    /\ \A n \in DOMAIN handlers : handlers[n].ends \in Owed(handlers[n])
    /\ \A chip \in Which : \A i, j \in DOMAIN handlers :
          i < j /\ Opened(handlers[i], chip) /\ Opened(handlers[j], chip)
              => Serves(handlers[i], chip) < Serves(handlers[j], chip)

\* The master holds or shows a request of the slave only while the slave asks.
Latched(c) == c.do /\ ~c.spurious
Cascades ==
    /\ 2 \in pic["master"].irr => pic["slave"].do /\ 2 \in pic["master"].last
    /\ Latched(pic["master"]) /\ pic["master"].vector % 8 = 2 => pic["slave"].do /\ 2 \in pic["master"].last

\* Where no request is withdrawn or masked, one that is shown and is no longer
\* there is one of the setup, which takes no interrupts.
Fresh(c) == c.isr = {} /\ c.lowest = 7
Settled == Undisturbed(task) =>
             \A chip \in Which : (pic[chip].do /\ ~Irq(pic[chip])) \/ pic[chip].spurious => Fresh(pic[chip])

\* When the processor takes the vector, its level outranks what is in service,
\* or it is level 7 of a controller that has nothing in service.
Answers(c) ==
    /\ c.spurious => Fresh(c) /\ c.vector % 8 = 7
    /\ ~c.spurious => c.vector % 8 \notin c.isr /\ \A m \in c.isr : Rank(c, c.vector % 8) < Rank(c, m)
Answered == cpu = "done" => /\ Answers(pic["master"])
                            /\ SlaveSelect => pic["slave"].do /\ pic["slave"].isr = {} /\ Answers(pic["slave"])

\* Every time a line was taken, and every request held for it, has a rise of
\* its own; so a line that is held till it is taken is high while it is asked for,
\* and no other level is ever asked for but the slave's.
ChipOf(l) == IF l \in Level THEN "master" ELSE "slave"
LevelOf(l) == IF l \in Level THEN l ELSE l - 8
One(b) == IF b THEN 1 ELSE 0
Held(c, v) == v \in c.irr \/ (Latched(c) /\ c.vector % 8 = v)
Rising(l) == l \in lines /\ LevelOf(l) \notin pic[ChipOf(l)].last
Counted == \A l \in Lines : taken[l] + One(Held(pic[ChipOf(l)], LevelOf(l))) + One(Rising(l)) <= edges[l]
Steady == /\ \A chip \in Which : \A v \in pic[chip].irr : LineOf(chip, v) \in Lines \cup {2}
          /\ \A l \in task.steady : LevelOf(l) \in pic[ChipOf(l)].irr => l \in lines

\* With a rotating EOI a line that waits ranks between what is in service and
\* whatever was taken before it, so it is the next to be taken of all these.
Rival(l, m) == IF l \in Level /\ m \notin Level THEN 2 ELSE LevelOf(m)
InLine(c, l, m) ==
    /\ l \in c.irr \ c.imr
    /\ c.isr = {} => Rank(c, l) < Rank(c, m)
    /\ \A v \in c.isr : m = v \/ (Rank(c, v) < Rank(c, l) /\ Rank(c, l) < Rank(c, m))
Turns == task.eoi = "rotating" =>
    \A l \in Lines : \A m \in passed[l] : Rivals(l, m) => InLine(pic[ChipOf(l)], LevelOf(l), Rival(l, m))
NextIs(c, l) == ~c.spurious /\ Rank(c, c.vector % 8) <= Rank(c, l)
TurnTaken == task.eoi = "rotating" /\ cpu = "done" =>
    \A l \in Lines : (l \in Level \/ SlaveSelect) /\ (\E m \in passed[l] : Rivals(l, m))
        => NextIs(pic[ChipOf(l)], LevelOf(l))

Inv == /\ Types /\ SetupLeft /\ ProgramKept /\ Phases /\ Vectors /\ HandlersNest /\ ServiceExact
       /\ Cascades /\ Settled /\ Answered /\ Counted /\ Steady /\ Turns /\ TurnTaken

-----------------------------------------------------------------------------
(* Facts of a state *)

\* Which controller a line goes to, and what a controller is given.
Input(chip) == IF chip = "master" THEN MasterLines ELSE SlaveLines
Acked(chip) == cpu = "done" /\ (chip = "master" \/ SlaveSelect)

LEMMA TaskIs ==
    ASSUME Types
    PROVE  IsTask(task) /\ SetsUp(task) /\ Orderly(task)
  BY PicAssumption DEF Types

LEMMA ChipsAre ==
    ASSUME Types
    PROVE  pic["master"] \in Chip /\ pic["slave"] \in Chip
  BY DEF Types, Which

LEMMA LinesAre ==
    ASSUME Types, NEW l \in Lines
    PROVE  /\ l \in Line /\ l # 2 /\ ChipOf(l) \in Which /\ LevelOf(l) \in Level
           /\ l \in Level => ChipOf(l) = "master" /\ LevelOf(l) = l
           /\ l \notin Level => ChipOf(l) = "slave" /\ l = LevelOf(l) + 8
           /\ LevelOf(l) \in Input(ChipOf(l)) <=> l \in lines
<1>1. l \in Line /\ l # 2
  BY TaskIs DEF IsTask, Lines
<1>2. CASE l \in Level
  <2>1. ChipOf(l) = "master" /\ LevelOf(l) = l
    BY <1>2 DEF ChipOf, LevelOf
  <2>2. QED BY <1>1, <1>2, <2>1 DEF Input, MasterLines, Which
<1>3. CASE l \notin Level
  <2>1. ChipOf(l) = "slave" /\ LevelOf(l) = l - 8 /\ LevelOf(l) \in Level /\ LevelOf(l) + 8 = l
    BY <1>1, <1>3 DEF ChipOf, LevelOf, Line, Level
  <2>2. QED BY <1>1, <1>3, <2>1 DEF Input, SlaveLines, Which
<1>4. QED BY <1>2, <1>3

LEMMA InputIs ==
    ASSUME Types, NEW chip \in Which
    PROVE  Input(chip) \in SUBSET Level /\ Acked(chip) \in BOOLEAN
  BY DEF Input, MasterLines, SlaveLines, Acked, Which, Level

\* The stages of the setup.
LEMMA Staged ==
    ASSUME Types, SetupLeft
    PROVE  /\ Stage \in 0 .. 10 /\ Len(setup) = 10 - Stage
           /\ setup # <<>> <=> Stage < 10
           /\ setup # <<>> => /\ Head(setup) = task.setup[Stage + 1] /\ Tail(setup) \in Seq(Write)
                              /\ Len(Tail(setup)) = Len(setup) - 1
<1>1. setup \in Seq(Write) /\ Len(setup) \in Nat /\ Len(setup) <= 10
  <2>1. setup \in Seq(Write)
    BY DEF Types
  <2>2. QED BY <2>1 DEF SetupLeft
<1>2. setup # <<>> <=> Len(setup) # 0
  BY <1>1
<1>3. setup # <<>> => Head(setup) = setup[1] /\ 1 \in DOMAIN setup /\ Tail(setup) \in Seq(Write)
                      /\ Len(Tail(setup)) = Len(setup) - 1
  BY <1>1
<1>4. Stage \in 0 .. 10 /\ Len(setup) = 10 - Stage
  <2> DEFINE n == Len(setup)
  <2>1. n \in Nat /\ n <= 10 /\ Stage = 10 - n
    BY <1>1 DEF Stage
  <2> HIDE DEF n
  <2>2. Stage \in 0 .. 10 /\ n = 10 - Stage
    BY <2>1
  <2>3. QED BY <2>2 DEF n
<1>5. setup # <<>> => setup[1] = task.setup[Stage + 1]
  BY <1>3 DEF SetupLeft
<1>6. QED BY <1>1, <1>2, <1>3, <1>4, <1>5

LEMMA WordsAre ==
    ASSUME Types
    PROVE  /\ task.setup \in Seq(Write) /\ Len(task.setup) = 10
           /\ \A n \in 1 .. 10 : /\ task.setup[n] \in Write
                                 /\ task.setup[n].chip = IF n % 2 = 1 THEN "master" ELSE "slave"
                                 /\ task.setup[n].a = IF n <= 2 THEN 0 ELSE 1
           /\ \A n \in {1, 2} : Bit(task.setup[n].d, 4) /\ ~Bit(task.setup[n].d, 3) /\ Bit(task.setup[n].d, 0)
           /\ High(task.setup[3].d) # High(task.setup[4].d)
           /\ task.setup[5].d = 4
           /\ \A n \in {7, 8} : Bit(task.setup[n].d, 1) <=> task.eoi = "automatic"
<1>1. task.setup \in Seq(Write) /\ Len(task.setup) = 10
  BY TaskIs DEF IsTask, SetsUp
<1>2. \A n \in 1 .. 10 : task.setup[n] \in Write
  BY <1>1
<1>3. QED BY <1>1, <1>2, TaskIs DEF SetsUp

-----------------------------------------------------------------------------
(* What the program writes *)

LEMMA BitIs ==
    ASSUME NEW d \in ByteValue
    PROVE  /\ Bit(d, 0) <=> d % 2 = 1
           /\ Bit(d, 1) <=> (d \div 2) % 2 = 1
           /\ Bit(d, 2) <=> (d \div 4) % 2 = 1
           /\ Bit(d, 3) <=> (d \div 8) % 2 = 1
           /\ Bit(d, 4) <=> (d \div 16) % 2 = 1
           /\ Bit(d, 5) <=> (d \div 32) % 2 = 1
           /\ Bit(d, 6) <=> (d \div 64) % 2 = 1
           /\ Bit(d, 7) <=> (d \div 128) % 2 = 1
<1>1. <<1, 2, 4, 8, 16, 32, 64, 128>>[1] = 1 /\ <<1, 2, 4, 8, 16, 32, 64, 128>>[2] = 2
      /\ <<1, 2, 4, 8, 16, 32, 64, 128>>[3] = 4 /\ <<1, 2, 4, 8, 16, 32, 64, 128>>[4] = 8
  OBVIOUS
<1>2. <<1, 2, 4, 8, 16, 32, 64, 128>>[5] = 16 /\ <<1, 2, 4, 8, 16, 32, 64, 128>>[6] = 32
      /\ <<1, 2, 4, 8, 16, 32, 64, 128>>[7] = 64 /\ <<1, 2, 4, 8, 16, 32, 64, 128>>[8] = 128
  OBVIOUS
<1>3. Bit(d, 0) <=> (d \div 1) % 2 = 1
  BY <1>1 DEF Bit
<1>4. d \div 1 = d
  BY DEF ByteValue
<1>5. (Bit(d, 1) <=> (d \div 2) % 2 = 1) /\ (Bit(d, 2) <=> (d \div 4) % 2 = 1) /\ (Bit(d, 3) <=> (d \div 8) % 2 = 1)
  BY <1>1 DEF Bit
<1>6. (Bit(d, 4) <=> (d \div 16) % 2 = 1) /\ (Bit(d, 5) <=> (d \div 32) % 2 = 1)
  BY <1>2 DEF Bit
<1>7. (Bit(d, 6) <=> (d \div 64) % 2 = 1) /\ (Bit(d, 7) <=> (d \div 128) % 2 = 1)
  BY <1>2 DEF Bit
<1>8. QED BY <1>3, <1>4, <1>5, <1>6, <1>7

LEMMA StrobeIs ==
    ASSUME NEW w \in Write \cup {Quiet}, NEW chip \in Which
    PROVE  /\ Strobe(w, chip) \in Strobes
           /\ w.chip = chip => w \in Write /\ Strobe(w, chip) = [on |-> TRUE, a |-> w.a, d |-> w.d]
           /\ w = Quiet \/ w.chip # chip => Strobe(w, chip) = NoWrite
<1>1. NoWrite \in Strobes
  BY DEF NoWrite, Strobes, ByteValue
<1>2. w \in Write => [on |-> TRUE, a |-> w.a, d |-> w.d] \in Strobes
  BY DEF Write, Strobes
<1>3. "none" # chip
  BY DEF Which
<1>4. QED BY <1>1, <1>2, <1>3 DEF Strobe, Quiet

\* The bytes that end an interrupt, and what the controller makes of them.
LEMMA EoiBytes ==
    ASSUME NEW w \in Strobes, NEW v \in Level, w.on, w.a = 0
    PROVE  /\ w.d = 32 => /\ ~Icw1(w) /\ AnyEoi(w) /\ ~SpecificEoi(w) /\ ~SetsPriority(w) /\ w.d # 160
                          /\ w.d % 128 # 0
           /\ w.d = 96 + v => /\ ~Icw1(w) /\ ~SetsPriority(w) /\ w.d # 160 /\ SpecificEoi(w)
                              /\ w.d % 8 = v /\ w.d % 128 # 0
           /\ w.d = 224 + v => /\ ~Icw1(w) /\ SpecificEoi(w) /\ SetsPriority(w)
                               /\ w.d % 8 = v /\ w.d % 128 # 0
<1>1. w.d \in ByteValue /\ v \in 0 .. 7
  BY DEF Strobes, Level
<1> DEFINE d == w.d
<1>2. d \in 0 .. 255
  BY <1>1 DEF ByteValue
<1>3. (Bit(d, 3) <=> (d \div 8) % 2 = 1) /\ (Bit(d, 4) <=> (d \div 16) % 2 = 1)
  BY <1>1, BitIs
<1>4. High(d) = d \div 8
  BY DEF High
<1> HIDE DEF d
<1>5. CASE d = 32
  <2>1. (d \div 8) % 2 = 0 /\ (d \div 16) % 2 = 0 /\ d \div 8 = 4 /\ d % 128 = 32
    BY <1>5
  <2>2. ~Bit(d, 3) /\ ~Bit(d, 4) /\ High(d) = 4
    BY <1>3, <1>4, <2>1
  <2>3. d # 96 + v /\ d # 224 + v
    BY <1>1, <1>5
  <2>4. QED BY <1>5, <2>1, <2>2, <2>3 DEF d, Icw1, Ocw2, AnyEoi, SpecificEoi, SetsPriority
<1>6. CASE d = 96 + v
  <2>1. (d \div 8) % 2 = 0 /\ (d \div 16) % 2 = 0 /\ d \div 8 = 12 /\ d % 128 = 96 + v /\ d % 8 = v
    BY <1>1, <1>6
  <2>2. ~Bit(d, 3) /\ ~Bit(d, 4) /\ High(d) = 12 /\ d % 128 # 0 /\ d # 32 /\ d # 160 /\ d # 224 + v
    BY <1>1, <1>3, <1>4, <1>6, <2>1
  <2>3. QED BY <2>1, <2>2 DEF d, Icw1, Ocw2, SpecificEoi, SetsPriority
<1>7. CASE d = 224 + v
  <2>1. (d \div 8) % 2 = 0 /\ (d \div 16) % 2 = 0 /\ d \div 8 = 28 /\ d % 128 = 96 + v /\ d % 8 = v
    BY <1>1, <1>7
  <2>2. ~Bit(d, 3) /\ ~Bit(d, 4) /\ High(d) = 28 /\ d % 128 # 0 /\ d # 32 /\ d # 96 + v
    BY <1>1, <1>3, <1>4, <1>7, <2>1
  <2>3. QED BY <2>1, <2>2 DEF d, Icw1, Ocw2, SpecificEoi, SetsPriority
<1>8. QED BY <1>5, <1>6, <1>7 DEF d

LEMMA EoiIs ==
    ASSUME Types, NEW chip \in Which, NEW v \in Level
    PROVE  /\ Eoi(chip, v) \in Write /\ Eoi(chip, v).chip = chip /\ Eoi(chip, v).a = 0
           /\ task.eoi = "specific" => Eoi(chip, v).d = 96 + v
           /\ task.eoi = "rotating" => Eoi(chip, v).d = 224 + v
           /\ task.eoi \notin {"specific", "rotating"} => Eoi(chip, v).d = 32
<1> DEFINE d == CASE task.eoi = "specific" -> 96 + v
                  [] task.eoi = "rotating" -> 224 + v
                  [] OTHER                 -> 32
<1>1. v \in 0 .. 7
  BY DEF Level
<1>2. /\ task.eoi = "specific" => d = 96 + v
      /\ task.eoi = "rotating" => d = 224 + v
      /\ task.eoi \notin {"specific", "rotating"} => d = 32
  OBVIOUS
<1>3. Eoi(chip, v) = [chip |-> chip, a |-> 0, d |-> d]
  BY Zenon DEF Eoi
<1> HIDE DEF d
<1>4. d \in ByteValue
  BY <1>1, <1>2 DEF ByteValue
<1>5. QED BY <1>2, <1>3, <1>4 DEF Write

-----------------------------------------------------------------------------
(* What a clock does to a controller once both were started *)

\* Nothing is ended, ...
Moved(c, c2, ls, done) ==
    /\ Requests(c, c2, ls, done)
    /\ c2.isr = c.isr \cup (IF c.auto_eoi THEN {} ELSE Taken(c, done))
    /\ c2.lowest = c.lowest
\* ... or an EOI ends a level.
Ended(c, c2, ls, v) ==
    /\ Requests(c, c2, ls, FALSE)
    /\ c2.isr = c.isr \ {v}
    /\ c2.lowest = IF task.eoi = "rotating" THEN v ELSE c.lowest
    /\ c2.imr = c.imr

LEMMA EoiClock ==
    ASSUME Types, task.eoi # "automatic", NEW chip \in Which, NEW c \in Chip, NEW v \in c.isr,
           \A m \in c.isr : m = v \/ Rank(c, v) < Rank(c, m), ~c.rotate,
           NEW ls \in SUBSET Level
    PROVE  LET c2 == Clock(c, Strobe(Eoi(chip, v), chip), ls, FALSE)
           IN  /\ c2 \in Chip /\ Ended(c, c2, ls, v) /\ Keeps(c, c2)
<1> DEFINE w == Strobe(Eoi(chip, v), chip)
<1>1. v \in Level
  BY DEF Chip
<1>2. w \in Strobes /\ w.on /\ w.a = 0 /\ w.d = Eoi(chip, v).d
  BY <1>1, EoiIs, StrobeIs
<1>3. task.eoi \in {"unspecific", "specific", "rotating"}
  BY TaskIs DEF IsTask
<1>4. \/ task.eoi = "unspecific" /\ w.d = 32
      \/ task.eoi = "specific" /\ w.d = 96 + v
      \/ task.eoi = "rotating" /\ w.d = 224 + v
  BY <1>1, <1>2, <1>3, EoiIs
<1> HIDE DEF w
<1>5. ~Icw1(w) /\ w.d % 128 # 0
  BY <1>1, <1>2, <1>4, EoiBytes
<1>6. IsrNext(c, w, Taken(c, FALSE)) = c.isr \ {v}
  <2>1. CASE w.d = 32
    <3>1. AnyEoi(w) /\ ~SpecificEoi(w)
      BY <1>1, <1>2, <2>1, EoiBytes
    <3>2. Ranked(c, First(c, c.isr)) = v
      BY FirstInService
    <3>3. QED BY <3>1, <3>2 DEF IsrNext
  <2>2. CASE w.d = 96 + v \/ w.d = 224 + v
    <3>1. SpecificEoi(w) /\ w.d % 8 = v
      BY <1>1, <1>2, <2>2, EoiBytes
    <3>2. QED BY <3>1 DEF IsrNext
  <2>3. QED BY <1>4, <2>1, <2>2
<1>7. LowestNext(c, w, Taken(c, FALSE)) = IF task.eoi = "rotating" THEN v ELSE c.lowest
  <2>1. Taken(c, FALSE) = {}
    BY DEF Taken
  <2>2. CASE task.eoi = "rotating"
    <3>1. SetsPriority(w) /\ w.d % 8 = v
      BY <1>1, <1>2, <1>4, <2>2, EoiBytes
    <3>2. QED BY <2>2, <3>1 DEF LowestNext
  <2>3. CASE task.eoi # "rotating"
    <3>1. ~SetsPriority(w) /\ w.d # 160
      BY <1>1, <1>2, <1>4, <2>3, EoiBytes
    <3>2. QED BY <2>1, <2>3, <3>1 DEF LowestNext
  <2>4. QED BY <2>2, <2>3
<1> DEFINE c2 == Clock(c, w, ls, FALSE)
           p == Programmed(c, w)
<1>8. /\ c2 \in Chip /\ Requests(c, c2, ls, FALSE)
      /\ c2.isr = c.isr \ {v} /\ c2.lowest = IF task.eoi = "rotating" THEN v ELSE c.lowest
      /\ Keeps(p, c2)
  <2>1. /\ c2 \in Chip /\ Requests(c, c2, ls, FALSE)
        /\ c2.isr = IsrNext(c, w, Taken(c, FALSE)) /\ c2.lowest = LowestNext(c, w, Taken(c, FALSE))
        /\ Keeps(p, c2)
    BY <1>2, <1>5, ClockIs, Zenon
  <2>2. QED BY <1>6, <1>7, <2>1
<1>9. ~Ocw1(c, w) /\ \A n \in {2, 3, 4} : ~Icw(c, w, n)
  BY <1>2 DEF Ocw1, Icw
<1>10. Keeps(c, c2)
  <2>1. c.in_init \in BOOLEAN
    BY DEF Chip
  <2>2. p.level_mode = c.level_mode /\ p.need4 = c.need4 /\ p.imr = c.imr /\ p.offset = c.offset
        /\ p.slaves = c.slaves /\ p.auto_eoi = c.auto_eoi /\ p.rotate = c.rotate /\ p.in_init = c.in_init
        /\ p.expect = c.expect
    BY <1>2, <1>5, <1>9, <2>1, ProgrammedIs
  <2> HIDE DEF c2, p
  <2>3. QED BY <1>8, <2>2 DEF Keeps
<1>11. c2.imr = c.imr
  BY <1>10 DEF Keeps
<1>12. Ended(c, c2, ls, v)
  BY <1>8, <1>11 DEF Ended
<1>13. QED BY <1>8, <1>10, <1>12 DEF w

-----------------------------------------------------------------------------
(* What a step does to the lines *)

LinesKept ==
    /\ lines' \subseteq Lines /\ edges' \in [Lines -> Nat]
    /\ \A l \in Lines : /\ l \in lines' /\ l \notin lines => ~Restarting /\ edges'[l] = edges[l] + 1
                        /\ l \in lines /\ l \notin lines' => MayFall(l)
                        /\ edges'[l] >= edges[l]
LEMMA LinesStep ==
    ASSUME Types, LinesMove
    PROVE  LinesKept
<1>1. PICK up \in SUBSET {l \in Lines : MayRise(l)}, down \in SUBSET {l \in lines : MayFall(l)} :
          /\ lines' = (lines \cup up) \ down
          /\ edges' = [l \in DOMAIN edges |-> edges[l] + (IF l \in up THEN 1 ELSE 0)]
  BY DEF LinesMove
<1>2. lines \subseteq Lines /\ edges \in [Lines -> Nat] /\ DOMAIN edges = Lines
  BY DEF Types
<1>3. lines' \subseteq Lines /\ edges' \in [Lines -> Nat]
  BY <1>1, <1>2
<1>4. ASSUME NEW l \in Lines
      PROVE  /\ l \in lines' /\ l \notin lines => ~Restarting /\ edges'[l] = edges[l] + 1
             /\ l \in lines /\ l \notin lines' => MayFall(l)
             /\ edges'[l] >= edges[l]
  <2>1. edges[l] \in Nat /\ edges'[l] = edges[l] + (IF l \in up THEN 1 ELSE 0)
    BY <1>1, <1>2
  <2>2. l \in lines' /\ l \notin lines => l \in up
    BY <1>1
  <2>3. l \in up => ~Restarting
    BY DEF MayRise
  <2>4. l \in lines /\ l \notin lines' => MayFall(l)
    BY <1>1
  <2>5. QED BY <2>1, <2>2, <2>3, <2>4
<1>5. QED BY <1>3, <1>4 DEF LinesKept

LEMMA LinesOfStep ==
    ASSUME Types, Next
    PROVE  LinesKept /\ task' = task /\ Lines' = Lines
<1>1. LinesMove /\ task' = task
  BY DEF Next, Idle, SetUp, Mask, Accept, Done, EndInterrupt, EnableInHandler, Return, Out
<1>2. Lines' = Lines
  BY <1>1 DEF Lines
<1>3. QED BY <1>1, <1>2, LinesStep

-----------------------------------------------------------------------------
(* What a step does to the controllers *)

LEMMA ClocksAre ==
    ASSUME NEW w, NEW done \in BOOLEAN, PicClock(w, done), done <=> cpu = "done", NEW chip \in Which
    PROVE  pic'[chip] = Clock(pic[chip], Strobe(w, chip), Input(chip), Acked(chip))
<1>1. CASE cpu = "done"
  <2>1. done = TRUE
    BY <1>1
  <2>2. Acked("master") = TRUE /\ Acked("slave") = SlaveSelect /\ SlaveDone(done) = SlaveSelect
    BY <1>1, <2>1, Zenon DEF Acked, SlaveDone, SlaveSelect
  <2>3. pic' = [master |-> Clock(pic["master"], Strobe(w, "master"), MasterLines, TRUE),
                slave |-> Clock(pic["slave"], Strobe(w, "slave"), SlaveLines, SlaveSelect)]
    BY <2>1, <2>2, Zenon DEF PicClock
  <2>4. /\ pic'["master"] = Clock(pic["master"], Strobe(w, "master"), MasterLines, TRUE)
        /\ pic'["slave"] = Clock(pic["slave"], Strobe(w, "slave"), SlaveLines, SlaveSelect)
    BY <2>3
  <2>5. Input("master") = MasterLines /\ Input("slave") = SlaveLines
    BY DEF Input
  <2>6. CASE chip = "master"
    BY <2>2, <2>4, <2>5, <2>6, Zenon
  <2>7. CASE chip = "slave"
    BY <2>2, <2>4, <2>5, <2>7, Zenon
  <2>8. QED BY <2>6, <2>7 DEF Which
<1>2. CASE cpu # "done"
  <2>1. done = FALSE
    BY <1>2
  <2>2. Acked("master") = FALSE /\ Acked("slave") = FALSE /\ SlaveDone(done) = FALSE
    BY <1>2, <2>1, Zenon DEF Acked, SlaveDone
  <2>3. pic' = [master |-> Clock(pic["master"], Strobe(w, "master"), MasterLines, FALSE),
                slave |-> Clock(pic["slave"], Strobe(w, "slave"), SlaveLines, FALSE)]
    BY <2>1, <2>2, Zenon DEF PicClock
  <2>4. /\ pic'["master"] = Clock(pic["master"], Strobe(w, "master"), MasterLines, FALSE)
        /\ pic'["slave"] = Clock(pic["slave"], Strobe(w, "slave"), SlaveLines, FALSE)
    BY <2>3
  <2>5. Input("master") = MasterLines /\ Input("slave") = SlaveLines
    BY DEF Input
  <2>6. CASE chip = "master"
    BY <2>2, <2>4, <2>5, <2>6, Zenon
  <2>7. CASE chip = "slave"
    BY <2>2, <2>4, <2>5, <2>7, Zenon
  <2>8. QED BY <2>6, <2>7 DEF Which
<1>3. QED BY <1>1, <1>2

\* Every step is a clock with one write, or none.
LEMMA WriteOfStep ==
    ASSUME Types, Next
    PROVE  \E w \in Write \cup {Quiet} :
              /\ \A chip \in Which : pic'[chip] = Clock(pic[chip], Strobe(w, chip), Input(chip), Acked(chip))
              /\ DOMAIN pic' = Which /\ pic' = [chip \in Which |-> pic'[chip]]
              /\ \/ w = Quiet /\ (Idle \/ Accept \/ Done \/ EnableInHandler \/ Return)
                 \/ SetUp /\ setup # <<>> /\ w = Head(setup)
                 \/ Mask /\ w \in task.masks
                 \/ EndInterrupt /\ w = Head(Head(handlers).ends)
<1> DEFINE Kind(w) == \/ w = Quiet /\ (Idle \/ Accept \/ Done \/ EnableInHandler \/ Return)
                      \/ SetUp /\ setup # <<>> /\ w = Head(setup)
                      \/ Mask /\ w \in task.masks
                      \/ EndInterrupt /\ w = Head(Head(handlers).ends)
<1>1. \E w \in Write \cup {Quiet} : \E done \in BOOLEAN : PicClock(w, done) /\ (done <=> cpu = "done") /\ Kind(w)
  <2>1. CASE Idle
    <3>1. PicClock(Quiet, FALSE) /\ cpu # "done"
      BY <2>1 DEF Idle
    <3>2. QED BY <2>1, <3>1
  <2>2. CASE Accept
    <3>1. PicClock(Quiet, FALSE) /\ cpu # "done"
      BY <2>2 DEF Accept
    <3>2. QED BY <2>2, <3>1
  <2>3. CASE Done
    <3>1. PicClock(Quiet, TRUE) /\ cpu = "done"
      BY <2>3 DEF Done
    <3>2. QED BY <2>3, <3>1
  <2>4. CASE EnableInHandler
    <3>1. PicClock(Quiet, FALSE) /\ cpu # "done"
      BY <2>4 DEF EnableInHandler
    <3>2. QED BY <2>4, <3>1
  <2>5. CASE Return
    <3>1. PicClock(Quiet, FALSE) /\ cpu # "done"
      BY <2>5 DEF Return
    <3>2. QED BY <2>5, <3>1
  <2>6. CASE SetUp
    <3>1. setup # <<>> /\ PicClock(Head(setup), FALSE) /\ cpu # "done"
      BY <2>6 DEF SetUp, Out
    <3>2. setup \in Seq(Write)
      BY DEF Types
    <3>3. Head(setup) \in Write
      BY <3>1, <3>2
    <3>4. QED BY <2>6, <3>1, <3>3
  <2>7. CASE Mask
    <3>1. PICK w \in task.masks : PicClock(w, FALSE) /\ cpu # "done"
      BY <2>7 DEF Mask, Out
    <3>2. w \in Write
      BY TaskIs DEF IsTask
    <3>3. QED BY <2>7, <3>1, <3>2
  <2>8. CASE EndInterrupt
    <3> DEFINE e == Head(handlers).ends
    <3>1. handlers # <<>> /\ e # <<>> /\ PicClock(Head(e), FALSE) /\ cpu # "done"
      BY <2>8 DEF EndInterrupt, Out
    <3>2. handlers \in Seq(Handler)
      BY DEF Types
    <3>3. Head(handlers) \in Handler
      BY <3>1, <3>2
    <3>4. e \in Seq(Write)
      BY <3>3 DEF Handler
    <3>5. Head(e) \in Write
      BY <3>1, <3>4
    <3>6. QED BY <2>8, <3>1, <3>5
  <2>9. QED BY <2>1, <2>2, <2>3, <2>4, <2>5, <2>6, <2>7, <2>8 DEF Next
<1> HIDE DEF Kind
<1>2. PICK w \in Write \cup {Quiet}, done \in BOOLEAN : PicClock(w, done) /\ (done <=> cpu = "done") /\ Kind(w)
  BY <1>1
<1>3. \A chip \in Which : pic'[chip] = Clock(pic[chip], Strobe(w, chip), Input(chip), Acked(chip))
  BY <1>2, ClocksAre
<1>4. DOMAIN pic' = Which /\ pic' = [chip \in Which |-> pic'[chip]]
  BY <1>2 DEF PicClock, Which
<1>5. QED BY <1>2, <1>3, <1>4 DEF Kind

-----------------------------------------------------------------------------
(* What handlers have to end *)

EndsAre(h) ==
    \/ h.ends = <<>>
    \/ h.chip = "slave" /\ h.ends = <<Eoi("master", 2)>>
    \/ h.chip = "slave" /\ h.real /\ h.ends = <<Eoi("slave", h.level), Eoi("master", 2)>>
    \/ h.chip = "master" /\ h.real /\ h.ends = <<Eoi("master", h.level)>>

LEMMA OwedIs ==
    ASSUME Types, NEW h \in Handler, h.ends \in Owed(h)
    PROVE  EndsAre(h) /\ (task.eoi = "automatic" => h.ends = <<>>)
<1>1. h.chip = "slave" \/ h.chip = "master"
  BY DEF Handler, Which
<1>2. CASE task.eoi = "automatic"
  BY <1>2 DEF Owed, EndsAre
<1>3. CASE task.eoi # "automatic" /\ h.chip = "slave"
  <2>1. Owed(h) = {<<>>, <<Eoi("master", 2)>>}
                  \cup (IF h.real THEN {<<Eoi("slave", h.level), Eoi("master", 2)>>} ELSE {})
    BY <1>3 DEF Owed
  <2>2. QED BY <1>3, <2>1, Zenon DEF EndsAre
<1>4. CASE task.eoi # "automatic" /\ h.chip = "master"
  <2>1. Owed(h) = {<<>>} \cup (IF h.real THEN {<<Eoi("master", h.level)>>} ELSE {})
    BY <1>4 DEF Owed
  <2>2. QED BY <1>4, <2>1, Zenon DEF EndsAre
<1>5. QED BY <1>1, <1>2, <1>3, <1>4

\* What remains of it is owed still.
LEMMA OwedStill ==
    ASSUME Types, task.eoi # "automatic", NEW h \in Handler, EndsAre(h)
    PROVE  h.ends \in Owed(h)
<1>1. CASE h.chip = "slave"
  <2>1. Owed(h) = {<<>>, <<Eoi("master", 2)>>}
                  \cup (IF h.real THEN {<<Eoi("slave", h.level), Eoi("master", 2)>>} ELSE {})
    BY <1>1 DEF Owed
  <2>2. QED BY <1>1, <2>1 DEF EndsAre
<1>2. CASE h.chip # "slave"
  <2>1. Owed(h) = {<<>>} \cup (IF h.real THEN {<<Eoi("master", h.level)>>} ELSE {})
    BY <1>2 DEF Owed
  <2>2. QED BY <1>2, <2>1 DEF EndsAre
<1>3. QED BY <1>1, <1>2

LEMMA OpensOf ==
    ASSUME Types, NEW h \in Handler, EndsAre(h)
    PROVE  /\ h.ends = <<>> => \A chip \in Which : ~Opened(h, chip)
           /\ Opened(h, "slave") => h.chip = "slave" /\ h.real /\ Opened(h, "master")
           /\ h.ends # <<>> => /\ Head(h.ends).chip \in Which /\ Opened(h, Head(h.ends).chip)
                               /\ Head(h.ends) = Eoi(Head(h.ends).chip, Serves(h, Head(h.ends).chip))
<1>1. h.level \in Level /\ 2 \in Level /\ "master" \in Which /\ "slave" \in Which
  BY DEF Handler, Level, Which
<1>2. /\ Eoi("master", 2).chip = "master" /\ Eoi("slave", h.level).chip = "slave"
      /\ Eoi("master", h.level).chip = "master"
  BY <1>1, EoiIs
<1>3. CASE h.ends = <<>>
  <2>1. DOMAIN h.ends = {}
    BY <1>3
  <2>2. QED BY <1>3, <2>1 DEF Opened
<1>4. CASE h.chip = "slave" /\ h.ends = <<Eoi("master", 2)>>
  <2>1. DOMAIN h.ends = {1} /\ h.ends[1] = Eoi("master", 2) /\ Head(h.ends) = Eoi("master", 2) /\ h.ends # <<>>
    BY <1>4
  <2>2. QED BY <1>1, <1>2, <1>4, <2>1 DEF Opened, Serves
<1>5. CASE h.chip = "slave" /\ h.real /\ h.ends = <<Eoi("slave", h.level), Eoi("master", 2)>>
  <2>1. DOMAIN h.ends = {1, 2} /\ h.ends[1] = Eoi("slave", h.level) /\ h.ends[2] = Eoi("master", 2)
        /\ Head(h.ends) = Eoi("slave", h.level) /\ h.ends # <<>>
    BY <1>5
  <2>2. QED BY <1>1, <1>2, <1>5, <2>1 DEF Opened, Serves
<1>6. CASE h.chip = "master" /\ h.real /\ h.ends = <<Eoi("master", h.level)>>
  <2>1. DOMAIN h.ends = {1} /\ h.ends[1] = Eoi("master", h.level) /\ Head(h.ends) = Eoi("master", h.level)
        /\ h.ends # <<>>
    BY <1>6
  <2>2. QED BY <1>1, <1>2, <1>6, <2>1 DEF Opened, Serves
<1>7. QED BY <1>3, <1>4, <1>5, <1>6 DEF EndsAre

\* After its first end a handler has that interrupt open no more.
LEMMA TailOpens ==
    ASSUME Types, NEW h \in Handler, EndsAre(h), h.ends # <<>>, NEW h2 \in Handler,
           h2.chip = h.chip, h2.level = h.level, h2.real = h.real, h2.ends = Tail(h.ends)
    PROVE  /\ EndsAre(h2)
           /\ \A chip \in Which : Opened(h2, chip) <=> Opened(h, chip) /\ chip # Head(h.ends).chip
<1>1. h.level \in Level /\ 2 \in Level /\ "master" \in Which /\ "slave" \in Which
  BY DEF Handler, Level, Which
<1>2. /\ Eoi("master", 2).chip = "master" /\ Eoi("slave", h.level).chip = "slave"
      /\ Eoi("master", h.level).chip = "master"
  BY <1>1, EoiIs
<1>3. CASE \/ h.chip = "slave" /\ h.ends = <<Eoi("master", 2)>>
           \/ h.chip = "master" /\ h.real /\ h.ends = <<Eoi("master", h.level)>>
  <2>1. h2.ends = <<>> /\ DOMAIN h2.ends = {}
    <3>1. PICK x : h.ends = <<x>>
      BY <1>3
    <3>2. Tail(<<x>>) = <<>>
      OBVIOUS
    <3>3. h2.ends = <<>>
      BY <3>1, <3>2
    <3>4. DOMAIN <<>> = {}
      OBVIOUS
    <3>5. QED BY <3>3, <3>4, Zenon
  <2>2. DOMAIN h.ends = {1} /\ h.ends[1].chip = "master" /\ Head(h.ends).chip = "master"
    BY <1>2, <1>3
  <2>3. QED BY <2>1, <2>2 DEF Opened, EndsAre
<1>4. CASE h.chip = "slave" /\ h.real /\ h.ends = <<Eoi("slave", h.level), Eoi("master", 2)>>
  <2>1. h2.ends = <<Eoi("master", 2)>> /\ DOMAIN h2.ends = {1} /\ h2.ends[1].chip = "master"
    BY <1>2, <1>4
  <2>2. DOMAIN h.ends = {1, 2} /\ h.ends[1].chip = "slave" /\ h.ends[2].chip = "master"
        /\ Head(h.ends).chip = "slave"
    BY <1>2, <1>4
  <2>3. QED BY <1>4, <2>1, <2>2 DEF Opened, EndsAre, Which
<1>5. QED BY <1>3, <1>4 DEF EndsAre

\* The handlers.
LEMMA HandlersAre ==
    ASSUME Types, HandlersNest
    PROVE  /\ handlers \in Seq(Handler)
           /\ \A n \in DOMAIN handlers : handlers[n] \in Handler /\ EndsAre(handlers[n])
           /\ task.eoi = "automatic" => \A n \in DOMAIN handlers : handlers[n].ends = <<>>
           /\ handlers # <<>> => /\ Head(handlers) = handlers[1] /\ 1 \in DOMAIN handlers
                                 /\ Head(handlers) \in Handler /\ EndsAre(Head(handlers))
<1>1. handlers \in Seq(Handler)
  BY DEF Types
<1>2. \A n \in DOMAIN handlers : handlers[n] \in Handler
  BY <1>1
<1>3. \A n \in DOMAIN handlers : EndsAre(handlers[n]) /\ (task.eoi = "automatic" => handlers[n].ends = <<>>)
  BY <1>2, OwedIs DEF HandlersNest
<1>4. handlers # <<>> => Head(handlers) = handlers[1] /\ 1 \in DOMAIN handlers
  BY <1>1
<1>5. QED BY <1>1, <1>2, <1>3, <1>4

\* What is in service is what handlers have open.
LEMMA ServiceIs ==
    ASSUME ServiceExact, NEW chip \in Which
    PROVE  \A v : v \in pic[chip].isr <=> \E n \in DOMAIN handlers : Opened(handlers[n], chip) /\ v = Serves(handlers[n], chip)
  BY DEF ServiceExact, Unended, Opened

LEMMA ServicesQuiet ==
    ASSUME Types, HandlersNest, ServiceExact
    PROVE  /\ handlers = <<>> \/ task.eoi = "automatic" => pic["master"].isr = {} /\ pic["slave"].isr = {}
           /\ 2 \notin pic["master"].isr => pic["slave"].isr = {}
<1>1. "master" \in Which /\ "slave" \in Which
  BY DEF Which
<1>2. handlers = <<>> => DOMAIN handlers = {}
  OBVIOUS
<1>3. task.eoi = "automatic" => \A n \in DOMAIN handlers : ~Opened(handlers[n], "master") /\ ~Opened(handlers[n], "slave")
  BY <1>1, HandlersAre, OpensOf
<1>4. \A n \in DOMAIN handlers : Opened(handlers[n], "slave")
          => Opened(handlers[n], "master") /\ Serves(handlers[n], "master") = 2
  BY HandlersAre, OpensOf DEF Serves
<1>5. QED BY <1>1, <1>2, <1>3, <1>4, ServiceIs

-----------------------------------------------------------------------------
(* The kinds of step *)

\* What of the program a controller keeps but for its mask.
Programs(c, c2) ==
    /\ c2.offset = c.offset /\ c2.slaves = c.slaves /\ c2.level_mode = c.level_mode
    /\ c2.auto_eoi = c.auto_eoi /\ c2.rotate = c.rotate /\ c2.in_init = c.in_init
    /\ c2.need4 = c.need4 /\ c2.expect = c.expect

\* The interrupt a handler ends next, and what it is to its controller.
Ending(v, chip) ==
    /\ EndInterrupt /\ handlers # <<>> /\ Head(handlers).ends # <<>>
    /\ chip = Head(Head(handlers).ends).chip /\ v = Serves(Head(handlers), chip)
    /\ Head(Head(handlers).ends) = Eoi(chip, v)

LEMMA EndingIs ==
    ASSUME Inv, EndInterrupt, NEW chip \in Which, chip = Head(Head(handlers).ends).chip
    PROVE  /\ Ending(Serves(Head(handlers), chip), chip) /\ task.eoi # "automatic"
           /\ Serves(Head(handlers), chip) \in pic[chip].isr
           /\ \A m \in pic[chip].isr : \/ m = Serves(Head(handlers), chip)
                                       \/ Rank(pic[chip], Serves(Head(handlers), chip)) < Rank(pic[chip], m)
           /\ task.eoi = "rotating" => pic[chip].isr = {Serves(Head(handlers), chip)}
<1> DEFINE h == Head(handlers)
           v == Serves(h, chip)
           c == pic[chip]
<1>1. handlers # <<>> /\ h.ends # <<>>
  BY DEF EndInterrupt
<1>2. handlers \in Seq(Handler) /\ h = handlers[1] /\ 1 \in DOMAIN handlers /\ h \in Handler /\ EndsAre(h)
      /\ task.eoi # "automatic"
  BY <1>1, HandlersAre DEF Inv
<1>3. Opened(h, chip) /\ Head(h.ends) = Eoi(chip, v)
  BY <1>1, <1>2, OpensOf DEF Inv
<1>4. v \in c.isr
  BY <1>2, <1>3, ServiceIs DEF Inv
<1>5. c \in Chip /\ c.isr \in SUBSET Level
  BY DEF Inv, Types, Chip
<1>6. ASSUME NEW m \in c.isr, m # v
      PROVE  v < m /\ task.eoi # "rotating"
  <2>1. PICK n \in DOMAIN handlers : Opened(handlers[n], chip) /\ m = Serves(handlers[n], chip)
    BY ServiceIs DEF Inv
  <2>2. n \in Nat /\ 1 < n /\ n <= Len(handlers) /\ Len(handlers) \in Nat
    BY <1>2, <1>6, <2>1
  <2>3. v < m
    BY <1>2, <1>3, <2>1, <2>2 DEF Inv, HandlersNest
  <2>4. task.nested
    BY <2>2 DEF Inv, Phases
  <2>5. QED BY <2>3, <2>4, TaskIs DEF Orderly, Inv
<1>7. ASSUME NEW m \in c.isr, m # v
      PROVE  Rank(c, v) < Rank(c, m)
  <2>1. v < m /\ c.lowest = 7
    BY <1>6, <1>7 DEF Inv, ProgramKept, ProgrammedTo
  <2>2. v \in Level /\ m \in Level
    BY <1>4, <1>5
  <2>3. Rank(c, v) = v /\ Rank(c, m) = m
    BY <1>5, <2>1, <2>2, RankIs DEF Level
  <2>4. QED BY <2>1, <2>3
<1>8. task.eoi = "rotating" => c.isr = {v}
  BY <1>4, <1>6
<1>9. QED BY <1>1, <1>2, <1>3, <1>4, <1>7, <1>8 DEF Ending

LEMMA StepKinds ==
    ASSUME Inv, Next, Stage >= 2, NEW chip \in Which
    PROVE  /\ pic'[chip] \in Chip
           /\ \/ /\ Moved(pic[chip], pic'[chip], Input(chip), Acked(chip))
                 /\ setup # <<>> \/ task.masks # {} \/ pic'[chip].imr = pic[chip].imr
                 /\ Programs(pic[chip], pic'[chip]) \/ (SetUp /\ setup # <<>> /\ Head(setup).chip = chip)
                 /\ \A v : ~Ending(v, chip)
              \/ \E v \in pic[chip].isr :
                    /\ Ending(v, chip) /\ ~Acked(chip)
                    /\ Ended(pic[chip], pic'[chip], Input(chip), v) /\ Programs(pic[chip], pic'[chip])
<1> DEFINE c == pic[chip]
           ls == Input(chip)
           done == Acked(chip)
<1>1. c \in Chip /\ ls \in SUBSET Level /\ done \in BOOLEAN /\ ~c.rotate
  BY InputIs DEF Inv, Types, ProgramKept, ProgrammedTo
<1>2. PICK w \in Write \cup {Quiet} :
              /\ pic'[chip] = Clock(c, Strobe(w, chip), ls, done)
              /\ \/ w = Quiet /\ (Idle \/ Accept \/ Done \/ EnableInHandler \/ Return)
                 \/ SetUp /\ setup # <<>> /\ w = Head(setup)
                 \/ Mask /\ w \in task.masks
                 \/ EndInterrupt /\ w = Head(Head(handlers).ends)
  BY WriteOfStep DEF Inv
<1>3. Strobe(w, chip) \in Strobes /\ (w = Quiet \/ w.chip # chip => Strobe(w, chip) = NoWrite)
  BY <1>2, StrobeIs
<1>4. CASE EndInterrupt /\ w = Head(Head(handlers).ends) /\ w.chip = chip
  <2> DEFINE v == Serves(Head(handlers), chip)
  <2>1. /\ Ending(v, chip) /\ task.eoi # "automatic" /\ v \in c.isr
        /\ \A m \in c.isr : m = v \/ Rank(c, v) < Rank(c, m)
    BY <1>4, EndingIs
  <2>2. w = Eoi(chip, v)
    BY <1>4, <2>1 DEF Ending
  <2>3. done = FALSE
    BY <1>4 DEF EndInterrupt, Out, Acked
  <2> HIDE DEF v, c, ls, done
  <2>4. pic'[chip] \in Chip /\ Ended(c, pic'[chip], ls, v) /\ Keeps(c, pic'[chip])
    <3>1. pic'[chip] = Clock(c, Strobe(Eoi(chip, v), chip), ls, FALSE)
      BY <1>2, <2>2, <2>3
    <3>2. QED BY <1>1, <2>1, <3>1, EoiClock DEF Inv
  <2>5. Programs(c, pic'[chip])
    BY <2>4 DEF Keeps, Programs
  <2>6. QED BY <2>1, <2>3, <2>4, <2>5 DEF c, ls, done
<1>5. CASE ~(EndInterrupt /\ w = Head(Head(handlers).ends) /\ w.chip = chip)
  <2> DEFINE s == Strobe(w, chip)
  <2>1. ~s.on \/ s.a = 1
    <3>1. CASE SetUp /\ setup # <<>> /\ w = Head(setup) /\ w.chip = chip
      <4>1. w = task.setup[Stage + 1] /\ Stage \in 2 .. 9
        BY <3>1, Staged DEF Inv
      <4>2. PICK n \in 3 .. 10 : w = task.setup[n]
        <5>1. Stage + 1 \in 3 .. 10
          BY <4>1
        <5>2. QED BY <4>1, <5>1
      <4>3. w \in Write /\ w.a = 1
        <5>1. Types
          BY DEF Inv
        <5>2. n \in 1 .. 10 /\ ~(n <= 2)
          BY <4>2
        <5>3. task.setup[n] \in Write /\ task.setup[n].a = 1
          BY <5>1, <5>2, WordsAre
        <5>4. QED BY <4>2, <5>3
      <4>4. QED BY <3>1, <4>3, StrobeIs
    <3>2. CASE Mask /\ w \in task.masks /\ w.chip = chip
      <4>1. w \in Write /\ w.a = 1
        BY <3>2, TaskIs DEF IsTask, Inv
      <4>2. QED BY <3>2, <4>1, StrobeIs
    <3>3. CASE w = Quiet \/ w.chip # chip
      BY <1>3, <3>3 DEF NoWrite
    <3>4. QED BY <1>2, <1>5, <3>1, <3>2, <3>3
  <2> DEFINE c2 == pic'[chip]
  <2> HIDE DEF c, ls, done, s
  <2>2. /\ c2 \in Chip /\ Requests(c, c2, ls, done) /\ c2.lowest = c.lowest
        /\ c2.isr = c.isr \cup (IF c.auto_eoi THEN {} ELSE Taken(c, done))
        /\ c2.level_mode = c.level_mode /\ c2.rotate = c.rotate /\ c2.need4 = c.need4
        /\ ~s.on \/ ~c.in_init => /\ c2.in_init = c.in_init /\ c2.expect = c.expect /\ c2.auto_eoi = c.auto_eoi
                                  /\ c2.offset = c.offset /\ c2.slaves = c.slaves
        /\ ~s.on => c2.imr = c.imr
    <3>1. c2 = Clock(c, s, ls, done) /\ s \in Strobes
      BY <1>2, <1>3 DEF c, ls, done, s
    <3> HIDE DEF c2
    <3>2. QED BY <1>1, <2>1, <3>1, PlainClock
  <2>3. Moved(c, c2, ls, done)
    BY <2>2 DEF Moved
  <2>4. setup # <<>> \/ task.masks # {} \/ c2.imr = c.imr
    <3>1. CASE w = Quiet \/ w.chip # chip
      BY <1>3, <2>2, <3>1 DEF NoWrite, s
    <3>2. QED BY <1>2, <1>5, <3>1
  <2>5. Programs(c, c2) \/ (SetUp /\ setup # <<>> /\ Head(setup).chip = chip)
    <3>1. CASE ~s.on \/ ~c.in_init
      BY <2>2, <3>1 DEF Programs
    <3>2. CASE s.on /\ c.in_init
      <4>1. w # Quiet /\ w.chip = chip
        BY <1>3, <3>2 DEF NoWrite, s
      <4>2. CASE Mask
        <5>1. Stage = 10
          BY <4>2, Staged DEF Mask, Inv
        <5>2. ~c.in_init
          BY <5>1 DEF Inv, ProgramKept, ProgrammedTo, Words, c
        <5>3. QED BY <3>2, <5>2
      <4>3. QED BY <1>2, <1>5, <4>1, <4>2
    <3>3. QED BY <3>1, <3>2
  <2>6. \A v : ~Ending(v, chip)
    <3>1. SUFFICES ASSUME EndInterrupt, handlers # <<>>, chip = Head(Head(handlers).ends).chip
                   PROVE  FALSE
      BY DEF Ending
    <3>2. ~Idle /\ ~Accept /\ ~Done /\ ~EnableInHandler /\ ~Return
      BY <3>1 DEF EndInterrupt, Out, Idle, Accept, Done, EnableInHandler, Return
    <3>3. ~SetUp /\ ~Mask
      BY <3>1 DEF SetUp, Mask, Inv, Phases
    <3>4. QED BY <1>2, <1>5, <3>1, <3>2, <3>3
  <2>7. QED BY <2>2, <2>3, <2>4, <2>5, <2>6 DEF c, ls, done
<1>6. QED BY <1>4, <1>5

-----------------------------------------------------------------------------
(* What a clock does to requests *)

LEMMA RequestsMean ==
    ASSUME NEW c \in Chip, NEW c2 \in Chip, NEW ls \in SUBSET Level, NEW done \in BOOLEAN, ~c.level_mode,
           Requests(c, c2, ls, done)
    PROVE  /\ c2.last = ls
           /\ done => ~c2.do /\ ~c2.spurious
           /\ (c2.do <=> ~done /\ (c.do \/ Irq(c)))
           /\ c2.spurious => ~done /\ ~Irq(c) /\ (c.do \/ c.spurious)
           /\ Latched(c2) => ~done /\ Irq(c) /\ IrqValue(c) \in c.irr
           /\ c2.do => /\ c2.vector % 8 = IrqValue(c) /\ c2.vector \div 8 = c.offset
                       /\ (c2.cascade <=> IrqValue(c) \in c.slaves)
           /\ \A l \in c2.irr : /\ l \in ls /\ (l \in c.irr \/ l \notin c.last)
                                /\ l \in Taken(c, done) => l \notin c.last
           /\ \A l \in c.irr : l \in ls /\ l \notin Taken(c, done) => l \in c2.irr
<1>1. c2.last = ls /\ c2.do = DoNext(c, done) /\ c2.spurious = SpuriousNext(c, done)
      /\ c2.vector = VectorNext(c) /\ c2.cascade = CascadeNext(c, done)
      /\ c2.irr = IrrNext(c, Taken(c, done), ls)
  BY Zenon DEF Requests
<1>2. c.do \in BOOLEAN /\ c.spurious \in BOOLEAN /\ Irq(c) \in BOOLEAN /\ c2.do \in BOOLEAN /\ c2.spurious \in BOOLEAN
  BY DEF Chip, Irq
<1>3. c2.do <=> ~done /\ (c.do \/ Irq(c))
  BY <1>1, Zenon DEF DoNext
<1>4. c2.spurious => ~done /\ ~Irq(c) /\ (c.do \/ c.spurious)
  BY <1>1, <1>2, Zenon DEF SpuriousNext
<1>5. done => ~c2.do /\ ~c2.spurious
  BY <1>3, <1>4, Zenon
<1>6. Latched(c2) => ~done /\ Irq(c) /\ IrqValue(c) \in c.irr
  <2>1. ASSUME Latched(c2) PROVE ~done /\ Irq(c)
    <3>1. c.do /\ ~done /\ ~Irq(c) => c2.spurious
      BY <1>1, <1>2, Zenon DEF SpuriousNext
    <3>2. QED BY <1>3, <2>1, <3>1, Zenon DEF Latched
  <2>2. Irq(c) => IrqValue(c) \in c.irr
    BY IrqMeans DEF Prepared
  <2>3. QED BY <2>1, <2>2
<1>7. c2.do => /\ c2.vector % 8 = IrqValue(c) /\ c2.vector \div 8 = c.offset
               /\ (c2.cascade <=> IrqValue(c) \in c.slaves)
  <2>1. SUFFICES ASSUME c2.do PROVE /\ c2.vector % 8 = IrqValue(c) /\ c2.vector \div 8 = c.offset
                                    /\ (c2.cascade <=> IrqValue(c) \in c.slaves)
    OBVIOUS
  <2>2. ~done /\ (Irq(c) \/ c.do)
    BY <1>3, <2>1, Zenon
  <2>3. c2.vector = 8 * c.offset + IrqValue(c)
    BY <1>1, <2>2 DEF VectorNext
  <2>4. c.offset \in 0 .. 31 /\ IrqValue(c) \in Level
    BY IrqValueIs DEF Chip
  <2>5. c2.vector % 8 = IrqValue(c) /\ c2.vector \div 8 = c.offset
    BY <2>3, <2>4, VectorIs
  <2>6. c2.cascade <=> IrqValue(c) \in c.slaves
    BY <1>1, <2>2, Zenon DEF CascadeNext
  <2>7. QED BY <2>5, <2>6
<1>8. c2.irr = ((c.irr \cap ls) \ Taken(c, done)) \cup (ls \ c.last)
  BY <1>1 DEF IrrNext
<1>9. QED BY <1>1, <1>3, <1>4, <1>5, <1>6, <1>7, <1>8

\* The same of either kind of step: what goes into service is what is taken.
LEMMA KindsMean ==
    ASSUME Inv, Next, Stage >= 2, NEW chip \in Which
    PROVE  /\ pic[chip] \in Chip /\ pic'[chip] \in Chip /\ ~pic[chip].level_mode
           /\ Input(chip) \in SUBSET Level /\ Acked(chip) \in BOOLEAN
           /\ Requests(pic[chip], pic'[chip], Input(chip), Acked(chip))
           /\ \/ pic'[chip].isr \subseteq pic[chip].isr
              \/ Acked(chip) /\ pic'[chip].isr = pic[chip].isr \cup Taken(pic[chip], TRUE)
           /\ pic[chip].isr = {} => pic'[chip].lowest = pic[chip].lowest
           /\ pic'[chip].isr = {} \/ pic'[chip].lowest = pic[chip].lowest
           /\ setup # <<>> \/ task.masks # {} \/ pic'[chip].imr = pic[chip].imr
<1> DEFINE c == pic[chip]
           c2 == pic'[chip]
           done == Acked(chip)
<1>1. c \in Chip /\ c2 \in Chip /\ ~c.level_mode /\ Input(chip) \in SUBSET Level /\ done \in BOOLEAN
  BY StepKinds, InputIs DEF Inv, Types, ProgramKept, ProgrammedTo
<1> HIDE DEF c, c2, done
<1>0. setup # <<>> \/ task.masks # {} \/ c2.imr = c.imr
  <2>1. CASE \E v \in c.isr : Ended(c, c2, Input(chip), v)
    BY <2>1 DEF Ended
  <2>2. QED BY <2>1, StepKinds, Zenon DEF c, c2
<1>2. CASE Moved(c, c2, Input(chip), done)
  <2>1. /\ Requests(c, c2, Input(chip), done)
        /\ c2.isr = c.isr \cup (IF c.auto_eoi THEN {} ELSE Taken(c, done))
        /\ c2.lowest = c.lowest
    BY <1>2 DEF Moved
  <2>2. ~done => Taken(c, done) = {}
    BY DEF Taken
  <2>3. CASE done
    <3>1. done = TRUE
      BY <1>1, <2>3
    <3>2. c2.isr \subseteq c.isr \/ c2.isr = c.isr \cup Taken(c, TRUE)
      BY <2>1, <3>1
    <3>3. QED BY <1>0, <1>1, <2>1, <2>3, <3>2 DEF c, c2, done
  <2>4. CASE ~done
    <3>1. c2.isr \subseteq c.isr
      BY <2>1, <2>2, <2>4
    <3>2. QED BY <1>0, <1>1, <2>1, <3>1 DEF c, c2, done
  <2>5. QED BY <2>3, <2>4
<1>3. CASE \E v \in c.isr : Ending(v, chip) /\ Ended(c, c2, Input(chip), v) /\ ~done
  <2>1. PICK v \in c.isr : Ending(v, chip) /\ Ended(c, c2, Input(chip), v)
    BY <1>3
  <2>2. done = FALSE
    BY <1>1, <1>3
  <2>3. Requests(c, c2, Input(chip), done) /\ c2.isr \subseteq c.isr /\ c.isr # {}
    BY <2>1, <2>2 DEF Ended
  <2>4. c2.isr = {} \/ c2.lowest = c.lowest
    <3>1. CASE task.eoi = "rotating"
      <4>1. c.isr = {v}
        BY <2>1, <3>1, EndingIs DEF Ending, c
      <4>2. QED BY <2>1, <4>1 DEF Ended
    <3>2. CASE task.eoi # "rotating"
      BY <2>1, <3>2 DEF Ended
    <3>3. QED BY <3>1, <3>2
  <2>5. QED BY <1>0, <1>1, <2>3, <2>4 DEF c, c2, done
<1>4. Moved(c, c2, Input(chip), done) \/ \E v \in c.isr : Ending(v, chip) /\ Ended(c, c2, Input(chip), v) /\ ~done
  BY StepKinds, Zenon DEF c, c2, done
<1>5. QED BY <1>2, <1>3, <1>4

-----------------------------------------------------------------------------
(* The steps keep the invariant: requests and vectors *)

LEMMA StageStep ==
    ASSUME Inv, Next
    PROVE  /\ task' = task
           /\ \/ setup' = setup /\ Stage' = Stage
              \/ SetUp /\ setup # <<>> /\ setup' = Tail(setup) /\ Stage' = Stage + 1
           /\ setup = <<>> => setup' = <<>> /\ Stage = 10
<1>1. task' = task /\ (setup' = setup \/ (SetUp /\ setup # <<>> /\ setup' = Tail(setup)))
  <2> DEFINE P == task' = task /\ setup' = setup
  <2>1. Idle => P
    BY DEF Idle
  <2>2. SetUp => task' = task /\ setup # <<>> /\ setup' = Tail(setup)
    BY DEF SetUp
  <2>3. Mask => P
    BY DEF Mask
  <2>4. Accept => P
    BY DEF Accept
  <2>5. Done => P
    BY DEF Done
  <2>6. EndInterrupt => P
    BY DEF EndInterrupt
  <2>7. EnableInHandler => P
    BY DEF EnableInHandler
  <2>8. Return => P
    BY DEF Return
  <2> HIDE DEF P
  <2>9. P \/ SetUp
    BY <2>1, <2>3, <2>4, <2>5, <2>6, <2>7, <2>8 DEF Next
  <2>10. QED BY <2>2, <2>9 DEF P
<1>2. setup' = setup => Stage' = Stage
  BY DEF Stage
<1>3. ASSUME setup # <<>>, setup' = Tail(setup)
      PROVE  Stage' = Stage + 1
  <2>1. Len(setup') = Len(setup) - 1 /\ Stage \in 0 .. 10 /\ Len(setup) = 10 - Stage
    BY <1>3, Staged DEF Inv
  <2>2. Stage' = 10 - Len(setup')
    BY DEF Stage
  <2> DEFINE n == Len(setup')
             m == Len(setup)
  <2>3. n = m - 1 /\ m = 10 - Stage /\ Stage' = 10 - n
    BY <2>1, <2>2
  <2> HIDE DEF n, m
  <2>4. QED BY <2>1, <2>3
<1>4. setup = <<>> => Stage = 10
  BY Staged DEF Inv
<1>5. setup = <<>> => setup' = <<>>
  BY <1>1
<1>6. QED BY <1>1, <1>2, <1>3, <1>4, <1>5

LEMMA CascadeLine ==
    ASSUME Types
    PROVE  2 \in Input("master") <=> pic["slave"].do
<1>1. 2 \notin lines
  BY LinesAre DEF Types
<1>2. QED BY <1>1 DEF Input, MasterLines

LEMMA CascadesKept ==
    ASSUME Inv, Next, Stage >= 2
    PROVE  Cascades'
<1> DEFINE c == pic["master"]
           c2 == pic'["master"]
           s == pic["slave"]
           s2 == pic'["slave"]
<1>1. "master" \in Which /\ "slave" \in Which
  BY DEF Which
<1>2. /\ c \in Chip /\ c2 \in Chip /\ ~c.level_mode /\ Input("master") \in SUBSET Level
      /\ Acked("master") \in BOOLEAN /\ Requests(c, c2, Input("master"), Acked("master"))
  BY <1>1, KindsMean
<1>3. /\ s \in Chip /\ s2 \in Chip /\ ~s.level_mode /\ Input("slave") \in SUBSET Level
      /\ Acked("slave") \in BOOLEAN /\ Requests(s, s2, Input("slave"), Acked("slave"))
  BY <1>1, KindsMean
<1>4. 2 \in Input("master") <=> s.do
  BY CascadeLine DEF Inv
<1> HIDE DEF c, c2, s, s2
<1>5. c2.last = Input("master")
  BY <1>2, RequestsMean
<1>6. s.do /\ ~Acked("slave") => s2.do
  BY <1>3, RequestsMean
<1>7. ASSUME 2 \in c2.irr
      PROVE  s2.do /\ 2 \in c2.last
  <2>1. /\ 2 \in Input("master") /\ (2 \in c.irr \/ 2 \notin c.last)
        /\ 2 \in Taken(c, Acked("master")) => 2 \notin c.last
    BY <1>2, <1>7, RequestsMean
  <2>2. ~Acked("slave")
    <3>1. SUFFICES ASSUME Acked("slave") PROVE FALSE
      OBVIOUS
    <3>2. cpu = "done" /\ SlaveSelect /\ Acked("master") = TRUE
      BY <1>2, <3>1 DEF Acked
    <3>3. c.vector % 8 = 2 /\ c.do
      BY <3>2 DEF SlaveSelect, Inv, Phases, c
    <3>4. ~c.spurious
      BY <3>2, <3>3 DEF Inv, Answered, Answers, c
    <3>5. 2 \in Taken(c, Acked("master"))
      BY <3>2, <3>3, <3>4 DEF Taken
    <3>6. 2 \in c.last
      BY <3>3, <3>4 DEF Inv, Cascades, Latched, c
    <3>7. QED BY <2>1, <3>5, <3>6
  <2>3. s.do
    BY <1>4, <2>1
  <2>4. s2.do
    BY <1>6, <2>2, <2>3
  <2>5. 2 \in c2.last
    BY <1>5, <2>1
  <2>6. QED BY <2>4, <2>5
<1>8. ASSUME Latched(c2), c2.vector % 8 = 2
      PROVE  s2.do /\ 2 \in c2.last
  <2>1. ~Acked("master") /\ IrqValue(c) \in c.irr
    BY <1>2, <1>8, RequestsMean
  <2>2. IrqValue(c) = 2
    <3>1. c2.do
      BY <1>8 DEF Latched
    <3>2. c2.vector % 8 = IrqValue(c)
      BY <1>2, <3>1, RequestsMean
    <3>3. QED BY <1>8, <3>2
  <2>3. s.do
    BY <2>1, <2>2 DEF Inv, Cascades, c, s
  <2>4. ~Acked("slave")
    BY <2>1 DEF Acked
  <2>5. QED BY <1>4, <1>5, <1>6, <2>3, <2>4
<1>9. QED BY <1>7, <1>8 DEF Cascades, c2, s2

LEMMA VectorsKept ==
    ASSUME Inv, Next, ProgramKept'
    PROVE  Vectors'
<1>1. SUFFICES ASSUME Stage' >= 7, NEW chip \in Which PROVE VectorOf(chip, pic'[chip])
  BY DEF Vectors
<1> DEFINE c == pic[chip]
           c2 == pic'[chip]
<1>2. Stage \in 6 .. 10 /\ Stage' \in 7 .. 10 /\ task' = task
  <2>1. Stage \in 0 .. 10 /\ (Stage' = Stage \/ Stage' = Stage + 1) /\ (Stage = 10 => Stage' = 10)
    BY StageStep, Staged DEF Inv
  <2>2. QED BY <1>1, <2>1, StageStep
<1>3. /\ c \in Chip /\ c2 \in Chip /\ ~c.level_mode /\ Input(chip) \in SUBSET Level
      /\ Acked(chip) \in BOOLEAN /\ Requests(c, c2, Input(chip), Acked(chip))
  <2>1. Stage >= 2
    BY <1>2
  <2>2. QED BY <2>1, KindsMean
<1> HIDE DEF c, c2
<1>4. c2.do => /\ c2.vector % 8 = IrqValue(c) /\ c2.vector \div 8 = c.offset
               /\ (c2.cascade <=> IrqValue(c) \in c.slaves)
  BY <1>3, RequestsMean
<1>5. Words(chip) >= 3 /\ Words(chip)' >= 3
  <2>1. ASSUME NEW n \in 6 .. 10 PROVE (n + 1) \div 2 >= 3 /\ n \div 2 >= 3
    OBVIOUS
  <2>2. (Stage + 1) \div 2 >= 3 /\ Stage \div 2 >= 3
    BY <1>2, <2>1
  <2>3. Stage' \in 6 .. 10
    BY <1>2
  <2>4. (Stage' + 1) \div 2 >= 3 /\ Stage' \div 2 >= 3
    BY <2>1, <2>3
  <2>5. QED BY <2>2, <2>4 DEF Words
<1>6. c.offset = High(Word(chip, 2)) /\ (chip = "master" => c.slaves = {2})
  <2>1. ProgrammedTo(chip, c, Words(chip))
    BY DEF Inv, ProgramKept, c
  <2>2. Words(chip) >= 2
    <3>1. Words(chip) \in Int
      BY <1>2 DEF Words
    <3>2. QED BY <1>5, <3>1
  <2>3. QED BY <1>5, <2>1, <2>2 DEF ProgrammedTo
<1>7. c2.offset = High(Word(chip, 2))
  <2>1. Word(chip, 2)' = Word(chip, 2)
    BY <1>2 DEF Word
  <2>2. c2.offset = High(Word(chip, 2)')
    <3>1. ProgrammedTo(chip, pic[chip], Words(chip))'
      BY DEF ProgramKept
    <3>2. Words(chip)' >= 2
      <4>1. Words(chip)' \in Int
        BY <1>2 DEF Words
      <4>2. QED BY <1>5, <4>1
    <3>3. QED BY <3>1, <3>2 DEF ProgrammedTo, c2
  <2>3. QED BY <2>1, <2>2
<1>8. QED BY <1>4, <1>6, <1>7 DEF VectorOf, c2

-----------------------------------------------------------------------------
(* The steps keep the invariant: what the processor is answered *)

\* Where nothing is withdrawn the input of a request held stays high.
LEMMA LineStays ==
    ASSUME Inv, NEW chip \in Which, NEW v \in pic[chip].irr,
           LineOf(chip, v) \in task.steady \/ (chip = "master" /\ v = 2)
    PROVE  v \in Input(chip)
<1>1. v \in Level /\ Types
  BY DEF Inv, Types, Chip
<1>2. CASE chip = "master" /\ v = 2
  <2>1. pic["slave"].do
    BY <1>2 DEF Inv, Cascades
  <2>2. QED BY <1>1, <1>2, <2>1, CascadeLine
<1>3. CASE LineOf(chip, v) \in task.steady
  <2> DEFINE l == LineOf(chip, v)
  <2>1. l \in Lines
    BY <1>1, <1>3, TaskIs DEF IsTask, Lines
  <2>2. ChipOf(l) = chip /\ LevelOf(l) = v
    BY <1>1 DEF LineOf, ChipOf, LevelOf, Level, Which
  <2>3. l \in lines
    BY <1>3, <2>2 DEF Inv, Steady
  <2>4. QED BY <1>1, <2>1, <2>2, <2>3, LinesAre
<1>4. QED BY <1>2, <1>3

LEMMA UndisturbedStays ==
    ASSUME Inv, Undisturbed(task), NEW chip \in Which, NEW v \in pic[chip].irr
    PROVE  v \in Input(chip)
<1>1. LineOf(chip, v) \in Lines \cup {2} /\ v \in Level
  BY DEF Inv, Steady, Types, Chip
<1>2. LineOf(chip, v) \in task.steady \/ (chip = "master" /\ v = 2)
  BY <1>1 DEF Undisturbed, Lines, LineOf, Level, Which
<1>3. QED BY <1>2, LineStays

LEMMA SettledKept ==
    ASSUME Inv, Next, Stage >= 2
    PROVE  Settled'
<1>1. SUFFICES ASSUME Undisturbed(task), NEW chip \in Which,
                      (pic'[chip].do /\ ~Irq(pic'[chip])) \/ pic'[chip].spurious
               PROVE  Fresh(pic'[chip])
  BY LinesOfStep DEF Settled, Inv
<1> DEFINE c == pic[chip]
           c2 == pic'[chip]
           done == Acked(chip)
<1>2. /\ c \in Chip /\ c2 \in Chip /\ ~c.level_mode
      /\ Input(chip) \in SUBSET Level /\ done \in BOOLEAN
      /\ Requests(c, c2, Input(chip), done)
      /\ \/ c2.isr \subseteq c.isr
         \/ done /\ c2.isr = c.isr \cup Taken(c, TRUE)
      /\ c.isr = {} => c2.lowest = c.lowest
      /\ c2.isr = {} \/ c2.lowest = c.lowest
      /\ setup # <<>> \/ task.masks # {} \/ c2.imr = c.imr
  BY KindsMean
<1>3. (c.do /\ ~Irq(c)) \/ c.spurious => Fresh(c)
  BY <1>1 DEF Inv, Settled
<1>4. setup # <<>> => Fresh(c)
  BY ServicesQuiet DEF Inv, Phases, ProgramKept, ProgrammedTo, Fresh, Which
<1>5. task.masks = {} /\ \A v \in c.irr : v \in Input(chip)
  BY <1>1, UndisturbedStays DEF Undisturbed
<1>6. (c2.do /\ ~Irq(c2)) \/ c2.spurious
  BY <1>1
<1> HIDE DEF c, c2, done
<1>7. Fresh(c) /\ ~done => Fresh(c2)
  BY <1>2 DEF Fresh
<1>8. c2.do => ~done /\ (c.do \/ Irq(c))
  BY <1>2, RequestsMean
<1>9. c2.spurious => ~done /\ ~Irq(c) /\ (c.do \/ c.spurious)
  BY <1>2, RequestsMean
<1>10. CASE c2.spurious
  BY <1>3, <1>7, <1>9, <1>10, Zenon DEF c2
<1>11. CASE c2.do /\ ~Irq(c2) /\ ~Irq(c)
  BY <1>3, <1>7, <1>8, <1>11, Zenon DEF c2
<1>12. CASE c2.do /\ ~Irq(c2) /\ Irq(c)
  <2> DEFINE v == IrqValue(c)
  <2>1. CASE setup # <<>>
    BY <1>4, <1>7, <1>8, <1>12, <2>1, Zenon DEF c2
  <2>2. CASE setup = <<>>
    <3>1. v \in Prepared(c) /\ v \in Level /\ \A m \in c.isr : Rank(c, v) < Rank(c, m)
      BY <1>2, <1>12, IrqMeans
    <3>2. c2.imr = c.imr /\ c2.isr \subseteq c.isr /\ Taken(c, done) = {}
      BY <1>2, <1>5, <1>8, <1>12, <2>2 DEF Taken
    <3>3. v \in c2.irr
      <4>1. v \in c.irr /\ v \in Input(chip) /\ v \notin Taken(c, done)
        BY <1>5, <3>1, <3>2 DEF Prepared
      <4>2. QED BY <1>2, <4>1, RequestsMean
    <3>4. v \in Prepared(c2)
      BY <3>1, <3>2, <3>3 DEF Prepared
    <3>5. \A m \in c2.isr : Rank(c2, v) < Rank(c2, m)
      <4>1. c2.isr # {} => \A m : Rank(c2, m) = Rank(c, m)
        BY <1>2 DEF Rank
      <4>2. QED BY <3>1, <3>2, <4>1
    <3>6. Irq(c2)
      BY <1>2, <3>4, <3>5, IrqIf
    <3>7. QED BY <1>12, <3>6
  <2>3. QED BY <2>1, <2>2
<1>13. QED BY <1>6, <1>10, <1>11, <1>12

\* One controller, where the processor is about to take a vector of it.
LEMMA ChipAnswers ==
    ASSUME NEW c \in Chip, NEW c2 \in Chip, NEW ls \in SUBSET Level, ~c.level_mode,
           Requests(c, c2, ls, FALSE), c2.isr = c.isr, c2.lowest = c.lowest, c2.do,
           ~Irq(c) => Fresh(c)
    PROVE  Answers(c2)
<1>1. c2.vector % 8 = IrqValue(c)
  BY RequestsMean
<1>2. CASE c2.spurious
  <2>1. ~Irq(c)
    BY <1>2, RequestsMean
  <2>2. IrqValue(c) = 7
    BY <2>1, NothingPrepared DEF Fresh
  <2>3. QED BY <1>1, <1>2, <2>1, <2>2 DEF Answers, Fresh
<1>3. CASE ~c2.spurious
  <2>1. Irq(c)
    BY <1>3, RequestsMean DEF Latched
  <2>2. IrqValue(c) \in Prepared(c) /\ \A m \in c.isr : Rank(c, IrqValue(c)) < Rank(c, m)
    BY <2>1, IrqMeans
  <2>3. \A m : Rank(c2, m) = Rank(c, m)
    BY DEF Rank
  <2>4. QED BY <1>1, <1>3, <2>2, <2>3 DEF Answers, Prepared
<1>4. QED BY <1>2, <1>3

LEMMA AnsweredKept ==
    ASSUME Inv, Next, Stage >= 2
    PROVE  Answered'
<1> DEFINE c == pic["master"]
           c2 == pic'["master"]
           s == pic["slave"]
           s2 == pic'["slave"]
<1>1. SUFFICES ASSUME cpu' = "done"
               PROVE  /\ Answers(c2)
                      /\ SlaveSelect' => s2.do /\ s2.isr = {} /\ Answers(s2)
  BY DEF Answered
<1>2. Idle /\ cpu = "possible"
  <2>1. ~SetUp /\ ~Mask /\ ~EndInterrupt
    BY <1>1 DEF SetUp, Mask, EndInterrupt, Out
  <2>2. ~Accept /\ ~Done /\ ~EnableInHandler /\ ~Return
    BY <1>1 DEF Accept, Done, EnableInHandler, Return
  <2>3. Idle
    BY <2>1, <2>2 DEF Next
  <2>4. cpu \in {"run", "out", "possible"} /\ cpu' = [run |-> "run", out |-> "run", possible |-> "done"][cpu]
    BY <2>3 DEF Idle
  <2>5. cpu = "possible"
    BY <1>1, <2>4
  <2>6. QED BY <2>3, <2>5
<1>3. c.do /\ enabled /\ setup = <<>> /\ (~task.nested => handlers = <<>>)
  BY <1>2 DEF Inv, Phases
<1>4. "master" \in Which /\ "slave" \in Which
  BY DEF Which
<1>5. Acked("master") = FALSE /\ Acked("slave") = FALSE
  BY <1>2 DEF Acked
<1>6. ~EndInterrupt
  BY <1>2 DEF EndInterrupt, Out
<1>7. /\ c \in Chip /\ c2 \in Chip /\ ~c.level_mode /\ Input("master") \in SUBSET Level
      /\ Requests(c, c2, Input("master"), FALSE) /\ c2.isr = c.isr /\ c2.lowest = c.lowest
  <2>1. Moved(c, c2, Input("master"), FALSE)
    BY <1>4, <1>5, <1>6, StepKinds DEF Ending
  <2>2. Taken(c, FALSE) = {}
    BY DEF Taken
  <2>3. QED BY <1>4, <2>1, <2>2, KindsMean DEF Moved
<1>8. /\ s \in Chip /\ s2 \in Chip /\ ~s.level_mode /\ Input("slave") \in SUBSET Level
      /\ Requests(s, s2, Input("slave"), FALSE) /\ s2.isr = s.isr /\ s2.lowest = s.lowest
  <2>1. Moved(s, s2, Input("slave"), FALSE)
    BY <1>4, <1>5, <1>6, StepKinds DEF Ending
  <2>2. Taken(s, FALSE) = {}
    BY DEF Taken
  <2>3. QED BY <1>4, <2>1, <2>2, KindsMean DEF Moved
<1>9. ~Undisturbed(task) => c.isr = {} /\ s.isr = {} /\ c.lowest = 7 /\ s.lowest = 7
  <2>1. SUFFICES ASSUME ~Undisturbed(task) PROVE c.isr = {} /\ s.isr = {} /\ c.lowest = 7 /\ s.lowest = 7
    OBVIOUS
  <2>2. task.eoi # "rotating" /\ (~task.nested \/ task.eoi = "automatic")
    BY <2>1, TaskIs DEF Inv, Orderly
  <2>3. c.isr = {} /\ s.isr = {}
    BY <1>3, <2>2, ServicesQuiet DEF Inv
  <2>4. c.lowest = 7 /\ s.lowest = 7
    BY <1>4, <2>2 DEF Inv, ProgramKept, ProgrammedTo
  <2>5. QED BY <2>3, <2>4
<1>10. ~Irq(c) => Fresh(c)
  <2>1. Undisturbed(task) /\ ~Irq(c) => Fresh(c)
    BY <1>3, <1>4 DEF Inv, Settled
  <2>2. QED BY <1>9, <2>1 DEF Fresh
<1>11. ~Irq(s) /\ s.do => Fresh(s)
  <2>1. Undisturbed(task) /\ ~Irq(s) /\ s.do => Fresh(s)
    BY <1>4 DEF Inv, Settled
  <2>2. QED BY <1>9, <2>1 DEF Fresh
<1>12. 2 \in c.irr => s.do
  BY DEF Inv, Cascades
<1>13. 2 \notin c.isr => s.isr = {}
  BY ServicesQuiet DEF Inv
<1>14. SlaveSelect' => c2.vector % 8 = 2
  BY DEF SlaveSelect
<1> HIDE DEF c, c2, s, s2
<1>15. c2.do
  BY <1>3, <1>7, RequestsMean
<1>16. Answers(c2)
  BY <1>7, <1>10, <1>15, ChipAnswers
<1>17. ASSUME SlaveSelect'
       PROVE  s2.do /\ s2.isr = {} /\ Answers(s2)
  <2>1. c2.vector % 8 = 2
    BY <1>14, <1>17
  <2>2. ~c2.spurious
    BY <1>16, <2>1 DEF Answers
  <2>3. IrqValue(c) = 2
    BY <1>7, <1>15, <2>1, RequestsMean
  <2>4. Irq(c)
    BY <1>7, <1>15, <2>2, RequestsMean DEF Latched
  <2>5. 2 \in c.irr /\ 2 \notin c.isr
    BY <1>7, <2>3, <2>4, IrqMeans DEF Prepared
  <2>6. s.do /\ s.isr = {}
    BY <1>12, <1>13, <2>5
  <2>7. s2.do
    BY <1>8, <2>6, RequestsMean
  <2>8. ~Irq(s) => Fresh(s)
    BY <1>11, <2>6
  <2>9. Answers(s2)
    BY <1>8, <2>7, <2>8, ChipAnswers
  <2>10. QED BY <1>8, <2>6, <2>7, <2>9
<1>18. QED BY <1>16, <1>17 DEF c2, s2

-----------------------------------------------------------------------------
(* An interrupt is taken *)

\* What goes into service.
LEMMA DoneServes ==
    ASSUME Inv, Done, NEW chip \in Which
    PROVE  /\ setup = <<>> /\ Stage = 10 /\ enabled /\ cpu = "done" /\ (~task.nested => handlers = <<>>)
           /\ pic'[chip].isr = pic[chip].isr \cup
                  (IF task.eoi # "automatic" /\ Acked(chip) /\ ~pic[chip].spurious
                   THEN {pic[chip].vector % 8} ELSE {})
           /\ pic'[chip].lowest = pic[chip].lowest
           /\ task.masks # {} \/ pic'[chip].imr = pic[chip].imr
<1>1. cpu = "done"
  BY DEF Done
<1>2. enabled /\ setup = <<>>
  BY <1>1 DEF Inv, Phases
<1>3. Stage = 10 /\ (~task.nested => handlers = <<>>)
  BY <1>2, Staged DEF Inv, Phases
<1>4. Next /\ ~EndInterrupt
  BY <1>1 DEF Next, EndInterrupt, Out
<1>5. Moved(pic[chip], pic'[chip], Input(chip), Acked(chip))
      /\ (task.masks # {} \/ pic'[chip].imr = pic[chip].imr)
  <2>1. Stage >= 2
    BY <1>3
  <2>2. \A v : ~Ending(v, chip)
    BY <1>4 DEF Ending
  <2>3. QED BY <1>2, <1>4, <2>1, <2>2, StepKinds
<1>6. pic[chip].auto_eoi <=> task.eoi = "automatic"
  <2>1. Words(chip) >= 4
    <3>1. (10 + 1) \div 2 = 5 /\ 10 \div 2 = 5
      OBVIOUS
    <3>2. Words(chip) = 5
      BY <1>3, <3>1 DEF Words
    <3>3. QED BY <3>2
  <2>2. QED BY <2>1 DEF Inv, ProgramKept, ProgrammedTo
<1>7. Taken(pic[chip], Acked(chip)) =
          IF Acked(chip) /\ ~pic[chip].spurious THEN {pic[chip].vector % 8} ELSE {}
  BY DEF Taken
<1>8. pic'[chip].isr = pic[chip].isr \cup (IF pic[chip].auto_eoi THEN {} ELSE Taken(pic[chip], Acked(chip)))
      /\ pic'[chip].lowest = pic[chip].lowest
  BY <1>5 DEF Moved
<1>9. QED BY <1>1, <1>2, <1>3, <1>5, <1>6, <1>7, <1>8

\* The handler that is started, and the line that is counted.
Starts(chip, level, real) ==
    /\ chip \in Which /\ level \in Level /\ real \in BOOLEAN
    /\ (chip = "slave" <=> SlaveSelect)
    /\ Acked(chip) /\ pic[chip].do /\ pic[chip].vector % 8 = level /\ Answers(pic[chip])
    /\ Answers(pic["master"])
    /\ chip = "slave" => /\ pic["master"].vector % 8 = 2 /\ ~pic["master"].spurious /\ pic["slave"].isr = {}
    /\ task.eoi # "automatic" => (real <=> ~pic[chip].spurious)
    /\ real /\ LineOf(chip, level) \in Lines => ~pic[chip].spurious
    /\ handlers' = <<[chip |-> chip, level |-> level, real |-> real,
                      ends |-> Ends(chip, level, real)]>> \o handlers
    /\ taken' = [l \in DOMAIN taken |-> taken[l] + (IF real /\ l = LineOf(chip, level) THEN 1 ELSE 0)]
    /\ passed' = [l \in DOMAIN passed |-> IF l # LineOf(chip, level) /\ l \in Waiting
                                          THEN passed[l] \cup {LineOf(chip, level)} ELSE {}]

LEMMA DoneIs ==
    ASSUME Inv, Done
    PROVE  \E chip, level, real : Starts(chip, level, real)
<1> DEFINE chip == IF Vector \div 8 = pic["slave"].offset THEN "slave" ELSE "master"
           level == Vector % 8
           real == level # 7 \/ task.eoi = "automatic" \/ level \in pic'[chip].isr
<1>1. /\ cpu = "done"
      /\ handlers' = <<[chip |-> chip, level |-> level, real |-> real,
                        ends |-> Ends(chip, level, real)]>> \o handlers
      /\ taken' = [l \in DOMAIN taken |-> taken[l] + (IF real /\ l = LineOf(chip, level) THEN 1 ELSE 0)]
      /\ passed' = [l \in DOMAIN passed |-> IF l # LineOf(chip, level) /\ l \in Waiting
                                            THEN passed[l] \cup {LineOf(chip, level)} ELSE {}]
  BY Zenon DEF Done
<1>2. "master" \in Which /\ "slave" \in Which
  BY DEF Which
<1>3. Stage = 10 /\ Types
  BY <1>2, DoneServes DEF Inv
<1>4. pic["master"].offset # pic["slave"].offset
  <2>1. ProgrammedTo("master", pic["master"], 5) /\ ProgrammedTo("slave", pic["slave"], 5)
    <3>1. (10 + 1) \div 2 = 5 /\ 10 \div 2 = 5
      OBVIOUS
    <3>2. Words("master") = 5 /\ Words("slave") = 5
      BY <1>3, <3>1 DEF Words
    <3>3. QED BY <1>2, <3>2 DEF Inv, ProgramKept
  <2>2. pic["master"].offset = High(task.setup[3].d) /\ pic["slave"].offset = High(task.setup[4].d)
    BY <2>1 DEF ProgrammedTo, Word
  <2>3. QED BY <1>3, <2>2, WordsAre
<1>5. /\ pic["master"].do /\ Answers(pic["master"])
      /\ pic["master"].vector \div 8 = pic["master"].offset
  BY <1>1, <1>2, <1>3 DEF Inv, Phases, Answered, Vectors, VectorOf
<1>6. SlaveSelect => /\ pic["slave"].do /\ Answers(pic["slave"]) /\ pic["slave"].isr = {}
                     /\ pic["slave"].vector \div 8 = pic["slave"].offset
                     /\ pic["master"].vector % 8 = 2 /\ ~pic["master"].spurious
  <2>1. SUFFICES ASSUME SlaveSelect
                 PROVE  /\ pic["slave"].do /\ Answers(pic["slave"]) /\ pic["slave"].isr = {}
                        /\ pic["slave"].vector \div 8 = pic["slave"].offset
                        /\ pic["master"].vector % 8 = 2 /\ ~pic["master"].spurious
    OBVIOUS
  <2>2. pic["slave"].do /\ Answers(pic["slave"]) /\ pic["slave"].isr = {}
    BY <1>1, <2>1 DEF Inv, Answered
  <2>3. pic["slave"].vector \div 8 = pic["slave"].offset
    BY <1>2, <1>3, <2>2 DEF Inv, Vectors, VectorOf
  <2>4. pic["master"].vector % 8 = 2
    BY <2>1 DEF SlaveSelect
  <2>5. ~pic["master"].spurious
    BY <1>5, <2>4 DEF Answers
  <2>6. QED BY <2>2, <2>3, <2>4, <2>5
<1>7. /\ chip \in Which /\ (chip = "slave" <=> SlaveSelect)
      /\ level = pic[chip].vector % 8
  BY <1>2, <1>4, <1>5, <1>6 DEF Vector
<1>8. Acked(chip) /\ pic[chip].do /\ Answers(pic[chip])
  BY <1>1, <1>5, <1>6, <1>7 DEF Acked, Which
<1>9. real \in BOOLEAN
  OBVIOUS
<1>10. level \in Level
  <2>1. pic[chip].vector \in ByteValue
    BY <1>3, <1>7 DEF Types, Chip
  <2> DEFINE v == pic[chip].vector
  <2>2. v \in ByteValue /\ level = v % 8
    BY <1>7, <2>1
  <2> HIDE DEF v, level
  <2>3. QED BY <2>2 DEF ByteValue, Level
<1> DEFINE c == pic[chip]
<1>11. pic'[chip].isr = c.isr \cup (IF task.eoi # "automatic" /\ ~c.spurious THEN {level} ELSE {})
  BY <1>7, <1>8, DoneServes
<1>12. real <=> level # 7 \/ task.eoi = "automatic" \/ level \in pic'[chip].isr
  OBVIOUS
<1>13. c.spurious => c.isr = {} /\ level = 7
  BY <1>7, <1>8 DEF Answers, Fresh
<1>14. chip = "master" \/ chip = "slave"
  BY <1>7 DEF Which
<1> HIDE DEF chip, level, real, c
<1>15. task.eoi # "automatic" => (real <=> ~c.spurious)
  BY <1>11, <1>12, <1>13
<1>16. real /\ LineOf(chip, level) \in Lines => ~c.spurious
  <2>1. SUFFICES ASSUME real, LineOf(chip, level) \in Lines, c.spurious PROVE FALSE
    OBVIOUS
  <2>2. task.eoi = "automatic" /\ level = 7
    BY <1>13, <1>15, <2>1
  <2>3. Lines \cap {7, 15} = {}
    BY <1>3, <2>2, TaskIs DEF Orderly, Lines
  <2>4. LineOf(chip, level) = 7 \/ LineOf(chip, level) = 15
    BY <1>14, <2>2 DEF LineOf
  <2>5. QED BY <2>1, <2>3, <2>4
<1>17. chip = "slave" => /\ pic["master"].vector % 8 = 2 /\ ~pic["master"].spurious /\ pic["slave"].isr = {}
  BY <1>6, <1>7
<1>18. Starts(chip, level, real)
  <2>1. /\ chip \in Which /\ level \in Level /\ real \in BOOLEAN
        /\ (chip = "slave" <=> SlaveSelect)
        /\ Acked(chip) /\ c.do /\ c.vector % 8 = level /\ Answers(c)
        /\ Answers(pic["master"])
    BY <1>5, <1>7, <1>8, <1>9, <1>10 DEF c
  <2>2. QED BY <1>1, <1>15, <1>16, <1>17, <2>1, Zenon DEF Starts, c
<1>19. QED BY <1>18

-----------------------------------------------------------------------------
(* The steps keep the invariant: what is in service *)

LEMMA Pair ==
    ASSUME NEW S, NEW a \in S, NEW b \in S
    PROVE  <<a>> \o <<b>> = <<a, b>>
<1> DEFINE s == <<a>> \o <<b>>
           t == <<a, b>>
<1>1. <<a>> \in Seq(S) /\ <<b>> \in Seq(S) /\ t \in Seq(S) /\ Len(t) = 2 /\ t[1] = a /\ t[2] = b
  OBVIOUS
<1>2. s \in Seq(S) /\ Len(s) = 2 /\ s[1] = a /\ s[2] = b
  BY <1>1
<1> HIDE DEF s, t
<1>3. \A i \in 1 .. Len(s) : s[i] = t[i]
  <2>1. SUFFICES ASSUME NEW i \in 1 .. 2 PROVE s[i] = t[i]
    BY <1>2
  <2>2. i = 1 \/ i = 2
    OBVIOUS
  <2>3. QED BY <1>1, <1>2, <2>2
<1>4. s = t
  BY <1>1, <1>2, <1>3, SeqEqual
<1>5. QED BY <1>4 DEF s, t

LEMMA NewOpens ==
    ASSUME Types, NEW chip \in Which, NEW level \in Level, NEW real \in BOOLEAN, NEW h,
           h = [chip |-> chip, level |-> level, real |-> real, ends |-> Ends(chip, level, real)]
    PROVE  /\ h \in Handler /\ h.ends \in Owed(h)
           /\ \A ch \in Which : Opened(h, ch) <=> /\ task.eoi # "automatic"
                                                  /\ (ch = chip /\ real) \/ (ch = "master" /\ chip = "slave")
<1> DEFINE em == Eoi("master", 2)
           es == Eoi("slave", level)
           el == Eoi("master", level)
<1>1. /\ em \in Write /\ es \in Write /\ el \in Write
      /\ em.chip = "master" /\ es.chip = "slave" /\ el.chip = "master"
  BY EoiIs DEF Which, Level
<1>2. h.chip = chip /\ h.level = level /\ h.real = real /\ h.ends = Ends(chip, level, real)
  OBVIOUS
<1>3. chip = "master" \/ chip = "slave"
  BY DEF Which
<1>4. h \in Handler /\ EndsAre(h) /\ (task.eoi = "automatic" => h.ends \in Owed(h))
  <2>1. h.ends \in Seq(Write) => h \in Handler
    BY DEF Handler
  <2>2. CASE task.eoi = "automatic"
    <3>1. h.ends = <<>>
      BY <1>2, <2>2 DEF Ends
    <3>2. Owed(h) = {<<>>}
      BY <2>2 DEF Owed
    <3>3. QED BY <2>1, <3>1, <3>2 DEF EndsAre
  <2>3. CASE task.eoi # "automatic" /\ chip = "slave" /\ real
    <3>1. Ends(chip, level, real) = <<es>> \o <<em>>
      BY <2>3 DEF Ends
    <3> HIDE DEF es, em
    <3>2. <<es>> \o <<em>> = <<es, em>> /\ <<es, em>> \in Seq(Write)
      <4>1. es \in Write /\ em \in Write
        BY <1>1
      <4>2. QED BY <4>1, Pair
    <3>3. h.ends = <<es, em>>
      BY <1>2, <3>1, <3>2
    <3>4. QED BY <1>2, <2>1, <2>3, <3>2, <3>3 DEF EndsAre, es, em
  <2>4. CASE task.eoi # "automatic" /\ chip = "slave" /\ ~real
    <3>1. Ends(chip, level, real) = <<>> \o <<em>>
      BY <2>4 DEF Ends
    <3> HIDE DEF em
    <3>2. <<>> \o <<em>> = <<em>> /\ <<em>> \in Seq(Write)
      BY <1>1
    <3>3. h.ends = <<em>>
      BY <1>2, <3>1, <3>2
    <3>4. QED BY <1>2, <2>1, <2>4, <3>2, <3>3 DEF EndsAre, em
  <2>5. CASE task.eoi # "automatic" /\ chip = "master" /\ real
    <3>1. Ends(chip, level, real) = <<>> \o <<el>>
      BY <2>5 DEF Ends
    <3> HIDE DEF el
    <3>2. <<>> \o <<el>> = <<el>> /\ <<el>> \in Seq(Write)
      BY <1>1
    <3>3. h.ends = <<el>>
      BY <1>2, <3>1, <3>2
    <3>4. QED BY <1>2, <2>1, <2>5, <3>2, <3>3 DEF EndsAre, el
  <2>6. CASE task.eoi # "automatic" /\ chip = "master" /\ ~real
    <3>1. Ends(chip, level, real) = <<>> \o <<>>
      BY <2>6 DEF Ends
    <3>2. <<>> \o <<>> = <<>> /\ <<>> \in Seq(Write)
      OBVIOUS
    <3>3. h.ends = <<>>
      BY <1>2, <3>1, <3>2
    <3>4. EndsAre(h)
      BY <3>3, Zenon DEF EndsAre
    <3>5. h \in Handler
      BY <2>1, <3>2, <3>3
    <3>6. QED BY <2>6, <3>4, <3>5
  <2>7. QED BY <1>3, <2>2, <2>3, <2>4, <2>5, <2>6
<1>5. h.ends \in Owed(h)
  BY <1>4, OwedStill
<1>6. ASSUME NEW ch \in Which
      PROVE  Opened(h, ch) <=> /\ task.eoi # "automatic"
                               /\ (ch = chip /\ real) \/ (ch = "master" /\ chip = "slave")
  <2>1. ch = "master" \/ ch = "slave"
    BY DEF Which
  <2>2. CASE task.eoi = "automatic"
    <3>1. h.ends = <<>>
      BY <1>2, <2>2 DEF Ends
    <3>2. QED BY <1>4, <2>2, <3>1, OpensOf
  <2>3. CASE task.eoi # "automatic" /\ chip = "slave" /\ real
    <3>1. h.ends = <<es>> \o <<em>>
      BY <1>2, <2>3 DEF Ends
    <3> HIDE DEF es, em
    <3>2. DOMAIN h.ends = {1, 2} /\ h.ends[1].chip = "slave" /\ h.ends[2].chip = "master"
      BY <1>1, <3>1
    <3>3. QED BY <2>1, <2>3, <3>2 DEF Opened
  <2>4. CASE task.eoi # "automatic" /\ chip = "slave" /\ ~real
    <3>1. h.ends = <<>> \o <<em>>
      BY <1>2, <2>4 DEF Ends
    <3> HIDE DEF em
    <3>2. DOMAIN h.ends = {1} /\ h.ends[1].chip = "master"
      BY <1>1, <3>1
    <3>3. QED BY <2>1, <2>4, <3>2 DEF Opened
  <2>5. CASE task.eoi # "automatic" /\ chip = "master" /\ real
    <3>1. h.ends = <<>> \o <<el>>
      BY <1>2, <2>5 DEF Ends
    <3> HIDE DEF el
    <3>2. DOMAIN h.ends = {1} /\ h.ends[1].chip = "master"
      BY <1>1, <3>1
    <3>3. QED BY <2>1, <2>5, <3>2 DEF Opened
  <2>6. CASE task.eoi # "automatic" /\ chip = "master" /\ ~real
    <3>1. h.ends = <<>> \o <<>>
      BY <1>2, <2>6 DEF Ends
    <3>2. h.ends = <<>>
      BY <3>1
    <3>3. QED BY <1>4, <2>6, <3>2, OpensOf
  <2>7. QED BY <1>3, <2>2, <2>3, <2>4, <2>5, <2>6
<1>7. QED BY <1>4, <1>5, <1>6

\* The handlers of a step: none, one more, one less, or one with less to end.
LEMMA HandlersStep ==
    ASSUME Next
    PROVE  \/ handlers' = handlers /\ cpu # "done" /\ ~EndInterrupt /\ taken' = taken /\ passed' = passed
           \/ Done
           \/ EndInterrupt /\ cpu # "done" /\ taken' = taken /\ passed' = passed
           \/ Return /\ cpu # "done" /\ ~EndInterrupt /\ taken' = taken /\ passed' = passed
<1> DEFINE P == handlers' = handlers /\ cpu # "done" /\ taken' = taken /\ passed' = passed
<1>1. Idle => P /\ ~EndInterrupt
  <2>1. Idle => P
    BY DEF Idle
  <2>2. Idle => cpu' = [run |-> "run", out |-> "run", possible |-> "done"][cpu]
    BY DEF Idle
  <2>3. EndInterrupt => cpu = "run" /\ cpu' = "out"
    BY DEF EndInterrupt, Out
  <2>4. QED BY <2>1, <2>2, <2>3
<1>2. SetUp => P
  BY DEF SetUp, Out
<1>3. Mask => P
  BY DEF Mask, Out
<1>4. Accept => P /\ ~EndInterrupt
  BY DEF Accept, EndInterrupt, Out
<1>5. EnableInHandler => P /\ ~EndInterrupt
  BY DEF EnableInHandler, EndInterrupt, Out
<1>6. EndInterrupt => cpu # "done" /\ taken' = taken /\ passed' = passed
  BY DEF EndInterrupt, Out
<1>7. Return => cpu # "done" /\ ~EndInterrupt /\ taken' = taken /\ passed' = passed
  BY DEF Return, EndInterrupt, Out
<1>8. QED BY <1>1, <1>2, <1>3, <1>4, <1>5, <1>6, <1>7 DEF Next

\* A step that takes and ends nothing leaves what is in service alone.
LEMMA NothingServed ==
    ASSUME Inv, Next, Stage >= 2, cpu # "done", ~EndInterrupt, NEW chip \in Which
    PROVE  pic'[chip].isr = pic[chip].isr /\ pic'[chip].lowest = pic[chip].lowest
<1>1. Acked(chip) = FALSE
  BY DEF Acked
<1>2. Moved(pic[chip], pic'[chip], Input(chip), FALSE)
  <2>1. \A v : ~Ending(v, chip)
    BY DEF Ending
  <2>2. QED BY <1>1, <2>1, StepKinds
<1>3. Taken(pic[chip], FALSE) = {}
  BY DEF Taken
<1>4. QED BY <1>2, <1>3 DEF Moved

\* What an EOI ends.
LEMMA EndServed ==
    ASSUME Inv, EndInterrupt, Stage >= 2, NEW chip \in Which
    PROVE  LET h == Head(handlers)
               v == Serves(h, chip)
           IN  IF chip = Head(h.ends).chip
               THEN /\ v \in pic[chip].isr /\ pic'[chip].isr = pic[chip].isr \ {v}
                    /\ pic'[chip].lowest = IF task.eoi = "rotating" THEN v ELSE pic[chip].lowest
                    /\ pic'[chip].imr = pic[chip].imr
               ELSE pic'[chip].isr = pic[chip].isr /\ pic'[chip].lowest = pic[chip].lowest
<1>1. Acked(chip) = FALSE /\ Next
  <2>1. cpu # "done"
    BY DEF EndInterrupt, Out
  <2>2. QED BY <2>1 DEF Acked, Next
<1>2. CASE chip = Head(Head(handlers).ends).chip
  <2>1. Ending(Serves(Head(handlers), chip), chip)
    BY <1>2, EndingIs
  <2>2. PICK v \in pic[chip].isr : Ending(v, chip) /\ Ended(pic[chip], pic'[chip], Input(chip), v)
    BY <1>1, <2>1, StepKinds
  <2>3. v = Serves(Head(handlers), chip)
    BY <2>2 DEF Ending
  <2>4. /\ pic'[chip].isr = pic[chip].isr \ {v} /\ pic'[chip].imr = pic[chip].imr
        /\ pic'[chip].lowest = IF task.eoi = "rotating" THEN v ELSE pic[chip].lowest
    BY <2>2, Zenon DEF Ended
  <2>5. QED BY <1>2, <2>2, <2>3, <2>4, Zenon
<1>3. CASE chip # Head(Head(handlers).ends).chip
  <2>1. \A v : ~Ending(v, chip)
    BY <1>3 DEF Ending
  <2>2. Moved(pic[chip], pic'[chip], Input(chip), FALSE)
    BY <1>1, <2>1, StepKinds
  <2>3. Taken(pic[chip], FALSE) = {}
    BY DEF Taken
  <2>4. QED BY <1>3, <2>2, <2>3 DEF Moved
<1>4. QED BY <1>2, <1>3

\* The handlers after a step: what each has open, as before it.
LEMMA HandlersNew ==
    ASSUME Inv, Done, NEW chip, NEW level, NEW real, Starts(chip, level, real)
    PROVE  LET h == [chip |-> chip, level |-> level, real |-> real, ends |-> Ends(chip, level, real)]
           IN  /\ h \in Handler /\ handlers' \in Seq(Handler) /\ Len(handlers') = Len(handlers) + 1
               /\ handlers'[1] = h /\ \A n \in 1 .. Len(handlers) : handlers'[n + 1] = handlers[n]
<1> DEFINE h == [chip |-> chip, level |-> level, real |-> real, ends |-> Ends(chip, level, real)]
<1>1. chip \in Which /\ level \in Level /\ real \in BOOLEAN /\ handlers' = <<h>> \o handlers
  BY DEF Starts
<1>2. h \in Handler
  BY <1>1, NewOpens DEF Inv
<1>3. handlers \in Seq(Handler)
  BY DEF Inv, Types
<1> HIDE DEF h
<1>4. handlers' \in Seq(Handler) /\ Len(handlers') = Len(handlers) + 1 /\ handlers'[1] = h
      /\ \A n \in 1 .. Len(handlers) : handlers'[n + 1] = handlers[n]
  BY <1>1, <1>2, <1>3
<1>5. QED BY <1>2, <1>4 DEF h

LEMMA HandlersLess ==
    ASSUME Inv, Return
    PROVE  /\ handlers' \in Seq(Handler) /\ Len(handlers') = Len(handlers) - 1 /\ Len(handlers) >= 1
           /\ \A n \in 1 .. Len(handlers) - 1 : handlers'[n] = handlers[n + 1]
           /\ handlers[1].ends = <<>>
<1>1. handlers # <<>> /\ Head(handlers).ends = <<>> /\ handlers' = Tail(handlers)
  BY DEF Return
<1>2. handlers \in Seq(Handler)
  BY DEF Inv, Types
<1>3. Len(handlers) \in Nat /\ Len(handlers) >= 1 /\ Head(handlers) = handlers[1]
  BY <1>1, <1>2
<1>4. handlers' \in Seq(Handler) /\ Len(handlers') = Len(handlers) - 1
      /\ \A n \in 1 .. Len(handlers) - 1 : handlers'[n] = handlers[n + 1]
  BY <1>1, <1>2, <1>3
<1>5. QED BY <1>1, <1>3, <1>4

LEMMA HandlersEnd ==
    ASSUME Inv, EndInterrupt
    PROVE  /\ handlers # <<>> /\ handlers' \in Seq(Handler) /\ DOMAIN handlers' = DOMAIN handlers
           /\ Len(handlers') = Len(handlers)
           /\ \A n \in DOMAIN handlers : n # 1 => handlers'[n] = handlers[n]
           /\ 1 \in DOMAIN handlers /\ Head(handlers) = handlers[1] /\ handlers[1].ends # <<>>
           /\ handlers'[1] \in Handler /\ EndsAre(handlers'[1]) /\ task.eoi # "automatic"
           /\ Head(handlers[1].ends).chip \in Which
           /\ handlers'[1].chip = handlers[1].chip /\ handlers'[1].level = handlers[1].level
           /\ Opened(handlers[1], Head(handlers[1].ends).chip)
           /\ \A chip \in Which : Opened(handlers'[1], chip)
                                    <=> Opened(handlers[1], chip) /\ chip # Head(handlers[1].ends).chip
<1> DEFINE h == handlers[1]
           h2 == [h EXCEPT !.ends = Tail(@)]
<1>1. handlers # <<>> /\ Head(handlers).ends # <<>> /\ handlers' = [handlers EXCEPT ![1] = h2]
  BY DEF EndInterrupt
<1>2. handlers \in Seq(Handler) /\ 1 \in DOMAIN handlers /\ Head(handlers) = h /\ h \in Handler
      /\ EndsAre(h) /\ (task.eoi = "automatic" => h.ends = <<>>)
  BY <1>1, HandlersAre DEF Inv
<1>3. h.ends \in Seq(Write) /\ Tail(h.ends) \in Seq(Write)
  <2>1. h.ends \in Seq(Write) /\ h.ends # <<>>
    BY <1>1, <1>2 DEF Handler
  <2>2. QED BY <2>1
<1>4. h2 \in Handler /\ h2.chip = h.chip /\ h2.level = h.level /\ h2.real = h.real /\ h2.ends = Tail(h.ends)
  BY <1>2, <1>3 DEF Handler
<1> HIDE DEF h2
<1>5. /\ EndsAre(h2)
      /\ \A chip \in Which : Opened(h2, chip) <=> Opened(h, chip) /\ chip # Head(h.ends).chip
  BY <1>1, <1>2, <1>4, TailOpens DEF Inv
<1>6. Head(h.ends).chip \in Which /\ Opened(h, Head(h.ends).chip)
  BY <1>1, <1>2, OpensOf DEF Inv
<1>7. /\ handlers' \in Seq(Handler) /\ DOMAIN handlers' = DOMAIN handlers /\ Len(handlers') = Len(handlers)
      /\ handlers'[1] = h2 /\ \A n \in DOMAIN handlers : n # 1 => handlers'[n] = handlers[n]
  BY <1>1, <1>2, <1>4
<1>8. QED BY <1>1, <1>2, <1>4, <1>5, <1>6, <1>7

LEMMA ServiceKept ==
    ASSUME Inv, Next, Stage >= 2
    PROVE  ServiceExact'
<1>1. SUFFICES ASSUME NEW chip \in Which
               PROVE  \A v : v \in pic'[chip].isr <=>
                         \E n \in DOMAIN handlers' : Opened(handlers'[n], chip) /\ v = Serves(handlers'[n], chip)
  BY DEF ServiceExact, Unended, Opened
<1>2. \A v : v \in pic[chip].isr <=>
         \E n \in DOMAIN handlers : Opened(handlers[n], chip) /\ v = Serves(handlers[n], chip)
  BY ServiceIs DEF Inv
<1>3. handlers \in Seq(Handler)
  BY DEF Inv, Types
<1>4. CASE handlers' = handlers /\ cpu # "done" /\ ~EndInterrupt
  <2>1. pic'[chip].isr = pic[chip].isr
    BY <1>4, NothingServed
  <2>2. QED BY <1>2, <1>4, <2>1
<1>5. CASE Return /\ cpu # "done" /\ ~EndInterrupt
  <2>1. pic'[chip].isr = pic[chip].isr
    BY <1>5, NothingServed
  <2>2. /\ handlers' \in Seq(Handler) /\ Len(handlers') = Len(handlers) - 1 /\ Len(handlers) >= 1
        /\ \A n \in 1 .. Len(handlers) - 1 : handlers'[n] = handlers[n + 1]
        /\ handlers[1].ends = <<>>
    BY <1>5, HandlersLess
  <2>3. ~Opened(handlers[1], chip)
    <3>1. handlers[1] \in Handler /\ EndsAre(handlers[1])
      BY <1>3, <2>2, HandlersAre DEF Inv
    <3>2. QED BY <2>2, <3>1, OpensOf DEF Inv
  <2>4. ASSUME NEW v, NEW n \in DOMAIN handlers, Opened(handlers[n], chip), v = Serves(handlers[n], chip)
        PROVE  \E m \in DOMAIN handlers' : Opened(handlers'[m], chip) /\ v = Serves(handlers'[m], chip)
    <3>1. n # 1 /\ n - 1 \in 1 .. Len(handlers) - 1
      BY <1>3, <2>3, <2>4
    <3>2. n - 1 \in DOMAIN handlers' /\ handlers'[n - 1] = handlers[n]
      BY <1>3, <2>2, <3>1
    <3>3. QED BY <2>4, <3>2
  <2>5. ASSUME NEW v, NEW m \in DOMAIN handlers', Opened(handlers'[m], chip), v = Serves(handlers'[m], chip)
        PROVE  \E n \in DOMAIN handlers : Opened(handlers[n], chip) /\ v = Serves(handlers[n], chip)
    <3>1. m + 1 \in DOMAIN handlers /\ handlers'[m] = handlers[m + 1]
      <4>1. m \in 1 .. Len(handlers) - 1 /\ Len(handlers) \in Nat
        BY <1>3, <2>2
      <4>2. m + 1 \in 1 .. Len(handlers)
        BY <4>1
      <4>3. handlers'[m] = handlers[m + 1]
        BY <2>2, <4>1
      <4>4. DOMAIN handlers = 1 .. Len(handlers)
        BY <1>3
      <4>5. QED BY <4>2, <4>3, <4>4
    <3>2. QED BY <2>5, <3>1
  <2>6. QED BY <1>2, <2>1, <2>4, <2>5
<1>6. CASE EndInterrupt
  <2> DEFINE h == handlers[1]
             k == Head(h.ends).chip
  <2>1. /\ Head(handlers) = h /\ 1 \in DOMAIN handlers /\ DOMAIN handlers' = DOMAIN handlers
        /\ \A n \in DOMAIN handlers : n # 1 => handlers'[n] = handlers[n]
        /\ handlers'[1].chip = h.chip /\ handlers'[1].level = h.level /\ Opened(h, k)
        /\ Opened(handlers'[1], chip) <=> Opened(h, chip) /\ chip # k
    BY <1>6, HandlersEnd
  <2>2. Serves(handlers'[1], chip) = Serves(h, chip)
    BY <2>1 DEF Serves
  <2>3. CASE chip # k
    <3>1. pic'[chip].isr = pic[chip].isr
      BY <1>6, <2>1, <2>3, EndServed
    <3>2. \A n \in DOMAIN handlers : /\ Opened(handlers'[n], chip) <=> Opened(handlers[n], chip)
                                     /\ Serves(handlers'[n], chip) = Serves(handlers[n], chip)
      BY <2>1, <2>2, <2>3
    <3>3. QED BY <1>2, <2>1, <3>1, <3>2
  <2>4. CASE chip = k
    <3> DEFINE w == Serves(h, chip)
    <3>1. pic'[chip].isr = pic[chip].isr \ {w}
      BY <1>6, <2>1, <2>4, EndServed
    <3>2. Opened(h, chip) /\ ~Opened(handlers'[1], chip)
      BY <2>1, <2>4
    <3>3. \A n \in DOMAIN handlers : n # 1 /\ Opened(handlers[n], chip) => Serves(handlers[n], chip) # w
      <4>1. SUFFICES ASSUME NEW n \in DOMAIN handlers, n # 1, Opened(handlers[n], chip) PROVE Serves(handlers[n], chip) # w
        OBVIOUS
      <4>2. n \in Nat /\ 1 < n
        BY <1>3, <4>1
      <4>3. Serves(handlers[1], chip) < Serves(handlers[n], chip)
        BY <2>1, <3>2, <4>1, <4>2 DEF Inv, HandlersNest
      <4>4. Serves(handlers[1], chip) \in Level /\ Serves(handlers[n], chip) \in Level
        <5>1. handlers[1] \in Handler /\ handlers[n] \in Handler
          BY <1>3, <2>1, <4>1
        <5>2. QED BY <5>1 DEF Handler, Serves, Level
      <4>5. QED BY <4>3, <4>4 DEF Level
    <3> HIDE DEF w, h, k
    <3>4. QED BY <1>2, <2>1, <3>1, <3>2, <3>3 DEF w, h
  <2>5. QED BY <2>3, <2>4
<1>7. CASE Done
  <2>1. PICK c, level, real : Starts(c, level, real)
    BY <1>7, DoneIs
  <2> DEFINE h == [chip |-> c, level |-> level, real |-> real, ends |-> Ends(c, level, real)]
  <2>2. /\ h \in Handler /\ handlers' \in Seq(Handler) /\ Len(handlers') = Len(handlers) + 1
        /\ handlers'[1] = h /\ \A n \in 1 .. Len(handlers) : handlers'[n + 1] = handlers[n]
    BY <1>7, <2>1, HandlersNew
  <2>3. Opened(h, chip) <=> task.eoi # "automatic" /\ ((chip = c /\ real) \/ (chip = "master" /\ c = "slave"))
    <3>1. c \in Which /\ level \in Level /\ real \in BOOLEAN
      BY <2>1 DEF Starts
    <3>2. QED BY <3>1, NewOpens DEF Inv
  <2>4. pic'[chip].isr = pic[chip].isr \cup
             (IF task.eoi # "automatic" /\ Acked(chip) /\ ~pic[chip].spurious
              THEN {pic[chip].vector % 8} ELSE {})
    BY <1>7, DoneServes
  <2>5. h.chip = c /\ h.level = level
    OBVIOUS
  <2> HIDE DEF h
  <2>6. Opened(h, chip) <=> task.eoi # "automatic" /\ Acked(chip) /\ ~pic[chip].spurious
    <3>1. CASE chip = c
      BY <2>1, <2>3, <3>1 DEF Starts
    <3>2. CASE chip = "master" /\ c = "slave"
      BY <1>7, <2>1, <2>3, <3>2 DEF Starts, Acked, Done
    <3>3. CASE chip = "slave" /\ c = "master"
      BY <2>1, <2>3, <3>3 DEF Starts, Acked
    <3>4. QED BY <2>1, <3>1, <3>2, <3>3 DEF Starts, Which
  <2>7. Opened(h, chip) => Serves(h, chip) = pic[chip].vector % 8
    BY <2>1, <2>3, <2>5 DEF Starts, Serves, Which
  <2>8. \A v : v \in pic'[chip].isr <=> v \in pic[chip].isr \/ (Opened(h, chip) /\ v = Serves(h, chip))
    BY <2>4, <2>6, <2>7
  <2>9. ASSUME NEW v, NEW n \in DOMAIN handlers, Opened(handlers[n], chip), v = Serves(handlers[n], chip)
        PROVE  \E m \in DOMAIN handlers' : Opened(handlers'[m], chip) /\ v = Serves(handlers'[m], chip)
    <3>1. n + 1 \in DOMAIN handlers' /\ handlers'[n + 1] = handlers[n]
      BY <1>3, <2>2
    <3>2. QED BY <2>9, <3>1
  <2>10. ASSUME NEW v, Opened(h, chip), v = Serves(h, chip)
         PROVE  \E m \in DOMAIN handlers' : Opened(handlers'[m], chip) /\ v = Serves(handlers'[m], chip)
    <3>1. 1 \in DOMAIN handlers'
      BY <1>3, <2>2
    <3>2. QED BY <2>2, <2>10, <3>1
  <2>11. ASSUME NEW v, NEW m \in DOMAIN handlers', Opened(handlers'[m], chip), v = Serves(handlers'[m], chip)
         PROVE  \/ Opened(h, chip) /\ v = Serves(h, chip)
                \/ \E n \in DOMAIN handlers : Opened(handlers[n], chip) /\ v = Serves(handlers[n], chip)
    <3>1. CASE m = 1
      BY <2>2, <2>11, <3>1
    <3>2. CASE m # 1
      <4>1. m - 1 \in DOMAIN handlers /\ handlers'[m] = handlers[m - 1]
        <5>1. m \in 2 .. Len(handlers) + 1 /\ Len(handlers) \in Nat
          BY <1>3, <2>2, <3>2
        <5>2. m - 1 \in 1 .. Len(handlers) /\ (m - 1) + 1 = m
          BY <5>1
        <5>3. QED BY <1>3, <2>2, <5>2
      <4>2. QED BY <2>11, <4>1
    <3>3. QED BY <3>1, <3>2
  <2>12. QED BY <1>2, <2>8, <2>9, <2>10, <2>11
<1>8. QED BY <1>4, <1>5, <1>6, <1>7, HandlersStep

LEMMA HandlersNestKept ==
    ASSUME Inv, Next, Stage >= 2
    PROVE  HandlersNest'
<1>0. task' = task /\ Types
  BY LinesOfStep DEF Inv
<1>1. SUFFICES ASSUME TRUE
               PROVE  /\ \A n \in DOMAIN handlers' : handlers'[n].ends \in Owed(handlers'[n])
                      /\ \A chip \in Which : \A i, j \in DOMAIN handlers' :
                            i < j /\ Opened(handlers'[i], chip) /\ Opened(handlers'[j], chip)
                                => Serves(handlers'[i], chip) < Serves(handlers'[j], chip)
  <2>1. \A h : Owed(h)' = Owed(h)
    BY <1>0 DEF Owed, Eoi
  <2>2. \A h, chip : Opened(h, chip)' = Opened(h, chip)
    BY DEF Opened
  <2>3. QED BY <2>1, <2>2 DEF HandlersNest
<1>2. /\ \A n \in DOMAIN handlers : handlers[n].ends \in Owed(handlers[n])
      /\ \A chip \in Which : \A i, j \in DOMAIN handlers :
            i < j /\ Opened(handlers[i], chip) /\ Opened(handlers[j], chip)
               => Serves(handlers[i], chip) < Serves(handlers[j], chip)
  BY DEF Inv, HandlersNest
<1>3. handlers \in Seq(Handler) /\ Len(handlers) \in Nat /\ DOMAIN handlers = 1 .. Len(handlers)
  BY <1>0 DEF Types
<1>4. CASE handlers' = handlers
  BY <1>2, <1>4
<1>5. CASE Return
  <2>1. /\ handlers' \in Seq(Handler) /\ Len(handlers') = Len(handlers) - 1
        /\ \A n \in 1 .. Len(handlers) - 1 : handlers'[n] = handlers[n + 1]
    BY <1>5, HandlersLess
  <2>2. \A n \in DOMAIN handlers' : n \in Nat /\ n + 1 \in DOMAIN handlers /\ handlers'[n] = handlers[n + 1]
    <3>1. \A n \in 1 .. Len(handlers) - 1 : n \in Nat /\ n + 1 \in 1 .. Len(handlers)
      BY <1>3
    <3>2. DOMAIN handlers' = 1 .. Len(handlers) - 1
      BY <2>1
    <3>3. QED BY <1>3, <2>1, <3>1, <3>2
  <2>3. ASSUME NEW chip \in Which, NEW i \in DOMAIN handlers', NEW j \in DOMAIN handlers',
               i < j, Opened(handlers'[i], chip), Opened(handlers'[j], chip)
        PROVE  Serves(handlers'[i], chip) < Serves(handlers'[j], chip)
    <3>1. i + 1 < j + 1 /\ i + 1 \in DOMAIN handlers /\ j + 1 \in DOMAIN handlers
      BY <2>2, <2>3
    <3>2. QED BY <1>2, <2>2, <2>3, <3>1
  <2>4. QED BY <1>2, <2>2, <2>3
<1>6. CASE EndInterrupt
  <2> DEFINE h == handlers[1]
             k == Head(h.ends).chip
  <2>1. /\ 1 \in DOMAIN handlers /\ DOMAIN handlers' = DOMAIN handlers
        /\ \A n \in DOMAIN handlers : n # 1 => handlers'[n] = handlers[n]
        /\ handlers'[1] \in Handler /\ EndsAre(handlers'[1]) /\ task.eoi # "automatic"
        /\ handlers'[1].chip = h.chip /\ handlers'[1].level = h.level
        /\ \A chip \in Which : Opened(handlers'[1], chip) <=> Opened(h, chip) /\ chip # k
    BY <1>6, HandlersEnd
  <2>2. handlers'[1].ends \in Owed(handlers'[1])
    BY <1>0, <2>1, OwedStill
  <2>3. \A n \in DOMAIN handlers' : handlers'[n].ends \in Owed(handlers'[n])
    BY <1>2, <2>1, <2>2
  <2>4. \A chip \in Which : \A n \in DOMAIN handlers :
            /\ Opened(handlers'[n], chip) => Opened(handlers[n], chip)
            /\ Serves(handlers'[n], chip) = Serves(handlers[n], chip)
    BY <2>1 DEF Serves
  <2>5. QED BY <1>2, <2>1, <2>3, <2>4
<1>7. CASE Done
  <2>1. PICK c, level, real : Starts(c, level, real)
    BY <1>7, DoneIs
  <2> DEFINE h == [chip |-> c, level |-> level, real |-> real, ends |-> Ends(c, level, real)]
  <2>2. /\ h \in Handler /\ handlers' \in Seq(Handler) /\ Len(handlers') = Len(handlers) + 1
        /\ handlers'[1] = h /\ \A n \in 1 .. Len(handlers) : handlers'[n + 1] = handlers[n]
    BY <1>7, <2>1, HandlersNew
  <2>3. /\ h.ends \in Owed(h)
        /\ \A ch \in Which : Opened(h, ch) <=> /\ task.eoi # "automatic"
                                               /\ (ch = c /\ real) \/ (ch = "master" /\ c = "slave")
    <3>1. c \in Which /\ level \in Level /\ real \in BOOLEAN
      BY <2>1 DEF Starts
    <3>2. QED BY <1>0, <3>1, NewOpens
  <2>4. h.chip = c /\ h.level = level
    OBVIOUS
  <2> HIDE DEF h
  <2>5. \A n \in DOMAIN handlers' : n = 1 \/ (n - 1 \in DOMAIN handlers /\ n - 1 \in Nat /\ handlers'[n] = handlers[n - 1])
    <3>1. \A n \in 1 .. Len(handlers) + 1 : n = 1 \/ (n - 1 \in 1 .. Len(handlers) /\ n - 1 \in Nat /\ (n - 1) + 1 = n)
      BY <1>3
    <3>2. DOMAIN handlers' = 1 .. Len(handlers) + 1
      BY <2>2
    <3>3. QED BY <1>3, <2>2, <3>1, <3>2
  <2>6. \A n \in DOMAIN handlers' : handlers'[n].ends \in Owed(handlers'[n])
    BY <1>2, <2>2, <2>3, <2>5
  <2>7. ASSUME NEW chip \in Which, NEW j \in DOMAIN handlers, Opened(h, chip), Opened(handlers[j], chip)
        PROVE  Serves(h, chip) < Serves(handlers[j], chip)
    <3> DEFINE v == Serves(h, chip)
               m == Serves(handlers[j], chip)
               p == pic[chip]
    <3>1. m \in p.isr
      BY <2>7, ServiceIs DEF Inv
    <3>2. v = p.vector % 8 /\ Answers(p) /\ ~p.spurious
      BY <2>1, <2>3, <2>4, <2>7 DEF Starts, Serves, Which
    <3>3. Rank(p, v) < Rank(p, m)
      BY <3>1, <3>2 DEF Answers
    <3>4. task.eoi # "rotating"
      <4>1. handlers # <<>>
        BY <2>7
      <4>2. task.nested
        BY <1>7, <4>1, <2>7, DoneServes
      <4>3. QED BY <1>0, <4>2, TaskIs DEF Orderly
    <3>5. p \in Chip /\ p.lowest = 7 /\ m \in Level
      BY <1>0, <3>1, <3>4 DEF Types, Chip, Inv, ProgramKept, ProgrammedTo
    <3>6. v \in Level
      BY <2>2 DEF Serves, Handler, Level
    <3>7. Rank(p, v) = v /\ Rank(p, m) = m
      BY <3>5, <3>6, RankIs DEF Level
    <3>8. QED BY <3>3, <3>7
  <2>8. ASSUME NEW chip \in Which, NEW i \in DOMAIN handlers', NEW j \in DOMAIN handlers',
               i < j, Opened(handlers'[i], chip), Opened(handlers'[j], chip)
        PROVE  Serves(handlers'[i], chip) < Serves(handlers'[j], chip)
    <3>0. i \in Nat /\ j \in Nat /\ i >= 1
      BY <2>2, <2>8
    <3>1. j # 1 /\ j - 1 \in DOMAIN handlers /\ handlers'[j] = handlers[j - 1]
      BY <2>5, <2>8, <3>0
    <3>2. CASE i = 1
      BY <2>2, <2>7, <2>8, <3>1, <3>2
    <3>3. CASE i # 1
      <4>1. i - 1 \in DOMAIN handlers /\ handlers'[i] = handlers[i - 1] /\ i - 1 < j - 1
        BY <2>5, <2>8, <3>0, <3>3
      <4>2. QED BY <1>2, <2>8, <3>1, <4>1
    <3>4. QED BY <3>2, <3>3
  <2>9. QED BY <2>6, <2>8
<1>8. QED BY <1>4, <1>5, <1>6, <1>7, HandlersStep

-----------------------------------------------------------------------------
(* The steps keep the invariant: each time a line is taken it has risen *)

LEMMA CountedKept ==
    ASSUME Inv, Next, Stage >= 2
    PROVE  Counted'
<1>1. SUFFICES ASSUME NEW l \in Lines
               PROVE  taken'[l] + One(Held(pic'[ChipOf(l)], LevelOf(l))) + One(Rising(l)') <= edges'[l]
  BY LinesOfStep DEF Counted, Inv, Held, Latched, One
<1> DEFINE chip == ChipOf(l)
           v == LevelOf(l)
           c == pic[chip]
           c2 == pic'[chip]
           done == Acked(chip)
<1>2. Types /\ LinesKept /\ chip \in Which /\ v \in Level /\ (v \in Input(chip) <=> l \in lines)
  BY LinesOfStep, LinesAre DEF Inv
<1>3. /\ c \in Chip /\ c2 \in Chip /\ ~c.level_mode
      /\ Input(chip) \in SUBSET Level /\ done \in BOOLEAN
      /\ Requests(c, c2, Input(chip), done)
  BY <1>2, KindsMean
<1>4. taken[l] \in Nat /\ edges[l] \in Nat /\ edges'[l] \in Nat /\ l \in DOMAIN taken
      /\ taken \in [Lines -> Nat]
  BY <1>2 DEF Types, LinesKept
<1>5. taken[l] + One(Held(c, v)) + One(Rising(l)) <= edges[l]
  BY DEF Inv, Counted
<1>6. One(Held(c, v)) \in {0, 1} /\ One(Rising(l)) \in {0, 1} /\ One(Held(c2, v)) \in {0, 1}
      /\ One(Rising(l)') \in {0, 1}
  BY DEF One
<1>7. Rising(l) <=> v \in Input(chip) /\ v \notin c.last
  BY <1>2 DEF Rising
<1>8. Rising(l)' <=> l \in lines' /\ v \notin c2.last
  BY DEF Rising, ChipOf, LevelOf
<1> HIDE DEF chip, v, c, c2, done
\* The line rises: its rise is counted.
<1>9. edges[l] + One(Rising(l)') <= edges'[l]
  <2>1. CASE Rising(l)'
    <3>1. l \in lines' /\ l \notin lines
      <4>1. c2.last = Input(chip)
        BY <1>3, RequestsMean
      <4>2. QED BY <1>2, <1>8, <2>1, <4>1
    <3>2. edges'[l] = edges[l] + 1
      BY <1>2, <3>1 DEF LinesKept
    <3>3. QED BY <1>4, <2>1, <3>2 DEF One
  <2>2. CASE ~Rising(l)'
    <3>1. edges'[l] >= edges[l]
      BY <1>2 DEF LinesKept
    <3>2. One(Rising(l)') = 0
      BY <2>2 DEF One
    <3>3. QED BY <1>4, <3>1, <3>2
  <2>3. QED BY <2>1, <2>2
\* A request held was held before, or was rising.
<1>10. Held(c2, v) => Held(c, v) \/ Rising(l)
  <2>1. ASSUME v \in c2.irr PROVE v \in c.irr \/ Rising(l)
    <3>1. v \in Input(chip) /\ (v \in c.irr \/ v \notin c.last)
      BY <1>3, <2>1, RequestsMean
    <3>2. QED BY <1>7, <3>1
  <2>2. ASSUME Latched(c2), c2.vector % 8 = v PROVE v \in c.irr
    <3>1. IrqValue(c) \in c.irr
      BY <1>3, <2>2, RequestsMean
    <3>2. c2.do
      BY <2>2 DEF Latched
    <3>3. c2.vector % 8 = IrqValue(c)
      BY <1>3, <3>2, RequestsMean
    <3>4. QED BY <2>2, <3>1, <3>3
  <2>3. QED BY <2>1, <2>2 DEF Held
<1>11. taken'[l] + One(Held(c2, v)) <= edges[l]
  <2>1. CASE taken'[l] = taken[l]
    <3>1. One(Held(c2, v)) <= One(Held(c, v)) + One(Rising(l))
      BY <1>10 DEF One
    <3>2. QED BY <1>4, <1>5, <1>6, <2>1, <3>1
  <2>2. CASE Done
    <3>1. PICK k, level, real : Starts(k, level, real)
      BY <2>2, DoneIs
    <3>2. taken'[l] = taken[l] + (IF real /\ l = LineOf(k, level) THEN 1 ELSE 0)
      BY <1>4, <3>1 DEF Starts
    <3>3. CASE ~(real /\ l = LineOf(k, level))
      <4>1. taken'[l] = taken[l]
        BY <1>4, <3>2, <3>3
      <4>2. QED BY <2>1, <4>1
    <3>4. CASE real /\ l = LineOf(k, level)
      <4>1. k = chip /\ level = v
        BY <3>1, <3>4 DEF Starts, LineOf, Level, Which, ChipOf, LevelOf, chip, v
      <4>2. done = TRUE /\ c.do /\ ~c.spurious /\ c.vector % 8 = v
        BY <1>3, <3>1, <3>4, <4>1 DEF Starts, done, c
      <4>3. Held(c, v)
        BY <4>2 DEF Held, Latched
      <4>4. v \in Taken(c, done)
        BY <4>2 DEF Taken
      <4>5. Held(c2, v) => Rising(l)
        <5>1. ~Latched(c2)
          BY <1>3, <4>2, RequestsMean
        <5>2. ASSUME v \in c2.irr PROVE Rising(l)
          <6>1. v \in Input(chip) /\ v \notin c.last
            BY <1>3, <4>4, <5>2, RequestsMean
          <6>2. QED BY <1>7, <6>1
        <5>3. QED BY <5>1, <5>2 DEF Held
      <4>6. taken'[l] = taken[l] + 1
        BY <3>2, <3>4
      <4>7. One(Held(c, v)) = 1 /\ One(Held(c2, v)) <= One(Rising(l))
        BY <4>3, <4>5 DEF One
      <4>8. QED BY <1>4, <1>5, <1>6, <4>6, <4>7
    <3>5. QED BY <3>3, <3>4
  <2>3. taken' = taken \/ Done
    BY HandlersStep
  <2>4. QED BY <2>1, <2>2, <2>3
<1>12. taken'[l] \in Int
  <2>1. CASE taken' = taken
    BY <1>4, <2>1
  <2>2. CASE Done
    <3>1. PICK k, level, real : Starts(k, level, real)
      BY <2>2, DoneIs
    <3>2. taken'[l] = taken[l] + (IF real /\ l = LineOf(k, level) THEN 1 ELSE 0)
      BY <1>4, <3>1 DEF Starts
    <3>3. QED BY <1>4, <3>2
  <2>3. QED BY <2>1, <2>2, HandlersStep
<1>13. QED BY <1>4, <1>6, <1>9, <1>11, <1>12 DEF c2, chip, v

LEMMA SteadyKept ==
    ASSUME Inv, Next, Stage >= 2
    PROVE  Steady'
<1>1. task' = task /\ Lines' = Lines /\ LinesKept /\ Types
  BY LinesOfStep DEF Inv
<1>2. ASSUME NEW chip \in Which, NEW v \in pic'[chip].irr
      PROVE  LineOf(chip, v) \in Lines \cup {2}
  <2> DEFINE c == pic[chip]
             c2 == pic'[chip]
  <2>0. /\ c \in Chip /\ c2 \in Chip /\ ~c.level_mode
        /\ Input(chip) \in SUBSET Level /\ Acked(chip) \in BOOLEAN
        /\ Requests(c, c2, Input(chip), Acked(chip)) /\ v \in c2.irr
    BY <1>2, KindsMean
  <2>1. v \in Input(chip)
    <3> HIDE DEF c, c2
    <3>1. QED BY <2>0, RequestsMean
  <2>2. CASE chip = "master"
    BY <1>1, <2>1, <2>2 DEF Input, MasterLines, LineOf, Types
  <2>3. CASE chip = "slave"
    BY <1>1, <2>1, <2>3 DEF Input, SlaveLines, LineOf, Types
  <2>4. QED BY <2>2, <2>3 DEF Which
<1>3. ASSUME NEW l \in task.steady, LevelOf(l) \in pic'[ChipOf(l)].irr
      PROVE  l \in lines'
  <2> DEFINE chip == ChipOf(l)
             v == LevelOf(l)
             c == pic[chip]
  <2>1. l \in Lines
    BY <1>1, TaskIs DEF IsTask, Lines
  <2>2. chip \in Which /\ v \in Level /\ (v \in Input(chip) <=> l \in lines)
    BY <1>1, <2>1, LinesAre
  <2> DEFINE c2 == pic'[chip]
  <2>0. /\ c \in Chip /\ c2 \in Chip /\ ~c.level_mode
        /\ Input(chip) \in SUBSET Level /\ Acked(chip) \in BOOLEAN
        /\ Requests(c, c2, Input(chip), Acked(chip)) /\ v \in c2.irr
    BY <1>3, <2>2, KindsMean
  <2>3. v \in Input(chip) /\ (v \in c.irr \/ v \notin c.last)
    <3> HIDE DEF c, c2, v, chip
    <3>1. QED BY <2>0, RequestsMean
  <2>4. Held(c, v) \/ Rising(l)
    BY <2>2, <2>3 DEF Held, Rising
  <2>5. taken[l] # edges[l]
    <3>1. taken[l] + One(Held(c, v)) + One(Rising(l)) <= edges[l]
      BY <2>1 DEF Inv, Counted
    <3>2. taken[l] \in Nat /\ edges[l] \in Nat
      BY <1>1, <2>1 DEF Types
    <3>3. One(Held(c, v)) \in {0, 1} /\ One(Rising(l)) \in {0, 1} /\ (One(Held(c, v)) = 1 \/ One(Rising(l)) = 1)
      BY <2>4 DEF One
    <3>4. QED BY <3>1, <3>2, <3>3
  <2>6. ~MayFall(l)
    BY <1>3, <2>5 DEF MayFall
  <2>7. QED BY <1>1, <2>1, <2>2, <2>3, <2>6 DEF LinesKept
<1>4. \A l : ChipOf(l)' = ChipOf(l) /\ LevelOf(l)' = LevelOf(l)
  BY DEF ChipOf, LevelOf
<1>5. QED BY <1>1, <1>2, <1>3, <1>4 DEF Steady

-----------------------------------------------------------------------------
(* The steps keep the invariant: turns *)

\* A rotation leaves the order of what ranked after the new lowest.
LEMMA Rotated ==
    ASSUME NEW c \in Chip, NEW c2 \in Chip, NEW e \in Level, c2.lowest = e,
           NEW x \in Level, NEW y \in Level, x # y,
           y = e \/ (Rank(c, e) < Rank(c, x) /\ Rank(c, x) < Rank(c, y))
    PROVE  Rank(c2, x) < Rank(c2, y)
<1> DEFINE w == c.lowest
<1>1. w \in 0 .. 7 /\ e \in 0 .. 7 /\ x \in 0 .. 7 /\ y \in 0 .. 7
  BY DEF Chip, Level
<1>2. /\ Rank(c, e) = IF e > w THEN e - w - 1 ELSE e + 7 - w
      /\ Rank(c, x) = IF x > w THEN x - w - 1 ELSE x + 7 - w
      /\ Rank(c, y) = IF y > w THEN y - w - 1 ELSE y + 7 - w
  BY <1>1, RankIs
<1>3. /\ Rank(c2, x) = IF x > e THEN x - e - 1 ELSE x + 7 - e
      /\ Rank(c2, y) = IF y > e THEN y - e - 1 ELSE y + 7 - e
  BY <1>1, RankIs
<1> HIDE DEF w
<1>4. /\ Rank(c, e) = IF e > w THEN e - w - 1 ELSE e + 7 - w
      /\ Rank(c, x) = IF x > w THEN x - w - 1 ELSE x + 7 - w
      /\ Rank(c, y) = IF y > w THEN y - w - 1 ELSE y + 7 - w
      /\ Rank(c2, x) = IF x > e THEN x - e - 1 ELSE x + 7 - e
      /\ Rank(c2, y) = IF y > e THEN y - e - 1 ELSE y + 7 - e
  BY <1>2, <1>3
<1>5. CASE y = e
  BY <1>1, <1>4, <1>5
<1>6. CASE Rank(c, e) < Rank(c, x) /\ Rank(c, x) < Rank(c, y)
  BY <1>1, <1>4, <1>6
<1>7. QED BY <1>5, <1>6

LEMMA RotatingIs ==
    ASSUME Types, task.eoi = "rotating"
    PROVE  Undisturbed(task) /\ ~task.nested /\ task.masks = {} /\ task.eoi # "automatic"
  BY TaskIs DEF Orderly, Undisturbed

LEMMA RivalIs ==
    ASSUME Types, NEW l \in Lines, NEW m \in Line, Rivals(l, m)
    PROVE  Rival(l, m) \in Level /\ Rival(l, m) # LevelOf(l)
<1>1. l \in Line /\ l # 2
  BY LinesAre
<1>2. QED BY <1>1 DEF Rival, Rivals, LevelOf, Level, Line

\* What is taken when a line waits: not that line, and if it waits for a rival
\* already the rival waits after it.
LEMMA TakenRival ==
    ASSUME Inv, Done, NEW k, NEW level, NEW real, Starts(k, level, real),
           NEW l \in Lines, l # LineOf(k, level)
    PROVE  LET c == pic[ChipOf(l)]
           IN  /\ Acked(ChipOf(l)) => c.vector % 8 # LevelOf(l) /\ Answers(c) /\ (l \in Level \/ SlaveSelect)
               /\ Rivals(l, LineOf(k, level)) => Acked(ChipOf(l)) /\ Rival(l, LineOf(k, level)) = c.vector % 8
<1>1. Types /\ cpu = "done"
  BY DEF Inv, Done
<1>2. /\ l \in Line /\ l # 2 /\ LevelOf(l) \in Level /\ "master" \in Which /\ "slave" \in Which
      /\ l \in Level => ChipOf(l) = "master" /\ LevelOf(l) = l
      /\ l \notin Level => ChipOf(l) = "slave" /\ l = LevelOf(l) + 8
  BY <1>1, LinesAre DEF Which
<1>3. /\ k \in Which /\ level \in Level /\ (k = "slave" <=> SlaveSelect) /\ Acked(k)
      /\ pic[k].vector % 8 = level /\ Answers(pic[k]) /\ Answers(pic["master"])
      /\ k = "slave" => pic["master"].vector % 8 = 2
  BY DEF Starts
<1>4. CASE k = "master"
  <2>1. LineOf(k, level) = level
    BY <1>4 DEF LineOf
  <2>2. CASE l \in Level
    BY <1>1, <1>2, <1>3, <1>4, <2>1, <2>2 DEF Rival, LevelOf
  <2>3. CASE l \notin Level
    BY <1>1, <1>2, <1>3, <1>4, <2>1, <2>3 DEF Rivals, Acked
  <2>4. QED BY <2>2, <2>3
<1>5. CASE k = "slave"
  <2>1. LineOf(k, level) = level + 8 /\ level + 8 \notin Level /\ (level + 8) - 8 = level
    BY <1>3, <1>5 DEF LineOf, Level
  <2>2. LevelOf(level + 8) = level
    BY <2>1 DEF LevelOf
  <2>3. CASE l \in Level
    <3>1. Acked("master") /\ ChipOf(l) = "master" /\ LevelOf(l) = l /\ Answers(pic["master"])
          /\ pic["master"].vector % 8 = 2
      BY <1>1, <1>2, <1>3, <1>5, <2>3 DEF Acked
    <3>2. Rival(l, LineOf(k, level)) = 2
      BY <2>1, <2>3 DEF Rival
    <3>3. QED BY <1>2, <2>3, <3>1, <3>2
  <2>4. CASE l \notin Level
    <3>1. ChipOf(l) = "slave" /\ l = LevelOf(l) + 8 /\ Answers(pic["slave"]) /\ SlaveSelect
          /\ pic["slave"].vector % 8 = level /\ Acked("slave")
      BY <1>2, <1>3, <1>5, <2>4
    <3>2. Rival(l, LineOf(k, level)) = level
      BY <2>1, <2>2, <2>4 DEF Rival
    <3>3. LevelOf(l) # level
      BY <2>1, <3>1
    <3>4. QED BY <2>4, <3>1, <3>2, <3>3
  <2>5. QED BY <2>3, <2>4
<1>6. QED BY <1>3, <1>4, <1>5 DEF Which

LEMMA SameRank ==
    ASSUME NEW c, NEW c2, c2.lowest = c.lowest, NEW l
    PROVE  Rank(c2, l) = Rank(c, l)
  BY DEF Rank

LEMMA TurnsKept ==
    ASSUME Inv, Next, Stage >= 2
    PROVE  Turns'
<1>0. Types /\ Phases /\ Turns /\ TurnTaken /\ HandlersNest /\ ServiceExact
  BY DEF Inv
<1>1. LinesKept /\ task' = task /\ Lines' = Lines
  BY <1>0, LinesOfStep
<1>2. SUFFICES ASSUME task.eoi = "rotating", NEW l \in Lines, NEW m \in passed'[l], Rivals(l, m)
               PROVE  InLine(pic'[ChipOf(l)], LevelOf(l), Rival(l, m))
  BY <1>1 DEF Turns
<1>3. Undisturbed(task) /\ ~task.nested /\ task.masks = {} /\ task.eoi # "automatic"
  BY <1>0, <1>2, RotatingIs
<1> DEFINE chip == ChipOf(l)
           lv == LevelOf(l)
           x == Rival(l, m)
           c == pic[chip]
           c2 == pic'[chip]
           ls == Input(chip)
           done == Acked(chip)
<1>4. chip \in Which /\ lv \in Level
  BY <1>0, LinesAre
<1> HIDE DEF chip
<1>5. /\ c \in Chip /\ c2 \in Chip /\ ~c.level_mode /\ ls \in SUBSET Level /\ done \in BOOLEAN
      /\ Requests(c, c2, ls, done)
      /\ setup # <<>> \/ task.masks # {} \/ c2.imr = c.imr
  BY <1>4, KindsMean
<1>6. lv \in c.irr => lv \in ls
  BY <1>0, <1>3, <1>4, UndisturbedStays
<1> HIDE DEF c, c2, ls, done
<1>7. lv \in c.irr /\ lv \notin Taken(c, done) => lv \in c2.irr
  BY <1>5, <1>6, RequestsMean
<1>8. CASE ~Done
  <2>1. cpu # "done" /\ passed' = passed
    BY <1>8, HandlersStep
  <2>2. m \in passed[l] /\ m \in Line /\ setup = <<>>
    BY <1>0, <1>2, <2>1 DEF Phases, Types
  <2>3. x \in Level /\ x # lv /\ InLine(c, lv, x)
    BY <1>0, <1>2, <2>2, RivalIs DEF Turns, c, chip
  <2>4. Taken(c, done) = {}
    BY <2>1 DEF Taken, done, Acked
  <2> HIDE DEF x, lv
  <2>5. lv \in c2.irr \ c2.imr
    BY <1>3, <1>5, <1>7, <2>2, <2>3, <2>4 DEF InLine
  <2>6. CASE c2.isr = c.isr /\ c2.lowest = c.lowest
    BY <2>3, <2>5, <2>6, SameRank DEF InLine, x, lv, c2, chip
  <2>7. CASE EndInterrupt /\ chip = Head(Head(handlers).ends).chip
    <3> DEFINE e == Serves(Head(handlers), chip)
    <3>1. c2.isr = c.isr \ {e} /\ c2.lowest = e /\ c.isr = {e}
      BY <1>2, <1>4, <2>7, EndServed, EndingIs DEF c, c2
    <3> HIDE DEF e
    <3>2. e \in Level /\ c2.isr = {}
      BY <1>5, <3>1 DEF Chip
    <3>3. x = e \/ (Rank(c, e) < Rank(c, lv) /\ Rank(c, lv) < Rank(c, x))
      BY <2>3, <3>1 DEF InLine
    <3>4. lv \in Level
      BY <1>4 DEF lv
    <3>5. Rank(c2, lv) < Rank(c2, x)
      BY <1>5, <2>3, <3>1, <3>2, <3>3, <3>4, Rotated
    <3>6. QED BY <2>5, <3>2, <3>5 DEF InLine, x, lv, c2, chip
  <2>8. CASE EndInterrupt /\ chip # Head(Head(handlers).ends).chip
    <3>1. c2.isr = c.isr /\ c2.lowest = c.lowest
      BY <1>4, <2>8, EndServed DEF c, c2
    <3>2. QED BY <2>6, <3>1
  <2>9. CASE ~EndInterrupt
    <3>1. c2.isr = c.isr /\ c2.lowest = c.lowest
      BY <1>4, <2>1, <2>9, NothingServed DEF c, c2
    <3>2. QED BY <2>6, <3>1
  <2>10. QED BY <2>7, <2>8, <2>9
<1>9. CASE Done
  <2>1. PICK k, level, real : Starts(k, level, real)
    BY <1>9, DoneIs
  <2>2. /\ setup = <<>> /\ handlers = <<>>
        /\ c2.isr = c.isr \cup (IF done /\ ~c.spurious THEN {c.vector % 8} ELSE {})
        /\ c2.lowest = c.lowest /\ c2.imr = c.imr
    BY <1>3, <1>4, <1>9, DoneServes DEF c, c2, done
  <2>3. c.isr = {}
    BY <1>0, <1>4, <2>2, ServicesQuiet DEF c, Which
  <2>4. /\ l # LineOf(k, level) /\ l \in Waiting
        /\ m \in passed[l] \/ m = LineOf(k, level)
    <3>1. l \in DOMAIN passed
      BY <1>0, <1>2 DEF Types
    <3>2. passed'[l] = IF l # LineOf(k, level) /\ l \in Waiting
                       THEN passed[l] \cup {LineOf(k, level)} ELSE {}
      BY <2>1, <3>1 DEF Starts
    <3>3. QED BY <1>2, <3>2
  <2>5. lv \in c.irr \ c.imr
    BY <2>4 DEF Waiting, lv, c, chip, ChipOf, LevelOf
  <2>6. /\ done => c.vector % 8 # lv /\ Answers(c) /\ (l \in Level \/ SlaveSelect)
        /\ Rivals(l, LineOf(k, level)) => done /\ Rival(l, LineOf(k, level)) = c.vector % 8
    BY <1>9, <2>1, <2>4, TakenRival DEF done, c, chip, lv
  <2>7. lv \in c2.irr \ c2.imr
    BY <1>7, <2>2, <2>5, <2>6 DEF Taken
  <2>8. c2.isr = {} /\ Rank(c, lv) < Rank(c, x) => InLine(c2, lv, x)
    BY <2>2, <2>7, SameRank DEF InLine
  <2>9. CASE m = LineOf(k, level)
    <3>1. done /\ x = c.vector % 8 /\ x # lv /\ Answers(c)
      BY <1>2, <2>6, <2>9
    <3>2. CASE ~c.spurious
      <4>1. c2.isr = {x}
        BY <2>2, <2>3, <3>1, <3>2
      <4>2. InLine(c2, lv, x)
        BY <2>7, <4>1 DEF InLine
      <4>3. QED BY <4>2 DEF c2, chip
    <3>3. CASE c.spurious
      <4>1. c2.isr = {} /\ c.lowest = 7 /\ x = 7
        BY <2>2, <2>3, <3>1, <3>3 DEF Answers, Fresh
      <4>2. lv \in 0 .. 7 /\ 7 \in Level /\ lv # 7
        BY <1>4, <3>1, <4>1 DEF Level
      <4>3. Rank(c, 7) = 7 /\ Rank(c, lv) = lv
        <5> HIDE DEF lv
        <5>1. QED BY <1>4, <1>5, <4>1, <4>2, RankIs DEF lv
      <4>4. Rank(c, lv) < Rank(c, x)
        BY <4>1, <4>2, <4>3
      <4>5. QED BY <2>8, <4>1, <4>4 DEF c2, chip
    <3>4. QED BY <3>2, <3>3
  <2>10. CASE m \in passed[l]
    <3>1. m \in Line /\ InLine(c, lv, x)
      BY <1>0, <1>2, <2>10 DEF Turns, Types, c, chip
    <3>2. Rank(c, lv) < Rank(c, x)
      BY <2>3, <3>1 DEF InLine
    <3>3. CASE ~done \/ c.spurious
      BY <2>2, <2>3, <2>8, <3>2, <3>3 DEF c2, chip
    <3>4. CASE done /\ ~c.spurious
      <4> DEFINE v == c.vector % 8
      <4>1. c2.isr = {v}
        BY <2>2, <2>3, <3>4
      <4>2. v \in Level
        <5>1. c.vector \in 0 .. 255
          BY <1>5 DEF Chip, ByteValue
        <5>2. QED BY <5>1 DEF Level
      <4>3. cpu = "done"
        BY <1>9 DEF Done
      <4>4. NextIs(c, lv)
        BY <1>0, <1>2, <2>6, <2>10, <3>4, <4>3 DEF TurnTaken, c, chip, lv
      <4>5. Rank(c, v) <= Rank(c, lv) /\ v # lv
        BY <2>6, <3>4, <4>4 DEF NextIs
      <4> HIDE DEF v, lv, x
      <4>6. Rank(c, v) # Rank(c, lv) /\ Rank(c, v) \in Level /\ Rank(c, lv) \in Level
        BY <1>4, <1>5, <4>2, <4>5, RanksDiffer, RankIs DEF lv
      <4>7. Rank(c, v) < Rank(c, lv)
        BY <4>5, <4>6 DEF Level
      <4>8. InLine(c2, lv, x)
        <5>1. Rank(c2, v) = Rank(c, v) /\ Rank(c2, lv) = Rank(c, lv) /\ Rank(c2, x) = Rank(c, x)
          BY <2>2, SameRank
        <5>2. v \in c2.isr /\ \A y \in c2.isr : y = v
          BY <4>1
        <5>3. Rank(c2, v) < Rank(c2, lv) /\ Rank(c2, lv) < Rank(c2, x)
          BY <3>2, <4>7, <5>1
        <5>4. QED BY <2>7, <5>2, <5>3 DEF InLine
      <4>9. QED BY <4>8 DEF c2, chip, lv, x
    <3>5. QED BY <3>3, <3>4
  <2>11. QED BY <2>4, <2>9, <2>10
<1>10. QED BY <1>8, <1>9

\* The processor is about to take a vector only from between instructions.
LEMMA AboutToTake ==
    ASSUME Types, Next, cpu' = "done"
    PROVE  Idle /\ cpu = "possible" /\ passed' = passed
<1>1. Idle => cpu = "possible" /\ passed' = passed
  BY DEF Idle
<1>2. ~SetUp /\ ~Mask /\ ~Accept /\ ~Done /\ ~EndInterrupt /\ ~EnableInHandler /\ ~Return
  <2>1. ~SetUp
    BY DEF SetUp, Out
  <2>2. ~Mask
    BY DEF Mask, Out
  <2>3. ~Accept
    BY DEF Accept
  <2>4. ~Done
    BY DEF Done
  <2>5. ~EndInterrupt
    BY DEF EndInterrupt, Out
  <2>6. ~EnableInHandler
    BY DEF EnableInHandler
  <2>7. ~Return
    BY DEF Return
  <2>8. QED BY <2>1, <2>2, <2>3, <2>4, <2>5, <2>6, <2>7
<1>3. QED BY <1>1, <1>2 DEF Next

LEMMA TurnTakenKept ==
    ASSUME Inv, Next, Stage >= 2
    PROVE  TurnTaken'
<1>0. Types /\ Phases /\ Turns /\ HandlersNest /\ ServiceExact
  BY DEF Inv
<1>1. task' = task /\ Lines' = Lines
  BY <1>0, LinesOfStep
<1>2. SUFFICES ASSUME task.eoi = "rotating", cpu' = "done", NEW l \in Lines,
                      NEW m \in passed'[l], Rivals(l, m)
               PROVE  NextIs(pic'[ChipOf(l)], LevelOf(l))
  BY <1>1 DEF TurnTaken
<1>3. cpu = "possible" /\ passed' = passed
  BY <1>0, <1>2, AboutToTake
<1>4. handlers = <<>> /\ m \in passed[l]
  BY <1>0, <1>2, <1>3, RotatingIs DEF Phases
<1> DEFINE chip == ChipOf(l)
           lv == LevelOf(l)
           c == pic[chip]
           c2 == pic'[chip]
           ls == Input(chip)
           done == Acked(chip)
<1>5. chip \in Which /\ lv \in Level
  BY <1>0, LinesAre
<1>6. InLine(c, lv, Rival(l, m))
  BY <1>0, <1>2, <1>4 DEF Turns
<1>7. c.isr = {}
  BY <1>0, <1>4, <1>5, ServicesQuiet DEF Which
<1> HIDE DEF chip
<1>8. /\ c \in Chip /\ c2 \in Chip /\ ~c.level_mode /\ ls \in SUBSET Level /\ done \in BOOLEAN
      /\ Requests(c, c2, ls, done) /\ c2.lowest = c.lowest
  BY <1>5, <1>7, KindsMean
<1>9. done = FALSE
  BY <1>3 DEF Acked
<1> HIDE DEF c, c2, ls, done
<1>10. lv \in Prepared(c)
  BY <1>6, <1>7 DEF InLine, Prepared
<1>11. Irq(c)
  BY <1>7, <1>8, <1>10, IrqIf
<1>12. ~c2.spurious /\ c2.vector % 8 = IrqValue(c)
  BY <1>8, <1>9, <1>11, RequestsMean
<1>13. Rank(c, IrqValue(c)) <= Rank(c, lv)
  BY <1>8, <1>10, <1>11, IrqMeans
<1>14. NextIs(c2, lv)
  BY <1>8, <1>12, <1>13, SameRank DEF NextIs
<1>15. QED BY <1>14 DEF c2, chip

-----------------------------------------------------------------------------
(* The steps keep the invariant: the program, and the types *)

\* The setup writes to the controllers in turn.
LEMMA Halves ==
    \A k \in 0 .. 9 :
        /\ (k + 1) % 2 = 1 => /\ (k + 2) \div 2 = (k + 1) \div 2 + 1 /\ (k + 1) \div 2 = k \div 2
                              /\ (k + 1) \div 2 \in 0 .. 4 /\ 2 * ((k + 1) \div 2 + 1) - 1 = k + 1
                              /\ ((k + 1) \div 2 = 0 <=> k < 2)
        /\ (k + 1) % 2 # 1 => /\ (k + 2) \div 2 = (k + 1) \div 2 /\ (k + 1) \div 2 = k \div 2 + 1
                              /\ k \div 2 \in 0 .. 4 /\ 2 * (k \div 2 + 1) = k + 1
                              /\ (k \div 2 = 0 <=> k < 2)
  OBVIOUS

LEMMA WordsNext ==
    ASSUME Types, SetupLeft, setup # <<>>, NEW chip \in Which, NEW w, w = Head(setup)
    PROVE  /\ w \in Write /\ w.a = IF Stage < 2 THEN 0 ELSE 1
           /\ Stage' = Stage + 1 => Words(chip)' = IF w.chip = chip THEN Words(chip) + 1 ELSE Words(chip)
           /\ w.chip = chip => /\ Words(chip) \in 0 .. 4 /\ (Words(chip) = 0 <=> Stage < 2)
                               /\ w.d = Word(chip, Words(chip) + 1)
<1> DEFINE k == Stage
<1>1. k \in 0 .. 9 /\ w = task.setup[k + 1]
  BY Staged
<1>2. k + 1 \in 1 .. 10 /\ (k + 1 <= 2 <=> k < 2)
  BY <1>1
<1>3. /\ w \in Write /\ w.chip = IF (k + 1) % 2 = 1 THEN "master" ELSE "slave"
      /\ w.a = IF k + 1 <= 2 THEN 0 ELSE 1
  BY <1>1, <1>2, WordsAre
<1>4. Words(chip) = IF chip = "master" THEN (k + 1) \div 2 ELSE k \div 2
  BY DEF Words
<1>5. Stage' = Stage + 1 => Words(chip)' = IF chip = "master" THEN (k + 2) \div 2 ELSE (k + 1) \div 2
  <2>1. SUFFICES ASSUME Stage' = Stage + 1
                 PROVE  Words(chip)' = IF chip = "master" THEN (k + 2) \div 2 ELSE (k + 1) \div 2
    OBVIOUS
  <2>2. Words(chip)' = IF chip = "master" THEN (Stage' + 1) \div 2 ELSE Stage' \div 2
    BY DEF Words
  <2>3. Stage' + 1 = k + 2 /\ Stage' = k + 1
    BY <1>1, <2>1
  <2>4. QED BY <2>2, <2>3
<1>6. \A n : Word(chip, n) = task.setup[IF chip = "master" THEN 2 * n - 1 ELSE 2 * n].d
  BY DEF Word
<1> HIDE DEF k
<1>7. CASE (k + 1) % 2 = 1
  <2>1. /\ (k + 2) \div 2 = (k + 1) \div 2 + 1 /\ (k + 1) \div 2 = k \div 2
        /\ (k + 1) \div 2 \in 0 .. 4 /\ 2 * ((k + 1) \div 2 + 1) - 1 = k + 1
        /\ ((k + 1) \div 2 = 0 <=> k < 2)
    BY <1>1, <1>7, Halves
  <2>2. w.chip = "master"
    BY <1>3, <1>7
  <2>3. CASE chip = "master"
    BY <1>1, <1>2, <1>3, <1>4, <1>5, <1>6, <2>1, <2>2, <2>3 DEF k
  <2>4. CASE chip = "slave"
    BY <1>2, <1>3, <1>4, <1>5, <2>1, <2>2, <2>4 DEF k
  <2>5. QED BY <2>3, <2>4 DEF Which
<1>8. CASE (k + 1) % 2 # 1
  <2>1. /\ (k + 2) \div 2 = (k + 1) \div 2 /\ (k + 1) \div 2 = k \div 2 + 1
        /\ k \div 2 \in 0 .. 4 /\ 2 * (k \div 2 + 1) = k + 1
        /\ (k \div 2 = 0 <=> k < 2)
    BY <1>1, <1>8, Halves
  <2>2. w.chip = "slave"
    BY <1>3, <1>8
  <2>3. CASE chip = "slave"
    BY <1>1, <1>2, <1>3, <1>4, <1>5, <1>6, <2>1, <2>2, <2>3 DEF k
  <2>4. CASE chip = "master"
    BY <1>2, <1>3, <1>4, <1>5, <2>1, <2>2, <2>4 DEF k
  <2>5. QED BY <2>3, <2>4 DEF Which
<1>9. QED BY <1>7, <1>8

LEMMA SlaveBits == Bits(4) = {2}
<1>1. 4 \in ByteValue
  BY DEF ByteValue
<1>2. ~Bit(4, 0) /\ ~Bit(4, 1) /\ Bit(4, 2) /\ ~Bit(4, 3) /\ ~Bit(4, 4) /\ ~Bit(4, 5) /\ ~Bit(4, 6) /\ ~Bit(4, 7)
  BY <1>1, BitIs
<1>3. ASSUME NEW l \in Level, Bit(4, l) PROVE l = 2
  <2>1. l = 0 \/ l = 1 \/ l = 2 \/ l = 3 \/ l = 4 \/ l = 5 \/ l = 6 \/ l = 7
    BY DEF Level
  <2>2. QED BY <1>2, <1>3, <2>1
<1>4. 2 \in Level
  BY DEF Level
<1>5. QED BY <1>2, <1>3, <1>4, Zenon DEF Bits

\* The first does what ICW1 does.
LEMMA Starting ==
    ASSUME NEW c \in Chip, NEW w \in Strobes, NEW ls \in SUBSET Level, NEW done \in BOOLEAN,
           Icw1(w), ~Bit(w.d, 3), Bit(w.d, 0)
    PROVE  LET q == Clock(c, w, ls, done)
           IN  /\ q \in Chip /\ Untouched(q) /\ q.lowest = 7 /\ q.expect = 2
               /\ ~q.level_mode /\ ~q.auto_eoi /\ ~q.rotate /\ q.in_init /\ q.need4
<1> DEFINE q == Clock(c, w, ls, done)
<1>1. q.lowest = 7 /\ q.expect = 2
  BY RestartIs
<1>2. q \in Chip /\ q.irr = {} /\ q.isr = {}
  BY RestartIs
<1>3. ~q.do /\ ~q.spurious /\ ~q.auto_eoi /\ ~q.rotate /\ q.in_init
  BY RestartIs
<1>4. ~q.level_mode /\ q.need4
  BY RestartIs
<1> HIDE DEF q
<1>5. Untouched(q)
  BY <1>2, <1>3 DEF Untouched
<1>6. QED BY <1>1, <1>2, <1>3, <1>4, <1>5 DEF q

\* A controller that has had n words, before anything is ended.
SetTo(chip, c, n) ==
    /\ c.lowest = 7 /\ ~c.level_mode /\ ~c.rotate
    /\ c.in_init <=> n \in 1 .. 3
    /\ n \in 1 .. 3 => c.expect = n + 1 /\ c.need4
    /\ n >= 2 => c.offset = High(Word(chip, 2))
    /\ chip = "master" /\ n >= 3 => c.slaves = {2}
    /\ c.auto_eoi <=> n >= 4 /\ task.eoi = "automatic"

\* The next word of the setup brings its controller one word further.
LEMMA Programming ==
    ASSUME Types, SetupLeft, setup # <<>>, NEW chip \in Which, Head(setup).chip = chip, NEW c \in Chip,
           ProgrammedTo(chip, c, Words(chip)), NEW ls \in SUBSET Level, NEW done \in BOOLEAN, NEW w,
           w = Head(setup), NEW n, n = Words(chip) + 1
    PROVE  LET c2 == Clock(c, Strobe(w, chip), ls, done)
           IN  c2 \in Chip /\ SetTo(chip, c2, n) /\ (n = 1 => Untouched(c2))
<1> DEFINE s == Strobe(w, chip)
           c2 == Clock(c, Strobe(w, chip), ls, done)
<1>0. SUFFICES /\ c2 \in Chip /\ c2.lowest = 7 /\ ~c2.level_mode /\ ~c2.rotate
               /\ c2.in_init <=> n \in 1 .. 3
               /\ n \in 1 .. 3 => c2.expect = n + 1 /\ c2.need4
               /\ n >= 2 => c2.offset = High(Word(chip, 2))
               /\ chip = "master" /\ n >= 3 => c2.slaves = {2}
               /\ c2.auto_eoi <=> n >= 4 /\ task.eoi = "automatic"
               /\ n = 1 => Untouched(c2)
  BY DEF SetTo
<1>1. w \in Write /\ w.chip = chip /\ w.a = (IF Stage < 2 THEN 0 ELSE 1) /\ n \in 1 .. 5
      /\ (n = 1 <=> Stage < 2) /\ w.d = Word(chip, n)
  BY WordsNext
<1>2. s \in Strobes /\ s.on /\ s.a = w.a /\ s.d = w.d /\ s.d \in ByteValue
  <2>1. s = [on |-> TRUE, a |-> w.a, d |-> w.d] /\ s \in Strobes
    BY <1>1, StrobeIs
  <2>2. QED BY <1>1, <2>1 DEF Write
<1>3. \A m \in 1 .. 5 : Word(chip, m) = task.setup[IF chip = "master" THEN 2 * m - 1 ELSE 2 * m].d
  BY DEF Word
<1> HIDE DEF s, c2
<1>4. CASE n = 1
  <2>1. PICK m \in {1, 2} : w.d = task.setup[m].d
    <3>1. CASE chip = "master"
      BY <1>1, <1>3, <1>4, <3>1
    <3>2. CASE chip # "master"
      BY <1>1, <1>3, <1>4, <3>2
    <3>3. QED BY <3>1, <3>2
  <2>2. Bit(s.d, 4) /\ ~Bit(s.d, 3) /\ Bit(s.d, 0)
    BY <1>2, <2>1, WordsAre
  <2>3. Icw1(s)
    BY <1>1, <1>2, <1>4, <2>2 DEF Icw1
  <2>4. /\ c2 \in Chip /\ Untouched(c2) /\ c2.lowest = 7 /\ c2.expect = 2
        /\ ~c2.level_mode /\ ~c2.auto_eoi /\ ~c2.rotate /\ c2.in_init /\ c2.need4
    <3> DEFINE q == Clock(c, s, ls, done)
    <3>1. c2 = q
      BY DEF s, c2
    <3>2. /\ q \in Chip /\ Untouched(q) /\ q.lowest = 7 /\ q.expect = 2
          /\ ~q.level_mode /\ ~q.auto_eoi /\ ~q.rotate /\ q.in_init /\ q.need4
      BY <1>2, <2>2, <2>3, Starting
    <3> HIDE DEF q
    <3>3. QED BY <3>1, <3>2
  <2>5. QED BY <1>1, <1>4, <2>4
<1>5. CASE n > 1
  <2> DEFINE p == Programmed(c, s)
  <2>1. /\ ~Icw1(s) /\ ~Ocw2(s) /\ s.a = 1
    BY <1>1, <1>2, <1>5 DEF Icw1, Ocw2
  <2>2. /\ c.in_init <=> n - 1 \in 1 .. 3
        /\ n - 1 \in 1 .. 3 => c.expect = n /\ c.need4
        /\ ~c.level_mode /\ ~c.rotate
        /\ n - 1 >= 2 => c.offset = High(Word(chip, 2))
        /\ chip = "master" /\ n - 1 >= 3 => c.slaves = {2}
        /\ c.auto_eoi <=> n - 1 >= 4 /\ task.eoi = "automatic"
        /\ c.lowest = 7
    <3>1. Words(chip) = n - 1 /\ n - 1 + 1 = n
      <4>1. Words(chip) \in 0 .. 4
        BY WordsNext
      <4>2. QED BY <4>1
    <3>2. QED BY <3>1 DEF ProgrammedTo
  <2>3. c2 \in Chip /\ Requests(c, c2, ls, done) /\ Keeps(p, c2) /\ c2.isr = IsrNext(c, s, Taken(c, done))
        /\ c2.lowest = LowestNext(c, s, Taken(c, done))
    <3>1. c2 = Clock(c, s, ls, done)
      BY DEF s, c2
    <3>2. QED BY <1>2, <2>1, <3>1, ClockIs
  <2>4. c2.lowest = 7
    BY <2>1, <2>2, <2>3 DEF LowestNext, SetsPriority
  <2>6. /\ p.level_mode = c.level_mode /\ p.need4 = c.need4
        /\ p.offset = IF Icw(c, s, 2) THEN High(s.d) ELSE c.offset
        /\ p.slaves = IF Icw(c, s, 3) THEN Bits(s.d) ELSE c.slaves
        /\ p.auto_eoi = IF Icw(c, s, 4) THEN Bit(s.d, 1) ELSE c.auto_eoi
        /\ p.rotate = IF Ocw2(s) /\ s.d % 128 = 0 THEN Bit(s.d, 7) ELSE c.rotate
        /\ p.in_init = (c.in_init /\ ~(Icw(c, s, 3) /\ ~c.need4) /\ ~Icw(c, s, 4))
        /\ p.expect = IF Icw(c, s, 2) THEN 3 ELSE IF Icw(c, s, 3) /\ c.need4 THEN 4 ELSE c.expect
    BY <1>2, ProgrammedIs
  <2>7. \A i \in {2, 3, 4} : Icw(c, s, i) <=> n = i
    BY <1>1, <1>2, <1>5, <2>1, <2>2 DEF Icw
  <2>8. n = 3 /\ chip = "master" => Bits(s.d) = {2}
    <3>1. SUFFICES ASSUME n = 3, chip = "master" PROVE Bits(s.d) = {2}
      OBVIOUS
    <3>2. s.d = task.setup[5].d
      BY <1>1, <1>2, <1>3, <3>1
    <3>3. QED BY <3>2, WordsAre, SlaveBits
  <2>9. n = 4 => (Bit(s.d, 1) <=> task.eoi = "automatic")
    <3>1. SUFFICES ASSUME n = 4 PROVE Bit(s.d, 1) <=> task.eoi = "automatic"
      OBVIOUS
    <3>2. PICK m \in {7, 8} : s.d = task.setup[m].d
      <4>1. CASE chip = "master"
        BY <1>1, <1>2, <1>3, <3>1, <4>1
      <4>2. CASE chip # "master"
        BY <1>1, <1>2, <1>3, <3>1, <4>2
      <4>3. QED BY <4>1, <4>2
    <3>3. QED BY <3>2, WordsAre
  <2>10. n = 2 => High(s.d) = High(Word(chip, 2))
    BY <1>1, <1>2
  <2> HIDE DEF p
  <2>11. /\ ~c2.level_mode /\ ~c2.rotate
         /\ c2.offset = (IF n = 2 THEN High(s.d) ELSE c.offset)
         /\ c2.slaves = (IF n = 3 THEN Bits(s.d) ELSE c.slaves)
         /\ c2.auto_eoi = (IF n = 4 THEN Bit(s.d, 1) ELSE c.auto_eoi)
         /\ c2.in_init = (c.in_init /\ ~(n = 3 /\ ~c.need4) /\ ~(n = 4))
         /\ c2.expect = (IF n = 2 THEN 3 ELSE IF n = 3 /\ c.need4 THEN 4 ELSE c.expect)
         /\ c2.need4 = c.need4
    <3>1. /\ p.offset = (IF n = 2 THEN High(s.d) ELSE c.offset)
          /\ p.slaves = (IF n = 3 THEN Bits(s.d) ELSE c.slaves)
          /\ p.auto_eoi = (IF n = 4 THEN Bit(s.d, 1) ELSE c.auto_eoi)
          /\ p.in_init = (c.in_init /\ ~(n = 3 /\ ~c.need4) /\ ~(n = 4))
          /\ p.expect = (IF n = 2 THEN 3 ELSE IF n = 3 /\ c.need4 THEN 4 ELSE c.expect)
      <4>1. (Icw(c, s, 2) <=> n = 2) /\ (Icw(c, s, 3) <=> n = 3) /\ (Icw(c, s, 4) <=> n = 4)
        BY <2>7
      <4>2. QED BY <2>6, <4>1, Zenon
    <3>2. p.rotate = c.rotate
      BY <2>1, <2>6
    <3>3. QED BY <2>2, <2>3, <2>6, <3>1, <3>2 DEF Keeps
  <2>12. n = 2 \/ n = 3 \/ n = 4 \/ n = 5
    BY <1>1, <1>5
  <2>13. /\ c2.in_init <=> n \in 1 .. 3
         /\ n \in 1 .. 3 => c2.expect = n + 1 /\ c2.need4
    <3>1. /\ n - 1 \in 1 .. 3 <=> n # 5
          /\ n \in 1 .. 3 <=> n # 4 /\ n # 5
      BY <2>12
    <3>2. c.in_init <=> n # 5
      BY <2>2, <3>1, Zenon
    <3>3. n # 5 => c.expect = n /\ c.need4
      BY <2>2, <3>1, Zenon
    <3>4. c2.in_init <=> n # 4 /\ n # 5
      BY <2>11, <3>2, <3>3, Zenon
    <3>5. n # 4 /\ n # 5 => c2.need4
      BY <2>11, <3>3, Zenon
    <3>6. n # 4 /\ n # 5 => c2.expect = n + 1
      <4>1. n # 4 /\ n # 5 => c2.expect = (IF n = 2 THEN 3 ELSE IF n = 3 THEN 4 ELSE c.expect)
        BY <2>11, <3>3, Zenon
      <4>2. QED BY <2>12, <4>1
    <3>7. QED BY <3>1, <3>4, <3>5, <3>6
  <2>14. c2.offset = High(Word(chip, 2))
    BY <2>2, <2>10, <2>11, <2>12
  <2>15. chip = "master" /\ n >= 3 => c2.slaves = {2}
    BY <2>2, <2>8, <2>11, <2>12
  <2>16. c2.auto_eoi <=> n >= 4 /\ task.eoi = "automatic"
    BY <2>2, <2>9, <2>11, <2>12
  <2>17. QED BY <1>5, <2>3, <2>4, <2>11, <2>13, <2>14, <2>15, <2>16
<1>6. QED BY <1>1, <1>4, <1>5

-----------------------------------------------------------------------------
(* The steps keep the invariant: the first of the setup *)

\* Until both controllers are started only the setup acts, and nothing is
\* asked for.
LEMMA EarlyStep ==
    ASSUME Inv, Next, Stage < 2
    PROVE  /\ Idle \/ SetUp
           /\ setup # <<>> /\ handlers = <<>> /\ ~enabled /\ cpu \notin {"possible", "done"}
           /\ handlers' = handlers /\ passed' = passed /\ taken' = taken
           /\ lines' = {} /\ cpu' \notin {"possible", "done"}
           /\ \A chip \in Which : ~Acked(chip) /\ Input(chip) = {}
<1>0. Types /\ SetupLeft /\ Phases
  BY DEF Inv
<1>1. setup # <<>> /\ handlers = <<>> /\ ~enabled /\ lines = {}
  <2>1. Stage \in 0 .. 10 /\ (setup # <<>> <=> Stage < 10)
    BY <1>0, Staged
  <2>2. setup # <<>>
    BY <2>1
  <2>3. QED BY <1>0, <2>2 DEF Phases
<1>2. \A chip \in Which : Untouched(pic[chip])
  BY <1>0 DEF Phases
<1>3. cpu \notin {"possible", "done"}
  BY <1>0, <1>2 DEF Phases, Untouched, Which
<1>4. Idle \/ SetUp
  <2>1. ~Mask /\ ~Accept /\ ~Done /\ ~EndInterrupt /\ ~EnableInHandler /\ ~Return
    BY <1>1, <1>3 DEF Mask, Accept, Done, EndInterrupt, EnableInHandler, Return
  <2>2. QED BY <2>1 DEF Next
<1>5. handlers' = handlers /\ passed' = passed /\ taken' = taken /\ cpu' \notin {"possible", "done"}
  <2>1. Idle => handlers' = handlers /\ passed' = passed /\ taken' = taken /\ cpu' \notin {"possible", "done"}
    <3>1. SUFFICES ASSUME Idle PROVE handlers' = handlers /\ passed' = passed /\ taken' = taken
                                     /\ cpu' \notin {"possible", "done"}
      OBVIOUS
    <3>2. handlers' = handlers /\ passed' = passed /\ taken' = taken
      BY <3>1 DEF Idle
    <3>3. cpu \in {"run", "out"} /\ cpu' = [run |-> "run", out |-> "run", possible |-> "done"][cpu]
      BY <1>3, <3>1 DEF Idle
    <3>4. QED BY <3>2, <3>3
  <2>2. SetUp => handlers' = handlers /\ passed' = passed /\ taken' = taken /\ cpu' \notin {"possible", "done"}
    BY DEF SetUp, Out
  <2>3. QED BY <1>4, <2>1, <2>2
<1>6. Restarting
  <2>1. Stage \in 0 .. 1 /\ Len(setup) = 10 - Stage
    BY <1>0, Staged
  <2>2. setup \in Seq(Write) /\ 1 \in DOMAIN setup
    <3>1. setup \in Seq(Write)
      BY <1>0 DEF Types
    <3>2. QED BY <1>1, <3>1
  <2>3. setup[1] = task.setup[Stage + 1]
    BY <1>0, <2>2 DEF SetupLeft
  <2>4. task.setup[Stage + 1].a = 0
    <3>1. Stage + 1 \in 1 .. 10 /\ Stage + 1 <= 2
      BY <2>1
    <3>2. QED BY <1>0, <3>1, WordsAre
  <2>5. QED BY <2>2, <2>3, <2>4 DEF Restarting
<1>7. lines' = {}
  <2>1. LinesKept /\ lines' \subseteq Lines
    BY <1>0, LinesOfStep DEF LinesKept
  <2>2. \A l \in lines' : l \in lines
    BY <1>6, <2>1 DEF LinesKept
  <2>3. QED BY <1>1, <2>2
<1>8. ASSUME NEW chip \in Which PROVE ~Acked(chip) /\ Input(chip) = {}
  <2>1. MasterLines = {} /\ SlaveLines = {}
    BY <1>1, <1>2 DEF MasterLines, SlaveLines, Untouched, Which
  <2>2. QED BY <1>3, <2>1 DEF Acked, Input, Which
<1>9. QED BY <1>1, <1>3, <1>4, <1>5, <1>7, <1>8

\* What such a step does to a controller.
LEMMA EarlyChips ==
    ASSUME Inv, Next, Stage < 2, NEW chip \in Which
    PROVE  pic'[chip] \in Chip /\ Untouched(pic'[chip])
<1>0. Types /\ SetupLeft /\ Phases /\ ProgramKept
  BY DEF Inv
<1> DEFINE c == pic[chip]
           ls == Input(chip)
           done == Acked(chip)
<1>1. PICK w \in Write \cup {Quiet} :
              /\ pic'[chip] = Clock(c, Strobe(w, chip), ls, done)
              /\ \/ w = Quiet /\ (Idle \/ Accept \/ Done \/ EnableInHandler \/ Return)
                 \/ SetUp /\ setup # <<>> /\ w = Head(setup)
                 \/ Mask /\ w \in task.masks
                 \/ EndInterrupt /\ w = Head(Head(handlers).ends)
  BY <1>0, WriteOfStep
<1>2. /\ c \in Chip /\ Untouched(c) /\ ls = {} /\ ls \in SUBSET Level /\ done = FALSE
      /\ ~c.rotate /\ ~c.level_mode /\ ProgrammedTo(chip, c, Words(chip))
  <2>1. ls = {} /\ done = FALSE
    BY EarlyStep DEF Acked
  <2>2. c \in Chip /\ Untouched(c) /\ ProgrammedTo(chip, c, Words(chip))
    BY <1>0 DEF Types, Phases, ProgramKept
  <2>3. ~c.rotate /\ ~c.level_mode
    BY <2>2 DEF ProgrammedTo
  <2>4. QED BY <2>1, <2>2, <2>3
<1>3. ~Mask /\ ~EndInterrupt
  BY EarlyStep DEF Mask, EndInterrupt
<1> DEFINE c2 == pic'[chip]
           s == Strobe(w, chip)
<1>4. CASE SetUp /\ setup # <<>> /\ w = Head(setup) /\ w.chip = chip
  <2>1. Words(chip) = 0
    BY <1>0, <1>4, WordsNext
  <2>2. c2 \in Chip /\ (Words(chip) + 1 = 1 => Untouched(c2))
    <3> DEFINE n == Words(chip) + 1
               q == Clock(c, Strobe(w, chip), ls, done)
    <3>1. c2 = q /\ done \in BOOLEAN
      BY <1>1, <1>2
    <3> HIDE DEF c, ls, done, c2, n
    <3>2. n = Words(chip) + 1
      BY DEF n
    <3>3. q \in Chip /\ (n = 1 => Untouched(q))
      BY <1>0, <1>2, <1>4, <3>1, <3>2, Programming
    <3> HIDE DEF q
    <3>4. QED BY <3>1, <3>3 DEF n
  <2>3. QED BY <2>1, <2>2
<1>5. CASE w = Quiet \/ w.chip # chip
  <2>1. s = NoWrite /\ s \in Strobes /\ ~s.on
    BY <1>5, StrobeIs DEF NoWrite
  <2>2. c2 = Clock(c, s, ls, done) /\ done \in BOOLEAN
    BY <1>1, <1>2
  <2> HIDE DEF c, ls, done, c2, s
  <2>3. c2 \in Chip /\ Requests(c, c2, ls, done) /\ c2.isr = c.isr \cup (IF c.auto_eoi THEN {} ELSE Taken(c, done))
    BY <1>2, <2>1, <2>2, PlainClock
  <2>4. Taken(c, done) = {} /\ Prepared(c) = {} /\ ~Irq(c)
    BY <1>2 DEF Taken, Prepared, Untouched, Irq
  <2>5. c2.isr = {} /\ c2.irr = {}
    BY <1>2, <2>3, <2>4 DEF Requests, IrrNext, Untouched
  <2>6. ~c2.do
    BY <1>2, <2>3, <2>4 DEF Requests, DoNext, Untouched
  <2>7. ~c2.spurious
    BY <1>2, <2>3, <2>4 DEF Requests, SpuriousNext, Untouched
  <2>8. QED BY <2>3, <2>5, <2>6, <2>7 DEF Untouched, c2
<1>6. QED BY <1>1, <1>3, <1>4, <1>5

LEMMA ChipsKept ==
    ASSUME Inv, Next
    PROVE  pic' \in [Which -> Chip]
<1>1. pic' = [chip \in Which |-> pic'[chip]]
  BY WriteOfStep DEF Inv
<1>2. \A chip \in Which : pic'[chip] \in Chip
  <2>1. Stage \in 0 .. 10
    BY Staged DEF Inv
  <2>2. Stage < 2 \/ Stage >= 2
    BY <2>1
  <2>3. QED BY <2>2, EarlyChips, KindsMean
<1>3. QED BY <1>1, <1>2

\* What the program wrote is kept.
LEMMA ProgramStays ==
    ASSUME Inv, Next, NEW chip \in Which, ~(SetUp /\ setup # <<>> /\ Head(setup).chip = chip)
    PROVE  /\ Programs(pic[chip], pic'[chip])
           /\ task.eoi # "rotating" \/ setup # <<>> => pic'[chip].lowest = pic[chip].lowest
<1>0. Types /\ SetupLeft /\ Phases /\ ProgramKept
  BY DEF Inv
<1>1. Stage < 2 \/ Stage >= 2
  <2>1. Stage \in 0 .. 10
    BY <1>0, Staged
  <2>2. QED BY <2>1
<1> DEFINE c == pic[chip]
           c2 == pic'[chip]
<1>2. CASE Stage >= 2
  <2>1. CASE Moved(c, c2, Input(chip), Acked(chip)) /\ Programs(c, c2)
    BY <2>1 DEF Moved
  <2>2. CASE \E v \in c.isr : Ending(v, chip) /\ Ended(c, c2, Input(chip), v) /\ Programs(c, c2)
    <3>1. EndInterrupt /\ handlers # <<>>
      BY <2>2 DEF Ending
    <3>2. setup = <<>>
      BY <1>0, <3>1 DEF Phases
    <3>3. QED BY <2>2, <3>2 DEF Ended
  <2>3. QED BY <1>2, <2>1, <2>2, StepKinds
<1>3. CASE Stage < 2
  <2> DEFINE ls == Input(chip)
             done == Acked(chip)
  <2>1. PICK w \in Write \cup {Quiet} :
              /\ pic'[chip] = Clock(c, Strobe(w, chip), ls, done)
              /\ \/ w = Quiet /\ (Idle \/ Accept \/ Done \/ EnableInHandler \/ Return)
                 \/ SetUp /\ setup # <<>> /\ w = Head(setup)
                 \/ Mask /\ w \in task.masks
                 \/ EndInterrupt /\ w = Head(Head(handlers).ends)
    BY <1>0, WriteOfStep
  <2>2. ~Mask /\ ~EndInterrupt
    BY <1>3, EarlyStep DEF Mask, EndInterrupt
  <2>3. w = Quiet \/ w.chip # chip
    BY <2>1, <2>2
  <2> DEFINE s == Strobe(w, chip)
  <2>4. s \in Strobes /\ ~s.on
    BY <2>3, StrobeIs DEF NoWrite
  <2>5. c \in Chip /\ ls \in SUBSET Level /\ done \in BOOLEAN /\ ~c.rotate
    BY <1>0, InputIs DEF Types, ProgramKept, ProgrammedTo
  <2>6. c2 = Clock(c, s, ls, done)
    BY <2>1
  <2> HIDE DEF c, ls, done, c2, s
  <2>7. /\ c2.lowest = c.lowest
        /\ c2.level_mode = c.level_mode /\ c2.rotate = c.rotate /\ c2.need4 = c.need4
        /\ c2.in_init = c.in_init /\ c2.expect = c.expect /\ c2.auto_eoi = c.auto_eoi
        /\ c2.offset = c.offset /\ c2.slaves = c.slaves
    <3>1. c2 = Clock(c, s, ls, done) /\ s \in Strobes /\ (~s.on \/ s.a = 1)
      BY <2>4, <2>6
    <3>2. /\ c2 \in Chip /\ Requests(c, c2, ls, done) /\ c2.lowest = c.lowest
          /\ c2.isr = c.isr \cup (IF c.auto_eoi THEN {} ELSE Taken(c, done))
          /\ c2.level_mode = c.level_mode /\ c2.rotate = c.rotate /\ c2.need4 = c.need4
          /\ ~s.on \/ ~c.in_init => /\ c2.in_init = c.in_init /\ c2.expect = c.expect /\ c2.auto_eoi = c.auto_eoi
                                    /\ c2.offset = c.offset /\ c2.slaves = c.slaves
          /\ ~s.on => c2.imr = c.imr
      BY <2>5, <3>1, PlainClock
    <3>3. QED BY <2>4, <3>2
  <2>8. QED BY <2>7 DEF Programs, c, c2
<1>4. QED BY <1>1, <1>2, <1>3

LEMMA ProgramKeeps ==
    ASSUME Inv, Next
    PROVE  ProgramKept'
<1>0. Types /\ SetupLeft /\ Phases /\ ProgramKept
  BY DEF Inv
<1>1. SUFFICES ASSUME NEW chip \in Which PROVE ProgrammedTo(chip, pic[chip], Words(chip))'
  BY DEF ProgramKept
<1> DEFINE c == pic[chip]
           c2 == pic'[chip]
           n == Words(chip)
           n2 == Words(chip)'
<1>2. /\ c.in_init <=> n \in 1 .. 3
      /\ n \in 1 .. 3 => c.expect = n + 1 /\ c.need4
      /\ ~c.level_mode /\ ~c.rotate
      /\ n >= 2 => c.offset = High(Word(chip, 2))
      /\ chip = "master" /\ n >= 3 => c.slaves = {2}
      /\ c.auto_eoi <=> n >= 4 /\ task.eoi = "automatic"
      /\ task.eoi # "rotating" \/ setup # <<>> => c.lowest = 7
  <2>1. ProgrammedTo(chip, c, n)
    BY <1>0 DEF ProgramKept
  <2> HIDE DEF c, n
  <2>2. QED BY <2>1 DEF ProgrammedTo
<1>3. task' = task /\ Word(chip, 2)' = Word(chip, 2)
  BY StageStep DEF Word
<1>4. SUFFICES /\ c2.in_init <=> n2 \in 1 .. 3
               /\ n2 \in 1 .. 3 => c2.expect = n2 + 1 /\ c2.need4
               /\ ~c2.level_mode /\ ~c2.rotate
               /\ n2 >= 2 => c2.offset = High(Word(chip, 2))
               /\ chip = "master" /\ n2 >= 3 => c2.slaves = {2}
               /\ c2.auto_eoi <=> n2 >= 4 /\ task.eoi = "automatic"
               /\ task.eoi # "rotating" \/ setup' # <<>> => c2.lowest = 7
  <2> DEFINE P == ProgrammedTo(chip, pic[chip], Words(chip))'
  <2>1. P <=> /\ c2.in_init <=> n2 \in 1 .. 3
              /\ n2 \in 1 .. 3 => c2.expect = n2 + 1 /\ c2.need4
              /\ ~c2.level_mode /\ ~c2.rotate
              /\ n2 >= 2 => c2.offset = High(Word(chip, 2)')
              /\ chip = "master" /\ n2 >= 3 => c2.slaves = {2}
              /\ c2.auto_eoi <=> n2 >= 4 /\ task'.eoi = "automatic"
              /\ task'.eoi # "rotating" \/ setup' # <<>> => c2.lowest = 7
    BY Zenon DEF ProgrammedTo
  <2> HIDE DEF P, c2, n2
  <2>2. P
    BY <1>3, <1>4, <2>1
  <2>3. QED BY <2>2 DEF P
<1>5. setup' # <<>> => setup # <<>>
  BY StageStep
<1>6. CASE SetUp /\ setup # <<>> /\ Head(setup).chip = chip
  <2> DEFINE w == Head(setup)
             ls == Input(chip)
             done == Acked(chip)
  <2>1. PICK x \in Write \cup {Quiet} :
              /\ pic'[chip] = Clock(c, Strobe(x, chip), ls, done)
              /\ \/ x = Quiet /\ (Idle \/ Accept \/ Done \/ EnableInHandler \/ Return)
                 \/ SetUp /\ setup # <<>> /\ x = Head(setup)
                 \/ Mask /\ x \in task.masks
                 \/ EndInterrupt /\ x = Head(Head(handlers).ends)
    BY <1>0, WriteOfStep
  <2>2. setup' # setup
    <3>1. setup' = Tail(setup) /\ setup \in Seq(Write)
      BY <1>0, <1>6 DEF SetUp, Types
    <3>2. Len(Tail(setup)) = Len(setup) - 1 /\ Len(setup) \in Nat
      BY <1>6, <3>1
    <3> DEFINE k == Len(setup)
               k2 == Len(Tail(setup))
    <3>3. k2 = k - 1 /\ k \in Nat
      BY <3>2
    <3> HIDE DEF k, k2
    <3>4. k2 # k
      BY <3>3
    <3>5. QED BY <3>1, <3>4 DEF k, k2
  <2>3. x = w
    <3>1. ~Idle /\ ~Accept /\ ~Done /\ ~EnableInHandler /\ ~Return /\ ~Mask /\ ~EndInterrupt
      BY <2>2 DEF Idle, Accept, Done, EnableInHandler, Return, Mask, EndInterrupt
    <3>2. QED BY <2>1, <3>1
  <2>4. Stage' = Stage + 1
    BY <2>2, StageStep
  <2>5. n \in 0 .. 4 /\ n2 = n + 1
    <3>1. w = Head(setup)
      OBVIOUS
    <3> HIDE DEF w
    <3>2. n \in 0 .. 4 /\ n2 = n + 1
      BY <1>0, <1>6, <2>4, <3>1, WordsNext
    <3>3. QED BY <3>2
  <2>6. c \in Chip /\ ls \in SUBSET Level /\ done \in BOOLEAN /\ ProgrammedTo(chip, c, n)
    BY <1>0, InputIs DEF Types, ProgramKept
  <2>7. c2 = Clock(c, Strobe(w, chip), ls, done) /\ w = Head(setup) /\ n2 = Words(chip) + 1
    BY <2>1, <2>3, <2>5
  <2>8. Head(setup).chip = chip /\ setup # <<>>
    BY <1>6
  <2>9. ProgrammedTo(chip, c, Words(chip))
    BY <2>6
  <2> HIDE DEF c, c2, n2, w, ls, done
  <2>10. /\ c2 \in Chip /\ c2.lowest = 7 /\ ~c2.level_mode /\ ~c2.rotate
         /\ c2.in_init <=> n2 \in 1 .. 3
         /\ n2 \in 1 .. 3 => c2.expect = n2 + 1 /\ c2.need4
         /\ n2 >= 2 => c2.offset = High(Word(chip, 2))
         /\ chip = "master" /\ n2 >= 3 => c2.slaves = {2}
         /\ c2.auto_eoi <=> n2 >= 4 /\ task.eoi = "automatic"
    <3> DEFINE q == Clock(c, Strobe(w, chip), ls, done)
    <3>1. c2 = q
      BY <2>7
    <3>2. Types /\ SetupLeft /\ w = Head(setup) /\ n2 = Words(chip) + 1
      BY <1>0, <2>7
    <3>3. c \in Chip /\ ls \in SUBSET Level /\ done \in BOOLEAN
      BY <2>6
    <3>4. q \in Chip /\ SetTo(chip, q, n2) /\ (n2 = 1 => Untouched(q))
      BY <2>8, <2>9, <3>2, <3>3, Programming
    <3> HIDE DEF q
    <3>5. SetTo(chip, c2, n2) /\ c2 \in Chip
      BY <3>1, <3>4
    <3>6. QED BY <3>5 DEF SetTo
  <2>11. QED BY <2>10
<1>7. CASE ~(SetUp /\ setup # <<>> /\ Head(setup).chip = chip)
  <2>1. /\ Programs(c, c2)
        /\ task.eoi # "rotating" \/ setup # <<>> => c2.lowest = c.lowest
    BY <1>7, ProgramStays
  <2>2. n2 = n
    <3>1. CASE setup' = setup /\ Stage' = Stage
      BY <3>1 DEF Words
    <3>2. CASE SetUp /\ setup # <<>> /\ Stage' = Stage + 1
      <4> DEFINE w == Head(setup)
      <4>1. w = Head(setup) /\ w.chip # chip
        BY <1>7, <3>2
      <4> HIDE DEF w
      <4>2. QED BY <1>0, <3>2, <4>1, WordsNext
    <3>3. QED BY <3>1, <3>2, StageStep
  <2>3. n2 = n /\ (setup' # <<>> => setup # <<>>)
    BY <1>5, <2>2
  <2> HIDE DEF c, c2, n, n2
  <2>4. QED BY <1>2, <2>1, <2>3 DEF Programs
<1>8. QED BY <1>6, <1>7

LEMMA SetupKept ==
    ASSUME Inv, Next
    PROVE  SetupLeft'
<1>0. Types /\ SetupLeft
  BY DEF Inv
<1>1. task' = task
  BY StageStep
<1>2. CASE setup' = setup /\ Stage' = Stage
  BY <1>0, <1>1, <1>2 DEF SetupLeft
<1>3. CASE setup # <<>> /\ setup' = Tail(setup) /\ Stage' = Stage + 1
  <2> DEFINE s == setup
             t == setup'
             k == Len(setup)
  <2>1. s \in Seq(Write) /\ t \in Seq(Write) /\ Len(t) = k - 1 /\ k \in Nat /\ k <= 10 /\ t = Tail(s) /\ s # <<>>
    BY <1>0, <1>3, Staged DEF SetupLeft, Types
  <2>2. Stage \in 0 .. 9
    BY <1>0, <1>3, Staged
  <2>3. k >= 1
    BY <2>1
  <2>4. ASSUME NEW n \in DOMAIN t PROVE t[n] = task.setup[Stage' + n]
    <3>1. n \in 1 .. k - 1
      <4>1. DOMAIN t = 1 .. Len(t)
        BY <2>1
      <4>2. QED BY <2>1, <4>1
    <3>2. n + 1 \in DOMAIN s /\ t[n] = s[n + 1]
      BY <2>1, <3>1
    <3>3. s[n + 1] = task.setup[Stage + (n + 1)]
      BY <1>0, <3>2 DEF SetupLeft
    <3> HIDE DEF k, s, t
    <3>4. Stage + (n + 1) = (Stage + 1) + n
      BY <2>1, <2>2, <3>1
    <3>5. t[n] = task.setup[(Stage + 1) + n]
      BY <3>2, <3>3, <3>4
    <3>6. QED BY <1>3, <3>5
  <2>5. Len(setup') <= 10
    <3> DEFINE j == Len(t)
    <3>1. j = k - 1 /\ k \in Nat /\ k <= 10
      BY <2>1
    <3> HIDE DEF j, k
    <3>2. j <= 10
      BY <3>1
    <3>3. QED BY <3>2 DEF j
  <2>6. QED BY <1>1, <2>4, <2>5 DEF SetupLeft
<1>4. QED BY <1>2, <1>3, StageStep

LEMMA CpuStep ==
    ASSUME Types, Next
    PROVE  /\ cpu' \in {"run", "out", "possible", "done"} /\ enabled' \in BOOLEAN
           /\ cpu' = "possible" => Accept
<1>1. cpu \in {"run", "out", "possible", "done"} /\ enabled \in BOOLEAN
  BY DEF Types
<1> DEFINE P == cpu' \in {"run", "out", "possible", "done"} /\ enabled' \in BOOLEAN
<1>2. Idle => P /\ cpu' # "possible"
  <2>1. SUFFICES ASSUME Idle PROVE P /\ cpu' # "possible"
    OBVIOUS
  <2>2. cpu \in {"run", "out", "possible"} /\ cpu' = [run |-> "run", out |-> "run", possible |-> "done"][cpu]
        /\ enabled' = enabled
    BY <2>1 DEF Idle
  <2>3. QED BY <1>1, <2>2
<1>3. SetUp => P /\ cpu' # "possible"
  BY DEF SetUp, Out
<1>4. Mask => P /\ cpu' # "possible"
  BY <1>1 DEF Mask, Out
<1>5. Accept => P
  BY <1>1 DEF Accept
<1>6. Done => P /\ cpu' # "possible"
  BY DEF Done
<1>7. EndInterrupt => P /\ cpu' # "possible"
  BY <1>1 DEF EndInterrupt, Out
<1>8. EnableInHandler => P /\ cpu' # "possible"
  BY <1>1 DEF EnableInHandler
<1>9. Return => P /\ cpu' # "possible"
  BY <1>1 DEF Return
<1> HIDE DEF P
<1>10. P /\ (cpu' = "possible" => Accept)
  BY <1>2, <1>3, <1>4, <1>5, <1>6, <1>7, <1>8, <1>9 DEF Next
<1>11. QED BY <1>10 DEF P

LEMMA TypesKept ==
    ASSUME Inv, Next
    PROVE  Types'
<1>0. Types /\ SetupLeft
  BY DEF Inv
<1>1. task' = task /\ task' \in Tasks /\ Lines' = Lines /\ LinesKept
  BY <1>0, LinesOfStep DEF Types
<1>2. pic' \in [Which -> Chip] /\ cpu' \in {"run", "out", "possible", "done"} /\ enabled' \in BOOLEAN
  BY <1>0, ChipsKept, CpuStep
<1>3. lines' \subseteq Lines' /\ edges' \in [Lines' -> Nat]
  BY <1>1 DEF LinesKept
<1>4. setup' \in Seq(Write)
  BY <1>0, StageStep, Staged DEF Types
<1>5. handlers' \in Seq(Handler) /\ taken' \in [Lines -> Nat] /\ passed' \in [Lines -> SUBSET Line]
  <2>1. handlers \in Seq(Handler) /\ taken \in [Lines -> Nat] /\ passed \in [Lines -> SUBSET Line]
    BY <1>0 DEF Types
  <2>2. CASE Done
    <3>1. PICK k, level, real : Starts(k, level, real)
      BY <2>2, DoneIs
    <3>2. handlers' \in Seq(Handler)
      BY <2>2, <3>1, HandlersNew
    <3>3. LineOf(k, level) \in Line
      BY <3>1 DEF Starts, LineOf, Line, Level
    <3> DEFINE m == LineOf(k, level)
    <3>4. /\ taken' = [l \in Lines |-> taken[l] + (IF real /\ l = m THEN 1 ELSE 0)]
          /\ passed' = [l \in Lines |-> IF l # m /\ l \in Waiting THEN passed[l] \cup {m} ELSE {}]
      BY <2>1, <3>1 DEF Starts
    <3> HIDE DEF m
    <3>5. taken' \in [Lines -> Nat]
      BY <2>1, <3>4
    <3>6. passed' \in [Lines -> SUBSET Line]
      <4>1. m \in Line
        BY <3>3 DEF m
      <4>2. ASSUME NEW l \in Lines
            PROVE  (IF l # m /\ l \in Waiting THEN passed[l] \cup {m} ELSE {}) \in SUBSET Line
        BY <2>1, <4>1
      <4>3. QED BY <3>4, <4>2
    <3>7. QED BY <3>2, <3>5, <3>6
  <2>3. CASE EndInterrupt /\ taken' = taken /\ passed' = passed
    BY <2>1, <2>3, HandlersEnd
  <2>4. CASE Return /\ taken' = taken /\ passed' = passed
    BY <2>1, <2>4, HandlersLess
  <2>5. CASE handlers' = handlers /\ taken' = taken /\ passed' = passed
    BY <2>1, <2>5
  <2>6. QED BY <2>2, <2>3, <2>4, <2>5, HandlersStep
<1>6. QED BY <1>1, <1>2, <1>3, <1>4, <1>5 DEF Types, Handler

\* Handlers and the interrupt flag, where handlers do not nest.
LEMMA AloneKept ==
    ASSUME Inv, Next, ~task.nested
    PROVE  Len(handlers') <= 1 /\ (enabled' => handlers' = <<>>)
<1>0. Types /\ Phases /\ handlers \in Seq(Handler) /\ Len(handlers) <= 1 /\ (enabled => handlers = <<>>)
  BY DEF Inv, Types, Phases
<1> DEFINE k == Len(handlers)
           k2 == Len(handlers')
<1>1. k \in Nat /\ k <= 1
  BY <1>0
<1>2. CASE Done
  <2>1. handlers = <<>> /\ enabled' = FALSE
    <3>1. "master" \in Which
      BY DEF Which
    <3>2. handlers = <<>>
      BY <1>2, <3>1, DoneServes
    <3>3. QED BY <1>2, <3>2 DEF Done
  <2>2. PICK c, level, real : Starts(c, level, real)
    BY <1>2, DoneIs
  <2>3. k2 = k + 1
    BY <1>2, <2>2, HandlersNew
  <2>4. k = 0
    BY <2>1
  <2> HIDE DEF k, k2
  <2>5. k2 <= 1
    BY <2>3, <2>4
  <2>6. QED BY <2>1, <2>5 DEF k2
<1>3. CASE Return
  <2>1. k2 = k - 1 /\ handlers' \in Seq(Handler) /\ k >= 1
    BY <1>3, HandlersLess
  <2>2. k2 = 0
    <3> HIDE DEF k, k2
    <3>1. QED BY <1>1, <2>1
  <2>3. handlers' = <<>>
    BY <2>1, <2>2
  <2>4. k2 <= 1
    <3> HIDE DEF k2
    <3>1. QED BY <2>2
  <2>5. QED BY <2>3, <2>4
<1>4. CASE EndInterrupt
  <2>1. k2 = k /\ handlers # <<>> /\ enabled' = enabled
    BY <1>4, HandlersEnd DEF EndInterrupt
  <2>2. k2 <= 1
    <3> HIDE DEF k, k2
    <3>1. QED BY <1>1, <2>1
  <2>3. QED BY <1>0, <2>1, <2>2
<1>5. CASE handlers' = handlers /\ ~EndInterrupt /\ ~Done /\ ~Return
  <2>1. enabled' => handlers = <<>>
    <3>1. Idle => (enabled' => handlers = <<>>)
      BY <1>0 DEF Idle
    <3>2. SetUp => (enabled' => handlers = <<>>)
      BY <1>0 DEF SetUp, Phases
    <3>3. Mask => (enabled' => handlers = <<>>)
      BY DEF Mask
    <3>4. Accept => (enabled' => handlers = <<>>)
      BY <1>0 DEF Accept
    <3>5. ~EnableInHandler
      BY DEF EnableInHandler
    <3>6. QED BY <1>5, <3>1, <3>2, <3>3, <3>4, <3>5 DEF Next
  <2>2. QED BY <1>0, <1>5, <2>1
<1>6. QED
  <2>1. Return => ~EndInterrupt
    BY DEF Return, EndInterrupt
  <2>2. CASE handlers' = handlers /\ ~EndInterrupt
    <3>1. CASE Done
      BY <1>2, <3>1
    <3>2. CASE Return
      BY <1>3, <3>2
    <3>3. QED BY <1>5, <2>2, <3>1, <3>2
  <2>3. QED BY <1>2, <1>3, <1>4, <2>2, HandlersStep

LEMMA PhasesKept ==
    ASSUME Inv, Next
    PROVE  Phases'
<1>0. Types /\ SetupLeft /\ Phases
  BY DEF Inv
<1>1. task' = task /\ Lines' = Lines /\ (setup' # <<>> => setup # <<>>)
  BY <1>0, StageStep, LinesOfStep
<1>2. Stage \in 0 .. 10 /\ (Stage' = Stage \/ Stage' = Stage + 1)
  BY <1>0, Staged, StageStep
<1>3. setup' # <<>> => handlers' = <<>> /\ ~enabled' /\ \A l \in Lines : passed'[l] = {}
  <2>1. SUFFICES ASSUME setup' # <<>>
                 PROVE  handlers' = <<>> /\ ~enabled' /\ \A l \in Lines : passed'[l] = {}
    OBVIOUS
  <2>2. setup # <<>> /\ handlers = <<>> /\ ~enabled /\ \A l \in Lines : passed[l] = {}
    BY <1>0, <1>1, <2>1 DEF Phases
  <2>3. ~Mask /\ ~Accept /\ ~EndInterrupt /\ ~EnableInHandler /\ ~Return
    BY <2>2 DEF Mask, Accept, EndInterrupt, EnableInHandler, Return
  <2>4. ~Done
    <3>1. Done => enabled
      BY <1>0 DEF Done, Phases
    <3>2. QED BY <2>2, <3>1
  <2>5. Idle => handlers' = handlers /\ enabled' = enabled /\ passed' = passed
    BY DEF Idle
  <2>6. SetUp => handlers' = handlers /\ enabled' = FALSE /\ passed' = passed
    BY <2>1 DEF SetUp
  <2>7. QED BY <2>2, <2>3, <2>4, <2>5, <2>6 DEF Next
<1>4. Stage' < 2 => lines' = {} /\ \A chip \in Which : Untouched(pic'[chip])
  <2>1. Stage' < 2 => Stage < 2
    BY <1>2
  <2>2. QED BY <2>1, EarlyStep, EarlyChips
<1>5. cpu' \in {"possible", "done"} => pic'["master"].do /\ enabled'
  <2>1. SUFFICES ASSUME cpu' \in {"possible", "done"} PROVE pic'["master"].do /\ enabled'
    OBVIOUS
  <2>2. Stage >= 2
    <3>1. ~(Stage < 2)
      BY <2>1, EarlyStep
    <3>2. QED BY <1>2, <3>1
  <2>3. cpu # "done" /\ pic["master"].do /\ enabled'
    <3>1. CASE cpu' = "possible"
      <4>1. Accept
        BY <1>0, <3>1, CpuStep
      <4>2. QED BY <4>1 DEF Accept
    <3>2. CASE cpu' = "done"
      <4>1. Idle /\ cpu = "possible"
        BY <1>0, <3>2, AboutToTake
      <4>2. enabled' = enabled
        BY <4>1 DEF Idle
      <4>3. QED BY <1>0, <4>1, <4>2 DEF Phases
    <3>3. QED BY <2>1, <3>1, <3>2
  <2> DEFINE c == pic["master"]
             c2 == pic'["master"]
             ls == Input("master")
             done == Acked("master")
  <2>4. /\ c \in Chip /\ c2 \in Chip /\ ~c.level_mode /\ ls \in SUBSET Level /\ done \in BOOLEAN
        /\ Requests(c, c2, ls, done)
    <3>1. "master" \in Which
      BY DEF Which
    <3>2. QED BY <2>2, <3>1, KindsMean
  <2>5. ~done /\ c.do
    BY <2>3 DEF Acked
  <2> HIDE DEF c, c2, ls, done
  <2>6. c2.do
    BY <2>4, <2>5, RequestsMean
  <2>7. QED BY <2>3, <2>6 DEF c2
<1>6. ~task.nested => Len(handlers') <= 1 /\ (enabled' => handlers' = <<>>)
  BY AloneKept
<1>7. QED BY <1>1, <1>3, <1>4, <1>5, <1>6 DEF Phases

\* Until both controllers are started the rest of the invariant says nothing.
LEMMA EarlyKept ==
    ASSUME Inv, Next, Stage < 2
    PROVE  /\ HandlersNest' /\ ServiceExact' /\ Cascades' /\ Settled' /\ Answered' /\ Counted' /\ Steady'
           /\ Turns' /\ TurnTaken'
<1>0. Types /\ SetupLeft /\ Phases /\ Counted
  BY DEF Inv
<1>1. /\ setup # <<>> /\ handlers' = <<>> /\ lines' = {} /\ cpu' \notin {"possible", "done"}
      /\ \A chip \in Which : Untouched(pic'[chip])
      /\ taken' = taken /\ passed' = passed
  BY EarlyStep, EarlyChips
<1>2. "master" \in Which /\ "slave" \in Which
  BY DEF Which
<1>3. task' = task /\ Lines' = Lines /\ LinesKept
  BY <1>0, LinesOfStep
<1>4. HandlersNest'
  BY <1>1 DEF HandlersNest
<1>5. ServiceExact'
  <2>1. ASSUME NEW chip \in Which PROVE Unended(chip)' = {}
    BY <1>1 DEF Unended
  <2>2. QED BY <1>1, <2>1 DEF ServiceExact, Untouched
<1>6. Cascades' /\ Settled' /\ Answered'
  BY <1>1, <1>2 DEF Cascades, Settled, Answered, Latched, Untouched
<1>7. Counted'
  <2>1. ASSUME NEW l \in Lines
        PROVE  (taken[l] + One(Held(pic[ChipOf(l)], LevelOf(l))) + One(Rising(l)) <= edges[l])'
    <3>1. ChipOf(l) \in Which
      BY <1>0, LinesAre
    <3>2. taken[l] + One(Held(pic[ChipOf(l)], LevelOf(l))) + One(Rising(l)) <= edges[l]
      BY <1>0 DEF Counted
    <3>3. taken[l] \in Nat /\ edges[l] \in Nat /\ edges'[l] >= edges[l] /\ edges'[l] \in Nat
      BY <1>0, <1>3 DEF Types, LinesKept
    <3>4. \A b : One(b) \in {0, 1}
      BY DEF One
    <3>5. One(Held(pic'[ChipOf(l)], LevelOf(l))) = 0
      BY <1>1, <3>1 DEF Held, Latched, Untouched, One
    <3>6. One(Rising(l)') = 0
      BY <1>1 DEF Rising, One
    <3> DEFINE x == One(Held(pic[ChipOf(l)], LevelOf(l)))
               y == One(Rising(l))
    <3>7. x \in {0, 1} /\ y \in {0, 1} /\ taken[l] + x + y <= edges[l]
      BY <3>2, <3>4
    <3> HIDE DEF x, y
    <3>8. taken[l] + 0 + 0 <= edges'[l]
      BY <3>3, <3>7
    <3>9. taken'[l] + One(Held(pic'[ChipOf(l)], LevelOf(l))) + One(Rising(l)') <= edges'[l]
      BY <1>1, <3>5, <3>6, <3>8
    <3>10. QED BY <3>9 DEF One
  <2>2. QED BY <1>3, <2>1 DEF Counted
<1>8. Steady'
  <2>1. ASSUME NEW l \in task.steady PROVE LevelOf(l) \notin pic'[ChipOf(l)].irr
    <3>1. l \in Lines
      BY <1>0, TaskIs DEF IsTask, Lines
    <3>2. ChipOf(l) \in Which
      BY <1>0, <3>1, LinesAre
    <3>3. QED BY <1>1, <3>2 DEF Untouched
  <2>2. QED BY <1>1, <1>3, <2>1 DEF Steady, Untouched
<1>9. Turns'
  <2>1. \A l \in Lines : passed'[l] = {}
    BY <1>0, <1>1 DEF Phases
  <2>2. QED BY <1>3, <2>1 DEF Turns
<1>10. TurnTaken'
  BY <1>1 DEF TurnTaken
<1>11. QED BY <1>4, <1>5, <1>6, <1>7, <1>8, <1>9, <1>10

-----------------------------------------------------------------------------
(* The theorems *)

LEMMA InitInv ==
    ASSUME Init
    PROVE  Inv
<1>1. /\ task \in Tasks /\ pic = [chip \in Which |-> InReset] /\ lines = {}
      /\ cpu = "run" /\ enabled = FALSE /\ setup = task.setup /\ handlers = <<>>
      /\ edges = [l \in Lines |-> 0] /\ taken = [l \in Lines |-> 0] /\ passed = [l \in Lines |-> {}]
  BY DEF Init
<1>2. task.setup \in Seq(Write) /\ Len(task.setup) = 10
  BY <1>1, PicAssumption DEF IsTask, SetsUp
<1>3. InReset \in Chip /\ Untouched(InReset)
  <2>1. 0 \in ByteValue /\ 7 \in Level
    BY DEF ByteValue, Level
  <2>2. QED BY <2>1 DEF InReset, Chip, Untouched
<1>4. \A chip \in Which : pic[chip] = InReset
  BY <1>1
<1>5. "master" \in Which /\ "slave" \in Which
  BY DEF Which
<1>6. Types
  <2>1. pic \in [Which -> Chip]
    BY <1>1, <1>3
  <2>2. handlers \in Seq(Handler)
    BY <1>1
  <2>3. QED BY <1>1, <1>2, <2>1, <2>2 DEF Types
<1>7. Stage = 0 /\ setup # <<>>
  <2>1. Len(setup) = 10
    BY <1>1, <1>2
  <2>2. QED BY <2>1 DEF Stage
<1>8. SetupLeft
  <2>1. Len(setup) <= 10
    BY <1>1, <1>2
  <2>2. ASSUME NEW n \in DOMAIN setup PROVE setup[n] = task.setup[Stage + n]
    <3>1. n \in 1 .. 10
      BY <1>1, <1>2, <2>2
    <3>2. Stage + n = n
      BY <1>7, <3>1
    <3>3. QED BY <1>1, <3>2
  <2>3. QED BY <2>1, <2>2 DEF SetupLeft
<1>9. ProgramKept
  <2>1. (0 + 1) \div 2 = 0 /\ 0 \div 2 = 0
    OBVIOUS
  <2>2. ASSUME NEW chip \in Which PROVE ProgrammedTo(chip, pic[chip], Words(chip))
    <3>1. Words(chip) = 0
      BY <1>7, <2>1 DEF Words
    <3>2. pic[chip] = InReset
      BY <1>4
    <3>3. ProgrammedTo(chip, InReset, 0)
      BY DEF ProgrammedTo, InReset
    <3>4. QED BY <3>1, <3>2, <3>3
  <2>3. QED BY <2>2 DEF ProgramKept
<1>10. Phases
  BY <1>1, <1>3, <1>4, <1>6 DEF Phases
<1>11. Vectors
  BY <1>7 DEF Vectors
<1>12. HandlersNest
  BY <1>1 DEF HandlersNest
<1>13. ServiceExact
  <2>1. \A chip \in Which : Unended(chip) = {}
    BY <1>1 DEF Unended
  <2>2. QED BY <1>3, <1>4, <2>1 DEF ServiceExact, Untouched
<1>14. Cascades /\ Settled /\ Answered
  BY <1>1, <1>3, <1>4, <1>5 DEF Cascades, Settled, Answered, Latched, Untouched
<1>15. Counted
  <2>1. ASSUME NEW l \in Lines
        PROVE  taken[l] + One(Held(pic[ChipOf(l)], LevelOf(l))) + One(Rising(l)) <= edges[l]
    <3>1. ChipOf(l) \in Which
      BY <1>6, LinesAre
    <3>2. ~Held(pic[ChipOf(l)], LevelOf(l)) /\ ~Rising(l)
      BY <1>1, <1>3, <1>4, <3>1 DEF Held, Latched, Untouched, Rising
    <3>3. One(Held(pic[ChipOf(l)], LevelOf(l))) = 0 /\ One(Rising(l)) = 0
      BY <3>2 DEF One
    <3>4. taken[l] = 0 /\ edges[l] = 0
      BY <1>1
    <3>5. QED BY <3>3, <3>4
  <2>2. QED BY <2>1 DEF Counted
<1>16. Steady
  <2>1. ASSUME NEW l \in task.steady PROVE LevelOf(l) \notin pic[ChipOf(l)].irr
    <3>1. l \in Lines
      BY <1>6, TaskIs DEF IsTask, Lines
    <3>2. ChipOf(l) \in Which
      BY <1>6, <3>1, LinesAre
    <3>3. QED BY <1>3, <1>4, <3>2 DEF Untouched
  <2>2. QED BY <1>3, <1>4, <2>1 DEF Steady, Untouched
<1>17. Turns /\ TurnTaken
  BY <1>1 DEF Turns, TurnTaken
<1>18. QED BY <1>6, <1>8, <1>9, <1>10, <1>11, <1>12, <1>13, <1>14, <1>15, <1>16, <1>17 DEF Inv

LEMMA StepInv ==
    ASSUME Inv, Next
    PROVE  Inv'
<1>1. Types' /\ SetupLeft' /\ ProgramKept' /\ Phases'
  BY TypesKept, SetupKept, ProgramKeeps, PhasesKept
<1>2. Vectors'
  BY <1>1, VectorsKept
<1>3. Stage < 2 \/ Stage >= 2
  <2>1. Stage \in 0 .. 10
    BY Staged DEF Inv
  <2>2. QED BY <2>1
<1>4. /\ HandlersNest' /\ ServiceExact' /\ Cascades' /\ Settled' /\ Answered' /\ Counted' /\ Steady'
      /\ Turns' /\ TurnTaken'
  <2>1. CASE Stage < 2
    BY <2>1, EarlyKept
  <2>2. CASE Stage >= 2
    <3>1. HandlersNest' /\ ServiceExact' /\ Cascades' /\ Settled'
      BY <2>2, HandlersNestKept, ServiceKept, CascadesKept, SettledKept
    <3>2. Answered' /\ Counted' /\ Steady' /\ Turns' /\ TurnTaken'
      BY <2>2, AnsweredKept, CountedKept, SteadyKept, TurnsKept, TurnTakenKept
    <3>3. QED BY <3>1, <3>2
  <2>3. QED BY <1>3, <2>1, <2>2
<1>5. QED BY <1>1, <1>2, <1>4 DEF Inv

LEMMA StutterInv ==
    ASSUME Inv, UNCHANGED vars
    PROVE  Inv'
<1>1. /\ task' = task /\ pic' = pic /\ lines' = lines /\ cpu' = cpu /\ enabled' = enabled /\ setup' = setup
      /\ handlers' = handlers /\ edges' = edges /\ taken' = taken /\ passed' = passed
  BY DEF vars
<1>2. Stage' = Stage /\ Lines' = Lines /\ SlaveSelect' = SlaveSelect
  BY <1>1 DEF Stage, Lines, SlaveSelect
<1>3. Types' /\ SetupLeft' /\ Phases' /\ Vectors'
  BY <1>1, <1>2 DEF Inv, Types, SetupLeft, Phases, Vectors
<1>4. ProgramKept'
  BY <1>1, <1>2 DEF Inv, ProgramKept, ProgrammedTo, Words, Word
<1>5. HandlersNest'
  <2>1. \A h : Owed(h)' = Owed(h)
    BY <1>1 DEF Owed, Eoi
  <2>2. \A h, chip : Opened(h, chip)' = Opened(h, chip)
    BY DEF Opened
  <2>3. /\ \A n \in DOMAIN handlers : handlers[n].ends \in Owed(handlers[n])
        /\ \A chip \in Which : \A i, j \in DOMAIN handlers :
              i < j /\ Opened(handlers[i], chip) /\ Opened(handlers[j], chip)
                 => Serves(handlers[i], chip) < Serves(handlers[j], chip)
    BY DEF Inv, HandlersNest
  <2>4. QED BY <1>1, <2>1, <2>2, <2>3 DEF HandlersNest
<1>6. ServiceExact'
  BY <1>1 DEF Inv, ServiceExact, Unended
<1>7. Cascades' /\ Settled' /\ Answered'
  BY <1>1, <1>2 DEF Inv, Cascades, Settled, Answered
<1>8. Counted' /\ Steady' /\ Turns' /\ TurnTaken'
  BY <1>1, <1>2 DEF Inv, Counted, Rising, Steady, Turns, TurnTaken
<1>9. QED BY <1>3, <1>4, <1>5, <1>6, <1>7, <1>8 DEF Inv

\* The controllers, the processor and the program keep the invariant.
THEOREM PicInv == Spec => []Inv
<1>1. Init => Inv
  BY InitInv
<1>2. Inv /\ [Next]_vars => Inv'
  BY StepInv, StutterInv
<1>3. QED BY <1>1, <1>2, PTL DEF Spec

LEMMA InvExact ==
    ASSUME Inv
    PROVE  InterruptsExact
<1>1. ServiceExact
  BY DEF Inv
<1>2. ASSUME NEW l \in Lines PROVE taken[l] <= edges[l]
  <2> DEFINE x == One(Held(pic[ChipOf(l)], LevelOf(l)))
             y == One(Rising(l))
  <2>1. x \in {0, 1} /\ y \in {0, 1}
    BY DEF One
  <2>2. taken[l] \in Nat /\ edges[l] \in Nat /\ taken[l] + x + y <= edges[l]
    BY DEF Inv, Types, Counted
  <2> HIDE DEF x, y
  <2>3. QED BY <2>1, <2>2
<1>3. SlaveAsks
  BY DEF Inv, Answered, SlaveAsks
<1>4. QED BY <1>1, <1>2, <1>3 DEF InterruptsExact, OnePerEdge

\* What a controller has in service is what the handlers have yet to end; no
\* line is taken more often than it rose; the slave is acknowledged only while
\* it asks (isr, interrupt_done, slave_active), for any devices and programs that
\* keep to PicAssumption.
THEOREM PicInterruptsExact == Spec => []InterruptsExact
<1>1. Inv => InterruptsExact
  BY InvExact
<1>2. QED BY <1>1, PicInv, PTL

LEMMA OutranksStep ==
    ASSUME Inv, Next
    PROVE  Outranks
<1>1. SUFFICES ASSUME NEW chip \in Which, NEW l \in pic'[chip].isr \ pic[chip].isr, NEW m \in pic[chip].isr
               PROVE  Rank(pic[chip], l) < Rank(pic[chip], m)
  BY DEF Outranks
<1>2. Stage >= 2
  <2>1. ~(Stage < 2)
    BY <1>1, EarlyChips DEF Untouched
  <2>2. Stage \in 0 .. 10
    BY Staged DEF Inv
  <2>3. QED BY <2>1, <2>2
<1>3. Acked(chip) /\ l \in Taken(pic[chip], TRUE)
  BY <1>1, <1>2, KindsMean
<1>4. ~pic[chip].spurious /\ l = pic[chip].vector % 8
  BY <1>3 DEF Taken
<1>5. Answers(pic[chip])
  BY <1>3 DEF Inv, Answered, Acked, Which
<1>6. QED BY <1>4, <1>5 DEF Answers

LEMMA TurnsStep ==
    ASSUME Inv, Next
    PROVE  TakesTurns
<1>0. Types /\ HandlersNest /\ ServiceExact /\ Turns /\ TurnTaken
  BY DEF Inv
<1>1. SUFFICES ASSUME Done, task.eoi = "rotating", NEW l \in Lines, NEW m \in Lines,
                      l \in Waiting, Rivals(l, m), taken'[m] # taken[m], m \in passed[l]
               PROVE  FALSE
  BY DEF TakesTurns
<1>2. PICK k, level, real : Starts(k, level, real)
  BY <1>1, DoneIs
<1>3. m = LineOf(k, level)
  <2>1. m \in DOMAIN taken /\ taken[m] \in Nat
    BY <1>0, <1>1 DEF Types
  <2>2. taken'[m] = taken[m] + (IF real /\ m = LineOf(k, level) THEN 1 ELSE 0)
    BY <1>2, <2>1 DEF Starts
  <2>3. QED BY <1>1, <2>1, <2>2
<1> DEFINE chip == ChipOf(l)
           lv == LevelOf(l)
           c == pic[chip]
           v == c.vector % 8
<1>4. l # LineOf(k, level)
  BY <1>1, <1>3 DEF Rivals
<1>5. Acked(chip) /\ Rival(l, m) = v /\ (l \in Level \/ SlaveSelect)
  BY <1>1, <1>2, <1>3, <1>4, TakenRival
<1>6. chip \in Which /\ lv \in Level /\ c \in Chip
  BY <1>0, LinesAre DEF Types
<1>7. Rank(c, v) <= Rank(c, lv)
  <2>1. cpu = "done"
    BY <1>1 DEF Done
  <2>2. NextIs(c, lv)
    BY <1>0, <1>1, <1>5, <2>1 DEF TurnTaken
  <2>3. QED BY <2>2 DEF NextIs
<1>8. c.isr = {}
  <2>1. handlers = <<>>
    BY <1>0, <1>1, <1>6, RotatingIs, DoneServes
  <2>2. QED BY <1>0, <1>6, <2>1, ServicesQuiet DEF Which
<1>9. Rank(c, lv) < Rank(c, v)
  <2>1. InLine(c, lv, v)
    BY <1>0, <1>1, <1>5 DEF Turns
  <2>2. QED BY <1>8, <2>1 DEF InLine
<1>10. v \in Level
  <2>1. c.vector \in 0 .. 255
    BY <1>6 DEF Chip, ByteValue
  <2>2. QED BY <2>1 DEF Level
<1> HIDE DEF v, c, lv
<1>11. Rank(c, v) \in Level /\ Rank(c, lv) \in Level
  BY <1>6, <1>10, RankIs
<1>12. QED BY <1>7, <1>9, <1>11 DEF Level

\* An interrupt is put in service only above all its controller has in
\* service, and with a rotating EOI no line is taken twice while a rival waits
\* (interrupt_do, lowest_priority).
THEOREM PicInTurn == Spec => InTurn
<1>1. Inv /\ [Next]_vars => [Outranks /\ TakesTurns]_vars
  BY OutranksStep, TurnsStep
<1>2. QED BY <1>1, PicInv, PTL DEF Spec, InTurn
=============================================================================
