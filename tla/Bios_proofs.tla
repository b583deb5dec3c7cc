------------------------------ MODULE Bios_proofs ------------------------------
(***************************************************************************)
(* Proofs about the system BIOS, whatever the other parts do: characters   *)
(* sent and printed, the clock, delays and wait intervals, diskettes, hard *)
(* disks, CD-ROMs and memory, for every length of the day, the timeouts,   *)
(* the period and the drives, and every menu of calls within the           *)
(* assumptions of Bios; what POST leaves and the order of ROMs and boot    *)
(* devices, for every machine within them; and that the keyboard services  *)
(* implement the queue of keys (KeyQueue), for every length of the buffer  *)
(* and of the controller's FIFO.                                           *)
(***************************************************************************)
EXTENDS Bios, SequenceTheorems, FiniteSetTheorems, TLAPS

-----------------------------------------------------------------------------
(* Serial and printer services. *)

Char == Nat \ {0}

PortTypes ==
    /\ line = [held |-> line.held, shifted |-> line.shifted, gone |-> line.gone,
               received |-> line.received, divisor |-> line.divisor]
    /\ line.held \in Nat /\ line.shifted \in Nat /\ line.gone \in Seq(Char)
    /\ printer = [latch |-> printer.latch, took |-> printer.took, ack |-> printer.ack]
    /\ pp = [pc |-> pp.pc, call |-> pp.call, left |-> pp.left]
    /\ pp.left \in Nat

\* While a character is printed it is in the latch until it is acknowledged.
PrintInv ==
    /\ pp.pc \in {"send", "print"} => pp.call.c \in Char
    /\ pp.pc = "print" => IF printer.ack THEN printer.took = pp.call.c /\ printer.latch = 0
                                         ELSE printer.latch = pp.call.c
    /\ said # Ports!Nothing => pp.pc = "idle"

PortsInv == PortTypes /\ PrintInv /\ PortsExact

\* One more character on the line.
LEMMA OnTheLine ==
    ASSUME NEW s \in Seq(Char), NEW c \in Char
    PROVE  (s \o <<>>) \o <<c>> = Append(s, c) /\ Append(s, c) \in Seq(Char) /\ s \o <<>> = s
  OBVIOUS

LEMMA PortsStart == Ports!PortsInit => PortsInv
<1> SUFFICES ASSUME Ports!PortsInit PROVE PortsInv
  OBVIOUS
<1>1. PortTypes
  BY DEF Ports!PortsInit, PortTypes, Ports!Rest, Ports!None
<1>2. PrintInv
  BY DEF Ports!PortsInit, PrintInv, Ports!Rest
<1>3. line.gone \o <<>> \o <<>> = <<>> /\ line.shifted = 0 /\ line.held = 0 /\ accepted = <<>>
  BY DEF Ports!PortsInit, Ports!None
<1>4. PortsExact
  BY <1>3 DEF Ports!PortsInit, PortsExact, Ports!SentInOrder, Ports!PrintedTaken, Ports!InHand, Ports!None,
              Ports!Nothing
<1> QED
  BY <1>1, <1>2, <1>4 DEF PortsInv

LEMMA PortsStay == ASSUME PortsInv, UNCHANGED portV PROVE PortsInv'
  BY DEF PortsInv, PortTypes, PrintInv, PortsExact, Ports!SentInOrder, Ports!PrintedTaken, portV

\* The program's calls.
LEMMA PortsCall == ASSUME PortsInv, Ports!Call PROVE PortsInv'
<1> PICK call \in PortCalls : \/ Ports!int14_init(call) \/ Ports!int14_status(call)
                              \/ Ports!Unsupported(call) \/ Ports!Waits(call)
                              \/ Ports!Prints(call) \/ Ports!InitPrinter(call)
  BY DEF Ports!Call
<1> USE DEF Ports!Says, Ports!Rest, Ports!Nothing
<1>1. /\ line'.held = line.held /\ line'.shifted = line.shifted /\ line'.gone = line.gone
      /\ accepted' = accepted
      /\ line' = [held |-> line'.held, shifted |-> line'.shifted, gone |-> line'.gone,
                  received |-> line'.received, divisor |-> line'.divisor]
  BY DEF PortsInv, PortTypes, Ports!int14_init, Ports!int14_status, Ports!Unsupported, Ports!Waits,
         Ports!Prints, Ports!InitPrinter
<1>2. PortTypes'
  <2>1. line'.held \in Nat /\ line'.shifted \in Nat /\ line'.gone \in Seq(Char)
    BY <1>1 DEF PortsInv, PortTypes
  <2>2. printer' = [latch |-> printer'.latch, took |-> printer'.took, ack |-> printer'.ack]
    BY DEF PortsInv, PortTypes, Ports!int14_init, Ports!int14_status, Ports!Unsupported, Ports!Waits,
           Ports!Prints, Ports!InitPrinter
  <2>3. pp' = [pc |-> pp'.pc, call |-> pp'.call, left |-> pp'.left] /\ pp'.left \in Nat
    BY PortsAssumption
       DEF Ports!int14_init, Ports!int14_status, Ports!Unsupported, Ports!Waits, Ports!Prints,
           Ports!InitPrinter
  <2> QED
    BY <1>1, <2>1, <2>2, <2>3 DEF PortTypes
<1>3. PrintInv'
  <2>1. pp.pc = "idle" /\ said = Ports!Nothing
    BY DEF Ports!Call
  <2>2. CASE Ports!Waits(call)
    BY <2>1, <2>2, PortsAssumption DEF Ports!Waits, PrintInv, Char
  <2>3. CASE Ports!Prints(call)
    BY <2>1, <2>3, PortsAssumption DEF Ports!Prints, PrintInv, Char, PortsInv, PortTypes
  <2>4. CASE ~Ports!Waits(call) /\ ~Ports!Prints(call)
    BY <2>1, <2>4 DEF PrintInv, Ports!int14_init, Ports!int14_status, Ports!Unsupported, Ports!InitPrinter
  <2> QED
    BY <2>2, <2>3, <2>4
<1>4. Ports!SentInOrder'
  BY <1>1 DEF PortsInv, PortsExact, Ports!SentInOrder, Ports!InHand
<1>5. Ports!PrintedTaken'
  <2>1. said.fn # "print"
    BY DEF Ports!Call
  <2>2. said'.fn # "print"
    BY <2>1 DEF Ports!int14_init, Ports!int14_status, Ports!Unsupported, Ports!Waits, Ports!Prints,
                Ports!InitPrinter
  <2> QED
    BY <2>2 DEF Ports!PrintedTaken
<1> QED
  BY <1>2, <1>3, <1>4, <1>5 DEF PortsInv, PortsExact

\* A tick, or a poll of the printer, counts one down.
LEMMA CountDown ==
    ASSUME PortsInv, pp.left > 0, pp' = [pp EXCEPT !.left = @ - 1], UNCHANGED <<line, printer, said, accepted>>
    PROVE  PortsInv'
<1>1. pp' = [pc |-> pp.pc, call |-> pp.call, left |-> pp.left - 1] /\ pp.left - 1 \in Nat
  BY DEF PortsInv, PortTypes
<1>2. pp'.pc = pp.pc /\ pp'.call = pp.call /\ pp'.left = pp.left - 1
  BY <1>1
<1>3. PortTypes'
  BY <1>1, <1>2 DEF PortsInv, PortTypes
<1>4. PrintInv'
  BY <1>2 DEF PortsInv, PrintInv
<1>5. PortsExact'
  BY DEF PortsInv, PortsExact, Ports!SentInOrder, Ports!PrintedTaken
<1> QED
  BY <1>3, <1>4, <1>5 DEF PortsInv

\* The program at work in a call.
LEMMA PortsWork ==
    ASSUME PortsInv, \/ Ports!Taken \/ Ports!TickPasses \/ Ports!Sent \/ Ports!Received
                     \/ Ports!Poll \/ Ports!Printed
    PROVE  PortsInv'
<1> USE DEF Ports!Says, Ports!Rest, Ports!Nothing
<1>1. CASE Ports!Taken
  BY <1>1 DEF Ports!Taken, PortsInv, PortTypes, PrintInv, PortsExact, Ports!SentInOrder, Ports!PrintedTaken
<1>2. CASE Ports!TickPasses
  BY <1>2, CountDown DEF Ports!TickPasses
<1>3. CASE Ports!Sent /\ Ports!Sends(pp.left)
  <2>1. line.held = 0 /\ line.shifted = 0 /\ pp.call.c \in Char
    BY <1>3 DEF Ports!Sent, Ports!Sends, Ports!Ready, Ports!None, PortsInv, PrintInv
  <2>2. /\ line' = [line EXCEPT !.held = pp.call.c] /\ accepted' = Append(accepted, pp.call.c)
        /\ pp' = Ports!Rest /\ said' = [fn |-> "send", timeout |-> FALSE, c |-> 0] /\ UNCHANGED printer
    BY <1>3 DEF Ports!Sent
  <2>3. PortTypes' /\ PrintInv'
    BY <2>1, <2>2 DEF PortsInv, PortTypes, PrintInv, Char
  <2>4. line'.gone = line.gone /\ line'.shifted = 0 /\ line'.held = pp.call.c /\ line.gone \in Seq(Char)
    BY <2>1, <2>2 DEF PortsInv, PortTypes
  <2>5. accepted = line.gone
    BY <2>1, <2>4, OnTheLine DEF PortsInv, PortsExact, Ports!SentInOrder, Ports!InHand, Ports!None
  <2>6. Ports!SentInOrder'
    <3>1. Ports!InHand(line'.shifted) = <<>> /\ Ports!InHand(line'.held) = <<pp.call.c>>
      BY <2>1, <2>4 DEF Ports!InHand, Ports!None, Char
    <3>2. (line.gone \o <<>>) \o <<pp.call.c>> = Append(line.gone, pp.call.c)
      BY <2>1, <2>4, OnTheLine
    <3> QED
      BY <2>2, <2>4, <2>5, <3>1, <3>2 DEF Ports!SentInOrder
  <2>7. Ports!PrintedTaken'
    BY <2>2 DEF Ports!PrintedTaken
  <2> QED
    BY <2>3, <2>6, <2>7 DEF PortsInv, PortsExact
<1>4. CASE Ports!Sent /\ ~Ports!Sends(pp.left)
  <2>1. /\ pp' = Ports!Rest /\ said' = [fn |-> "send", timeout |-> TRUE, c |-> 0]
        /\ UNCHANGED <<line, printer, accepted>>
    BY <1>4 DEF Ports!Sent
  <2>2. PortTypes' /\ PrintInv'
    BY <2>1 DEF PortsInv, PortTypes, PrintInv
  <2>3. PortsExact'
    BY <2>1 DEF PortsInv, PortsExact, Ports!SentInOrder, Ports!PrintedTaken
  <2> QED
    BY <2>2, <2>3 DEF PortsInv
<1>5. CASE Ports!Received
  <2>1. /\ pp' = Ports!Rest /\ said'.fn = "receive" /\ UNCHANGED <<printer, accepted>>
        /\ line' = line \/ line' = [line EXCEPT !.received = Ports!None]
    BY <1>5 DEF Ports!Received
  <2>2. /\ line'.held = line.held /\ line'.shifted = line.shifted /\ line'.gone = line.gone
        /\ line' = [held |-> line'.held, shifted |-> line'.shifted, gone |-> line'.gone,
                    received |-> line'.received, divisor |-> line'.divisor]
    BY <2>1 DEF PortsInv, PortTypes
  <2>3. PortTypes' /\ PrintInv'
    BY <2>1, <2>2 DEF PortsInv, PortTypes, PrintInv
  <2>4. PortsExact'
    BY <2>1, <2>2 DEF PortsInv, PortsExact, Ports!SentInOrder, Ports!PrintedTaken
  <2> QED
    BY <2>3, <2>4 DEF PortsInv
<1>6. CASE Ports!Poll
  BY <1>6, CountDown DEF Ports!Poll
<1>7. CASE Ports!Printed
  <2>1. /\ pp.pc = "print" /\ (printer.ack \/ pp.left = 0)
        /\ pp' = Ports!Rest /\ said'.fn = "print" /\ said'.timeout = (pp.left = 0) /\ said'.c = pp.call.c
        /\ UNCHANGED <<line, printer, accepted>>
    BY <1>7 DEF Ports!Printed
  <2>2. PortTypes'
    BY <2>1 DEF PortsInv, PortTypes
  <2>3. PrintInv'
    BY <2>1 DEF PrintInv
  <2>4. Ports!SentInOrder'
    BY <2>1 DEF PortsInv, PortsExact, Ports!SentInOrder
  <2>5. Ports!PrintedTaken'
    BY <2>1 DEF PortsInv, PrintInv, Ports!PrintedTaken, Ports!None
  <2> QED
    BY <2>2, <2>3, <2>4, <2>5 DEF PortsInv, PortsExact
<1> QED
  BY <1>1, <1>2, <1>3, <1>4, <1>5, <1>6, <1>7

\* The serial line and the printer go on by themselves.
LEMMA PortsDevices ==
    ASSUME PortsInv, Ports!Shift \/ Ports!Leave \/ Ports!Arrive \/ Ports!Acknowledge
    PROVE  PortsInv'
<1>1. CASE Ports!Shift
  <2>1. PortTypes' /\ PrintInv' /\ Ports!PrintedTaken'
    BY <1>1 DEF Ports!Shift, Ports!None, PortsInv, PortTypes, PrintInv, PortsExact, Ports!PrintedTaken
  <2>2. /\ line'.gone = line.gone /\ line'.shifted = line.held /\ line'.held = 0 /\ accepted' = accepted
        /\ line.held \in Char /\ line.shifted = 0 /\ line.gone \in Seq(Char)
    BY <1>1 DEF Ports!Shift, Ports!None, PortsInv, PortTypes, Char
  <2>3. (line.gone \o <<>>) \o <<line.held>> = (line.gone \o <<line.held>>) \o <<>>
    BY <2>2
  <2>4. Ports!SentInOrder'
    BY <2>2, <2>3 DEF PortsInv, PortsExact, Ports!SentInOrder, Ports!InHand, Ports!None, Char
  <2> QED
    BY <2>1, <2>4 DEF PortsInv, PortsExact
<1>2. CASE Ports!Leave
  <2>1. /\ line'.gone = Append(line.gone, line.shifted) /\ line'.shifted = 0 /\ line'.held = line.held
        /\ accepted' = accepted /\ line.shifted \in Char /\ line.gone \in Seq(Char) /\ line.held \in Nat
    BY <1>2 DEF Ports!Leave, Ports!None, PortsInv, PortTypes, Char
  <2>2. PortTypes' /\ PrintInv' /\ Ports!PrintedTaken'
    BY <1>2, <2>1, OnTheLine
       DEF Ports!Leave, Ports!None, PortsInv, PortTypes, PrintInv, PortsExact, Ports!PrintedTaken
  <2>3. Append(line.gone, line.shifted) \o <<>> = line.gone \o <<line.shifted>>
    BY <2>1
  <2>4. Ports!SentInOrder'
    BY <2>1, <2>3 DEF PortsInv, PortsExact, Ports!SentInOrder, Ports!InHand, Ports!None, Char
  <2> QED
    BY <2>2, <2>4 DEF PortsInv, PortsExact
<1>3. CASE Ports!Arrive
  BY <1>3 DEF Ports!Arrive, PortsInv, PortTypes, PrintInv, PortsExact, Ports!SentInOrder, Ports!PrintedTaken
<1>4. CASE Ports!Acknowledge
  <2>1. /\ printer.latch # 0 /\ printer' = [latch |-> 0, took |-> printer.latch, ack |-> TRUE]
        /\ UNCHANGED <<line, pp, said, accepted>>
    BY <1>4 DEF Ports!Acknowledge, Ports!None
  <2> QED
    BY <2>1 DEF PortsInv, PortTypes, PrintInv, PortsExact, Ports!SentInOrder, Ports!PrintedTaken, Ports!None
<1> QED
  BY <1>1, <1>2, <1>3, <1>4

LEMMA PortsStep == ASSUME PortsInv, [BiosNext]_biosVars PROVE PortsInv'
<1>1. CASE UNCHANGED portV
  BY <1>1, PortsStay
<1>2. CASE Ports!PortsNext
  BY <1>2, PortsCall, PortsWork, PortsDevices DEF Ports!PortsNext
<1> QED
  BY <1>1, <1>2 DEF BiosNext, biosVars, portV

\* The characters answered to be sent are those on the line, in order, and a
\* character said to be printed has been taken (serial.c, printer services).
THEOREM BiosPortsExact == Spec => []PortsExact
<1>1. BiosInit(Parts) => PortsInv
  BY PortsStart DEF BiosInit
<1>2. PortsInv => PortsExact
  BY DEF PortsInv
<1> QED
  BY <1>1, <1>2, PortsStep, PTL DEF Spec

-----------------------------------------------------------------------------
(* The clock, delays and wait intervals. *)

\* The count of ticks and midnights is what has passed.
ClockInv ==
    /\ menu \in TimeMenus
    /\ clock = [ticks |-> clock.ticks, flag |-> clock.flag, true |-> clock.true]
    /\ clock.ticks \in 0 .. DayTicks - 1 /\ clock.flag \in 0 .. 255
    /\ clock.true = clock.flag * DayTicks + clock.ticks

\* An access to a register of the real-time clock.
Op == [op: {"read", "write"}, reg: {"A", "B", "C", "D"} \cup Time!Bytes,
       keep: SUBSET Time!Both, add: SUBSET Time!Both]

\* The program in a call: it reads the count in two words with interrupts off;
\* a delay has waited at least what it has subtracted.
ProgramInv ==
    /\ tp = [pc |-> tp.pc, call |-> tp.call, ops |-> tp.ops, selected |-> tp.selected, b |-> tp.b,
             cf |-> tp.cf, if |-> tp.if, got |-> tp.got]
    /\ tp.pc \in {"high", "low", "flag"} => ~tp.if
    /\ tp.pc = "low" => /\ tp.got \in Seq(Int) /\ Len(tp.got) = 1
                        /\ tp.got[1] = clock.ticks \div LowWord
    /\ tp.pc = "flag" => tp.got[1] = clock.ticks \div LowWord /\ tp.got[2] = clock.ticks % LowWord
    /\ tp.pc = "rtc" => /\ tp.call.fn \in Time!RtcCalls /\ tp.call \in TimeBench(menu)
                        /\ tp.ops \in Seq(Op) /\ (tp.selected => tp.ops # <<>>)
    /\ tp.pc = "hlt" =>
          /\ tp.call.n \in Nat /\ tp.got[1] \in Int /\ tp.got[2] \in Nat /\ tp.got[3] \in Nat
          /\ tp.call.n - tp.got[1] + Time!Passed(clock.ticks, tp.got[2]) <= clock.true - tp.got[3]

\* What the last call answered of the clock and of a delay.
SaysInv == Time!ClockExact /\ Time!DelayElapsed

\* A periodic interrupt is counted down once, and at most one was pending when
\* the interval was set.  Nothing else in such a menu writes register B.
WaitInv ==
    /\ rtc = [b |-> rtc.b, c |-> rtc.c, index |-> rtc.index, irq |-> rtc.irq, bytes |-> rtc.bytes]
    /\ interval = [on |-> interval.on, left |-> interval.left, asked |-> interval.asked,
                   flag |-> interval.flag, periods |-> interval.periods]
    /\ interval.left \in Nat /\ interval.asked \in Nat /\ interval.periods \in Nat
    /\ interval.on =>
          /\ ~interval.flag /\ "PIE" \in rtc.b
          /\ \E call \in TimeBench(menu) : call.fn = "interval"
          /\ \/ interval.asked - interval.left <= Period * interval.periods
             \/ /\ "PF" \notin rtc.c
                /\ interval.asked - interval.left <= Period * interval.periods + Period
    /\ interval.flag => interval.periods >= interval.asked \div Period

TimeInv == ClockInv /\ ProgramInv /\ SaysInv /\ WaitInv

\* What a step leaves alone, and what a call that ends leaves.
LEMMA ClockStays == ASSUME ClockInv, UNCHANGED <<menu, clock>> PROVE ClockInv'
  BY DEF ClockInv
LEMMA ProgramStays == ASSUME ProgramInv, UNCHANGED <<menu, clock, tp>> PROVE ProgramInv'
  BY DEF ProgramInv, Time!Passed
LEMMA SaysStays == ASSUME SaysInv, UNCHANGED clockSays PROVE SaysInv'
  BY DEF SaysInv, Time!ClockExact, Time!DelayElapsed
LEMMA WaitStays == ASSUME WaitInv, UNCHANGED <<menu, rtc, interval>> PROVE WaitInv'
  BY DEF WaitInv
LEMMA ProgramIdle == ASSUME tp' = Time!Idle PROVE ProgramInv'
  BY DEF ProgramInv, Time!Idle
LEMMA SaysOther == ASSUME clockSays'.fn \notin {"clock", "delay"} PROVE SaysInv'
  BY DEF SaysInv, Time!ClockExact, Time!DelayElapsed

LEMMA TimeStart == Time!TimeInit => TimeInv
<1> SUFFICES ASSUME Time!TimeInit PROVE TimeInv
  OBVIOUS
<1>1. ClockInv
  BY TimeAssumption DEF Time!TimeInit, ClockInv
<1>2. ProgramInv
  BY DEF Time!TimeInit, Time!Idle, ProgramInv
<1>3. SaysInv
  BY DEF Time!TimeInit, SaysInv, Time!Silence, Time!ClockExact, Time!DelayElapsed
<1>4. WaitInv
  BY DEF Time!TimeInit, WaitInv
<1> QED
  BY <1>1, <1>2, <1>3, <1>4 DEF TimeInv

\* Interrupts are off while the count is read, so a tick finds no reading half
\* done; a delay notices no more ticks than there were.
LEMMA TickedProgram ==
    ASSUME ProgramInv, tp.if, UNCHANGED <<menu, tp>>,
           clock.ticks \in Nat, clock'.ticks \in Nat, clock.true \in Nat, clock'.true = clock.true + 1,
           \A prev \in Nat : Time!Passed(clock'.ticks, prev) <= Time!Passed(clock.ticks, prev) + 1
    PROVE  ProgramInv'
<1>1. tp.pc \notin {"high", "low", "flag"}
  BY DEF ProgramInv
<1>2. ASSUME tp.pc = "hlt"
      PROVE  tp.call.n - tp.got[1] + Time!Passed(clock'.ticks, tp.got[2]) <= clock'.true - tp.got[3]
  <2>1. /\ tp.call.n \in Nat /\ tp.got[1] \in Int /\ tp.got[2] \in Nat /\ tp.got[3] \in Nat
        /\ tp.call.n - tp.got[1] + Time!Passed(clock.ticks, tp.got[2]) <= clock.true - tp.got[3]
    BY <1>2 DEF ProgramInv
  <2> DEFINE p == Time!Passed(clock.ticks, tp.got[2])
             q == Time!Passed(clock'.ticks, tp.got[2])
  <2>2. p \in Int /\ q \in Int /\ q <= p + 1
    BY <2>1 DEF Time!Passed
  <2>3. tp.call.n - tp.got[1] + p <= clock.true - tp.got[3]
    BY <2>1
  <2> HIDE DEF p, q
  <2>4. tp.call.n - tp.got[1] + q <= clock'.true - tp.got[3]
    BY <2>1, <2>2, <2>3
  <2> QED
    BY <2>4 DEF q
<1> QED
  BY <1>1, <1>2 DEF ProgramInv

\* One more tick, at midnight too, is one more tick of all of these.
LEMMA TimeTick == ASSUME TimeInv, Time!int08_ticks PROVE TimeInv'
<1>1. /\ DayTicks \in Nat /\ DayTicks > 0 /\ clock.ticks \in 0 .. DayTicks - 1 /\ clock.flag \in 0 .. 255
      /\ clock.true = clock.flag * DayTicks + clock.ticks
      /\ clock = [ticks |-> clock.ticks, flag |-> clock.flag, true |-> clock.true]
  BY TimeAssumption DEF TimeInv, ClockInv
<1>2. clock.true \in Nat /\ clock.true + 1 < 256 * DayTicks
  <2>1. TickLimit(menu) \in Nat /\ TickLimit(menu) < 256 * DayTicks
    BY TimeAssumption DEF TimeInv, ClockInv
  <2>2. clock.true < TickLimit(menu)
    BY DEF Time!int08_ticks
  <2>3. clock.flag * DayTicks \in Nat
    BY <1>1
  <2>4. clock.true \in Nat
    BY <1>1, <2>3
  <2> QED
    BY <2>1, <2>2, <2>4, <1>1
<1>3. clock' = Time!Tick(clock) /\ UNCHANGED <<menu, rtc, interval, tp, clockSays>> /\ tp.if
  BY DEF Time!int08_ticks
<1>4. CASE clock.ticks + 1 >= DayTicks
  <2>1. clock.ticks + 1 = DayTicks /\ clock.true + 1 = (clock.flag + 1) * DayTicks
    BY <1>1, <1>4
  <2>2. clock.flag + 1 < 256
    <3> SUFFICES ASSUME clock.flag = 255 PROVE FALSE
      BY <1>1
    <3> QED
      BY <1>1, <1>2, <2>1
  <2>3. clock'.ticks = 0 /\ clock'.flag = clock.flag + 1 /\ clock'.true = clock.true + 1
        /\ clock' = [ticks |-> clock'.ticks, flag |-> clock'.flag, true |-> clock'.true]
    <3>1. clock' = [clock EXCEPT !.ticks = 0, !.flag = (@ + 1) % 256, !.true = @ + 1]
      BY <1>1, <1>3, <1>4 DEF Time!Tick
    <3>2. clock' = [ticks |-> 0, flag |-> (clock.flag + 1) % 256, true |-> clock.true + 1]
      BY <1>1, <3>1
    <3>3. (clock.flag + 1) % 256 = clock.flag + 1
      BY <1>1, <2>2
    <3> QED
      BY <3>2, <3>3
  <2>4. ClockInv'
    BY <1>1, <1>3, <2>1, <2>2, <2>3 DEF ClockInv, TimeInv
  <2>5. \A prev \in Nat : Time!Passed(clock'.ticks, prev) <= Time!Passed(clock.ticks, prev) + 1
    BY <1>1, <2>3 DEF Time!Passed
  <2>6. clock.ticks \in Nat /\ clock'.ticks \in Nat /\ clock.true \in Nat /\ clock'.true = clock.true + 1
    BY <1>1, <1>2, <2>3
  <2>7. ProgramInv /\ tp.if /\ UNCHANGED <<menu, tp>>
    BY <1>3 DEF TimeInv
  <2>8. ProgramInv'
    BY <2>5, <2>6, <2>7, TickedProgram
  <2> QED
    BY <1>3, <2>4, <2>8, SaysStays, WaitStays DEF TimeInv
<1>5. CASE clock.ticks + 1 < DayTicks
  <2>3. clock'.ticks = clock.ticks + 1 /\ clock'.flag = clock.flag /\ clock'.true = clock.true + 1
        /\ clock' = [ticks |-> clock'.ticks, flag |-> clock'.flag, true |-> clock'.true]
    <3>1. clock' = [clock EXCEPT !.ticks = @ + 1, !.true = @ + 1]
      BY <1>1, <1>3, <1>5 DEF Time!Tick
    <3>2. clock' = [ticks |-> clock.ticks + 1, flag |-> clock.flag, true |-> clock.true + 1]
      BY <1>1, <3>1
    <3> QED
      BY <3>2
  <2>4. ClockInv'
    BY <1>1, <1>3, <1>5, <2>3 DEF ClockInv, TimeInv
  <2>5. \A prev \in Nat : Time!Passed(clock'.ticks, prev) <= Time!Passed(clock.ticks, prev) + 1
    BY <1>1, <2>3 DEF Time!Passed
  <2>6. clock.ticks \in Nat /\ clock'.ticks \in Nat /\ clock.true \in Nat /\ clock'.true = clock.true + 1
    BY <1>1, <1>2, <2>3
  <2>7. ProgramInv /\ tp.if /\ UNCHANGED <<menu, tp>>
    BY <1>3 DEF TimeInv
  <2>8. ProgramInv'
    BY <2>5, <2>6, <2>7, TickedProgram
  <2> QED
    BY <1>3, <2>4, <2>8, SaysStays, WaitStays DEF TimeInv
<1> QED
  BY <1>1, <1>4, <1>5

LEMMA DivMod ==
    ASSUME NEW n \in Nat, NEW d \in Nat, d > 0
    PROVE  /\ n \div d \in Int /\ n % d \in Int
           /\ (n \div d) * d + (n % d) = n
  OBVIOUS

\* The count, read in two words, is put together again.
LEMMA TimeRead ==
    ASSUME TimeInv, Time!ReadHigh \/ Time!ReadLow \/ Time!ReadFlag
    PROVE  TimeInv'
<1>1. /\ tp = [pc |-> tp.pc, call |-> tp.call, ops |-> tp.ops, selected |-> tp.selected, b |-> tp.b,
               cf |-> tp.cf, if |-> tp.if, got |-> tp.got]
      /\ tp.pc \in {"high", "low", "flag"} /\ ~tp.if
  BY DEF TimeInv, ProgramInv, Time!ReadHigh, Time!ReadLow, Time!ReadFlag
<1>2. CASE Time!ReadHigh
  <2>1. UNCHANGED <<menu, clock, rtc, interval, clockSays>>
    BY <1>2 DEF Time!ReadHigh
  <2>2. clock.ticks \div LowWord \in Int
    BY TimeAssumption, DivMod DEF TimeInv, ClockInv
  <2>3. ProgramInv'
    <3>1. tp' = [tp EXCEPT !.pc = "low", !.got = <<clock.ticks \div LowWord>>]
      BY <1>2 DEF Time!ReadHigh
    <3>2. /\ tp'.pc = "low" /\ tp'.if = tp.if /\ tp'.got = <<clock.ticks \div LowWord>>
          /\ tp' = [pc |-> tp'.pc, call |-> tp'.call, ops |-> tp'.ops, selected |-> tp'.selected,
                    b |-> tp'.b, cf |-> tp'.cf, if |-> tp'.if, got |-> tp'.got]
      BY <1>1, <3>1
    <3>3. tp'.got \in Seq(Int) /\ Len(tp'.got) = 1 /\ tp'.got[1] = clock'.ticks \div LowWord
      BY <2>1, <2>2, <3>2
    <3> QED
      BY <1>1, <3>2, <3>3 DEF ProgramInv
  <2> QED
    BY <2>1, <2>3, ClockStays, SaysStays, WaitStays DEF TimeInv
<1>3. CASE Time!ReadLow
  <2>1. /\ UNCHANGED <<menu, clock, rtc, interval, clockSays>>
        /\ tp.got \in Seq(Int) /\ Len(tp.got) = 1 /\ tp.got[1] = clock.ticks \div LowWord
    BY <1>3 DEF Time!ReadLow, TimeInv, ProgramInv
  <2>2. LET got == Append(tp.got, clock.ticks % LowWord)
        IN  got[1] = clock.ticks \div LowWord /\ got[2] = clock.ticks % LowWord
    <3>1. clock.ticks % LowWord \in Int
      BY TimeAssumption, DivMod DEF TimeInv, ClockInv
    <3> QED
      BY <2>1, <3>1, AppendProperties
  <2>3. ProgramInv'
    BY <1>1, <1>3, <2>1, <2>2 DEF Time!ReadLow, ProgramInv
  <2> QED
    BY <2>1, <2>3, ClockStays, SaysStays, WaitStays DEF TimeInv
<1>4. CASE Time!ReadFlag
  <2>1. /\ tp' = Time!Idle /\ UNCHANGED <<menu, rtc, interval>>
        /\ clock' = [clock EXCEPT !.flag = 0, !.true = clock.ticks]
        /\ clockSays' = [fn |-> "clock",
                         count |-> clock.flag * DayTicks + tp.got[1] * LowWord + tp.got[2],
                         true |-> clock.true]
    BY <1>4 DEF Time!ReadFlag, Time!Answers
  <2>2. /\ clock = [ticks |-> clock.ticks, flag |-> clock.flag, true |-> clock.true]
        /\ DayTicks \in Nat /\ clock.ticks \in 0 .. DayTicks - 1 /\ clock.flag \in Nat
        /\ clock.true = clock.flag * DayTicks + clock.ticks
        /\ LowWord \in Nat /\ LowWord > 0 /\ menu \in TimeMenus
    BY TimeAssumption DEF TimeInv, ClockInv
  <2>3. clock' = [ticks |-> clock.ticks, flag |-> 0, true |-> clock.ticks]
    BY <2>1, <2>2
  <2>4. ClockInv'
    <3>1. /\ clock'.ticks = clock.ticks /\ clock'.flag = 0 /\ clock'.true = clock.ticks
          /\ clock' = [ticks |-> clock'.ticks, flag |-> clock'.flag, true |-> clock'.true]
      BY <2>3
    <3>2. clock'.true = clock'.flag * DayTicks + clock'.ticks
      BY <2>2, <3>1
    <3> QED
      BY <2>1, <2>2, <3>1, <3>2 DEF ClockInv
  <2>5. tp.got[1] = clock.ticks \div LowWord /\ tp.got[2] = clock.ticks % LowWord
    BY <1>4 DEF Time!ReadFlag, TimeInv, ProgramInv
  <2>6. (clock.ticks \div LowWord) * LowWord + (clock.ticks % LowWord) = clock.ticks
    BY <2>2, DivMod
  <2>7. clockSays'.count = clockSays'.true
    <3> DEFINE high == (clock.ticks \div LowWord) * LowWord
               low == clock.ticks % LowWord
               midnights == clock.flag * DayTicks
    <3>1. high \in Int /\ low \in Int /\ midnights \in Int
      BY <2>2
    <3>2. high + low = clock.ticks /\ clock.true = midnights + clock.ticks
      BY <2>2, <2>6
    <3>3. clockSays'.count = midnights + high + low /\ clockSays'.true = clock.true
      BY <2>1, <2>5
    <3> HIDE DEF high, low, midnights
    <3> QED
      BY <3>1, <3>2, <3>3
  <2>8. SaysInv'
    BY <2>1, <2>7 DEF SaysInv, Time!ClockExact, Time!DelayElapsed
  <2> QED
    BY <2>1, <2>4, <2>8, ProgramIdle, WaitStays DEF TimeInv
<1> QED
  BY <1>2, <1>3, <1>4

LEMMA TimeDelay == ASSUME TimeInv, Time!DelayLoop PROVE TimeInv'
<1> DEFINE p == Time!Passed(clock.ticks, tp.got[2])
           left == tp.got[1] - p
<1>1. /\ tp.call.n \in Nat /\ tp.got[1] \in Int /\ tp.got[2] \in Nat /\ tp.got[3] \in Nat
      /\ tp.call.n - tp.got[1] + p <= clock.true - tp.got[3]
      /\ tp = [pc |-> tp.pc, call |-> tp.call, ops |-> tp.ops, selected |-> tp.selected, b |-> tp.b,
               cf |-> tp.cf, if |-> tp.if, got |-> tp.got]
      /\ tp.pc = "hlt"
  BY DEF Time!DelayLoop, TimeInv, ProgramInv
<1>2. /\ DayTicks \in Nat /\ clock.ticks \in 0 .. DayTicks - 1
      /\ clock.true = clock.flag * DayTicks + clock.ticks /\ clock.flag \in Nat
  BY TimeAssumption DEF TimeInv, ClockInv
<1>3. p \in Int /\ left \in Int /\ clock.true \in Int
  <2>1. p \in Int
    BY <1>1, <1>2 DEF Time!Passed
  <2>2. clock.flag * DayTicks \in Int
    BY <1>2
  <2> QED
    BY <1>1, <1>2, <2>1, <2>2
<1>4. UNCHANGED <<menu, clock, rtc, interval>>
  BY DEF Time!DelayLoop
<1>5. CASE left > 0
  <2>1. tp' = [tp EXCEPT !.got = <<left, clock.ticks, @[3]>>] /\ UNCHANGED clockSays
    BY <1>5 DEF Time!DelayLoop
  <2>2. Time!Passed(clock'.ticks, clock.ticks) = 0
    BY <1>2, <1>4 DEF Time!Passed
  <2>3. tp.call.n - left <= clock.true - tp.got[3]
    BY <1>1, <1>3
  <2> HIDE DEF left
  <2>4. /\ tp'.pc = "hlt" /\ tp'.call = tp.call /\ tp'.got = <<left, clock.ticks, tp.got[3]>>
        /\ tp' = [pc |-> tp'.pc, call |-> tp'.call, ops |-> tp'.ops, selected |-> tp'.selected, b |-> tp'.b,
                  cf |-> tp'.cf, if |-> tp'.if, got |-> tp'.got]
    BY <1>1, <2>1
  <2>5. ProgramInv'
    BY <1>1, <1>2, <1>3, <1>4, <2>2, <2>3, <2>4 DEF ProgramInv
  <2> QED
    BY <1>4, <2>1, <2>5, ClockStays, SaysStays, WaitStays DEF TimeInv
<1>6. CASE ~(left > 0)
  <2>1. /\ tp' = Time!Idle
        /\ clockSays' = [fn |-> "delay", asked |-> tp.call.n, true |-> clock.true - tp.got[3]]
    BY <1>6 DEF Time!DelayLoop, Time!Answers
  <2>2. tp.call.n <= clock.true - tp.got[3]
    BY <1>1, <1>3, <1>6
  <2>3. SaysInv'
    BY <1>1, <1>3, <2>1, <2>2 DEF SaysInv, Time!ClockExact, Time!DelayElapsed
  <2> QED
    BY <1>4, <2>1, <2>3, ClockStays, ProgramIdle, WaitStays DEF TimeInv
<1> QED
  BY <1>5, <1>6

-----------------------------------------------------------------------------
(* The program's calls. *)

LEMMA TimeCallClock ==
    ASSUME TimeInv, NEW call \in TimeBench(menu), tp.pc = "idle", UNCHANGED menu,
           Time!ReadClock(call) \/ Time!SetClock(call) \/ Time!delay_ticks(call)
    PROVE  TimeInv'
<1>1. /\ DayTicks \in Nat /\ DayTicks > 0 /\ call.n \in Nat
      /\ call.fn = "setclock" => call.n < DayTicks
  BY TimeAssumption DEF TimeInv, ClockInv
<1>2. CASE Time!ReadClock(call)
  <2>1. tp' = [Time!Idle EXCEPT !.pc = "high", !.call = call, !.if = FALSE]
        /\ UNCHANGED <<menu, clock, rtc, interval, clockSays>>
    BY <1>2 DEF Time!ReadClock, Time!Closed
  <2>2. ProgramInv'
    BY <2>1 DEF Time!Idle, ProgramInv
  <2> QED
    BY <2>1, <2>2, ClockStays, SaysStays, WaitStays DEF TimeInv
<1>3. CASE Time!SetClock(call)
  <2>1. /\ clock' = [ticks |-> call.n, flag |-> 0, true |-> call.n] /\ tp' = Time!Idle
        /\ clockSays'.fn = "setclock" /\ UNCHANGED <<menu, rtc, interval>> /\ call.n < DayTicks
    BY <1>1, <1>3 DEF Time!SetClock, Time!Answers
  <2>2. /\ clock'.ticks = call.n /\ clock'.flag = 0 /\ clock'.true = call.n
        /\ clock' = [ticks |-> clock'.ticks, flag |-> clock'.flag, true |-> clock'.true]
    BY <2>1
  <2>3. clock'.true = clock'.flag * DayTicks + clock'.ticks
    BY <1>1, <2>2
  <2>4. ClockInv'
    BY <1>1, <2>1, <2>2, <2>3 DEF TimeInv, ClockInv
  <2> QED
    BY <2>1, <2>4, ProgramIdle, SaysOther, WaitStays DEF TimeInv
<1>4. CASE Time!delay_ticks(call)
  <2>1. tp' = [Time!Idle EXCEPT !.pc = "hlt", !.call = call, !.got = <<call.n, clock.ticks, clock.true>>]
        /\ UNCHANGED <<menu, clock, rtc, interval, clockSays>>
    BY <1>4 DEF Time!delay_ticks
  <2>2. clock.ticks \in Nat /\ clock.true \in Nat
    <3>1. clock.flag \in Nat /\ clock.ticks \in Nat /\ clock.true = clock.flag * DayTicks + clock.ticks
      BY <1>1 DEF TimeInv, ClockInv
    <3>2. clock.flag * DayTicks \in Nat
      BY <1>1, <3>1
    <3> QED
      BY <3>1, <3>2
  <2>3. Time!Passed(clock.ticks, clock.ticks) = 0
    BY <2>2 DEF Time!Passed
  <2>4. call.n - call.n + 0 <= clock.true - clock.true
    BY <1>1, <2>2
  <2>5. /\ tp'.pc = "hlt" /\ tp'.call = call /\ tp'.got = <<call.n, clock.ticks, clock.true>>
        /\ tp' = [pc |-> tp'.pc, call |-> tp'.call, ops |-> tp'.ops, selected |-> tp'.selected,
                  b |-> tp'.b, cf |-> tp'.cf, if |-> tp'.if, got |-> tp'.got]
    BY <2>1 DEF Time!Idle
  <2>6. ProgramInv'
    BY <1>1, <2>1, <2>2, <2>3, <2>4, <2>5 DEF ProgramInv
  <2> QED
    BY <2>1, <2>6, ClockStays, SaysStays, WaitStays DEF TimeInv
<1> QED
  BY <1>2, <1>3, <1>4

\* Every access a call makes is one to a register there is.
LEMMA AccessesType ==
    /\ Time!init_rtc \in Seq(Op)
    /\ \A fn \in Time!RtcCalls : Time!Accesses(fn) \in Seq(Op)
<1> DEFINE Regs == {"A", "B", "C", "D"} \cup Time!Bytes
<1>1. \A reg \in Regs : Time!R(reg) \in Op /\ Time!W(reg) \in Op
  BY DEF Time!R, Time!W, Op
<1>2. \A keep, add \in SUBSET Time!Both : Time!WB(keep, add) \in Op
  BY DEF Time!WB, Op
<1>3. /\ Time!R("A") \in Op /\ Time!R("B") \in Op /\ Time!R("C") \in Op /\ Time!R("D") \in Op
      /\ Time!W("A") \in Op
      /\ \A reg \in Time!Bytes : Time!R(reg) \in Op /\ Time!W(reg) \in Op
  BY <1>1
<1>4. /\ Time!WB({}, {}) \in Op /\ Time!WB(Time!Both, {}) \in Op
      /\ Time!WB(Time!Both, {"AIE"}) \in Op /\ Time!WB({"PIE"}, {}) \in Op
  BY <1>2 DEF Time!Both
<1>5. {"seconds", "hours", "date", "alarm"} = Time!Bytes
  BY DEF Time!Bytes
<1>6. Time!init_rtc \in Seq(Op)
  BY <1>3, <1>4 DEF Time!init_rtc
<1>7. ASSUME NEW fn \in Time!RtcCalls PROVE Time!Accesses(fn) \in Seq(Op)
  <2>1. CASE fn = "readtime"
    BY <2>1, <1>3, <1>4, <1>5 DEF Time!Accesses
  <2>2. CASE fn = "settime"
    BY <2>2, <1>3, <1>4, <1>5 DEF Time!Accesses
  <2>3. CASE fn = "readdate"
    BY <2>3, <1>3, <1>4, <1>5 DEF Time!Accesses
  <2>4. CASE fn = "setdate"
    BY <2>4, <1>3, <1>4, <1>5 DEF Time!Accesses
  <2>5. CASE fn = "setalarm"
    BY <2>5, <1>3, <1>4, <1>5 DEF Time!Accesses
  <2>6. CASE fn = "alarmoff"
    BY <2>6, <1>3, <1>4, <1>5 DEF Time!Accesses
  <2> QED
    BY <1>7, <2>1, <2>2, <2>3, <2>4, <2>5, <2>6 DEF Time!RtcCalls
<1> QED
  BY <1>6, <1>7

\* The shape of the registers and of the interval.
LEMMA WaitShape ==
    ASSUME WaitInv
    PROVE  /\ rtc = [b |-> rtc.b, c |-> rtc.c, index |-> rtc.index, irq |-> rtc.irq, bytes |-> rtc.bytes]
           /\ interval = [on |-> interval.on, left |-> interval.left, asked |-> interval.asked,
                          flag |-> interval.flag, periods |-> interval.periods]
  BY DEF WaitInv

LEMMA TimeCallWait ==
    ASSUME TimeInv, NEW call \in TimeBench(menu), tp.pc = "idle", UNCHANGED menu,
           Time!SetInterval(call) \/ Time!ClearInterval(call) \/ Time!BadInterval(call) \/ Time!Rtc(call)
    PROVE  TimeInv'
<1>1. Period \in Nat /\ call.n \in Nat
  BY TimeAssumption DEF TimeInv, ClockInv
<1>2. CASE Time!SetInterval(call)
  <2>1. call.fn = "interval" /\ tp' = Time!Idle /\ clockSays'.fn = "interval" /\ UNCHANGED <<menu, clock>>
    BY <1>2 DEF Time!SetInterval, Time!Answers
  <2>2. CASE ~Time!Free
    BY <1>2, <2>1, <2>2, ClockStays, ProgramIdle, SaysOther, WaitStays DEF Time!SetInterval, TimeInv
  <2>3. CASE Time!Free
    <3>1. /\ interval' = [on |-> TRUE, left |-> call.n, asked |-> call.n, flag |-> FALSE, periods |-> 0]
          /\ rtc' = [rtc EXCEPT !.b = @ \cup {"PIE"}, !.index = "B", !.irq = @ \/ "PF" \in rtc.c]
      BY <1>2, <2>3 DEF Time!SetInterval
    <3>2. "PIE" \in rtc'.b
          /\ rtc' = [b |-> rtc'.b, c |-> rtc'.c, index |-> rtc'.index, irq |-> rtc'.irq, bytes |-> rtc'.bytes]
      BY <3>1, WaitShape DEF TimeInv
    <3>3. call.n - call.n <= Period * 0
      BY <1>1
    <3>4. WaitInv'
      BY <1>1, <2>1, <3>1, <3>2, <3>3 DEF WaitInv
    <3> QED
      BY <2>1, <3>4, ClockStays, ProgramIdle, SaysOther DEF TimeInv
  <2> QED
    BY <2>2, <2>3
<1>3. CASE Time!ClearInterval(call)
  <2>1. /\ interval' = [interval EXCEPT !.on = FALSE] /\ rtc' = [rtc EXCEPT !.b = @ \ {"PIE"}, !.index = "B"]
        /\ tp' = Time!Idle /\ clockSays'.fn = "clear" /\ UNCHANGED <<menu, clock>>
    BY <1>3 DEF Time!ClearInterval, Time!Answers
  <2>2. WaitInv'
    BY <2>1 DEF TimeInv, WaitInv
  <2> QED
    BY <2>1, <2>2, ClockStays, ProgramIdle, SaysOther DEF TimeInv
<1>4. CASE Time!BadInterval(call)
  <2>1. tp' = Time!Idle /\ clockSays'.fn = "bad" /\ UNCHANGED <<menu, clock, rtc, interval>>
    BY <1>4 DEF Time!BadInterval, Time!Answers
  <2> QED
    BY <2>1, ClockStays, ProgramIdle, SaysOther, WaitStays DEF TimeInv
<1>5. CASE Time!Rtc(call)
  <2>1. /\ tp' = [Time!Idle EXCEPT !.pc = "rtc", !.call = call, !.ops = Time!Accesses(call.fn)]
        /\ call.fn \in Time!RtcCalls /\ UNCHANGED <<menu, clock, rtc, interval, clockSays>>
    BY <1>5 DEF Time!Rtc
  <2>2. /\ tp'.pc = "rtc" /\ tp'.call = call /\ tp'.ops = Time!Accesses(call.fn) /\ ~tp'.selected
        /\ tp' = [pc |-> tp'.pc, call |-> tp'.call, ops |-> tp'.ops, selected |-> tp'.selected,
                  b |-> tp'.b, cf |-> tp'.cf, if |-> tp'.if, got |-> tp'.got]
    BY <2>1 DEF Time!Idle
  <2>3. ProgramInv'
    BY <2>1, <2>2, AccessesType DEF ProgramInv
  <2> QED
    BY <2>1, <2>3, ClockStays, SaysStays, WaitStays DEF TimeInv
<1> QED
  BY <1>2, <1>3, <1>4, <1>5

LEMMA TimeCall == ASSUME TimeInv, Time!Call PROVE TimeInv'
<1> PICK call \in TimeBench(menu) :
           \/ Time!ReadClock(call) \/ Time!SetClock(call) \/ Time!delay_ticks(call)
           \/ Time!SetInterval(call) \/ Time!ClearInterval(call) \/ Time!BadInterval(call) \/ Time!Rtc(call)
  BY DEF Time!Call
<1>1. tp.pc = "idle" /\ UNCHANGED menu
  BY DEF Time!Call
<1> QED
  BY <1>1, TimeCallClock, TimeCallWait

-----------------------------------------------------------------------------
(* Accesses to the real-time clock. *)

\* A menu that has such calls has no wait intervals.
LEMMA RtcNotWaiting == ASSUME TimeInv, tp.pc = "rtc" PROVE ~interval.on
<1> SUFFICES ASSUME interval.on PROVE FALSE
  OBVIOUS
<1>1. PICK call \in TimeBench(menu) : call.fn = "interval"
  BY DEF TimeInv, WaitInv
<1>2. tp.call \in TimeBench(menu) /\ tp.call.fn \in Time!RtcCalls /\ menu \in TimeMenus
  BY DEF TimeInv, ProgramInv, ClockInv
<1> QED
  BY <1>1, <1>2, TimeAssumption

LEMMA NotWaiting ==
    ASSUME WaitInv, ~interval.on, UNCHANGED <<menu, interval>>,
           rtc' = [b |-> rtc'.b, c |-> rtc'.c, index |-> rtc'.index, irq |-> rtc'.irq, bytes |-> rtc'.bytes]
    PROVE  WaitInv'
  BY DEF WaitInv

\* The accesses that are left, with one done or the clock started again.
TpLike(ops, selected) ==
    /\ tp'.pc = "rtc" /\ tp'.call = tp.call /\ tp'.ops = ops /\ tp'.selected = selected
    /\ tp' = [pc |-> tp'.pc, call |-> tp'.call, ops |-> tp'.ops, selected |-> tp'.selected,
              b |-> tp'.b, cf |-> tp'.cf, if |-> tp'.if, got |-> tp'.got]

LEMMA RtcGoesOn ==
    ASSUME ProgramInv, tp.pc = "rtc", UNCHANGED menu, NEW ops \in Seq(Op), NEW selected \in BOOLEAN,
           selected => ops # <<>>, TpLike(ops, selected)
    PROVE  ProgramInv'
  BY DEF ProgramInv, TpLike

LEMMA TimeSelect == ASSUME TimeInv, Time!Select PROVE TimeInv'
<1>1. /\ tp.pc = "rtc" /\ tp.ops # <<>> /\ tp' = [tp EXCEPT !.selected = TRUE]
      /\ rtc' = [rtc EXCEPT !.index = Time!Access.reg] /\ UNCHANGED <<menu, clock, interval, clockSays>>
  BY DEF Time!Select
<1>2. tp.ops \in Seq(Op) /\ TpLike(tp.ops, TRUE)
  BY <1>1 DEF TimeInv, ProgramInv, TpLike
<1>3. ProgramInv'
  BY <1>1, <1>2, RtcGoesOn DEF TimeInv
<1>4. rtc' = [b |-> rtc'.b, c |-> rtc'.c, index |-> rtc'.index, irq |-> rtc'.irq, bytes |-> rtc'.bytes]
  BY <1>1, WaitShape DEF TimeInv
<1>5. WaitInv'
  BY <1>1, <1>4, RtcNotWaiting, NotWaiting DEF TimeInv
<1> QED
  BY <1>1, <1>3, <1>5, ClockStays, SaysStays DEF TimeInv

\* What the next access is.
LEMMA AccessType ==
    ASSUME ProgramInv, tp.pc = "rtc", tp.selected
    PROVE  Time!Access \in Op /\ Tail(tp.ops) \in Seq(Op)
<1>1. tp.ops \in Seq(Op) /\ tp.ops # <<>>
  BY DEF ProgramInv
<1> QED
  BY <1>1, HeadTailProperties DEF Time!Access

LEMMA TimeReadData == ASSUME TimeInv, Time!ReadData PROVE TimeInv'
<1> DEFINE Rest == Tail(tp.ops)
<1>1. /\ tp.pc = "rtc" /\ tp.selected /\ UNCHANGED <<menu, clock, interval>>
      /\ rtc' = IF rtc.index = "C" THEN [rtc EXCEPT !.c = {}] ELSE rtc
  BY DEF Time!ReadData
<1>2. Time!Access \in Op /\ Rest \in Seq(Op) /\ Time!init_rtc \in Seq(Op)
  BY <1>1, AccessType, AccessesType DEF TimeInv
<1>3. tp = [pc |-> tp.pc, call |-> tp.call, ops |-> tp.ops, selected |-> tp.selected, b |-> tp.b,
           cf |-> tp.cf, if |-> tp.if, got |-> tp.got]
  BY DEF TimeInv, ProgramInv
<1>4. Time!init_rtc \o Rest \in Seq(Op)
  BY <1>2, ConcatProperties
<1> HIDE DEF Rest
<1>5. \/ tp' = Time!Idle /\ clockSays'.fn = tp.call.fn
      \/ UNCHANGED clockSays /\ \E ops \in Seq(Op) : TpLike(ops, FALSE)
  <2>f. ASSUME Time!Fails PROVE tp' = Time!Idle /\ clockSays'.fn = tp.call.fn
    BY <2>f DEF Time!Fails, Time!Answers
  <2>1. CASE Time!Access.reg = "A"
    <3>1. PICK stuck \in BOOLEAN :
             CASE stuck /\ tp.call.fn \in {"readtime", "readdate"} -> Time!Fails
               [] stuck /\ tp.call.fn = "setdate" ->
                     tp' = [Time!Done("A") EXCEPT !.ops = Time!init_rtc, !.cf = TRUE] /\ UNCHANGED clockSays
               [] stuck /\ tp.call.fn \in {"settime", "setalarm"} ->
                     tp' = [Time!Done("A") EXCEPT !.ops = Time!init_rtc \o Tail(tp.ops)] /\ UNCHANGED clockSays
               [] OTHER -> tp' = Time!Done("A") /\ UNCHANGED clockSays
      BY <2>1 DEF Time!ReadData, Time!Bytes
    <3>2. CASE stuck /\ tp.call.fn \in {"readtime", "readdate"}
      BY <2>f, <3>1, <3>2
    <3>3. CASE stuck /\ tp.call.fn = "setdate"
      BY <1>1, <1>2, <1>3, <3>1, <3>3 DEF TpLike, Time!Done
    <3>4. CASE stuck /\ tp.call.fn \in {"settime", "setalarm"}
      BY <1>1, <1>3, <1>4, <3>1, <3>4 DEF TpLike, Rest, Time!Done
    <3>5. CASE ~(stuck /\ tp.call.fn \in {"readtime", "readdate", "setdate", "settime", "setalarm"})
      BY <1>1, <1>2, <1>3, <3>1, <3>5 DEF TpLike, Rest, Time!Done
    <3> QED
      BY <3>2, <3>3, <3>4, <3>5
  <2>2. CASE Time!Access.reg = "B"
    <3>1. \/ Time!Fails
          \/ \E b : tp' = [Time!Done("B") EXCEPT !.b = b] /\ UNCHANGED clockSays
      BY <2>2 DEF Time!ReadData, Time!Bytes
    <3>2. CASE Time!Fails
      BY <2>f, <3>2
    <3>3. ASSUME NEW b, tp' = [Time!Done("B") EXCEPT !.b = b], UNCHANGED clockSays
          PROVE  TpLike(Rest, FALSE)
      BY <1>1, <1>3, <3>3 DEF TpLike, Rest, Time!Done
    <3> QED
      BY <1>2, <3>1, <3>2, <3>3
  <2>3. CASE Time!Access.reg \in {"C", "D"}
    <3>1. tp' = Time!Done("C") /\ UNCHANGED clockSays
      BY <2>3 DEF Time!ReadData, Time!Bytes
    <3> QED
      BY <1>1, <1>2, <1>3, <3>1 DEF TpLike, Rest, Time!Done
  <2>4. CASE Time!Access.reg \in Time!Bytes
    <3>1. (\E byte : tp' = [Time!Done("byte") EXCEPT !.got = Append(@, byte)]) /\ UNCHANGED clockSays
      BY <2>4 DEF Time!ReadData, Time!Bytes
    <3> QED
      BY <1>1, <1>2, <1>3, <3>1 DEF TpLike, Rest, Time!Done
  <2> QED
    BY <1>2, <2>1, <2>2, <2>3, <2>4 DEF Op
<1>6. rtc' = [b |-> rtc'.b, c |-> rtc'.c, index |-> rtc'.index, irq |-> rtc'.irq, bytes |-> rtc'.bytes]
  BY <1>1, WaitShape DEF TimeInv
<1>7. WaitInv'
  BY <1>1, <1>6, RtcNotWaiting, NotWaiting DEF TimeInv
<1>8. ProgramInv' /\ SaysInv'
  <2>1. CASE tp' = Time!Idle /\ clockSays'.fn = tp.call.fn
    <3>1. tp.call.fn \in Time!RtcCalls
      BY <1>1 DEF TimeInv, ProgramInv
    <3>2. clockSays'.fn \notin {"clock", "delay"}
      BY <2>1, <3>1 DEF Time!RtcCalls
    <3> QED
      BY <2>1, <3>2, ProgramIdle, SaysOther
  <2>2. CASE UNCHANGED clockSays /\ \E ops \in Seq(Op) : TpLike(ops, FALSE)
    BY <1>1, <2>2, RtcGoesOn, SaysStays DEF TimeInv
  <2> QED
    BY <1>5, <2>1, <2>2
<1> QED
  BY <1>1, <1>7, <1>8, ClockStays DEF TimeInv

LEMMA TimeWriteData == ASSUME TimeInv, Time!WriteData PROVE TimeInv'
<1>1. /\ tp.pc = "rtc" /\ tp.selected /\ UNCHANGED <<menu, clock, interval, clockSays>>
      /\ tp' = Time!Done("write")
  BY DEF Time!WriteData
<1>2. Tail(tp.ops) \in Seq(Op)
  BY <1>1, AccessType DEF TimeInv
<1>3. TpLike(Tail(tp.ops), FALSE)
  BY <1>1 DEF TimeInv, ProgramInv, TpLike, Time!Done
<1>4. ProgramInv'
  BY <1>1, <1>2, <1>3, RtcGoesOn DEF TimeInv
<1>5. rtc' = [b |-> rtc'.b, c |-> rtc'.c, index |-> rtc'.index, irq |-> rtc'.irq, bytes |-> rtc'.bytes]
  <2>1. \/ \E b : rtc' = [rtc EXCEPT !.b = b]
        \/ \E bytes : rtc' = [rtc EXCEPT !.bytes = bytes]
        \/ rtc' = rtc
    BY DEF Time!WriteData, Time!Bytes
  <2> QED
    BY <2>1, WaitShape DEF TimeInv
<1>6. WaitInv'
  BY <1>1, <1>5, RtcNotWaiting, NotWaiting DEF TimeInv
<1> QED
  BY <1>1, <1>4, <1>6, ClockStays, SaysStays DEF TimeInv

LEMMA TimeReturns == ASSUME TimeInv, Time!RtcReturns \/ Time!Taken PROVE TimeInv'
<1>1. CASE Time!RtcReturns
  <2>1. tp.pc = "rtc" /\ tp' = Time!Idle /\ clockSays'.fn = tp.call.fn /\ UNCHANGED <<menu, clock, rtc, interval>>
    BY <1>1 DEF Time!RtcReturns, Time!Answers
  <2>2. clockSays'.fn \notin {"clock", "delay"}
    BY <2>1 DEF TimeInv, ProgramInv, Time!RtcCalls
  <2> QED
    BY <2>1, <2>2, ClockStays, ProgramIdle, SaysOther, WaitStays DEF TimeInv
<1>2. CASE Time!Taken
  <2>1. clockSays'.fn = "none" /\ UNCHANGED <<menu, clock, rtc, interval, tp>>
    BY <1>2 DEF Time!Taken, Time!Silence
  <2> QED
    BY <2>1, ClockStays, ProgramStays, SaysOther, WaitStays DEF TimeInv
<1> QED
  BY <1>1, <1>2

-----------------------------------------------------------------------------
(* Periodic and alarm interrupts. *)

\* A periodic event is one more period; while one is pending there is no other.
LEMMA TimeEvent == ASSUME TimeInv, Time!Periodic \/ Time!Alarm PROVE TimeInv'
<1>1. UNCHANGED <<menu, clock, tp, clockSays>>
  BY DEF Time!Periodic, Time!Alarm, Time!Event
<1>2. /\ Period \in Nat /\ WaitInv
      /\ interval = [on |-> interval.on, left |-> interval.left, asked |-> interval.asked,
                     flag |-> interval.flag, periods |-> interval.periods]
      /\ interval.left \in Nat /\ interval.asked \in Nat /\ interval.periods \in Nat
  BY TimeAssumption DEF TimeInv, WaitInv
<1>3. WaitInv'
  <2>1. CASE Time!Alarm
    <3>1. /\ rtc' = [rtc EXCEPT !.c = @ \cup {"AF"}, !.irq = @ \/ "AIE" \in rtc.b]
          /\ UNCHANGED interval
      BY <2>1 DEF Time!Alarm, Time!Event
    <3>2. /\ rtc'.b = rtc.b /\ ("PF" \in rtc'.c <=> "PF" \in rtc.c)
          /\ rtc' = [b |-> rtc'.b, c |-> rtc'.c, index |-> rtc'.index, irq |-> rtc'.irq, bytes |-> rtc'.bytes]
      BY <1>2, <3>1, WaitShape
    <3> QED
      BY <1>1, <1>2, <3>1, <3>2 DEF WaitInv
  <2>2. CASE Time!Periodic
    <3>1. /\ "PF" \notin rtc.c
          /\ rtc' = [rtc EXCEPT !.c = @ \cup {"PF"}, !.irq = @ \/ "PIE" \in rtc.b]
          /\ interval' = IF interval.on THEN [interval EXCEPT !.periods = @ + 1] ELSE interval
      BY <2>2 DEF Time!Periodic, Time!Event
    <3>2. /\ rtc'.b = rtc.b
          /\ rtc' = [b |-> rtc'.b, c |-> rtc'.c, index |-> rtc'.index, irq |-> rtc'.irq, bytes |-> rtc'.bytes]
      BY <3>1, <1>2, WaitShape
    <3>3. CASE ~interval.on
      BY <1>1, <1>2, <3>1, <3>2, <3>3 DEF WaitInv
    <3>4. CASE interval.on
      <4>1. interval' = [interval EXCEPT !.periods = @ + 1]
        BY <3>1, <3>4
      <4>2. /\ interval'.on = interval.on /\ interval'.left = interval.left
            /\ interval'.asked = interval.asked /\ interval'.flag = interval.flag
            /\ interval'.periods = interval.periods + 1
            /\ interval' = [on |-> interval'.on, left |-> interval'.left, asked |-> interval'.asked,
                            flag |-> interval'.flag, periods |-> interval'.periods]
        BY <1>2, <4>1
      <4> DEFINE kept == Period * interval.periods
      <4>3. kept \in Nat /\ Period * (interval.periods + 1) = kept + Period
        BY <1>2
      <4>4. /\ ~interval.flag /\ "PIE" \in rtc.b
            /\ \E call \in TimeBench(menu) : call.fn = "interval"
            /\ interval.asked - interval.left <= kept + Period
        <5>1. /\ ~interval.flag /\ "PIE" \in rtc.b
              /\ \E call \in TimeBench(menu) : call.fn = "interval"
              /\ \/ interval.asked - interval.left <= kept
                 \/ interval.asked - interval.left <= kept + Period
          BY <1>2, <3>4 DEF WaitInv
        <5> HIDE DEF kept
        <5> QED
          BY <1>2, <4>3, <5>1
      <4>5. interval'.asked - interval'.left <= Period * interval'.periods
        <5> HIDE DEF kept
        <5> QED
          BY <4>2, <4>3, <4>4
      <4> QED
        BY <1>1, <1>2, <3>2, <4>2, <4>4, <4>5 DEF WaitInv
    <3> QED
      BY <3>3, <3>4
  <2> QED
    BY <2>1, <2>2
<1> QED
  BY <1>1, <1>3, ClockStays, ProgramStays, SaysStays DEF TimeInv

\* What is less than n + 1 periods has at most n whole ones.
LEMMA WholePeriods ==
    ASSUME NEW a \in Nat, NEW d \in Nat \ {0}, NEW n \in Nat, a < d * n + d
    PROVE  n >= a \div d
<1>1. a \div d \in Int /\ a % d \in Int /\ (a \div d) * d + (a % d) = a /\ a % d >= 0
  BY DivMod
<1> DEFINE q == a \div d
<1>2. q \in Int /\ q * d <= a
  <2> DEFINE m == q * d
             r == a % d
  <2>1. m \in Int /\ r \in Int /\ r >= 0 /\ m + r = a
    BY <1>1
  <2> HIDE DEF m, r
  <2>2. m <= a
    BY <2>1
  <2> QED
    BY <1>1, <2>2 DEF m
<1> HIDE DEF q
<1>3. SUFFICES ASSUME q >= n + 1 PROVE FALSE
  BY <1>2 DEF q
<1>4. q * d >= (n + 1) * d
  BY <1>2, <1>3
<1>5. (n + 1) * d = d * n + d
  OBVIOUS
<1>6. d * n \in Nat /\ q * d \in Int
  BY <1>2
<1> QED
  BY <1>2, <1>4, <1>5, <1>6

\* IRQ 8 counts the pending period down, and the last one ends the interval.
LEMMA TimeInterrupt == ASSUME TimeInv, Time!int70_function PROVE TimeInv'
<1>1. UNCHANGED <<menu, clock, tp, clockSays>>
  BY DEF Time!int70_function
<1>2. /\ Period \in Nat \ {0} /\ WaitInv
      /\ interval = [on |-> interval.on, left |-> interval.left, asked |-> interval.asked,
                     flag |-> interval.flag, periods |-> interval.periods]
      /\ interval.left \in Nat /\ interval.asked \in Nat /\ interval.periods \in Nat
  BY TimeAssumption DEF TimeInv, WaitInv
<1> DEFINE periodic == rtc.b # {} /\ "PF" \in rtc.c /\ interval.on
           over == periodic /\ interval.left < Period
           kept == Period * interval.periods
<1>3. PICK off \in BOOLEAN :
        /\ rtc' = [rtc EXCEPT !.c = {}, !.irq = FALSE,
                              !.b = IF over THEN @ \ {"PIE"}
                                    ELSE IF (rtc.b # {} /\ "AF" \in rtc.c) /\ off THEN rtc.b \ {"AIE"} ELSE rtc.b,
                              !.index = IF over \/ off THEN "B" ELSE "C"]
        /\ interval' = CASE over -> [interval EXCEPT !.on = FALSE, !.flag = TRUE]
                         [] periodic /\ ~over -> [interval EXCEPT !.left = @ - Period]
                         [] OTHER -> interval
  BY DEF Time!int70_function, Time!Over
<1>4. rtc' = [b |-> rtc'.b, c |-> rtc'.c, index |-> rtc'.index, irq |-> rtc'.irq, bytes |-> rtc'.bytes]
      /\ "PF" \notin rtc'.c
  BY <1>2, <1>3, WaitShape
<1>5. ~over /\ "PIE" \in rtc.b => "PIE" \in rtc'.b
  <2>1. ~over => rtc'.b = rtc.b \/ rtc'.b = rtc.b \ {"AIE"}
    BY <1>2, <1>3, WaitShape
  <2> HIDE DEF over
  <2> QED
    BY <2>1
<1>6. kept \in Nat
  BY <1>2
<1>7. ASSUME interval.on
      PROVE  /\ ~interval.flag /\ "PIE" \in rtc.b
             /\ \E call \in TimeBench(menu) : call.fn = "interval"
             /\ \/ interval.asked - interval.left <= kept
                \/ "PF" \notin rtc.c /\ interval.asked - interval.left <= kept + Period
  BY <1>2, <1>7 DEF WaitInv
<1>8. WaitInv'
  <2>1. CASE over
    <3>1. interval' = [interval EXCEPT !.on = FALSE, !.flag = TRUE]
      BY <1>3, <2>1
    <3>2. /\ interval'.on = FALSE /\ interval'.left = interval.left /\ interval'.asked = interval.asked
          /\ interval'.periods = interval.periods
          /\ interval' = [on |-> interval'.on, left |-> interval'.left, asked |-> interval'.asked,
                          flag |-> interval'.flag, periods |-> interval'.periods]
      BY <1>2, <3>1
    <3>3. interval.asked < kept + Period
      <4>1. interval.asked - interval.left <= kept /\ interval.left < Period
        BY <1>7, <2>1
      <4> HIDE DEF kept
      <4> QED
        BY <1>2, <1>6, <4>1
    <3>4. interval.periods >= interval.asked \div Period
      BY <1>2, <3>3, WholePeriods
    <3> QED
      BY <1>2, <1>4, <3>2, <3>4 DEF WaitInv
  <2>2. CASE periodic /\ ~over
    <3>1. interval' = [interval EXCEPT !.left = @ - Period]
      BY <1>3, <2>2
    <3>2. /\ interval'.on = interval.on /\ interval'.left = interval.left - Period
          /\ interval'.asked = interval.asked /\ interval'.flag = interval.flag
          /\ interval'.periods = interval.periods
          /\ interval' = [on |-> interval'.on, left |-> interval'.left, asked |-> interval'.asked,
                          flag |-> interval'.flag, periods |-> interval'.periods]
      BY <1>2, <3>1
    <3>3. interval.left - Period \in Nat
      BY <1>2, <2>2
    <3>4. interval'.asked - interval'.left <= kept + Period
      <4>1. interval.asked - interval.left <= kept
        BY <1>7, <2>2
      <4> HIDE DEF kept
      <4> QED
        BY <1>2, <1>6, <3>2, <4>1
    <3>5. /\ interval.on /\ ~interval.flag /\ "PIE" \in rtc'.b
          /\ \E call \in TimeBench(menu) : call.fn = "interval"
      BY <1>5, <1>7, <2>2
    <3> QED
      BY <1>1, <1>2, <1>4, <3>2, <3>3, <3>4, <3>5 DEF WaitInv
  <2>3. CASE ~periodic
    <3>1. interval' = interval
      BY <1>3, <2>3
    <3>2. CASE ~interval.on
      BY <1>1, <1>2, <1>4, <3>1, <3>2 DEF WaitInv
    <3>3. CASE interval.on
      <4>1. ~over /\ "PIE" \in rtc'.b
        BY <1>5, <1>7, <2>3, <3>3
      <4>2. interval.asked - interval.left <= kept + Period
        <5> HIDE DEF kept
        <5> QED
          BY <1>2, <1>6, <1>7, <3>3
      <4> QED
        BY <1>1, <1>2, <1>4, <1>7, <3>1, <3>3, <4>1, <4>2 DEF WaitInv
    <3> QED
      BY <3>2, <3>3
  <2> QED
    BY <2>1, <2>2, <2>3
<1> QED
  BY <1>1, <1>8, ClockStays, ProgramStays, SaysStays DEF TimeInv

LEMMA TimeStep == ASSUME TimeInv, [BiosNext]_biosVars PROVE TimeInv'
<1>1. CASE UNCHANGED timeV
  BY <1>1, ClockStays, ProgramStays, SaysStays, WaitStays DEF timeV, TimeInv
<1>2. CASE Time!TimeNext
  BY <1>2, TimeTick, TimeCall, TimeReturns, TimeRead, TimeDelay, TimeSelect, TimeReadData, TimeWriteData,
     TimeEvent, TimeInterrupt
     DEF Time!TimeNext
<1> QED
  BY <1>1, <1>2 DEF BiosNext, biosVars, timeV

\* The clock counts every tick and midnight, a delay lasts the ticks asked for,
\* and a wait interval keeps its periodic interrupt on and does not end more
\* than a period early (INT 8, delay_ticks, INT 15h AH=83h, INT 70h).
THEOREM BiosTimeKept == Spec => []TimeKept
<1>1. BiosInit(Parts) => TimeInv
  BY TimeStart DEF BiosInit
<1>2. TimeInv => TimeKept
  BY DEF TimeInv, SaysInv, WaitInv, TimeKept, Time!IntervalKept
<1> QED
  BY <1>1, <1>2, TimeStep, PTL DEF Spec

-----------------------------------------------------------------------------
(* Diskettes. *)

Transfers == {2, 3, 5}
Shaped(r, fields) == r = [f \in fields |-> r[f]]

\* A call that transfers has an address, and as many bytes as fit 64K.
Addressed(call) ==
    call.ah \in Transfers =>
        /\ call.es \in Nat /\ call.es < 65536 /\ call.bx \in Nat /\ call.bx < 65536
        /\ call.n \in Nat /\ call.n < 256 /\ (call.ah # 5 => call.n < 73)

FloppyTyped ==
    /\ Shaped(fdc, {"doing", "job", "motor", "result"})
    /\ Shaped(fl, {"irqbit", "cal", "known", "timeout", "st41"})
    /\ Shaped(prog, {"pc", "call", "if", "for"})
    /\ fl.irqbit \in BOOLEAN /\ prog.if \in BOOLEAN /\ irq6 \in BOOLEAN
    /\ fl.timeout \in Nat
    /\ Addressed(prog.call)

\* The controller works for the program, then its interrupt is pending, then
\* the handler has set its bit.
Awaited(working, done, after) ==
    \/ fdc.doing = working /\ irq6 = FALSE /\ fl.irqbit = FALSE
    \/ fdc.doing = done /\ irq6 = TRUE /\ fl.irqbit = FALSE
    \/ fdc.doing = after /\ irq6 = FALSE /\ fl.irqbit = TRUE
AtRest == fdc.doing = "idle" /\ irq6 = FALSE /\ fl.irqbit = FALSE

\* Where the program is, what the controller does and what is still to come.
Abreast ==
    /\ prog.pc \in {"idle", "panic", "prepare", "setup"} => irq6 = FALSE /\ fdc.doing \in {"reset", "idle"}
    /\ prog.pc \in {"prepare", "setup", "recal", "command", "result"} => prog.if = FALSE
    /\ prog.pc \in {"recalwait", "wait", "reset"} => prog.if = TRUE
    /\ prog.pc = "ready" /\ prog.if = TRUE => Awaited("leaving", "asked", "idle")
    /\ prog.pc = "ready" /\ prog.if = FALSE => AtRest
    /\ prog.pc \in {"recal", "command"} => AtRest
    /\ prog.pc = "recalwait" => Awaited("seek", "asked", "idle")
    /\ prog.pc = "wait" => Awaited("transfer", "result", "result")
    /\ prog.pc = "reset" => \/ fdc.doing \in {"leaving", "idle"} /\ irq6 = FALSE
                            \/ fdc.doing = "asked" /\ irq6 = TRUE
    /\ prog.pc = "result" => fdc.doing = "result" /\ irq6 = FALSE
    /\ prog.pc \in {"idle", "panic", "prepare", "ready", "recal", "recalwait", "setup", "command", "wait",
                    "reset", "result"}

\* The command given is the one asked for.
ForSense == \/ prog.pc \in {"recal", "recalwait", "setup"}
            \/ prog.pc \in {"prepare", "ready"} /\ prog.for = "sense"
ForData  == \/ prog.pc \in {"command", "wait", "reset", "result"}
            \/ prog.pc \in {"prepare", "ready"} /\ prog.for = "data"
Commanded ==
    /\ prog.pc \in {"prepare", "ready"} => prog.for \in {"sense", "data"}
    /\ ForSense => prog.call.ah \in {2, 3, 4, 5, 24}
    /\ ForData => prog.call.ah \in Transfers /\ ~Floppy!Overrun(prog.call)
    /\ prog.pc \in {"wait", "result"} => fdc.job = Floppy!Programmed(prog.call)
    /\ fdc.doing = "result" => fdc.result \in {"ok", "protected", "error"}

\* A success of a transfer is that of the command asked for.
Answered ==
    answer.call.ah \in Transfers /\ ~answer.cf =>
        /\ Addressed(answer.call) /\ ~Floppy!Overrun(answer.call)
        /\ answer.done = Floppy!Programmed(answer.call)

FloppyInv == FloppyTyped /\ Abreast /\ Commanded /\ Answered /\ Floppy!MotorTimed

-----------------------------------------------------------------------------
\* The page and the base address are those of the segment and the offset.
LEMMA AddressSplit ==
    ASSUME NEW es \in Nat, es < 65536, NEW bx \in Nat, bx < 65536
    PROVE  /\ Floppy!Page(es, bx) * 65536 + Floppy!BaseAddress(es, bx) = es * 16 + bx
           /\ Floppy!BaseAddress(es, bx) \in Nat /\ Floppy!BaseAddress(es, bx) < 65536
<1> DEFINE q == es \div 4096
           r == es % 4096
<1>1. q \in Nat /\ r \in Nat /\ r < 4096 /\ es = q * 4096 + r
  OBVIOUS
<1> HIDE DEF q, r
<1>2. r * 16 \in Nat /\ r * 16 <= 65520
  BY <1>1
<1>3. (r * 16 + bx) % 65536 = IF r * 16 + bx < 65536 THEN r * 16 + bx ELSE r * 16 + bx - 65536
  BY <1>2
<1>4. /\ Floppy!BaseAddress(es, bx) = (r * 16 + bx) % 65536
      /\ Floppy!Page(es, bx) = q + (IF ((r * 16 + bx) % 65536) < r * 16 THEN 1 ELSE 0)
  BY DEF Floppy!BaseAddress, Floppy!Page, q, r
<1> QED
  BY <1>1, <1>2, <1>3, <1>4

LEMMA FloppyHolds == FloppyInv => FloppyExact
<1> SUFFICES ASSUME FloppyInv PROVE Floppy!OwnResult
  BY DEF FloppyInv, FloppyExact
<1>1. prog.pc # "notready"
  BY DEF FloppyInv, Abreast
<1>2. ASSUME answer.call.ah \in Transfers, ~answer.cf
      PROVE  LET c == answer.call
             IN  /\ answer.done.what = "data" /\ answer.done.call = c
                 /\ answer.done.page * 65536 + answer.done.base = c.es * 16 + c.bx
                 /\ answer.done.base + answer.done.bytes <= 65536
  <2> DEFINE c == answer.call
             bytes == Floppy!Bytes(c)
             base == Floppy!BaseAddress(c.es, c.bx)
  <2>1. /\ c.es \in Nat /\ c.es < 65536 /\ c.bx \in Nat /\ c.bx < 65536
        /\ c.n \in Nat /\ c.n < 256 /\ (c.ah # 5 => c.n < 73)
        /\ ~Floppy!Overrun(c) /\ answer.done = Floppy!Programmed(c)
    BY <1>2 DEF FloppyInv, Answered, Addressed
  <2>2. /\ answer.done.what = "data" /\ answer.done.call = c /\ answer.done.base = base
        /\ answer.done.page = Floppy!Page(c.es, c.bx) /\ answer.done.bytes = bytes
    BY <2>1 DEF Floppy!Programmed
  <2>3. bytes \in Nat /\ bytes < 65536
    BY <2>1 DEF Floppy!Bytes
  <2>4. ~((base + bytes - 1) % 65536 < base)
    BY <2>1 DEF Floppy!Overrun
  <2>5. base \in Nat /\ base < 65536 /\ Floppy!Page(c.es, c.bx) * 65536 + base = c.es * 16 + c.bx
    <3>1. \A es \in Nat, bx \in Nat :
             es < 65536 /\ bx < 65536 =>
                 /\ Floppy!Page(es, bx) * 65536 + Floppy!BaseAddress(es, bx) = es * 16 + bx
                 /\ Floppy!BaseAddress(es, bx) \in Nat /\ Floppy!BaseAddress(es, bx) < 65536
      BY AddressSplit
    <3>2. PICK es \in Nat, bx \in Nat : es = c.es /\ bx = c.bx /\ es < 65536 /\ bx < 65536
      BY <2>1
    <3>3. /\ Floppy!Page(es, bx) * 65536 + Floppy!BaseAddress(es, bx) = es * 16 + bx
          /\ Floppy!BaseAddress(es, bx) \in Nat /\ Floppy!BaseAddress(es, bx) < 65536
      BY <3>1, <3>2
    <3>4. base = Floppy!BaseAddress(es, bx) /\ Floppy!Page(c.es, c.bx) = Floppy!Page(es, bx)
      BY <3>2
    <3> QED
      BY <3>2, <3>3, <3>4
  <2> HIDE DEF base, bytes, c
  <2>6. base + bytes <= 65536
    <3>1. \A x \in Nat : x > 65535 /\ x < 131072 => x % 65536 = x - 65536
      OBVIOUS
    <3> DEFINE last == base + bytes - 1
    <3>2. base + bytes > 65536 => last \in Nat /\ last > 65535 /\ last < 131072
      BY <2>3, <2>5
    <3>3. ~(last % 65536 < base) /\ last = base + bytes - 1
      BY <2>4
    <3> HIDE DEF last
    <3>4. base + bytes > 65536 => last % 65536 = last - 65536
      BY <3>1, <3>2
    <3> QED
      BY <2>3, <2>5, <3>2, <3>3, <3>4
  <2> QED
    BY <2>2, <2>5, <2>6 DEF c
<1> QED
  BY <1>1, <1>2 DEF Floppy!OwnResult, Transfers

-----------------------------------------------------------------------------
LEMMA QuietShape ==
    /\ Shaped(Floppy!Quiet, {"pc", "call", "if", "for"})
    /\ Floppy!Quiet.pc = "idle" /\ Floppy!Quiet.call = [ah |-> 0] /\ Floppy!Quiet.call.ah = 0
    /\ Floppy!Quiet.if = TRUE /\ Floppy!Quiet.for = "none"
<1>1. Shaped(Floppy!Quiet, {"pc", "call", "if", "for"})
  BY DEF Floppy!Quiet, Shaped
<1> QED
  BY <1>1 DEF Floppy!Quiet

LEMMA QuietAddressed == Addressed(Floppy!Quiet.call)
  BY QuietShape DEF Addressed, Transfers

LEMMA FloppyStart == Floppy!FloppyInit => FloppyInv
<1> SUFFICES ASSUME Floppy!FloppyInit PROVE FloppyInv
  OBVIOUS
<1>1. /\ Shaped(fdc, {"doing", "job", "motor", "result"})
      /\ fdc.doing \in {"reset", "idle"} /\ fdc.motor = {} /\ fdc.result = "ok"
  BY DEF Floppy!FloppyInit, Shaped
<1>2. Shaped(fl, {"irqbit", "cal", "known", "timeout", "st41"}) /\ fl.timeout = 0
  BY DEF Floppy!FloppyInit, Shaped
<1>3. fl.irqbit = FALSE /\ irq6 = FALSE /\ prog = Floppy!Quiet
  BY DEF Floppy!FloppyInit
<1>4. answer.call.ah = 0
  BY DEF Floppy!FloppyInit, Floppy!NoAnswer
<1>5. FloppyTyped
  <2>1. fl.irqbit \in BOOLEAN /\ prog.if \in BOOLEAN /\ irq6 \in BOOLEAN
    BY <1>3, QuietShape
  <2>2. Addressed(prog.call) /\ Shaped(prog, {"pc", "call", "if", "for"})
    BY <1>3, QuietShape, QuietAddressed
  <2> QED
    BY <1>1, <1>2, <2>1, <2>2 DEF FloppyTyped
<1>6. Abreast
  BY <1>1, <1>3, QuietShape DEF Abreast
<1>7. Commanded
  BY <1>1, <1>3, QuietShape DEF Commanded, ForSense, ForData
<1> QED
  BY <1>1, <1>4, <1>5, <1>6, <1>7 DEF FloppyInv, Answered, Floppy!MotorTimed, Transfers

\* Types of the next state, by parts.
LEMMA FloppyTypedNext ==
    ASSUME Shaped(fdc', {"doing", "job", "motor", "result"}),
           Shaped(fl', {"irqbit", "cal", "known", "timeout", "st41"}),
           Shaped(prog', {"pc", "call", "if", "for"}),
           fl'.irqbit \in BOOLEAN, prog'.if \in BOOLEAN, irq6' \in BOOLEAN,
           fl'.timeout \in Nat, Addressed(prog'.call)
    PROVE  FloppyTyped'
<1>1. Shaped(fdc, {"doing", "job", "motor", "result"})'
  BY DEF Shaped
<1>2. Shaped(fl, {"irqbit", "cal", "known", "timeout", "st41"})'
  BY DEF Shaped
<1>3. Shaped(prog, {"pc", "call", "if", "for"})'
  BY DEF Shaped
<1>4. Addressed(prog.call)'
  BY DEF Addressed
<1> QED
  BY <1>1, <1>2, <1>3, <1>4, Zenon DEF FloppyTyped

LEMMA FloppyStays == ASSUME FloppyInv, UNCHANGED floppyV PROVE FloppyInv'
<1> USE DEF floppyV
<1>1. FloppyTyped'
  BY DEF FloppyInv, FloppyTyped, Shaped, Addressed
<1>2. Abreast'
  BY DEF FloppyInv, Abreast, Awaited, AtRest
<1>3. Commanded'
  BY DEF FloppyInv, Commanded, ForSense, ForData, Floppy!Overrun, Floppy!Programmed, Floppy!BaseAddress, Floppy!Bytes,
         Floppy!Page
<1>4. Answered' /\ Floppy!MotorTimed'
  BY DEF FloppyInv, Answered, Addressed, Floppy!MotorTimed, Floppy!Overrun, Floppy!Programmed, Floppy!BaseAddress,
         Floppy!Bytes, Floppy!Page
<1> QED
  BY <1>1, <1>2, <1>3, <1>4 DEF FloppyInv

\* Answers: the program runs on, with the controller at rest.
LEMMA FloppySays ==
    ASSUME FloppyInv, prog.pc \in {"idle", "setup"},
           NEW call, NEW cf, NEW ah, NEW stored, Floppy!Says(call, cf, ah, stored),
           call.ah \in Transfers => cf
    PROVE  FloppyInv'
<1>1. /\ prog' = Floppy!Quiet /\ fl' = [fl EXCEPT !.st41 = stored]
      /\ types' = types /\ fdc' = fdc /\ irq6' = irq6
  BY DEF Floppy!Says
<1>2. answer'.call = call /\ answer'.cf = cf
  BY Zenon DEF Floppy!Says
<1>3. Shaped(fl', {"irqbit", "cal", "known", "timeout", "st41"}) /\ fl'.timeout = fl.timeout /\ fl'.irqbit = fl.irqbit
  BY <1>1 DEF FloppyInv, FloppyTyped, Shaped
<1>4. FloppyTyped'
  <2>1. fl'.irqbit \in BOOLEAN /\ prog'.if \in BOOLEAN /\ irq6' \in BOOLEAN
    BY <1>1, <1>3, QuietShape DEF FloppyInv, FloppyTyped
  <2>2. Addressed(prog'.call) /\ Shaped(prog', {"pc", "call", "if", "for"})
    BY <1>1, QuietShape, QuietAddressed
  <2>3. fl'.timeout \in Nat /\ Shaped(fdc', {"doing", "job", "motor", "result"})
    BY <1>1, <1>3 DEF FloppyInv, FloppyTyped
  <2> QED
    BY <1>3, <2>1, <2>2, <2>3, FloppyTypedNext
<1>5. Abreast'
  BY <1>1, QuietShape DEF FloppyInv, Abreast
<1>6. Commanded'
  BY <1>1, QuietShape DEF FloppyInv, Commanded, ForSense, ForData
<1>7. Answered'
  BY <1>2 DEF Answered
<1>8. Floppy!MotorTimed'
  BY <1>1, <1>3 DEF FloppyInv, Floppy!MotorTimed
<1> QED
  BY <1>4, <1>5, <1>6, <1>7, <1>8 DEF FloppyInv

\* Answers and motors that stay as they were.
LEMMA AnswerStays == ASSUME FloppyInv, answer' = answer PROVE Answered'
  BY DEF FloppyInv, Answered, Addressed, Floppy!Overrun, Floppy!Programmed, Floppy!BaseAddress, Floppy!Bytes,
         Floppy!Page

LEMMA MotorStays ==
    ASSUME FloppyInv, fdc'.motor = fdc.motor, fl'.timeout = fl.timeout PROVE Floppy!MotorTimed'
  BY DEF FloppyInv, Floppy!MotorTimed

LEMMA FloppyRefuses ==
    ASSUME FloppyInv, prog.pc \in {"idle", "setup"}, NEW call, NEW code, Floppy!Refuses(call, code)
    PROVE  FloppyInv'
<1>1. Floppy!Says(call, TRUE, code, code)
  BY DEF Floppy!Refuses
<1> QED
  BY <1>1, FloppySays

\* AH=17h and 18h are no transfers.
LEMMA FloppyEstablishes ==
    ASSUME FloppyInv, prog.pc \in {"idle", "setup"}, NEW call, call.ah \in {23, 24}, Floppy!Establishes(call)
    PROVE  FloppyInv'
<1>1. /\ prog' = Floppy!Quiet /\ fl' = [fl EXCEPT !.st41 = 0, !.known = @ \cup {call.dl}]
      /\ types' = types /\ fdc' = fdc /\ irq6' = irq6
  BY DEF Floppy!Establishes
<1>2. answer'.call = call
  BY DEF Floppy!Establishes, Floppy!NoAnswer
<1>3. Shaped(fl', {"irqbit", "cal", "known", "timeout", "st41"}) /\ fl'.timeout = fl.timeout /\ fl'.irqbit = fl.irqbit
  BY <1>1 DEF FloppyInv, FloppyTyped, Shaped
<1>4. FloppyTyped'
  <2>1. fl'.irqbit \in BOOLEAN /\ prog'.if \in BOOLEAN /\ irq6' \in BOOLEAN
    BY <1>1, <1>3, QuietShape DEF FloppyInv, FloppyTyped
  <2>2. Addressed(prog'.call) /\ Shaped(prog', {"pc", "call", "if", "for"})
    BY <1>1, QuietShape, QuietAddressed
  <2>3. fl'.timeout \in Nat /\ Shaped(fdc', {"doing", "job", "motor", "result"})
    BY <1>1, <1>3 DEF FloppyInv, FloppyTyped
  <2> QED
    BY <1>3, <2>1, <2>2, <2>3, FloppyTypedNext
<1>5. Abreast'
  BY <1>1, QuietShape DEF FloppyInv, Abreast
<1>6. Commanded'
  BY <1>1, QuietShape DEF FloppyInv, Commanded, ForSense, ForData
<1>7. Answered'
  BY <1>2 DEF Answered, Transfers
<1>8. Floppy!MotorTimed'
  BY <1>1, <1>3, MotorStays
<1> QED
  BY <1>4, <1>5, <1>6, <1>7, <1>8 DEF FloppyInv

\* Functions that use the drive.
LEMMA FloppyUses ==
    ASSUME FloppyInv, prog.pc = "idle", NEW call, Addressed(call), call.ah \in {2, 3, 4, 5, 24}, Floppy!Uses(call)
    PROVE  FloppyInv'
<1>1. CASE ~Floppy!Exists(call.dl)
  <2>1. Floppy!Refuses(call, 128)
    BY <1>1 DEF Floppy!Uses
  <2> QED
    BY <2>1, FloppyRefuses
<1>2. CASE Floppy!Exists(call.dl)
  <2> DEFINE pc == IF Floppy!floppy_media_known(call.dl) THEN "setup" ELSE "prepare"
  <2>1. /\ fl' = [fl EXCEPT !.st41 = 1] \/ fl' = fl
        /\ prog' = [Floppy!Quiet EXCEPT !.call = call, !.if = FALSE, !.for = "sense", !.pc = pc]
        /\ types' = types /\ fdc' = fdc /\ irq6' = irq6 /\ answer' = answer
    BY <1>2 DEF Floppy!Uses
  <2>2. pc \in {"setup", "prepare"}
    OBVIOUS
  <2> HIDE DEF pc
  <2>3. Shaped(prog', {"pc", "call", "if", "for"})
    BY <2>1, QuietShape DEF Shaped
  <2>4. prog'.pc \in {"setup", "prepare"} /\ prog'.call = call /\ prog'.if = FALSE /\ prog'.for = "sense"
    BY <2>1, <2>2, QuietShape DEF Shaped
  <2>5. Shaped(fl', {"irqbit", "cal", "known", "timeout", "st41"}) /\ fl'.timeout = fl.timeout /\ fl'.irqbit = fl.irqbit
    BY <2>1 DEF FloppyInv, FloppyTyped, Shaped
  <2>6. FloppyTyped'
    <3>1. fl'.irqbit \in BOOLEAN /\ prog'.if \in BOOLEAN /\ irq6' \in BOOLEAN
      BY <2>1, <2>4, <2>5 DEF FloppyInv, FloppyTyped
    <3>2. fl'.timeout \in Nat /\ Shaped(fdc', {"doing", "job", "motor", "result"}) /\ Addressed(prog'.call)
      BY <2>1, <2>4, <2>5 DEF FloppyInv, FloppyTyped
    <3> QED
      BY <2>3, <2>5, <3>1, <3>2, FloppyTypedNext
  <2>7. Abreast'
    BY <2>1, <2>4 DEF FloppyInv, Abreast
  <2>8. Commanded'
    BY <2>1, <2>4 DEF FloppyInv, Commanded, ForSense, ForData
  <2> QED
    BY <2>1, <2>5, <2>6, <2>7, <2>8, AnswerStays, MotorStays DEF FloppyInv
<1> QED
  BY <1>1, <1>2

LEMMA FloppyPanics ==
    ASSUME FloppyInv, prog.pc = "idle", prog' = [Floppy!Quiet EXCEPT !.pc = "panic"],
           UNCHANGED <<types, fdc, irq6, fl, answer>>
    PROVE  FloppyInv'
<1>1. Shaped(prog', {"pc", "call", "if", "for"})
  BY QuietShape DEF Shaped
<1>2. prog'.pc = "panic" /\ prog'.call = Floppy!Quiet.call /\ prog'.if = TRUE
  BY QuietShape DEF Shaped
<1>3. FloppyTyped'
  <2>1. fl'.irqbit \in BOOLEAN /\ prog'.if \in BOOLEAN /\ irq6' \in BOOLEAN
    BY <1>2 DEF FloppyInv, FloppyTyped
  <2>2. /\ fl'.timeout \in Nat /\ Addressed(prog'.call)
        /\ Shaped(fdc', {"doing", "job", "motor", "result"})
        /\ Shaped(fl', {"irqbit", "cal", "known", "timeout", "st41"})
    BY <1>2, QuietAddressed DEF FloppyInv, FloppyTyped
  <2> QED
    BY <1>1, <2>1, <2>2, FloppyTypedNext
<1>4. Abreast'
  BY <1>2 DEF FloppyInv, Abreast
<1>5. Commanded'
  BY <1>2 DEF FloppyInv, Commanded, ForSense, ForData
<1> QED
  BY <1>3, <1>4, <1>5, AnswerStays, MotorStays DEF FloppyInv

LEMMA FloppyCall == ASSUME FloppyInv, Floppy!Call PROVE FloppyInv'
<1>1. PICK call \in FloppyCalls : Floppy!int13_diskette_function(call)
  BY DEF Floppy!Call
<1>2. prog.pc = "idle"
  BY DEF Floppy!Call
<1>3. CASE call.ah \in {0, 1, 8, 21}
  <2>1. CASE Floppy!Refuses(call, 1) \/ Floppy!Refuses(call, 128)
    BY <1>2, <2>1, FloppyRefuses
  <2>2. ASSUME NEW cf, NEW ah, NEW stored, Floppy!Says(call, cf, ah, stored) PROVE FloppyInv'
    BY <1>2, <1>3, <2>2, FloppySays DEF Transfers
  <2>3. CASE prog' = [Floppy!Quiet EXCEPT !.pc = "panic"] /\ UNCHANGED <<types, fdc, irq6, fl, answer>>
    BY <1>2, <2>3, FloppyPanics
  <2>4. CASE call.ah = 0
    <3>1. Floppy!Refuses(call, 1) \/ Floppy!Refuses(call, 128) \/ Floppy!Says(call, FALSE, 0, 0)
      <4>1. Floppy!Reset(call)
        BY <1>1, <2>4 DEF Floppy!int13_diskette_function
      <4> QED
        BY <4>1, Zenon DEF Floppy!Reset
    <3> QED
      BY <2>1, <2>2, <3>1
  <2>5. CASE call.ah = 1
    BY <1>1, <2>2, <2>5 DEF Floppy!int13_diskette_function
  <2>6. CASE call.ah = 8
    <3>1. \/ Floppy!Says(call, TRUE, 0, fl.st41) \/ Floppy!Says(call, FALSE, 0, fl.st41)
          \/ prog' = [Floppy!Quiet EXCEPT !.pc = "panic"] /\ UNCHANGED <<types, fdc, irq6, fl, answer>>
      <4>1. Floppy!Parameters(call)
        BY <1>1, <2>6 DEF Floppy!int13_diskette_function
      <4> QED
        BY <4>1, Zenon DEF Floppy!Parameters
    <3> QED
      BY <2>2, <2>3, <3>1
  <2>7. CASE call.ah = 21
    BY <1>1, <2>2, <2>7 DEF Floppy!int13_diskette_function, Floppy!DriveType
  <2> QED
    BY <1>3, <2>4, <2>5, <2>6, <2>7
<1>4. CASE call.ah \in {2, 3, 4, 5}
  <2>1. Floppy!Refuses(call, 1) \/ (Floppy!Uses(call) /\ (call.ah # 5 => ~Floppy!BadTransfer(call)))
    BY <1>1, <1>4 DEF Floppy!int13_diskette_function, Floppy!Transfer, Floppy!Format
  <2>2. ASSUME call.ah # 5 => ~Floppy!BadTransfer(call) PROVE Addressed(call)
    <3>1. call.ah # 5 => call.n \in 1 .. 72
      BY <2>2 DEF Floppy!BadTransfer
    <3> QED
      BY <3>1, FloppyAssumption DEF Addressed, Transfers
  <2> QED
    BY <1>2, <1>4, <2>1, <2>2, FloppyRefuses, FloppyUses
<1>5. CASE call.ah = 22
  <2>1. Floppy!ChangeLine(call)
    BY <1>1, <1>5 DEF Floppy!int13_diskette_function
  <2> QED
    BY <1>2, <2>1, FloppyRefuses DEF Floppy!ChangeLine
<1>6. CASE call.ah = 23
  <2>1. Floppy!SetType(call)
    BY <1>1, <1>6 DEF Floppy!int13_diskette_function
  <2> QED
    BY <1>2, <1>6, <2>1, FloppyRefuses, FloppyEstablishes DEF Floppy!SetType
<1>7. CASE call.ah = 24
  <2>1. Floppy!SetMedia(call)
    BY <1>1, <1>7 DEF Floppy!int13_diskette_function
  <2>2. Addressed(call)
    BY <1>7 DEF Addressed, Transfers
  <2> QED
    BY <1>2, <1>7, <2>1, <2>2, FloppyRefuses, FloppyUses DEF Floppy!SetMedia
<1>8. CASE call.ah \notin {0, 1, 2, 3, 4, 5, 8, 21, 22, 23, 24}
  <2>1. Floppy!Refuses(call, 1)
    BY <1>1, <1>8 DEF Floppy!int13_diskette_function
  <2> QED
    BY <1>2, <2>1, FloppyRefuses
<1> QED
  BY <1>3, <1>4, <1>5, <1>6, <1>7, <1>8

\* A step that says nothing new to the program: types and answers by parts.
LEMMA FloppyTypesNext ==
    ASSUME FloppyInv,
           Shaped(fdc', {"doing", "job", "motor", "result"}),
           Shaped(fl', {"irqbit", "cal", "known", "timeout", "st41"}),
           Shaped(prog', {"pc", "call", "if", "for"}),
           fl'.irqbit \in {TRUE, FALSE, fl.irqbit}, prog'.if \in {TRUE, FALSE, prog.if},
           irq6' \in {TRUE, FALSE, irq6}, fl'.timeout \in Nat, prog'.call = prog.call
    PROVE  FloppyTyped'
<1>1. fl'.irqbit \in BOOLEAN /\ prog'.if \in BOOLEAN /\ irq6' \in BOOLEAN
  BY DEF FloppyInv, FloppyTyped
<1>2. Addressed(prog'.call)
  BY DEF FloppyInv, FloppyTyped
<1> QED
  BY <1>1, <1>2, FloppyTypedNext

LEMMA FloppyShapes ==
    ASSUME FloppyInv
    PROVE  /\ Shaped(fdc, {"doing", "job", "motor", "result"})
           /\ Shaped(fl, {"irqbit", "cal", "known", "timeout", "st41"})
           /\ Shaped(prog, {"pc", "call", "if", "for"})
           /\ fl.timeout \in Nat
  BY DEF FloppyInv, FloppyTyped

LEMMA FloppyHeard == ASSUME FloppyInv, Floppy!Heard PROVE FloppyInv'
<1>1. UNCHANGED <<types, fdc, irq6, fl, prog>> /\ answer'.call.ah = 0
  BY DEF Floppy!Heard, Floppy!NoAnswer
<1>2. FloppyTyped'
  BY <1>1, FloppyShapes, FloppyTypesNext
<1>3. Abreast'
  BY <1>1 DEF FloppyInv, Abreast, Awaited, AtRest
<1>4. Commanded'
  BY <1>1 DEF FloppyInv, Commanded, ForSense, ForData, Floppy!Overrun, Floppy!Programmed, Floppy!BaseAddress,
              Floppy!Bytes, Floppy!Page
<1>5. Answered'
  BY <1>1 DEF Answered, Transfers
<1> QED
  BY <1>1, <1>2, <1>3, <1>4, <1>5, MotorStays DEF FloppyInv

\* What the command is stays so while the call and the job do.
LEMMA CommandStays ==
    ASSUME FloppyInv, prog'.call = prog.call, fdc'.job = fdc.job,
           prog'.pc \in {"prepare", "ready"} => prog'.for \in {"sense", "data"},
           ForSense' => ForSense, ForData' => ForData,
           prog'.pc \in {"wait", "result"} => prog.pc \in {"wait", "result"},
           fdc'.doing = "result" => fdc'.result \in {"ok", "protected", "error"}
    PROVE  Commanded'
<1>1. Floppy!Overrun(prog.call)' = Floppy!Overrun(prog.call) /\ Floppy!Programmed(prog.call)' = Floppy!Programmed(prog.call)
  BY DEF Floppy!Overrun, Floppy!Programmed, Floppy!BaseAddress, Floppy!Bytes, Floppy!Page
<1> QED
  BY <1>1 DEF FloppyInv, Commanded

LEMMA FloppyPrepares == ASSUME FloppyInv, Floppy!floppy_prepare_controller PROVE FloppyInv'
<1> DEFINE waits == fdc.doing = "reset"
<1>1. /\ prog.pc = "prepare" /\ types' = types /\ irq6' = irq6 /\ answer' = answer
      /\ fl' = [fl EXCEPT !.irqbit = FALSE, !.timeout = FloppyOnCnt]
      /\ fdc' = [fdc EXCEPT !.motor = {prog.call.dl}, !.doing = IF fdc.doing = "reset" THEN "leaving" ELSE fdc.doing]
      /\ prog' = [prog EXCEPT !.pc = "ready", !.if = waits]
  BY DEF Floppy!floppy_prepare_controller, Floppy!Motor
<1>2. waits \in BOOLEAN
  OBVIOUS
<1>3. /\ Shaped(fdc', {"doing", "job", "motor", "result"})
      /\ Shaped(fl', {"irqbit", "cal", "known", "timeout", "st41"})
      /\ fl'.irqbit = FALSE /\ fl'.timeout = FloppyOnCnt /\ fdc'.job = fdc.job /\ fdc'.result = fdc.result
      /\ fdc'.doing = IF fdc.doing = "reset" THEN "leaving" ELSE fdc.doing
  BY <1>1, FloppyShapes DEF Shaped
<1>4. prog.if = FALSE /\ irq6 = FALSE /\ fdc.doing \in {"reset", "idle"}
  BY <1>1 DEF FloppyInv, Abreast
<1>5. (fdc'.doing = "idle" /\ ~waits) \/ (fdc'.doing = "leaving" /\ waits)
  BY <1>3, <1>4
<1> HIDE DEF waits
<1>6. Shaped(prog', {"pc", "call", "if", "for"})
  BY <1>1, FloppyShapes DEF Shaped
<1>7. prog'.pc = "ready" /\ prog'.call = prog.call /\ prog'.for = prog.for
  BY <1>1, FloppyShapes DEF Shaped
<1>8. prog'.if = waits
  BY <1>1, FloppyShapes DEF Shaped
<1>9. FloppyTyped'
  <2>1. /\ fl'.irqbit \in {TRUE, FALSE, fl.irqbit} /\ prog'.if \in {TRUE, FALSE, prog.if}
        /\ irq6' \in {TRUE, FALSE, irq6}
    BY <1>1, <1>2, <1>3, <1>8
  <2>2. fl'.timeout \in Nat
    BY <1>3, FloppyAssumption
  <2> QED
    BY <1>3, <1>6, <1>7, <2>1, <2>2, FloppyTypesNext
<1>10. Abreast'
  <2>1. CASE waits
    BY <1>1, <1>3, <1>4, <1>5, <1>7, <1>8, <2>1 DEF Abreast, Awaited
  <2>2. CASE ~waits
    BY <1>1, <1>2, <1>3, <1>4, <1>5, <1>7, <1>8, <2>2 DEF Abreast, AtRest
  <2> QED
    BY <2>1, <2>2
<1>11. Commanded'
  <2>1. prog.for \in {"sense", "data"}
    BY <1>1 DEF FloppyInv, Commanded
  <2>2. (ForSense' => ForSense) /\ (ForData' => ForData)
    BY <1>1, <1>7 DEF ForSense, ForData
  <2> QED
    BY <1>3, <1>5, <1>7, <2>1, <2>2, CommandStays
<1>12. Floppy!MotorTimed'
  BY <1>3, FloppyAssumption DEF Floppy!MotorTimed
<1> QED
  BY <1>1, <1>9, <1>10, <1>11, <1>12, AnswerStays DEF FloppyInv

LEMMA FloppyPrepared == ASSUME FloppyInv, Floppy!Prepared PROVE FloppyInv'
<1>1. /\ prog.pc = "ready" /\ fdc' = fdc /\ types' = types /\ irq6' = irq6 /\ answer' = answer
      /\ fl' = fl \/ fl' = [fl EXCEPT !.irqbit = FALSE]
  BY DEF Floppy!Prepared
<1>2. prog' = [prog EXCEPT !.if = FALSE, !.pc = IF prog.for = "sense" THEN "recal" ELSE "command"]
  BY DEF Floppy!Prepared
<1>3. AtRest'
  <2>1. CASE prog.if = TRUE
    <3>1. Awaited("leaving", "asked", "idle") /\ fl.irqbit = TRUE
      BY <1>1, <2>1 DEF FloppyInv, FloppyTyped, Abreast, Floppy!Prepared
    <3>2. fl' = [fl EXCEPT !.irqbit = FALSE]
      BY <2>1 DEF Floppy!Prepared
    <3>3. fl'.irqbit = FALSE
      BY <3>2, FloppyShapes DEF Shaped
    <3> QED
      BY <1>1, <3>1, <3>3 DEF Awaited, AtRest
  <2>2. CASE prog.if = FALSE
    <3>1. AtRest /\ fl' = fl
      BY <1>1, <2>2 DEF FloppyInv, Abreast, Floppy!Prepared
    <3> QED
      BY <1>1, <3>1 DEF AtRest
  <2> QED
    BY <2>1, <2>2 DEF FloppyInv, FloppyTyped
<1>4. Shaped(prog', {"pc", "call", "if", "for"})
  BY <1>2, FloppyShapes DEF Shaped
<1>5. /\ prog'.pc = (IF prog.for = "sense" THEN "recal" ELSE "command") /\ prog'.call = prog.call
      /\ prog'.for = prog.for /\ prog'.if = FALSE
  BY <1>2, FloppyShapes DEF Shaped
<1>6. /\ Shaped(fl', {"irqbit", "cal", "known", "timeout", "st41"}) /\ fl'.timeout = fl.timeout
      /\ fl'.irqbit \in {fl.irqbit, FALSE}
  BY <1>1, FloppyShapes DEF Shaped
<1>7. FloppyTyped'
  BY <1>1, <1>4, <1>5, <1>6, FloppyShapes, FloppyTypesNext
<1>8. Abreast'
  BY <1>3, <1>5 DEF Abreast
<1>9. Commanded'
  <2>1. prog.for \in {"sense", "data"}
    BY <1>1 DEF FloppyInv, Commanded
  <2>2. (ForSense' => ForSense) /\ (ForData' => ForData)
    BY <1>1, <1>5, <2>1 DEF ForSense, ForData
  <2>3. fdc'.doing = "idle"
    BY <1>3 DEF AtRest
  <2> QED
    BY <1>1, <1>5, <2>2, <2>3, CommandStays
<1> QED
  BY <1>1, <1>6, <1>7, <1>8, <1>9, AnswerStays, MotorStays DEF FloppyInv

\* A call ends with an error, or with what the controller was told to do.
LEMMA FloppyReturns ==
    ASSUME FloppyInv, prog' = Floppy!Quiet, irq6' = FALSE, fdc'.doing = "idle", fdc'.motor = fdc.motor,
           Shaped(fdc', {"doing", "job", "motor", "result"}),
           Shaped(fl', {"irqbit", "cal", "known", "timeout", "st41"}),
           fl'.irqbit \in {TRUE, FALSE, fl.irqbit}, fl'.timeout = fl.timeout,
           answer'.cf = TRUE \/ Answered'
    PROVE  FloppyInv'
<1>1. FloppyTyped'
  <2>1. fl'.irqbit \in BOOLEAN /\ prog'.if \in BOOLEAN /\ irq6' \in BOOLEAN
    BY QuietShape DEF FloppyInv, FloppyTyped
  <2>2. Addressed(prog'.call) /\ Shaped(prog', {"pc", "call", "if", "for"})
    BY QuietShape, QuietAddressed
  <2>3. fl'.timeout \in Nat
    BY DEF FloppyInv, FloppyTyped
  <2> QED
    BY <2>1, <2>2, <2>3, FloppyTypedNext
<1>2. Abreast'
  BY QuietShape DEF Abreast
<1>3. Commanded'
  BY QuietShape DEF Commanded, ForSense, ForData
<1>4. Answered'
  BY DEF Answered
<1> QED
  BY <1>1, <1>2, <1>3, <1>4, MotorStays DEF FloppyInv

LEMMA FloppyRecalibrates == ASSUME FloppyInv, Floppy!Recalibrate PROVE FloppyInv'
<1>1. /\ prog.pc = "recal" /\ types' = types /\ irq6' = irq6 /\ fl' = fl /\ answer' = answer
      /\ fdc' = [fdc EXCEPT !.doing = "seek", !.job = [what |-> "recal"]]
      /\ prog' = [prog EXCEPT !.pc = "recalwait", !.if = TRUE]
  BY DEF Floppy!Recalibrate
<1>2. AtRest
  BY <1>1 DEF FloppyInv, Abreast
<1>3. /\ Shaped(fdc', {"doing", "job", "motor", "result"}) /\ Shaped(prog', {"pc", "call", "if", "for"})
      /\ fdc'.doing = "seek" /\ fdc'.motor = fdc.motor
      /\ prog'.pc = "recalwait" /\ prog'.if = TRUE /\ prog'.call = prog.call /\ prog'.for = prog.for
  BY <1>1, FloppyShapes DEF Shaped
<1>4. FloppyTyped'
  BY <1>1, <1>3, FloppyShapes, FloppyTypesNext
<1>5. Abreast'
  BY <1>1, <1>2, <1>3 DEF Abreast, Awaited, AtRest
<1>6. Commanded'
  BY <1>1, <1>3 DEF FloppyInv, Commanded, ForSense, ForData
<1> QED
  BY <1>1, <1>3, <1>4, <1>5, <1>6, AnswerStays, MotorStays DEF FloppyInv

LEMMA FloppySenses == ASSUME FloppyInv, Floppy!floppy_media_sense PROVE FloppyInv'
<1>1. /\ prog.pc = "recalwait" /\ types' = types /\ irq6' = irq6 /\ fdc' = fdc /\ fl.irqbit
  BY DEF Floppy!floppy_media_sense
<1>2. Awaited("seek", "asked", "idle")
  BY <1>1 DEF FloppyInv, Abreast
<1>3. fdc.doing = "idle" /\ irq6 = FALSE
  BY <1>1, <1>2 DEF Awaited
<1>4. CASE Floppy!Sensible(prog.call.dl)
  <2>1. /\ fl' = [fl EXCEPT !.irqbit = FALSE, !.cal = @ \cup {Floppy!Unit}, !.known = @ \cup {Floppy!Unit}]
        /\ prog' = [prog EXCEPT !.pc = "setup", !.if = FALSE] /\ answer' = answer
    BY <1>4 DEF Floppy!floppy_media_sense
  <2>2. /\ Shaped(fl', {"irqbit", "cal", "known", "timeout", "st41"}) /\ fl'.irqbit = FALSE
        /\ fl'.timeout = fl.timeout
    BY <2>1, FloppyShapes DEF Shaped
  <2>3. /\ Shaped(prog', {"pc", "call", "if", "for"})
        /\ prog'.pc = "setup" /\ prog'.if = FALSE /\ prog'.call = prog.call
    BY <2>1, FloppyShapes DEF Shaped
  <2>4. FloppyTyped'
    BY <1>1, <2>2, <2>3, FloppyShapes, FloppyTypesNext
  <2>5. Abreast'
    BY <1>1, <1>3, <2>3 DEF Abreast
  <2>6. Commanded'
    BY <1>1, <1>3, <2>3 DEF FloppyInv, Commanded, ForSense, ForData
  <2> QED
    BY <1>1, <2>1, <2>2, <2>4, <2>5, <2>6, AnswerStays, MotorStays DEF FloppyInv
<1>5. CASE ~Floppy!Sensible(prog.call.dl)
  <2>1. /\ fl' = [fl EXCEPT !.irqbit = FALSE, !.cal = @ \cup {Floppy!Unit}, !.known = @ \ {Floppy!Unit}, !.st41 = 12]
        /\ prog' = Floppy!Quiet
        /\ answer' = [Floppy!NoAnswer EXCEPT !.cf = TRUE, !.ah = 12, !.call = prog.call]
    BY <1>5 DEF Floppy!floppy_media_sense
  <2>2. /\ Shaped(fl', {"irqbit", "cal", "known", "timeout", "st41"}) /\ fl'.irqbit = FALSE
        /\ fl'.timeout = fl.timeout
    BY <2>1, FloppyShapes DEF Shaped
  <2>3. answer'.cf = TRUE
    BY <2>1 DEF Floppy!NoAnswer
  <2> QED
    <3>1. fdc'.doing = "idle" /\ fdc'.motor = fdc.motor /\ irq6' = FALSE
      BY <1>1, <1>3
    <3>2. Shaped(fdc', {"doing", "job", "motor", "result"})
      BY <1>1, FloppyShapes
    <3> QED
      BY <2>1, <2>2, <2>3, <3>1, <3>2, FloppyReturns
<1> QED
  BY <1>4, <1>5

LEMMA FloppySetsUp == ASSUME FloppyInv, Floppy!Setup PROVE FloppyInv'
<1>1. prog.pc = "setup"
  BY DEF Floppy!Setup
<1>2. prog.call.ah \in {2, 3, 4, 5, 24}
  BY <1>1 DEF FloppyInv, Commanded, ForSense
<1>3. CASE prog.call.ah = 4
  <2>1. Floppy!Says(prog.call, FALSE, 0, fl.st41)
    <3>1. prog.call.ah # 24 /\ prog.call.ah \notin {2, 3, 5}
      BY <1>3
    <3> QED
      BY <3>1, Zenon DEF Floppy!Setup
  <2>2. ASSUME NEW cf, NEW ah, NEW stored, Floppy!Says(prog.call, cf, ah, stored) PROVE FloppyInv'
    BY <1>1, <1>3, <2>2, FloppySays DEF Transfers
  <2> QED
    BY <2>1, <2>2
<1>4. CASE prog.call.ah = 24
  <2>1. Floppy!Establishes(prog.call) \/ Floppy!Refuses(prog.call, 12)
    BY <1>4 DEF Floppy!Setup
  <2> QED
    BY <1>1, <1>4, <2>1, FloppyEstablishes, FloppyRefuses
<1>5. CASE prog.call.ah \in Transfers
  <2>1. prog.call.ah # 4 /\ prog.call.ah # 24
    BY <1>5 DEF Transfers
  <2>2. CASE Floppy!Overrun(prog.call)
    <3>1. Floppy!Refuses(prog.call, 9)
      BY <2>2, <2>1, Zenon DEF Floppy!Setup
    <3> QED
      BY <1>1, <3>1, FloppyRefuses
  <2>3. CASE ~Floppy!Overrun(prog.call)
    <3>1. prog' = [prog EXCEPT !.pc = "prepare", !.for = "data"] /\ UNCHANGED <<types, fdc, irq6, fl, answer>>
      BY <2>3, <2>1, Zenon DEF Floppy!Setup
    <3>2. /\ Shaped(prog', {"pc", "call", "if", "for"})
          /\ prog'.pc = "prepare" /\ prog'.if = prog.if /\ prog'.call = prog.call /\ prog'.for = "data"
      BY <3>1, FloppyShapes DEF Shaped
    <3>3. FloppyTyped'
      BY <3>1, <3>2, FloppyShapes, FloppyTypesNext
    <3>4. Abreast'
      BY <1>1, <3>1, <3>2 DEF FloppyInv, Abreast
    <3>5. Commanded'
      <4>1. Floppy!Overrun(prog.call)' = Floppy!Overrun(prog.call)
        BY <3>2 DEF Floppy!Overrun, Floppy!BaseAddress, Floppy!Bytes
      <4> QED
        BY <1>1, <1>5, <2>3, <3>1, <3>2, <4>1 DEF FloppyInv, Abreast, Commanded, ForSense, ForData
    <3> QED
      BY <3>1, <3>3, <3>4, <3>5, AnswerStays, MotorStays DEF FloppyInv
  <2> QED
    BY <2>2, <2>3
<1> QED
  BY <1>2, <1>3, <1>4, <1>5 DEF Transfers

LEMMA FloppyIssues == ASSUME FloppyInv, Floppy!Issue PROVE FloppyInv'
<1>1. /\ prog.pc = "command" /\ types' = types /\ irq6' = irq6 /\ fl' = fl /\ answer' = answer
      /\ fdc' = [fdc EXCEPT !.doing = "transfer", !.job = Floppy!Programmed(prog.call)]
      /\ prog' = [prog EXCEPT !.pc = "wait", !.if = TRUE]
  BY DEF Floppy!Issue
<1>2. AtRest
  BY <1>1 DEF FloppyInv, Abreast
<1>3. /\ Shaped(fdc', {"doing", "job", "motor", "result"}) /\ Shaped(prog', {"pc", "call", "if", "for"})
      /\ fdc'.doing = "transfer" /\ fdc'.motor = fdc.motor /\ fdc'.job = Floppy!Programmed(prog.call)
      /\ prog'.pc = "wait" /\ prog'.if = TRUE /\ prog'.call = prog.call /\ prog'.for = prog.for
  BY <1>1, FloppyShapes DEF Shaped
<1>4. FloppyTyped'
  BY <1>1, <1>3, FloppyShapes, FloppyTypesNext
<1>5. Abreast'
  BY <1>1, <1>2, <1>3 DEF Abreast, Awaited, AtRest
<1>6. Commanded'
  <2>1. Floppy!Overrun(prog.call)' = Floppy!Overrun(prog.call) /\ Floppy!Programmed(prog.call)' = Floppy!Programmed(prog.call)
    BY <1>3 DEF Floppy!Overrun, Floppy!Programmed, Floppy!BaseAddress, Floppy!Bytes, Floppy!Page
  <2> QED
    BY <1>1, <1>3, <2>1 DEF FloppyInv, Commanded, ForSense, ForData
<1> QED
  BY <1>1, <1>3, <1>4, <1>5, <1>6, AnswerStays, MotorStays DEF FloppyInv

LEMMA FloppyTimesOut == ASSUME FloppyInv, Floppy!TimedOut PROVE FloppyInv'
<1>1. /\ prog.pc = "wait" /\ ~Floppy!Interruptible
      /\ types' = types /\ irq6' = irq6 /\ fl' = fl /\ answer' = answer
      /\ fdc' = [fdc EXCEPT !.doing = "leaving", !.job = [what |-> "none"]]
      /\ prog' = [prog EXCEPT !.pc = "reset"]
  BY DEF Floppy!TimedOut, Floppy!Abandoned, Floppy!Goto
<1>2. prog.if = TRUE /\ irq6 = FALSE
  BY <1>1 DEF FloppyInv, FloppyTyped, Abreast, Floppy!Interruptible
<1>3. /\ Shaped(fdc', {"doing", "job", "motor", "result"}) /\ Shaped(prog', {"pc", "call", "if", "for"})
      /\ fdc'.doing = "leaving" /\ fdc'.motor = fdc.motor
      /\ prog'.pc = "reset" /\ prog'.if = prog.if /\ prog'.call = prog.call /\ prog'.for = prog.for
  BY <1>1, FloppyShapes DEF Shaped
<1>4. FloppyTyped'
  BY <1>1, <1>3, FloppyShapes, FloppyTypesNext
<1>5. Abreast'
  BY <1>1, <1>2, <1>3 DEF Abreast
<1>6. Commanded'
  <2>1. Floppy!Overrun(prog.call)' = Floppy!Overrun(prog.call)
    BY <1>3 DEF Floppy!Overrun, Floppy!BaseAddress, Floppy!Bytes
  <2> QED
    BY <1>1, <1>3, <2>1 DEF FloppyInv, Commanded, ForSense, ForData
<1> QED
  BY <1>1, <1>3, <1>4, <1>5, <1>6, AnswerStays, MotorStays DEF FloppyInv

LEMMA FloppyAfterReset == ASSUME FloppyInv, Floppy!AfterReset PROVE FloppyInv'
<1>1. /\ prog.pc = "reset" /\ ~Floppy!Interruptible /\ fdc.doing # "leaving"
      /\ types' = types /\ irq6' = irq6 /\ fdc' = fdc /\ fl' = [fl EXCEPT !.st41 = 128] /\ prog' = Floppy!Quiet
      /\ answer' = [Floppy!NoAnswer EXCEPT !.cf = TRUE, !.ah = 128, !.call = prog.call]
  BY DEF Floppy!AfterReset
<1>2. irq6 = FALSE /\ fdc.doing = "idle"
  BY <1>1 DEF FloppyInv, FloppyTyped, Abreast, Floppy!Interruptible
<1>3. /\ Shaped(fl', {"irqbit", "cal", "known", "timeout", "st41"}) /\ fl'.irqbit = fl.irqbit
      /\ fl'.timeout = fl.timeout
  BY <1>1, FloppyShapes DEF Shaped
<1>4. answer'.cf = TRUE
  BY <1>1 DEF Floppy!NoAnswer
<1> QED
  <2>1. fdc'.doing = "idle" /\ fdc'.motor = fdc.motor /\ irq6' = FALSE
    BY <1>1, <1>2
  <2>2. Shaped(fdc', {"doing", "job", "motor", "result"})
    BY <1>1, FloppyShapes
  <2> QED
    BY <1>1, <1>3, <1>4, <2>1, <2>2, FloppyReturns

LEMMA FloppyCompletes == ASSUME FloppyInv, Floppy!Completed PROVE FloppyInv'
<1>1. /\ prog.pc = "wait" /\ ~Floppy!Interruptible /\ fl.irqbit
      /\ types' = types /\ irq6' = irq6 /\ fdc' = fdc /\ fl' = [fl EXCEPT !.irqbit = FALSE] /\ answer' = answer
      /\ prog' = [prog EXCEPT !.if = FALSE, !.pc = IF fdc.doing = "result" THEN "result" ELSE "notready"]
  BY DEF Floppy!Completed
<1>2. prog.if = TRUE /\ Awaited("transfer", "result", "result")
  BY <1>1 DEF FloppyInv, Abreast
<1>3. irq6 = FALSE /\ fdc.doing = "result"
  BY <1>1, <1>2 DEF Awaited
<1>4. /\ Shaped(fl', {"irqbit", "cal", "known", "timeout", "st41"}) /\ fl'.irqbit = FALSE
      /\ fl'.timeout = fl.timeout
  BY <1>1, FloppyShapes DEF Shaped
<1>5. /\ Shaped(prog', {"pc", "call", "if", "for"})
      /\ prog'.pc = "result" /\ prog'.if = FALSE /\ prog'.call = prog.call
  BY <1>1, <1>3, FloppyShapes DEF Shaped
<1>6. FloppyTyped'
  BY <1>1, <1>4, <1>5, FloppyShapes, FloppyTypesNext
<1>7. Abreast'
  BY <1>1, <1>3, <1>5 DEF Abreast
<1>8. Commanded'
  <2>1. (ForSense' => ForSense) /\ (ForData' => ForData)
    BY <1>1, <1>5 DEF ForSense, ForData
  <2>2. fdc'.doing = "result" => fdc'.result \in {"ok", "protected", "error"}
    BY <1>1 DEF FloppyInv, Commanded
  <2> QED
    BY <1>1, <1>5, <2>1, <2>2, CommandStays
<1> QED
  BY <1>1, <1>4, <1>6, <1>7, <1>8, AnswerStays, MotorStays DEF FloppyInv

LEMMA FloppyResult == ASSUME FloppyInv, Floppy!Result PROVE FloppyInv'
<1>1. /\ prog.pc = "result" /\ types' = types /\ irq6' = irq6 /\ fdc' = [fdc EXCEPT !.doing = "idle"]
  BY DEF Floppy!Result
<1>2. irq6 = FALSE /\ prog.call.ah \in Transfers /\ ~Floppy!Overrun(prog.call) /\ fdc.job = Floppy!Programmed(prog.call)
  BY <1>1 DEF FloppyInv, Abreast, Commanded, ForData
<1>3. Shaped(fdc', {"doing", "job", "motor", "result"}) /\ fdc'.doing = "idle" /\ fdc'.motor = fdc.motor
  BY <1>1, FloppyShapes DEF Shaped
<1>4. CASE Floppy!Success(prog.call)
  <2>1. /\ answer' = [Floppy!NoAnswer EXCEPT !.call = prog.call, !.done = fdc.job] /\ prog' = Floppy!Quiet
        /\ fl' = [fl EXCEPT !.st41 = 0] \/ fl' = fl
    BY <1>4 DEF Floppy!Success
  <2>2. answer'.call = prog.call /\ answer'.done = fdc.job
    BY <2>1 DEF Floppy!NoAnswer
  <2>3. Answered'
    <3>1. /\ Floppy!Overrun(answer.call)' = Floppy!Overrun(prog.call)
          /\ Floppy!Programmed(answer.call)' = Floppy!Programmed(prog.call)
      BY <2>2 DEF Floppy!Overrun, Floppy!Programmed, Floppy!BaseAddress, Floppy!Bytes, Floppy!Page
    <3>2. Addressed(answer.call)'
      BY <2>2 DEF FloppyInv, FloppyTyped, Addressed
    <3> QED
      BY <1>2, <2>2, <3>1, <3>2 DEF Answered
  <2>4. /\ Shaped(fl', {"irqbit", "cal", "known", "timeout", "st41"}) /\ fl'.irqbit = fl.irqbit
        /\ fl'.timeout = fl.timeout
    BY <2>1, FloppyShapes DEF Shaped
  <2> QED
    BY <1>1, <1>2, <1>3, <2>1, <2>3, <2>4, FloppyReturns
<1>5. ASSUME NEW ah, NEW stored, answer' = [Floppy!NoAnswer EXCEPT !.cf = TRUE, !.ah = ah, !.call = prog.call],
             prog' = Floppy!Quiet, fl' = [fl EXCEPT !.st41 = stored] \/ fl' = fl
      PROVE  FloppyInv'
  <2>1. answer'.cf = TRUE
    BY <1>5 DEF Floppy!NoAnswer
  <2>2. /\ Shaped(fl', {"irqbit", "cal", "known", "timeout", "st41"}) /\ fl'.irqbit = fl.irqbit
        /\ fl'.timeout = fl.timeout
    BY <1>5, FloppyShapes DEF Shaped
  <2> QED
    BY <1>1, <1>2, <1>3, <1>5, <2>1, <2>2, FloppyReturns
<1>6. CASE Floppy!Goto("panic") /\ UNCHANGED <<fl, answer>>
  <2>1. prog' = [prog EXCEPT !.pc = "panic"] /\ fl' = fl /\ answer' = answer
    BY <1>6 DEF Floppy!Goto
  <2>2. /\ Shaped(prog', {"pc", "call", "if", "for"})
        /\ prog'.pc = "panic" /\ prog'.if = prog.if /\ prog'.call = prog.call
    BY <2>1, FloppyShapes DEF Shaped
  <2>3. FloppyTyped'
    BY <1>1, <1>3, <2>1, <2>2, FloppyShapes, FloppyTypesNext
  <2>4. Abreast'
    BY <1>1, <1>2, <1>3, <2>2 DEF Abreast
  <2>5. Commanded'
    BY <1>3, <2>2 DEF Commanded, ForSense, ForData
  <2> QED
    BY <1>3, <2>1, <2>3, <2>4, <2>5, AnswerStays, MotorStays DEF FloppyInv
<1>7. \/ Floppy!Success(prog.call)
      \/ /\ answer' = [Floppy!NoAnswer EXCEPT !.cf = TRUE, !.ah = 32, !.call = prog.call]
         /\ fl' = [fl EXCEPT !.st41 = 32] /\ prog' = Floppy!Quiet
      \/ /\ answer' = [Floppy!NoAnswer EXCEPT !.cf = TRUE, !.ah = 3, !.call = prog.call]
         /\ prog' = Floppy!Quiet /\ fl' = fl
      \/ Floppy!Goto("panic") /\ UNCHANGED <<fl, answer>>
  BY DEF Floppy!Result
<1> QED
  BY <1>4, <1>5, <1>6, <1>7

LEMMA FloppyControllerEnds == ASSUME FloppyInv, Floppy!ControllerEnds PROVE FloppyInv'
<1>1. /\ irq6' = TRUE /\ types' = types /\ fl' = fl /\ prog' = prog /\ answer' = answer
      /\ \/ fdc.doing \in {"leaving", "seek"} /\ fdc' = [fdc EXCEPT !.doing = "asked"]
         \/ /\ fdc.doing = "transfer"
            /\ \E r \in {"ok", "protected", "error"} : fdc' = [fdc EXCEPT !.doing = "result", !.result = r]
  BY DEF Floppy!ControllerEnds
<1>2. /\ Shaped(fdc', {"doing", "job", "motor", "result"}) /\ fdc'.motor = fdc.motor /\ fdc'.job = fdc.job
      /\ \/ fdc.doing \in {"leaving", "seek"} /\ fdc'.doing = "asked"
         \/ fdc.doing = "transfer" /\ fdc'.doing = "result" /\ fdc'.result \in {"ok", "protected", "error"}
  BY <1>1, FloppyShapes DEF Shaped
<1>3. FloppyTyped'
  BY <1>1, <1>2, FloppyShapes, FloppyTypesNext
<1>4. Abreast'
  BY <1>1, <1>2 DEF FloppyInv, FloppyTyped, Abreast, Awaited, AtRest
<1>5. Commanded'
  <2>1. prog.pc \in {"prepare", "ready"} => prog.for \in {"sense", "data"}
    BY DEF FloppyInv, Commanded
  <2> QED
    BY <1>1, <1>2, <2>1, CommandStays DEF ForSense, ForData
<1> QED
  BY <1>1, <1>2, <1>3, <1>4, <1>5, AnswerStays, MotorStays DEF FloppyInv

LEMMA FloppyInterrupt == ASSUME FloppyInv, Floppy!int0e_handler PROVE FloppyInv'
<1>1. /\ irq6' = FALSE /\ types' = types /\ fl' = [fl EXCEPT !.irqbit = TRUE] /\ prog' = prog /\ answer' = answer
      /\ fdc' = [fdc EXCEPT !.doing = IF fdc.doing = "asked" THEN "idle" ELSE fdc.doing]
  BY DEF Floppy!int0e_handler
<1>2. prog.if = TRUE /\ irq6 = TRUE
  BY DEF Floppy!int0e_handler, Floppy!Interruptible, FloppyInv, FloppyTyped
<1>3. /\ Shaped(fdc', {"doing", "job", "motor", "result"}) /\ fdc'.motor = fdc.motor /\ fdc'.job = fdc.job
      /\ fdc'.result = fdc.result /\ fdc'.doing = IF fdc.doing = "asked" THEN "idle" ELSE fdc.doing
  BY <1>1, FloppyShapes DEF Shaped
<1>4. /\ Shaped(fl', {"irqbit", "cal", "known", "timeout", "st41"}) /\ fl'.irqbit = TRUE
      /\ fl'.timeout = fl.timeout
  BY <1>1, FloppyShapes DEF Shaped
<1>5. FloppyTyped'
  BY <1>1, <1>3, <1>4, FloppyShapes, FloppyTypesNext
<1>6. Abreast'
  BY <1>1, <1>2, <1>3, <1>4 DEF FloppyInv, Abreast, Awaited, AtRest
<1>7. Commanded'
  <2>1. /\ prog.pc \in {"prepare", "ready"} => prog.for \in {"sense", "data"}
        /\ fdc'.doing = "result" => fdc'.result \in {"ok", "protected", "error"}
    BY <1>3 DEF FloppyInv, Commanded
  <2> QED
    BY <1>1, <1>3, <2>1, CommandStays DEF ForSense, ForData
<1> QED
  BY <1>1, <1>3, <1>4, <1>5, <1>6, <1>7, AnswerStays, MotorStays DEF FloppyInv

\* The motors stop with the last tick of the timeout.
LEMMA FloppyTick == ASSUME FloppyInv, Floppy!int08_motor PROVE FloppyInv'
<1>1. /\ fl.timeout > 0 /\ irq6' = irq6 /\ types' = types /\ prog' = prog /\ answer' = answer
      /\ fl' = [fl EXCEPT !.timeout = @ - 1]
      /\ fdc' = IF fl.timeout = 1 THEN [fdc EXCEPT !.motor = {}] ELSE fdc
  BY DEF Floppy!int08_motor
<1>2. /\ Shaped(fdc', {"doing", "job", "motor", "result"}) /\ fdc'.doing = fdc.doing /\ fdc'.job = fdc.job
      /\ fdc'.result = fdc.result /\ fdc'.motor = IF fl.timeout = 1 THEN {} ELSE fdc.motor
  BY <1>1, FloppyShapes DEF Shaped
<1>3. /\ Shaped(fl', {"irqbit", "cal", "known", "timeout", "st41"}) /\ fl'.irqbit = fl.irqbit
      /\ fl'.timeout = fl.timeout - 1
  BY <1>1, FloppyShapes DEF Shaped
<1>4. fl'.timeout \in Nat
  BY <1>1, <1>3, FloppyShapes
<1>5. FloppyTyped'
  BY <1>1, <1>2, <1>3, <1>4, FloppyShapes, FloppyTypesNext
<1>6. Abreast'
  BY <1>1, <1>2, <1>3 DEF FloppyInv, Abreast, Awaited, AtRest
<1>7. Commanded'
  <2>1. /\ prog.pc \in {"prepare", "ready"} => prog.for \in {"sense", "data"}
        /\ fdc'.doing = "result" => fdc'.result \in {"ok", "protected", "error"}
    BY <1>2 DEF FloppyInv, Commanded
  <2> QED
    BY <1>1, <1>2, <2>1, CommandStays DEF ForSense, ForData
<1>8. Floppy!MotorTimed'
  BY <1>1, <1>2, <1>3, FloppyShapes DEF FloppyInv, Floppy!MotorTimed
<1> QED
  BY <1>1, <1>5, <1>6, <1>7, <1>8, AnswerStays DEF FloppyInv

LEMMA FloppyStep == ASSUME FloppyInv, [BiosNext]_biosVars PROVE FloppyInv'
<1>1. CASE UNCHANGED floppyV
  BY <1>1, FloppyStays
<1>2. CASE Floppy!FloppyNext
  BY <1>2, FloppyCall, FloppyHeard, FloppyPrepares, FloppyPrepared, FloppyRecalibrates, FloppySenses, FloppySetsUp,
     FloppyIssues, FloppyTimesOut, FloppyAfterReset, FloppyCompletes, FloppyResult, FloppyControllerEnds,
     FloppyInterrupt, FloppyTick
     DEF Floppy!FloppyNext
<1> QED
  BY <1>1, <1>2 DEF BiosNext, biosVars, floppyV

\* A diskette transfer said to be done is the one asked for, between the
\* addresses asked for, whatever interrupts of recalibrations, resets and
\* commands that timed out came before; and a motor that runs has a timeout.
THEOREM BiosFloppyExact == Spec => []FloppyExact
<1>1. BiosInit(Parts) => FloppyInv
  BY FloppyStart DEF BiosInit
<1> QED
  BY <1>1, FloppyStep, FloppyHolds, PTL DEF Spec

-----------------------------------------------------------------------------
(* Memory services. *)

\* The first n ranges of the map.
FirstRanges(n) == [i \in 1 .. n |-> Memory!Range(i - 1, cmos)]

\* The map ends at 1M.
OnlyFirstMegabyte == Memory!Top(cmos) <= 1024

\* The map so far, and the range with which the next call continues.
Continues(n) ==
    /\ n \in 0 .. 3 => mem.next = n
    /\ (n = 4 /\ OnlyFirstMegabyte) => mem.next = 0
    /\ (n = 4 /\ ~OnlyFirstMegabyte) => mem.next = 4
    /\ n = 5 => mem.next = 0 /\ ~OnlyFirstMegabyte
MapInv == \E n \in 0 .. 5 : mem.map = FirstRanges(n) /\ Continues(n)

ToldInv ==
    /\ told.fn = "e801" => told.below = Memory!Lesser(cmos.k, 15360) /\ told.above = cmos.blocks
    /\ told.fn = "88" => told.k = Memory!Lesser(cmos.k, 65472)
    /\ told.fn = "int12" => told.k = 639

MemoryInv ==
    /\ cmos \in Memories
    /\ mem = [map |-> mem.map, next |-> mem.next, moved |-> mem.moved, protected |-> mem.protected]
    /\ MapInv /\ ToldInv /\ Memory!MovedAsAsked

\* What the map is about does not change.
LEMMA MapKept ==
    ASSUME cmos' = cmos PROVE (\A n \in Nat : FirstRanges(n)' = FirstRanges(n)) /\ OnlyFirstMegabyte' = OnlyFirstMegabyte
  BY DEF FirstRanges, OnlyFirstMegabyte, Memory!Range, Memory!Top, Memory!Lesser

LEMMA MemoryStart == Memory!MemoryInit => MemoryInv
<1> SUFFICES ASSUME Memory!MemoryInit PROVE MemoryInv
  OBVIOUS
<1>1. MapInv
  <2>1. mem.map = FirstRanges(0) /\ mem.next = 0
    BY DEF Memory!MemoryInit, FirstRanges
  <2>2. Continues(0)
    BY <2>1 DEF Continues
  <2> QED
    BY <2>1, <2>2 DEF MapInv
<1>2. told.fn = "none"
  BY DEF Memory!MemoryInit, Memory!NotTold
<1> QED
  BY <1>1, <1>2 DEF Memory!MemoryInit, MemoryInv, ToldInv, Memory!MovedAsAsked

LEMMA MapStays == ASSUME MemoryInv, cmos' = cmos, mem'.map = mem.map, mem'.next = mem.next PROVE MapInv'
<1>1. PICK n \in 0 .. 5 : mem.map = FirstRanges(n) /\ Continues(n)
  BY DEF MemoryInv, MapInv
<1>2. FirstRanges(n)' = FirstRanges(n)
  BY MapKept
<1>3. Continues(n)'
  BY <1>1, MapKept DEF Continues
<1> QED
  BY <1>1, <1>2, <1>3 DEF MapInv

LEMMA MemoryStays == ASSUME MemoryInv, UNCHANGED memoryV PROVE MemoryInv'
<1>1. MapInv'
  BY MapStays DEF memoryV
<1>2. ToldInv'
  BY DEF MemoryInv, ToldInv, Memory!Lesser, memoryV
<1> QED
  BY <1>1, <1>2 DEF MemoryInv, Memory!MovedAsAsked, memoryV

\* AX=E820h hands out one more range.
LEMMA MemoryMap == ASSUME MemoryInv, Memory!int15_e820 PROVE MemoryInv'
<1>1. PICK n \in 0 .. 5 : mem.map = FirstRanges(n) /\ Continues(n)
  BY DEF MemoryInv, MapInv
<1>2. cmos' = cmos /\ told'.fn \in {"e820", "unsupported"}
  BY DEF Memory!int15_e820, Memory!Tells
<1>3. mem.next \in 0 .. 4 /\ (mem.next # 0 => n = mem.next /\ (n = 4 => ~OnlyFirstMegabyte))
  BY <1>1 DEF Continues
<1> DEFINE r == Memory!Range(mem.next, cmos)
<1>4. /\ mem'.map = Append(IF mem.next = 0 THEN <<>> ELSE mem.map, r) /\ mem'.next = r.next
      /\ mem' = [map |-> mem'.map, next |-> mem'.next, moved |-> mem'.moved, protected |-> mem'.protected]
  BY <1>3 DEF Memory!int15_e820, MemoryInv
<1>5. MapInv'
  <2>1. CASE mem.next = 0
    <3>1. mem'.map = FirstRanges(1)
      BY <1>4, <2>1 DEF FirstRanges
    <3>2. mem'.next = 1
      BY <1>4, <2>1 DEF Memory!Range
    <3>3. FirstRanges(1)' = FirstRanges(1) /\ Continues(1)'
      BY <1>2, <3>2, MapKept DEF Continues
    <3> QED
      BY <3>1, <3>3 DEF MapInv
  <2>2. CASE mem.next # 0
    <3>1. n = mem.next /\ n \in 1 .. 4 /\ (n = 4 => ~OnlyFirstMegabyte)
      BY <1>3, <2>2
    <3>2. mem'.map = FirstRanges(n + 1)
      <4>1. mem'.map = Append(FirstRanges(n), Memory!Range(n, cmos))
        BY <1>1, <1>4, <2>2, <3>1
      <4> QED
        BY <3>1, <4>1 DEF FirstRanges
    <3>3. Continues(n + 1)'
      <4>1. CASE n = 1 \/ n = 2
        <5>1. mem'.next = n + 1
          BY <1>4, <3>1, <4>1 DEF Memory!Range
        <5> QED
          BY <4>1, <5>1 DEF Continues
      <4>2. CASE n = 3
        <5>1. mem'.next = IF OnlyFirstMegabyte THEN 0 ELSE 4
          BY <1>4, <3>1, <4>2 DEF Memory!Range, OnlyFirstMegabyte
        <5> QED
          BY <1>2, <4>2, <5>1, MapKept DEF Continues
      <4>3. CASE n = 4
        <5>1. mem'.next = 0
          BY <1>4, <3>1, <4>3 DEF Memory!Range
        <5> QED
          BY <1>2, <3>1, <4>3, <5>1, MapKept DEF Continues
      <4> QED
        BY <3>1, <4>1, <4>2, <4>3
    <3>4. FirstRanges(n + 1)' = FirstRanges(n + 1)
      BY <1>2, <3>1, MapKept
    <3> QED
      BY <3>1, <3>2, <3>3, <3>4 DEF MapInv
  <2> QED
    BY <2>1, <2>2
<1>6. ToldInv' /\ Memory!MovedAsAsked'
  BY <1>2 DEF ToldInv, Memory!MovedAsAsked
<1> QED
  BY <1>2, <1>4, <1>5, <1>6 DEF MemoryInv

\* The other services leave the map alone.
LEMMA MemoryCall ==
    ASSUME MemoryInv,
           Memory!int15_e801 \/ Memory!int15_88 \/ Memory!int12_handler \/ Memory!int15_a20
               \/ Memory!int15_87 \/ Memory!int15_89 \/ Memory!Read
    PROVE  MemoryInv'
<1>1. cmos' = cmos
  <2>1. Memory!int15_a20 => cmos' = cmos
    BY DEF Memory!int15_a20
  <2> QED
    BY <2>1 DEF Memory!int15_e801, Memory!int15_88, Memory!int12_handler, Memory!int15_87,
                Memory!int15_89, Memory!Read
<1>2. CASE Memory!int15_87
  <2>1. PICK from \in Moves, to \in Moves :
           /\ mem' = [mem EXCEPT !.moved = [from |-> from, to |-> to]]
           /\ told' = [fn |-> "87", from |-> from, to |-> to, gate |-> a20]
    BY <1>2 DEF Memory!int15_87, Memory!During, Memory!Physical, Memory!Tells
  <2>2. /\ mem'.map = mem.map /\ mem'.next = mem.next /\ mem'.moved = [from |-> from, to |-> to]
        /\ mem' = [map |-> mem'.map, next |-> mem'.next, moved |-> mem'.moved, protected |-> mem'.protected]
    BY <2>1 DEF MemoryInv
  <2>3. ToldInv'
    BY <2>1 DEF ToldInv
  <2>4. a20' = a20
    BY <1>2 DEF Memory!int15_87
  <2>5. Memory!MovedAsAsked'
    BY <2>1, <2>2, <2>4 DEF Memory!MovedAsAsked
  <2>6. MapInv'
    BY <1>1, <2>2, MapStays
  <2> QED
    BY <1>1, <2>2, <2>3, <2>5, <2>6 DEF MemoryInv
<1>3. CASE ~Memory!int15_87
  <2>1. /\ mem'.map = mem.map /\ mem'.next = mem.next
        /\ mem' = [map |-> mem'.map, next |-> mem'.next, moved |-> mem'.moved, protected |-> mem'.protected]
    <3>1. mem' = mem \/ mem' = [mem EXCEPT !.protected = TRUE]
      <4>1. Memory!int15_a20 => mem' = mem
        BY DEF Memory!int15_a20
      <4> QED
        BY <1>3, <4>1 DEF Memory!int15_e801, Memory!int15_88, Memory!int12_handler, Memory!int15_89, Memory!Read
    <3> QED
      BY <3>1 DEF MemoryInv
  <2>2. ToldInv' /\ Memory!MovedAsAsked'
    <3>1. CASE Memory!int15_e801
      <4>1. told' = [fn |-> "e801", below |-> Memory!Lesser(cmos.k, 15360), above |-> cmos.blocks]
        BY <3>1 DEF Memory!int15_e801, Memory!Tells
      <4> QED
        BY <1>1, <4>1 DEF ToldInv, Memory!MovedAsAsked, Memory!Lesser
    <3>2. CASE Memory!int15_88
      <4>1. told' = [fn |-> "88", k |-> Memory!Lesser(cmos.k, 65472)]
        BY <3>2 DEF Memory!int15_88, Memory!Tells
      <4> QED
        BY <1>1, <4>1 DEF ToldInv, Memory!MovedAsAsked, Memory!Lesser
    <3>3. CASE Memory!int12_handler
      <4>1. told' = [fn |-> "int12", k |-> 639]
        BY <3>3 DEF Memory!int12_handler, Memory!Tells
      <4> QED
        BY <4>1 DEF ToldInv, Memory!MovedAsAsked
    <3>4. CASE Memory!int15_a20 \/ Memory!int15_89 \/ Memory!Read
      <4>1. told'.fn \in {"a20", "89", "none"}
        <5>1. CASE Memory!int15_a20
          <6>1. PICK al \in {0, 1, 2, 3, 4} : told' = [fn |-> "a20", al |-> al, on |-> a20']
            BY <5>1, Zenon DEF Memory!int15_a20, Memory!Tells
          <6> QED
            BY <6>1, Zenon
        <5>2. CASE Memory!int15_89 \/ Memory!Read
          BY <5>2 DEF Memory!int15_89, Memory!Read, Memory!Tells, Memory!NotTold
        <5> QED
          BY <3>4, <5>1, <5>2
      <4> QED
        BY <4>1 DEF ToldInv, Memory!MovedAsAsked
    <3> QED
      BY <1>3, <3>1, <3>2, <3>3, <3>4
  <2>3. MapInv'
    BY <1>1, <2>1, MapStays
  <2> QED
    BY <1>1, <2>1, <2>2, <2>3 DEF MemoryInv
<1> QED
  BY <1>2, <1>3

LEMMA MemoryStep == ASSUME MemoryInv, [BiosNext]_biosVars PROVE MemoryInv'
<1>1. CASE UNCHANGED memoryV
  BY <1>1, MemoryStays
<1>2. CASE Memory!MemoryNext
  BY <1>2, MemoryMap, MemoryCall DEF Memory!MemoryNext
<1> QED
  BY <1>1, <1>2 DEF BiosNext, biosVars, memoryV

LEMMA MemoryHolds == MemoryInv => MemoryExact
<1> SUFFICES ASSUME MemoryInv PROVE Memory!MapAgrees
  BY DEF MemoryInv, MemoryExact
<1>1. /\ cmos.k \in Nat /\ cmos.k < 65536
      /\ cmos.blocks \in Nat /\ cmos.blocks < 65536
  BY MemoryAssumption DEF MemoryInv
<1> DEFINE top == Memory!Top(cmos)
<1>2. /\ top \in Nat /\ top >= 1024
      /\ top <= 1024 => cmos.k = 0 /\ cmos.blocks = 0
      /\ Memory!Known(cmos) => top = IF cmos.blocks = 0 THEN 1024 + cmos.k ELSE 16384 + cmos.blocks * 64
  BY <1>1 DEF Memory!Top, Memory!Known, Memory!Lesser
<1>3. PICK n \in 0 .. 5 :
        /\ mem.map = FirstRanges(n)
        /\ n \in 0 .. 3 => mem.next = n
        /\ (n = 4 /\ mem.next = 0) => top <= 1024
        /\ n = 5 => top > 1024
  BY <1>2 DEF MemoryInv, MapInv, Continues, OnlyFirstMegabyte
<1>4. /\ Len(mem.map) = n /\ DOMAIN mem.map = 1 .. n
      /\ \A i \in 1 .. n : mem.map[i] = Memory!Range(i - 1, cmos)
  BY <1>3 DEF FirstRanges
<1>5. /\ \A i \in 0 .. 3 : Memory!Range(i, cmos).to <= Memory!Range(i + 1, cmos).from
      /\ \A i \in 0 .. 3 : Memory!Range(i, cmos).from < Memory!Range(i, cmos).to
      /\ top > 1024 => Memory!Range(4, cmos).from < Memory!Range(4, cmos).to
      /\ Memory!Range(1, cmos).to = 640 /\ Memory!Range(3, cmos).to = 1024 /\ Memory!Range(4, cmos).to = top
  BY <1>2 DEF Memory!Range
<1> HIDE DEF top
<1>6. \A i \in 1 .. Len(mem.map) - 1 : mem.map[i].to <= mem.map[i + 1].from
  BY <1>3, <1>4, <1>5, SMTT(30)
<1>7. \A i \in DOMAIN mem.map : mem.map[i].from < mem.map[i].to
  <2> SUFFICES ASSUME NEW i \in 1 .. n PROVE mem.map[i].from < mem.map[i].to
    BY <1>4
  <2>1. mem.map[i] = Memory!Range(i - 1, cmos) /\ (i - 1 \in 0 .. 3 \/ (i - 1 = 4 /\ top > 1024))
    BY <1>3, <1>4
  <2> QED
    BY <1>5, <2>1
<1>8. ASSUME mem.map # <<>>, mem.next = 0, Memory!Known(cmos)
      PROVE  LET end == mem.map[Len(mem.map)].to
             IN  /\ told.fn = "e801" /\ cmos.k <= 15360 => end = 1024 + told.below + 64 * told.above
                 /\ told.fn = "88" => end >= 1024 + Memory!Lesser(told.k, 15360)
                 /\ told.fn = "int12" => told.k <= mem.map[2].to
  <2>1. n \in {4, 5} /\ (n = 4 => top <= 1024)
    BY <1>3, <1>4, <1>8
  <2>2. mem.map[Len(mem.map)].to = top /\ mem.map[2].to = 640
    <3>1. mem.map[2] = Memory!Range(1, cmos)
      BY <1>4, <2>1
    <3>2. mem.map[Len(mem.map)] = IF n = 4 THEN Memory!Range(3, cmos) ELSE Memory!Range(4, cmos)
      BY <1>4, <2>1
    <3>3. n = 4 => top = 1024
      BY <1>2, <2>1
    <3> QED
      BY <1>5, <2>1, <3>1, <3>2, <3>3
  <2>3. /\ cmos.k <= 15360 => top = 1024 + Memory!Lesser(cmos.k, 15360) + 64 * cmos.blocks
        /\ top >= 1024 + Memory!Lesser(Memory!Lesser(cmos.k, 65472), 15360)
    <3>1. top = IF cmos.blocks = 0 THEN 1024 + cmos.k ELSE 16384 + cmos.blocks * 64
      BY <1>2, <1>8
    <3>2. cmos.blocks > 0 => cmos.k >= 15360
      BY <1>1, <1>8 DEF Memory!Known
    <3> QED
      BY <1>1, <3>1, <3>2 DEF Memory!Lesser
  <2> QED
    BY <2>2, <2>3 DEF MemoryInv, ToldInv
<1> QED
  BY <1>6, <1>7, <1>8 DEF Memory!MapAgrees

\* INT 15h hands out a map of memory in order that ends where the older
\* services say memory ends, and moves blocks between the addresses it is given,
\* whatever the gate of address line 20 was set to.
THEOREM BiosMemoryExact == Spec => []MemoryExact
<1>1. BiosInit(Parts) => MemoryInv
  BY MemoryStart DEF BiosInit
<1> QED
  BY <1>1, MemoryStep, MemoryHolds, PTL DEF Spec

-----------------------------------------------------------------------------
(* Hard disks and CD-ROMs. *)

None == Disk!NoDevice
HdOf(n) == ata.hdidmap[n]
CdOf(n) == ata.cdidmap[n]

\* A map numbers the devices of a type, each once; while POST detects
\* them the next number is free.
Maps(found, map, type) ==
    /\ map \in [Disk!Devices -> Disk!Devices \cup {None}]
    /\ \A n \in Disk!Devices : map[n] # None => found[map[n]].type = type
    /\ \A m, n \in Disk!Devices : map[m] # None /\ map[m] = map[n] => m = n
    /\ \A d \in Disk!Devices : found[d].type = type => \E n \in Disk!Devices : map[n] = d
Free(map, count) ==
    /\ count \in Nat /\ count <= ata.next
    /\ \A n \in Disk!Devices : n >= count => map[n] = None

\* A geometry that fits a disk and INT 13h.
Fits(g, size) ==
    /\ g.c \in Nat /\ 0 < g.c /\ g.c <= 1024
    /\ g.h \in Nat /\ 0 < g.h /\ g.h <= 255
    /\ g.s \in Nat /\ 0 < g.s /\ g.s <= 63
    /\ g.c * g.h * g.s <= size

\* POST has detected the devices below the next.
FoundInv ==
    /\ ata.next \in Nat /\ ata.next <= Disk!MaxDevices
    /\ Shaped(ata.found, Disk!Devices)
    /\ \A d \in Disk!Devices : d >= ata.next => ata.found[d].type = "none"
    /\ \A d \in Disk!Devices :
          LET f == ata.found[d]
          IN  /\ f.type = "ata" => Fits(f.lchs, f.size)
              /\ f.type = "atapi" => Disk!bench.units[d].kind = "atapi"
\* Hard disks and CD-ROMs are numbered in the order they were found.
NumberedInv ==
    /\ Maps(ata.found, ata.hdidmap, "ata") /\ Maps(ata.found, ata.cdidmap, "atapi")
    /\ ~Disk!Ready => Free(ata.hdidmap, ata.hdcount) /\ Free(ata.cdidmap, ata.cdcount)

AtaFields == {"found", "hdidmap", "cdidmap", "hdcount", "cdcount", "next"}
DriveFields == {"pc", "call", "dev", "write", "first", "left", "loop", "moved", "seg", "off", "at"}
PacketFields == {"pc", "call", "dev", "first", "left", "pos", "header", "length", "moved", "seg", "off", "at", "from"}

\* The sector of a hard disk that a call names, and the half kilobyte of a CD
\* and the number of them.
AskedOf(c, d) == IF c.ah \in {66, 67} THEN c.lba ELSE Disk!LogicalBlock(c, ata.found[d].lchs)
StartOf(c) == IF c.ah = 66 THEN 4 * c.lba ELSE 4 * cdemu.ilba + Disk!Virtual(c)
AmountOf(c) == IF c.ah = 66 THEN 4 * c.n ELSE c.n

\* A command of a disk: what was moved and what is left are what was asked, on
\* both sides, and the buffer is where that much of memory ends.
DriveInv(x) ==
    /\ x.pc \in {"start", "sector"}
    /\ Shaped(x, DriveFields)
    /\ x.first = AskedOf(x.call, x.dev)
    /\ x.left \in Nat /\ 0 < x.left /\ x.loop = x.left /\ x.moved \in Nat
    /\ x.moved + x.left = x.call.n /\ x.call.n < 256
    /\ x.seg \in Nat /\ x.off \in Nat /\ x.off < 65536 /\ Disk!Linear(x.call.seg, x.call.off) \in Nat
    /\ Disk!Linear(x.seg, x.off) = Disk!Linear(x.call.seg, x.call.off) + 512 * x.moved
    /\ x.at # <<>> => x.at[1] = Disk!Linear(x.call.seg, x.call.off) + 512 * x.moved

\* A command of a CD: the half kilobytes before those asked for are skipped.
Skipped(x) == StartOf(x.call) - x.first
PacketInv(x) ==
    /\ x.pc = "packet"
    /\ Shaped(x, PacketFields)
    /\ x.call.ah # 66 => x.call.ah = 2 /\ cdemu # Disk!NoCdemu
    /\ StartOf(x.call) \in Int /\ x.first \in Int
    /\ AmountOf(x.call) \in Nat /\ 0 < AmountOf(x.call)
    /\ x.left \in Nat /\ x.pos \in Nat /\ x.header \in Nat /\ x.length \in Nat /\ x.moved \in Nat
    /\ x.moved + x.length = AmountOf(x.call)
    /\ x.header + x.length <= x.left
    /\ x.header > 0 => x.moved = 0
    /\ x.length > 0 => x.pos + x.header = Skipped(x) + x.moved
    /\ x.moved > 0 => x.from = Skipped(x)
    /\ x.at # <<>> => x.moved > 0 /\ x.at[1] = Skipped(x) + x.moved

XferInv == xfer \in {Disk!NoXfer, Disk!Halted} \/ DriveInv(xfer) \/ PacketInv(xfer)

\* What a packet command answered is about the emulated disk, or about the CD.
ReplyInv ==
    /\ Shaped(reply, {"call", "cf", "ah", "n", "got"})
    /\ reply.got # <<>> =>
          /\ Disk!Moved(reply)
          /\ "loop" \notin DOMAIN reply.got => reply.call.ah = 66 \/ cdemu # Disk!NoCdemu

\* A disk is emulated once everything was detected.
CdemuInv ==
    \/ cdemu = Disk!NoCdemu
    \/ /\ Disk!Ready
       /\ cdemu.active => cdemu.drive \in {0, 128}
       /\ Shaped(cdemu, {"active", "drive", "dev", "media", "ilba", "geometry"})
       /\ cdemu.ilba \in Nat /\ cdemu.geometry.h \in Nat /\ cdemu.geometry.s \in Nat

\* The inductive invariant of the disk services.
DiskInv ==
    /\ machine \in Machines
    /\ Shaped(ata, AtaFields) /\ FoundInv /\ NumberedInv
    /\ locks \in [Disk!Devices -> Nat]
    /\ CdemuInv
    /\ XferInv
    /\ ReplyInv
    /\ ~Disk!Ready => xfer = Disk!NoXfer /\ reply = Disk!NoReply

\* Translations of a geometry stay on the disk.
LEMMA Monotone == \A x, y, h \in Nat : x <= y => x * h <= y * h
  OBVIOUS

\* Halving as often as m is a power of 2 loses at most what does not divide.
LEMMA HalvesFit ==
    ASSUME NEW c \in Nat, NEW h \in Nat, NEW m \in Nat, 0 < m
    PROVE  /\ c \div m \in Nat /\ h * m \in Nat /\ (c \div m) * (h * m) <= c * h
           /\ c >= m => 0 < c \div m
           /\ 0 < h => 0 < h * m
<1> DEFINE q == c \div m
<1>1. q \in Nat /\ q * m <= c /\ h * m \in Nat
  BY SMTT(30)
<1>2. q * (h * m) = (q * m) * h /\ q * m \in Nat
  BY <1>1
<1>3. (q * m) * h <= c * h
  BY <1>1, <1>2, Monotone
<1>4. c >= m => 0 < q
  BY SMTT(30)
<1>5. 0 < h => 0 < h * m
  BY SMTT(30)
<1> QED
  BY <1>1, <1>2, <1>3, <1>4, <1>5

LEMMA Powers ==
    /\ 2 ^ 0 = 1 /\ 2 ^ 1 = 2 /\ 2 ^ 2 = 4 /\ 2 ^ 3 = 8 /\ 2 ^ 4 = 16 /\ 2 ^ 5 = 32 /\ 2 ^ 6 = 64
    /\ 2 ^ 24 = 16777216 /\ 2 ^ 28 = 268435456
  OBVIOUS

\* The LARGE translation fits a byte of heads.
LEMMA LargeFits ==
    ASSUME NEW g, g.c \in Nat, 0 < g.c, g.c < 65536, g.h \in Nat, 0 < g.h, g.h <= 16
    PROVE  LET l == Disk!large(g)
           IN  /\ l.c \in Nat /\ 0 < l.c /\ l.h \in Nat /\ 0 < l.h /\ l.h <= 255
               /\ l.c * l.h <= g.c * g.h
<1> DEFINE First(k) == k \in 0 .. 6 /\ Disk!Settled(g, k) /\ \A i \in 0 .. k - 1 : ~Disk!Settled(g, i)
           K == CHOOSE k \in 0 .. 6 : Disk!Settled(g, k) /\ \A i \in 0 .. k - 1 : ~Disk!Settled(g, i)
<1>1. Disk!Settled(g, 6)
  BY Powers DEF Disk!Settled, Disk!Halved
<1>2. \E k \in 0 .. 6 : First(k)
  BY <1>1
<1>3. First(K)
  BY <1>2
<1> HIDE DEF K
<1>4. Disk!large(g) = Disk!Halved(g, K)
  BY DEF Disk!large, K
<1>5. /\ Disk!Settled(g, 0) <=> g.c <= 1024
      /\ Disk!Settled(g, 1) <=> (g.c \div 2 <= 1024 \/ g.h * 2 > 127)
      /\ Disk!Settled(g, 2) <=> (g.c \div 4 <= 1024 \/ g.h * 4 > 127)
      /\ Disk!Settled(g, 3) <=> (g.c \div 8 <= 1024 \/ g.h * 8 > 127)
      /\ Disk!Settled(g, 4) <=> (g.c \div 16 <= 1024 \/ g.h * 16 > 127)
      /\ Disk!Settled(g, 5) <=> (g.c \div 32 <= 1024 \/ g.h * 32 > 127)
  BY Powers DEF Disk!Settled, Disk!Halved
<1>6. \E m \in {1, 2, 4, 8, 16, 32, 64} :
         /\ Disk!Halved(g, K).c = g.c \div m /\ Disk!Halved(g, K).h = g.h * m
         /\ g.c >= m /\ g.h * m <= 255
  <2>0. CASE K = 0
    BY <2>0, Powers DEF Disk!Halved
  <2>1. CASE K = 1
    <3>1. ~Disk!Settled(g, 0)
      BY <1>3, <2>1
    <3> QED
      BY <1>5, <2>1, <3>1, Powers DEF Disk!Halved
  <2>2. CASE K = 2
    <3>1. ~Disk!Settled(g, 1)
      BY <1>3, <2>2
    <3> QED
      BY <1>5, <2>2, <3>1, Powers DEF Disk!Halved
  <2>3. CASE K = 3
    <3>1. ~Disk!Settled(g, 2)
      BY <1>3, <2>3
    <3> QED
      BY <1>5, <2>3, <3>1, Powers DEF Disk!Halved
  <2>4. CASE K = 4
    <3>1. ~Disk!Settled(g, 3)
      BY <1>3, <2>4
    <3> QED
      BY <1>5, <2>4, <3>1, Powers DEF Disk!Halved
  <2>5. CASE K = 5
    <3>1. ~Disk!Settled(g, 4)
      BY <1>3, <2>5
    <3> QED
      BY <1>5, <2>5, <3>1, Powers DEF Disk!Halved
  <2>6. CASE K = 6
    <3>1. ~Disk!Settled(g, 5)
      BY <1>3, <2>6
    <3> QED
      BY <1>5, <2>6, <3>1, Powers DEF Disk!Halved
  <2> QED
    BY <1>3, <2>0, <2>1, <2>2, <2>3, <2>4, <2>5, <2>6
<1>7. PICK m \in {1, 2, 4, 8, 16, 32, 64} :
         /\ Disk!Halved(g, K).c = g.c \div m /\ Disk!Halved(g, K).h = g.h * m
         /\ g.c >= m /\ g.h * m <= 255
  BY <1>6
<1>8. m \in Nat /\ 0 < m
  OBVIOUS
<1> QED
  BY <1>4, <1>7, <1>8, HalvesFit

\* Cylinders that are cut off leave less.
LEMMA CutFits ==
    ASSUME NEW g, NEW s \in Nat, NEW m \in Nat, NEW size \in Nat,
           g.c \in Nat, 0 < g.c, g.h \in Nat, 0 < g.h, g.h <= 255, 0 < s, s <= 63,
           g.c * g.h <= m, m * s <= size
    PROVE  Fits([c |-> Disk!Cut(g.c), h |-> g.h, s |-> s], size)
<1> DEFINE k == Disk!Cut(g.c)
<1>1. k \in Nat /\ 0 < k /\ k <= 1024 /\ k <= g.c
  BY DEF Disk!Cut, Disk!Least
<1> HIDE DEF k
<1>2. k * g.h <= m /\ k * g.h \in Nat
  <2>1. k * g.h <= g.c * g.h /\ k * g.h \in Nat /\ g.c * g.h \in Nat
    BY <1>1, Monotone
  <2> QED
    BY <2>1
<1>3. k * g.h * s <= size
  <2>1. (k * g.h) * s <= m * s /\ (k * g.h) * s \in Nat /\ m * s \in Nat
    BY <1>2, Monotone
  <2> QED
    BY <2>1
<1> QED
  BY <1>1, <1>3 DEF Fits, k

\* The heads of LBA translation leave at least one cylinder.
LEMMA LbaFits ==
    ASSUME NEW size \in Nat, 16 * 63 <= size, size < 255 * 65536 * 63
    PROVE  LET heads == Disk!LbaHeads(size \div 63)
               c == ((size \div 63) \div heads) % 65536
           IN  /\ c \in Nat /\ 0 < c /\ heads \in Nat /\ 0 < heads /\ heads <= 255
               /\ c * heads <= size \div 63
<1> DEFINE t == size \div 63
           heads == Disk!LbaHeads(t)
           c == (t \div heads) % 65536
<1>1. t \in Nat /\ 16 <= t /\ t < 255 * 65536
  OBVIOUS
<1> HIDE DEF t
<1>2. (t \div 1024) % 65536 = t \div 1024
  BY <1>1
<1>3. \E m \in {16, 32, 64, 128, 255} : heads = m /\ m <= t /\ t < m * 65536
  BY <1>1, <1>2 DEF Disk!LbaHeads
<1> HIDE DEF heads
<1>4. PICK m \in {16, 32, 64, 128, 255} : heads = m /\ m <= t /\ t < m * 65536
  BY <1>3
<1>5. c \in Nat /\ 0 < c /\ c * heads <= t
  <2>1. t \div m \in Nat /\ 0 < t \div m /\ t \div m < 65536 /\ (t \div m) * m <= t
    BY <1>1, <1>4
  <2>2. c = t \div m
    BY <1>4, <2>1
  <2> QED
    BY <1>4, <2>1, <2>2
<1>6. heads \in Nat /\ 0 < heads /\ heads <= 255
  BY <1>4
<1> QED
  BY <1>5, <1>6 DEF t, heads

\* Whatever the translation, the logical geometry fits the disk.
LEMMA LchsFits ==
    ASSUME NEW unit, DiskUnit(unit), unit.kind = "ata"
    PROVE  Fits(Disk!Lchs(unit.translation, unit.pchs, unit.size), unit.size)
<1> DEFINE p == unit.pchs
           size == unit.size
           lchs == Disk!Lchs(unit.translation, p, size)
<1>1. /\ p.c \in Nat /\ 0 < p.c /\ p.c < 65536 /\ p.h \in Nat /\ 0 < p.h /\ p.h <= 16
      /\ p.s \in Nat /\ 0 < p.s /\ p.s <= 63 /\ size \in Nat
      /\ p.c * p.h \in Nat /\ p.c * p.h * p.s <= size
  BY DEF DiskUnit, DiskIdentity
<1>2. CASE unit.translation = "none"
  <2>1. lchs = [c |-> Disk!Cut(p.c), h |-> p.h, s |-> p.s]
    BY <1>2 DEF Disk!Lchs
  <2>2. p.c * p.h <= p.c * p.h /\ p.h <= 255
    BY <1>1
  <2> QED
    BY <1>1, <2>1, <2>2, CutFits
<1>3. CASE unit.translation = "large"
  <2> DEFINE g == Disk!large([c |-> p.c, h |-> p.h])
  <2>1. lchs = [c |-> Disk!Cut(g.c), h |-> g.h, s |-> p.s]
    BY <1>3 DEF Disk!Lchs
  <2>2. g.c \in Nat /\ 0 < g.c /\ g.h \in Nat /\ 0 < g.h /\ g.h <= 255 /\ g.c * g.h <= p.c * p.h
    BY <1>1, LargeFits
  <2> HIDE DEF g
  <2> QED
    BY <1>1, <2>1, <2>2, CutFits
<1>4. CASE unit.translation = "rechs"
  <2> DEFINE r == Disk!rechs(p)
             g == Disk!large([c |-> r.c, h |-> r.h])
  <2>1. lchs = [c |-> Disk!Cut(g.c), h |-> g.h, s |-> p.s]
    BY <1>4 DEF Disk!Lchs, Disk!large, Disk!Settled, Disk!Halved
  <2>2. r.c \in Nat /\ 0 < r.c /\ r.c < 65536 /\ r.h \in Nat /\ 0 < r.h /\ r.h <= 16 /\ r.c * r.h <= p.c * p.h
    BY <1>1 DEF Disk!rechs, Disk!Least
  <2> HIDE DEF r
  <2>3. g.c \in Nat /\ 0 < g.c /\ g.h \in Nat /\ 0 < g.h /\ g.h <= 255 /\ g.c * g.h <= r.c * r.h
    BY <2>2, LargeFits
  <2> HIDE DEF g
  <2>4. g.c * g.h <= p.c * p.h
    <3>1. g.c * g.h \in Nat /\ r.c * r.h \in Nat
      BY <2>2, <2>3
    <3> QED
      BY <1>1, <2>2, <2>3, <3>1
  <2> QED
    BY <1>1, <2>1, <2>3, <2>4, CutFits
<1>5. CASE unit.translation = "lba"
  <2> DEFINE heads == Disk!LbaHeads(size \div 63)
             g == [c |-> ((size \div 63) \div heads) % 65536, h |-> heads]
  <2>1. lchs = [c |-> Disk!Cut(g.c), h |-> g.h, s |-> 63]
    BY <1>5 DEF Disk!Lchs
  <2>2. 16 * 63 <= size /\ size < 255 * 65536 * 63
    BY <1>5 DEF DiskUnit, DiskIdentity
  <2>3. g.c \in Nat /\ 0 < g.c /\ g.h \in Nat /\ 0 < g.h /\ g.h <= 255 /\ g.c * g.h <= size \div 63
    BY <1>1, <2>2, LbaFits
  <2>4. size \div 63 \in Nat /\ (size \div 63) * 63 <= size
    BY <1>1
  <2> HIDE DEF g
  <2> QED
    BY <1>1, <2>1, <2>3, <2>4, CutFits
<1> QED
  BY <1>2, <1>3, <1>4, <1>5 DEF DiskUnit, DiskIdentity

LEMMA GeometryHolds == FoundInv => Disk!GeometryOnDisk
  BY DEF FoundInv, Fits, Disk!GeometryOnDisk

\* A device in the map has one number, one further on while a CD stands for
\* the first of the class.
LEMMA OneNumber ==
    ASSUME FoundInv, NumberedInv, CdemuInv,
           NEW d \in Disk!Devices, ata.found[d].type \in {"ata", "atapi"}
    PROVE  \E w \in Disk!Numbers : \A dl \in Disk!Numbers : Disk!Target(dl) = d <=> dl = w
<1>1. Disk!Devices = 0 .. 7 /\ None = 8 /\ Disk!Numbers = (128 .. 136) \cup (224 .. 232)
  BY DEF Disk!Devices, None, Disk!NoDevice, Disk!MaxDevices, Disk!Numbers
<1>2. d # None
  BY <1>1
<1> DEFINE shift == cdemu.active /\ cdemu.drive = 128
<1>3. \A dl \in 128 .. 136 :
         Disk!Target(dl) = IF shift THEN IF dl = 128 THEN None ELSE HdOf(dl - 129)
                           ELSE IF dl = 136 THEN None ELSE HdOf(dl - 128)
  <2> TAKE dl \in 128 .. 136
  <2>1. Disk!Class(dl) = 128
    BY DEF Disk!Class
  <2>2. cdemu.active => cdemu.drive \in {0, 128}
    BY DEF CdemuInv, Disk!NoCdemu
  <2>3. CASE shift
    <3>1. CASE dl = 128
      BY <2>3, <3>1 DEF Disk!Target, None
    <3>2. CASE dl # 128
      <4>1. Disk!RealDrive(dl) = dl - 1 /\ dl - 1 \in 128 .. 135 /\ (dl - 1) - 128 = dl - 129
        BY <2>1, <2>3, <3>2 DEF Disk!RealDrive
      <4> QED
        BY <2>3, <3>2, <4>1 DEF Disk!Target, HdOf, Disk!MaxDevices
    <3> QED
      BY <3>1, <3>2
  <2>4. CASE ~shift
    <3>1. Disk!RealDrive(dl) = dl /\ ~(cdemu.active /\ dl = cdemu.drive)
      BY <2>1, <2>2, <2>4 DEF Disk!RealDrive
    <3> QED
      BY <2>4, <3>1 DEF Disk!Target, HdOf, Disk!MaxDevices, None
  <2> QED
    BY <2>3, <2>4
<1>4. \A dl \in 224 .. 232 : Disk!Target(dl) = IF dl = 232 THEN None ELSE CdOf(dl - 224)
  <2> TAKE dl \in 224 .. 232
  <2>1. Disk!Class(dl) = 224
    BY DEF Disk!Class
  <2>2. cdemu.active => cdemu.drive \in {0, 128}
    BY DEF CdemuInv, Disk!NoCdemu
  <2>3. Disk!RealDrive(dl) = dl /\ ~(cdemu.active /\ dl = cdemu.drive)
    BY <2>1, <2>2 DEF Disk!RealDrive
  <2> QED
    BY <2>3 DEF Disk!Target, CdOf, Disk!MaxDevices, None
<1>5. /\ \A n \in 0 .. 7 : HdOf(n) = d => ata.found[d].type = "ata"
      /\ \A n \in 0 .. 7 : CdOf(n) = d => ata.found[d].type = "atapi"
      /\ \A m, n \in 0 .. 7 : HdOf(m) = d /\ HdOf(n) = d => m = n
      /\ \A m, n \in 0 .. 7 : CdOf(m) = d /\ CdOf(n) = d => m = n
  BY <1>1, <1>2 DEF NumberedInv, Maps, HdOf, CdOf
<1> HIDE DEF shift
<1>6. CASE ata.found[d].type = "ata"
  <2>1. PICK n \in 0 .. 7 : HdOf(n) = d
    BY <1>1, <1>6 DEF NumberedInv, Maps, HdOf
  <2> DEFINE w == IF shift THEN n + 129 ELSE n + 128
  <2>2. w \in 128 .. 136 /\ w \in Disk!Numbers
    BY <1>1
  <2>3. \A dl \in 128 .. 136 : Disk!Target(dl) = d <=> dl = w
    <3> TAKE dl \in 128 .. 136
    <3>1. CASE shift
      <4>1. CASE dl = 128
        BY <1>2, <1>3, <3>1, <4>1
      <4>2. CASE dl # 128
        <5>1. dl - 129 \in 0 .. 7 /\ Disk!Target(dl) = HdOf(dl - 129)
          BY <1>3, <3>1, <4>2
        <5> QED
          BY <1>5, <2>1, <3>1, <5>1
      <4> QED
        BY <4>1, <4>2
    <3>2. CASE ~shift
      <4>1. CASE dl = 136
        BY <1>2, <1>3, <3>2, <4>1
      <4>2. CASE dl # 136
        <5>1. dl - 128 \in 0 .. 7 /\ Disk!Target(dl) = HdOf(dl - 128)
          BY <1>3, <3>2, <4>2
        <5> QED
          BY <1>5, <2>1, <3>2, <5>1
      <4> QED
        BY <4>1, <4>2
    <3> QED
      BY <3>1, <3>2
  <2>4. \A dl \in 224 .. 232 : Disk!Target(dl) # d
    BY <1>2, <1>4, <1>5, <1>6
  <2> HIDE DEF w
  <2> QED
    BY <1>1, <2>2, <2>3, <2>4
<1>7. CASE ata.found[d].type = "atapi"
  <2>1. PICK n \in 0 .. 7 : CdOf(n) = d
    BY <1>1, <1>7 DEF NumberedInv, Maps, CdOf
  <2> DEFINE w == n + 224
  <2>2. w \in 224 .. 232 /\ w \in Disk!Numbers
    BY <1>1
  <2>3. \A dl \in 224 .. 232 : Disk!Target(dl) = d <=> dl = w
    BY <1>2, <1>4, <1>5, <2>1
  <2>4. \A dl \in 128 .. 136 : Disk!Target(dl) # d
    BY <1>2, <1>3, <1>5, <1>7
  <2> HIDE DEF w
  <2> QED
    BY <1>1, <2>2, <2>3, <2>4
<1> QED
  BY <1>6, <1>7

LEMMA DrivesHold == FoundInv /\ NumberedInv /\ CdemuInv => Disk!EachDriveOnce
<1> SUFFICES ASSUME FoundInv, NumberedInv, CdemuInv PROVE Disk!EachDriveOnce
  OBVIOUS
<1> DEFINE target == [dl \in Disk!Numbers |-> Disk!Target(dl)]
<1>1. ASSUME NEW d \in {e \in Disk!Devices : ata.found[e].type \in {"ata", "atapi"}}
      PROVE  \E w \in Disk!Numbers : {dl \in Disk!Numbers : target[dl] = d} = {w}
  <2>1. PICK w \in Disk!Numbers : \A dl \in Disk!Numbers : Disk!Target(dl) = d <=> dl = w
    BY OneNumber
  <2>2. {dl \in Disk!Numbers : target[dl] = d} = {w}
    BY <2>1
  <2> QED
    BY <2>2
<1> HIDE DEF target
<1>2. \A d \in {e \in Disk!Devices : ata.found[e].type \in {"ata", "atapi"}} : \E w \in Disk!Numbers : {dl \in Disk!Numbers : target[dl] = d} = {w}
  BY <1>1
<1> QED
  BY <1>2 DEF Disk!EachDriveOnce, target

LEMMA DiskUnits ==
    ASSUME machine \in Machines
    PROVE  /\ \A d \in Disk!Devices : DiskUnit(Disk!bench.units[d])
           /\ \A call \in Disk!bench.calls : DiskCall(call)
           /\ Disk!bench.chunks \subseteq Nat
  BY DiskAssumption DEF Disk!bench

\* A device of the type gets the next number.
LEMMA NumbersGrow ==
    ASSUME NEW found, Shaped(found, Disk!Devices), NEW map, NEW type, NEW count \in Disk!Devices,
           NEW d \in Disk!Devices, NEW f, f.type = type, found[d].type # type,
           Maps(found, map, type), \A n \in Disk!Devices : n >= count => map[n] = None
    PROVE  Maps([found EXCEPT ![d] = f], [map EXCEPT ![count] = d], type)
<1> DEFINE found1 == [found EXCEPT ![d] = f]
           map1 == [map EXCEPT ![count] = d]
<1>1. /\ found1[d] = f /\ \A e \in Disk!Devices : e # d => found1[e] = found[e]
  BY DEF Shaped
<1>2. /\ map1 \in [Disk!Devices -> Disk!Devices \cup {None}]
      /\ map1[count] = d /\ \A n \in Disk!Devices : n # count => map1[n] = map[n]
  BY DEF Maps
<1>3. \A n \in Disk!Devices : map[n] # d /\ map[n] \in Disk!Devices \cup {None}
  BY DEF Maps, None, Disk!NoDevice, Disk!Devices, Disk!MaxDevices
<1>4. map[count] = None /\ d # None
  BY DEF None, Disk!NoDevice, Disk!Devices, Disk!MaxDevices
<1> HIDE DEF found1, map1
<1>5. \A n \in Disk!Devices : map1[n] # None => found1[map1[n]].type = type
  BY <1>1, <1>2, <1>3 DEF Maps
<1>6. \A m, n \in Disk!Devices : map1[m] # None /\ map1[m] = map1[n] => m = n
  BY <1>2, <1>3 DEF Maps
<1>7. \A e \in Disk!Devices : found1[e].type = type => \E n \in Disk!Devices : map1[n] = e
  <2> SUFFICES ASSUME NEW e \in Disk!Devices, found1[e].type = type PROVE \E n \in Disk!Devices : map1[n] = e
    OBVIOUS
  <2>1. CASE e = d
    BY <1>2, <2>1
  <2>2. CASE e # d
    <3>1. PICK n \in Disk!Devices : map[n] = e
      BY <1>1, <2>2 DEF Maps
    <3>2. n # count
      BY <1>4, <3>1 DEF None, Disk!NoDevice, Disk!Devices, Disk!MaxDevices
    <3> QED
      BY <1>2, <3>1, <3>2
  <2> QED
    BY <2>1, <2>2
<1> QED
  BY <1>2, <1>5, <1>6, <1>7 DEF Maps, found1, map1

\* One of another type changes nothing.
LEMMA NumbersStay ==
    ASSUME NEW found, Shaped(found, Disk!Devices), NEW map, NEW type,
           NEW d \in Disk!Devices, NEW f, f.type # type, found[d].type # type, Maps(found, map, type)
    PROVE  Maps([found EXCEPT ![d] = f], map, type)
<1> DEFINE found1 == [found EXCEPT ![d] = f]
<1>1. /\ found1[d] = f /\ \A e \in Disk!Devices : e # d => found1[e] = found[e]
  BY DEF Shaped
<1>2. \A n \in Disk!Devices : map[n] # d /\ map[n] \in Disk!Devices \cup {None}
  BY DEF Maps, None, Disk!NoDevice, Disk!Devices, Disk!MaxDevices
<1> HIDE DEF found1
<1> QED
  BY <1>1, <1>2 DEF Maps, found1

Detected(d, f) ==
    /\ ata'.found = [ata.found EXCEPT ![d] = f] /\ ata'.next = ata.next + 1
    /\ Shaped(ata', AtaFields)

\* What a device says of itself is recorded, and numbered.
LEMMA DetectsDisk ==
    ASSUME DiskInv, ata.next \in Disk!Devices, NEW unit, DiskUnit(unit), unit.kind = "ata",
           Disk!DetectDisk(ata.next, unit)
    PROVE  \E f : /\ Detected(ata.next, f) /\ f.type = "ata" /\ Fits(f.lchs, f.size)
                  /\ ata'.hdidmap = [ata.hdidmap EXCEPT ![ata.hdcount] = ata.next]
                  /\ ata'.hdcount = ata.hdcount + 1
                  /\ ata'.cdidmap = ata.cdidmap /\ ata'.cdcount = ata.cdcount
<1> DEFINE f == [type |-> "ata", pchs |-> unit.pchs, size |-> unit.size,
                 lchs |-> Disk!Lchs(unit.translation, unit.pchs, unit.size)]
<1>1. Fits(f.lchs, f.size)
  BY LchsFits
<1>2. f.type = "ata"
  OBVIOUS
<1>3. ata' = [ata EXCEPT !.found[ata.next] = f, !.hdidmap[ata.hdcount] = ata.next, !.hdcount = @ + 1, !.next = @ + 1]
  BY DEF Disk!DetectDisk
<1> HIDE DEF f
<1>4. ata = [i \in AtaFields |-> ata[i]]
  BY DEF DiskInv, Shaped
<1>5. /\ ata'.found = [ata.found EXCEPT ![ata.next] = f] /\ ata'.next = ata.next + 1
      /\ ata'.hdidmap = [ata.hdidmap EXCEPT ![ata.hdcount] = ata.next] /\ ata'.hdcount = ata.hdcount + 1
      /\ ata'.cdidmap = ata.cdidmap /\ ata'.cdcount = ata.cdcount
  BY <1>3, <1>4 DEF AtaFields
<1>6. Shaped(ata', AtaFields)
  BY <1>3, <1>4 DEF AtaFields, Shaped
<1> QED
  BY <1>1, <1>2, <1>5, <1>6 DEF Detected

LEMMA DetectsPacket ==
    ASSUME DiskInv, ata.next \in Disk!Devices, NEW unit, Disk!DetectPacket(ata.next, unit)
    PROVE  \E f : /\ Detected(ata.next, f) /\ f.type = "atapi"
                  /\ ata'.cdidmap = [ata.cdidmap EXCEPT ![ata.cdcount] = ata.next]
                  /\ ata'.cdcount = ata.cdcount + 1
                  /\ ata'.hdidmap = ata.hdidmap /\ ata'.hdcount = ata.hdcount
<1> DEFINE f == [type |-> "atapi", cdrom |-> unit.cdrom]
<1>2. f.type = "atapi"
  OBVIOUS
<1>3. ata' = [ata EXCEPT !.found[ata.next] = f, !.cdidmap[ata.cdcount] = ata.next, !.cdcount = @ + 1, !.next = @ + 1]
  BY DEF Disk!DetectPacket
<1> HIDE DEF f
<1>4. ata = [i \in AtaFields |-> ata[i]]
  BY DEF DiskInv, Shaped
<1>5. /\ ata'.found = [ata.found EXCEPT ![ata.next] = f] /\ ata'.next = ata.next + 1
      /\ ata'.cdidmap = [ata.cdidmap EXCEPT ![ata.cdcount] = ata.next] /\ ata'.cdcount = ata.cdcount + 1
      /\ ata'.hdidmap = ata.hdidmap /\ ata'.hdcount = ata.hdcount
  BY <1>3, <1>4 DEF AtaFields
<1>6. Shaped(ata', AtaFields)
  BY <1>3, <1>4 DEF AtaFields, Shaped
<1> QED
  BY <1>2, <1>5, <1>6 DEF Detected

\* No drive, or one that is neither.
LEMMA DetectsOther ==
    ASSUME DiskInv, ata.next \in Disk!Devices,
           \/ ata' = [ata EXCEPT !.found[ata.next] = [type |-> "unknown"], !.next = @ + 1]
           \/ ata' = [ata EXCEPT !.next = @ + 1]
    PROVE  \E f : /\ Detected(ata.next, f) /\ f.type \in {"unknown", "none"}
                  /\ ata'.hdidmap = ata.hdidmap /\ ata'.hdcount = ata.hdcount
                  /\ ata'.cdidmap = ata.cdidmap /\ ata'.cdcount = ata.cdcount
<1>1. ata = [i \in AtaFields |-> ata[i]] /\ ata.found = [d \in Disk!Devices |-> ata.found[d]]
  BY DEF DiskInv, FoundInv, Shaped
<1>2. ata.found[ata.next].type = "none"
  BY DEF DiskInv, FoundInv, Disk!Devices
<1>3. ASSUME ata' = [ata EXCEPT !.next = @ + 1]
      PROVE  /\ Detected(ata.next, ata.found[ata.next])
             /\ ata'.hdidmap = ata.hdidmap /\ ata'.hdcount = ata.hdcount
             /\ ata'.cdidmap = ata.cdidmap /\ ata'.cdcount = ata.cdcount
  <2>1. ata'.found = ata.found /\ ata.found = [ata.found EXCEPT ![ata.next] = ata.found[ata.next]]
    BY <1>1, <1>3 DEF AtaFields
  <2>2. /\ ata'.next = ata.next + 1 /\ ata'.hdidmap = ata.hdidmap /\ ata'.hdcount = ata.hdcount
        /\ ata'.cdidmap = ata.cdidmap /\ ata'.cdcount = ata.cdcount
    BY <1>1, <1>3 DEF AtaFields
  <2>3. Shaped(ata', AtaFields)
    BY <1>1, <1>3 DEF AtaFields, Shaped
  <2> QED
    BY <2>1, <2>2, <2>3 DEF Detected
<1>4. ASSUME ata' = [ata EXCEPT !.found[ata.next] = [type |-> "unknown"], !.next = @ + 1]
      PROVE  /\ Detected(ata.next, [type |-> "unknown"])
             /\ ata'.hdidmap = ata.hdidmap /\ ata'.hdcount = ata.hdcount
             /\ ata'.cdidmap = ata.cdidmap /\ ata'.cdcount = ata.cdcount
  <2>1. /\ ata'.found = [ata.found EXCEPT ![ata.next] = [type |-> "unknown"]]
        /\ ata'.next = ata.next + 1 /\ ata'.hdidmap = ata.hdidmap /\ ata'.hdcount = ata.hdcount
        /\ ata'.cdidmap = ata.cdidmap /\ ata'.cdcount = ata.cdcount
    BY <1>1, <1>4 DEF AtaFields
  <2>2. Shaped(ata', AtaFields)
    BY <1>1, <1>4 DEF AtaFields, Shaped
  <2> QED
    BY <2>1, <2>2 DEF Detected
<1>5. [type |-> "unknown"].type = "unknown"
  OBVIOUS
<1> QED
  BY <1>2, <1>3, <1>4, <1>5

\* The next device is free to be numbered.
LEMMA NextFree ==
    ASSUME DiskInv, ata.next \in Disk!Devices
    PROVE  /\ ~Disk!Ready /\ ata.found[ata.next].type = "none" /\ Shaped(ata.found, Disk!Devices)
           /\ Maps(ata.found, ata.hdidmap, "ata") /\ Maps(ata.found, ata.cdidmap, "atapi")
           /\ Free(ata.hdidmap, ata.hdcount) /\ Free(ata.cdidmap, ata.cdcount)
           /\ \A d \in Disk!Devices : LET f == ata.found[d]
                                      IN  /\ f.type = "ata" => Fits(f.lchs, f.size)
                                          /\ f.type = "atapi" => Disk!bench.units[d].kind = "atapi"
           /\ ata.next \in Nat /\ ata.next < 8
           /\ \A d \in Disk!Devices : d >= ata.next => ata.found[d].type = "none"
<1>1. ata.next \in Nat /\ ata.next < 8 /\ ~Disk!Ready /\ ata.next >= ata.next
  BY DEF Disk!Devices, Disk!Ready, Disk!MaxDevices
<1>2. \A d \in Disk!Devices : d >= ata.next => ata.found[d].type = "none"
  BY DEF DiskInv, FoundInv
<1> QED
  BY <1>1, <1>2, Zenon DEF DiskInv, FoundInv, NumberedInv

\* What is kept when a device is recorded.
LEMMA RecordKept ==
    ASSUME DiskInv, ata.next \in Disk!Devices, NEW f, Detected(ata.next, f), UNCHANGED machine,
           f.type = "ata" => Fits(f.lchs, f.size),
           f.type = "atapi" => Disk!bench.units[ata.next].kind = "atapi"
    PROVE  FoundInv'
<1>1. /\ ata'.found = [ata.found EXCEPT ![ata.next] = f] /\ ata'.next = ata.next + 1
  BY DEF Detected
<1>2. /\ Shaped(ata'.found, Disk!Devices) /\ ata'.found[ata.next] = f
      /\ \A d \in Disk!Devices : d # ata.next => ata'.found[d] = ata.found[d]
  BY <1>1, NextFree DEF Shaped
<1>3. ata'.next \in Nat /\ ata'.next <= Disk!MaxDevices
  BY <1>1, NextFree DEF Disk!MaxDevices
<1>4. \A d \in Disk!Devices : d >= ata'.next => ata'.found[d].type = "none"
  <2> SUFFICES ASSUME NEW d \in Disk!Devices, d >= ata'.next PROVE ata'.found[d].type = "none"
    OBVIOUS
  <2>1. d # ata.next /\ d >= ata.next
    BY <1>1, NextFree DEF Disk!Devices
  <2> QED
    BY <1>2, <2>1, NextFree
<1>5. ASSUME NEW d \in Disk!Devices
      PROVE  /\ ata'.found[d].type = "ata" => Fits(ata'.found[d].lchs, ata'.found[d].size)
             /\ ata'.found[d].type = "atapi" => Disk!bench.units[d].kind = "atapi"
  BY <1>2, NextFree
<1>6. Disk!bench' = Disk!bench
  BY DEF Disk!bench
<1> QED
  BY <1>2, <1>3, <1>4, <1>5, <1>6 DEF FoundInv, Fits

\* Each operation keeps the invariant.
LEMMA DetectStep == ASSUME DiskInv, Disk!ata_detect PROVE DiskInv'
<1> DEFINE unit == Disk!bench.units[ata.next]
<1>1. ata.next \in Disk!Devices /\ UNCHANGED <<machine, locks, cdemu, floppies, status, xfer, reply>>
  BY DEF Disk!ata_detect
<1>2. DiskUnit(unit)
  BY <1>1, DiskUnits DEF DiskInv
<1>3. FoundInv' /\ NumberedInv' /\ Shaped(ata', AtaFields)
  <2>1. CASE unit.kind = "ata"
    <3>1. Disk!DetectDisk(ata.next, unit)
      BY <2>1 DEF Disk!ata_detect
    <3>2. PICK f : /\ Detected(ata.next, f) /\ f.type = "ata" /\ Fits(f.lchs, f.size)
                   /\ ata'.hdidmap = [ata.hdidmap EXCEPT ![ata.hdcount] = ata.next]
                   /\ ata'.hdcount = ata.hdcount + 1
                   /\ ata'.cdidmap = ata.cdidmap /\ ata'.cdcount = ata.cdcount
      BY <1>1, <1>2, <2>1, <3>1, DetectsDisk
    <3>3. FoundInv'
      BY <1>1, <3>2, RecordKept
    <3>4. /\ ata.hdcount \in Disk!Devices
          /\ \A n \in Disk!Devices : n >= ata.hdcount => ata.hdidmap[n] = None
      BY <1>1, NextFree DEF Free, Disk!Devices, Disk!MaxDevices
    <3>5. Maps(ata'.found, ata'.hdidmap, "ata")
      BY <1>1, <3>2, <3>4, NextFree, NumbersGrow DEF Detected
    <3>6. Maps(ata'.found, ata'.cdidmap, "atapi")
      BY <1>1, <3>2, NextFree, NumbersStay DEF Detected
    <3>7. Free(ata.hdidmap, ata.hdcount) /\ Free(ata.cdidmap, ata.cdcount) /\ ata.next \in Nat
      BY <1>1, NextFree
    <3>8. Free(ata.cdidmap, ata.cdcount)'
      BY <3>2, <3>7 DEF Detected, Free
    <3>9. Free(ata.hdidmap, ata.hdcount)'
      <4>1. ata'.hdcount \in Nat /\ ata'.hdcount <= ata'.next
        BY <3>2, <3>7 DEF Detected, Free
      <4>2. ASSUME NEW n \in Disk!Devices, n >= ata'.hdcount PROVE ata'.hdidmap[n] = None
        <5>1. n # ata.hdcount /\ n >= ata.hdcount
          BY <3>2, <3>7, <4>2 DEF Free, Disk!Devices
        <5>2. ata'.hdidmap[n] = ata.hdidmap[n]
          BY <1>1, <3>2, <5>1, NextFree DEF Maps
        <5> QED
          BY <3>7, <5>1, <5>2 DEF Free
      <4> QED
        BY <4>1, <4>2 DEF Free
    <3> QED
      BY <3>2, <3>3, <3>5, <3>6, <3>8, <3>9 DEF NumberedInv, Detected
  <2>2. CASE unit.kind = "atapi"
    <3>1. Disk!DetectPacket(ata.next, unit)
      BY <2>2 DEF Disk!ata_detect
    <3>2. PICK f : /\ Detected(ata.next, f) /\ f.type = "atapi"
                   /\ ata'.cdidmap = [ata.cdidmap EXCEPT ![ata.cdcount] = ata.next]
                   /\ ata'.cdcount = ata.cdcount + 1
                   /\ ata'.hdidmap = ata.hdidmap /\ ata'.hdcount = ata.hdcount
      BY <1>1, <3>1, DetectsPacket
    <3>3. FoundInv'
      BY <1>1, <2>2, <3>2, RecordKept
    <3>4. /\ ata.cdcount \in Disk!Devices
          /\ \A n \in Disk!Devices : n >= ata.cdcount => ata.cdidmap[n] = None
      BY <1>1, NextFree DEF Free, Disk!Devices, Disk!MaxDevices
    <3>5. Maps(ata'.found, ata'.cdidmap, "atapi")
      BY <1>1, <3>2, <3>4, NextFree, NumbersGrow DEF Detected
    <3>6. Maps(ata'.found, ata'.hdidmap, "ata")
      BY <1>1, <3>2, NextFree, NumbersStay DEF Detected
    <3>7. Free(ata.hdidmap, ata.hdcount) /\ Free(ata.cdidmap, ata.cdcount) /\ ata.next \in Nat
      BY <1>1, NextFree
    <3>8. Free(ata.hdidmap, ata.hdcount)'
      BY <3>2, <3>7 DEF Detected, Free
    <3>9. Free(ata.cdidmap, ata.cdcount)'
      <4>1. ata'.cdcount \in Nat /\ ata'.cdcount <= ata'.next
        BY <3>2, <3>7 DEF Detected, Free
      <4>2. ASSUME NEW n \in Disk!Devices, n >= ata'.cdcount PROVE ata'.cdidmap[n] = None
        <5>1. n # ata.cdcount /\ n >= ata.cdcount
          BY <3>2, <3>7, <4>2 DEF Free, Disk!Devices
        <5>2. ata'.cdidmap[n] = ata.cdidmap[n]
          BY <1>1, <3>2, <5>1, NextFree DEF Maps
        <5> QED
          BY <3>7, <5>1, <5>2 DEF Free
      <4> QED
        BY <4>1, <4>2 DEF Free
    <3> QED
      BY <3>2, <3>3, <3>5, <3>6, <3>8, <3>9 DEF NumberedInv, Detected
  <2>3. CASE unit.kind \in {"unknown", "none"}
    <3>1. \/ ata' = [ata EXCEPT !.found[ata.next] = [type |-> "unknown"], !.next = @ + 1]
          \/ ata' = [ata EXCEPT !.next = @ + 1]
      BY <2>3 DEF Disk!ata_detect
    <3>2. PICK f : /\ Detected(ata.next, f) /\ f.type \in {"unknown", "none"}
                   /\ ata'.hdidmap = ata.hdidmap /\ ata'.hdcount = ata.hdcount
                   /\ ata'.cdidmap = ata.cdidmap /\ ata'.cdcount = ata.cdcount
      BY <1>1, <3>1, DetectsOther
    <3>3. FoundInv'
      BY <1>1, <3>2, RecordKept
    <3>4. Maps(ata'.found, ata'.hdidmap, "ata") /\ Maps(ata'.found, ata'.cdidmap, "atapi")
      BY <1>1, <3>2, NextFree, NumbersStay DEF Detected
    <3>5. Free(ata.hdidmap, ata.hdcount) /\ Free(ata.cdidmap, ata.cdcount) /\ ata.next \in Nat
      BY <1>1, NextFree
    <3>6. Free(ata.hdidmap, ata.hdcount)' /\ Free(ata.cdidmap, ata.cdcount)'
      BY <3>2, <3>5 DEF Detected, Free
    <3> QED
      BY <3>2, <3>3, <3>4, <3>6 DEF NumberedInv, Detected
  <2>4. unit.kind \in {"ata", "atapi", "unknown", "none"}
    BY <1>2, Zenon DEF DiskUnit
  <2> HIDE DEF unit
  <2> QED
    BY <2>1, <2>2, <2>3, <2>4
<1>4. cdemu = Disk!NoCdemu /\ xfer = Disk!NoXfer /\ reply = Disk!NoReply
  BY <1>1, NextFree DEF DiskInv, CdemuInv
<1>5. CdemuInv' /\ XferInv'
  BY <1>1, <1>4 DEF CdemuInv, XferInv
<1>6. reply.got = <<>> /\ Shaped(reply, {"call", "cf", "ah", "n", "got"})
  BY <1>4 DEF DiskInv, ReplyInv, Disk!NoReply
<1>7. ReplyInv'
  BY <1>1, <1>6 DEF ReplyInv
<1> QED
  BY <1>1, <1>3, <1>4, <1>5, <1>7 DEF DiskInv

\* A number put together from its bytes.
LEMMA Bytes28 ==
    \A low \in Nat : low < 268435456 =>
        ((low \div 16777216) % 16) * 16777216 + ((low \div 256) % 65536) * 256 + (low % 256) = low
  BY SMT
LEMMA Bytes32 ==
    \A low \in Nat :
        (low \div 16777216) * 16777216 + (((low % 16777216) \div 256) % 65536) * 256 + ((low % 16777216) % 256) = low
  BY SMT

\* A block number comes to the drive as it was, in 28 bits or in 48.
LEMMA ByBlock ==
    ASSUME NEW count \in Nat, 0 < count, count < 256, NEW low \in Nat, NEW c, NEW h, NEW p
    PROVE  LET r == Disk!TaskFile(count, c, h, 0, low)
           IN  Disk!Block(r, p) = low /\ Disk!Sectors(r) = count /\ r.loop = count
<1> DEFINE r == Disk!TaskFile(count, c, h, 0, low)
<1>1. count % 256 = count /\ count \div 256 = 0 /\ count # 0
  BY SMT
<1>2. CASE Disk!Extended(count, low)
  <2> DEFINE b == low % 2 ^ 24
  <2>1. /\ r.form = "ext" /\ r.high = <<count \div 256, low \div 2 ^ 24>> /\ r.loop = count % 256
        /\ r.sc = (count % 256) % 256 /\ r.sn = b % 256 /\ r.cyl = (b \div 256) % 65536
    BY <1>2, SMT DEF Disk!TaskFile
  <2> HIDE DEF r
  <2>2. Disk!Block(r, p) = (low \div 2 ^ 24) * 2 ^ 24 + ((b \div 256) % 65536) * 256 + (b % 256)
    BY <2>1, SMT DEF Disk!Block
  <2>3. Disk!Block(r, p) = low
    BY <2>2, Bytes32, Powers, SMT
  <2>4. Disk!Sectors(r) = count
    BY <1>1, <2>1, SMT DEF Disk!Sectors, Disk!OrAll
  <2> QED
    BY <1>1, <2>1, <2>3, <2>4, SMT DEF r
<1>3. CASE ~Disk!Extended(count, low)
  <2>1. low < 268435456
    <3>1. low < 2 ^ 28 - count
      BY <1>1, <1>3, Powers, SMT DEF Disk!Extended
    <3> QED
      BY <3>1, Powers, SMT
  <2>2. /\ r.form = "lba" /\ r.loop = count /\ r.sc = count % 256
        /\ r.sn = low % 256 /\ r.cyl = (low \div 256) % 65536 /\ r.dh = (low \div 2 ^ 24) % 16
    BY <1>3, SMT DEF Disk!TaskFile
  <2> HIDE DEF r
  <2>3. Disk!Block(r, p) = ((low \div 2 ^ 24) % 16) * 2 ^ 24 + ((low \div 256) % 65536) * 256 + (low % 256)
    BY <2>2, SMT DEF Disk!Block
  <2>4. Disk!Block(r, p) = low
    BY <2>1, <2>3, Bytes28, Powers, SMT
  <2>5. Disk!Sectors(r) = count
    BY <1>1, <2>2, SMT DEF Disk!Sectors, Disk!OrAll
  <2> QED
    BY <2>2, <2>4, <2>5, SMT DEF r
<1> QED
  BY <1>2, <1>3

LEMMA ByChs ==
    ASSUME NEW count \in Nat, 0 < count, count < 256, NEW c, NEW h,
           NEW s, s # 0, NEW p
    PROVE  LET r == Disk!TaskFile(count, c, h, s, 0)
           IN  /\ Disk!Block(r, p) = (c * p.h + h) * p.s + s - 1
               /\ Disk!Sectors(r) = count /\ r.loop = count
<1> DEFINE r == Disk!TaskFile(count, c, h, s, 0)
<1>1. /\ r.form = "chs" /\ r.loop = count /\ r.sc = count % 256 /\ r.sn = s /\ r.cyl = c /\ r.dh = h
  BY DEF Disk!TaskFile
<1> HIDE DEF r
<1>2. Disk!Block(r, p) = (c * p.h + h) * p.s + s - 1
  BY <1>1 DEF Disk!Block
<1>3. Disk!Sectors(r) = count
  BY <1>1 DEF Disk!Sectors, Disk!OrAll
<1> QED
  BY <1>1, <1>2, <1>3 DEF r

\* A command starts with everything to do.
LEMMA CommandStarts ==
    ASSUME NEW call, DiskCall(call), NEW d, NEW r, NEW write,
           0 < call.n, call.n < 256,
           Disk!Block(r, ata.found[d].pchs) = AskedOf(call, d), Disk!Sectors(r) = call.n, r.loop = call.n
    PROVE  DriveInv(Disk!Command(call, d, r, write))
<1> DEFINE x == Disk!Command(call, d, r, write)
<1>1. /\ x.pc = "start" /\ x.call = call /\ x.dev = d /\ x.first = AskedOf(call, d) /\ x.left = call.n
      /\ x.loop = call.n /\ x.moved = 0 /\ x.seg = call.seg /\ x.off = call.off /\ x.at = <<>>
  BY DEF Disk!Command
<1>2. Shaped(x, DriveFields)
  BY DEF Disk!Command, Shaped, DriveFields
<1> HIDE DEF x
<1>3. Disk!Linear(call.seg, call.off) \in Nat
  BY DEF Disk!Linear, DiskCall
<1> QED
  BY <1>1, <1>2, <1>3 DEF DriveInv, DiskCall, x

\* The invariants of a command and of an answer depend on what is known of the
\* drives and of the emulation only.
LEMMA DriveGoesOn ==
    ASSUME NEW x, DriveInv(x), xfer' = x, ata'.found = ata.found PROVE XferInv'
  BY DEF XferInv, DriveInv, AskedOf, Skipped, StartOf
LEMMA PacketGoesOn ==
    ASSUME NEW x, PacketInv(x), xfer' = x, cdemu' = cdemu PROVE XferInv'
  BY DEF XferInv, PacketInv, Skipped, StartOf, Disk!Virtual
LEMMA NoCommand == xfer' \in {Disk!NoXfer, Disk!Halted} => XferInv'
  BY DEF XferInv

ReplyFields == {"call", "cf", "ah", "n", "got"}

\* An answer that ends no command.
LEMMA SaysNothing ==
    ASSUME NEW call, NEW cf, NEW ah, NEW stored, Disk!Says(call, cf, ah, stored)
    PROVE  ReplyInv' /\ reply'.call = call
<1>1. reply' = [call |-> call, cf |-> cf, ah |-> ah, n |-> 0, got |-> <<>>]
  BY DEF Disk!Says, Disk!NoReply
<1>2. reply'.got = <<>> /\ reply'.call = call
  BY <1>1
<1>3. Shaped(reply', ReplyFields)
  BY <1>1 DEF Shaped, ReplyFields
<1> QED
  BY <1>2, <1>3 DEF ReplyInv, ReplyFields
LEMMA NoReplyYet == ASSUME reply' = Disk!NoReply PROVE ReplyInv'
<1>1. reply'.got = <<>> /\ Shaped(reply', ReplyFields)
  BY DEF Disk!NoReply, Shaped, ReplyFields
<1> QED
  BY <1>1 DEF ReplyInv, ReplyFields
LEMMA Fails ==
    \A call, code : Disk!Fails(call, code) => ReplyInv' /\ reply'.call = call
  BY SaysNothing DEF Disk!Fails
LEMMA Succeeds ==
    \A call, ah : Disk!Succeeds(call, ah) => ReplyInv' /\ reply'.call = call
  BY SaysNothing DEF Disk!Succeeds
LEMMA TellsStatus ==
    \A call, s : Disk!TellsStatus(call, s) => ReplyInv' /\ reply'.call = call
  BY SaysNothing DEF Disk!TellsStatus
LEMMA TellsFacts == ASSUME NEW call, Disk!DriveFacts(call), call.ah \in {5, 8, 16, 21, 65} PROVE ReplyInv'
<1>1. CASE call.ah = 8
  <2>1. reply' = [Disk!NoReply EXCEPT !.call = call, !.n = ata.hdcount]
    BY <1>1 DEF Disk!DriveFacts
  <2>2. reply' = [call |-> call, cf |-> FALSE, ah |-> 0, n |-> ata.hdcount, got |-> <<>>]
    BY <2>1 DEF Disk!NoReply
  <2>3. reply'.got = <<>> /\ Shaped(reply', ReplyFields)
    BY <2>2 DEF Shaped, ReplyFields
  <2> QED
    BY <2>3 DEF ReplyInv, ReplyFields
<1>2. CASE call.ah = 5
  BY <1>2, Succeeds DEF Disk!DriveFacts
<1>3. CASE call.ah = 16
  BY <1>3, Succeeds, Fails DEF Disk!DriveFacts
<1>4. CASE call.ah = 21
  BY <1>4, Succeeds DEF Disk!DriveFacts
<1>5. CASE call.ah = 65
  BY <1>5, Succeeds DEF Disk!DriveFacts
<1> QED
  BY <1>1, <1>2, <1>3, <1>4, <1>5
LEMMA TellsOther ==
    ASSUME NEW call, Disk!int13_edd(call) \/ Disk!SetConfiguration(call) PROVE ReplyInv' /\ reply'.call = call
  BY Fails, Succeeds DEF Disk!int13_edd, Disk!SetConfiguration

\* Whatever is called of a hard disk, the drive is asked for the sectors the
\* call names, or for nothing.
LEMMA Transfers02 ==
    ASSUME NEW call, DiskCall(call), NEW d \in Disk!Devices, Fits(ata.found[d].lchs, ata.found[d].size),
           call.ah \in {2, 3, 4}, xfer = Disk!NoXfer, ata' = ata, Disk!HardDisk02(call, d)
    PROVE  XferInv' /\ ReplyInv'
<1> DEFINE l == ata.found[d].lchs
           p == ata.found[d].pchs
<1>1. CASE ~Disk!Parameters(call, l)
  BY <1>1, Fails, NoCommand DEF Disk!HardDisk02
<1>2. CASE Disk!Parameters(call, l) /\ call.ah = 4
  BY <1>2, Succeeds, NoCommand DEF Disk!HardDisk02
<1>3. CASE Disk!Parameters(call, l) /\ call.ah # 4
  <2> DEFINE r == IF Disk!Translated(p, l)
                  THEN Disk!TaskFile(call.n, call.c, call.h, 0, Disk!LogicalBlock(call, l))
                  ELSE Disk!TaskFile(call.n, call.c, call.h, call.s, 0)
  <2>1. xfer' = Disk!Command(call, d, r, call.ah = 3) /\ reply' = Disk!NoReply
    BY <1>3 DEF Disk!HardDisk02
  <2>2. /\ call.n \in Nat /\ 0 < call.n /\ call.n < 256
        /\ call.c \in Nat /\ call.h \in Nat /\ call.s \in Nat \ {0}
    BY <1>3 DEF Disk!Parameters, DiskCall
  <2>3. Disk!LogicalBlock(call, l) = (call.c * l.h + call.h) * l.s + call.s - 1
    BY DEF Disk!LogicalBlock
  <2>4. Disk!LogicalBlock(call, l) \in Nat
    <3>1. l.h \in Nat /\ l.s \in Nat
      BY DEF Fits
    <3>2. call.c * l.h \in Nat
      BY <2>2, <3>1
    <3>3. (call.c * l.h + call.h) * l.s \in Nat
      BY <2>2, <3>1, <3>2
    <3> QED
      BY <2>2, <2>3, <3>3
  <2>5. Disk!Block(r, p) = Disk!LogicalBlock(call, l) /\ Disk!Sectors(r) = call.n /\ r.loop = call.n
    <3>1. CASE Disk!Translated(p, l)
      BY <2>2, <2>4, <3>1, ByBlock
    <3>2. CASE ~Disk!Translated(p, l)
      <4>1. p.h = l.h /\ p.s = l.s
        BY <3>2 DEF Disk!Translated
      <4> DEFINE q == Disk!TaskFile(call.n, call.c, call.h, call.s, 0)
      <4>2. r = q
        BY <3>2
      <4>4. p.h \in Nat /\ p.s \in Nat
        BY <4>1 DEF Fits
      <4> HIDE DEF p
      <4>3. Disk!Block(q, p) = (call.c * p.h + call.h) * p.s + call.s - 1
        BY <2>2, ByChs
      <4>5. Disk!Sectors(q) = call.n /\ q.loop = call.n
        BY <2>2, ByChs
      <4> HIDE DEF l, p, r, q
      <4> QED
        BY <2>3, <4>1, <4>2, <4>3, <4>5
    <3> QED
      BY <3>1, <3>2
  <2>6. AskedOf(call, d) = Disk!LogicalBlock(call, l)
    BY <1>3 DEF AskedOf
  <2> HIDE DEF r
  <2>7. DriveInv(Disk!Command(call, d, r, call.ah = 3))
    BY <2>2, <2>5, <2>6, CommandStarts
  <2> QED
    BY <2>1, <2>7, DriveGoesOn, NoReplyYet
<1> QED
  BY <1>1, <1>2, <1>3

LEMMA Transfers42 ==
    ASSUME NEW call, DiskCall(call), NEW d, call.ah \in {66, 67, 68, 71}, xfer = Disk!NoXfer,
           ata' = ata, Disk!HardDisk42(call, d)
    PROVE  XferInv' /\ ReplyInv'
<1>1. CASE xfer' = xfer
  BY <1>1, Fails, Succeeds, NoCommand, NoReplyYet DEF Disk!HardDisk42
<1>2. CASE xfer' # xfer
  <2> DEFINE r == Disk!TaskFile(call.n, 0, 0, 0, call.lba)
             p == ata.found[d].pchs
  <2>1. /\ xfer' = Disk!Command(call, d, r, call.ah = 67) /\ reply' = Disk!NoReply
        /\ call.ah \in {66, 67}
    BY <1>2 DEF Disk!HardDisk42
  <2>2. call.n \in Nat /\ 0 < call.n /\ call.n < 256 /\ call.lba \in Nat
    BY <2>1 DEF DiskCall
  <2>3. Disk!Block(r, p) = call.lba /\ Disk!Sectors(r) = call.n /\ r.loop = call.n
    BY <2>2, ByBlock
  <2>4. AskedOf(call, d) = call.lba
    BY <2>1 DEF AskedOf
  <2> HIDE DEF r
  <2>5. DriveInv(Disk!Command(call, d, r, call.ah = 67))
    BY <2>2, <2>3, <2>4, CommandStarts
  <2> QED
    BY <2>1, <2>5, DriveGoesOn, NoReplyYet
<1> QED
  BY <1>1, <1>2

LEMMA HardDiskCall ==
    ASSUME DiskInv, xfer = Disk!NoXfer, NEW call, DiskCall(call), NEW dl,
           Disk!int13_harddisk(call, dl), ata' = ata
    PROVE  XferInv' /\ ReplyInv'
<1> DEFINE d == IF dl \in 128 .. 127 + Disk!MaxDevices THEN ata.hdidmap[dl - 128] ELSE Disk!NoDevice
<1>1. CASE d = Disk!NoDevice
  BY <1>1, Fails, NoCommand DEF Disk!int13_harddisk
<1>2. CASE d # Disk!NoDevice
  <2>1. d \in Disk!Devices /\ ata.found[d].type = "ata"
    <3>1. dl \in 128 .. 127 + Disk!MaxDevices /\ dl - 128 \in Disk!Devices /\ d = ata.hdidmap[dl - 128]
      BY <1>2 DEF Disk!Devices, Disk!MaxDevices
    <3> QED
      BY <1>2, <3>1 DEF DiskInv, NumberedInv, Maps, None
  <2>2. Fits(ata.found[d].lchs, ata.found[d].size)
    BY <2>1 DEF DiskInv, FoundInv
  <2> HIDE DEF d
  <2>3. CASE call.ah \in {2, 3, 4}
    <3>1. Disk!HardDisk02(call, d)
      BY <1>2, <2>3 DEF Disk!int13_harddisk, d
    <3> QED
      BY <2>1, <2>2, <2>3, <3>1, Transfers02
  <2>4. CASE call.ah \in {66, 67, 68, 71}
    <3>1. Disk!HardDisk42(call, d)
      BY <1>2, <2>4 DEF Disk!int13_harddisk, d
    <3> QED
      BY <2>4, <3>1, Transfers42
  <2>5. CASE call.ah \notin {2, 3, 4} \cup {66, 67, 68, 71}
    <3>1. xfer' = xfer
      BY <1>2, <2>5 DEF Disk!int13_harddisk, d
    <3>2. \/ Disk!TellsStatus(call, status) \/ (Disk!DriveFacts(call) /\ call.ah \in {5, 8, 16, 21, 65})
          \/ Disk!Fails(call, 178) \/ Disk!int13_edd(call) \/ Disk!SetConfiguration(call)
          \/ Disk!Succeeds(call, 0) \/ Disk!Fails(call, 1)
      BY <1>2, <2>5 DEF Disk!int13_harddisk, d
    <3> QED
      BY <3>1, <3>2, NoCommand, TellsStatus, TellsFacts, Fails, Succeeds, TellsOther
  <2> QED
    BY <2>3, <2>4, <2>5
<1> QED
  BY <1>1, <1>2

\* A packet command starts with everything to do.
LEMMA PacketStarts ==
    ASSUME NEW call, NEW d, NEW block \in Int, NEW blocks \in Nat, NEW header \in Nat, NEW length \in Nat,
           0 < length, length = AmountOf(call), StartOf(call) = 4 * block + header,
           header + length <= 4 * blocks,
           call.ah # 66 => call.ah = 2 /\ cdemu # Disk!NoCdemu
    PROVE  PacketInv(Disk!Packet(call, d, block, blocks, header, length))
<1> DEFINE x == Disk!Packet(call, d, block, blocks, header, length)
<1>1. /\ x.pc = "packet" /\ x.call = call /\ x.first = 4 * block /\ x.left = 4 * blocks /\ x.pos = 0
      /\ x.header = header /\ x.length = length /\ x.moved = 0 /\ x.at = <<>>
  BY DEF Disk!Packet
<1>2. Shaped(x, PacketFields)
  BY DEF Disk!Packet, Shaped, PacketFields
<1> HIDE DEF x
<1>3. Skipped(x) = header /\ StartOf(call) \in Int
  BY <1>1 DEF Skipped
<1> QED
  BY <1>1, <1>2, <1>3 DEF PacketInv, x

\* The blocks read for sectors of half a kilobyte hold them all.
LEMMA BlocksHold ==
    ASSUME NEW v, v \in Int, NEW n, n \in Nat, 0 < n
    PROVE  /\ Disk!Blocks(v, n) \in Nat /\ v % 4 \in Nat /\ v \div 4 \in Int
           /\ (v % 4) + n <= 4 * Disk!Blocks(v, n)
           /\ 4 * (v \div 4) + (v % 4) = v
<1> DEFINE a == (v + n - 1) \div 4
           b == v \div 4
           r == v % 4
<1>1. v + n - 1 \in Int
  OBVIOUS
<1>2. a \in Int /\ 4 * a <= v + n - 1 /\ v + n - 1 <= 4 * a + 3
  BY <1>1
<1>3. b \in Int /\ r \in Int /\ 0 <= r /\ r <= 3 /\ 4 * b + r = v
  OBVIOUS
<1>4. Disk!Blocks(v, n) = a - b + 1
  BY DEF Disk!Blocks
<1> HIDE DEF a, b, r
<1>5. a - b + 1 \in Nat /\ r \in Nat /\ r + n <= 4 * (a - b + 1)
  BY <1>2, <1>3
<1> QED
  BY <1>3, <1>4, <1>5 DEF b, r

LEMMA CdemuCall ==
    ASSUME DiskInv, cdemu.active, xfer = Disk!NoXfer, NEW call, DiskCall(call), Disk!int13_cdemu(call),
           UNCHANGED <<ata, cdemu>>
    PROVE  XferInv' /\ ReplyInv'
<1>1. CASE xfer' = xfer
  BY <1>1, NoCommand, NoReplyYet, Fails, Succeeds, TellsStatus DEF Disk!int13_cdemu
<1>2. CASE xfer' # xfer
  <2> DEFINE v == Disk!Virtual(call)
             x == Disk!Packet(call, cdemu.dev, cdemu.ilba + v \div 4, Disk!Blocks(v, call.n), v % 4, call.n)
  <2>1. call.ah = 2 /\ call.n # 0 /\ xfer' = x /\ reply' = Disk!NoReply
    BY <1>2 DEF Disk!int13_cdemu
  <2>2. cdemu # Disk!NoCdemu /\ cdemu.ilba \in Nat /\ cdemu.geometry.h \in Nat /\ cdemu.geometry.s \in Nat
    BY DEF DiskInv, CdemuInv, Disk!NoCdemu
  <2>3. v \in Int
    <3>1. v = (call.c * cdemu.geometry.h + call.h) * cdemu.geometry.s + ((call.s - 1) % 65536)
      BY DEF Disk!Virtual
    <3>2. call.c \in Nat /\ call.h \in Nat /\ call.s \in Nat
      BY DEF DiskCall
    <3>3. call.c * cdemu.geometry.h \in Nat
      BY <2>2, <3>2
    <3>4. (call.c * cdemu.geometry.h + call.h) * cdemu.geometry.s \in Nat
      BY <2>2, <3>2, <3>3
    <3>5. (call.s - 1) % 65536 \in Int
      <4>1. call.s - 1 \in Int
        BY <3>2
      <4>2. \A k \in Int : k % 65536 \in Int
        OBVIOUS
      <4> QED
        BY <4>1, <4>2
    <3> QED
      BY <3>1, <3>4, <3>5
  <2>4. AmountOf(call) = call.n /\ StartOf(call) = 4 * cdemu.ilba + v /\ call.n \in Nat
    BY <2>1 DEF AmountOf, StartOf, DiskCall
  <2> HIDE DEF v
  <2>5. /\ Disk!Blocks(v, call.n) \in Nat /\ v % 4 \in Nat /\ v \div 4 \in Int
        /\ (v % 4) + call.n <= 4 * Disk!Blocks(v, call.n) /\ 4 * (v \div 4) + (v % 4) = v
    BY <2>1, <2>3, <2>4, BlocksHold
  <2>6. cdemu.ilba + v \div 4 \in Int /\ StartOf(call) = 4 * (cdemu.ilba + v \div 4) + (v % 4) /\ 0 < call.n
    BY <2>1, <2>2, <2>4, <2>5
  <2>7. PacketInv(x)
    BY <2>1, <2>2, <2>4, <2>5, <2>6, PacketStarts
  <2> HIDE DEF x
  <2> QED
    BY <2>1, <2>7, PacketGoesOn, NoReplyYet
<1> QED
  BY <1>1, <1>2

LEMMA LockHolds ==
    ASSUME locks \in [Disk!Devices -> Nat], NEW d \in Disk!Devices, NEW call, call.ah = 69, Disk!Lock(call, d)
    PROVE  locks' \in [Disk!Devices -> Nat] /\ ReplyInv' /\ Disk!LocksHold
<1>1. CASE call.al = 0
  <2>1. CASE locks[d] = 255
    BY <1>1, <2>1, Fails DEF Disk!Lock, Disk!LocksHold
  <2>2. CASE locks[d] # 255
    <3>1. locks' = [locks EXCEPT ![d] = @ + 1] /\ ReplyInv'
      BY <1>1, <2>2, Succeeds DEF Disk!Lock
    <3> QED
      BY <3>1 DEF Disk!LocksHold
  <2> QED
    BY <2>1, <2>2
<1>2. CASE call.al = 1
  <2>1. CASE locks[d] = 0
    BY <1>2, <2>1, Fails DEF Disk!Lock, Disk!LocksHold
  <2>2. CASE locks[d] # 0
    <3>1. locks' = [locks EXCEPT ![d] = @ - 1] /\ ReplyInv' /\ reply'.call = call
      BY <1>2, <2>2, Succeeds DEF Disk!Lock
    <3> QED
      BY <1>2, <2>2, <3>1 DEF Disk!LocksHold
  <2> QED
    BY <2>1, <2>2
<1>3. CASE call.al \notin {0, 1}
  <2>1. locks' = locks /\ (Disk!Succeeds(call, 0) \/ Disk!Fails(call, 1))
    BY <1>3 DEF Disk!Lock
  <2> QED
    BY <2>1, Succeeds, Fails DEF Disk!LocksHold
<1> QED
  BY <1>1, <1>2, <1>3

LEMMA LocksStay == ASSUME locks \in [Disk!Devices -> Nat], locks' = locks PROVE Disk!LocksHold
  BY DEF Disk!LocksHold

LEMMA CdromCall ==
    ASSUME DiskInv, xfer = Disk!NoXfer, NEW call, DiskCall(call), NEW dl, Disk!int13_cdrom(call, dl),
           UNCHANGED <<ata, cdemu>>
    PROVE  XferInv' /\ ReplyInv' /\ locks' \in [Disk!Devices -> Nat] /\ Disk!LocksHold
<1> DEFINE d == IF dl \in 224 .. 223 + Disk!MaxDevices THEN ata.cdidmap[dl - 224] ELSE Disk!NoDevice
           Same == xfer' = xfer /\ locks' = locks
<1>0. locks \in [Disk!Devices -> Nat]
  BY DEF DiskInv
<1>1. CASE d = Disk!NoDevice
  BY <1>0, <1>1, Fails, NoCommand, LocksStay DEF Disk!int13_cdrom
<1>2. CASE d # Disk!NoDevice
  <2>1. d \in Disk!Devices
    <3>1. dl \in 224 .. 223 + Disk!MaxDevices /\ dl - 224 \in Disk!Devices /\ d = ata.cdidmap[dl - 224]
      BY <1>2 DEF Disk!Devices, Disk!MaxDevices
    <3> QED
      BY <1>2, <3>1 DEF DiskInv, NumberedInv, Maps, None
  <2> HIDE DEF d
  <2>2. CASE call.ah \in {66, 68, 71} /\ call.high > 0
    <3>1. xfer' = Disk!Halted /\ reply' = Disk!NoReply /\ locks' = locks
      BY <1>2, <2>2 DEF Disk!int13_cdrom, d
    <3> QED
      BY <1>0, <3>1, NoCommand, NoReplyYet, LocksStay
  <2>3. CASE call.ah = 66 /\ ~(call.high > 0)
    <3>1. xfer' = Disk!Packet(call, d, call.lba, call.n, 0, 4 * call.n) /\ reply' = Disk!NoReply /\ locks' = locks
      BY <1>2, <2>3 DEF Disk!int13_cdrom, d
    <3>2. /\ call.lba \in Int /\ call.n \in Nat /\ 4 * call.n \in Nat /\ 0 < 4 * call.n /\ 0 \in Nat
          /\ 4 * call.n = AmountOf(call) /\ StartOf(call) = 4 * call.lba + 0 /\ 0 + 4 * call.n <= 4 * call.n
      BY <2>3 DEF DiskCall, AmountOf, StartOf
    <3>3. PacketInv(Disk!Packet(call, d, call.lba, call.n, 0, 4 * call.n))
      BY <2>3, <3>2, PacketStarts
    <3> QED
      BY <1>0, <3>1, <3>3, PacketGoesOn, NoReplyYet, LocksStay
  <2>4. CASE call.ah = 69
    <3>1. Disk!Lock(call, d) /\ xfer' = xfer
      BY <1>2, <2>4 DEF Disk!int13_cdrom, d
    <3> QED
      BY <1>0, <2>1, <2>4, <3>1, LockHolds, NoCommand
  <2>5. CASE call.ah \notin {66, 69} /\ ~(call.ah \in {68, 71} /\ call.high > 0)
    <3>1. xfer' = xfer /\ locks' = locks
      BY <1>2, <2>5 DEF Disk!int13_cdrom, d
    <3>2. ReplyInv'
      <4>1. CASE call.ah = 70
        <5>1. Disk!Eject(call, d)
          BY <1>2, <4>1 DEF Disk!int13_cdrom, d
        <5> QED
          BY <5>1, Fails, Succeeds DEF Disk!Eject
      <4>2. CASE call.ah # 70
        <5>1. \/ Disk!Succeeds(call, 0) \/ Disk!Fails(call, 3) \/ Disk!TellsStatus(call, 0) \/ Disk!Fails(call, 2)
              \/ Disk!Succeeds(call, 48) \/ Disk!int13_edd(call) \/ Disk!Says(call, TRUE, 6, 0)
              \/ Disk!SetConfiguration(call) \/ Disk!Fails(call, 1)
          BY <1>2, <2>5, <4>2 DEF Disk!int13_cdrom, d
        <5> QED
          BY <5>1, Fails, Succeeds, TellsStatus, TellsOther, SaysNothing
      <4> QED
        BY <4>1, <4>2
    <3> QED
      BY <1>0, <3>1, <3>2, NoCommand, LocksStay
  <2> QED
    BY <2>2, <2>3, <2>4, <2>5
<1> QED
  BY <1>1, <1>2

\* A sector more, at the place in memory that follows, and one less to go.
OneMore(x, y) ==
    /\ Shaped(y, DriveFields) /\ y.pc = x.pc /\ y.call = x.call /\ y.dev = x.dev
    /\ y.left \in Nat /\ y.loop = y.left /\ y.moved \in Nat /\ y.moved < 256
    /\ y.moved + y.left = y.call.n /\ y.call.n < 256
    /\ y.seg \in Nat /\ y.off \in Nat /\ y.off < 65536 /\ Disk!Linear(y.call.seg, y.call.off) \in Nat
    /\ Disk!Linear(y.seg, y.off) = Disk!Linear(y.call.seg, y.call.off) + 512 * y.moved
    /\ y.at[1] = Disk!Linear(y.call.seg, y.call.off) + 512 * y.moved
    /\ y.first = AskedOf(y.call, y.dev)
LEMMA SectorMoved == ASSUME NEW x, DriveInv(x) PROVE OneMore(x, Disk!AfterSector(x))
<1> DEFINE z == Disk!Adjusted(x)
           y == Disk!AfterSector(x)
           start == Disk!Linear(x.call.seg, x.call.off)
<1>1. x = [f \in DriveFields |-> x[f]]
  BY DEF DriveInv, Shaped
<1>2. /\ Shaped(z, DriveFields) /\ z.pc = x.pc /\ z.call = x.call /\ z.dev = x.dev /\ z.first = x.first
      /\ z.left = x.left /\ z.loop = x.loop /\ z.moved = x.moved
      /\ z.seg \in Nat /\ z.off \in Nat /\ z.off <= 63488
      /\ z.seg * 16 + z.off = x.seg * 16 + x.off
  <2>1. x.seg \in Nat /\ x.off \in Nat /\ x.off < 65536
    BY DEF DriveInv
  <2>2. CASE x.off > 63488
    <3>1. z = [x EXCEPT !.off = @ - 2048, !.seg = @ + 128]
      BY <2>2, SMT DEF Disk!Adjusted
    <3> HIDE DEF z
    <3>2. z.off = x.off - 2048 /\ z.seg = x.seg + 128
      BY <1>1, <3>1, SMT DEF DriveFields
    <3>3. Shaped(z, DriveFields)
      <4> DEFINE o == x.off - 2048
                 s == x.seg + 128
      <4>1. z = [x EXCEPT !.off = o, !.seg = s]
        BY <3>1, SMT
      <4> HIDE DEF o, s
      <4> QED
        BY <1>1, <4>1 DEF Shaped
    <3>4. /\ z.pc = x.pc /\ z.call = x.call /\ z.dev = x.dev /\ z.first = x.first
          /\ z.left = x.left /\ z.loop = x.loop /\ z.moved = x.moved
      BY <1>1, <3>1, SMT DEF DriveFields
    <3> QED
      BY <2>1, <2>2, <3>2, <3>3, <3>4, SMT
  <2>3. CASE ~(x.off > 63488)
    <3>1. z = x
      BY <2>3, SMT DEF Disk!Adjusted
    <3>2. Shaped(x, DriveFields)
      BY DEF DriveInv
    <3> HIDE DEF z
    <3> QED
      BY <2>1, <2>3, <3>1, <3>2, SMT
  <2> QED
    BY <2>2, <2>3
<1>3. z.loop = z.left /\ 0 < z.left /\ z.left < 256 /\ z.left \in Nat /\ z.moved \in Nat
  <2>1. /\ x.left \in Nat /\ 0 < x.left /\ x.loop = x.left /\ x.moved \in Nat
        /\ x.moved + x.left = x.call.n /\ x.call.n < 256
    BY DEF DriveInv
  <2> HIDE DEF z
  <2> QED
    BY <1>2, <2>1, SMT
<1>4. y = [z EXCEPT !.off = (@ + 512) % 65536, !.at = <<Disk!Linear(z.seg, z.off) + 512>>,
                    !.moved = @ + 1, !.left = @ - 1, !.loop = (@ - 1) % 65536]
  BY DEF Disk!AfterSector
<1> HIDE DEF y, z
<1>5. z = [f \in DriveFields |-> z[f]]
  BY <1>2 DEF Shaped
<1>6. Shaped(y, DriveFields) /\ y.pc = z.pc /\ y.call = z.call /\ y.dev = z.dev /\ y.first = z.first
  <2> DEFINE off == (z.off + 512) % 65536
             at1 == <<Disk!Linear(z.seg, z.off) + 512>>
             moved == z.moved + 1
             left == z.left - 1
             loop == (z.loop - 1) % 65536
  <2>1. y = [z EXCEPT !.off = off, !.at = at1, !.moved = moved, !.left = left, !.loop = loop]
    BY <1>4, SMT
  <2> HIDE DEF off, at1, moved, left, loop
  <2>2. Shaped(y, DriveFields)
    BY <1>5, <2>1 DEF Shaped
  <2> QED
    BY <1>5, <2>1, <2>2 DEF DriveFields
<1>7. /\ y.seg = z.seg /\ y.at = <<Disk!Linear(z.seg, z.off) + 512>>
      /\ y.moved = z.moved + 1 /\ y.left = z.left - 1
  BY <1>4, <1>5, SMT DEF DriveFields
<1>8. y.off = (z.off + 512) % 65536 /\ y.loop = (z.loop - 1) % 65536
  BY <1>4, <1>5, SMT DEF DriveFields
<1>9. y.off = z.off + 512 /\ y.loop = y.left
  BY <1>2, <1>3, <1>7, <1>8, SMT
<1>10. x.seg * 16 + x.off = start + 512 * x.moved /\ start \in Nat /\ x.moved \in Nat
  BY SMT DEF DriveInv, Disk!Linear
<1> HIDE DEF start
<1>11. y.seg * 16 + y.off = start + 512 * y.moved
  BY <1>2, <1>7, <1>9, <1>10, SMT
<1>12. y.at[1] = start + 512 * y.moved
  <2>1. y.at[1] = z.seg * 16 + z.off + 512
    BY <1>7, SMT DEF Disk!Linear
  <2> QED
    BY <1>2, <1>7, <1>10, <2>1, SMT
<1>13. y.off < 65536 /\ y.off \in Nat
  BY <1>2, <1>9, SMT
<1>14. /\ x.first = AskedOf(x.call, x.dev) /\ x.left \in Nat /\ 0 < x.left
       /\ x.moved + x.left = x.call.n /\ x.call.n < 256 /\ start \in Nat
  BY <1>10 DEF DriveInv
<1>15. y.call = x.call /\ y.dev = x.dev /\ y.pc = x.pc /\ y.first = x.first /\ Shaped(y, DriveFields)
  BY <1>2, <1>6
<1>16. y.moved = x.moved + 1 /\ y.left = x.left - 1 /\ y.loop = y.left
  BY <1>2, <1>7, <1>9
<1>17. /\ y.left \in Nat /\ y.moved \in Nat /\ y.moved < 256
       /\ y.moved + y.left = x.call.n
  BY <1>10, <1>14, <1>16, SMT
<1>18. start = Disk!Linear(y.call.seg, y.call.off) /\ y.first = AskedOf(y.call, y.dev)
  BY <1>14, <1>15 DEF start
<1>19. y.seg \in Nat
  BY <1>2, <1>7
<1>20. OneMore(x, y)
  BY <1>11, <1>12, <1>13, <1>14, <1>15, <1>16, <1>17, <1>18, <1>19, SMT DEF OneMore, Disk!Linear
<1> QED
  BY <1>20 DEF y

\* What a command that ends answers.
EndedAs(x, fields, code) ==
    /\ Shaped(reply', ReplyFields) /\ reply'.call = x.call /\ reply'.n = Disk!Told(x, code)
    /\ code # 0 => reply'.cf
    /\ DOMAIN reply'.got = fields /\ \A f \in fields : f # "pc" => reply'.got[f] = x[f]
    /\ xfer' = Disk!NoXfer
LEMMA EndsAs ==
    ASSUME NEW x, NEW fields, Shaped(x, fields), NEW code, NEW ah, Disk!Ended(x, code, ah)
    PROVE  EndedAs(x, fields, code)
<1> DEFINE got == [x EXCEPT !.pc = "over"]
           cf == code # 0
           n == Disk!Told(x, code)
           a == IF code # 0 THEN ah ELSE 0
<1>1. reply' = [call |-> x.call, cf |-> cf, ah |-> a, n |-> n, got |-> got] /\ xfer' = Disk!NoXfer
  BY DEF Disk!Ended
<1>2. DOMAIN got = fields /\ \A f \in fields : f # "pc" => got[f] = x[f]
  BY DEF Shaped
<1>3. code # 0 => cf = TRUE
  OBVIOUS
<1> HIDE DEF got, cf, n, a
<1>4. Shaped(reply', ReplyFields) /\ reply'.call = x.call /\ reply'.n = n /\ reply'.got = got /\ reply'.cf = cf
  BY <1>1 DEF Shaped, ReplyFields
<1> QED
  BY <1>1, <1>2, <1>3, <1>4 DEF n, EndedAs

LEMMA DriveEnds ==
    ASSUME NEW x, Shaped(x, DriveFields), x.first = AskedOf(x.call, x.dev),
           x.moved \in Nat, x.moved < 256,
           x.at # <<>> => x.at[1] = Disk!Linear(x.call.seg, x.call.off) + 512 * x.moved,
           NEW code, code = 0 => x.moved = x.call.n /\ x.left = 0,
           NEW ah, Disk!Ended(x, code, ah), ata'.found = ata.found
    PROVE  XferInv' /\ ReplyInv'
<1>1. /\ Shaped(reply', ReplyFields) /\ reply'.call = x.call /\ reply'.n = Disk!Told(x, code)
      /\ code # 0 => reply'.cf
      /\ DOMAIN reply'.got = DriveFields /\ xfer' = Disk!NoXfer
      /\ \A f \in DriveFields : f # "pc" => reply'.got[f] = x[f]
  <2>1. EndedAs(x, DriveFields, code)
    BY EndsAs
  <2> QED
    BY <2>1, Zenon DEF EndedAs
<1>2. /\ reply'.got.first = x.first /\ reply'.got.dev = x.dev /\ reply'.got.moved = x.moved
      /\ reply'.got.at = x.at /\ reply'.got.left = x.left /\ "loop" \in DOMAIN reply'.got
  BY <1>1 DEF DriveFields
<1>3. reply'.n = x.moved
  <2>1. DOMAIN x = DriveFields /\ "loop" \in DriveFields
    BY DEF Shaped, DriveFields
  <2>2. Disk!Told(x, code) = x.moved % 256
    BY <2>1 DEF Disk!Told
  <2> QED
    BY <1>1, <2>2
<1>4. x.first = Disk!Asked(reply)'
  <2>1. AskedOf(x.call, x.dev) = AskedOf(x.call, x.dev)'
    BY DEF AskedOf
  <2> QED
    BY <1>1, <1>2, <2>1 DEF Disk!Asked, AskedOf
<1>5. ~reply'.cf => code = 0
  BY <1>1
<1>6. Disk!Moved(reply)'
  BY <1>1, <1>2, <1>3, <1>4, <1>5 DEF Disk!Moved
<1>7. ReplyInv'
  BY <1>1, <1>2, <1>6 DEF ReplyInv, ReplyFields
<1> QED
  BY <1>1, <1>7, NoCommand

LEMMA PacketEnds ==
    ASSUME NEW x, PacketInv(x), NEW code, code = 0 => x.left = 0, NEW ah, Disk!Ended(x, code, ah), cdemu' = cdemu
    PROVE  XferInv' /\ ReplyInv'
<1>1. /\ Shaped(reply', ReplyFields) /\ reply'.call = x.call
      /\ code # 0 => reply'.cf
      /\ DOMAIN reply'.got = PacketFields /\ xfer' = Disk!NoXfer
      /\ \A f \in PacketFields : f # "pc" => reply'.got[f] = x[f]
  <2>1. EndedAs(x, PacketFields, code)
    BY EndsAs DEF PacketInv
  <2> QED
    BY <2>1, Zenon DEF EndedAs
<1>2. /\ reply'.got.first = x.first /\ reply'.got.from = x.from /\ reply'.got.moved = x.moved
      /\ reply'.got.at = x.at /\ "loop" \notin DOMAIN reply'.got
  BY <1>1 DEF PacketFields
<1>3. x.at # <<>> => x.at[1] = x.from + x.moved
  BY DEF PacketInv
<1>4. code = 0 => x.moved = AmountOf(x.call) /\ x.first + x.from = StartOf(x.call)
  BY DEF PacketInv, Skipped
<1>5. AmountOf(x.call) = AmountOf(x.call)' /\ StartOf(x.call) = StartOf(x.call)'
  BY DEF AmountOf, StartOf, Disk!Virtual
<1>6. ~reply'.cf => code = 0
  BY <1>1
<1>7. Disk!Moved(reply)'
  BY <1>1, <1>2, <1>3, <1>4, <1>5, <1>6 DEF Disk!Moved, AmountOf, StartOf, Disk!Virtual
<1>8. reply'.call.ah = 66 \/ cdemu' # Disk!NoCdemu
  BY <1>1 DEF PacketInv
<1>9. ReplyInv'
  BY <1>1, <1>2, <1>7, <1>8 DEF ReplyInv, ReplyFields
<1> QED
  BY <1>1, <1>9, NoCommand

\* The drives and the locks are as they were.
DrivesKept == UNCHANGED <<machine, ata, locks>>
LEMMA DrivesStay ==
    ASSUME DiskInv, DrivesKept, CdemuInv', XferInv', ReplyInv', ~Disk!Ready => xfer' = Disk!NoXfer /\ reply' = Disk!NoReply
    PROVE  DiskInv' /\ Disk!LocksHold
<1>1. FoundInv' /\ NumberedInv' /\ Shaped(ata', AtaFields) /\ Disk!Ready' = Disk!Ready /\ machine' \in Machines
  BY DEF DiskInv, DrivesKept, FoundInv, NumberedInv, Free, Disk!Ready, Disk!bench, HdOf, CdOf
<1>2. locks' \in [Disk!Devices -> Nat] /\ Disk!LocksHold
  BY LocksStay DEF DiskInv, DrivesKept
<1> QED
  BY <1>1, <1>2 DEF DiskInv

LEMMA EltoritoCall ==
    ASSUME DiskInv, Disk!Ready, xfer = Disk!NoXfer, reply = Disk!NoReply, NEW call, Disk!int13_eltorito(call),
           UNCHANGED ata
    PROVE  XferInv' /\ ReplyInv' /\ CdemuInv'
<1>1. CASE call.ah = 75
  <2>1. /\ Disk!Succeeds(call, 0) /\ xfer' = xfer
        /\ cdemu' = IF call.al = 0 THEN [cdemu EXCEPT !.active = FALSE] ELSE cdemu
    BY <1>1 DEF Disk!int13_eltorito
  <2>2. XferInv' /\ ReplyInv'
    BY <2>1, Succeeds, NoCommand
  <2>3. CASE call.al # 0
    BY <2>1, <2>2, <2>3 DEF DiskInv, CdemuInv, Disk!Ready
  <2>4. CASE call.al = 0 /\ cdemu = Disk!NoCdemu
    <3>1. cdemu' = Disk!NoCdemu
      BY <2>1, <2>4 DEF Disk!NoCdemu
    <3> QED
      BY <2>2, <3>1 DEF CdemuInv
  <2>5. CASE call.al = 0 /\ cdemu # Disk!NoCdemu
    <3>1. Shaped(cdemu, {"active", "drive", "dev", "media", "ilba", "geometry"})
          /\ cdemu.ilba \in Nat /\ cdemu.geometry.h \in Nat /\ cdemu.geometry.s \in Nat
      BY <2>5 DEF DiskInv, CdemuInv
    <3> DEFINE no == FALSE
    <3>2. cdemu' = [cdemu EXCEPT !.active = no]
      BY <2>1, <2>5
    <3>3. ~no
      OBVIOUS
    <3> HIDE DEF no
    <3>4. Shaped(cdemu', {"active", "drive", "dev", "media", "ilba", "geometry"})
      BY <3>1, <3>2 DEF Shaped
    <3>5. cdemu'.active = no /\ cdemu'.ilba = cdemu.ilba /\ cdemu'.geometry = cdemu.geometry
      BY <3>1, <3>2 DEF Shaped
    <3>6. ~cdemu'.active
      BY <3>3, <3>5
    <3> QED
      BY <2>2, <3>1, <3>4, <3>5, <3>6 DEF CdemuInv, Disk!Ready
  <2> QED
    BY <2>3, <2>4, <2>5
<1>2. CASE call.ah # 75
  <2>1. xfer' = Disk!Halted /\ cdemu' = cdemu /\ reply' = Disk!NoReply
    BY <1>2 DEF Disk!int13_eltorito
  <2> QED
    BY <2>1, NoCommand, NoReplyYet DEF DiskInv, CdemuInv, Disk!Ready
<1> QED
  BY <1>1, <1>2

LEMMA Int13Step == ASSUME DiskInv, Disk!Int13 PROVE DiskInv' /\ Disk!LocksHold
<1>1. Disk!Ready /\ xfer = Disk!NoXfer /\ reply = Disk!NoReply
  BY DEF Disk!Int13
<1>2. PICK call \in Disk!bench.calls :
           LET dl == Disk!RealDrive(call.dl)
           IN  IF call.ah \in 74 .. 77
               THEN Disk!int13_eltorito(call) /\ UNCHANGED <<machine, ata, locks, floppies>>
               ELSE IF cdemu.active /\ call.dl = cdemu.drive THEN Disk!int13_cdemu(call) /\ Disk!SameDisks
               ELSE IF dl < 128 THEN Disk!int13_diskette(call) /\ Disk!SameDisks /\ UNCHANGED xfer
               ELSE IF dl < 224 THEN Disk!int13_harddisk(call, dl) /\ Disk!SameDisks
               ELSE Disk!int13_cdrom(call, dl) /\ UNCHANGED <<machine, ata, cdemu, floppies>>
  BY DEF Disk!Int13
<1> DEFINE dl == Disk!RealDrive(call.dl)
<1>3. DiskCall(call)
  BY DiskUnits DEF DiskInv
<1> HIDE DEF dl
<1>4. CASE call.ah \in 74 .. 77
  <2>1. Disk!int13_eltorito(call) /\ DrivesKept
    BY <1>2, <1>4 DEF DrivesKept
  <2>2. XferInv' /\ ReplyInv' /\ CdemuInv'
    BY <1>1, <2>1, EltoritoCall DEF DrivesKept
  <2> QED
    BY <1>1, <2>1, <2>2, DrivesStay
<1>5. CASE call.ah \notin 74 .. 77 /\ cdemu.active /\ call.dl = cdemu.drive
  <2>1. Disk!int13_cdemu(call) /\ Disk!SameDisks
    BY <1>2, <1>5
  <2>2. XferInv' /\ ReplyInv'
    BY <1>1, <1>3, <1>5, <2>1, CdemuCall DEF Disk!SameDisks
  <2>3. DrivesKept /\ CdemuInv'
    BY <2>1 DEF Disk!SameDisks, DrivesKept, DiskInv, CdemuInv, Disk!Ready
  <2> QED
    BY <1>1, <2>2, <2>3, DrivesStay
<1>6. CASE call.ah \notin 74 .. 77 /\ ~(cdemu.active /\ call.dl = cdemu.drive) /\ (dl < 128 \/ dl < 224)
  <2>1. /\ Disk!SameDisks
        /\ (Disk!int13_diskette(call) /\ UNCHANGED xfer) \/ Disk!int13_harddisk(call, dl)
    BY <1>2, <1>6 DEF dl
  <2>2. XferInv' /\ ReplyInv'
    <3>1. CASE Disk!int13_diskette(call) /\ UNCHANGED xfer
      BY <1>1, <3>1, Succeeds, Fails, NoCommand DEF Disk!int13_diskette
    <3>2. CASE Disk!int13_harddisk(call, dl)
      BY <1>1, <1>3, <2>1, <3>2, HardDiskCall DEF Disk!SameDisks
    <3> QED
      BY <2>1, <3>1, <3>2
  <2>3. DrivesKept /\ CdemuInv'
    BY <2>1 DEF Disk!SameDisks, DrivesKept, DiskInv, CdemuInv, Disk!Ready
  <2> QED
    BY <1>1, <2>2, <2>3, DrivesStay
<1>7. CASE call.ah \notin 74 .. 77 /\ ~(cdemu.active /\ call.dl = cdemu.drive) /\ ~(dl < 128) /\ ~(dl < 224)
  <2>1. Disk!int13_cdrom(call, dl) /\ UNCHANGED <<machine, ata, cdemu, floppies>>
    BY <1>2, <1>7 DEF dl
  <2>2. XferInv' /\ ReplyInv' /\ locks' \in [Disk!Devices -> Nat] /\ Disk!LocksHold
    BY <1>1, <1>3, <2>1, CdromCall
  <2>3. FoundInv' /\ NumberedInv' /\ Shaped(ata', AtaFields) /\ Disk!Ready' /\ machine' \in Machines /\ CdemuInv'
    BY <1>1, <2>1 DEF DiskInv, FoundInv, NumberedInv, Free, Disk!Ready, Disk!bench, CdemuInv
  <2> QED
    BY <2>2, <2>3 DEF DiskInv
<1> QED
  BY <1>4, <1>5, <1>6, <1>7

\* A drive's step leaves the drives and the emulation as they are.
LEMMA StepKeeps ==
    ASSUME DiskInv, Disk!SameDisks, xfer # Disk!NoXfer, XferInv', ReplyInv' PROVE DiskInv' /\ Disk!LocksHold
<1>1. DrivesKept /\ CdemuInv' /\ Disk!Ready
  BY DEF Disk!SameDisks, DrivesKept, DiskInv, CdemuInv, Disk!Ready
<1> QED
  BY <1>1, DrivesStay

LEMMA ReplyStays == ReplyInv /\ UNCHANGED <<ata, cdemu, reply>> => ReplyInv'
  BY DEF ReplyInv, Disk!Moved, Disk!Asked, Disk!Virtual

LEMMA AtaStartsStep == ASSUME DiskInv, Disk!AtaStarts PROVE DiskInv' /\ Disk!LocksHold
<1>1. xfer.pc = "start" /\ Disk!SameDisks /\ ata' = ata /\ cdemu' = cdemu
  BY DEF Disk!AtaStarts, Disk!SameDisks
<1>2. DriveInv(xfer) /\ xfer # Disk!NoXfer
  BY <1>1 DEF DiskInv, XferInv, PacketInv, Disk!NoXfer, Disk!Halted
<1>3. CASE xfer' = [xfer EXCEPT !.pc = "sector"] /\ UNCHANGED <<reply, status>>
  <2> DEFINE s == "sector"
             x == xfer'
  <2>1. Shaped(xfer, DriveFields) /\ xfer' = [xfer EXCEPT !.pc = s]
    BY <1>2, <1>3 DEF DriveInv
  <2>2. \A f \in DriveFields : f # "pc" => xfer'[f] = xfer[f]
    BY <2>1 DEF Shaped
  <2>3. xfer'.pc = s
    BY <2>1 DEF Shaped, DriveFields
  <2> HIDE DEF s
  <2>4. Shaped(xfer', DriveFields)
    BY <2>1 DEF Shaped
  <2>5. /\ x.call = xfer.call /\ x.dev = xfer.dev /\ x.first = xfer.first /\ x.left = xfer.left
        /\ x.loop = xfer.loop /\ x.moved = xfer.moved /\ x.seg = xfer.seg /\ x.off = xfer.off /\ x.at = xfer.at
    BY <2>2 DEF DriveFields
  <2>6. x.pc = "sector"
    BY <2>3 DEF s
  <2>7. DriveInv(x)
    <3> HIDE DEF x
    <3> QED
      BY <1>2, <2>4, <2>5, <2>6 DEF DriveInv, x
  <2>8. XferInv'
    BY <1>1, <2>7, DriveGoesOn
  <2> QED
    BY <1>1, <1>2, <1>3, <2>8, ReplyStays, StepKeeps DEF DiskInv
<1>4. ASSUME NEW code \in {1, 2, 3}, Disk!Ended(xfer, code, 12) PROVE DiskInv' /\ Disk!LocksHold
  <2>1. /\ Shaped(xfer, DriveFields) /\ xfer.first = AskedOf(xfer.call, xfer.dev)
        /\ xfer.moved \in Nat /\ xfer.moved < 256
        /\ xfer.at # <<>> => xfer.at[1] = Disk!Linear(xfer.call.seg, xfer.call.off) + 512 * xfer.moved
    BY <1>2 DEF DriveInv
  <2>2. code = 0 => xfer.moved = xfer.call.n /\ xfer.left = 0
    BY <1>4
  <2>3. XferInv' /\ ReplyInv'
    BY <1>1, <1>4, <2>1, <2>2, DriveEnds
  <2> QED
    BY <1>1, <1>2, <2>3, StepKeeps
<1> QED
  BY <1>3, <1>4 DEF Disk!AtaStarts

LEMMA AtaSectorStep == ASSUME DiskInv, Disk!AtaSector PROVE DiskInv' /\ Disk!LocksHold
<1>1. xfer.pc = "sector" /\ Disk!SameDisks /\ ata' = ata /\ cdemu' = cdemu
  BY DEF Disk!AtaSector, Disk!SameDisks
<1>2. DriveInv(xfer) /\ xfer # Disk!NoXfer
  BY <1>1 DEF DiskInv, XferInv, PacketInv, Disk!NoXfer, Disk!Halted
<1>3. PICK y : y = Disk!AfterSector(xfer) /\ OneMore(xfer, y)
  BY <1>2, SectorMoved
<1>4. \/ IF Disk!Whole(y) THEN Disk!Ended(y, IF y.left > 0 THEN 4 ELSE 0, 12)
         ELSE IF y.left > 0 THEN xfer' = y /\ UNCHANGED <<reply, status>>
         ELSE Disk!Ended(y, 5, 12)
      \/ Disk!Ended(y, IF Disk!Whole(y) THEN 4 ELSE 5, 12)
  BY <1>3 DEF Disk!AtaSector
<1>5. /\ y.first = AskedOf(y.call, y.dev) /\ y.left \in Nat /\ y.moved \in Nat /\ y.moved < 256
      /\ y.moved + y.left = y.call.n /\ y.loop = y.left /\ Shaped(y, DriveFields)
      /\ y.at # <<>> => y.at[1] = Disk!Linear(y.call.seg, y.call.off) + 512 * y.moved
  BY <1>3 DEF OneMore
<1>6. CASE xfer' = y /\ UNCHANGED <<reply, status>> /\ y.left > 0
  <2>1. DriveInv(y)
    BY <1>1, <1>3, <1>6 DEF DriveInv, OneMore
  <2>2. XferInv'
    BY <1>1, <1>6, <2>1, DriveGoesOn
  <2> QED
    BY <1>1, <1>2, <1>6, <2>2, ReplyStays, StepKeeps DEF DiskInv
<1>7. ASSUME NEW code, code = 0 => y.left = 0, Disk!Ended(y, code, 12) PROVE DiskInv' /\ Disk!LocksHold
  <2>1. code = 0 => y.moved = y.call.n /\ y.left = 0
    BY <1>5, <1>7
  <2>2. XferInv' /\ ReplyInv'
    BY <1>1, <1>5, <1>7, <2>1, DriveEnds
  <2> QED
    BY <1>1, <1>2, <2>2, StepKeeps
<1>8. CASE Disk!Whole(y)
  <2>1. y.left = 0
    BY <1>5, <1>8 DEF Disk!Whole
  <2>2. ~(y.left > 0)
    BY <2>1
  <2>3. (IF y.left > 0 THEN 4 ELSE 0) = 0 /\ (IF Disk!Whole(y) THEN 4 ELSE 5) = 4
    BY <1>8, <2>2
  <2>4. Disk!Ended(y, IF y.left > 0 THEN 4 ELSE 0, 12) \/ Disk!Ended(y, IF Disk!Whole(y) THEN 4 ELSE 5, 12)
    BY <1>4, <1>8, Zenon
  <2>5. Disk!Ended(y, 0, 12) \/ Disk!Ended(y, 4, 12)
    BY <2>3, <2>4, Zenon
  <2> QED
    BY <1>7, <2>1, <2>5
<1>9. CASE ~Disk!Whole(y)
  <2>1. (y.left > 0 /\ xfer' = y /\ UNCHANGED <<reply, status>>) \/ Disk!Ended(y, 5, 12)
    BY <1>4, <1>9
  <2> QED
    BY <1>6, <1>7, <2>1
<1> QED
  BY <1>8, <1>9

\* A chunk more of a packet's data.
LEMMA ChunkMoved ==
    ASSUME NEW x, PacketInv(x), NEW k, k \in Nat, k <= x.left PROVE PacketInv(Disk!AfterChunk(x, k))
<1> DEFINE before == Disk!Least(x.header, k)
           count == Disk!Least(k - before, x.length)
           y == Disk!AfterChunk(x, k)
           pos == x.pos + k
           left == x.left - k
           header == x.header - before
           length == x.length - count
           moved == x.moved + count
           from == IF x.moved = 0 THEN x.pos + before ELSE x.from
           at1 == IF count > 0 THEN <<x.pos + before + count>> ELSE x.at
<1>1. /\ x.left \in Nat /\ x.pos \in Nat /\ x.header \in Nat /\ x.length \in Nat /\ x.moved \in Nat
      /\ x.moved + x.length = AmountOf(x.call) /\ x.header + x.length <= x.left
      /\ x.header > 0 => x.moved = 0
  BY DEF PacketInv
<1>2. Shaped(x, PacketFields)
  BY DEF PacketInv
<1>3. y = [x EXCEPT !.pos = @ + k, !.left = @ - k, !.header = @ - before, !.length = @ - count,
                    !.moved = @ + count, !.from = IF x.moved = 0 THEN x.pos + before ELSE @,
                    !.at = IF count > 0 THEN <<x.pos + before + count>> ELSE @]
  BY DEF Disk!AfterChunk
<1>4. y = [x EXCEPT !.pos = pos, !.left = left, !.header = header, !.length = length,
                    !.moved = moved, !.from = from, !.at = at1]
  BY <1>3
<1>5. before \in Nat /\ count \in Nat /\ before <= x.header /\ before <= k /\ count <= x.length
  BY <1>1, SMT DEF Disk!Least
<1>6. /\ before < x.header => before = k
      /\ count < x.length => count = k - before
      /\ before + count <= k
  BY <1>1, SMT DEF Disk!Least
<1> HIDE DEF y, before, count
<1>7. /\ left \in Nat /\ pos \in Nat /\ header \in Nat /\ length \in Nat /\ moved \in Nat
      /\ moved + length = AmountOf(x.call) /\ header + length <= left
  <2>1. left \in Nat /\ pos \in Nat /\ header \in Nat /\ length \in Nat /\ moved \in Nat
    BY <1>1, <1>5
  <2>2. moved + length = x.moved + x.length
    BY <1>1, <1>5
  <2>3. header + length <= left
    <3>1. \A h, l, m, b, c \in Nat :
             /\ b <= h /\ c <= l /\ h + l <= m /\ k <= m /\ b + c <= k
             /\ (b < h => b = k) /\ (c < l => c = k - b)
             => (h - b) + (l - c) <= m - k
      BY SMT
    <3>2. before + count <= k /\ k <= x.left
      BY <1>6
    <3> QED
      BY <1>1, <1>5, <1>6, <3>1, <3>2
  <2> QED
    BY <1>1, <2>1, <2>2, <2>3
<1>8. header > 0 => moved = 0
  BY <1>1, <1>5, <1>6
<1>9. count > 0 => before = x.header /\ x.length > 0
  BY <1>1, <1>5, <1>6
<1>10. Skipped(x) \in Int
  BY DEF Skipped, PacketInv
<1>11. x.length > 0 => x.pos + x.header = Skipped(x) + x.moved
  BY DEF PacketInv
<1>12. length > 0 => pos + header = Skipped(x) + moved
  BY <1>1, <1>5, <1>6, <1>10, <1>11
<1>13. moved > 0 => from = Skipped(x)
  <2>1. CASE x.moved = 0
    <3>1. from = x.pos + before
      BY <2>1
    <3> QED
      BY <1>1, <1>5, <1>9, <1>10, <1>11, <2>1, <3>1
  <2>2. CASE x.moved # 0
    <3>1. from = x.from /\ x.moved > 0
      BY <1>1, <2>2
    <3> QED
      BY <3>1 DEF PacketInv
  <2> QED
    BY <2>1, <2>2
<1>14. at1 # <<>> => moved > 0 /\ at1[1] = Skipped(x) + moved
  <2>1. CASE count > 0
    <3>1. at1[1] = x.pos + before + count
      BY <2>1
    <3> QED
      BY <1>1, <1>5, <1>9, <1>10, <1>11, <2>1, <3>1
  <2>2. CASE ~(count > 0)
    <3>1. at1 = x.at /\ moved = x.moved
      BY <1>1, <1>5, <2>2
    <3> QED
      BY <3>1 DEF PacketInv
  <2> QED
    BY <2>1, <2>2
<1> HIDE DEF pos, left, header, length, moved, from, at1
<1>15. Shaped(y, PacketFields)
  BY <1>2, <1>4 DEF Shaped
<1>16. /\ y.pos = pos /\ y.left = left /\ y.header = header /\ y.length = length /\ y.moved = moved
       /\ y.from = from /\ y.at = at1
  BY <1>2, <1>4 DEF Shaped, PacketFields
<1>17. y.pc = x.pc /\ y.call = x.call /\ y.first = x.first
  BY <1>2, <1>4 DEF Shaped, PacketFields
<1>18. /\ x.pc = "packet" /\ (x.call.ah # 66 => x.call.ah = 2 /\ cdemu # Disk!NoCdemu)
       /\ StartOf(x.call) \in Int /\ x.first \in Int
       /\ AmountOf(x.call) \in Nat /\ 0 < AmountOf(x.call)
  BY DEF PacketInv
<1>19. Skipped(y) = Skipped(x)
  BY <1>17 DEF Skipped
<1>20. PacketInv(y)
  BY <1>7, <1>8, <1>12, <1>13, <1>14, <1>15, <1>16, <1>17, <1>18, <1>19 DEF PacketInv
<1> QED
  BY <1>20 DEF y

LEMMA AtapiChunkStep == ASSUME DiskInv, Disk!AtapiChunk PROVE DiskInv' /\ Disk!LocksHold
<1>1. xfer.pc = "packet" /\ xfer.left > 0 /\ Disk!SameDisks /\ ata' = ata /\ cdemu' = cdemu
  BY DEF Disk!AtapiChunk, Disk!SameDisks
<1>2. PacketInv(xfer) /\ xfer # Disk!NoXfer
  BY <1>1 DEF DiskInv, XferInv, DriveInv, Disk!NoXfer, Disk!Halted
<1>3. ASSUME NEW k \in Disk!bench.chunks, xfer' = Disk!AfterChunk(xfer, Disk!Least(k, xfer.left)), UNCHANGED <<reply, status>>
      PROVE  DiskInv' /\ Disk!LocksHold
  <2>1. k \in Nat /\ xfer.left \in Nat
    BY <1>2, DiskUnits DEF DiskInv, PacketInv
  <2> DEFINE n == Disk!Least(k, xfer.left)
  <2>2. n \in Nat /\ n <= xfer.left
    BY <2>1 DEF Disk!Least
  <2> HIDE DEF n
  <2>3. PacketInv(Disk!AfterChunk(xfer, n))
    BY <1>2, <2>2, ChunkMoved
  <2>4. XferInv'
    BY <1>1, <1>3, <2>3, PacketGoesOn DEF n
  <2> QED
    BY <1>1, <1>2, <1>3, <2>4, ReplyStays, StepKeeps DEF DiskInv
<1>4. CASE Disk!Ended(xfer, 3, Disk!PacketError(xfer))
  <2>1. XferInv' /\ ReplyInv'
    BY <1>1, <1>2, <1>4, PacketEnds
  <2> QED
    BY <1>1, <1>2, <2>1, StepKeeps
<1> QED
  BY <1>3, <1>4 DEF Disk!AtapiChunk

LEMMA AtapiEndsStep == ASSUME DiskInv, Disk!AtapiEnds PROVE DiskInv' /\ Disk!LocksHold
<1>1. xfer.pc = "packet" /\ xfer.left = 0 /\ Disk!SameDisks /\ ata' = ata /\ cdemu' = cdemu
  BY DEF Disk!AtapiEnds, Disk!SameDisks
<1>2. PacketInv(xfer) /\ xfer # Disk!NoXfer
  BY <1>1 DEF DiskInv, XferInv, DriveInv, Disk!NoXfer, Disk!Halted
<1>3. ASSUME NEW code, NEW ah, Disk!Ended(xfer, code, ah) PROVE DiskInv' /\ Disk!LocksHold
  <2>1. XferInv' /\ ReplyInv'
    BY <1>1, <1>2, <1>3, PacketEnds
  <2> QED
    BY <1>1, <1>2, <2>1, StepKeeps
<1> QED
  BY <1>3 DEF Disk!AtapiEnds

LEMMA FirstIsCdrom ==
    ASSUME Disk!FirstCdrom # Disk!NoDevice
    PROVE  Disk!FirstCdrom \in Disk!Devices /\ ata.found[Disk!FirstCdrom].type = "atapi"
<1> DEFINE cd(d) == Disk!atapi_is_cdrom(d)
<1>1. PICK d \in Disk!Devices : cd(d)
  BY DEF Disk!FirstCdrom
<1>2. Disk!Devices = 0 .. 7
  BY DEF Disk!Devices, Disk!MaxDevices
<1>3. \E f \in 0 .. 7 : cd(f) /\ \A e \in 0 .. 7 : cd(e) => f <= e
  <2> HIDE DEF cd
  <2>1. \/ cd(0) \/ cd(1) \/ cd(2) \/ cd(3) \/ cd(4) \/ cd(5) \/ cd(6) \/ cd(7)
    BY <1>1, <1>2
  <2>2. CASE cd(0)
    BY <2>2
  <2>3. CASE ~cd(0) /\ cd(1)
    BY <2>3
  <2>4. CASE ~cd(0) /\ ~cd(1) /\ cd(2)
    BY <2>4
  <2>5. CASE ~cd(0) /\ ~cd(1) /\ ~cd(2) /\ cd(3)
    BY <2>5
  <2>6. CASE ~cd(0) /\ ~cd(1) /\ ~cd(2) /\ ~cd(3) /\ cd(4)
    BY <2>6
  <2>7. CASE ~cd(0) /\ ~cd(1) /\ ~cd(2) /\ ~cd(3) /\ ~cd(4) /\ cd(5)
    BY <2>7
  <2>8. CASE ~cd(0) /\ ~cd(1) /\ ~cd(2) /\ ~cd(3) /\ ~cd(4) /\ ~cd(5) /\ cd(6)
    BY <2>8
  <2>9. CASE ~cd(0) /\ ~cd(1) /\ ~cd(2) /\ ~cd(3) /\ ~cd(4) /\ ~cd(5) /\ ~cd(6) /\ cd(7)
    BY <2>9
  <2> QED
    BY <2>1, <2>2, <2>3, <2>4, <2>5, <2>6, <2>7, <2>8, <2>9
<1>4. \E f \in Disk!Devices : cd(f) /\ \A e \in Disk!Devices : cd(e) => f <= e
  BY <1>2, <1>3
<1>5. Disk!FirstCdrom \in Disk!Devices /\ cd(Disk!FirstCdrom)
  BY <1>1, <1>4 DEF Disk!FirstCdrom
<1> QED
  BY <1>5 DEF Disk!atapi_is_cdrom

CdemuFields == {"active", "drive", "dev", "media", "ilba", "geometry"}
LEMMA BootStep == ASSUME DiskInv, Disk!cdrom_boot PROVE DiskInv' /\ Disk!LocksHold
<1> DEFINE d == Disk!FirstCdrom
           disc == Disk!bench.units[d].disc
           booted == Disk!Booted(d, disc)
<1>1. /\ Disk!Ready /\ xfer = Disk!NoXfer /\ cdemu = Disk!NoCdemu /\ d # Disk!NoDevice
      /\ UNCHANGED <<machine, locks, status, xfer, reply>>
  BY DEF Disk!cdrom_boot
<1>2. \/ cdemu' = booted /\ (ata' = ata \/ ata' = [ata EXCEPT !.hdcount = @ + 1])
      \/ cdemu' = [booted EXCEPT !.active = FALSE, !.geometry = Disk!NoCdemu.geometry] /\ ata' = ata
  BY DEF Disk!cdrom_boot
<1>3. disc.ilba \in Nat /\ disc.geometry.h \in Nat /\ disc.geometry.s \in Nat
  <2>1. d \in Disk!Devices /\ ata.found[d].type = "atapi"
    BY <1>1, FirstIsCdrom
  <2> HIDE DEF d
  <2>2. Disk!bench.units[d].kind = "atapi"
    BY <2>1 DEF DiskInv, FoundInv
  <2>3. DiskUnit(Disk!bench.units[d])
    BY <2>1, DiskUnits DEF DiskInv
  <2> QED
    BY <2>2, <2>3 DEF DiskUnit
<1> HIDE DEF d, disc
<1>4. /\ booted.ilba \in Nat /\ booted.geometry.h \in Nat /\ booted.geometry.s \in Nat
      /\ booted.active => booted.drive \in {0, 128}
      /\ Shaped(booted, CdemuFields)
  <2>1. /\ booted.ilba = disc.ilba /\ booted.drive = Disk!EmulatedDrive(disc.media)
        /\ booted.geometry = Disk!MediaGeometry(disc.media, disc.geometry)
    BY DEF Disk!Booted
  <2>2. booted.active = (disc.media # 0)
    BY DEF Disk!Booted
  <2>3. Shaped(booted, CdemuFields)
    BY DEF Disk!Booted, Shaped, CdemuFields
  <2>4. /\ Disk!MediaGeometry(disc.media, disc.geometry).h \in Nat
        /\ Disk!MediaGeometry(disc.media, disc.geometry).s \in Nat
    <3>1. CASE disc.media \in {1, 2, 3}
      BY <3>1 DEF Disk!MediaGeometry
    <3>2. CASE disc.media \notin {1, 2, 3}
      BY <1>3, <3>2 DEF Disk!MediaGeometry
    <3> QED
      BY <3>1, <3>2
  <2>5. disc.media # 0 => Disk!EmulatedDrive(disc.media) \in {0, 128}
    BY DEF Disk!EmulatedDrive
  <2> HIDE DEF booted
  <2> QED
    BY <1>3, <2>1, <2>2, <2>3, <2>4, <2>5
<1> HIDE DEF booted
<1>5. Disk!Ready' /\ ata'.found = ata.found /\ ata'.next = ata.next
      /\ ata'.hdidmap = ata.hdidmap /\ ata'.cdidmap = ata.cdidmap /\ Shaped(ata', AtaFields)
  <2>1. Shaped(ata, AtaFields)
    BY DEF DiskInv
  <2>2. CASE ata' = ata
    BY <1>1, <2>1, <2>2 DEF Disk!Ready
  <2>3. CASE ata' = [ata EXCEPT !.hdcount = @ + 1]
    <3> DEFINE n == ata.hdcount + 1
    <3>1. ata' = [ata EXCEPT !.hdcount = n]
      BY <2>3
    <3> HIDE DEF n
    <3>2. Shaped(ata', AtaFields)
      BY <2>1, <3>1 DEF Shaped
    <3>3. ata'.found = ata.found /\ ata'.next = ata.next /\ ata'.hdidmap = ata.hdidmap /\ ata'.cdidmap = ata.cdidmap
      BY <2>1, <3>1 DEF Shaped, AtaFields
    <3> QED
      BY <1>1, <3>2, <3>3 DEF Disk!Ready
  <2> QED
    BY <1>2, <2>2, <2>3
<1>6. FoundInv' /\ NumberedInv'
  BY <1>1, <1>5 DEF DiskInv, FoundInv, NumberedInv, Disk!bench
<1>7. CdemuInv'
  <2>1. CASE cdemu' = booted
    BY <1>4, <1>5, <2>1 DEF CdemuInv, CdemuFields
  <2>2. CASE cdemu' = [booted EXCEPT !.active = FALSE, !.geometry = Disk!NoCdemu.geometry]
    <3> DEFINE no == FALSE
               g == Disk!NoCdemu.geometry
    <3>1. cdemu' = [booted EXCEPT !.active = no, !.geometry = g]
      BY <2>2
    <3>2. ~no /\ g.h \in Nat /\ g.s \in Nat
      BY DEF Disk!NoCdemu
    <3> HIDE DEF no, g
    <3>3. Shaped(cdemu', CdemuFields)
      BY <1>4, <3>1 DEF Shaped
    <3>4. cdemu'.active = no /\ cdemu'.ilba = booted.ilba /\ cdemu'.geometry = g
      BY <1>4, <3>1 DEF Shaped, CdemuFields
    <3>5. ~cdemu'.active
      BY <3>2, <3>4
    <3> QED
      BY <1>4, <1>5, <3>2, <3>3, <3>4, <3>5 DEF CdemuInv, CdemuFields
  <2> QED
    BY <1>2, <2>1, <2>2
<1>8. XferInv'
  BY <1>1, NoCommand
<1>9. ReplyInv'
  <2>1. Shaped(reply', ReplyFields) /\ reply' = reply
    BY <1>1 DEF DiskInv, ReplyInv, ReplyFields
  <2>2. ASSUME reply.got # <<>>
        PROVE  Disk!Moved(reply)' /\ ("loop" \notin DOMAIN reply'.got => reply'.call.ah = 66 \/ cdemu' # Disk!NoCdemu)
    <3>1. Disk!Moved(reply) /\ ("loop" \notin DOMAIN reply.got => reply.call.ah = 66)
      BY <1>1, <2>2 DEF DiskInv, ReplyInv
    <3>2. Disk!Asked(reply)' = Disk!Asked(reply)
      BY <1>5, <2>1 DEF Disk!Asked
    <3>3. Disk!Moved(reply)'
      BY <2>1, <3>1, <3>2 DEF Disk!Moved
    <3> QED
      BY <2>1, <3>1, <3>3
  <2> QED
    BY <2>1, <2>2 DEF ReplyInv, ReplyFields
<1>10. machine' \in Machines /\ locks' \in [Disk!Devices -> Nat] /\ Disk!LocksHold
  BY <1>1, LocksStay DEF DiskInv
<1> QED
  BY <1>5, <1>6, <1>7, <1>8, <1>9, <1>10 DEF DiskInv

LEMMA DiskStart == ASSUME Disk!DiskInit PROVE DiskInv
<1>1. /\ machine \in Machines /\ ata = Disk!ata_init /\ locks = [d \in Disk!Devices |-> 0]
      /\ cdemu = Disk!NoCdemu /\ xfer = Disk!NoXfer /\ reply = Disk!NoReply
  BY DEF Disk!DiskInit
<1>2. /\ ata.found = [d \in Disk!Devices |-> Disk!Absent] /\ ata.next = 0 /\ ata.hdcount = 0 /\ ata.cdcount = 0
      /\ ata.hdidmap = [n \in Disk!Devices |-> None] /\ ata.cdidmap = [n \in Disk!Devices |-> None]
  BY <1>1 DEF Disk!ata_init, None
<1>3. Shaped(ata, AtaFields)
  BY <1>1 DEF Disk!ata_init, Shaped, AtaFields
<1>4. \A d \in Disk!Devices : ata.found[d].type = "none"
  BY <1>2 DEF Disk!Absent
<1>5. FoundInv
  BY <1>2, <1>4 DEF FoundInv, Shaped, Disk!MaxDevices
<1>6. Maps(ata.found, ata.hdidmap, "ata") /\ Maps(ata.found, ata.cdidmap, "atapi")
  BY <1>2, <1>4 DEF Maps
<1>7. Free(ata.hdidmap, ata.hdcount) /\ Free(ata.cdidmap, ata.cdcount)
  BY <1>2 DEF Free
<1>8. locks \in [Disk!Devices -> Nat] /\ CdemuInv /\ XferInv
  BY <1>1 DEF CdemuInv, XferInv
<1>9. reply.got = <<>> /\ Shaped(reply, ReplyFields)
  BY <1>1 DEF Disk!NoReply, Shaped, ReplyFields
<1>10. ReplyInv
  BY <1>9 DEF ReplyInv, ReplyFields
<1> QED
  BY <1>1, <1>3, <1>5, <1>6, <1>7, <1>8, <1>10 DEF DiskInv, NumberedInv

LEMMA TakenStep == ASSUME DiskInv, Disk!Taken PROVE DiskInv' /\ Disk!LocksHold
<1>1. DrivesKept /\ cdemu' = cdemu /\ xfer' = xfer /\ ata' = ata /\ reply' = Disk!NoReply /\ Disk!Ready
  BY DEF Disk!Taken, DrivesKept, DiskInv
<1>2. CdemuInv' /\ XferInv' /\ ReplyInv'
  <2>1. CdemuInv'
    BY <1>1 DEF DiskInv, CdemuInv, Disk!Ready
  <2>2. XferInv'
    BY <1>1, NoCommand, DriveGoesOn, PacketGoesOn DEF DiskInv, XferInv
  <2> QED
    BY <1>1, <2>1, <2>2, NoReplyYet
<1> QED
  BY <1>1, <1>2, DrivesStay

LEMMA DetectLocks == ASSUME DiskInv, Disk!ata_detect PROVE Disk!LocksHold
  BY LocksStay DEF DiskInv, Disk!ata_detect

LEMMA DiskSteps == ASSUME DiskInv, Disk!DiskNext PROVE DiskInv' /\ Disk!LocksHold
  BY DetectStep, DetectLocks, BootStep, Int13Step, TakenStep, AtaStartsStep, AtaSectorStep, AtapiChunkStep, AtapiEndsStep
     DEF Disk!DiskNext

LEMMA DiskStays == ASSUME DiskInv, UNCHANGED diskV PROVE DiskInv' /\ Disk!LocksHold
<1>1. UNCHANGED <<machine, ata, locks, cdemu, floppies, status, xfer, reply>>
  BY DEF diskV, Disk!diskVars
<1>2. DrivesKept /\ ata' = ata /\ cdemu' = cdemu /\ reply' = reply /\ xfer' = xfer
  BY <1>1 DEF DrivesKept
<1>3. CdemuInv' /\ XferInv' /\ ReplyInv'
  <2>1. CdemuInv'
    BY <1>2 DEF DiskInv, CdemuInv, Disk!Ready
  <2>2. XferInv'
    BY <1>2, NoCommand, DriveGoesOn, PacketGoesOn DEF DiskInv, XferInv
  <2>3. ReplyInv'
    BY <1>2, ReplyStays DEF DiskInv
  <2> QED
    BY <2>1, <2>2, <2>3
<1> QED
  BY <1>2, <1>3, DrivesStay DEF DiskInv

LEMMA DiskInvariant == Spec => []DiskInv
<1>1. BiosInit(Parts) => DiskInv
  BY DiskStart DEF BiosInit
<1>2. DiskInv /\ [BiosNext]_biosVars => DiskInv'
  BY DiskSteps, DiskStays DEF BiosNext, biosVars
<1> QED
  BY <1>1, <1>2, PTL DEF Spec

LEMMA DiskSafe == DiskInv => Disk!GeometryOnDisk /\ Disk!TransferExact /\ Disk!EachDriveOnce
<1>1. DiskInv => Disk!GeometryOnDisk /\ Disk!EachDriveOnce
  BY GeometryHolds, DrivesHold DEF DiskInv
<1>2. DiskInv => Disk!TransferExact
  BY DEF DiskInv, ReplyInv, Disk!TransferExact
<1> QED
  BY <1>1, <1>2

\* INT 13h moves the sectors asked for between the drive and the addresses
\* asked for, within the geometry it reports; each drive has one number, and a
\* CD-ROM is let go as often as it was locked.
THEOREM BiosDiskExact == Spec => DiskExact
<1>1. DiskInv /\ [BiosNext]_biosVars =>
          [Disk!GeometryOnDisk /\ Disk!TransferExact /\ Disk!EachDriveOnce /\ Disk!LocksHold]_biosVars
  <2>1. ASSUME DiskInv, BiosNext PROVE Disk!LocksHold
    BY <2>1, DiskSteps, DiskStays DEF BiosNext
  <2> QED
    BY <2>1, DiskSafe
<1> QED
  BY <1>1, DiskInvariant, PTL DEF Spec, DiskExact

-----------------------------------------------------------------------------
(* The key buffer is a queue. *)

Places == 0 .. Slots - 1
Keys == Input!KeyCodes

LEMMA SlotsMany == Slots \in Nat \ {0, 1}
  BY InputAssumption

Buffer(k) == k.head \in Places /\ k.tail \in Places /\ k.mem \in [Places -> Keys]

Apart(k) == IF k.head <= k.tail THEN k.tail - k.head ELSE k.tail - k.head + Slots
Turned(x) == IF x < Slots THEN x ELSE x - Slots

LEMMA AfterTurns == ASSUME NEW x \in Places PROVE Input!After(x) = Turned(x + 1) /\ Input!After(x) \in Places
<1>2. (x + 1) % Slots = IF x + 1 < Slots THEN x + 1 ELSE x + 1 - Slots
  BY SlotsMany DEF Places
<1>3. Input!After(x) = Turned(x + 1)
  BY SlotsMany, <1>2 DEF Input!After, Turned, Places
<1> QED
  BY SlotsMany, <1>3 DEF Turned, Places

\* What waits, without the remainders.
LEMMA WaitingIs ==
    ASSUME NEW k, Buffer(k)
    PROVE  /\ Input!Waiting(k) = [i \in 1 .. Apart(k) |-> k.mem[Turned(k.head + i - 1)]]
           /\ Apart(k) \in Places
           /\ \A i \in 1 .. Apart(k) : Turned(k.head + i - 1) \in Places
<1> USE SlotsMany
<1> DEFINE h == k.head
           t == k.tail
<1>1. h \in Places /\ t \in Places
  BY DEF Buffer
<1> HIDE DEF h, t
<1>2. (t - h) % Slots = IF h <= t THEN t - h ELSE t - h + Slots
  <2>1. CASE h <= t
    BY <1>1, <2>1 DEF Places
  <2>2. CASE h > t
    BY <1>1, <2>2 DEF Places
  <2> QED
    BY <1>1, <2>1, <2>2 DEF Places
<1>3. (t - h) % Slots = Apart(k) /\ Apart(k) \in Places
  BY <1>1, <1>2 DEF Apart, Places, h, t
<1>4. \A i \in 1 .. Apart(k) : (h + i - 1) % Slots = Turned(h + i - 1) /\ Turned(h + i - 1) \in Places
  <2> TAKE i \in 1 .. Apart(k)
  <2>1. h \in 0 .. Slots - 1 /\ i \in 1 .. Slots - 1
    BY <1>1, <1>3 DEF Places
  <2> QED
    BY <2>1 DEF Turned, Places
<1> QED
  BY <1>3, <1>4 DEF Input!Waiting, h, t

LEMMA WaitingSeq ==
    ASSUME NEW k, Buffer(k)
    PROVE  /\ Input!Waiting(k) \in Seq(Keys) /\ Len(Input!Waiting(k)) = Apart(k)
           /\ \A i \in 1 .. Apart(k) : Input!Waiting(k)[i] = k.mem[Turned(k.head + i - 1)]
<1>1. \A i \in 1 .. Apart(k) : k.mem[Turned(k.head + i - 1)] \in Keys
  BY WaitingIs DEF Buffer
<1>2. Apart(k) \in Nat
  BY WaitingIs DEF Places
<1> QED
  BY WaitingIs, <1>1, <1>2, IsASeq

LEMMA EmptyIsEqual ==
    ASSUME NEW k, Buffer(k)
    PROVE  Input!Waiting(k) = <<>> <=> k.head = k.tail
<1>1. Apart(k) = 0 <=> k.head = k.tail
  BY SlotsMany DEF Apart, Buffer, Places
<1> QED
  BY <1>1, WaitingSeq

\* A key stored at the tail is the last of the queue, which had room.
LEMMA StoringAppends ==
    ASSUME NEW k, NEW l, Buffer(k), NEW key \in Keys, ~Input!Full(k.head, k.tail),
           l.head = k.head, l.tail = Input!After(k.tail), l.mem = [k.mem EXCEPT ![k.tail] = key]
    PROVE  /\ Buffer(l) /\ Len(Input!Waiting(k)) < Slots - 1
           /\ Input!Waiting(l) = Append(Input!Waiting(k), key)
<1> USE SlotsMany
<1>1. k.head \in Places /\ k.tail \in Places /\ k.mem \in [Places -> Keys]
  BY DEF Buffer
<1>2. l.tail = Turned(k.tail + 1) /\ l.tail \in Places /\ l.tail # k.head
  BY <1>1, AfterTurns DEF Input!Full
<1>3. Buffer(l)
  BY <1>1, <1>2 DEF Buffer
<1>4. Apart(l) = Apart(k) + 1 /\ Apart(k) < Slots - 1 /\ Apart(k) \in Nat
  BY <1>1, <1>2, SMTT(30) DEF Apart, Turned, Places
<1>5. Turned(k.head + Apart(l) - 1) = k.tail
  BY <1>1, <1>4, SMTT(30) DEF Apart, Turned, Places
<1>6. \A i \in 1 .. Apart(k) : Turned(k.head + i - 1) # k.tail /\ Turned(k.head + i - 1) \in Places
  BY <1>1 DEF Apart, Turned, Places
<1>7. /\ Input!Waiting(k) \in Seq(Keys) /\ Len(Input!Waiting(k)) = Apart(k)
      /\ Input!Waiting(l) \in Seq(Keys) /\ Len(Input!Waiting(l)) = Apart(l)
  BY <1>3, WaitingSeq
<1> DEFINE a == Append(Input!Waiting(k), key)
<1>8. a \in Seq(Keys) /\ Len(a) = Apart(l)
  BY <1>4, <1>7, AppendProperties
<1>9. \A i \in 1 .. Apart(l) : Input!Waiting(l)[i] = a[i]
  <2> TAKE i \in 1 .. Apart(l)
  <2>1. Input!Waiting(l)[i] = l.mem[Turned(k.head + i - 1)]
    <3>1. Input!Waiting(l)[i] = l.mem[Turned(l.head + i - 1)]
      BY <1>3, WaitingSeq
    <3> QED
      BY <3>1
  <2>2. CASE i = Apart(l)
    <3>1. a[i] = key
      BY <1>4, <1>7, <2>2, AppendProperties
    <3> QED
      BY <1>1, <1>5, <2>1, <2>2, <3>1
  <2>3. CASE i # Apart(l)
    <3>1. i \in 1 .. Apart(k)
      BY <1>4, <2>3
    <3>2. a[i] = Input!Waiting(k)[i]
      BY <1>4, <1>7, <3>1, AppendProperties
    <3>3. Input!Waiting(k)[i] = k.mem[Turned(k.head + i - 1)]
      BY <3>1, WaitingSeq
    <3> QED
      BY <1>1, <1>6, <2>1, <3>1, <3>2, <3>3
  <2> QED
    BY <2>2, <2>3
<1> HIDE DEF a
<1>10. Input!Waiting(l) = a
  BY <1>7, <1>8, <1>9, SeqEqual
<1> QED
  BY <1>3, <1>4, <1>7, <1>10 DEF a

\* Moving the head takes the first key.
LEMMA MovingTakes ==
    ASSUME NEW k, NEW l, Buffer(k), k.head # k.tail,
           l.head = Input!After(k.head), l.tail = k.tail, l.mem = k.mem
    PROVE  /\ Buffer(l) /\ Input!Waiting(k) # <<>> /\ Head(Input!Waiting(k)) = k.mem[k.head]
           /\ Input!Waiting(l) = Tail(Input!Waiting(k))
<1> USE SlotsMany
<1>1. k.head \in Places /\ k.tail \in Places /\ k.mem \in [Places -> Keys]
  BY DEF Buffer
<1>2. l.head = Turned(k.head + 1) /\ l.head \in Places
  BY <1>1, AfterTurns
<1>3. Buffer(l)
  BY <1>1, <1>2 DEF Buffer
<1>4. Apart(k) = Apart(l) + 1 /\ Apart(l) \in Nat /\ Turned(k.head) = k.head
  <2>1. Apart(k) = IF k.head <= k.tail THEN k.tail - k.head ELSE k.tail - k.head + Slots
    BY DEF Apart
  <2>2. Apart(l) = IF l.head <= k.tail THEN k.tail - l.head ELSE k.tail - l.head + Slots
    BY DEF Apart
  <2>3. PICK h \in Places, t \in Places, g \in Places :
            h = k.head /\ t = k.tail /\ g = l.head /\ g = Turned(h + 1) /\ h # t
    BY <1>1, <1>2
  <2> QED
    BY <2>1, <2>2, <2>3 DEF Turned, Places
<1>5. \A i \in 1 .. Apart(l) : Turned(l.head + i - 1) = Turned(k.head + (i + 1) - 1)
  <2> TAKE i \in 1 .. Apart(l)
  <2>1. Apart(l) <= Slots - 1
    BY <1>3, WaitingIs DEF Places
  <2>2. PICK h \in Places, g \in Places, n \in 0 .. Slots - 1 :
            h = k.head /\ g = l.head /\ g = Turned(h + 1) /\ n = Apart(l)
    BY <1>1, <1>2, <1>4, <2>1
  <2> QED
    BY <2>2 DEF Turned, Places
<1>6. /\ Input!Waiting(k) \in Seq(Keys) /\ Len(Input!Waiting(k)) = Apart(k)
      /\ Input!Waiting(l) \in Seq(Keys) /\ Len(Input!Waiting(l)) = Apart(l)
  BY <1>3, WaitingSeq
<1>7. Input!Waiting(k) # <<>>
  BY EmptyIsEqual
<1>8. Input!Waiting(k)[1] = k.mem[Turned(k.head + 1 - 1)]
  BY <1>4, WaitingSeq
<1>9. Head(Input!Waiting(k)) = k.mem[k.head]
  BY <1>1, <1>4, <1>6, <1>7, <1>8 DEF Places
<1> DEFINE r == Tail(Input!Waiting(k))
<1>10. r \in Seq(Keys) /\ Len(r) = Apart(l) /\ \A i \in 1 .. Apart(l) : r[i] = Input!Waiting(k)[i + 1]
  BY <1>4, <1>6, <1>7, HeadTailProperties
<1>11. \A i \in 1 .. Apart(l) : Input!Waiting(l)[i] = r[i]
  <2> TAKE i \in 1 .. Apart(l)
  <2>1. Input!Waiting(l)[i] = k.mem[Turned(l.head + i - 1)]
    BY <1>3, WaitingSeq
  <2>2. i + 1 \in 1 .. Apart(k)
    BY <1>4
  <2>3. Input!Waiting(k)[i + 1] = k.mem[Turned(k.head + (i + 1) - 1)]
    BY <2>2, WaitingSeq
  <2> QED
    BY <1>5, <1>10, <2>1, <2>3
<1> HIDE DEF r
<1>12. Input!Waiting(l) = r
  BY <1>6, <1>10, <1>11, SeqEqual
<1> QED
  BY <1>3, <1>7, <1>9, <1>12 DEF r

LEMMA SameWaiting ==
    ASSUME NEW k, NEW l, l.head = k.head, l.tail = k.tail, l.mem = k.mem
    PROVE  Input!Waiting(l) = Input!Waiting(k) /\ (Buffer(k) => Buffer(l))
  BY DEF Input!Waiting, Buffer

\* The buffer emptied, and the key of Ctrl-Break stored.
LEMMA BreakingLeaves ==
    ASSUME NEW k, NEW l, Buffer(k),
           l.head = k.head, l.tail = Input!After(k.head), l.mem = [k.mem EXCEPT ![k.head] = Input!BreakKey]
    PROVE  Buffer(l) /\ Input!Waiting(l) = <<Input!BreakKey>>
<1> DEFINE e == [head |-> k.head, tail |-> k.head, mem |-> k.mem]
<1>1. Buffer(e) /\ e.head = e.tail /\ e.head = k.head /\ e.mem = k.mem
  BY DEF Buffer
<1> HIDE DEF e
<1>2. Input!Waiting(e) = <<>>
  BY <1>1, EmptyIsEqual
<1>3. ~Input!Full(e.head, e.tail)
  BY <1>1, AfterTurns, SlotsMany DEF Buffer, Input!Full, Turned, Places
<1>4. Input!BreakKey \in Keys
  BY DEF Keys, Input!KeyCodes
<1>5. l.head = e.head /\ l.tail = Input!After(e.tail) /\ l.mem = [e.mem EXCEPT ![e.tail] = Input!BreakKey]
  BY <1>1
<1>6. Buffer(l) /\ Input!Waiting(l) = Append(Input!Waiting(e), Input!BreakKey)
  BY <1>1, <1>3, <1>4, <1>5, StoringAppends
<1> QED
  BY <1>2, <1>6

-----------------------------------------------------------------------------
(* What one byte of the keyboard does to the data area. *)

Answers == {250} \cup 400 .. 407
LockCodes == {58, 186, 69, 197}
ScrollCodes == {70, 198}
OwnCodes == {30, 71, 83, 158, 199, 211} \cup Answers
ModifierCodes == {42, 170, 54, 182, 29, 157, 56, 184}
Bytes == {224, 225} \cup LockCodes \cup ScrollCodes \cup OwnCodes \cup ModifierCodes

BdaFields == {"shift", "flags", "state", "leds", "head", "tail", "mem"}
Shape(k) == k = [f \in BdaFields |-> k[f]]

SameBuffer(k, l) == l.head = k.head /\ l.tail = k.tail /\ l.mem = k.mem
Stored(k, l) == \E key \in Keys : /\ ~Input!Full(k.head, k.tail)
                                  /\ l.head = k.head /\ l.tail = Input!After(k.tail)
                                  /\ l.mem = [k.mem EXCEPT ![k.tail] = key]
Emptied(k, l) == /\ l.head = k.head /\ l.tail = Input!After(k.head)
                 /\ l.mem = [k.mem EXCEPT ![k.head] = Input!BreakKey]

LocksOf(k) == k.shift \cap {"caps", "num", "scroll"}

\* What every byte does or leaves alone.
Effect(b, k, l) ==
    /\ Shape(l) /\ l.leds = k.leds
    /\ \/ SameBuffer(k, l)
       \/ b < 128 /\ Stored(k, l)
       \/ b = 70 /\ "e0" \in k.state /\ Emptied(k, l)
    /\ "e0" \in l.state => "e0" \in k.state \/ b = 224
    /\ b = 224 => "e0" \in l.state
    /\ (b \notin LockCodes /\ (b \in ScrollCodes => "e0" \in k.state)) => LocksOf(l) = LocksOf(k)

\* The prefixes forgotten at the end of a key are all it changes.
LEMMA EndEffect ==
    ASSUME NEW k, NEW m, NEW b, b # 224, Shape(k), Effect(b, k, m)
    PROVE  Effect(b, k, Input!EndOfKey(b, m))
<1> DEFINE l == Input!EndOfKey(b, m)
<1>0. Shape(m)
  BY DEF Effect
<1>1. /\ l.shift = m.shift /\ l.leds = m.leds /\ l.head = m.head /\ l.tail = m.tail /\ l.mem = m.mem
      /\ "e0" \notin l.state /\ Shape(l)
  <2> DEFINE x == IF b % 128 = 29 THEN m.state ELSE m.state \ {"e1"}
  <2>1. l = [m EXCEPT !.state = x \ {"e0"}]
    BY DEF Input!EndOfKey
  <2> HIDE DEF x, l
  <2> QED
    BY <1>0, <2>1 DEF Shape, BdaFields
<1> HIDE DEF l
<1>2. l.leds = k.leds /\ LocksOf(l) = LocksOf(m)
  BY <1>1 DEF LocksOf, Effect
<1>3. \/ SameBuffer(k, l)
      \/ b < 128 /\ Stored(k, l)
      \/ b = 70 /\ "e0" \in k.state /\ Emptied(k, l)
  <2>1. \/ SameBuffer(k, m)
        \/ b < 128 /\ Stored(k, m)
        \/ b = 70 /\ "e0" \in k.state /\ Emptied(k, m)
    BY DEF Effect
  <2>2. SameBuffer(k, m) => SameBuffer(k, l)
    BY <1>1 DEF SameBuffer
  <2>3. Stored(k, m) => Stored(k, l)
    BY <1>1 DEF Stored
  <2>4. Emptied(k, m) => Emptied(k, l)
    BY <1>1 DEF Emptied
  <2> QED
    BY <2>1, <2>2, <2>3, <2>4
<1> QED
  BY <1>1, <1>2, <1>3 DEF Effect, l

LEMMA NothingEffect == ASSUME NEW k, NEW b, b # 224, Shape(k) PROVE Effect(b, k, k)
  BY DEF Effect, SameBuffer

\* A change of flags, state and shift only.
LEMMA FlagEffect ==
    ASSUME NEW k, NEW l, NEW b, b # 224, SameBuffer(k, l), l.leds = k.leds, Shape(l),
           "e0" \in l.state => "e0" \in k.state,
           (b \notin LockCodes /\ (b \in ScrollCodes => "e0" \in k.state)) => LocksOf(l) = LocksOf(k)
    PROVE  Effect(b, k, l)
  BY DEF Effect

LEMMA EnqueueEffect ==
    ASSUME NEW k, NEW b, NEW key \in Keys, Shape(k), b \notin LockCodes, b # 224, b < 128
    PROVE  Effect(b, k, Input!enqueue_key(k, key))
<1>1. CASE Input!Full(k.head, k.tail)
  BY <1>1, NothingEffect DEF Input!enqueue_key
<1>2. CASE ~Input!Full(k.head, k.tail)
  <2> DEFINE l == Input!enqueue_key(k, key)
  <2>1. l = [k EXCEPT !.mem[k.tail] = key, !.tail = Input!After(@)]
    BY <1>2 DEF Input!enqueue_key
  <2>2. /\ l.head = k.head /\ l.tail = Input!After(k.tail) /\ l.mem = [k.mem EXCEPT ![k.tail] = key]
        /\ l.shift = k.shift /\ l.state = k.state /\ l.leds = k.leds /\ l.flags = k.flags /\ Shape(l)
    BY <2>1 DEF Shape, BdaFields
  <2> HIDE DEF l
  <2>3. Stored(k, l)
    BY <1>2, <2>2 DEF Stored
  <2> QED
    BY <2>2, <2>3 DEF Effect, LocksOf, l
<1> QED
  BY <1>1, <1>2

LEMMA OwnEffect ==
    ASSUME NEW k, NEW b \in OwnCodes, Shape(k)
    PROVE  Effect(b, k, Input!OtherKey(b, k))
<1>1. b \in Int /\ b # 224 /\ b \notin LockCodes
  BY DEF OwnCodes, Answers, LockCodes
<1>2. CASE ~Input!Down(b)
  BY <1>1, <1>2, NothingEffect, EndEffect DEF Input!OtherKey
<1>3. CASE Input!Down(b) /\ (b > Input!MAX_SCAN_CODE \/ ~Input!Known(b, Input!Column(b, k)))
  BY <1>1, <1>3, NothingEffect DEF Input!OtherKey
<1>4. CASE Input!Down(b) /\ ~(b > Input!MAX_SCAN_CODE \/ ~Input!Known(b, Input!Column(b, k)))
  <2>1. b \in {30, 71, 83} /\ b < 128
    BY <1>1, <1>4 DEF OwnCodes, Answers, Input!Down
  <2>2. Input!Column(b, k) \in {"normal", "shift", "control", "alt", "e0"}
    BY DEF Input!Column
  <2>3. DOMAIN Input!scan_to_scanascii = {30, 71, 83}
    BY DEF Input!scan_to_scanascii
  <2>4. <<b, Input!Column(b, k)>> \in Keys
    BY <2>1, <2>2, <2>3 DEF Keys, Input!KeyCodes
  <2>5. Effect(b, k, Input!enqueue_key(k, <<b, Input!Column(b, k)>>))
    BY <1>1, <2>1, <2>4, EnqueueEffect
  <2>6. Input!OtherKey(b, k) = Input!EndOfKey(b, Input!enqueue_key(k, <<b, Input!Column(b, k)>>))
    BY <1>4 DEF Input!OtherKey
  <2> QED
    BY <1>1, <2>5, <2>6, EndEffect
<1> QED
  BY <1>2, <1>3, <1>4

LEMMA ModifierEffect ==
    ASSUME NEW k, NEW b, b # 224, b \notin ScrollCodes, Shape(k)
    PROVE  /\ Effect(b, k, Input!Shift(b, k)) /\ Effect(b, k, Input!Ctrl(b, k))
           /\ Effect(b, k, Input!Alt(b, k))
           /\ b \in LockCodes => Effect(b, k, Input!CapsLock(b, k)) /\ Effect(b, k, Input!NumLock(b, k))
<1>1. Effect(b, k, Input!Shift(b, k))
  <2> DEFINE l == Input!Shift(b, k)
  <2>1. /\ SameBuffer(k, l) /\ l.leds = k.leds /\ Shape(l) /\ l.state = k.state
        /\ l.shift = Input!With(k.shift, IF b % 128 = 42 THEN "lshift" ELSE "rshift", Input!Down(b))
    BY DEF Input!Shift, Shape, BdaFields, SameBuffer
  <2> HIDE DEF l
  <2>2. LocksOf(l) = LocksOf(k)
    BY <2>1 DEF LocksOf, Input!With
  <2>3. Effect(b, k, l)
    BY <2>1, <2>2, FlagEffect
  <2> QED
    BY <2>3 DEF l
<1>2. Effect(b, k, Input!Ctrl(b, k))
  <2>1. CASE "e1" \in k.state
    BY <2>1, NothingEffect DEF Input!Ctrl
  <2>2. CASE "e1" \notin k.state
    <3> DEFINE l == Input!Ctrl(b, k)
    <3>1. /\ SameBuffer(k, l) /\ l.leds = k.leds /\ Shape(l)
          /\ l.shift = Input!With(k.shift, "ctrl", Input!Down(b))
          /\ l.state = IF "e0" \in k.state THEN Input!With(k.state, "rctrl", Input!Down(b)) ELSE k.state
      BY <2>2 DEF Input!Ctrl, Shape, BdaFields, SameBuffer
    <3> HIDE DEF l
    <3>2. LocksOf(l) = LocksOf(k) /\ ("e0" \in l.state => "e0" \in k.state)
      BY <3>1 DEF LocksOf, Input!With
    <3>3. Effect(b, k, l)
      BY <3>1, <3>2, FlagEffect
    <3> QED
      BY <3>3 DEF l
  <2> QED
    BY <2>1, <2>2
<1>3. Effect(b, k, Input!Alt(b, k))
  <2> DEFINE l == Input!Alt(b, k)
  <2>1. /\ SameBuffer(k, l) /\ l.leds = k.leds /\ Shape(l)
        /\ l.shift = Input!With(k.shift, "alt", Input!Down(b))
        /\ l.state = IF "e0" \in k.state THEN Input!With(k.state, "ralt", Input!Down(b)) ELSE k.state
    BY DEF Input!Alt, Shape, BdaFields, SameBuffer
  <2> HIDE DEF l
  <2>2. LocksOf(l) = LocksOf(k) /\ ("e0" \in l.state => "e0" \in k.state)
    BY <2>1 DEF LocksOf, Input!With
  <2>3. Effect(b, k, l)
    BY <2>1, <2>2, FlagEffect
  <2> QED
    BY <2>3 DEF l
<1>4. ASSUME b \in LockCodes PROVE Effect(b, k, Input!CapsLock(b, k))
  <2> DEFINE l == Input!CapsLock(b, k)
  <2>1. SameBuffer(k, l) /\ l.leds = k.leds /\ Shape(l) /\ l.state = k.state
    BY DEF Input!CapsLock, Shape, BdaFields, SameBuffer
  <2> HIDE DEF l
  <2>2. Effect(b, k, l)
    BY <1>4, <2>1, FlagEffect
  <2> QED
    BY <2>2 DEF l
<1>5. ASSUME b \in LockCodes PROVE Effect(b, k, Input!NumLock(b, k))
  <2> DEFINE l == Input!NumLock(b, k)
  <2>1. SameBuffer(k, l) /\ l.leds = k.leds /\ Shape(l) /\ l.state = k.state
    BY DEF Input!NumLock, Shape, BdaFields, SameBuffer
  <2> HIDE DEF l
  <2>2. Effect(b, k, l)
    BY <1>5, <2>1, FlagEffect
  <2> QED
    BY <2>2 DEF l
<1> QED
  BY <1>1, <1>2, <1>3, <1>4, <1>5

LEMMA ScrollEffect ==
    ASSUME NEW k, NEW b \in ScrollCodes, Shape(k), k.head \in Places
    PROVE  Effect(b, k, Input!ScrollLock(b, k))
<1>1. b \in Int /\ b # 224 /\ b \notin LockCodes /\ (b < 128 <=> b = 70)
  BY DEF ScrollCodes, LockCodes
<1>2. CASE Input!CtrlBreak(k) /\ Input!Down(b)
  <2> DEFINE m == [k EXCEPT !.state = @ \ {"e0"}, !.tail = k.head]
             l == Input!ScrollLock(b, k)
  <2>1. l = Input!enqueue_key(m, Input!BreakKey)
    BY <1>2 DEF Input!ScrollLock
  <2>2. /\ m.head = k.head /\ m.tail = k.head /\ m.mem = k.mem /\ m.leds = k.leds /\ m.shift = k.shift
        /\ "e0" \notin m.state /\ Shape(m)
    BY DEF Shape, BdaFields
  <2> HIDE DEF m
  <2>3. ~Input!Full(m.head, m.tail)
    <3>1. PICK h \in Places : h = k.head
      OBVIOUS
    <3>2. Input!After(h) # h
      BY AfterTurns, SlotsMany DEF Turned, Places
    <3> QED
      BY <2>2, <3>1, <3>2 DEF Input!Full
  <2>4. l = [m EXCEPT !.mem[m.tail] = Input!BreakKey, !.tail = Input!After(@)]
    BY <2>1, <2>3 DEF Input!enqueue_key
  <2>5. /\ l.head = k.head /\ l.tail = Input!After(k.head)
        /\ l.mem = [k.mem EXCEPT ![k.head] = Input!BreakKey]
        /\ l.shift = k.shift /\ l.leds = k.leds /\ l.state = m.state /\ Shape(l)
    BY <2>2, <2>4 DEF Shape, BdaFields
  <2> HIDE DEF l
  <2>6. Emptied(k, l) /\ b = 70 /\ "e0" \in k.state
    BY <1>1, <1>2, <2>5 DEF Emptied, Input!CtrlBreak, Input!Down
  <2> QED
    BY <1>1, <2>2, <2>5, <2>6 DEF Effect, LocksOf, l
<1>3. CASE Input!CtrlBreak(k) /\ ~Input!Down(b)
  BY <1>1, <1>3, NothingEffect DEF Input!ScrollLock
<1>4. CASE ~Input!CtrlBreak(k)
  <2> DEFINE l == Input!ScrollLock(b, k)
  <2>1. SameBuffer(k, l) /\ l.leds = k.leds /\ Shape(l) /\ l.state = k.state
    BY <1>4 DEF Input!ScrollLock, Shape, BdaFields, SameBuffer
  <2> HIDE DEF l
  <2>2. Effect(b, k, l)
    BY <1>1, <1>4, <2>1, FlagEffect DEF Input!CtrlBreak
  <2> QED
    BY <2>2 DEF l
<1> QED
  BY <1>2, <1>3, <1>4

LEMMA ByteEffect ==
    ASSUME NEW k, NEW b \in Bytes, Shape(k), k.head \in Places
    PROVE  Effect(b, k, Input!int09_function(b, k))
<1> DEFINE l == Input!int09_function(b, k)
<1>1. CASE b = 224
  <2>1. l = [k EXCEPT !.state = @ \cup {"e0"}]
    BY <1>1 DEF Input!int09_function
  <2> HIDE DEF l
  <2>2. SameBuffer(k, l) /\ l.leds = k.leds /\ l.shift = k.shift /\ l.state = k.state \cup {"e0"} /\ Shape(l)
    BY <2>1 DEF Shape, BdaFields, SameBuffer
  <2>3. Effect(b, k, l)
    BY <1>1, <2>2 DEF Effect, LocksOf
  <2> QED
    BY <2>3 DEF l
<1>2. CASE b = 225
  <2>1. l = [k EXCEPT !.state = @ \cup {"e1"}]
    BY <1>2 DEF Input!int09_function
  <2> HIDE DEF l
  <2>2. SameBuffer(k, l) /\ l.leds = k.leds /\ l.shift = k.shift /\ l.state = k.state \cup {"e1"} /\ Shape(l)
    BY <2>1 DEF Shape, BdaFields, SameBuffer
  <2>3. LocksOf(l) = LocksOf(k) /\ ("e0" \in l.state => "e0" \in k.state)
    BY <2>2 DEF LocksOf
  <2>4. Effect(b, k, l)
    BY <1>2, <2>2, <2>3, FlagEffect
  <2> QED
    BY <2>4 DEF l
<1>3. CASE b \in {58, 186}
  <2>1. l = Input!EndOfKey(b, Input!CapsLock(b, k))
    BY <1>3 DEF Input!int09_function
  <2>2. b # 224 /\ b \notin ScrollCodes /\ b \in LockCodes
    BY <1>3 DEF ScrollCodes, LockCodes
  <2> QED
    BY <2>1, <2>2, ModifierEffect, EndEffect
<1>4. CASE b \in {42, 54, 170, 182}
  <2>1. l = Input!EndOfKey(b, Input!Shift(b, k))
    BY <1>4 DEF Input!int09_function
  <2>2. b # 224 /\ b \notin ScrollCodes
    BY <1>4 DEF ScrollCodes
  <2> QED
    BY <2>1, <2>2, ModifierEffect, EndEffect
<1>5. CASE b \in {29, 157}
  <2>1. l = Input!EndOfKey(b, Input!Ctrl(b, k))
    BY <1>5 DEF Input!int09_function
  <2>2. b # 224 /\ b \notin ScrollCodes
    BY <1>5 DEF ScrollCodes
  <2> QED
    BY <2>1, <2>2, ModifierEffect, EndEffect
<1>6. CASE b \in {56, 184}
  <2>1. l = Input!EndOfKey(b, Input!Alt(b, k))
    BY <1>6 DEF Input!int09_function
  <2>2. b # 224 /\ b \notin ScrollCodes
    BY <1>6 DEF ScrollCodes
  <2> QED
    BY <2>1, <2>2, ModifierEffect, EndEffect
<1>7. CASE b \in {69, 197}
  <2>1. l = Input!EndOfKey(b, Input!NumLock(b, k))
    BY <1>7 DEF Input!int09_function
  <2>2. b # 224 /\ b \notin ScrollCodes /\ b \in LockCodes
    BY <1>7 DEF ScrollCodes, LockCodes
  <2> QED
    BY <2>1, <2>2, ModifierEffect, EndEffect
<1>8. CASE b \in ScrollCodes
  <2>1. l = Input!EndOfKey(b, Input!ScrollLock(b, k))
    BY <1>8 DEF Input!int09_function, ScrollCodes
  <2>2. b # 224
    BY <1>8 DEF ScrollCodes
  <2> QED
    BY <1>8, <2>1, <2>2, ScrollEffect, EndEffect
<1>9. CASE b \in OwnCodes
  <2>1. l = Input!OtherKey(b, k)
    BY <1>9 DEF Input!int09_function, OwnCodes, Answers
  <2> QED
    BY <1>9, <2>1, OwnEffect
<1> QED
  BY <1>1, <1>2, <1>3, <1>4, <1>5, <1>6, <1>7, <1>8, <1>9 DEF Bytes, LockCodes, ModifierCodes

-----------------------------------------------------------------------------
(* The invariant. *)

NoE0(w) == w.keys \cap E0Keys = {}
NoLocks(w) == w.keys \cap LockKeys = {} /\ w.calls15 = {}

\* The bytes the controller may hold.
Sendable(w) == {b \in Bytes : /\ w.keys = {} => b \in Answers
                              /\ NoE0(w) => b # 224
                              /\ NoLocks(w) => b \notin LockCodes}

\* A code of Break or of the scroll key follows its prefix.
Prefixed(f, state) == \A i \in 1 .. Len(f) : f[i] \in ScrollCodes =>
                          IF i = 1 THEN "e0" \in state ELSE f[i - 1] = 224

KbcFields == {"kf", "mf", "obf", "irq1", "irq12", "auxoff"}
KbcInv == kbc = [f \in KbcFields |-> kbc[f]] /\ kbc.kf \in Seq(Sendable(work))

BdaInv == Shape(bda) /\ Buffer(bda) /\ (NoE0(work) => "e0" \notin bda.state)

CpuFields == {"pc", "call", "if", "key", "script", "comm", "data"}
Serving == {"wait", "leds", "ack", "set", "serve", "step", "put"}
CpuInv ==
    /\ cpu = [f \in CpuFields |-> cpu[f]] /\ cpu.pc \in Serving \cup {"idle", "script"}
    /\ cpu.pc \in Serving => cpu.call \in work.calls16
    /\ cpu.pc \in {"wait", "step"} => Input!Reads(cpu.call)
    /\ cpu.pc = "put" => cpu.call.ah = 5

\* A key that was read is still the first, and a place that was chosen the last.
HoldInv ==
    /\ cpu.pc = "step" => bda.head # bda.tail /\ cpu.key = <<bda.mem[bda.head]>>
    /\ cpu.pc = "put" => cpu.data = bda.tail /\ ~Input!Full(bda.head, bda.tail)

\* With no key that has a light, none is ever set, and a call that reads keeps
\* interrupts off once it found a key.
LocksInv ==
    NoLocks(work) =>
        /\ bda.leds = {} /\ LocksOf(bda) = {} /\ Prefixed(kbc.kf, bda.state)
        /\ cpu.pc \notin {"ack", "set", "script"}
        /\ cpu.pc \in {"leds", "serve", "step"} /\ Input!Reads(cpu.call) => ~cpu.if

InputInv == work \in Works /\ BdaInv /\ KbcInv /\ CpuInv /\ HoldInv /\ LocksInv

QueueStep == Input!Queue!Next \/ UNCHANGED <<Input!Waiting(bda), given>>

\* What a step leaves alone.
LEMMA QueueSame ==
    ASSUME SameBuffer(bda, bda'), given' = given PROVE QueueStep
  BY DEF QueueStep, SameBuffer, Input!Waiting

LEMMA AnswersSendable == Answers \subseteq Sendable(work)
  BY DEF Answers, Sendable, Bytes, LockCodes, OwnCodes

LEMMA AckSent == <<Input!ACK>> \in Seq(Sendable(work))
<1>1. Input!ACK \in Sendable(work)
  BY AnswersSendable DEF Answers, Input!ACK
<1> QED
  BY <1>1

\* Reading port 60h.
LEMMA Taking ==
    ASSUME KbcInv
    PROVE  /\ Input!TakeByte(kbc) = [f \in KbcFields |-> Input!TakeByte(kbc)[f]]
           /\ Input!TakeByte(kbc).kf \in Seq(Sendable(work))
           /\ kbc.obf = "mouse" => Input!TakeByte(kbc).kf = kbc.kf
           /\ kbc.obf = "keyb" /\ kbc.kf # <<>> => Input!TakeByte(kbc).kf = Tail(kbc.kf)
<1> DEFINE t == Input!TakeByte(kbc)
<1>1. /\ t = [f \in KbcFields |-> t[f]]
      /\ t.kf = IF kbc.obf = "keyb" /\ kbc.kf # <<>> THEN Tail(kbc.kf) ELSE kbc.kf
  BY DEF Input!TakeByte, KbcInv, KbcFields
<1> HIDE DEF t
<1>2. kbc.kf # <<>> => Tail(kbc.kf) \in Seq(Sendable(work))
  BY HeadTailProperties DEF KbcInv
<1>3. kbc.kf \in Seq(Sendable(work))
  BY DEF KbcInv
<1>4. t.kf \in Seq(Sendable(work))
  BY <1>1, <1>2, <1>3
<1> QED
  BY <1>1, <1>4 DEF t

\* One part after another, for a step that leaves the menu and the buffer alone.
LEMMA BdaStays == ASSUME InputInv, bda' = bda, work' = work PROVE (work \in Works /\ BdaInv)'
  BY DEF InputInv, BdaInv, Shape, Buffer, NoE0

LEMMA InputStays == ASSUME InputInv, UNCHANGED inputV PROVE InputInv' /\ QueueStep
<1>1. work' = work /\ bda' = bda /\ kbc' = kbc /\ cpu' = cpu /\ given' = given
  BY DEF inputV
<1>2. (work \in Works /\ BdaInv)'
  BY <1>1, BdaStays
<1>3. KbcInv'
  BY <1>1 DEF InputInv, KbcInv, Sendable, NoE0, NoLocks
<1>4. CpuInv'
  BY <1>1 DEF InputInv, CpuInv
<1>5. HoldInv'
  BY <1>1 DEF InputInv, HoldInv
<1>6. LocksInv'
  BY <1>1 DEF InputInv, LocksInv, NoLocks, LocksOf, Prefixed
<1> QED
  BY <1>1, <1>2, <1>3, <1>4, <1>5, <1>6, QueueSame DEF InputInv, SameBuffer

\* A step of the controller only.
LEMMA KbcStep ==
    ASSUME InputInv, KbcInv', NoLocks(work) => Prefixed(kbc'.kf, bda.state),
           UNCHANGED <<work, bda, cpu, given>>
    PROVE  InputInv' /\ QueueStep
<1>2. (work \in Works /\ BdaInv)'
  BY BdaStays
<1>4. CpuInv'
  BY DEF InputInv, CpuInv
<1>5. HoldInv'
  BY DEF InputInv, HoldInv
<1>6. LocksInv'
  BY DEF InputInv, LocksInv, NoLocks, LocksOf
<1> QED
  BY <1>2, <1>4, <1>5, <1>6, QueueSame DEF InputInv, SameBuffer

\* A step of the program in INT 15h.
LEMMA ScriptStep ==
    ASSUME InputInv, cpu.pc = "script", KbcInv', UNCHANGED <<work, bda, given>>,
           cpu' = [f \in CpuFields |-> cpu'[f]], cpu'.pc \in {"idle", "script"}
    PROVE  InputInv' /\ QueueStep
<1>1. ~NoLocks(work)
  BY DEF InputInv, LocksInv
<1>2. (work \in Works /\ BdaInv)'
  BY BdaStays
<1>3. CpuInv' /\ HoldInv'
  BY DEF CpuInv, HoldInv, Serving
<1>4. LocksInv'
  BY <1>1 DEF LocksInv, NoLocks
<1> QED
  BY <1>2, <1>3, <1>4, QueueSame DEF InputInv, SameBuffer

-----------------------------------------------------------------------------
(* Keys and the mouse. *)

LEMMA OfferStep == ASSUME InputInv, Input!Offer PROVE InputInv' /\ QueueStep
<1>1. \E x \in {"mouse", "keyb"} : kbc' = [kbc EXCEPT !.obf = x]
  BY DEF Input!Offer
<1>2. kbc' = [f \in KbcFields |-> kbc'[f]] /\ kbc'.kf = kbc.kf
  BY <1>1 DEF InputInv, KbcInv, KbcFields
<1>3. UNCHANGED <<work, bda, cpu, given>>
  BY DEF Input!Offer
<1>4. KbcInv'
  BY <1>2, <1>3 DEF InputInv, KbcInv, Sendable, NoE0, NoLocks
<1> QED
  BY <1>2, <1>3, <1>4, KbcStep DEF InputInv, LocksInv

LEMMA MouseStep == ASSUME InputInv, Input!MouseMoves PROVE InputInv' /\ QueueStep
<1>1. \E x : kbc' = [kbc EXCEPT !.mf = x]
  BY DEF Input!MouseMoves
<1>2. kbc' = [f \in KbcFields |-> kbc'[f]] /\ kbc'.kf = kbc.kf
  BY <1>1 DEF InputInv, KbcInv, KbcFields
<1>3. UNCHANGED <<work, bda, cpu, given>>
  BY DEF Input!MouseMoves
<1>4. KbcInv'
  BY <1>2, <1>3 DEF InputInv, KbcInv, Sendable, NoE0, NoLocks
<1> QED
  BY <1>2, <1>3, <1>4, KbcStep DEF InputInv, LocksInv

LEMMA int74Step == ASSUME InputInv, Input!int74 PROVE InputInv' /\ QueueStep
<1>1. kbc' = Input!TakeByte(kbc) /\ kbc.obf = "mouse" /\ UNCHANGED <<work, bda, cpu, given>>
  BY DEF Input!int74
<1>2. KbcInv
  BY DEF InputInv
<1>3. KbcInv' /\ kbc'.kf = kbc.kf
  BY <1>1, <1>2, Taking DEF KbcInv, Sendable, NoE0, NoLocks
<1> QED
  BY <1>1, <1>3, KbcStep DEF InputInv, LocksInv

\* The codes of a key, pressed or let go.
LEMMA CodesOfKey ==
    ASSUME NEW w, w.keys \subseteq DOMAIN Input!Press, NEW key \in w.keys,
           NEW codes \in {Input!Press[key], Input!Release(key)}
    PROVE  /\ codes \in Seq(Sendable(w))
           /\ NoLocks(w) => \A i \in 1 .. Len(codes) : codes[i] \in ScrollCodes => i > 1 /\ codes[i - 1] = 224
<1>1. key \in {"a", "home", "kp7", "lctrl", "rctrl", "lshift", "rshift", "lalt", "ralt", "caps", "num",
               "scroll", "break", "pause", "del"}
  BY DEF Input!Press
<1>2. w.keys # {}
  OBVIOUS
<1>3. CASE key \notin E0Keys \cup {"pause"}
  <2>1. PICK b \in {30, 71, 29, 42, 54, 56, 58, 69, 70, 83} :
            /\ Input!Press[key] = <<b>> /\ (b \in {58, 69, 70} => key \in LockKeys)
    BY <1>1, <1>3 DEF Input!Press, E0Keys, LockKeys
  <2>2. Input!Release(key) = <<b + 128>>
    BY <1>3, <2>1 DEF Input!Release, E0Keys
  <2>3. b \in Sendable(w) /\ b + 128 \in Sendable(w)
    BY <1>2, <2>1 DEF Sendable, NoLocks, Bytes, LockCodes, ScrollCodes, OwnCodes, ModifierCodes
  <2>4. NoLocks(w) => b \notin ScrollCodes /\ b + 128 \notin ScrollCodes
    BY <2>1 DEF NoLocks, ScrollCodes
  <2>5. PICK x \in Sendable(w) : codes = <<x>> /\ (NoLocks(w) => x \notin ScrollCodes)
    BY <2>1, <2>2, <2>3, <2>4
  <2>6. codes \in Seq(Sendable(w)) /\ Len(codes) = 1 /\ codes[1] = x
    BY <2>5
  <2> QED
    BY <2>5, <2>6
<1>4. CASE key \in {"home", "rctrl", "ralt"}
  <2>1. PICK b \in {71, 29, 56} : Input!Press[key] = <<224, b>>
    BY <1>4 DEF Input!Press
  <2>2. Input!Release(key) = <<224, b + 128>>
    BY <1>4, <2>1 DEF Input!Release
  <2>3. 224 \in Sendable(w) /\ b \in Sendable(w) /\ b + 128 \in Sendable(w)
    BY <1>2, <1>4, <2>1 DEF Sendable, NoE0, E0Keys, NoLocks, Bytes, LockCodes, ScrollCodes, OwnCodes, ModifierCodes
  <2>4. b \notin ScrollCodes /\ b + 128 \notin ScrollCodes /\ 224 \notin ScrollCodes
    BY <2>1 DEF ScrollCodes
  <2>5. PICK x \in Sendable(w) : codes = <<224, x>> /\ x \notin ScrollCodes
    BY <2>1, <2>2, <2>3, <2>4
  <2>6. codes \in Seq(Sendable(w)) /\ Len(codes) = 2 /\ codes[1] = 224 /\ codes[2] = x
    BY <2>3, <2>5
  <2>7. \A i \in 1 .. 2 : codes[i] \notin ScrollCodes
    BY <2>4, <2>5, <2>6
  <2> QED
    BY <2>6, <2>7
<1>5. CASE key = "break"
  <2>1. Input!Press[key] = <<224, 70, 224, 198>> /\ Input!Release(key) = <<>>
    BY <1>5 DEF Input!Press, Input!Release
  <2>2. 224 \in Sendable(w) /\ 70 \in Sendable(w) /\ 198 \in Sendable(w) /\ 224 \notin ScrollCodes
    BY <1>2, <1>5 DEF Sendable, NoE0, E0Keys, NoLocks, Bytes, LockCodes, ScrollCodes, OwnCodes, ModifierCodes
  <2>3. <<>> \in Seq(Sendable(w)) /\ Len(<<>>) = 0
    OBVIOUS
  <2>4. CASE codes = Input!Press[key]
    <3>1. /\ codes \in Seq(Sendable(w)) /\ Len(codes) = 4
          /\ codes[1] = 224 /\ codes[2] = 70 /\ codes[3] = 224 /\ codes[4] = 198
      BY <2>1, <2>2, <2>4
    <3> QED
      BY <2>2, <3>1
  <2>5. CASE codes = <<>>
    <3>1. codes \in Seq(Sendable(w)) /\ Len(codes) = 0
      BY <2>3, <2>5
    <3> QED
      BY <3>1
  <2> QED
    BY <2>1, <2>4, <2>5
<1>6. CASE key = "pause"
  <2>1. Input!Press[key] = <<225, 29, 69, 225, 157, 197>> /\ Input!Release(key) = <<>> /\ ~NoLocks(w)
    BY <1>6 DEF Input!Press, Input!Release, NoLocks, LockKeys
  <2>2. {225, 29, 69, 157, 197} \subseteq Sendable(w)
    BY <1>2, <2>1 DEF Sendable, Bytes, LockCodes, ScrollCodes, OwnCodes, ModifierCodes
  <2>3. <<225, 29, 69, 225, 157, 197>> \in Seq(Sendable(w)) /\ <<>> \in Seq(Sendable(w))
    BY <2>2
  <2> QED
    BY <2>1, <2>3
<1> QED
  BY <1>1, <1>3, <1>4, <1>5, <1>6 DEF E0Keys

LEMMA KeyStep == ASSUME InputInv, Input!KeyMoves PROVE InputInv' /\ QueueStep
<1>1. PICK key \in work.keys : \E codes \in {Input!Press[key], Input!Release(key)} :
          kbc' = [kbc EXCEPT !.kf = @ \o codes]
  BY DEF Input!KeyMoves, Input!PutKeyb
<1> PICK codes \in {Input!Press[key], Input!Release(key)} : kbc' = [kbc EXCEPT !.kf = @ \o codes]
  BY <1>1
<1>2. UNCHANGED <<work, bda, cpu, given>>
  BY DEF Input!KeyMoves
<1>3. work.keys \subseteq DOMAIN Input!Press
  BY InputAssumption DEF InputInv
<1>4. /\ codes \in Seq(Sendable(work))
      /\ NoLocks(work) => \A i \in 1 .. Len(codes) : codes[i] \in ScrollCodes => i > 1 /\ codes[i - 1] = 224
  BY <1>3, CodesOfKey
<1>5. kbc' = [f \in KbcFields |-> kbc'[f]] /\ kbc'.kf = kbc.kf \o codes
  BY <1>1 DEF InputInv, KbcInv, KbcFields
<1> DEFINE f == kbc.kf
           g == kbc'.kf
<1>6. f \in Seq(Sendable(work))
  BY DEF InputInv, KbcInv
<1> HIDE DEF f
<1>7. /\ g \in Seq(Sendable(work)) /\ Len(g) = Len(f) + Len(codes)
      /\ \A i \in 1 .. Len(f) + Len(codes) : g[i] = IF i <= Len(f) THEN f[i] ELSE codes[i - Len(f)]
  BY <1>4, <1>5, <1>6, ConcatProperties DEF f
<1> HIDE DEF g
<1>8. KbcInv'
  BY <1>2, <1>5, <1>7 DEF KbcInv, Sendable, NoE0, NoLocks, g
<1>9. ASSUME NoLocks(work) PROVE Prefixed(g, bda.state)
  <2>1. Prefixed(f, bda.state)
    BY <1>9 DEF InputInv, LocksInv, f
  <2>2. SUFFICES ASSUME NEW i \in 1 .. Len(g), g[i] \in ScrollCodes
                 PROVE  IF i = 1 THEN "e0" \in bda.state ELSE g[i - 1] = 224
    BY DEF Prefixed
  <2>3. Len(f) \in Nat /\ Len(codes) \in Nat
    BY <1>4, <1>6
  <2>4. CASE i <= Len(f)
    <3>1. i \in 1 .. Len(f) /\ f[i] \in ScrollCodes
      BY <1>7, <2>2, <2>3, <2>4
    <3>2. IF i = 1 THEN "e0" \in bda.state ELSE f[i - 1] = 224
      BY <2>1, <3>1 DEF Prefixed
    <3> QED
      BY <1>7, <2>3, <3>1, <3>2
  <2>5. CASE i > Len(f)
    <3>1. i - Len(f) \in 1 .. Len(codes) /\ codes[i - Len(f)] \in ScrollCodes
      BY <1>7, <2>2, <2>3, <2>5
    <3>2. i - Len(f) > 1 /\ codes[(i - Len(f)) - 1] = 224
      BY <1>4, <1>9, <3>1
    <3>3. i - 1 \in 1 .. Len(f) + Len(codes) /\ i - 1 > Len(f) /\ (i - 1) - Len(f) = (i - Len(f)) - 1
      BY <1>7, <2>2, <2>3, <3>2
    <3> QED
      BY <1>7, <2>3, <3>2, <3>3
  <2> QED
    BY <2>3, <2>4, <2>5
<1> QED
  BY <1>2, <1>8, <1>9, KbcStep DEF g

-----------------------------------------------------------------------------
(* INT 09h. *)

LEMMA RebootStep ==
    ASSUME InputInv, bda' = Input!Fresh, cpu' = Input!Idle, given' = <<>>, work' = work,
           kbc' = [Input!TakeByte(kbc) EXCEPT !.kf = <<>>]
    PROVE  InputInv' /\ QueueStep
<1>1. /\ Shape(bda') /\ bda'.state = {} /\ bda'.leds = {} /\ bda'.shift = {} /\ bda'.head = 0 /\ bda'.tail = 0
      /\ bda'.mem \in [Places -> Keys]
  <2>1. /\ Shape(bda') /\ bda'.state = {} /\ bda'.leds = {} /\ bda'.shift = {} /\ bda'.head = 0 /\ bda'.tail = 0
        /\ bda'.mem = [i \in 0 .. Slots - 1 |-> Input!BreakKey]
    BY DEF Input!Fresh, Shape, BdaFields
  <2>2. Input!BreakKey \in Keys
    BY DEF Keys, Input!KeyCodes
  <2> QED
    BY <2>1, <2>2 DEF Places
<1>2. Buffer(bda') /\ (work \in Works)'
  BY <1>1, SlotsMany DEF Buffer, Places, InputInv
<1>3. BdaInv'
  BY <1>1, <1>2 DEF BdaInv
<1>4. kbc' = [f \in KbcFields |-> kbc'[f]] /\ kbc'.kf = <<>>
  BY Taking DEF InputInv, KbcFields
<1>5. KbcInv'
  BY <1>4 DEF KbcInv
<1>6. cpu' = [f \in CpuFields |-> cpu'[f]] /\ cpu'.pc = "idle"
  BY DEF Input!Idle, CpuFields
<1>7. CpuInv' /\ HoldInv'
  BY <1>6 DEF CpuInv, HoldInv, Serving
<1>8. Prefixed(kbc'.kf, bda'.state)
  BY <1>4 DEF Prefixed
<1>9. LocksInv'
  BY <1>1, <1>6, <1>8 DEF LocksInv, LocksOf, NoLocks
<1>10. Input!Waiting(bda') = <<>>
  BY <1>1, <1>2, EmptyIsEqual
<1>11. Input!Queue!Restarted
  BY <1>10 DEF Input!Queue!Restarted
<1> QED
  BY <1>2, <1>3, <1>5, <1>7, <1>9, <1>11 DEF InputInv, QueueStep, Input!Queue!Next

\* The byte, and what it does to the buffer.
LEMMA ByteStep ==
    ASSUME InputInv, NEW b \in Sendable(work), Effect(b, bda, bda'), UNCHANGED <<work, cpu, given>>,
           cpu.if, b \in ScrollCodes /\ NoLocks(work) => "e0" \in bda.state
    PROVE  /\ QueueStep /\ (work \in Works /\ BdaInv /\ CpuInv /\ HoldInv)'
           /\ NoLocks(work) => bda'.leds = {} /\ LocksOf(bda') = {}
<1>1. b \in Bytes /\ (work.keys = {} => b \in Answers) /\ (NoE0(work) => b # 224)
      /\ (NoLocks(work) => b \notin LockCodes)
  BY DEF Sendable
<1>2. Shape(bda) /\ Buffer(bda) /\ Shape(bda') /\ (NoE0(work) => "e0" \notin bda.state) /\ work \in Works
  BY DEF InputInv, BdaInv, Effect
<1>3. NoE0(work) => "e0" \notin bda'.state
  BY <1>1, <1>2 DEF Effect
<1>4. CpuInv'
  BY DEF InputInv, CpuInv
<1>5. ASSUME NoLocks(work) PROVE bda'.leds = {} /\ LocksOf(bda') = {}
  BY <1>1, <1>5 DEF Effect, InputInv, LocksInv
<1>6. ASSUME Buffer(bda'), QueueStep, HoldInv' PROVE QueueStep /\ (work \in Works /\ BdaInv /\ CpuInv /\ HoldInv)'
  BY <1>2, <1>3, <1>4, <1>6 DEF BdaInv, NoE0
<1>7. cpu.pc = "put" => b >= 128
  <2>1. ASSUME cpu.pc = "put" PROVE work.keys = {}
    BY <2>1, InputAssumption DEF InputInv, CpuInv, Serving
  <2> QED
    BY <1>1, <2>1 DEF Answers
<1>8. CASE SameBuffer(bda, bda')
  <2>1. Buffer(bda')
    BY <1>2, <1>8, SameWaiting DEF SameBuffer
  <2>2. QueueStep
    BY <1>8, QueueSame
  <2>3. HoldInv'
    BY <1>8 DEF InputInv, HoldInv, SameBuffer
  <2> QED
    BY <1>5, <1>6, <2>1, <2>2, <2>3
<1>9. CASE b < 128 /\ Stored(bda, bda')
  <2>1. PICK key \in Keys : /\ ~Input!Full(bda.head, bda.tail)
                            /\ bda'.head = bda.head /\ bda'.tail = Input!After(bda.tail)
                            /\ bda'.mem = [bda.mem EXCEPT ![bda.tail] = key]
    BY <1>9 DEF Stored
  <2>2. /\ Buffer(bda') /\ Len(Input!Waiting(bda)) < Slots - 1
        /\ Input!Waiting(bda') = Append(Input!Waiting(bda), key)
    BY <1>2, <2>1, StoringAppends
  <2>3. Input!Queue!Comes
    BY <2>2 DEF Input!Queue!Comes, Keys
  <2>4. QueueStep
    BY <2>3 DEF QueueStep, Input!Queue!Next
  <2>5. b \in Int
    BY <1>1 DEF Bytes, LockCodes, ScrollCodes, OwnCodes, ModifierCodes, Answers
  <2>6. cpu.pc # "put"
    BY <1>7, <1>9, <2>5
  <2>7. cpu.pc = "step" => bda'.head # bda'.tail /\ bda'.mem[bda'.head] = bda.mem[bda.head]
    BY <1>2, <2>1 DEF InputInv, HoldInv, Input!Full, Buffer
  <2>8. HoldInv'
    BY <2>6, <2>7 DEF InputInv, HoldInv
  <2> QED
    BY <1>5, <1>6, <2>2, <2>4, <2>8
<1>10. CASE b = 70 /\ "e0" \in bda.state /\ Emptied(bda, bda')
  <2>1. Buffer(bda') /\ Input!Waiting(bda') = <<Input!BreakKey>>
    BY <1>2, <1>10, BreakingLeaves DEF Emptied
  <2>2. Input!Queue!Broken
    BY <2>1 DEF Input!Queue!Broken
  <2>3. QueueStep
    BY <2>2 DEF QueueStep, Input!Queue!Next
  <2>4. cpu.pc # "put"
    BY <1>7, <1>10
  <2>5. cpu.pc # "step"
    <3>1. ~NoE0(work)
      BY <1>2, <1>10
    <3>2. ASSUME cpu.pc = "step" PROVE NoLocks(work)
      BY <1>2, <3>1, <3>2, InputAssumption DEF InputInv, CpuInv, Serving, NoE0, NoLocks
    <3>3. ASSUME cpu.pc = "step" PROVE FALSE
      <4>1. Input!Reads(cpu.call) /\ NoLocks(work)
        BY <3>2, <3>3 DEF InputInv, CpuInv
      <4>2. ~cpu.if
        BY <3>3, <4>1 DEF InputInv, LocksInv
      <4> QED
        BY <4>2
    <3> QED
      BY <3>3
  <2>6. HoldInv'
    BY <2>4, <2>5 DEF HoldInv
  <2> QED
    BY <1>5, <1>6, <2>1, <2>3, <2>6
<1> QED
  BY <1>8, <1>9, <1>10 DEF Effect

LEMMA int09Step == ASSUME InputInv, Input!int09 PROVE InputInv' /\ QueueStep
<1>1. CASE Input!Reboots(Input!Byte, bda)
  BY <1>1, RebootStep DEF Input!int09
<1>2. CASE ~Input!Reboots(Input!Byte, bda)
  <2> DEFINE f == kbc.kf
             b == Head(f)
  <2>1. /\ kbc.obf = "keyb" /\ f # <<>> /\ kbc' = Input!TakeByte(kbc)
        /\ bda' = Input!int09_function(b, bda) /\ UNCHANGED <<work, cpu, given>>
    BY <1>2 DEF Input!int09, Input!Byte
  <2>2. cpu.if
    BY DEF Input!int09
  <2>3. f \in Seq(Sendable(work)) /\ KbcInv
    BY DEF InputInv, KbcInv
  <2> HIDE DEF f
  <2>4. b \in Sendable(work) /\ Tail(f) \in Seq(Sendable(work)) /\ Len(Tail(f)) = Len(f) - 1
        /\ \A i \in 1 .. Len(Tail(f)) : Tail(f)[i] = f[i + 1]
    BY <2>1, <2>3, HeadTailProperties
  <2>5. b = f[1] /\ Len(f) \in Nat \ {0}
    BY <2>1, <2>3, EmptySeq
  <2> HIDE DEF b
  <2>6. b \in Bytes /\ Shape(bda) /\ bda.head \in Places
    BY <2>4 DEF Sendable, InputInv, BdaInv, Buffer
  <2>7. Effect(b, bda, bda')
    BY <2>1, <2>6, ByteEffect
  <2>8. kbc' = [x \in KbcFields |-> kbc'[x]] /\ kbc'.kf = Tail(f)
    BY <2>1, <2>3, Taking DEF f
  <2>9. KbcInv'
    BY <2>1, <2>4, <2>8 DEF KbcInv, Sendable, NoE0, NoLocks
  <2>10. NoLocks(work) => Prefixed(f, bda.state)
    BY DEF InputInv, LocksInv, f
  <2>11. NoLocks(work) /\ b \in ScrollCodes => "e0" \in bda.state
    BY <2>5, <2>10 DEF Prefixed
  <2>12. /\ QueueStep /\ (work \in Works /\ BdaInv /\ CpuInv /\ HoldInv)'
         /\ NoLocks(work) => bda'.leds = {} /\ LocksOf(bda') = {}
    BY <2>1, <2>2, <2>4, <2>7, <2>11, ByteStep
  <2>13. ASSUME NoLocks(work) PROVE Prefixed(Tail(f), bda'.state)
    <3>1. SUFFICES ASSUME NEW i \in 1 .. Len(Tail(f)), Tail(f)[i] \in ScrollCodes
                   PROVE  IF i = 1 THEN "e0" \in bda'.state ELSE Tail(f)[i - 1] = 224
      BY DEF Prefixed
    <3>2. i + 1 \in 1 .. Len(f) /\ i + 1 # 1 /\ f[i + 1] \in ScrollCodes /\ (i + 1) - 1 = i
      BY <2>4, <2>5, <3>1
    <3>3. f[i] = 224
      BY <2>10, <2>13, <3>2 DEF Prefixed
    <3>4. CASE i = 1
      BY <2>5, <2>7, <3>3, <3>4 DEF Effect
    <3>5. CASE i # 1
      <4>1. i - 1 \in 1 .. Len(Tail(f)) /\ (i - 1) + 1 = i
        BY <2>4, <2>5, <3>1, <3>5
      <4> QED
        BY <2>4, <3>3, <3>5, <4>1
    <3> QED
      BY <3>4, <3>5
  <2>14. LocksInv'
    BY <2>1, <2>8, <2>12, <2>13 DEF InputInv, LocksInv, NoLocks
  <2> QED
    BY <2>9, <2>12, <2>14 DEF InputInv
<1> QED
  BY <1>1, <1>2

-----------------------------------------------------------------------------
(* INT 16h. *)

\* A step of the program that leaves the buffer, the controller and what was
\* given alone.
LEMMA CpuStep ==
    ASSUME InputInv, KbcInv', UNCHANGED <<work, bda, given>>, CpuInv',
           cpu'.pc \notin {"step", "put"}, LocksInv'
    PROVE  InputInv' /\ QueueStep
<1>1. (work \in Works /\ BdaInv)'
  BY BdaStays
<1>2. HoldInv'
  BY DEF HoldInv
<1> QED
  BY <1>1, <1>2, QueueSame DEF InputInv, SameBuffer

\* The controller is left alone.
LEMMA KbcStays == ASSUME InputInv, UNCHANGED <<work, kbc>> PROVE KbcInv'
  BY DEF InputInv, KbcInv, Sendable, NoE0, NoLocks

LEMMA LocksWait ==
    ASSUME InputInv, UNCHANGED <<work, kbc, bda>>, cpu'.pc \notin {"ack", "set", "script"},
           cpu'.pc \in {"leds", "serve", "step"} /\ Input!Reads(cpu'.call) => ~cpu'.if
    PROVE  LocksInv'
  BY DEF InputInv, LocksInv, NoLocks, LocksOf, Prefixed

LEMMA CallStep == ASSUME InputInv, NEW c \in work.calls16, Input!Call16(c) PROVE InputInv' /\ QueueStep
<1>1. UNCHANGED <<work, kbc, bda, given>>
  BY DEF Input!Call16, Input!OnlyCpu
<1>2. /\ cpu' = [f \in CpuFields |-> cpu'[f]] /\ cpu'.call = c
      /\ cpu'.pc = IF Input!Reads(c) THEN "wait" ELSE "leds"
  BY DEF Input!Call16, Input!Idle, CpuFields
<1>3. CpuInv'
  BY <1>1, <1>2 DEF CpuInv, Serving
<1>4. LocksInv'
  BY <1>1, <1>2, LocksWait
<1> QED
  BY <1>1, <1>2, <1>3, <1>4, KbcStays, CpuStep

LEMMA FoundStep == ASSUME InputInv, Input!KeyFound PROVE InputInv' /\ QueueStep
<1>1. UNCHANGED <<work, kbc, bda, given>> /\ cpu.pc = "wait" /\ cpu' = [cpu EXCEPT !.pc = "leds", !.if = FALSE]
  BY DEF Input!KeyFound, Input!OnlyCpu
<1>2. CpuInv
  BY DEF InputInv
<1>3. cpu' = [f \in CpuFields |-> cpu'[f]] /\ cpu'.call = cpu.call /\ cpu'.pc = "leds" /\ cpu'.if = FALSE
  BY <1>1, <1>2 DEF CpuInv, CpuFields
<1>4. CpuInv'
  BY <1>1, <1>2, <1>3 DEF CpuInv, Serving
<1>5. ~cpu'.if
  BY <1>3, Zenon
<1>6. LocksInv'
  BY <1>1, <1>3, <1>5, LocksWait
<1> QED
  BY <1>1, <1>3, <1>4, <1>6, KbcStays, CpuStep

LEMMA AgreeStep == ASSUME InputInv, Input!LedsAgree PROVE InputInv' /\ QueueStep
<1>1. UNCHANGED <<work, kbc, bda, given>> /\ cpu.pc = "leds" /\ cpu' = [cpu EXCEPT !.pc = "serve"]
  BY DEF Input!LedsAgree, Input!OnlyCpu, Input!Goto
<1>2. CpuInv
  BY DEF InputInv
<1>3. cpu' = [f \in CpuFields |-> cpu'[f]] /\ cpu'.call = cpu.call /\ cpu'.pc = "serve" /\ cpu'.if = cpu.if
  BY <1>1, <1>2 DEF CpuInv, CpuFields
<1>4. CpuInv'
  BY <1>1, <1>2, <1>3 DEF CpuInv, Serving
<1>5. LocksInv'
  <2>1. ASSUME NoLocks(work), Input!Reads(cpu.call) PROVE ~cpu.if
    BY <1>1, <2>1 DEF InputInv, LocksInv
  <2>2. ASSUME NoLocks(work), Input!Reads(cpu.call) PROVE ~cpu'.if
    BY <1>3, <2>1, <2>2
  <2> QED
    BY <1>1, <1>3, <2>2 DEF InputInv, LocksInv, NoLocks, LocksOf, Prefixed
<1> QED
  BY <1>1, <1>3, <1>4, <1>5, KbcStays, CpuStep

\* With a menu that never sets lights a call does not try.
LEMMA LightsStep ==
    ASSUME InputInv, cpu.pc \in {"ack", "set"} \/ (cpu.pc = "leds" /\ bda.leds # Input!Locks)
    PROVE  ~NoLocks(work)
  BY DEF InputInv, LocksInv, LocksOf, Input!Locks

LEMMA SendLedsStep == ASSUME InputInv, Input!LedsSend PROVE InputInv' /\ QueueStep
<1>1. /\ cpu.pc = "leds" /\ bda.leds # Input!Locks /\ UNCHANGED <<work, bda, given>>
      /\ kbc' = [kbc EXCEPT !.kf = <<Input!ACK>>]
      /\ cpu' = [cpu EXCEPT !.pc = "ack", !.if = FALSE, !.data = Input!Locks]
  BY DEF Input!LedsSend, Input!Command
<1>2. CpuInv /\ KbcInv
  BY DEF InputInv
<1>3. cpu' = [f \in CpuFields |-> cpu'[f]] /\ cpu'.call = cpu.call /\ cpu'.pc = "ack"
  BY <1>1, <1>2 DEF CpuInv, CpuFields
<1>4. CpuInv'
  BY <1>1, <1>2, <1>3 DEF CpuInv, Serving
<1>5. kbc' = [f \in KbcFields |-> kbc'[f]] /\ kbc'.kf = <<Input!ACK>>
  BY <1>1, <1>2 DEF KbcInv, KbcFields
<1>6. KbcInv'
  BY <1>1, <1>5, AckSent DEF KbcInv, Sendable, NoE0, NoLocks
<1>7. LocksInv'
  BY <1>1, LightsStep DEF LocksInv, NoLocks
<1> QED
  BY <1>1, <1>3, <1>4, <1>6, <1>7, CpuStep

LEMMA AckedStep == ASSUME InputInv, Input!LedsAcked PROVE InputInv' /\ QueueStep
<1>1. /\ cpu.pc = "ack" /\ UNCHANGED <<work, bda, given>>
      /\ \/ kbc' = [Input!TakeByte(kbc) EXCEPT !.kf = <<Input!ACK>>] /\ cpu' = [cpu EXCEPT !.pc = "set"]
         \/ kbc' = Input!TakeByte(kbc) /\ cpu' = [cpu EXCEPT !.pc = "serve", !.if = TRUE]
  BY DEF Input!LedsAcked, Input!Goto
<1>2. CpuInv /\ KbcInv
  BY DEF InputInv
<1>3. cpu' = [f \in CpuFields |-> cpu'[f]] /\ cpu'.call = cpu.call /\ cpu'.pc \in {"set", "serve"}
  BY <1>1, <1>2 DEF CpuInv, CpuFields
<1>4. CpuInv'
  BY <1>1, <1>2, <1>3 DEF CpuInv, Serving
<1>5. kbc' = [f \in KbcFields |-> kbc'[f]] /\ kbc'.kf \in {<<Input!ACK>>, Input!TakeByte(kbc).kf}
  BY <1>1, <1>2, Taking DEF KbcFields
<1>6. KbcInv'
  BY <1>1, <1>2, <1>5, AckSent, Taking DEF KbcInv, Sendable, NoE0, NoLocks
<1>7. LocksInv'
  BY <1>1, LightsStep DEF LocksInv, NoLocks
<1> QED
  BY <1>1, <1>3, <1>4, <1>6, <1>7, CpuStep

LEMMA SetStep == ASSUME InputInv, Input!LedsSet PROVE InputInv' /\ QueueStep
<1>1. /\ cpu.pc = "set" /\ UNCHANGED <<work, given>> /\ kbc' = Input!TakeByte(kbc)
      /\ bda' = [bda EXCEPT !.leds = cpu.data]
      /\ cpu' = [cpu EXCEPT !.pc = "serve", !.if = TRUE, !.data = 0]
  BY DEF Input!LedsSet
<1>2. CpuInv /\ KbcInv /\ BdaInv
  BY DEF InputInv
<1>3. cpu' = [f \in CpuFields |-> cpu'[f]] /\ cpu'.call = cpu.call /\ cpu'.pc = "serve"
  BY <1>1, <1>2 DEF CpuInv, CpuFields
<1>4. CpuInv' /\ HoldInv'
  BY <1>1, <1>2, <1>3 DEF CpuInv, Serving, HoldInv
<1>5. KbcInv'
  BY <1>1, <1>2, Taking DEF KbcInv, Sendable, NoE0, NoLocks
<1>6. LocksInv'
  BY <1>1, LightsStep DEF LocksInv, NoLocks
<1>7. Shape(bda') /\ SameBuffer(bda, bda') /\ bda'.state = bda.state
  BY <1>1, <1>2 DEF BdaInv, Shape, BdaFields, SameBuffer
<1>8. BdaInv'
  BY <1>1, <1>2, <1>7 DEF BdaInv, Buffer, SameBuffer, NoE0
<1> QED
  BY <1>1, <1>4, <1>5, <1>6, <1>7, <1>8, QueueSame DEF InputInv

LEMMA ReturnShape == ASSUME NEW c PROVE LET r == Input!Return(c) IN r = [f \in CpuFields |-> r[f]] /\ r.pc = "idle"
  BY DEF Input!Return, Input!Idle, CpuFields

\* The program returns; the queue does what it may.
LEMMA ReturnStep ==
    ASSUME InputInv, UNCHANGED <<work, kbc, bda>>, cpu' = Input!Return(cpu.call), QueueStep
    PROVE  InputInv' /\ QueueStep
<1>1. cpu' = [f \in CpuFields |-> cpu'[f]] /\ cpu'.pc = "idle"
  BY ReturnShape
<1>2. CpuInv' /\ HoldInv'
  BY <1>1 DEF CpuInv, HoldInv, Serving
<1>3. LocksInv'
  BY <1>1, LocksWait
<1> QED
  BY <1>2, <1>3, KbcStays, BdaStays DEF InputInv

LEMMA ServeStep == ASSUME InputInv, Input!Serve16 PROVE InputInv' /\ QueueStep
<1>1. UNCHANGED <<work, kbc>> /\ cpu.pc = "serve"
  BY DEF Input!Serve16
<1>2. CpuInv /\ BdaInv /\ Buffer(bda)
  BY DEF InputInv, BdaInv
<1>3. Input!Waiting(bda) = <<>> <=> ~Input!KeyThere
  BY <1>2, EmptyIsEqual DEF Input!KeyThere
<1>4. CASE Input!Reads(cpu.call) /\ Input!KeyThere
  <2>1. /\ cpu' = [cpu EXCEPT !.pc = "step", !.key = <<bda.mem[bda.head]>>] /\ UNCHANGED <<given, bda>>
    BY <1>4 DEF Input!Serve16, Input!Reads, Input!Checks
  <2>2. /\ cpu' = [f \in CpuFields |-> cpu'[f]] /\ cpu'.call = cpu.call /\ cpu'.pc = "step" /\ cpu'.if = cpu.if
        /\ cpu'.key = <<bda.mem[bda.head]>>
    BY <1>2, <2>1 DEF CpuInv, CpuFields
  <2>3. CpuInv'
    BY <1>1, <1>2, <1>4, <2>2 DEF CpuInv, Serving
  <2>4. HoldInv'
    BY <1>4, <2>1, <2>2 DEF HoldInv, Input!KeyThere
  <2>5. LocksInv'
    <3>1. ASSUME NoLocks(work) PROVE ~cpu.if
      BY <1>1, <1>4, <3>1 DEF InputInv, LocksInv
    <3>2. ASSUME NoLocks(work) PROVE ~cpu'.if
      BY <2>2, <3>1, <3>2
    <3> QED
      BY <1>1, <2>1, <2>2, <3>2 DEF InputInv, LocksInv, NoLocks, LocksOf, Prefixed
  <2> QED
    BY <1>1, <2>1, <2>3, <2>4, <2>5, KbcStays, BdaStays, QueueSame DEF InputInv, SameBuffer
<1>5. CASE Input!Reads(cpu.call) /\ ~Input!KeyThere
  <2>1. cpu' = Input!Return(cpu.call) /\ given' = <<>> /\ UNCHANGED bda
    BY <1>5 DEF Input!Serve16, Input!Reads, Input!Checks
  <2>2. Input!Queue!Shown
    BY <1>3, <1>5, <2>1 DEF Input!Queue!Shown, Input!Waiting
  <2> QED
    BY <1>1, <2>1, <2>2, ReturnStep DEF QueueStep, Input!Queue!Next
<1>6. CASE Input!Checks(cpu.call)
  <2>1. /\ given' = IF Input!KeyThere THEN <<bda.mem[bda.head]>> ELSE <<>>
        /\ cpu' = Input!Return(cpu.call) /\ UNCHANGED bda
    BY <1>6 DEF Input!Serve16, Input!Reads, Input!Checks
  <2>2. Input!KeyThere => Head(Input!Waiting(bda)) = bda.mem[bda.head]
    <3> DEFINE l == [head |-> Input!After(bda.head), tail |-> bda.tail, mem |-> bda.mem]
    <3>1. l.head = Input!After(bda.head) /\ l.tail = bda.tail /\ l.mem = bda.mem
      OBVIOUS
    <3> HIDE DEF l
    <3> QED
      BY <1>2, <3>1, MovingTakes DEF Input!KeyThere
  <2>3. Input!Queue!Shown
    BY <1>3, <2>1, <2>2 DEF Input!Queue!Shown, Input!Waiting
  <2> QED
    BY <1>1, <2>1, <2>3, ReturnStep DEF QueueStep, Input!Queue!Next
<1>7. CASE cpu.call.ah = 5
  <2>1. /\ cpu' = [cpu EXCEPT !.pc = IF Input!Full(bda.head, bda.tail) THEN "idle" ELSE "put", !.data = bda.tail]
        /\ UNCHANGED <<given, bda>>
    BY <1>7 DEF Input!Serve16, Input!Reads, Input!Checks
  <2>2. /\ cpu' = [f \in CpuFields |-> cpu'[f]] /\ cpu'.call = cpu.call /\ cpu'.data = bda.tail
        /\ cpu'.pc = IF Input!Full(bda.head, bda.tail) THEN "idle" ELSE "put"
    BY <1>2, <2>1 DEF CpuInv, CpuFields
  <2>3. CpuInv'
    BY <1>1, <1>2, <1>7, <2>2 DEF CpuInv, Serving
  <2>4. HoldInv'
    BY <2>1, <2>2 DEF HoldInv
  <2>5. LocksInv'
    BY <1>1, <2>1, <2>2, LocksWait
  <2> QED
    BY <1>1, <2>1, <2>3, <2>4, <2>5, KbcStays, BdaStays, QueueSame DEF InputInv, SameBuffer
<1>8. CASE ~Input!Reads(cpu.call) /\ ~Input!Checks(cpu.call) /\ cpu.call.ah # 5
  <2>1. cpu' = Input!Return(cpu.call) /\ UNCHANGED <<given, bda>>
    BY <1>8 DEF Input!Serve16
  <2> QED
    BY <1>1, <2>1, ReturnStep, QueueSame DEF SameBuffer
<1> QED
  BY <1>4, <1>5, <1>6, <1>7, <1>8

LEMMA HeadStep == ASSUME InputInv, Input!StepHead PROVE InputInv' /\ QueueStep
<1>1. /\ cpu.pc = "step" /\ UNCHANGED <<work, kbc>> /\ bda' = [bda EXCEPT !.head = Input!After(@)]
      /\ given' = cpu.key /\ cpu' = Input!Return(cpu.call)
  BY DEF Input!StepHead
<1>2. BdaInv /\ Buffer(bda) /\ bda.head # bda.tail /\ cpu.key = <<bda.mem[bda.head]>>
  BY <1>1 DEF InputInv, BdaInv, HoldInv
<1>3. /\ Shape(bda') /\ bda'.head = Input!After(bda.head) /\ bda'.tail = bda.tail /\ bda'.mem = bda.mem
      /\ bda'.state = bda.state /\ bda'.leds = bda.leds /\ bda'.shift = bda.shift
  BY <1>1, <1>2 DEF BdaInv, Shape, BdaFields
<1>4. /\ Buffer(bda') /\ Input!Waiting(bda) # <<>> /\ Head(Input!Waiting(bda)) = bda.mem[bda.head]
      /\ Input!Waiting(bda') = Tail(Input!Waiting(bda))
  BY <1>2, <1>3, MovingTakes
<1>5. Input!Queue!Taken
  BY <1>1, <1>2, <1>4 DEF Input!Queue!Taken
<1>6. BdaInv'
  BY <1>1, <1>2, <1>3, <1>4 DEF BdaInv, NoE0
<1>7. cpu' = [f \in CpuFields |-> cpu'[f]] /\ cpu'.pc = "idle"
  BY <1>1, ReturnShape
<1>8. CpuInv' /\ HoldInv'
  BY <1>7 DEF CpuInv, HoldInv, Serving
<1>9. LocksInv'
  BY <1>1, <1>3, <1>7 DEF InputInv, LocksInv, NoLocks, LocksOf, Prefixed
<1> QED
  BY <1>1, <1>5, <1>6, <1>8, <1>9, KbcStays DEF InputInv, QueueStep, Input!Queue!Next

LEMMA PutStep == ASSUME InputInv, Input!PutKey PROVE InputInv' /\ QueueStep
<1>1. /\ cpu.pc = "put" /\ UNCHANGED <<work, kbc, given>> /\ cpu' = Input!Return(cpu.call)
      /\ bda' = [bda EXCEPT !.mem[cpu.data] = cpu.call.key, !.tail = Input!After(cpu.data)]
  BY DEF Input!PutKey
<1>2. BdaInv /\ Buffer(bda) /\ cpu.data = bda.tail /\ ~Input!Full(bda.head, bda.tail)
  BY <1>1 DEF InputInv, BdaInv, HoldInv
<1>3. cpu.call.key \in Keys
  BY <1>1, InputAssumption DEF InputInv, CpuInv, Serving, Keys
<1>4. /\ Shape(bda') /\ bda'.head = bda.head /\ bda'.tail = Input!After(bda.tail)
      /\ bda'.mem = [bda.mem EXCEPT ![bda.tail] = cpu.call.key]
      /\ bda'.state = bda.state /\ bda'.leds = bda.leds /\ bda'.shift = bda.shift
  BY <1>1, <1>2 DEF BdaInv, Shape, BdaFields
<1>5. /\ Buffer(bda') /\ Len(Input!Waiting(bda)) < Slots - 1
      /\ Input!Waiting(bda') = Append(Input!Waiting(bda), cpu.call.key)
  BY <1>2, <1>3, <1>4, StoringAppends
<1>6. Input!Queue!Comes
  BY <1>1, <1>3, <1>5 DEF Input!Queue!Comes, Keys
<1>7. BdaInv'
  BY <1>1, <1>2, <1>4, <1>5 DEF BdaInv, NoE0
<1>8. cpu' = [f \in CpuFields |-> cpu'[f]] /\ cpu'.pc = "idle"
  BY <1>1, ReturnShape
<1>9. CpuInv' /\ HoldInv'
  BY <1>8 DEF CpuInv, HoldInv, Serving
<1>10. LocksInv'
  BY <1>1, <1>4, <1>8 DEF InputInv, LocksInv, NoLocks, LocksOf, Prefixed
<1> QED
  BY <1>1, <1>6, <1>7, <1>9, <1>10, KbcStays DEF InputInv, QueueStep, Input!Queue!Next

-----------------------------------------------------------------------------
(* INT 15h AH=C2h. *)

LEMMA Call15Step == ASSUME InputInv, Input!Call15 PROVE InputInv' /\ QueueStep
<1>1. PICK c \in work.calls15 :
          cpu' = [Input!Idle EXCEPT !.call = c, !.script = Input!Script(c),
                                    !.pc = IF Input!Script(c) = <<>> THEN "idle" ELSE "script",
                                    !.if = Input!Script(c) = <<>>]
  BY DEF Input!Call15
<1>2. UNCHANGED <<work, kbc, bda, given>>
  BY DEF Input!Call15
<1>3. cpu' = [f \in CpuFields |-> cpu'[f]] /\ cpu'.pc \in {"idle", "script"}
  BY <1>1 DEF Input!Idle, CpuFields
<1>4. CpuInv'
  BY <1>3 DEF CpuInv, Serving
<1>5. LocksInv'
  BY <1>1, <1>2 DEF LocksInv, NoLocks
<1> QED
  BY <1>2, <1>3, <1>4, <1>5, KbcStays, CpuStep

\* The next step of a service, or its end.
LEMMA DoneShape ==
    ASSUME NEW c, c = [f \in CpuFields |-> c[f]], c.pc = "script"
    PROVE  LET d == Input!Done(c) IN d = [f \in CpuFields |-> d[f]] /\ d.pc \in {"idle", "script"}
<1>1. CASE Len(c.script) = 1
  BY <1>1 DEF Input!Done, Input!Idle, CpuFields
<1>2. CASE Len(c.script) # 1
  BY <1>2 DEF Input!Done, CpuFields
<1> QED
  BY <1>1, <1>2

LEMMA ScriptCpu ==
    ASSUME CpuInv, cpu.pc = "script",
           \/ \E x : cpu' = Input!Done([cpu EXCEPT !.comm = x])
           \/ \E x : cpu' = Input!Done([cpu EXCEPT !.data = x])
           \/ cpu' = Input!Done(cpu)
           \/ cpu' = [Input!Idle EXCEPT !.call = cpu.call]
    PROVE  cpu' = [f \in CpuFields |-> cpu'[f]] /\ cpu'.pc \in {"idle", "script"}
<1>1. cpu = [f \in CpuFields |-> cpu[f]]
  BY DEF CpuInv
<1>2. ASSUME NEW c, c = [f \in CpuFields |-> c[f]], c.pc = "script", cpu' = Input!Done(c)
      PROVE  cpu' = [f \in CpuFields |-> cpu'[f]] /\ cpu'.pc \in {"idle", "script"}
  BY <1>2, DoneShape
<1>3. ASSUME NEW x, cpu' = Input!Done([cpu EXCEPT !.comm = x])
      PROVE  cpu' = [f \in CpuFields |-> cpu'[f]] /\ cpu'.pc \in {"idle", "script"}
  <2> DEFINE c == [cpu EXCEPT !.comm = x]
  <2>1. c = [f \in CpuFields |-> c[f]] /\ c.pc = "script"
    BY <1>1 DEF CpuFields
  <2> HIDE DEF c
  <2>2. cpu' = Input!Done(c)
    BY <1>3 DEF c
  <2> QED
    BY <1>2, <2>1, <2>2
<1>4. ASSUME NEW x, cpu' = Input!Done([cpu EXCEPT !.data = x])
      PROVE  cpu' = [f \in CpuFields |-> cpu'[f]] /\ cpu'.pc \in {"idle", "script"}
  <2> DEFINE c == [cpu EXCEPT !.data = x]
  <2>1. c = [f \in CpuFields |-> c[f]] /\ c.pc = "script"
    BY <1>1 DEF CpuFields
  <2> HIDE DEF c
  <2>2. cpu' = Input!Done(c)
    BY <1>4 DEF c
  <2> QED
    BY <1>2, <2>1, <2>2
<1>5. CASE cpu' = [Input!Idle EXCEPT !.call = cpu.call]
  BY <1>5 DEF Input!Idle, CpuFields
<1> QED
  BY <1>1, <1>2, <1>3, <1>4, <1>5

LEMMA MouseServiceStep ==
    ASSUME InputInv, \/ Input!Ask \/ Input!Answer \/ Input!Inhibit \/ Input!Enable \/ Input!Restore
                     \/ Input!Send \/ Input!get_mouse_data \/ Input!Acked
    PROVE  InputInv' /\ QueueStep
<1> USE DEF Input!Ask, Input!Answer, Input!Inhibit, Input!Enable, Input!Restore, Input!Send,
            Input!get_mouse_data, Input!Acked, Input!WriteCommandByte
<1>1. cpu.pc = "script" /\ UNCHANGED <<work, bda, given>>
  BY DEF Input!Doing, Input!OnlyKbc
<1>2. CpuInv /\ KbcInv
  BY DEF InputInv
<1>3. \/ \E x : cpu' = Input!Done([cpu EXCEPT !.comm = x])
      \/ \E x : cpu' = Input!Done([cpu EXCEPT !.data = x])
      \/ cpu' = Input!Done(cpu)
      \/ cpu' = [Input!Idle EXCEPT !.call = cpu.call]
  BY Zenon
<1>4. cpu' = [f \in CpuFields |-> cpu'[f]] /\ cpu'.pc \in {"idle", "script"}
  BY <1>1, <1>2, <1>3, ScriptCpu
<1>5. kbc' = [f \in KbcFields |-> kbc'[f]] /\ kbc'.kf \in Seq(Sendable(work))
  <2>1. CASE Input!Ask
    <3>1. Input!CommandByte \in Answers
      BY DEF Input!CommandByte, Input!Number, Answers
    <3>2. kbc.kf \o <<Input!CommandByte>> \in Seq(Sendable(work))
      BY <1>2, <3>1, AnswersSendable DEF KbcInv
    <3> QED
      BY <1>2, <2>1, <3>2 DEF Input!PutKeyb, KbcInv, KbcFields
  <2>2. CASE Input!Answer \/ Input!get_mouse_data
    BY <1>2, <2>2, Taking
  <2>3. CASE Input!Inhibit \/ Input!Enable \/ Input!Restore
    <3>1. \E comm : kbc' = [kbc EXCEPT !.irq1 = comm.irq1, !.irq12 = comm.irq12, !.auxoff = comm.auxoff]
      BY <2>3, Zenon
    <3> QED
      BY <1>2, <3>1 DEF KbcInv, KbcFields
  <2>4. CASE Input!Send
    <3>1. \E x : kbc' = [kbc EXCEPT !.auxoff = FALSE, !.mf = x]
      BY <2>4
    <3> QED
      BY <1>2, <3>1 DEF KbcInv, KbcFields
  <2>5. CASE Input!Acked
    BY <1>2, <2>5 DEF KbcInv
  <2> QED
    BY <2>1, <2>2, <2>3, <2>4, <2>5
<1>6. KbcInv'
  BY <1>1, <1>5 DEF KbcInv, Sendable, NoE0, NoLocks
<1> QED
  BY <1>1, <1>4, <1>6, ScriptStep

-----------------------------------------------------------------------------

LEMMA InputStart == part = "input" /\ BiosInit(Parts) => InputInv
<1> SUFFICES ASSUME part = "input", BiosInit(Parts) PROVE InputInv
  OBVIOUS
<1>1. Input!InputInit(Works)
  BY DEF BiosInit
<1>2. /\ work \in Works /\ bda = Input!Fresh /\ cpu = Input!Idle
      /\ kbc = [kf |-> <<>>, mf |-> <<>>, obf |-> "none", irq1 |-> TRUE, irq12 |-> FALSE, auxoff |-> TRUE]
  BY <1>1 DEF Input!InputInit
<1>3. /\ Shape(bda) /\ bda.state = {} /\ bda.leds = {} /\ bda.shift = {} /\ bda.head = 0 /\ bda.tail = 0
      /\ bda.mem = [i \in 0 .. Slots - 1 |-> Input!BreakKey]
  BY <1>2 DEF Input!Fresh, Shape, BdaFields
<1>4. Input!BreakKey \in Keys
  BY DEF Keys, Input!KeyCodes
<1>5. BdaInv
  BY <1>3, <1>4, SlotsMany DEF BdaInv, Buffer, Places
<1>6. kbc = [f \in KbcFields |-> kbc[f]] /\ kbc.kf = <<>>
  BY <1>2 DEF KbcFields
<1>7. cpu = [f \in CpuFields |-> cpu[f]] /\ cpu.pc = "idle"
  BY <1>2 DEF Input!Idle, CpuFields
<1>8. CpuInv /\ HoldInv
  BY <1>7 DEF CpuInv, HoldInv, Serving
<1>9. KbcInv
  <2>1. <<>> \in Seq(Sendable(work))
    OBVIOUS
  <2> QED
    BY <1>6, <2>1 DEF KbcInv
<1>10. LocksInv
  BY <1>3, <1>6, <1>7 DEF LocksInv, LocksOf, Prefixed
<1> QED
  BY <1>2, <1>5, <1>8, <1>9, <1>10 DEF InputInv

LEMMA InputStep == ASSUME InputInv, Input!InputNext PROVE InputInv' /\ QueueStep
<1>1. CASE Input!int16
  BY <1>1, CallStep, FoundStep, AgreeStep, SendLedsStep, AckedStep, SetStep, ServeStep, HeadStep, PutStep
     DEF Input!int16
<1>2. CASE Input!int15_function_mouse
  BY <1>2, Call15Step, MouseServiceStep DEF Input!int15_function_mouse
<1> QED
  BY <1>1, <1>2, OfferStep, KeyStep, MouseStep, int09Step, int74Step DEF Input!InputNext

\* The key buffer is the queue that INT 16h promises: no key is lost, given
\* twice or out of turn, though INT 09h comes between the reading of a key or
\* of the tail and the moving of the index (rombios.c, int09_function,
\* enqueue_key, dequeue_key, int16_function).  Every step is one of the
\* queue's or leaves it alone.
THEOREM KeyBufferIsQueue == Spec => IsKeyQueue
<1> DEFINE Inv == part = "input" => InputInv
<1>1. BiosInit(Parts) => Inv /\ Input!Queue!Init
  <2> SUFFICES ASSUME BiosInit(Parts) PROVE Inv /\ Input!Queue!Init
    OBVIOUS
  <2>1. bda = Input!Fresh /\ given = <<>>
    BY DEF BiosInit, Input!InputInit
  <2>2. bda.head = 0 /\ bda.tail = 0 /\ bda.mem = [i \in 0 .. Slots - 1 |-> Input!BreakKey]
    BY <2>1 DEF Input!Fresh
  <2>3. Input!BreakKey \in Keys
    BY DEF Keys, Input!KeyCodes
  <2>4. Buffer(bda)
    BY <2>2, <2>3, SlotsMany DEF Buffer, Places
  <2>5. Input!Waiting(bda) = <<>>
    BY <2>2, <2>4, EmptyIsEqual
  <2> QED
    BY <2>1, <2>5, InputStart DEF Input!Queue!Init
<1>2. Inv /\ [BiosNext]_biosVars => Inv' /\ [Input!Queue!Next]_<<Input!Waiting(bda), given>>
  <2> SUFFICES ASSUME Inv, [BiosNext]_biosVars
               PROVE  Inv' /\ [Input!Queue!Next]_<<Input!Waiting(bda), given>>
    OBVIOUS
  <2>1. part' = part
    BY DEF BiosNext, biosVars
  <2>2. CASE part = "input" /\ Input!InputNext
    BY <2>1, <2>2, InputStep DEF QueueStep
  <2>3. CASE UNCHANGED inputV
    <3>1. bda' = bda /\ given' = given
      BY <2>3 DEF inputV
    <3> QED
      BY <2>1, <2>3, <3>1, InputStays DEF Input!Waiting
  <2> QED
    BY <2>2, <2>3 DEF BiosNext, biosVars
<1> HIDE DEF Inv
<1>3. Spec => Input!Queue!Init /\ [][Input!Queue!Next]_<<Input!Waiting(bda), given>>
  BY <1>1, <1>2, PTL DEF Spec
<1> QED
  BY <1>3, PTL DEF IsKeyQueue, Input!IsKeyQueue, Input!Queue!Spec

-----------------------------------------------------------------------------
(* From reset to a loaded system. *)

BootTypes ==
    /\ board \in Boards
    /\ at \in [what : {"reset", "video", "options", "boot", "failed", "system", "halted"}, pos : Nat]
    /\ shutdown = [code |-> shutdown.code, s3vector |-> shutdown.s3vector, resets |-> shutdown.resets,
                   asked |-> shutdown.asked, resumed |-> shutdown.resumed]
    /\ shutdown.asked \in Nat /\ shutdown.resumed \in Nat
    /\ ipl \in [table : Seq({"floppy", "disk", "cdrom", "rom"}), first : Nat, seq : Nat]
    /\ ipl.seq < 65536
    /\ inits \in Seq(Nat) /\ tried \in Seq(Nat)

\* A code is armed by a system, and only a reset may find it.
Armed == at.what = "reset" /\ shutdown.code # 0
CodeInv == at.what \notin {"reset", "system"} => shutdown.code = 0

\* Each ROM initialised begins after the end of the one before, and where the
\* scan has been every good one was, or lies inside one that was.
Good(m, pos) == pos \in DOMAIN m.roms /\ m.roms[pos].good
End(m, pos) == 4 * pos + m.roms[pos].blocks
Spaced(m, s) == /\ \A i \in DOMAIN s : Good(m, s[i])
                /\ \A i, j \in DOMAIN s : i < j => End(m, s[i]) <= 4 * s[j]
AllEnd(m, s, pos) == \A i \in DOMAIN s : End(m, s[i]) <= 4 * pos
Visited(m, s, pos) == \E i \in DOMAIN s : s[i] = pos \/ (s[i] < pos /\ 4 * pos < End(m, s[i]))
Behind(pos) ==
    \/ at.what = "video" /\ pos <= Boot!This.video /\ pos < at.pos
    \/ at.what = "options" /\ (pos <= Boot!This.video \/ (Boot!This.options <= pos /\ pos <= Boot!This.last /\ pos < at.pos))
    \/ (at.what \in {"boot", "failed", "system"} \/ Armed)
          /\ (pos <= Boot!This.video \/ (Boot!This.options <= pos /\ pos <= Boot!This.last))
ScanInv ==
    /\ Spaced(Boot!This, inits)
    /\ at.what \in {"video", "options"} => AllEnd(Boot!This, inits, at.pos)
    /\ at.what = "video" => \A i \in DOMAIN inits : inits[i] <= Boot!This.video
    /\ \A pos \in DOMAIN Boot!This.roms : Good(Boot!This, pos) /\ Behind(pos) => Visited(Boot!This, inits, pos)

\* The entries of the boot order that are devices there are, how many of them
\* there are up to one, and the devices tried in their order behind the user's.
Entries(m, table) == {i \in DOMAIN m.order : m.order[i] \in 1 .. Len(table) /\ \A k \in 1 .. i : m.order[k] # 0}
Upto(m, table, i) == Cardinality({k \in Entries(m, table) : k <= i})
Wanted(m, table) == IF m.choice # 65535 /\ m.choice \in 1 .. Len(table) THEN <<m.choice>> ELSE <<>>
Ordered(m, table, s, first) ==
    /\ Len(s) <= Len(first) + Cardinality(Entries(m, table))
    /\ \A n \in DOMAIN s :
          IF n <= Len(first) THEN s[n] = first[n]
          ELSE \E i \in Entries(m, table) : s[n] = m.order[i] /\ Len(first) + Upto(m, table, i) = n

\* The first entries of the order have been dealt with.
Reached(m, table, s, before, first) ==
    /\ before \in 0 .. 3 /\ \A k \in 1 .. before : m.order[k] # 0
    /\ Len(s) = Len(first) + Upto(m, table, before)
    /\ Ordered(m, table, s, first)
Before == IF at.what = "boot" THEN ipl.seq ELSE (ipl.seq + 1) % 65536
TriedInv ==
    /\ at.what \in {"video", "options"} => tried = <<>>
    /\ at.what = "options" => ipl.first \in {65535, Boot!This.choice}
    /\ at.what \in {"boot", "failed", "system"} \/ Armed =>
          /\ ipl.first # 65535 => /\ at.what = "boot" /\ ipl.seq = 0 /\ tried = <<>>
                                  /\ ipl.first = Boot!This.choice
          /\ \E first \in {<<>>, Wanted(Boot!This, ipl.table)} : Reached(Boot!This, ipl.table, tried, Before, first)

TriedRight ==
    \E first \in {<<>>, Wanted(Boot!This, ipl.table)} :
        /\ Ordered(Boot!This, ipl.table, tried, first)
        /\ at.what = "halted" /\ tried # <<>> =>
              Len(tried) = Len(first) + Cardinality(Entries(Boot!This, ipl.table))

\* A system that asked to be resumed and is not yet.
Asking == IF shutdown.code \in Boot!Resumes \/ (shutdown.code = 254 /\ shutdown.s3vector) THEN 1 ELSE 0
ResumeInv == shutdown.resumed + Asking <= shutdown.asked

BootInv == BootTypes /\ CodeInv /\ ScanInv /\ TriedInv /\ TriedRight /\ ResumeInv

LEMMA BoardIs == board \in Boards => RomsFit(Boot!This) /\ OrderFits(Boot!This)
  BY BootAssumption DEF Boot!This

\* The scan goes on at the first multiple of 2K at or behind the end of a ROM.
LEMMA StrideIs ==
    ASSUME NEW b \in Nat \ {0}, b <= 252
    PROVE  /\ Boot!Stride(b) \in Nat /\ b <= 4 * Boot!Stride(b) /\ 4 * Boot!Stride(b) <= b + 3
  BY DEF Boot!Stride

LEMMA SameCount == \A S : Boot!Cardinality(S) = Cardinality(S)
  BY DEF Boot!Cardinality, Cardinality

\* Entries of the boot order, and how many of them come up to an entry.
LEMMA EntriesFinite ==
    ASSUME NEW m, OrderFits(m), NEW table
    PROVE  /\ Entries(m, table) \subseteq 1 .. 3
           /\ IsFiniteSet(Entries(m, table)) /\ Cardinality(Entries(m, table)) \in Nat
           /\ \A i \in Nat : Upto(m, table, i) \in Nat /\ Upto(m, table, i) <= Cardinality(Entries(m, table))
           /\ Upto(m, table, 0) = 0
<1> DEFINE E == Entries(m, table)
<1>1. E \subseteq 1 .. 3
  BY DEF OrderFits, Entries
<1>2. E \in SUBSET Nat /\ \A k \in E : k <= 3
  BY <1>1
<1> HIDE DEF E
<1>3. IsFiniteSet(E) /\ Cardinality(E) \in Nat
  BY <1>2, FS_BoundedSetOfNaturals, FS_CardinalityType
<1>4. ASSUME NEW i \in Nat PROVE Upto(m, table, i) \in Nat /\ Upto(m, table, i) <= Cardinality(E)
  <2> DEFINE S == {k \in E : k <= i}
  <2>1. S \subseteq E
    OBVIOUS
  <2>2. Upto(m, table, i) = Cardinality(S)
    BY DEF E, Upto
  <2> HIDE DEF S
  <2>3. IsFiniteSet(S) /\ Cardinality(S) <= Cardinality(E)
    BY <1>3, <2>1, FS_Subset
  <2>4. Cardinality(S) \in Nat
    BY <2>3, FS_CardinalityType
  <2> QED
    BY <2>2, <2>3, <2>4
<1>5. Upto(m, table, 0) = 0
  <2>1. \A k \in E : ~(k <= 0)
    BY <1>1
  <2>2. Upto(m, table, 0) = Cardinality({})
    BY <2>1 DEF E, Upto
  <2> QED
    BY <2>2, FS_EmptySet
<1> QED
  BY <1>1, <1>3, <1>4, <1>5 DEF E

\* The next entry is tried if there is such a device, and is one more.
LEMMA UptoNext ==
    ASSUME NEW m, OrderFits(m), NEW table, NEW i \in 0 .. 2, \A k \in 1 .. i + 1 : m.order[k] # 0
    PROVE  IF m.order[i + 1] \in 1 .. Len(table)
           THEN i + 1 \in Entries(m, table) /\ Upto(m, table, i + 1) = Upto(m, table, i) + 1
           ELSE Upto(m, table, i + 1) = Upto(m, table, i)
<1> DEFINE E == Entries(m, table)
           S == {k \in E : k <= i}
           T == {k \in E : k <= i + 1}
<1>1. i + 1 \in DOMAIN m.order
  BY DEF OrderFits
<1>2. i + 1 \in E <=> m.order[i + 1] \in 1 .. Len(table)
  BY <1>1 DEF Entries
<1>3. E \subseteq 1 .. 3 /\ IsFiniteSet(E)
  BY EntriesFinite
<1>4. Upto(m, table, i) = Cardinality(S) /\ Upto(m, table, i + 1) = Cardinality(T)
  BY DEF Upto
<1> HIDE DEF E
<1>5. IsFiniteSet(S)
  BY <1>3, FS_Subset
<1>6. CASE m.order[i + 1] \in 1 .. Len(table)
  <2>1. T = S \cup {i + 1} /\ i + 1 \notin S
    <3>1. \A k \in E : k <= i + 1 <=> k <= i \/ k = i + 1
      BY <1>3
    <3> QED
      BY <1>2, <1>6, <3>1
  <2>2. Cardinality(S \cup {i + 1}) = Cardinality(S) + 1
    <3> HIDE DEF S
    <3> QED
      BY <1>5, <2>1, FS_AddElement
  <2> QED
    BY <1>2, <1>4, <1>6, <2>1, <2>2 DEF E
<1>7. CASE ~(m.order[i + 1] \in 1 .. Len(table))
  <2>1. T = S
    <3>1. \A k \in E : k \in Nat /\ k # i + 1
      BY <1>2, <1>3, <1>7
    <3>2. \A k \in E : k <= i + 1 <=> k <= i
      BY <3>1
    <3> QED
      BY <3>2
  <2> QED
    BY <1>4, <1>7, <2>1
<1> QED
  BY <1>6, <1>7

\* Where the order ends all its entries have been dealt with.
LEMMA UptoEnd ==
    ASSUME NEW m, OrderFits(m), NEW table, NEW i \in 0 .. 3, i = 3 \/ m.order[i + 1] = 0
    PROVE  Upto(m, table, i) = Cardinality(Entries(m, table))
<1>1. Entries(m, table) \subseteq 1 .. 3
  BY EntriesFinite
<1>2. \A k \in Entries(m, table) : k <= i
  BY <1>1 DEF Entries
<1>3. {k \in Entries(m, table) : k <= i} = Entries(m, table)
  BY <1>2
<1> QED
  BY <1>3 DEF Upto

\* The promise about the devices tried, in those terms.
LEMMA InOrderIs == TriedRight => Boot!BootsInOrder
<1> SUFFICES ASSUME NEW first \in {<<>>, Wanted(Boot!This, ipl.table)}, Ordered(Boot!This, ipl.table, tried, first),
                    at.what = "halted" /\ tried # <<>> =>
                        Len(tried) = Len(first) + Cardinality(Entries(Boot!This, ipl.table))
             PROVE  Boot!BootsInOrder
  BY DEF TriedRight
<1>1. Boot!Candidates = Entries(Boot!This, ipl.table)
  BY DEF Boot!Candidates, Boot!Tryable, Entries
<1>2. \A i : Boot!Place(i) = Upto(Boot!This, ipl.table, i)
  BY <1>1, SameCount DEF Boot!Place, Upto
<1>3. Boot!Chosen = Wanted(Boot!This, ipl.table)
  BY DEF Boot!Chosen, Boot!NoChoice, Boot!Tryable, Wanted
<1>4. Boot!InOrder(first)
  BY <1>1, <1>2, SameCount DEF Boot!InOrder, Ordered
<1>5. at.what = "halted" /\ tried # <<>> => Boot!AllTried(first)
  BY <1>1, SameCount DEF Boot!AllTried
<1> QED
  BY <1>3, <1>4, <1>5 DEF Boot!BootsInOrder

-----------------------------------------------------------------------------
\* Nothing tried is in order.
LEMMA NothingOrdered == ASSUME NEW m, OrderFits(m), NEW table PROVE Ordered(m, table, <<>>, <<>>)
<1>1. Cardinality(Entries(m, table)) \in Nat
  BY EntriesFinite
<1> QED
  BY <1>1 DEF Ordered

LEMMA NothingTried == board \in Boards /\ tried = <<>> => TriedRight
  BY BoardIs, NothingOrdered DEF TriedRight

LEMMA NothingTriedNext == board' \in Boards /\ tried' = <<>> => TriedRight'
<1>1. (board \in Boards /\ tried = <<>> => TriedRight)'
  BY NothingTried, PTL
<1> QED
  BY <1>1

LEMMA BootStart == Boot!BootInit => BootInv
<1> SUFFICES ASSUME Boot!BootInit PROVE BootInv
  OBVIOUS
<1>1. /\ at = [what |-> "reset", pos |-> 0] /\ tried = <<>> /\ inits = <<>>
      /\ shutdown = [code |-> 0, s3vector |-> FALSE, resets |-> 0, asked |-> 0, resumed |-> 0]
      /\ ipl = [table |-> <<>>, first |-> 65535, seq |-> 65535] /\ board \in Boards
  BY DEF Boot!BootInit, Boot!At, Boot!NoChoice
<1>2. BootTypes
  BY <1>1 DEF BootTypes
<1>3. CodeInv /\ ResumeInv
  BY <1>1 DEF CodeInv, ResumeInv, Asking, Boot!Resumes
<1>4. ~Armed
  BY <1>1 DEF Armed
<1>5. ScanInv
  BY <1>1, <1>4 DEF ScanInv, Behind, Spaced, AllEnd, Visited
<1>6. TriedInv
  BY <1>1, <1>4 DEF TriedInv
<1>7. TriedRight
  BY <1>1, NothingTried
<1> QED
  BY <1>2, <1>3, <1>5, <1>6, <1>7 DEF BootInv

-----------------------------------------------------------------------------
(* Scanning for ROMs. *)

\* A scan step that finds a ROM goes on behind it, and one that does not at
\* the next place.
LEMMA ScanFinds ==
    ASSUME BootInv, NEW what \in {"video", "options"}, NEW last, Boot!Scan(what, last), Boot!Found(at.pos)
    PROVE  /\ inits' = Append(inits, at.pos) /\ inits' \in Seq(Nat)
           /\ at' \in [what : {what}, pos : Nat]
           /\ End(Boot!This, at.pos) <= 4 * at'.pos /\ 4 * at'.pos <= End(Boot!This, at.pos) + 3 /\ at.pos < at'.pos
<1> DEFINE b == Boot!This.roms[at.pos].blocks
<1>1. board \in Boards /\ at.what = what /\ at.pos \in Nat /\ at = [what |-> what, pos |-> at.pos] /\ inits \in Seq(Nat)
  BY DEF BootInv, BootTypes, Boot!Scan
<1>2. b \in Nat \ {0} /\ b <= 252
  BY <1>1, BoardIs DEF RomsFit, RomFits, Boot!Found
<1>3. Boot!Stride(b) \in Nat /\ b <= 4 * Boot!Stride(b) /\ 4 * Boot!Stride(b) <= b + 3
  BY <1>2, StrideIs
<1>4. inits' = Append(inits, at.pos) /\ at' = [at EXCEPT !.pos = at.pos + Boot!Stride(b)]
  BY DEF Boot!Scan
<1>5. at' = [what |-> what, pos |-> at.pos + Boot!Stride(b)]
  BY <1>1, <1>4
<1>6. at'.pos = at.pos + Boot!Stride(b) /\ End(Boot!This, at.pos) = 4 * at.pos + b
  BY <1>5 DEF End
<1> HIDE DEF b
<1>7. inits' \in Seq(Nat)
  BY <1>1, <1>4
<1>8. at' \in [what : {what}, pos : Nat]
  BY <1>1, <1>3, <1>5
<1>9. End(Boot!This, at.pos) <= 4 * at'.pos /\ 4 * at'.pos <= End(Boot!This, at.pos) + 3 /\ at.pos < at'.pos
  BY <1>1, <1>2, <1>3, <1>6
<1> QED
  BY <1>4, <1>7, <1>8, <1>9

LEMMA ScanPasses ==
    ASSUME BootInv, NEW what \in {"video", "options"}, NEW last, Boot!Scan(what, last), ~Boot!Found(at.pos)
    PROVE  inits' = inits /\ at' = [what |-> what, pos |-> at.pos + 1] /\ ipl' = ipl
<1>1. at.what = what /\ at.pos \in Nat /\ at = [what |-> what, pos |-> at.pos]
  BY DEF BootInv, BootTypes, Boot!Scan
<1>2. at' = [at EXCEPT !.pos = at.pos + 1] /\ UNCHANGED <<inits, ipl>>
  BY DEF Boot!Scan
<1> QED
  BY <1>1, <1>2

\* What a step of either scan does to the ROMs initialised.
LEMMA ScanSpaced ==
    ASSUME BootInv, NEW what \in {"video", "options"}, NEW last, Boot!Scan(what, last)
    PROVE  /\ Spaced(Boot!This, inits') /\ AllEnd(Boot!This, inits', at'.pos)
           /\ \A i \in DOMAIN inits' : inits'[i] \in {at.pos} \cup {inits[j] : j \in DOMAIN inits}
           /\ \A pos \in DOMAIN Boot!This.roms :
                 (Visited(Boot!This, inits, pos) \/ (Good(Boot!This, pos) /\ at.pos <= pos /\ pos < at'.pos)) =>
                     Visited(Boot!This, inits', pos)
<1> DEFINE m == Boot!This
<1>1. inits \in Seq(Nat) /\ at.pos \in Nat /\ board \in Boards
  BY DEF BootInv, BootTypes
<1>2. /\ \A i \in DOMAIN inits : Good(m, inits[i])
      /\ \A i, j \in DOMAIN inits : i < j => End(m, inits[i]) <= 4 * inits[j]
      /\ \A i \in DOMAIN inits : End(m, inits[i]) <= 4 * at.pos
  BY DEF BootInv, ScanInv, Boot!Scan, Spaced, AllEnd
<1>3. \A pos \in DOMAIN m.roms : Good(m, pos) => pos \in Nat /\ End(m, pos) \in Nat
  <2> SUFFICES ASSUME NEW pos \in DOMAIN m.roms, Good(m, pos) PROVE pos \in Nat /\ End(m, pos) \in Nat
    OBVIOUS
  <2>1. pos \in Nat /\ m.roms[pos].blocks \in Nat \ {0} /\ m.roms[pos].blocks <= 252
    BY <1>1, BoardIs DEF RomsFit, RomFits, Good
  <2> QED
    BY <2>1 DEF End
<1>4. CASE Good(m, at.pos)
  <2> DEFINE e == End(m, at.pos)
  <2>1. /\ inits' = Append(inits, at.pos) /\ at'.pos \in Nat
        /\ e <= 4 * at'.pos /\ 4 * at'.pos <= e + 3 /\ at.pos < at'.pos
    BY <1>4, ScanFinds DEF Good, Boot!Found
  <2>2. /\ DOMAIN inits = 1 .. Len(inits) /\ Len(inits) \in Nat
        /\ DOMAIN inits' = 1 .. Len(inits) + 1
        /\ \A i \in DOMAIN inits : inits'[i] = inits[i]
        /\ inits'[Len(inits) + 1] = at.pos
    BY <1>1, <2>1
  <2>3. e \in Nat /\ at.pos \in DOMAIN m.roms
    BY <1>3, <1>4 DEF Good
  <2>4. \A i \in DOMAIN inits : End(m, inits[i]) \in Nat
    BY <1>2, <1>3 DEF Good
  <2>5. \A i \in DOMAIN inits' : Good(m, inits'[i])
    BY <1>2, <1>4, <2>2
  <2>6. \A i, j \in DOMAIN inits' : i < j => End(m, inits'[i]) <= 4 * inits'[j]
    <3> SUFFICES ASSUME NEW i \in DOMAIN inits', NEW j \in DOMAIN inits', i < j PROVE End(m, inits'[i]) <= 4 * inits'[j]
      OBVIOUS
    <3>1. i \in DOMAIN inits
      BY <2>2
    <3> QED
      BY <1>2, <2>2, <3>1
  <2>7. \A i \in DOMAIN inits' : End(m, inits'[i]) <= 4 * at'.pos
    <3> SUFFICES ASSUME NEW i \in DOMAIN inits' PROVE End(m, inits'[i]) <= 4 * at'.pos
      OBVIOUS
    <3>1. CASE i \in DOMAIN inits
      <4> DEFINE x == End(m, inits[i])
      <4>1. x <= 4 * at.pos /\ x \in Nat /\ inits'[i] = inits[i]
        BY <1>2, <2>2, <2>4, <3>1
      <4> HIDE DEF x
      <4>2. x <= 4 * at'.pos
        BY <1>1, <2>1, <4>1
      <4> QED
        BY <4>1, <4>2 DEF x
    <3>2. CASE i = Len(inits) + 1
      BY <2>1, <2>2, <3>2
    <3> QED
      BY <2>2, <3>1, <3>2
  <2>8. \A i \in DOMAIN inits' : inits'[i] \in {at.pos} \cup {inits[j] : j \in DOMAIN inits}
    BY <2>2
  <2>9. ASSUME NEW pos \in DOMAIN m.roms, Visited(m, inits, pos) \/ (Good(m, pos) /\ at.pos <= pos /\ pos < at'.pos)
        PROVE  Visited(m, inits', pos)
    <3>1. CASE Visited(m, inits, pos)
      BY <2>2, <3>1 DEF Visited
    <3>2. CASE Good(m, pos) /\ at.pos <= pos /\ pos < at'.pos
      <4>1. pos \in Nat
        BY <1>3, <3>2
      <4>2. pos = at.pos \/ (at.pos < pos /\ 4 * pos < e)
        <5> HIDE DEF e
        <5> QED
          BY <1>1, <2>1, <2>3, <3>2, <4>1
      <4>3. Len(inits) + 1 \in DOMAIN inits'
        BY <2>2
      <4> QED
        BY <2>2, <4>2, <4>3 DEF Visited
    <3> QED
      BY <2>9, <3>1, <3>2
  <2> QED
    BY <2>5, <2>6, <2>7, <2>8, <2>9 DEF Spaced, AllEnd
<1>5. CASE ~Good(m, at.pos)
  <2>1. inits' = inits /\ at' = [what |-> what, pos |-> at.pos + 1]
    BY <1>5, ScanPasses DEF Good, Boot!Found
  <2>2. at'.pos = at.pos + 1
    BY <2>1
  <2>3. \A i \in DOMAIN inits : End(m, inits[i]) \in Nat
    BY <1>2, <1>3 DEF Good
  <2>4. \A i \in DOMAIN inits' : End(m, inits'[i]) <= 4 * at'.pos
    <3> SUFFICES ASSUME NEW i \in DOMAIN inits PROVE End(m, inits[i]) <= 4 * at'.pos
      BY <2>1
    <3> DEFINE x == End(m, inits[i])
    <3>1. x <= 4 * at.pos /\ x \in Nat
      BY <1>2, <2>3
    <3> HIDE DEF x
    <3>2. x <= 4 * at'.pos
      BY <1>1, <2>2, <3>1
    <3> QED
      BY <3>2 DEF x
  <2>5. ASSUME NEW pos \in DOMAIN m.roms, Visited(m, inits, pos) \/ (Good(m, pos) /\ at.pos <= pos /\ pos < at'.pos)
        PROVE  Visited(m, inits', pos)
    <3>1. Visited(m, inits, pos)
      <4>1. Good(m, pos) /\ at.pos <= pos /\ pos < at'.pos => pos = at.pos
        BY <1>1, <1>3, <2>2
      <4> QED
        BY <1>5, <2>5, <4>1
    <3> QED
      BY <2>1, <3>1 DEF Visited
  <2> QED
    BY <1>2, <2>1, <2>4, <2>5 DEF Spaced, AllEnd
<1> QED
  BY <1>4, <1>5

LEMMA BootScans ==
    ASSUME BootInv, Boot!VideoScan \/ Boot!OptionScan
    PROVE  BootInv'
<1> PICK what \in {"video", "options"} :
        LET last == IF what = "video" THEN Boot!This.video ELSE Boot!This.last IN Boot!Scan(what, last)
  BY DEF Boot!VideoScan, Boot!OptionScan
<1> DEFINE last == IF what = "video" THEN Boot!This.video ELSE Boot!This.last
<1>0. Boot!Scan(what, last)
  OBVIOUS
<1>1. at.what = what /\ at.pos <= last /\ UNCHANGED <<board, shutdown, tried>> /\ Boot!This' = Boot!This
  BY <1>0 DEF Boot!Scan, Boot!This
<1>2. at' \in [what : {what}, pos : Nat] /\ inits' \in Seq(Nat) /\ at.pos < at'.pos
  <2>1. CASE Boot!Found(at.pos)
    BY <1>0, <2>1, ScanFinds
  <2>2. CASE ~Boot!Found(at.pos)
    <3>1. inits' = inits /\ at' = [what |-> what, pos |-> at.pos + 1]
      BY <1>0, <2>2, ScanPasses
    <3> QED
      BY <3>1 DEF BootInv, BootTypes
  <2> QED
    BY <2>1, <2>2
<1>3. /\ board \in Boards /\ at.pos \in Nat /\ inits \in Seq(Nat)
      /\ ipl \in [table : Seq({"floppy", "disk", "cdrom", "rom"}), first : Nat, seq : Nat] /\ ipl.seq < 65536
      /\ tried = <<>> /\ (what = "options" => ipl.first \in {65535, Boot!This.choice})
  BY <1>1 DEF BootInv, BootTypes, TriedInv
<1>4. /\ ipl' \in [table : Seq({"floppy", "disk", "cdrom", "rom"}), first : Nat, seq : Nat] /\ ipl'.seq < 65536
      /\ what = "options" => ipl'.first \in {65535, Boot!This.choice}
  <2>1. CASE ipl' = ipl
    BY <1>3, <2>1
  <2>2. CASE what = "options" /\ ipl' = [ipl EXCEPT !.table = Append(ipl.table, "rom"), !.first = Boot!This.choice]
    <3>0. ipl' = [table |-> Append(ipl.table, "rom"), first |-> Boot!This.choice, seq |-> ipl.seq]
      <4>1. ipl = [table |-> ipl.table, first |-> ipl.first, seq |-> ipl.seq]
        BY <1>3
      <4> QED
        BY <2>2, <4>1
    <3>1. Boot!This.choice \in Nat
      BY <1>3, BoardIs DEF OrderFits
    <3>2. Append(ipl.table, "rom") \in Seq({"floppy", "disk", "cdrom", "rom"})
      BY <1>3
    <3> QED
      BY <1>3, <3>0, <3>1, <3>2
  <2> QED
    BY <1>0, <2>1, <2>2 DEF Boot!Scan
<1>5. BootTypes'
  BY <1>1, <1>2, <1>3, <1>4 DEF BootInv, BootTypes
<1>6. CodeInv' /\ ResumeInv' /\ ~Armed'
  BY <1>1, <1>2 DEF BootInv, CodeInv, ResumeInv, Asking, Boot!Resumes, Armed
<1>7. ScanInv'
  <2>1. Spaced(Boot!This', inits') /\ AllEnd(Boot!This', inits', at'.pos)
    BY <1>0, <1>1, ScanSpaced
  <2>2. what = "video" => \A i \in DOMAIN inits' : inits'[i] <= Boot!This.video
    <3>1. \A i \in DOMAIN inits' : inits'[i] \in {at.pos} \cup {inits[j] : j \in DOMAIN inits}
      BY <1>0, ScanSpaced
    <3> QED
      BY <1>1, <3>1 DEF BootInv, ScanInv
  <2>3. ASSUME NEW pos \in DOMAIN Boot!This.roms, Good(Boot!This, pos), Behind(pos)'
        PROVE  Visited(Boot!This, inits', pos)
    <3>1. pos \in Nat
      BY <1>3, BoardIs DEF RomsFit
    <3>2. Behind(pos) \/ (at.pos <= pos /\ pos < at'.pos)
      BY <1>1, <1>2, <1>3, <1>6, <2>3, <3>1 DEF Behind
    <3>3. Behind(pos) => Visited(Boot!This, inits, pos)
      BY <2>3 DEF BootInv, ScanInv
    <3> QED
      BY <1>0, <2>3, <3>2, <3>3, ScanSpaced
  <2>4. \A pos \in DOMAIN Boot!This'.roms : Good(Boot!This', pos) /\ Behind(pos)' => Visited(Boot!This', inits', pos)
    BY <1>1, <2>3
  <2> QED
    BY <1>1, <1>2, <2>1, <2>2, <2>4 DEF ScanInv
<1>8. TriedInv'
  BY <1>1, <1>2, <1>3, <1>4, <1>6 DEF TriedInv
<1>9. TriedRight'
  <2>1. board' \in Boards /\ tried' = <<>>
    BY <1>1, <1>3
  <2> QED
    BY <2>1, NothingTriedNext
<1> QED
  BY <1>5, <1>6, <1>7, <1>8, <1>9 DEF BootInv

\* From the video ROM to the options.
LEMMA BootDrives ==
    ASSUME BootInv, Boot!Drives
    PROVE  BootInv'
<1>1. /\ at.what = "video" /\ at.pos > Boot!This.video
      /\ at' = [what |-> "options", pos |-> Boot!This.options]
      /\ ipl' = [table |-> <<"floppy", "disk", "cdrom">>, first |-> Boot!NoChoice, seq |-> Boot!NoChoice]
      /\ UNCHANGED <<board, shutdown, inits, tried>> /\ Boot!This' = Boot!This
  BY DEF Boot!Drives, Boot!This
<1>2. /\ board \in Boards /\ at.pos \in Nat /\ inits \in Seq(Nat) /\ tried = <<>>
  BY <1>1 DEF BootInv, BootTypes, TriedInv
<1>3. RomsFit(Boot!This)
  BY <1>2, BoardIs
<1>4. at'.what = "options" /\ at'.pos = Boot!This.options /\ at' \in [what : {"options"}, pos : Nat]
  BY <1>1, <1>3 DEF RomsFit
<1>5. BootTypes'
  BY <1>1, <1>4 DEF BootInv, BootTypes, Boot!NoChoice
<1>6. CodeInv' /\ ResumeInv' /\ ~Armed'
  BY <1>1, <1>4 DEF BootInv, CodeInv, ResumeInv, Asking, Boot!Resumes, Armed
<1>7. ScanInv'
  <2>1. Spaced(Boot!This, inits) /\ \A i \in DOMAIN inits : inits[i] <= Boot!This.video
    BY <1>1 DEF BootInv, ScanInv
  <2>2. AllEnd(Boot!This, inits, Boot!This.options)
    BY <1>3, <2>1 DEF RomsFit, RomFits, End, Good, Spaced, AllEnd
  <2>3. ASSUME NEW pos \in DOMAIN Boot!This.roms, Good(Boot!This, pos), Behind(pos)'
        PROVE  Visited(Boot!This, inits, pos)
    <3>1. pos \in Nat /\ Boot!This.video \in Nat /\ Boot!This.options \in Nat
      BY <1>3 DEF RomsFit
    <3>2. Behind(pos)
      BY <1>1, <1>2, <1>4, <1>6, <2>3, <3>1 DEF Behind
    <3> QED
      BY <2>3, <3>2 DEF BootInv, ScanInv
  <2>4. \A pos \in DOMAIN Boot!This'.roms : Good(Boot!This', pos) /\ Behind(pos)' => Visited(Boot!This', inits', pos)
    BY <1>1, <2>3
  <2> QED
    BY <1>1, <1>4, <2>1, <2>2, <2>4 DEF ScanInv
<1>8. TriedInv'
  BY <1>1, <1>2, <1>4, <1>6 DEF TriedInv, Boot!NoChoice
<1>9. TriedRight'
  <2>1. board' \in Boards /\ tried' = <<>>
    BY <1>1, <1>2
  <2> QED
    BY <2>1, NothingTriedNext
<1> QED
  BY <1>5, <1>6, <1>7, <1>8, <1>9 DEF BootInv

-----------------------------------------------------------------------------
(* Booting, and what a system does. *)

Attempts == at.what \in {"boot", "failed", "system"} \/ Armed

\* What a step that leaves the ROMs and the devices tried alone has to show.
LEMMA BootSameRoms ==
    ASSUME BootInv, UNCHANGED <<board, inits>>, at'.what \notin {"video", "options"},
           Attempts' => (at.what = "options" /\ at.pos > Boot!This.last) \/ Attempts
    PROVE  ScanInv' /\ Boot!This' = Boot!This
<1>1. Boot!This' = Boot!This
  BY DEF Boot!This
<1>2. RomsFit(Boot!This)
  BY BoardIs DEF BootInv, BootTypes
<1>3. ASSUME NEW pos \in DOMAIN Boot!This.roms, Behind(pos)' PROVE Behind(pos)
  <2>1. pos \in Nat /\ Boot!This.video \in Nat /\ Boot!This.options \in Nat /\ Boot!This.last \in Nat /\ at.pos \in Nat
    BY <1>2 DEF RomsFit, BootInv, BootTypes
  <2>2. Attempts' /\ (pos <= Boot!This.video \/ (Boot!This.options <= pos /\ pos <= Boot!This.last))
    BY <1>1, <1>3 DEF Behind, Attempts
  <2> QED
    BY <2>1, <2>2 DEF Behind, Attempts
<1>4. Spaced(Boot!This', inits')
  BY <1>1 DEF BootInv, ScanInv
<1>5. ASSUME NEW pos \in DOMAIN Boot!This'.roms, Good(Boot!This', pos), Behind(pos)' PROVE Visited(Boot!This', inits', pos)
  BY <1>1, <1>3, <1>5 DEF BootInv, ScanInv
<1> QED
  BY <1>1, <1>4, <1>5 DEF ScanInv

LEMMA BootPost ==
    ASSUME BootInv, Boot!Post
    PROVE  BootInv'
<1> DEFINE code == shutdown.code
           resumes == Asking = 1
<1>0. resumes <=> code \in Boot!Resumes \/ (code = 254 /\ shutdown.s3vector)
  BY DEF Asking
<1>1. /\ at.what = "reset" /\ UNCHANGED <<board, ipl>> /\ Boot!This' = Boot!This
      /\ shutdown'.code = 0 /\ shutdown'.asked = shutdown.asked
      /\ shutdown'.resumed = shutdown.resumed + Asking
      /\ shutdown' = [code |-> shutdown'.code, s3vector |-> shutdown'.s3vector, resets |-> shutdown'.resets,
                      asked |-> shutdown'.asked, resumed |-> shutdown'.resumed]
  <2>1. shutdown = [code |-> shutdown.code, s3vector |-> shutdown.s3vector, resets |-> shutdown.resets,
                    asked |-> shutdown.asked, resumed |-> shutdown.resumed]
    BY DEF BootInv, BootTypes
  <2>2. shutdown' = [shutdown EXCEPT !.code = 0, !.resumed = shutdown.resumed + Asking]
    BY DEF Boot!Post, Boot!Cleared, Asking
  <2>3. shutdown' = [code |-> 0, s3vector |-> shutdown.s3vector, resets |-> shutdown.resets,
                     asked |-> shutdown.asked, resumed |-> shutdown.resumed + Asking]
    BY <2>1, <2>2
  <2>4. at.what = "reset" /\ UNCHANGED <<board, ipl>> /\ Boot!This' = Boot!This
    BY DEF Boot!Post, Boot!This
  <2> QED
    BY <2>3, <2>4
<1>2. Asking \in {0, 1} /\ Asking' = 0
  BY <1>1 DEF Asking, Boot!Resumes
<1>3. ResumeInv'
  BY <1>1, <1>2 DEF BootInv, BootTypes, ResumeInv
<1>4. shutdown'.asked \in Nat /\ shutdown'.resumed \in Nat
  BY <1>1, <1>2 DEF BootInv, BootTypes
<1>5. CASE resumes
  <2>1. at' = [what |-> "system", pos |-> 0] /\ UNCHANGED <<inits, tried>>
    <3>1. code \in Boot!Resumes \/ (code = 254 /\ shutdown.s3vector)
      BY <1>0, <1>5
    <3>2. at' = Boot!At("system") /\ UNCHANGED <<inits, tried>>
      BY <3>1 DEF Boot!Post, Boot!Panics
    <3> QED
      BY <3>2 DEF Boot!At
  <2>2. Armed
    BY <1>0, <1>1, <1>5 DEF Armed, Boot!Resumes
  <2>3. BootTypes'
    BY <1>1, <1>4, <2>1 DEF BootInv, BootTypes
  <2>4. ScanInv'
    BY <1>1, <2>1, <2>2, BootSameRoms DEF Attempts
  <2>5. TriedInv'
    <3>1. Before' = Before
      BY <1>1, <2>1 DEF Before
    <3> QED
      BY <1>1, <2>1, <2>2, <3>1 DEF BootInv, TriedInv
  <2>6. TriedRight'
    BY <1>1, <2>1 DEF BootInv, TriedRight
  <2> QED
    BY <1>1, <1>3, <2>1, <2>3, <2>4, <2>5, <2>6 DEF BootInv, CodeInv
<1>6. CASE ~resumes
  <2>1. at' \in [what : {"halted", "video"}, pos : {0}] /\ inits' = <<>> /\ tried' = <<>>
    BY <1>0, <1>6 DEF Boot!Post, Boot!At
  <2>2. BootTypes'
    BY <1>1, <1>4, <2>1 DEF BootInv, BootTypes
  <2>3. ~Armed' /\ CodeInv'
    BY <1>1, <2>1 DEF Armed, CodeInv
  <2>4. RomsFit(Boot!This)
    BY BoardIs DEF BootInv, BootTypes
  <2>5. \A pos \in DOMAIN Boot!This'.roms : ~Behind(pos)'
    BY <1>1, <2>1, <2>3, <2>4 DEF Behind, RomsFit
  <2>6. ScanInv'
    BY <2>1, <2>5 DEF ScanInv, Spaced, AllEnd
  <2>7. TriedInv'
    BY <2>1, <2>3 DEF TriedInv
  <2>8. TriedRight'
    BY <2>1, <2>2, NothingTriedNext DEF BootTypes
  <2> QED
    BY <1>3, <2>2, <2>3, <2>6, <2>7, <2>8 DEF BootInv
<1> QED
  BY <1>5, <1>6

\* INT 19h, from the test or from a system.
LEMMA BootStarts ==
    ASSUME BootInv, Boot!BootAfterPost \/ Boot!Reboot
    PROVE  BootInv'
<1>1. /\ at' = [what |-> "boot", pos |-> 0] /\ ipl' = [ipl EXCEPT !.seq = 0] /\ tried' = <<>>
      /\ UNCHANGED <<board, shutdown, inits>>
      /\ (at.what = "options" /\ at.pos > Boot!This.last) \/ (at.what = "system" /\ shutdown.code = 0)
  <2>1. Boot!StartBoot
    BY DEF Boot!BootAfterPost, Boot!Reboot
  <2>2. (at.what = "options" /\ at.pos > Boot!This.last) \/ (at.what = "system" /\ shutdown.code = 0)
    BY DEF Boot!BootAfterPost, Boot!Reboot, Boot!Running
  <2> QED
    BY <2>1, <2>2 DEF Boot!StartBoot, Boot!At
<1>2. /\ board \in Boards
      /\ ipl \in [table : Seq({"floppy", "disk", "cdrom", "rom"}), first : Nat, seq : Nat]
  BY DEF BootInv, BootTypes
<1>3. ipl' = [table |-> ipl.table, first |-> ipl.first, seq |-> 0]
  <2>1. ipl = [table |-> ipl.table, first |-> ipl.first, seq |-> ipl.seq]
    BY <1>2
  <2> QED
    BY <1>1, <2>1
<1>4. BootTypes'
  <2>1. ipl' \in [table : Seq({"floppy", "disk", "cdrom", "rom"}), first : Nat, seq : Nat] /\ ipl'.seq < 65536
    BY <1>2, <1>3
  <2> QED
    BY <1>1, <2>1 DEF BootInv, BootTypes
<1>5. shutdown.code = 0 /\ CodeInv' /\ ResumeInv' /\ ~Armed'
  BY <1>1 DEF BootInv, CodeInv, ResumeInv, Asking, Boot!Resumes, Armed
<1>6. ScanInv' /\ Boot!This' = Boot!This
  BY <1>1, BootSameRoms DEF Attempts
<1>7. OrderFits(Boot!This)
  BY <1>2, BoardIs
<1>8. TriedRight'
  BY <1>1, <1>4, NothingTriedNext DEF BootTypes
<1>9. TriedInv'
  <2>1. Reached(Boot!This, ipl'.table, tried', 0, <<>>)
    BY <1>1, <1>7, EntriesFinite, NothingOrdered DEF Reached
  <2>2. Before' = 0
    BY <1>1, <1>3 DEF Before
  <2>3. ipl'.first # 65535 => ipl'.first = Boot!This.choice
    BY <1>1, <1>3 DEF BootInv, TriedInv
  <2> QED
    BY <1>1, <1>3, <1>6, <2>1, <2>2, <2>3 DEF TriedInv
<1> QED
  BY <1>4, <1>5, <1>6, <1>8, <1>9 DEF BootInv

\* INT 18h, after an attempt that failed or from a system.
LEMMA BootNextDevice ==
    ASSUME BootInv, Boot!NextDevice \/ Boot!GiveUp
    PROVE  BootInv'
<1>1. /\ at' = [what |-> "boot", pos |-> 0] /\ ipl' = [ipl EXCEPT !.seq = (ipl.seq + 1) % 65536]
      /\ UNCHANGED <<board, shutdown, inits, tried>> /\ at.what \in {"failed", "system"}
      /\ at.what = "system" => shutdown.code = 0
  BY DEF Boot!NextDevice, Boot!GiveUp, Boot!int18, Boot!Running, Boot!At
<1>2. /\ board \in Boards
      /\ ipl \in [table : Seq({"floppy", "disk", "cdrom", "rom"}), first : Nat, seq : Nat]
  BY DEF BootInv, BootTypes
<1>3. ipl' = [table |-> ipl.table, first |-> ipl.first, seq |-> (ipl.seq + 1) % 65536]
  <2>1. ipl = [table |-> ipl.table, first |-> ipl.first, seq |-> ipl.seq]
    BY <1>2
  <2> QED
    BY <1>1, <2>1
<1>4. (ipl.seq + 1) % 65536 \in Nat /\ (ipl.seq + 1) % 65536 < 65536
  <2>1. ipl.seq \in Nat
    BY <1>2
  <2> QED
    BY <2>1
<1>5. BootTypes'
  <2>1. ipl' \in [table : Seq({"floppy", "disk", "cdrom", "rom"}), first : Nat, seq : Nat] /\ ipl'.seq < 65536
    BY <1>2, <1>3, <1>4
  <2> QED
    BY <1>1, <2>1 DEF BootInv, BootTypes
<1>6. CodeInv' /\ ResumeInv' /\ ~Armed'
  BY <1>1 DEF BootInv, CodeInv, ResumeInv, Asking, Boot!Resumes, Armed
<1>7. ScanInv' /\ Boot!This' = Boot!This
  BY <1>1, BootSameRoms DEF Attempts
<1>8. TriedRight'
  BY <1>1, <1>3, <1>7 DEF BootInv, TriedRight
<1>9. TriedInv'
  <2>1. Before' = Before /\ ipl'.first = ipl.first /\ ipl'.table = ipl.table
    BY <1>1, <1>3 DEF Before
  <2>2. ipl.first = 65535
    BY <1>1 DEF BootInv, TriedInv
  <2> QED
    BY <1>1, <1>7, <2>1, <2>2 DEF BootInv, TriedInv
<1> QED
  BY <1>5, <1>6, <1>7, <1>8, <1>9 DEF BootInv

\* A system that arms a shutdown code, and the reset.
LEMMA BootArmsResets ==
    ASSUME BootInv, Boot!Arm \/ Boot!Reset
    PROVE  BootInv'
<1>1. shutdown = [code |-> shutdown.code, s3vector |-> shutdown.s3vector, resets |-> shutdown.resets,
                  asked |-> shutdown.asked, resumed |-> shutdown.resumed]
  BY DEF BootInv, BootTypes
<1>2. CASE Boot!Arm
  <2>1. /\ at.what = "system" /\ shutdown.code = 0 /\ UNCHANGED <<board, at, ipl, inits, tried>>
        /\ shutdown'.resumed = shutdown.resumed /\ shutdown'.asked = shutdown.asked + Asking'
        /\ shutdown' = [code |-> shutdown'.code, s3vector |-> shutdown'.s3vector, resets |-> shutdown'.resets,
                        asked |-> shutdown'.asked, resumed |-> shutdown'.resumed]
    <3>1. PICK code \in Codes, vector \in BOOLEAN :
              shutdown' = [shutdown EXCEPT !.code = code, !.s3vector = vector,
                             !.asked = shutdown.asked +
                                 (IF code \in Boot!Resumes \/ (code = 254 /\ vector) THEN 1 ELSE 0)]
      BY <1>2 DEF Boot!Arm
    <3> DEFINE more == IF code \in Boot!Resumes \/ (code = 254 /\ vector) THEN 1 ELSE 0
    <3>2. shutdown' = [code |-> code, s3vector |-> vector, resets |-> shutdown.resets,
                       asked |-> shutdown.asked + more, resumed |-> shutdown.resumed]
      BY <1>1, <3>1
    <3>3. shutdown'.code = code /\ shutdown'.s3vector = vector
      BY <3>2
    <3>4. Asking' = more
      BY <3>3 DEF Asking, Boot!Resumes
    <3> HIDE DEF more
    <3> QED
      BY <1>2, <3>2, <3>4 DEF Boot!Arm
  <2>2. Asking = 0 /\ Asking' \in {0, 1}
    BY <2>1 DEF Asking, Boot!Resumes
  <2>3. ResumeInv' /\ shutdown'.asked \in Nat /\ shutdown'.resumed \in Nat
    BY <2>1, <2>2 DEF BootInv, BootTypes, ResumeInv
  <2>4. BootTypes' /\ CodeInv'
    BY <2>1, <2>3 DEF BootInv, BootTypes, CodeInv
  <2>5. ScanInv' /\ Boot!This' = Boot!This
    BY <2>1, BootSameRoms DEF Attempts
  <2>6. TriedInv' /\ TriedRight'
    <3>1. Before' = Before
      BY <2>1 DEF Before
    <3> QED
      BY <2>1, <2>5, <3>1 DEF BootInv, TriedInv, TriedRight
  <2> QED
    BY <2>3, <2>4, <2>5, <2>6 DEF BootInv
<1>3. CASE Boot!Reset
  <2>1. /\ at.what \in {"system", "halted", "boot", "video"} /\ at' = [what |-> "reset", pos |-> 0]
        /\ UNCHANGED <<board, ipl, inits, tried>>
        /\ shutdown' = [code |-> shutdown.code, s3vector |-> shutdown.s3vector, resets |-> shutdown.resets + 1,
                        asked |-> shutdown.asked, resumed |-> shutdown.resumed]
    BY <1>1, <1>3 DEF Boot!Reset, Boot!At
  <2>2. /\ shutdown'.code = shutdown.code /\ shutdown'.s3vector = shutdown.s3vector
        /\ shutdown'.asked = shutdown.asked /\ shutdown'.resumed = shutdown.resumed
        /\ shutdown' = [code |-> shutdown'.code, s3vector |-> shutdown'.s3vector, resets |-> shutdown'.resets,
                        asked |-> shutdown'.asked, resumed |-> shutdown'.resumed]
    BY <2>1
  <2>3. BootTypes' /\ CodeInv' /\ ResumeInv'
    BY <2>1, <2>2 DEF BootInv, BootTypes, CodeInv, ResumeInv, Asking, Boot!Resumes
  <2>4. Attempts' => at.what = "system"
    BY <2>1, <2>2 DEF BootInv, CodeInv, Attempts, Armed
  <2>5. ScanInv' /\ Boot!This' = Boot!This
    BY <2>1, <2>4, BootSameRoms DEF Attempts
  <2>6. TriedInv'
    <3>1. at.what = "system" => Before' = Before
      BY <2>1 DEF Before
    <3> QED
      BY <2>1, <2>4, <2>5, <3>1 DEF BootInv, TriedInv, Attempts
  <2>7. TriedRight'
    BY <2>1, <2>5 DEF BootInv, TriedRight
  <2> QED
    BY <2>3, <2>5, <2>6, <2>7 DEF BootInv
<1> QED
  BY <1>2, <1>3

\* An attempt at a device there is is one more device tried.
LEMMA Attempted ==
    ASSUME BootInv, NEW dev \in Nat, Boot!Attempt(dev)
    PROVE  /\ at' \in [what : {"failed", "system"}, pos : {0}]
           /\ tried' = IF dev \in 1 .. Len(ipl.table) THEN Append(tried, dev) ELSE tried
<1>1. Len(ipl.table) \in Nat
  BY DEF BootInv, BootTypes
<1>2. dev - 1 \in 0 .. Len(ipl.table) - 1 <=> dev \in 1 .. Len(ipl.table)
  BY <1>1
<1>3. CASE dev \in 1 .. Len(ipl.table)
  <2> DEFINE floppy == ipl.table[dev] = "floppy" /\ Boot!This.media[1] = "unsigned" /\ Boot!This.skip
             to == CASE ipl.table[dev] = "rom" -> "system" [] floppy -> "system"
                     [] OTHER -> IF Boot!This.media[dev] = "boots" THEN "system" ELSE "failed"
  <2>1. at' = Boot!At(to) /\ tried' = Append(tried, dev)
    BY <1>2, <1>3 DEF Boot!Attempt
  <2>2. to \in {"failed", "system"}
    OBVIOUS
  <2> HIDE DEF to
  <2> QED
    BY <1>3, <2>1, <2>2 DEF Boot!At
<1>4. CASE dev \notin 1 .. Len(ipl.table)
  <2>1. at' = Boot!At("failed") /\ tried' = tried
    BY <1>2, <1>4 DEF Boot!Attempt
  <2> QED
    BY <1>4, <2>1 DEF Boot!At
<1> QED
  BY <1>3, <1>4

\* The user's device is tried before the order.
LEMMA WantedReached ==
    ASSUME NEW m, OrderFits(m), m.choice # 65535, NEW table
    PROVE  Reached(m, table, IF m.choice \in 1 .. Len(table) THEN <<m.choice>> ELSE <<>>, 0, Wanted(m, table))
<1>1. Cardinality(Entries(m, table)) \in Nat /\ Upto(m, table, 0) = 0
  BY EntriesFinite
<1> DEFINE s == Wanted(m, table)
<1>2. s = IF m.choice \in 1 .. Len(table) THEN <<m.choice>> ELSE <<>>
  BY DEF Wanted
<1>3. Len(s) \in Nat /\ DOMAIN s = 1 .. Len(s)
  <2>1. s = <<>> \/ s = <<m.choice>>
    BY <1>2
  <2> HIDE DEF s
  <2> QED
    BY <2>1
<1> HIDE DEF s
<1>4. Ordered(m, table, s, s)
  BY <1>1, <1>3 DEF Ordered
<1>5. Reached(m, table, s, 0, s)
  BY <1>1, <1>3, <1>4 DEF Reached
<1> QED
  BY <1>2, <1>5 DEF s

\* One more entry of the order is dealt with.
LEMMA NextReached ==
    ASSUME NEW m, OrderFits(m), NEW table, NEW s \in Seq(Nat), NEW first \in {<<>>, Wanted(m, table)}, NEW i \in 0 .. 2,
           Reached(m, table, s, i, first), m.order[i + 1] # 0
    PROVE  Reached(m, table, IF m.order[i + 1] \in 1 .. Len(table) THEN Append(s, m.order[i + 1]) ELSE s, i + 1, first)
<1> DEFINE dev == m.order[i + 1]
           N == Upto(m, table, i)
           C == Cardinality(Entries(m, table))
           L == Len(first)
<1>1. N \in Nat /\ N <= C /\ Upto(m, table, i + 1) \in Nat /\ Upto(m, table, i + 1) <= C /\ C \in Nat
  <2>1. i \in Nat /\ i + 1 \in Nat
    OBVIOUS
  <2>2. C \in Nat /\ \A k \in Nat : Upto(m, table, k) \in Nat /\ Upto(m, table, k) <= C
    BY EntriesFinite
  <2> HIDE DEF C
  <2> QED
    BY <2>1, <2>2
<1>2. \A k \in 1 .. i + 1 : m.order[k] # 0
  <2>1. \A k \in 1 .. i : m.order[k] # 0
    BY DEF Reached
  <2>2. \A k \in 1 .. i + 1 : k \in 1 .. i \/ k = i + 1
    OBVIOUS
  <2> QED
    BY <2>1, <2>2
<1>3. L \in Nat
  BY DEF Wanted
<1>4. Len(s) = L + N /\ Ordered(m, table, s, first)
  BY DEF Reached
<1>5. CASE dev \in 1 .. Len(table)
  <2>1. i + 1 \in Entries(m, table) /\ Upto(m, table, i + 1) = N + 1
    BY <1>2, <1>5, UptoNext
  <2> DEFINE t == Append(s, dev)
  <2>2. Len(t) = Len(s) + 1 /\ t[Len(t)] = dev /\ DOMAIN t = 1 .. Len(t) /\ DOMAIN s = 1 .. Len(s) /\ Len(s) \in Nat
    OBVIOUS
  <2>3. \A n \in DOMAIN s : t[n] = s[n]
    OBVIOUS
  <2> HIDE DEF t, L, N, C, dev
  <2>4. Len(t) = L + Upto(m, table, i + 1) /\ Len(t) <= L + C
    BY <1>1, <1>3, <1>4, <2>1, <2>2
  <2>5. ASSUME NEW n \in DOMAIN t
        PROVE  IF n <= L THEN t[n] = first[n]
               ELSE \E j \in Entries(m, table) : t[n] = m.order[j] /\ L + Upto(m, table, j) = n
    <3>1. CASE n \in DOMAIN s
      <4>1. t[n] = s[n]
        BY <2>3, <3>1
      <4> QED
        BY <1>4, <3>1, <4>1 DEF Ordered, L
    <3>2. CASE n = Len(t)
      <4>1. ~(n <= L)
        BY <1>1, <1>3, <2>1, <2>4, <3>2
      <4> QED
        BY <2>1, <2>2, <2>4, <3>2, <4>1 DEF dev
    <3> QED
      BY <2>2, <3>1, <3>2
  <2>6. Ordered(m, table, t, first)
    BY <2>4, <2>5 DEF Ordered, L, C
  <2>7. Reached(m, table, t, i + 1, first)
    BY <1>2, <2>4, <2>6 DEF Reached, L
  <2> QED
    BY <1>5, <2>7 DEF t, dev
<1>6. CASE dev \notin 1 .. Len(table)
  <2>1. Upto(m, table, i + 1) = N
    BY <1>2, <1>6, UptoNext
  <2>2. Reached(m, table, s, i + 1, first)
    BY <1>2, <1>4, <2>1 DEF Reached
  <2> QED
    BY <1>6, <2>2
<1> QED
  BY <1>5, <1>6

LEMMA BootLoads ==
    ASSUME BootInv, Boot!int19_function
    PROVE  BootInv'
<1> DEFINE m == Boot!This
           table == ipl.table
<1>1. at.what = "boot" /\ UNCHANGED <<board, shutdown, inits>> /\ shutdown.code = 0 /\ ~Armed
  BY DEF Boot!int19_function, BootInv, CodeInv, Armed
<1>2. /\ board \in Boards /\ tried \in Seq(Nat)
      /\ ipl \in [table : Seq({"floppy", "disk", "cdrom", "rom"}), first : Nat, seq : Nat] /\ ipl.seq < 65536
      /\ ipl = [table |-> table, first |-> ipl.first, seq |-> ipl.seq]
  BY DEF BootInv, BootTypes
<1>3. OrderFits(m)
  BY <1>2, BoardIs
<1>4. /\ ipl.first # 65535 => ipl.seq = 0 /\ tried = <<>> /\ ipl.first = m.choice
      /\ Before = ipl.seq
  BY <1>1 DEF BootInv, TriedInv, Before
<1>5. PICK first \in {<<>>, Wanted(m, table)} : Reached(m, table, tried, ipl.seq, first)
  BY <1>1, <1>4 DEF BootInv, TriedInv
<1>6. ASSUME ipl'.table = table, ipl' \in [table : Seq({"floppy", "disk", "cdrom", "rom"}), first : Nat, seq : Nat],
             ipl'.first = 65535, ipl'.seq < 65536, at' \in [what : {"failed", "system"}, pos : {0}],
             tried' \in Seq(Nat),
             NEW f \in {<<>>, Wanted(m, table)}, Reached(m, table, tried', (ipl'.seq + 1) % 65536, f)
      PROVE  BootInv'
  <2>1. at'.what \in {"failed", "system"} /\ at' \in [what : {"failed", "system"}, pos : Nat]
    BY <1>6
  <2>2. BootTypes'
    BY <1>1, <1>6, <2>1 DEF BootInv, BootTypes
  <2>3. CodeInv' /\ ResumeInv' /\ ~Armed'
    BY <1>1, <2>1 DEF BootInv, CodeInv, ResumeInv, Asking, Boot!Resumes, Armed
  <2>4. ScanInv' /\ Boot!This' = m
    BY <1>1, <2>1, BootSameRoms DEF Attempts
  <2>5. Before' = (ipl'.seq + 1) % 65536
    BY <2>1 DEF Before
  <2>6. TriedInv'
    BY <1>6, <2>1, <2>4, <2>5 DEF TriedInv
  <2>7. TriedRight'
    BY <1>6, <2>1, <2>4 DEF TriedRight, Reached
  <2> QED
    BY <2>2, <2>3, <2>4, <2>6, <2>7 DEF BootInv
<1>7. CASE ipl.first # 65535
  <2>1. ipl' = Boot!Forget(ipl) /\ Boot!Attempt(ipl.first)
    BY <1>7 DEF Boot!int19_function, Boot!NoChoice
  <2>2. ipl' = [table |-> table, first |-> 65535, seq |-> 65535]
    <3>1. ipl' = [ipl EXCEPT !.first = Boot!NoChoice, !.seq = Boot!NoChoice]
      BY <2>1 DEF Boot!Forget
    <3>2. ipl = [table |-> table, first |-> ipl.first, seq |-> ipl.seq]
      BY <1>2
    <3>3. ipl' = [table |-> table, first |-> Boot!NoChoice, seq |-> Boot!NoChoice]
      BY <3>1, <3>2
    <3> QED
      BY <3>3 DEF Boot!NoChoice
  <2>3. /\ at' \in [what : {"failed", "system"}, pos : {0}]
        /\ tried' = IF m.choice \in 1 .. Len(table) THEN Append(tried, m.choice) ELSE tried
    BY <1>2, <1>4, <1>7, <2>1, Attempted
  <2>4. Append(<<>>, m.choice) = <<m.choice>> /\ m.choice \in Nat
    BY <1>3 DEF OrderFits
  <2>5. tried' = IF m.choice \in 1 .. Len(table) THEN <<m.choice>> ELSE <<>>
    <3>1. tried = <<>>
      BY <1>4, <1>7
    <3> QED
      BY <2>3, <2>4, <3>1
  <2>6. Reached(m, table, tried', 0, Wanted(m, table))
    BY <1>3, <1>4, <1>7, <2>5, WantedReached
  <2>7. ipl'.table = table /\ ipl'.first = 65535 /\ ipl'.seq = 65535 /\ (ipl'.seq + 1) % 65536 = 0
    BY <2>2
  <2>8. ipl' \in [table : Seq({"floppy", "disk", "cdrom", "rom"}), first : Nat, seq : Nat] /\ tried' \in Seq(Nat)
    BY <1>2, <2>2, <2>4, <2>5
  <2> QED
    BY <1>6, <2>3, <2>6, <2>7, <2>8
<1>8. CASE ipl.first = 65535
  <2> DEFINE i == ipl.seq
  <2>1. i \in 0 .. 3 /\ DOMAIN m.order = 1 .. 3 /\ m.order \in Seq(0 .. 15)
    BY <1>3, <1>5 DEF Reached, OrderFits
  <2>2. Boot!Device(i) = IF i = 3 THEN 0 ELSE m.order[i + 1]
    BY <2>1 DEF Boot!Device
  <2>3. CASE Boot!Device(i) = 0
    <3>1. at' = [what |-> "halted", pos |-> 0] /\ UNCHANGED <<ipl, tried>>
      BY <1>8, <2>3 DEF Boot!int19_function, Boot!NoChoice, Boot!At
    <3>2. BootTypes'
      BY <1>1, <3>1 DEF BootInv, BootTypes
    <3>3. CodeInv' /\ ResumeInv' /\ ~Armed'
      BY <1>1, <3>1 DEF BootInv, CodeInv, ResumeInv, Asking, Boot!Resumes, Armed
    <3>4. ScanInv' /\ Boot!This' = m
      BY <1>1, <3>1, <3>3, BootSameRoms DEF Attempts
    <3>5. TriedInv'
      BY <3>1, <3>3 DEF TriedInv
    <3>6. Upto(m, table, i) = Cardinality(Entries(m, table))
      BY <1>3, <2>1, <2>2, <2>3, UptoEnd
    <3>7. TriedRight'
      BY <1>5, <3>1, <3>4, <3>6 DEF TriedRight, Reached
    <3> QED
      BY <3>2, <3>3, <3>4, <3>5, <3>7 DEF BootInv
  <2>4. CASE Boot!Device(i) # 0
    <3> DEFINE dev == m.order[i + 1]
    <3>1. i \in 0 .. 2 /\ dev # 0 /\ dev \in Nat /\ Boot!Device(i) = dev
      <4>1. i \in 0 .. 2 /\ dev # 0 /\ Boot!Device(i) = dev
        BY <2>1, <2>2, <2>4
      <4>2. dev \in 0 .. 15
        BY <2>1, <4>1
      <4> QED
        BY <4>1, <4>2
    <3>2. ipl' = ipl /\ Boot!Attempt(dev)
      BY <1>8, <2>4, <3>1 DEF Boot!int19_function, Boot!NoChoice
    <3>3. /\ at' \in [what : {"failed", "system"}, pos : {0}]
          /\ tried' = IF dev \in 1 .. Len(table) THEN Append(tried, dev) ELSE tried
      BY <3>1, <3>2, Attempted
    <3>4. Reached(m, table, tried', i + 1, first)
      BY <1>2, <1>3, <1>5, <3>1, <3>3, NextReached
    <3>5. (ipl'.seq + 1) % 65536 = i + 1 /\ ipl'.first = 65535
      BY <1>8, <3>1, <3>2
    <3>6. tried' \in Seq(Nat)
      BY <1>2, <3>1, <3>3
    <3> QED
      BY <1>2, <1>6, <3>2, <3>3, <3>4, <3>5, <3>6
  <2> QED
    BY <2>3, <2>4
<1> QED
  BY <1>7, <1>8

LEMMA BootStay == ASSUME BootInv, UNCHANGED bootV PROVE BootInv'
<1>1. /\ board' = board /\ at' = at /\ shutdown' = shutdown /\ ipl' = ipl /\ inits' = inits /\ tried' = tried
      /\ Boot!This' = Boot!This
  BY DEF bootV, Boot!This
<1>2. BootTypes' /\ CodeInv' /\ ResumeInv'
  BY <1>1 DEF BootInv, BootTypes, CodeInv, ResumeInv, Asking, Boot!Resumes
<1>3. \A pos : Behind(pos)' => Behind(pos)
  BY <1>1 DEF Behind, Armed
<1>4. ScanInv'
  BY <1>1, <1>3 DEF BootInv, ScanInv
<1>5. TriedInv' /\ TriedRight'
  BY <1>1 DEF BootInv, TriedInv, TriedRight, Armed, Before
<1> QED
  BY <1>2, <1>4, <1>5 DEF BootInv

LEMMA BootSteps == ASSUME BootInv, Boot!BootNext PROVE BootInv'
  BY BootPost, BootScans, BootDrives, BootStarts, BootNextDevice, BootLoads, BootArmsResets DEF Boot!BootNext

\* What the invariant says of the properties.
LEMMA BootRight == BootInv => Boot!RomsInitialised /\ Boot!BootsInOrder /\ Boot!ResumedAsAsked
<1> SUFFICES ASSUME BootInv PROVE Boot!RomsInitialised /\ Boot!BootsInOrder /\ Boot!ResumedAsAsked
  OBVIOUS
<1> DEFINE m == Boot!This
<1>1. RomsFit(m) /\ inits \in Seq(Nat) /\ at.pos \in Nat
  BY BoardIs DEF BootInv, BootTypes
<1>2. \A pos \in DOMAIN m.roms : Good(m, pos) => pos \in Nat /\ m.roms[pos].blocks \in Nat \ {0}
  BY <1>1 DEF RomsFit, RomFits, Good
<1>3. Spaced(m, inits)
  BY DEF BootInv, ScanInv
<1>4. ASSUME NEW i \in DOMAIN inits, NEW j \in DOMAIN inits, i < j
      PROVE  inits[i] < inits[j] /\ ~Boot!Inside(inits[j], inits[i])
  <2> DEFINE x == inits[i]
             y == inits[j]
             b == m.roms[x].blocks
  <2>1. x \in Nat /\ y \in Nat /\ b \in Nat \ {0}
    BY <1>1, <1>2, <1>3 DEF Spaced, Good
  <2>2. 4 * x + b <= 4 * y
    BY <1>3, <1>4 DEF Spaced, End
  <2>3. Boot!Inside(y, x) <=> (x < y /\ y * 4 < x * 4 + b)
    BY DEF Boot!Inside
  <2> HIDE DEF x, y, b
  <2>4. x < y /\ ~(y * 4 < x * 4 + b)
    BY <2>1, <2>2
  <2> QED
    BY <2>3, <2>4 DEF x, y
<1>5. ASSUME at.what \in {"boot", "failed"}, NEW pos \in DOMAIN m.roms, Boot!Found(pos),
             pos \in 0 .. m.video \cup m.options .. m.last
      PROVE  \E i \in DOMAIN inits : inits[i] = pos \/ Boot!Inside(pos, inits[i])
  <2>1. Good(m, pos) /\ pos \in Nat
    BY <1>2, <1>5 DEF Boot!Found, Good
  <2>2. m.video \in Nat /\ m.options \in Nat /\ m.last \in Nat
    BY <1>1 DEF RomsFit
  <2>3. Behind(pos)
    BY <1>5, <2>1, <2>2 DEF Behind
  <2>4. PICK i \in DOMAIN inits : inits[i] = pos \/ (inits[i] < pos /\ 4 * pos < End(m, inits[i]))
    BY <1>5, <2>1, <2>3 DEF BootInv, ScanInv, Visited
  <2>5. Good(m, inits[i]) /\ inits[i] \in Nat /\ m.roms[inits[i]].blocks \in Nat
    BY <1>1, <1>2, <1>3 DEF Spaced, Good
  <2>6. inits[i] = pos \/ Boot!Inside(pos, inits[i])
    BY <2>1, <2>4, <2>5 DEF Boot!Inside, End
  <2> QED
    BY <2>6
<1>6. Boot!RomsInitialised
  BY <1>4, <1>5 DEF Boot!RomsInitialised
<1>7. Boot!BootsInOrder
  BY InOrderIs DEF BootInv
<1>8. Boot!ResumedAsAsked
  BY DEF BootInv, BootTypes, ResumeInv, Asking, Boot!ResumedAsAsked
<1> QED
  BY <1>6, <1>7, <1>8

-----------------------------------------------------------------------------
(* The power-on self test. *)

Times == {Post!This.time, (Post!This.time + 1) % 86400}
PostTypes ==
    /\ computer \in Computers /\ cmosTime \in Times
    /\ post = [next |-> post.next, halted |-> post.halted, hms |-> post.hms, began |-> post.began,
               torn |-> post.torn, ticks |-> post.ticks, equipment |-> post.equipment, tables |-> post.tables]
    /\ post.next \in 1 .. 15
    /\ post.hms \in Seq(Nat)
    /\ Len(post.hms) = IF post.next <= 5 THEN 0 ELSE IF post.next = 6 THEN 1 ELSE IF post.next = 7 THEN 2 ELSE 3

\* The hours are read with the minutes and seconds to come, each digit by
\* digit, and the minute they are of does not turn unless that is noticed.
HourRead == \E t \in Times : post.began = t \div 60 /\ post.hms[1] = Post!Bcd(t \div 3600)
MinuteRead == post.hms[2] = Post!Bcd(post.began % 60)
SecondRead == \E t \in Times : post.began = t \div 60 /\ post.hms[3] = Post!Bcd(t % 60)
ClockReadInv ==
    /\ post.next > 5 => HourRead
    /\ post.next > 6 /\ ~post.torn => MinuteRead
    /\ post.next > 7 /\ ~post.torn => SecondRead
    /\ post.next > 7 => post.ticks = Post!Ticks(post.hms)

\* The equipment word, and the disk tables, are written once.
WrittenInv ==
    /\ post.next > 4 => post.equipment = Post!WordOf(Post!Equipment)
    /\ ~post.halted =>
          post.tables = <<IF post.next > 12 /\ Post!IsDisk(Post!This.disks[1])
                          THEN Post!Table(Post!This.disks[1], Post!This.stale) ELSE Post!This.stale,
                          IF post.next > 13 /\ Post!IsDisk(Post!This.disks[2])
                          THEN Post!Table(Post!This.disks[2], Post!This.stale) ELSE Post!This.stale>>

PostInv == PostTypes /\ ClockReadInv /\ WrittenInv

LEMMA ComputerIs == computer \in Computers => PostMachine(Post!This) /\ PostPorts(Post!This)
  BY PostAssumption DEF Post!This

LEMMA TimesAre == computer \in Computers => \A t \in Times : t \in Nat /\ t < 86400
<1> SUFFICES ASSUME computer \in Computers PROVE \A t \in Times : t \in Nat /\ t < 86400
  OBVIOUS
<1>1. Post!This.time \in Nat /\ Post!This.time < 86400
  BY ComputerIs DEF PostMachine
<1> QED
  BY <1>1 DEF Times

LEMMA StageNames ==
    /\ Len(Post!Stages) = 15
    /\ \A n \in 1 .. 15 : /\ Post!Stages[n] = "ports" <=> n = 4
                          /\ Post!Stages[n] = "hours" <=> n = 5
                          /\ Post!Stages[n] = "minutes" <=> n = 6
                          /\ Post!Stages[n] = "seconds" <=> n = 7
                          /\ Post!Stages[n] = "controllers" <=> n = 9
                          /\ Post!Stages[n] = "disk0" <=> n = 12
                          /\ Post!Stages[n] = "disk1" <=> n = 13
  BY DEF Post!Stages

LEMMA PassedAre ==
    ASSUME post.next \in 1 .. 15
    PROVE  /\ Post!Passed("ports") <=> post.next > 4
           /\ Post!Passed("seconds") <=> post.next > 7
           /\ Post!Passed("controllers") <=> post.next > 9
           /\ Post!Passed("disk0") <=> post.next > 12
           /\ Post!Passed("disk1") <=> post.next > 13
  BY StageNames DEF Post!Passed

-----------------------------------------------------------------------------
(* Interrupt vectors. *)

\* A vector is set by one stage to a handler, or by none.
SetBy(v, k, h) ==
    /\ k \in 1 .. 14 /\ <<v, h>> \in Post!Sets(Post!Stages[k])
    /\ \A n \in 1 .. 14 : \A entry \in Post!Sets(Post!Stages[n]) : entry[1] = v => n = k /\ entry = <<v, h>>
SetByNone(v) == \A n \in 1 .. 14 : \A entry \in Post!Sets(Post!Stages[n]) : entry[1] # v

LEMMA StageSets ==
    /\ Post!Sets(Post!Stages[1]) = {} /\ Post!Sets(Post!Stages[2]) = {<<8, "int08_handler">>}
    /\ Post!Sets(Post!Stages[3]) = {<<9, "int09_handler">>, <<22, "int16_handler">>}
    /\ Post!Sets(Post!Stages[4]) = {<<20, "int14_handler">>}
    /\ Post!Sets(Post!Stages[5]) = {<<26, "int1a_handler">>, <<74, "dummy_iret_handler">>, <<112, "int70_handler">>}
    /\ Post!Sets(Post!Stages[6]) = {} /\ Post!Sets(Post!Stages[7]) = {}
    /\ Post!Sets(Post!Stages[8]) = {<<113, "int71_handler">>, <<116, "int74_handler">>, <<117, "int75_handler">>,
                                    <<16, "int10_handler">>}
    /\ Post!Sets(Post!Stages[9]) = {} /\ Post!Sets(Post!Stages[10]) = {}
    /\ Post!Sets(Post!Stages[11]) = {<<30, "diskette_param_table2">>, <<64, "int13_diskette">>, <<14, "int0e_handler">>}
    /\ Post!Sets(Post!Stages[12]) = {<<19, "int13_handler">>, <<118, "int76_handler">>, <<65, "table0">>, <<70, "table1">>}
    /\ Post!Sets(Post!Stages[13]) = {} /\ Post!Sets(Post!Stages[14]) = {}
  BY DEF Post!Sets, Post!Stages

LEMMA SetOnce ==
    /\ SetBy(8, 2, "int08_handler") /\ SetBy(9, 3, "int09_handler") /\ SetBy(112, 5, "int70_handler")
    /\ SetBy(113, 8, "int71_handler") /\ SetBy(116, 8, "int74_handler") /\ SetBy(117, 8, "int75_handler")
    /\ SetBy(14, 11, "int0e_handler") /\ SetBy(118, 12, "int76_handler")
  BY StageSets DEF SetBy
LEMMA SetNever == \A v \in {10, 11, 12, 13, 15, 114, 115, 119} : SetByNone(v)
  BY StageSets DEF SetByNone

LEMMA VectorSet ==
    ASSUME post.next \in 1 .. 15, NEW v, NEW k, NEW h, SetBy(v, k, h)
    PROVE  Post!Vector(v) = IF k < post.next THEN h ELSE Post!FirstVectors[v]
<1> DEFINE set(n) == {entry \in Post!Sets(Post!Stages[n]) : entry[1] = v}
           setters == {n \in 1 .. post.next - 1 : set(n) # {}}
<1>0. Post!Vector(v) = IF setters = {} THEN Post!FirstVectors[v]
                       ELSE (CHOOSE entry \in set(Post!Max(setters)) : TRUE)[2]
  BY DEF Post!Vector
<1>1. k \in 1 .. 14 /\ <<v, h>> \in Post!Sets(Post!Stages[k])
  BY DEF SetBy
<1>2. \A n \in 1 .. 14 : \A entry \in Post!Sets(Post!Stages[n]) : entry[1] = v => n = k /\ entry = <<v, h>>
  BY DEF SetBy
<1>3. set(k) = {<<v, h>>}
  BY <1>1, <1>2
<1>4. \A n \in 1 .. post.next - 1 : set(n) # {} => n = k
  <2> SUFFICES ASSUME NEW n \in 1 .. post.next - 1, set(n) # {} PROVE n = k
    OBVIOUS
  <2>1. n \in 1 .. 14
    OBVIOUS
  <2> QED
    BY <1>2, <2>1
<1>5. CASE k < post.next
  <2>1. k \in 1 .. post.next - 1 /\ set(k) # {}
    BY <1>1, <1>3, <1>5
  <2>2. setters = {k}
    BY <1>4, <2>1
  <2>3. Post!Max({k}) = k
    BY <1>1 DEF Post!Max
  <2>4. (CHOOSE entry \in {<<v, h>>} : TRUE) = <<v, h>>
    OBVIOUS
  <2> DEFINE last == Post!Max(setters)
  <2>5. setters # {} /\ last = k
    <3> HIDE DEF setters
    <3> QED
      BY <2>2, <2>3
  <2>6. Post!Vector(v) = (CHOOSE entry \in set(last) : TRUE)[2]
    BY <1>0, <2>5
  <2> HIDE DEF last
  <2>7. set(last) = {<<v, h>>}
    BY <1>3, <2>5
  <2> HIDE DEF set
  <2>8. Post!Vector(v) = (<<v, h>>)[2]
    BY <2>4, <2>6, <2>7
  <2> QED
    BY <1>5, <2>8
<1>6. CASE ~(k < post.next)
  <2>1. setters = {}
    BY <1>1, <1>4, <1>6
  <2> QED
    BY <1>0, <1>6, <2>1
<1> QED
  BY <1>5, <1>6

LEMMA VectorUnset ==
    ASSUME post.next \in 1 .. 15, NEW v, SetByNone(v)
    PROVE  Post!Vector(v) = Post!FirstVectors[v]
<1> DEFINE set(n) == {entry \in Post!Sets(Post!Stages[n]) : entry[1] = v}
           setters == {n \in 1 .. post.next - 1 : set(n) # {}}
<1>1. Post!Vector(v) = IF setters = {} THEN Post!FirstVectors[v]
                       ELSE (CHOOSE entry \in set(Post!Max(setters)) : TRUE)[2]
  BY DEF Post!Vector
<1>2. \A n \in 1 .. post.next - 1 : n \in 1 .. 14
  OBVIOUS
<1>3. setters = {}
  BY <1>2 DEF SetByNone
<1> QED
  BY <1>1, <1>3

LEMMA FirstAre ==
    /\ \A v \in 8 .. 15 : Post!FirstVectors[v] = "dummy_master_pic_irq_handler"
    /\ \A v \in 112 .. 119 : Post!FirstVectors[v] = "dummy_slave_pic_irq_handler"
  BY DEF Post!FirstVectors, Post!SlaveVectors

\* What leads to a handler that ends an interrupt of its line.
LEMMA MasterLines ==
    ASSUME post.next \in 10 .. 15
    PROVE  \A v \in 8 .. 15 : Post!Vector(v) \in {"dummy_master_pic_irq_handler", "int08_handler",
                                                  "int09_handler", "int0e_handler"}
<1>1. /\ Post!Vector(8) \in {"dummy_master_pic_irq_handler", "int08_handler"}
      /\ Post!Vector(9) \in {"dummy_master_pic_irq_handler", "int09_handler"}
      /\ Post!Vector(14) \in {"dummy_master_pic_irq_handler", "int0e_handler"}
  BY VectorSet, SetOnce, FirstAre
<1>2. \A v \in {10, 11, 12, 13, 15} : Post!Vector(v) = "dummy_master_pic_irq_handler"
  BY VectorUnset, SetNever, FirstAre
<1> QED
  BY <1>1, <1>2

LEMMA SlaveLines ==
    ASSUME post.next \in 10 .. 15
    PROVE  \A v \in 112 .. 119 :
              IF v = 113 THEN Post!Vector(v) = "int71_handler"
              ELSE Post!Vector(v) \in {"dummy_slave_pic_irq_handler", "int70_handler", "int74_handler",
                                       "int75_handler", "int76_handler"}
<1>1. /\ Post!Vector(112) = "int70_handler" /\ Post!Vector(113) = "int71_handler"
      /\ Post!Vector(116) = "int74_handler" /\ Post!Vector(117) = "int75_handler"
      /\ Post!Vector(118) \in {"dummy_slave_pic_irq_handler", "int76_handler"}
  BY VectorSet, SetOnce, FirstAre
<1>2. \A v \in {114, 115, 119} : Post!Vector(v) = "dummy_slave_pic_irq_handler"
  BY VectorUnset, SetNever, FirstAre
<1> QED
  BY <1>1, <1>2

LEMMA IrqsEndedIs == ASSUME PostTypes PROVE Post!IrqsEnded
<1> SUFFICES ASSUME post.next \in 10 .. 15, NEW line_ \in 0 .. 15 \ {2}
             PROVE  Post!Ends(Post!Vector(Post!IrqVector(line_))) =
                        IF line_ < 8 THEN {"master"} ELSE {"master", "slave"}
  <2>1. Post!Passed("controllers") => post.next \in 10 .. 15
    BY PassedAre DEF PostTypes
  <2> QED
    BY <2>1 DEF Post!IrqsEnded
<1>1. Post!Vector(10) = "dummy_master_pic_irq_handler"
  BY VectorUnset, SetNever, FirstAre
<1>2. Post!EndsOne("dummy_master_pic_irq_handler") = {"master"} /\ Post!EndsOne("int71_handler") = {"slave"}
  BY DEF Post!EndsOne
<1>3. CASE line_ < 8
  <2> DEFINE v == Post!IrqVector(line_)
             h == Post!Vector(v)
  <2>1. v \in 8 .. 15
    BY <1>3 DEF Post!IrqVector
  <2>2. h \in {"dummy_master_pic_irq_handler", "int08_handler", "int09_handler", "int0e_handler"}
    BY <2>1, MasterLines
  <2> HIDE DEF h
  <2>3. Post!EndsOne(h) = {"master"} /\ h # "int71_handler"
    BY <2>2 DEF Post!EndsOne
  <2>4. Post!Ends(h) = {"master"}
    BY <2>3 DEF Post!Ends
  <2> QED
    BY <1>3, <2>4 DEF h
<1>4. CASE ~(line_ < 8)
  <2> DEFINE v == Post!IrqVector(line_)
             h == Post!Vector(v)
  <2>1. v \in 112 .. 119
    BY <1>4 DEF Post!IrqVector
  <2>2. CASE v = 113
    <3>1. h = "int71_handler"
      BY <2>1, <2>2, SlaveLines
    <3> HIDE DEF h
    <3>2. Post!Ends(h) = {"slave"} \cup {"master"}
      BY <1>1, <1>2, <3>1 DEF Post!Ends
    <3> QED
      BY <1>4, <3>2 DEF h
  <2>3. CASE v # 113
    <3>1. h \in {"dummy_slave_pic_irq_handler", "int70_handler", "int74_handler", "int75_handler", "int76_handler"}
      BY <2>1, <2>3, SlaveLines
    <3> HIDE DEF h
    <3>2. Post!EndsOne(h) = {"master", "slave"} /\ h # "int71_handler"
      BY <3>1 DEF Post!EndsOne
    <3>3. Post!Ends(h) = {"master", "slave"}
      BY <3>2 DEF Post!Ends
    <3> QED
      BY <1>4, <3>3 DEF h
  <2> QED
    BY <2>2, <2>3
<1> QED
  BY <1>3, <1>4

-----------------------------------------------------------------------------
(* The clock. *)

LEMMA BcdBack == \A n \in Nat : n < 100 => Post!Bcd(n) \in Nat /\ Post!BcdToBin(Post!Bcd(n)) = n
<1> SUFFICES ASSUME NEW n \in Nat, n < 100 PROVE Post!Bcd(n) \in Nat /\ Post!BcdToBin(Post!Bcd(n)) = n
  OBVIOUS
<1> DEFINE q == n \div 10
           r == n % 10
           b == 16 * q + r
<1>1. q \in Nat /\ r \in Nat /\ r < 10 /\ n = 10 * q + r
  BY SMT
<1> HIDE DEF q, r
<1>2. b \in Nat /\ b % 16 = r /\ b \div 16 = q
  BY <1>1, SMT
<1>3. Post!Bcd(n) = b
  BY DEF Post!Bcd, q, r
<1> HIDE DEF b
<1>4. Post!BcdToBin(b) = r + 10 * q
  BY <1>2 DEF Post!BcdToBin
<1> QED
  BY <1>1, <1>2, <1>3, <1>4

\* The fraction of a tick is computed a byte at a time, and loses less than one.
LEMMA FractionIs ==
    ASSUME NEW s \in Nat, s < 86400
    PROVE  /\ Post!Fraction(s) \in Nat
           /\ Post!Near(1080 * (18 * s + Post!Fraction(s)), 19663 * s, 3 * 1080)
           /\ 18 * s + Post!Fraction(s) < Post!TicksADay
<1> DEFINE q1 == (s * 171 + 0) \div 256
           q2 == (s * 170 + q1) \div 256
           q3 == (s * 221 + q2) \div 256
           q4 == (s * 52 + q3) \div 256
<1>1. q1 \in Nat /\ 256 * q1 <= 171 * s /\ 171 * s < 256 * q1 + 256
  BY SMT
<1> HIDE DEF q1
<1>2. q2 \in Nat /\ 256 * q2 <= 170 * s + q1 /\ 170 * s + q1 < 256 * q2 + 256
  BY <1>1, SMT
<1> HIDE DEF q2
<1>3. q3 \in Nat /\ 256 * q3 <= 221 * s + q2 /\ 221 * s + q2 < 256 * q3 + 256
  BY <1>2, SMT
<1> HIDE DEF q3
<1>4. q4 \in Nat /\ 256 * q4 <= 52 * s + q3 /\ 52 * s + q3 < 256 * q4 + 256
  BY <1>3, SMT
<1>5. Post!Fraction(s) = q4
  BY DEF Post!Fraction, q1, q2, q3
<1> HIDE DEF q4
<1>6. Post!Near(1080 * (18 * s + q4), 19663 * s, 3 * 1080)
  BY <1>1, <1>2, <1>3, <1>4, SMT DEF Post!Near
<1>7. 18 * s + q4 < Post!TicksADay
  BY <1>1, <1>2, <1>3, <1>4, SMT DEF Post!TicksADay
<1> QED
  BY <1>4, <1>5, <1>6, <1>7

\* Hours, minutes and seconds of one time are that time.
Hour(t) == (t \div 60) \div 60
Minute(t) == (t \div 60) % 60
LastSecond(t) == t % 60

LEMMA HourIs == \A t \in Nat : t \div 3600 = Hour(t)
<1> SUFFICES ASSUME NEW t \in Nat PROVE t \div 3600 = Hour(t)
  OBVIOUS
<1> DEFINE m == t \div 60
           h == m \div 60
<1>1. m \in Nat /\ 60 * m <= t /\ t < 60 * m + 60
  BY SMT
<1> HIDE DEF m
<1>2. h \in Nat /\ 60 * h <= m /\ m < 60 * h + 60
  BY <1>1, SMT
<1> HIDE DEF h
<1>3. 3600 * h <= t /\ t < 3600 * h + 3600
  BY <1>1, <1>2, SMT
<1>4. t \div 3600 = h
  BY <1>2, <1>3, SMT
<1> QED
  BY <1>4 DEF Hour, h, m

LEMMA TimeParts ==
    ASSUME NEW t \in Nat, t < 86400
    PROVE  /\ Hour(t) \in Nat /\ Hour(t) < 24 /\ Minute(t) \in Nat /\ Minute(t) < 60
           /\ LastSecond(t) \in Nat /\ LastSecond(t) < 60
           /\ Hour(t) * 3600 + Minute(t) * 60 + LastSecond(t) = t
           /\ (60 * Hour(t) + Minute(t)) * 60 + LastSecond(t) = t
<1> DEFINE m == t \div 60
<1>1. m \in Nat /\ LastSecond(t) \in Nat /\ LastSecond(t) < 60 /\ t = 60 * m + LastSecond(t)
  BY SMT DEF LastSecond
<1>2. Hour(t) = m \div 60 /\ Minute(t) = m % 60
  BY DEF Hour, Minute
<1> HIDE DEF m
<1>3. Hour(t) \in Nat /\ Minute(t) \in Nat /\ Minute(t) < 60 /\ m = 60 * Hour(t) + Minute(t)
  BY <1>1, <1>2, SMT
<1>4. t = 3600 * Hour(t) + (60 * Minute(t) + LastSecond(t)) /\ 60 * Minute(t) + LastSecond(t) < 3600
  BY <1>1, <1>3, SMT
<1>5. /\ Hour(t) < 24 /\ Hour(t) * 3600 + Minute(t) * 60 + LastSecond(t) = t
      /\ (60 * Hour(t) + Minute(t)) * 60 + LastSecond(t) = t
  BY <1>1, <1>3, <1>4, SMT
<1> QED
  BY <1>1, <1>3, <1>5

LEMMA ClockSetIs == ASSUME PostTypes, ClockReadInv PROVE Post!ClockSet
<1> SUFFICES ASSUME post.next > 7, ~post.torn PROVE Post!ClockSet
  BY PassedAre DEF Post!ClockSet, PostTypes
<1> DEFINE s == Post!BcdToBin(post.hms[1]) * 3600 + Post!BcdToBin(post.hms[2]) * 60 + Post!BcdToBin(post.hms[3])
<1>0. HourRead /\ MinuteRead /\ SecondRead /\ post.ticks = Post!Ticks(post.hms)
  <2>1. post.next > 5 /\ post.next > 6
    BY DEF PostTypes
  <2> QED
    BY <2>1 DEF ClockReadInv
<1>1. PICK t \in Times : post.began = t \div 60 /\ post.hms[3] = Post!Bcd(t % 60)
  BY <1>0, Zenon DEF SecondRead
<1>2. PICK u \in Times : post.began = u \div 60 /\ post.hms[1] = Post!Bcd(u \div 3600)
  BY <1>0, Zenon DEF HourRead
<1>3. post.hms[2] = Post!Bcd(post.began % 60) /\ post.ticks = Post!Ticks(post.hms)
  BY <1>0 DEF MinuteRead
<1>4. t \in Nat /\ t < 86400 /\ u \in Nat /\ u < 86400
  BY TimesAre DEF PostTypes
<1>5. /\ Hour(t) \in Nat /\ Hour(t) < 24 /\ Minute(t) \in Nat /\ Minute(t) < 60
      /\ LastSecond(t) \in Nat /\ LastSecond(t) < 60
      /\ Hour(t) * 3600 + Minute(t) * 60 + LastSecond(t) = t
      /\ (60 * Hour(t) + Minute(t)) * 60 + LastSecond(t) = t
  BY <1>4, TimeParts
<1>6. u \div 3600 = Hour(t)
  <2>1. u \div 3600 = Hour(u)
    BY <1>4, HourIs
  <2>2. Hour(u) = Hour(t)
    BY <1>1, <1>2 DEF Hour
  <2> QED
    BY <2>1, <2>2
<1>7. /\ Post!BcdToBin(post.hms[1]) = Hour(t) /\ Post!BcdToBin(post.hms[2]) = Minute(t)
      /\ Post!BcdToBin(post.hms[3]) = LastSecond(t)
  <2>1. post.hms[1] = Post!Bcd(Hour(t)) /\ post.hms[2] = Post!Bcd(Minute(t)) /\ post.hms[3] = Post!Bcd(LastSecond(t))
    BY <1>1, <1>2, <1>3, <1>6 DEF Minute, LastSecond
  <2>2. Hour(t) < 100 /\ Minute(t) < 100 /\ LastSecond(t) < 100
    BY <1>5
  <2> QED
    BY <1>5, <2>1, <2>2, BcdBack
<1>8. s = t
  BY <1>5, <1>7
<1>9. post.ticks = 18 * t + Post!Fraction(t)
  <2>1. Post!Ticks(post.hms) = 18 * ((60 * Hour(t) + Minute(t)) * 60 + LastSecond(t)) +
                               Post!Fraction((60 * Hour(t) + Minute(t)) * 60 + LastSecond(t))
    BY <1>7 DEF Post!Ticks
  <2> QED
    BY <1>3, <1>5, <2>1
<1>10. 0 <= post.ticks /\ post.ticks < Post!TicksADay /\ Post!Near(1080 * post.ticks, 19663 * t, 3 * 1080)
  <2>1. Post!Fraction(t) \in Nat
    BY <1>4, FractionIs
  <2>2. 18 * t + Post!Fraction(t) < Post!TicksADay
    BY <1>4, FractionIs
  <2>3. Post!Near(1080 * (18 * t + Post!Fraction(t)), 19663 * t, 3 * 1080)
    BY <1>4, FractionIs
  <2>4. 0 <= 18 * t + Post!Fraction(t)
    BY <1>4, <2>1
  <2> QED
    BY <1>9, <2>2, <2>3, <2>4
<1>11. s \in {Post!This.time, (Post!This.time + 1) % 86400}
  BY <1>8 DEF Times
<1>12. Post!Near(1080 * post.ticks, 19663 * s, 3 * 1080)
  BY <1>8, <1>10
<1> QED
  BY <1>10, <1>11, <1>12 DEF Post!ClockSet

-----------------------------------------------------------------------------
(* The equipment word. *)

LEMMA EquipmentIs == ASSUME PostTypes, WrittenInv PROVE Post!EquipmentCounts
<1> SUFFICES ASSUME post.next > 4 PROVE Post!EquipmentCounts
  BY PassedAre DEF Post!EquipmentCounts, PostTypes
<1>1. \A S : Post!Cardinality(S) = Cardinality(S)
  BY DEF Post!Cardinality, Cardinality
<1> DEFINE e == Post!This.equipment
           l == Cardinality(Post!This.lpts)
           c == Cardinality(Post!This.coms)
           w == (e % 256) + 512 * c + 16384 * l
<1>2. PostMachine(Post!This) /\ PostPorts(Post!This)
  BY ComputerIs DEF PostTypes
<1>3. e \in Nat /\ e < 256 /\ l \in Nat /\ l <= 2 /\ c \in Nat /\ c <= 4
  <2>1. e \in Nat /\ e < 256
    BY <1>2 DEF PostMachine
  <2>2. l \in Nat /\ c \in Nat
    BY <1>2, FS_CardinalityType DEF PostPorts
  <2>3. l <= 2 /\ c <= 4
    BY <1>2 DEF PostPorts
  <2> QED
    BY <2>1, <2>2, <2>3
<1>4. post.equipment = w
  BY <1>1 DEF WrittenInv, Post!WordOf, Post!Equipment
<1> HIDE DEF e, l, c
<1>5. w = e + 512 * c + 16384 * l
  BY <1>3
<1> HIDE DEF w
<1>6. w \in Nat /\ w % 256 = e /\ w \div 16384 = l
  BY <1>3, <1>5
<1>7. w \div 512 = c + 32 * l
  BY <1>3, <1>5
<1>8. (w \div 512) % 8 = c
  BY <1>3, <1>7
<1> QED
  BY <1>1, <1>4, <1>6, <1>8 DEF Post!EquipmentCounts, e, l, c

-----------------------------------------------------------------------------
(* The fixed disk parameter tables. *)

Bytes16 == [0 .. 15 -> Int]

PutWord(u, t, p, w) == /\ u \in Bytes16 /\ u[p] = Post!Low(w) /\ u[p + 1] = Post!High(w)
                       /\ \A i \in 0 .. 15 : i # p /\ i # p + 1 => u[i] = t[i]
PutByte(u, t, p, x) == u \in Bytes16 /\ u[p] = x /\ \A i \in 0 .. 15 : i # p => u[i] = t[i]

LEMMA WordIs ==
    ASSUME NEW t \in Bytes16, NEW p \in {0, 5, 9, 12}, NEW w \in Nat
    PROVE  PutWord(Post!Word(t, p, w), t, p, w)
<1> DEFINE low == Post!Low(w)
           high == Post!High(w)
           u == [[t EXCEPT ![p] = low] EXCEPT ![p + 1] = high]
<1>1. low \in Int /\ high \in Int
  BY SMT DEF Post!Low, Post!High
<1>2. Post!Word(t, p, w) = u
  BY DEF Post!Word
<1> HIDE DEF low, high
<1>3. /\ u \in Bytes16 /\ u[p] = low /\ u[p + 1] = high
      /\ \A i \in 0 .. 15 : i # p /\ i # p + 1 => u[i] = t[i]
  BY <1>1 DEF Bytes16
<1> QED
  BY <1>2, <1>3 DEF low, high, PutWord

LEMMA ByteIs ==
    ASSUME NEW t \in Bytes16, NEW p \in {2, 3, 4, 8, 11, 14}, NEW x \in Int
    PROVE  PutByte([t EXCEPT ![p] = x], t, p, x)
<1> DEFINE u == [t EXCEPT ![p] = x]
<1>1. u \in Bytes16 /\ u[p] = x /\ \A i \in 0 .. 15 : i # p => u[i] = t[i]
  BY DEF Bytes16
<1> QED
  BY <1>1 DEF PutByte

\* A disk is described as it is, or with fewer cylinders and more heads.
LEMMA TableIs ==
    ASSUME NEW g, PostDisk(g), NEW stale \in Bytes16
    PROVE  LET t == Post!Table(g, stale)
               k == Post!Scale(g.c)
           IN  IF g.c <= 1024 THEN t[0] = Post!Low(g.c) /\ t[1] = Post!High(g.c) /\ t[2] = g.h /\ t[14] = g.s
               ELSE /\ t[0] = Post!Low(g.c \div k) /\ t[1] = Post!High(g.c \div k)
                    /\ t[2] = (g.h * k) % 256 /\ t[14] = g.s /\ t[3] = 160
                    /\ t[9] = Post!Low(g.c) /\ t[10] = Post!High(g.c) /\ t[11] = g.h
                    /\ (Post!SumTo13(t) + t[14] + t[15]) % 256 = 0
<1> DEFINE k == Post!Scale(g.c)
           a1 == Post!Word(stale, 5, g.precomp)
           a2 == Post!Word(a1, 12, g.landing)
           common == [a2 EXCEPT ![8] = g.control]
           b1 == Post!Word(common, 0, g.c)
           b2 == [b1 EXCEPT ![2] = g.h]
           b3 == [b2 EXCEPT ![14] = g.s]
           c1 == Post!Word(common, 9, g.c)
           c2 == Post!Word(c1, 0, g.c \div k)
           c3 == [c2 EXCEPT ![11] = g.h]
           c4 == [c3 EXCEPT ![4] = g.s]
           c5 == [c4 EXCEPT ![14] = g.s]
           c6 == [c5 EXCEPT ![3] = 160]
           c7 == [c6 EXCEPT ![2] = (g.h * k) % 256]
           c8 == [c7 EXCEPT ![15] = Post!Checksum(c7)]
<1>1. Post!Table(g, stale) = IF g.c <= 1024 THEN b3 ELSE c8
  BY DEF Post!Table
<1>2. /\ g.c \in Nat /\ g.h \in Int /\ g.s \in Int /\ g.precomp \in Nat /\ g.landing \in Nat /\ g.control \in Int
      /\ k \in {2, 4, 8, 16}
  BY DEF PostDisk, Post!Scale
<1>3. g.c \div k \in Nat /\ (g.h * k) % 256 \in Int
  <2>1. g.c \div 2 \in Nat /\ g.c \div 4 \in Nat /\ g.c \div 8 \in Nat /\ g.c \div 16 \in Nat
    BY <1>2, SMT
  <2>2. (g.h * 2) % 256 \in Int /\ (g.h * 4) % 256 \in Int /\ (g.h * 8) % 256 \in Int /\ (g.h * 16) % 256 \in Int
    BY <1>2, SMT
  <2> HIDE DEF k
  <2> QED
    BY <1>2, <2>1, <2>2
<1> DEFINE q == g.c \div k
           hk == (g.h * k) % 256
<1> HIDE DEF q, hk, k
<1>4. common \in Bytes16
  <2>1. PutWord(a1, stale, 5, g.precomp)
    BY <1>2, WordIs
  <2>2. a1 \in Bytes16
    BY <2>1 DEF PutWord
  <2> HIDE DEF a1
  <2>3. PutWord(a2, a1, 12, g.landing)
    BY <1>2, <2>2, WordIs
  <2>4. a2 \in Bytes16
    BY <2>3 DEF PutWord
  <2> HIDE DEF a2
  <2>5. PutByte(common, a2, 8, g.control)
    BY <1>2, <2>4, ByteIs
  <2> HIDE DEF common
  <2> QED
    BY <2>5 DEF PutByte
<1> HIDE DEF common
<1>5. b3[0] = Post!Low(g.c) /\ b3[1] = Post!High(g.c) /\ b3[2] = g.h /\ b3[14] = g.s
  <2>1. PutWord(b1, common, 0, g.c)
    BY <1>2, <1>4, WordIs
  <2> HIDE DEF b1
  <2>2. b1 \in Bytes16 /\ b1[0] = Post!Low(g.c) /\ b1[1] = Post!High(g.c)
    BY <2>1 DEF PutWord
  <2>3. PutByte(b2, b1, 2, g.h)
    BY <1>2, <2>2, ByteIs
  <2> HIDE DEF b2
  <2>4. b2 \in Bytes16 /\ b2[0] = b1[0] /\ b2[1] = b1[1] /\ b2[2] = g.h
    BY <2>3 DEF PutByte
  <2>5. PutByte(b3, b2, 14, g.s)
    BY <1>2, <2>4, ByteIs
  <2> HIDE DEF b3
  <2>6. b3[0] = b2[0] /\ b3[1] = b2[1] /\ b3[2] = b2[2] /\ b3[14] = g.s
    BY <2>5 DEF PutByte
  <2> QED
    BY <2>2, <2>4, <2>6
<1> HIDE DEF b1, b2, b3
<1>6. /\ c7 \in Bytes16 /\ c7[0] = Post!Low(q) /\ c7[1] = Post!High(q) /\ c7[2] = hk /\ c7[14] = g.s /\ c7[3] = 160
      /\ c7[9] = Post!Low(g.c) /\ c7[10] = Post!High(g.c) /\ c7[11] = g.h
  <2>1. q \in Nat /\ hk \in Int
    BY <1>3 DEF q, hk
  <2>2. c2 = Post!Word(c1, 0, q) /\ c7 = [c6 EXCEPT ![2] = hk]
    BY DEF q, hk
  <2>3. PutWord(c1, common, 9, g.c)
    BY <1>2, <1>4, WordIs
  <2> HIDE DEF c1
  <2>4. /\ c1 \in Bytes16 /\ c1[9] = Post!Low(g.c) /\ c1[10] = Post!High(g.c)
    BY <2>3 DEF PutWord
  <2>5. PutWord(c2, c1, 0, q)
    BY <1>2, <2>1, <2>2, <2>4, WordIs
  <2> HIDE DEF c2
  <2>6. /\ c2 \in Bytes16 /\ c2[0] = Post!Low(q) /\ c2[1] = Post!High(q)
         /\ c2[9] = c1[9] /\ c2[10] = c1[10]
    BY <2>5 DEF PutWord
  <2>7. PutByte(c3, c2, 11, g.h)
    BY <1>2, <2>1, <2>2, <2>6, ByteIs
  <2> HIDE DEF c3
  <2>8. /\ c3 \in Bytes16 /\ c3[11] = g.h
         /\ c3[0] = c2[0] /\ c3[1] = c2[1] /\ c3[9] = c2[9] /\ c3[10] = c2[10]
    BY <2>7 DEF PutByte
  <2>9. PutByte(c4, c3, 4, g.s)
    BY <1>2, <2>1, <2>2, <2>8, ByteIs
  <2> HIDE DEF c4
  <2>10. /\ c4 \in Bytes16 /\ c4[4] = g.s
         /\ c4[0] = c3[0] /\ c4[1] = c3[1] /\ c4[9] = c3[9] /\ c4[10] = c3[10] /\ c4[11] = c3[11]
    BY <2>9 DEF PutByte
  <2>11. PutByte(c5, c4, 14, g.s)
    BY <1>2, <2>1, <2>2, <2>10, ByteIs
  <2> HIDE DEF c5
  <2>12. /\ c5 \in Bytes16 /\ c5[14] = g.s
         /\ c5[0] = c4[0] /\ c5[1] = c4[1] /\ c5[4] = c4[4] /\ c5[9] = c4[9] /\ c5[10] = c4[10] /\ c5[11] = c4[11]
    BY <2>11 DEF PutByte
  <2>13. PutByte(c6, c5, 3, 160)
    <3>1. \A x \in Int : PutByte([c5 EXCEPT ![3] = x], c5, 3, x)
      BY <2>12, ByteIs
    <3> QED
      BY <3>1
  <2> HIDE DEF c6
  <2>14. /\ c6 \in Bytes16 /\ c6[3] = 160
         /\ c6[0] = c5[0] /\ c6[1] = c5[1] /\ c6[4] = c5[4] /\ c6[9] = c5[9] /\ c6[10] = c5[10] /\ c6[11] = c5[11] /\ c6[14] = c5[14]
    BY <2>13 DEF PutByte
  <2>15. PutByte(c7, c6, 2, hk)
    BY <1>2, <2>1, <2>2, <2>14, ByteIs
  <2> HIDE DEF c7
  <2>16. /\ c7 \in Bytes16 /\ c7[2] = hk
         /\ c7[0] = c6[0] /\ c7[1] = c6[1] /\ c7[3] = c6[3] /\ c7[4] = c6[4] /\ c7[9] = c6[9] /\ c7[10] = c6[10] /\ c7[11] = c6[11] /\ c7[14] = c6[14]
    BY <2>15 DEF PutByte
  <2> QED
    BY <2>4, <2>6, <2>8, <2>10, <2>12, <2>14, <2>16
<1> HIDE DEF c1, c2, c3, c4, c5, c6, c7
<1>7. /\ \A i \in 0 .. 14 : c8[i] = c7[i]
      /\ (Post!SumTo13(c8) + c8[14] + c8[15]) % 256 = 0
  <2> DEFINE sum == Post!SumTo13(c7) + c7[14]
             neg == (-sum) % 256
             all == Post!SumTo13(c8) + c8[14] + c8[15]
  <2>1. sum \in Int /\ Post!Checksum(c7) = neg
    BY <1>6 DEF Bytes16, Post!SumTo13, Post!Checksum
  <2>2. neg \in Int /\ (sum + neg) % 256 = 0
    <3> HIDE DEF sum
    <3> QED
      BY <2>1, SMT
  <2> HIDE DEF neg
  <2>3. c8[15] = neg /\ c8 \in Bytes16 /\ \A i \in 0 .. 14 : c8[i] = c7[i]
    BY <1>6, <2>1, <2>2 DEF Bytes16
  <2> HIDE DEF c8
  <2>4. Post!SumTo13(c8) + c8[14] = sum
    BY <2>3 DEF Post!SumTo13
  <2> HIDE DEF sum
  <2>5. all = sum + neg
    BY <2>3, <2>4
  <2>6. all % 256 = 0
    <3> HIDE DEF all
    <3> QED
      BY <2>2, <2>5
  <2> QED
    BY <2>3, <2>6
<1> HIDE DEF c8
<1>8. CASE g.c <= 1024
  BY <1>1, <1>5, <1>8
<1>9. CASE ~(g.c <= 1024)
  BY <1>1, <1>6, <1>7, <1>9 DEF q, hk, k
<1> QED
  BY <1>8, <1>9

\* A whole number of cylinders, heads at a time, is not far below the disk.
LEMMA Products ==
    ASSUME NEW c \in Nat, NEW p \in Nat, p <= c, c < p + 16, NEW h \in 1 .. 16
    PROVE  c * h - 16 * h <= p * h /\ p * h <= c * h
  BY SMT

LEMMA DiskTable ==
    ASSUME NEW g, PostDisk(g), g.c > 8192 => g.h < 16, NEW stale \in Bytes16
    PROVE  Post!Describes(Post!Table(g, stale), g)
<1> DEFINE t == Post!Table(g, stale)
           cylinders == t[0] + 256 * t[1]
           k == Post!Scale(g.c)
           q == g.c \div k
<1>1. g.c \in Nat /\ 0 < g.c /\ g.c <= 16384 /\ g.h \in 1 .. 16
  BY DEF PostDisk
<1>2. \A n \in Nat : Post!Low(n) + 256 * Post!High(n) = n
  BY SMT DEF Post!Low, Post!High
<1>3. CASE g.c <= 1024
  <2>1. t[0] = Post!Low(g.c) /\ t[1] = Post!High(g.c) /\ t[2] = g.h /\ t[14] = g.s
    BY <1>3, TableIs
  <2> HIDE DEF t
  <2>2. cylinders = g.c
    BY <1>1, <1>2, <2>1
  <2> HIDE DEF cylinders
  <2>3. g.c * g.h - 16 * g.h <= g.c * g.h /\ g.c * g.h \in Int /\ 16 * g.h \in Int
    BY <1>1, Products
  <2>4. cylinders * t[2] \in (g.c * g.h - 16 * g.h) .. (g.c * g.h)
    <3>1. t[2] = g.h
      BY <2>1
    <3>2. g.c * g.h \in (g.c * g.h - 16 * g.h) .. (g.c * g.h)
      BY <2>3
    <3> QED
      BY <2>2, <3>1, <3>2, Zenon
  <2>5. cylinders \in 1 .. 1024 /\ t[2] \in 1 .. 255
    BY <1>1, <1>3, <2>1, <2>2
  <2> QED
    BY <1>1, <1>3, <2>1, <2>4, <2>5 DEF Post!Describes, t, cylinders
<1>4. CASE ~(g.c <= 1024)
  <2>1. /\ t[0] = Post!Low(q) /\ t[1] = Post!High(q) /\ t[2] = (g.h * k) % 256 /\ t[14] = g.s /\ t[3] = 160
        /\ t[9] = Post!Low(g.c) /\ t[10] = Post!High(g.c) /\ t[11] = g.h
        /\ (Post!SumTo13(t) + t[14] + t[15]) % 256 = 0
    BY <1>4, TableIs
  <2> HIDE DEF t
  <2>2. /\ k \in {2, 4, 8, 16} /\ q \in Nat /\ 1 <= q /\ q <= 1024
        /\ q * k <= g.c /\ g.c < q * k + 16 /\ q * k \in Nat
        /\ k = 16 => g.h < 16
    <3>1. CASE g.c <= 2048
      BY <1>1, <1>4, <3>1, SMT DEF Post!Scale
    <3>2. CASE 2048 < g.c /\ g.c <= 4096
      BY <1>1, <3>2, SMT DEF Post!Scale
    <3>3. CASE 4096 < g.c /\ g.c <= 8192
      BY <1>1, <3>3, SMT DEF Post!Scale
    <3>4. CASE 8192 < g.c
      BY <1>1, <3>4, SMT DEF Post!Scale
    <3> QED
      BY <1>1, <3>1, <3>2, <3>3, <3>4
  <2> HIDE DEF q, k
  <2>3. g.h * k \in 1 .. 255 /\ (g.h * k) % 256 = g.h * k
    <3>1. CASE k = 16
      <4>1. g.h \in 1 .. 15
        BY <1>1, <2>2, <3>1
      <4> QED
        BY <3>1, <4>1, SMT
    <3>2. CASE k \in {2, 4, 8}
      BY <1>1, <3>2, SMT
    <3> QED
      BY <2>2, <3>1, <3>2
  <2>4. cylinders = q
    BY <1>2, <2>1, <2>2
  <2> HIDE DEF cylinders
  <2>5. cylinders * t[2] = (q * k) * g.h
    <3>1. \A x \in Nat, y \in {2, 4, 8, 16}, z \in 1 .. 16 : x * (z * y) = (x * y) * z
      BY SMT
    <3>2. q * (g.h * k) = (q * k) * g.h
      BY <1>1, <2>2, <3>1
    <3> QED
      BY <2>1, <2>3, <2>4, <3>2
  <2> DEFINE p == q * k
  <2>6. g.c * g.h - 16 * g.h <= p * g.h /\ p * g.h <= g.c * g.h
    <3>1. p \in Nat /\ p <= g.c /\ g.c < p + 16
      BY <2>2
    <3> HIDE DEF p
    <3> QED
      BY <1>1, <3>1, Products
  <2>7. g.c * g.h \in Int /\ 16 * g.h \in Int /\ p * g.h \in Int
    BY <1>1, <2>2
  <2>8. cylinders * t[2] \in (g.c * g.h - 16 * g.h) .. (g.c * g.h)
    <3> HIDE DEF p
    <3>1. cylinders * t[2] = p * g.h
      BY <2>5 DEF p
    <3> DEFINE w == p * g.h
               v == g.c * g.h
               u == 16 * g.h
    <3> HIDE DEF w, v, u
    <3>2. v - u <= w /\ w <= v /\ v \in Int /\ u \in Int /\ w \in Int
      BY <2>6, <2>7 DEF w, v, u
    <3>3. w \in (v - u) .. v
      BY <3>2
    <3> QED
      BY <3>1, <3>3 DEF w, v, u
  <2>9. t[9] + 256 * t[10] = g.c
    BY <1>1, <1>2, <2>1
  <2>10. cylinders \in 1 .. 1024 /\ t[2] \in 1 .. 255
    BY <2>1, <2>2, <2>3, <2>4
  <2> QED
    BY <2>1, <2>8, <2>9, <2>10 DEF Post!Describes, t, cylinders
<1> QED
  BY <1>3, <1>4

LEMMA BytesAre == ASSUME NEW t \in [0 .. 15 -> 0 .. 255] PROVE t \in Bytes16
<1> DEFINE B == 0 .. 255
<1>1. t \in [0 .. 15 -> B] /\ B \subseteq Int
  OBVIOUS
<1> HIDE DEF B
<1> QED
  BY <1>1 DEF Bytes16

LEMMA DiskTablesAre == ASSUME PostTypes, WrittenInv PROVE Post!DiskTables
<1> SUFFICES ASSUME NEW n \in {1, 2}, Post!Passed(<<"disk0", "disk1">>[n]), ~post.halted,
                    Post!IsDisk(Post!This.disks[n]),
                    Post!This.disks[n].c > 8192 => Post!This.disks[n].h < 16
             PROVE  Post!Describes(post.tables[n], Post!This.disks[n])
  BY DEF Post!DiskTables
<1> DEFINE g == Post!This.disks[n]
           stale == Post!This.stale
<1>1. PostMachine(Post!This)
  BY ComputerIs DEF PostTypes
<1>2. PostDisk(g)
  BY <1>1 DEF PostMachine
<1>3. stale \in Bytes16
  <2>1. Post!This.stale \in [0 .. 15 -> 0 .. 255]
    BY <1>1 DEF PostMachine
  <2> QED
    BY <2>1, BytesAre
<1>4. IF n = 1 THEN post.next > 12 ELSE post.next > 13
  BY PassedAre DEF PostTypes
<1>5. post.tables[n] = Post!Table(g, stale)
  <2>1. CASE n = 1
    BY <1>4, <2>1 DEF WrittenInv
  <2>2. CASE n = 2
    BY <1>4, <2>2 DEF WrittenInv
  <2> QED
    BY <2>1, <2>2
<1> HIDE DEF g, stale
<1>6. g.c > 8192 => g.h < 16
  BY DEF g
<1>7. Post!Describes(Post!Table(g, stale), g)
  BY <1>2, <1>3, <1>6, DiskTable
<1> QED
  BY <1>5, <1>7 DEF g

-----------------------------------------------------------------------------
(* The stages, and the clock that goes on. *)

LEMMA PostStart == Post!PostInit => PostInv
<1> SUFFICES ASSUME Post!PostInit PROVE PostInv
  OBVIOUS
<1>1. /\ computer \in Computers /\ cmosTime = Post!This.time
      /\ post = [next |-> 1, halted |-> FALSE, hms |-> <<>>, began |-> 0, torn |-> FALSE,
                 ticks |-> 0, equipment |-> 0, tables |-> <<Post!This.stale, Post!This.stale>>]
  BY DEF Post!PostInit
<1>2. PostTypes
  BY <1>1 DEF PostTypes, Times
<1>3. ClockReadInv /\ WrittenInv
  BY <1>1 DEF ClockReadInv, WrittenInv
<1> QED
  BY <1>2, <1>3 DEF PostInv

\* What a stage does, by its number.
LEMMA StageIs ==
    ASSUME PostTypes, Post!RunStage
    PROVE  /\ post.next \in 1 .. 14 /\ ~post.halted /\ UNCHANGED <<computer, cmosTime>>
           /\ Post!Stage = "ports" <=> post.next = 4
           /\ Post!Stage = "hours" <=> post.next = 5
           /\ Post!Stage = "minutes" <=> post.next = 6
           /\ Post!Stage = "seconds" <=> post.next = 7
           /\ Post!Stage = "disk0" <=> post.next = 12
           /\ Post!Stage = "disk1" <=> post.next = 13
<1>1. post.next \in 1 .. 14 /\ ~post.halted /\ UNCHANGED <<computer, cmosTime>>
  BY StageNames DEF Post!RunStage, PostTypes
<1> QED
  BY <1>1, StageNames DEF Post!Stage

LEMMA StageRuns ==
    ASSUME PostTypes, Post!RunStage
    PROVE  post' = [next |-> post.next + 1, halted |-> Post!Halting, hms |-> Post!TimeRead,
                    began |-> IF post.next = 5 THEN cmosTime \div 60 ELSE post.began,
                    torn |-> post.torn \/ Post!Turned,
                    ticks |-> IF post.next = 7 THEN Post!Ticks(Post!TimeRead) ELSE post.ticks,
                    equipment |-> IF post.next = 4 THEN Post!WordOf(Post!Equipment) ELSE post.equipment,
                    tables |-> IF Post!Halting THEN post.tables ELSE Post!Tables]
<1> DEFINE began == IF post.next = 5 THEN cmosTime \div 60 ELSE post.began
           torn == post.torn \/ Post!Turned
           ticks == IF post.next = 7 THEN Post!Ticks(Post!TimeRead) ELSE post.ticks
           equipment == IF post.next = 4 THEN Post!WordOf(Post!Equipment) ELSE post.equipment
           tables == IF Post!Halting THEN post.tables ELSE Post!Tables
<1>1. /\ began = IF Post!Stage = "hours" THEN cmosTime \div 60 ELSE post.began
      /\ ticks = IF Post!Stage = "seconds" THEN Post!Ticks(Post!TimeRead) ELSE post.ticks
      /\ equipment = IF Post!Stage = "ports" THEN Post!WordOf(Post!Equipment) ELSE post.equipment
  BY StageIs
<1> HIDE DEF began, ticks, equipment
<1>2. post' = [post EXCEPT !.next = post.next + 1, !.halted = Post!Halting, !.hms = Post!TimeRead, !.began = began,
                           !.torn = torn, !.ticks = ticks, !.equipment = equipment, !.tables = tables]
  BY <1>1 DEF Post!RunStage
<1> HIDE DEF torn, tables
<1>3. post' = [next |-> post.next + 1, halted |-> Post!Halting, hms |-> Post!TimeRead, began |-> began, torn |-> torn,
               ticks |-> ticks, equipment |-> equipment, tables |-> tables]
  BY <1>2 DEF PostTypes
<1> QED
  BY <1>3 DEF began, torn, ticks, equipment, tables

LEMMA Longer ==
    ASSUME NEW a \in Seq(Nat), NEW b \in Seq(Nat), Len(b) = 1
    PROVE  (a \o b)[Len(a) + 1] = b[1]
<1> DEFINE l == Len(a)
           c == a \o b
<1>1. l \in Nat
  BY LenProperties
<1>2. \A i \in 1 .. l + Len(b) : c[i] = IF i <= l THEN a[i] ELSE b[i - l]
  BY ConcatProperties, Zenon
<1> HIDE DEF l, c
<1>3. l + 1 \in 1 .. l + 1 /\ ~(l + 1 <= l) /\ (l + 1) - l = 1
  BY <1>1
<1>4. c[l + 1] = b[1]
  BY <1>2, <1>3
<1> QED
  BY <1>4 DEF l, c

LEMMA PostStages ==
    ASSUME PostInv, Post!RunStage
    PROVE  PostInv'
<1> DEFINE n == post.next
<1>1. /\ n \in 1 .. 14 /\ ~post.halted /\ computer' = computer /\ cmosTime' = cmosTime
      /\ Post!This' = Post!This /\ Times' = Times
  BY StageIs DEF PostInv, Post!This, Times
<1>2. /\ Post!Stage = "ports" <=> n = 4
      /\ Post!Stage = "hours" <=> n = 5
      /\ Post!Stage = "minutes" <=> n = 6
      /\ Post!Stage = "seconds" <=> n = 7
      /\ Post!Stage = "disk0" <=> n = 12
      /\ Post!Stage = "disk1" <=> n = 13
  BY StageIs DEF PostInv
<1>3. /\ post'.next = n + 1 /\ post'.halted = Post!Halting /\ post'.hms = Post!TimeRead
      /\ post'.began = IF n = 5 THEN cmosTime \div 60 ELSE post.began
      /\ post'.torn = (post.torn \/ Post!Turned)
      /\ post'.ticks = IF n = 7 THEN Post!Ticks(Post!TimeRead) ELSE post.ticks
      /\ post'.equipment = IF n = 4 THEN Post!WordOf(Post!Equipment) ELSE post.equipment
      /\ post'.tables = IF Post!Halting THEN post.tables ELSE Post!Tables
      /\ post' = [next |-> post'.next, halted |-> post'.halted, hms |-> post'.hms, began |-> post'.began,
                  torn |-> post'.torn, ticks |-> post'.ticks, equipment |-> post'.equipment, tables |-> post'.tables]
  BY StageRuns DEF PostInv
<1>4. /\ computer \in Computers /\ cmosTime \in Times /\ cmosTime \in Nat /\ cmosTime < 86400
      /\ post.hms \in Seq(Nat)
      /\ Len(post.hms) = IF n <= 5 THEN 0 ELSE IF n = 6 THEN 1 ELSE IF n = 7 THEN 2 ELSE 3
  BY TimesAre DEF PostInv, PostTypes
<1>5. /\ cmosTime \div 3600 = Hour(cmosTime) /\ (cmosTime \div 60) % 60 = Minute(cmosTime)
      /\ cmosTime % 60 = LastSecond(cmosTime)
      /\ Post!Bcd(Hour(cmosTime)) \in Nat /\ Post!Bcd(Minute(cmosTime)) \in Nat
      /\ Post!Bcd(LastSecond(cmosTime)) \in Nat
  <2>1. cmosTime \div 3600 = Hour(cmosTime)
    BY <1>4, HourIs
  <2>2. (cmosTime \div 60) % 60 = Minute(cmosTime) /\ cmosTime % 60 = LastSecond(cmosTime)
    BY DEF Minute, LastSecond
  <2>3. /\ Hour(cmosTime) \in Nat /\ Hour(cmosTime) < 100 /\ Minute(cmosTime) \in Nat /\ Minute(cmosTime) < 100
        /\ LastSecond(cmosTime) \in Nat /\ LastSecond(cmosTime) < 100
    <3>1. /\ Hour(cmosTime) \in Nat /\ Hour(cmosTime) < 24 /\ Minute(cmosTime) \in Nat /\ Minute(cmosTime) < 60
          /\ LastSecond(cmosTime) \in Nat /\ LastSecond(cmosTime) < 60
      BY <1>4, TimeParts
    <3> QED
      BY <3>1
  <2>4. /\ Post!Bcd(Hour(cmosTime)) \in Nat /\ Post!Bcd(Minute(cmosTime)) \in Nat
        /\ Post!Bcd(LastSecond(cmosTime)) \in Nat
    BY <2>3, BcdBack
  <2> QED
    BY <2>1, <2>2, <2>4
<1>6. Post!Reads(Post!Stage) = IF n = 5 THEN <<Post!Bcd(Hour(cmosTime))>>
                               ELSE IF n = 6 THEN <<Post!Bcd(Minute(cmosTime))>>
                               ELSE IF n = 7 THEN <<Post!Bcd(LastSecond(cmosTime))>> ELSE <<>>
  BY <1>1, <1>2, <1>5 DEF Post!Reads
<1>7. /\ post'.hms \in Seq(Nat)
      /\ Len(post'.hms) = IF n + 1 <= 5 THEN 0 ELSE IF n + 1 = 6 THEN 1 ELSE IF n + 1 = 7 THEN 2 ELSE 3
      /\ \A i \in 1 .. Len(post.hms) : post'.hms[i] = post.hms[i]
      /\ n = 5 => post'.hms[1] = Post!Bcd(Hour(cmosTime))
      /\ n = 6 => post'.hms[2] = Post!Bcd(Minute(cmosTime))
      /\ n = 7 => post'.hms[3] = Post!Bcd(LastSecond(cmosTime))
      /\ n \notin {5, 6, 7} => post'.hms = post.hms
  <2> DEFINE more == Post!Reads(Post!Stage)
             h == post.hms \o more
  <2>1. more \in Seq(Nat) /\ Len(more) = IF n \in {5, 6, 7} THEN 1 ELSE 0
    BY <1>5, <1>6
  <2>2. /\ n = 5 => more[1] = Post!Bcd(Hour(cmosTime))
        /\ n = 6 => more[1] = Post!Bcd(Minute(cmosTime))
        /\ n = 7 => more[1] = Post!Bcd(LastSecond(cmosTime))
        /\ n \notin {5, 6, 7} => more = <<>>
    BY <1>6
  <2>3. post'.hms = h
    BY <1>3 DEF Post!TimeRead
  <2> HIDE DEF more
  <2>4. h \in Seq(Nat) /\ Len(h) = Len(post.hms) + Len(more)
    <3>1. post.hms \in Seq(Nat) /\ more \in Seq(Nat)
      BY <1>4, <2>1
    <3>2. ASSUME NEW a \in Seq(Nat), NEW b \in Seq(Nat) PROVE a \o b \in Seq(Nat) /\ Len(a \o b) = Len(a) + Len(b)
      BY ConcatProperties
    <3>3. h \in Seq(Nat)
      BY <3>1, <3>2
    <3>4. Len(h) = Len(post.hms) + Len(more)
      BY <3>1, <3>2
    <3> QED
      BY <3>3, <3>4
  <2>6. \A i \in 1 .. Len(post.hms) : h[i] = post.hms[i]
    BY <1>4, <2>1
  <2>7. Len(more) = 1 => h[Len(post.hms) + 1] = more[1]
    <3>1. post.hms \in Seq(Nat) /\ more \in Seq(Nat)
      BY <1>4, <2>1
    <3> HIDE DEF n
    <3> QED
      BY <3>1, Longer
  <2>16. ASSUME NEW l \in Nat, Len(post.hms) = l, Len(more) = 1 PROVE h[l + 1] = more[1]
    BY <2>7, <2>16
  <2>5. more = <<>> => h = post.hms
    BY <1>4
  <2> HIDE DEF h
  <2>8. n = 5 => Len(more) = 1 /\ Len(post.hms) = 0
    BY <1>4, <2>1
  <2>9. n = 6 => Len(more) = 1 /\ Len(post.hms) = 1
    BY <1>4, <2>1
  <2>10. n = 7 => Len(more) = 1 /\ Len(post.hms) = 2
    BY <1>4, <2>1
  <2>11. Len(h) = IF n + 1 <= 5 THEN 0 ELSE IF n + 1 = 6 THEN 1 ELSE IF n + 1 = 7 THEN 2 ELSE 3
    <3>1. n \in Nat
      BY <1>1
    <3>2. Len(h) = (IF n <= 5 THEN 0 ELSE IF n = 6 THEN 1 ELSE IF n = 7 THEN 2 ELSE 3)
                   + (IF n \in {5, 6, 7} THEN 1 ELSE 0)
      BY <1>4, <2>1, <2>4
    <3> QED
      BY <3>1, <3>2
  <2>12. n = 5 => h[1] = Post!Bcd(Hour(cmosTime))
    BY <2>2, <2>7, <2>8
  <2>13. n = 6 => h[2] = Post!Bcd(Minute(cmosTime))
    <3>1. n = 6 => h[1 + 1] = more[1]
      BY <2>9, <2>16
    <3>2. 1 + 1 = 2
      OBVIOUS
    <3> QED
      BY <2>2, <3>1, <3>2
  <2>14. n = 7 => h[3] = Post!Bcd(LastSecond(cmosTime))
    <3>1. n = 7 => h[2 + 1] = more[1]
      BY <2>10, <2>16
    <3>2. 2 + 1 = 3
      OBVIOUS
    <3> QED
      BY <2>2, <3>1, <3>2
  <2>15. n \notin {5, 6, 7} => h = post.hms
    BY <2>2, <2>5
  <2> QED
    BY <2>3, <2>4, <2>6, <2>11, <2>12, <2>13, <2>14, <2>15
<1>8. PostTypes'
  BY <1>1, <1>3, <1>4, <1>7 DEF PostTypes
<1>9. ClockReadInv'
  <2>5. n > 5 => post'.began = post.began
    BY <1>3
  <2>6. post'.torn <=> post.torn \/ Post!Turned
    BY <1>3
  <2>1. n + 1 > 5 => \E t \in Times : post'.began = t \div 60 /\ post'.hms[1] = Post!Bcd(t \div 3600)
    <3>1. CASE n = 5
      <4>1. post'.began = cmosTime \div 60 /\ post'.hms[1] = Post!Bcd(cmosTime \div 3600)
        BY <1>3, <1>5, <1>7, <3>1
      <4> QED
        BY <1>4, <4>1
    <3>2. CASE n > 5
      <4>1. PICK t \in Times : post.began = t \div 60 /\ post.hms[1] = Post!Bcd(t \div 3600)
        BY <3>2 DEF PostInv, ClockReadInv, HourRead
      <4>2. post'.began = post.began
        BY <1>3, <3>2
      <4>3. 1 \in 1 .. Len(post.hms)
        BY <1>1, <1>4, <3>2
      <4>4. post'.hms[1] = post.hms[1]
        BY <1>7, <4>3
      <4> QED
        BY <4>1, <4>2, <4>4
    <3> QED
      BY <1>1, <3>1, <3>2
  <2>2. ASSUME n + 1 > 6, ~post'.torn PROVE post'.hms[2] = Post!Bcd(post'.began % 60)
    <3>1. ~post.torn /\ ~Post!Turned /\ post'.began = post.began
      BY <1>1, <2>2, <2>5, <2>6
    <3>2. CASE n = 6
      <4>1. cmosTime \div 60 = post.began
        BY <1>2, <3>1, <3>2 DEF Post!Turned
      <4>2. post'.hms[2] = Post!Bcd((cmosTime \div 60) % 60)
        BY <1>5, <1>7, <3>2
      <4> QED
        BY <3>1, <4>1, <4>2
    <3>3. CASE n > 6
      <4>1. post.hms[2] = Post!Bcd(post.began % 60)
        BY <3>1, <3>3 DEF PostInv, ClockReadInv, MinuteRead
      <4>2. post'.hms[2] = post.hms[2]
        BY <1>1, <1>4, <1>7, <3>3
      <4> QED
        BY <3>1, <4>1, <4>2
    <3> QED
      BY <1>1, <2>2, <3>2, <3>3
  <2>3. ASSUME n + 1 > 7, ~post'.torn
        PROVE  \E t \in Times : post'.began = t \div 60 /\ post'.hms[3] = Post!Bcd(t % 60)
    <3>1. ~post.torn /\ ~Post!Turned /\ post'.began = post.began
      BY <1>1, <2>3, <2>5, <2>6
    <3>2. CASE n = 7
      <4>1. cmosTime \div 60 = post.began
        BY <1>2, <3>1, <3>2 DEF Post!Turned
      <4>2. post'.hms[3] = Post!Bcd(cmosTime % 60)
        BY <1>5, <1>7, <3>2
      <4> QED
        BY <1>4, <3>1, <4>1, <4>2
    <3>3. CASE n > 7
      <4>1. PICK t \in Times : post.began = t \div 60 /\ post.hms[3] = Post!Bcd(t % 60)
        BY <3>1, <3>3 DEF PostInv, ClockReadInv, SecondRead
      <4>2. post'.hms[3] = post.hms[3]
        BY <1>1, <1>4, <1>7, <3>3
      <4> QED
        BY <3>1, <4>1, <4>2
    <3> QED
      BY <1>1, <2>3, <3>2, <3>3
  <2>4. n + 1 > 7 => post'.ticks = Post!Ticks(post'.hms)
    <3>1. CASE n = 7
      BY <1>3, <3>1
    <3>2. CASE n > 7
      <4>1. post'.hms = post.hms /\ post'.ticks = post.ticks
        BY <1>1, <1>3, <1>7, <3>2
      <4> QED
        BY <3>2, <4>1 DEF PostInv, ClockReadInv
    <3> QED
      BY <1>1, <3>1, <3>2
  <2> QED
    BY <1>1, <1>3, <2>1, <2>2, <2>3, <2>4 DEF ClockReadInv, HourRead, MinuteRead, SecondRead
<1>10. WrittenInv'
  <2>1. n + 1 > 4 => post'.equipment = Post!WordOf(Post!Equipment)
    BY <1>1, <1>3 DEF PostInv, WrittenInv
  <2>2. Post!Equipment' = Post!Equipment
    BY <1>1 DEF Post!Equipment
  <2> DEFINE g(k) == Post!This.disks[k]
             stale == Post!This.stale
             T(k, done) == IF done /\ Post!IsDisk(g(k)) THEN Post!Table(g(k), stale) ELSE stale
  <2>3. post.tables = <<T(1, n > 12), T(2, n > 13)>>
    BY <1>1 DEF PostInv, WrittenInv
  <2>4. ASSUME ~Post!Halting PROVE post'.tables = <<T(1, n + 1 > 12), T(2, n + 1 > 13)>>
    <3>1. post'.tables = Post!Tables
      BY <1>3, <2>4
    <3>2. CASE n = 12
      <4>1. post.tables = <<stale, stale>> /\ Post!Tables = Post!Disk(1, post.tables)
        BY <1>2, <2>3, <3>2 DEF Post!Tables
      <4>2. Post!Disk(1, <<stale, stale>>) = <<T(1, TRUE), stale>>
        BY DEF Post!Disk
      <4> HIDE DEF T, stale
      <4>3. (n + 1 > 12) = TRUE /\ (n + 1 > 13) = FALSE
        BY <3>2
      <4>4. T(2, FALSE) = stale
        BY DEF T
      <4> QED
        BY <3>1, <4>1, <4>2, <4>3, <4>4
    <3>3. CASE n = 13
      <4>1. post.tables = <<T(1, TRUE), stale>> /\ Post!Tables = Post!Disk(2, post.tables)
        BY <1>2, <2>3, <3>3 DEF Post!Tables
      <4>2. \A t : Post!Disk(2, <<t, stale>>) = <<t, T(2, TRUE)>>
        BY DEF Post!Disk
      <4> HIDE DEF T, stale
      <4>3. (n + 1 > 12) = TRUE /\ (n + 1 > 13) = TRUE
        BY <3>3
      <4> QED
        BY <3>1, <4>1, <4>2, <4>3
    <3>4. CASE n \notin {12, 13}
      <4>1. Post!Tables = post.tables
        BY <1>2, <3>4 DEF Post!Tables
      <4>2. (n + 1 > 12) = (n > 12) /\ (n + 1 > 13) = (n > 13)
        BY <1>1, <3>4
      <4> HIDE DEF T
      <4> QED
        BY <2>3, <3>1, <4>1, <4>2
    <3> QED
      BY <3>2, <3>3, <3>4
  <2>5. ~post'.halted => post'.tables = <<T(1, post'.next > 12), T(2, post'.next > 13)>>
    BY <1>3, <2>4
  <2> QED
    BY <1>1, <1>3, <2>1, <2>2, <2>5 DEF WrittenInv
<1> QED
  BY <1>8, <1>9, <1>10 DEF PostInv

LEMMA PostSecond ==
    ASSUME PostInv, Post!Second
    PROVE  PostInv'
<1>1. /\ cmosTime = Post!This.time /\ cmosTime' = (cmosTime + 1) % 86400 /\ post' = post /\ computer' = computer
      /\ Post!This' = Post!This /\ Times' = Times
  BY DEF Post!Second, Post!This, Times
<1>2. cmosTime' \in Times'
  BY <1>1 DEF Times
<1>3. PostTypes'
  BY <1>1, <1>2 DEF PostInv, PostTypes
<1>4. ClockReadInv'
  BY <1>1 DEF PostInv, ClockReadInv, HourRead, MinuteRead, SecondRead
<1>5. Post!Equipment' = Post!Equipment
  BY <1>1 DEF Post!Equipment
<1>6. WrittenInv'
  BY <1>1, <1>5 DEF PostInv, WrittenInv
<1> QED
  BY <1>3, <1>4, <1>6 DEF PostInv

LEMMA PostStay == ASSUME PostInv, UNCHANGED postV PROVE PostInv'
<1>1. computer' = computer /\ cmosTime' = cmosTime /\ post' = post /\ Post!This' = Post!This /\ Times' = Times
  BY DEF postV, Post!This, Times
<1>2. PostTypes' /\ ClockReadInv'
  BY <1>1 DEF PostInv, PostTypes, ClockReadInv, HourRead, MinuteRead, SecondRead
<1>3. Post!Equipment' = Post!Equipment
  BY <1>1 DEF Post!Equipment
<1>4. WrittenInv'
  BY <1>1, <1>3 DEF PostInv, WrittenInv
<1> QED
  BY <1>2, <1>4 DEF PostInv

LEMMA PostSteps == ASSUME PostInv, Post!PostNext PROVE PostInv'
  BY PostStages, PostSecond DEF Post!PostNext

-----------------------------------------------------------------------------
(* From power on to a loaded system: both parts. *)

LEMMA BootKept == ASSUME BootInv, [BiosNext]_biosVars PROVE BootInv'
<1>1. CASE bootV' = bootV
  BY <1>1, BootStay
<1>2. CASE Boot!BootNext
  BY <1>2, BootSteps
<1>3. Boot!BootNext \/ bootV' = bootV
  BY Zenon DEF BiosNext, biosVars
<1> QED
  BY <1>1, <1>2, <1>3

LEMMA PostKept == ASSUME PostInv, [BiosNext]_biosVars PROVE PostInv'
<1>1. CASE postV' = postV
  BY <1>1, PostStay
<1>2. CASE Post!PostNext
  BY <1>2, PostSteps
<1>3. Post!PostNext \/ postV' = postV
  BY Zenon DEF BiosNext, biosVars
<1> QED
  BY <1>1, <1>2, <1>3

\* ROMs are initialised once, devices tried in the order set up and systems
\* resumed no more often than they asked (rom_scan, boot_next_device); every
\* line's interrupt is ended at its controllers, the clock starts at the time
\* of day, and the equipment word and the disk tables describe the machine
\* (normal_post).
THEOREM BiosBootExact == Spec => []BootExact
<1>1. BiosInit(Parts) => BootInv /\ PostInv
  BY BootStart, PostStart DEF BiosInit
<1>2. PostInv => Post!IrqsEnded /\ Post!ClockSet /\ Post!EquipmentCounts /\ Post!DiskTables
  BY IrqsEndedIs, ClockSetIs, EquipmentIs, DiskTablesAre DEF PostInv
<1>3. BootInv /\ PostInv => BootExact
  BY <1>2, BootRight DEF BootExact
<1> QED
  BY <1>1, <1>3, BootKept, PostKept, PTL DEF Spec
=============================================================================
