-------------------------------- MODULE BiosTime --------------------------------
(***************************************************************************)
(* Time services of the system BIOS (src/sw/sysbios): the tick count and   *)
(* its midnight flag (INT 8, INT 1Ah), waits in ticks, the wait interval of *)
(* INT 15h AH=83h, and the calls that read and set the real-time clock.    *)
(* INT 1Ah runs with interrupts on; every access to the real-time clock    *)
(* selects a register with one port write and uses it with the next.       *)
(***************************************************************************)
EXTENDS Integers, Sequences, FiniteSets

CONSTANTS DayTicks,         \* ticks of a day: 1800B0h
          LowWord,          \* the count is read in a high and a low word: 10000h
          Period,           \* microseconds between periodic interrupts: 3D1h
          TimeMenus,        \* a run gives its program one of these
          TimeBench(_),     \* the calls of a menu
          TickLimit(_)      \* and the ticks there are

VARIABLES
    menu,       \* the program's
    clock,      \* ticks since midnight, midnights not reported, and what they should say
    rtc,        \* registers, B and C as sets of bits, the selected one, IRQ 8
    interval,   \* the wait interval: its bytes in the BIOS data area, the program's flag
    tp,         \* the program: where in which call
    clockSays   \* what the last call answered

timeVars == <<menu, clock, rtc, interval, tp, clockSays>>

Bytes == {"seconds", "hours", "date", "alarm"}
Idle == [pc |-> "idle", call |-> [fn |-> "none"], ops |-> <<>>, selected |-> FALSE, b |-> {}, cf |-> FALSE, if |-> TRUE, got |-> <<>>]
Silence == [fn |-> "none"]
Answers(a) == tp' = Idle /\ clockSays' = a

-----------------------------------------------------------------------------
\* INT 8: one more tick; midnight is counted in a byte.
Tick(c) == IF c.ticks + 1 >= DayTicks
           THEN [c EXCEPT !.ticks = 0, !.flag = (@ + 1) % 256, !.true = @ + 1]
           ELSE [c EXCEPT !.ticks = @ + 1, !.true = @ + 1]

int08_ticks ==
    /\ tp.if /\ clock.true < TickLimit(menu)
    /\ clock' = Tick(clock) /\ UNCHANGED <<menu, rtc, interval, tp, clockSays>>

\* INT 1Ah AH=00h reads the count a word at a time, with interrupts off.
\* A bug: interrupts stay on.
Closed_Open == FALSE

Closed == TRUE

ReadClock(call) ==
    /\ call.fn = "clock"
    /\ tp' = [Idle EXCEPT !.pc = "high", !.call = call, !.if = ~Closed]
    /\ UNCHANGED <<clock, rtc, interval, clockSays>>

ReadHigh ==
    /\ tp.pc = "high"
    /\ tp' = [tp EXCEPT !.pc = "low", !.got = <<clock.ticks \div LowWord>>]
    /\ UNCHANGED <<menu, clock, rtc, interval, clockSays>>

ReadLow ==
    /\ tp.pc = "low"
    /\ tp' = [tp EXCEPT !.pc = "flag", !.got = Append(@, clock.ticks % LowWord)]
    /\ UNCHANGED <<menu, clock, rtc, interval, clockSays>>

ReadFlag ==
    /\ tp.pc = "flag"
    /\ Answers([fn |-> "clock", count |-> clock.flag * DayTicks + tp.got[1] * LowWord + tp.got[2],
                true |-> clock.true])
    /\ clock' = [clock EXCEPT !.flag = 0, !.true = clock.ticks]
    /\ UNCHANGED <<menu, rtc, interval>>

SetClock(call) ==
    /\ call.fn = "setclock"
    /\ clock' = [ticks |-> call.n, flag |-> 0, true |-> call.n]
    /\ Answers([fn |-> "setclock"]) /\ UNCHANGED <<rtc, interval>>

-----------------------------------------------------------------------------
\* delay_ticks: at midnight only the new count is subtracted.
\* A bug: a count that went back is taken for a whole day.
Passed_Day(t, prev) == IF t < prev THEN DayTicks ELSE t - prev

Passed(t, prev) == IF t < prev THEN t ELSE t - prev

delay_ticks(call) ==
    /\ call.fn = "delay"
    /\ tp' = [Idle EXCEPT !.pc = "hlt", !.call = call, !.got = <<call.n, clock.ticks, clock.true>>]
    /\ UNCHANGED <<clock, rtc, interval, clockSays>>

DelayLoop ==
    /\ tp.pc = "hlt"
    /\ LET left == tp.got[1] - Passed(clock.ticks, tp.got[2])
       IN  IF left > 0 THEN tp' = [tp EXCEPT !.got = <<left, clock.ticks, @[3]>>] /\ UNCHANGED clockSays
           ELSE Answers([fn |-> "delay", asked |-> tp.call.n, true |-> clock.true - tp.got[3]])
    /\ UNCHANGED <<menu, clock, rtc, interval>>

-----------------------------------------------------------------------------
\* INT 15h AH=83h runs with interrupts off.  AL=00h sets the interval, AL=01h
\* clears it.
Free == ~interval.on

SetInterval(call) ==
    /\ call.fn = "interval"
    /\ IF Free
       THEN /\ interval' = [on |-> TRUE, left |-> call.n, asked |-> call.n, flag |-> FALSE, periods |-> 0]
            /\ rtc' = [rtc EXCEPT !.b = @ \cup {"PIE"}, !.index = "B",
                                  !.irq = @ \/ "PF" \in rtc.c]
            /\ Answers([fn |-> "interval", cf |-> FALSE])
       ELSE Answers([fn |-> "interval", cf |-> TRUE]) /\ UNCHANGED <<interval, rtc>>
    /\ UNCHANGED clock

ClearInterval(call) ==
    /\ call.fn = "clear"
    /\ interval' = [interval EXCEPT !.on = FALSE]
    /\ rtc' = [rtc EXCEPT !.b = @ \ {"PIE"}, !.index = "B"]
    /\ Answers([fn |-> "clear"]) /\ UNCHANGED clock

BadInterval(call) == call.fn = "bad" /\ Answers([fn |-> "bad", cf |-> TRUE]) /\ UNCHANGED <<clock, rtc, interval>>

-----------------------------------------------------------------------------
\* INT 1Ah AH=02h to 07h as the register accesses they make.
R(reg) == [op |-> "read", reg |-> reg, keep |-> {}, add |-> {}]
W(reg) == [op |-> "write", reg |-> reg, keep |-> {}, add |-> {}]
WB(keep, add) == [op |-> "write", reg |-> "B", keep |-> keep, add |-> add]
Both == {"PIE", "AIE"}
init_rtc == <<W("A"), WB({}, {}), R("C"), R("D")>>

RtcCalls == {"readtime", "settime", "readdate", "setdate", "setalarm", "alarmoff"}
Accesses(fn) ==
    CASE fn = "readtime" -> <<R("A"), R("seconds"), R("hours"), R("B")>>
      [] fn = "settime" -> <<R("A"), W("seconds"), W("hours"), R("B"), WB(Both, {})>>
      [] fn = "readdate" -> <<R("A"), R("date")>>
      [] fn = "setdate" -> <<R("A"), W("date"), R("B"), WB(Both, {})>>
      [] fn = "setalarm" -> <<R("B"), R("A"), W("alarm"), WB(Both, {"AIE"})>>
      [] fn = "alarmoff" -> <<R("B"), WB({"PIE"}, {})>>

Rtc(call) ==
    /\ call.fn \in RtcCalls
    /\ tp' = [Idle EXCEPT !.pc = "rtc", !.call = call, !.ops = Accesses(call.fn)]
    /\ UNCHANGED <<clock, rtc, interval, clockSays>>

Call ==
    /\ tp.pc = "idle" /\ clockSays = Silence
    /\ \E call \in TimeBench(menu) :
           \/ ReadClock(call) \/ SetClock(call) \/ delay_ticks(call)
           \/ SetInterval(call) \/ ClearInterval(call) \/ BadInterval(call) \/ Rtc(call)
    /\ UNCHANGED menu

Taken == /\ tp.pc = "idle" /\ clockSays # Silence
         /\ clockSays' = Silence /\ UNCHANGED <<menu, clock, rtc, interval, tp>>

Access == Head(tp.ops)
Done(op) == [tp EXCEPT !.selected = FALSE, !.ops = Tail(@)]

Select ==
    /\ tp.pc = "rtc" /\ tp.ops # <<>> /\ ~tp.selected
    /\ tp' = [tp EXCEPT !.selected = TRUE] /\ rtc' = [rtc EXCEPT !.index = Access.reg]
    /\ UNCHANGED <<menu, clock, interval, clockSays>>

\* What is read is what is selected by now.  Register A is polled by
\* rtc_updating, which gives up when an update never ends; AH=06h fails
\* when an alarm is set already.
Fails == Answers([fn |-> tp.call.fn, cf |-> TRUE])
ReadData ==
    /\ tp.pc = "rtc" /\ tp.selected /\ Access.op = "read"
    /\ rtc' = IF rtc.index = "C" THEN [rtc EXCEPT !.c = {}] ELSE rtc
    /\ CASE Access.reg = "A" ->
              \E stuck \in BOOLEAN :
                 CASE stuck /\ tp.call.fn \in {"readtime", "readdate"} -> Fails
                   [] stuck /\ tp.call.fn = "setdate" -> tp' = [Done("A") EXCEPT !.ops = init_rtc, !.cf = TRUE] /\ UNCHANGED clockSays
                   [] stuck /\ tp.call.fn \in {"settime", "setalarm"} -> tp' = [Done("A") EXCEPT !.ops = init_rtc \o Tail(tp.ops)] /\ UNCHANGED clockSays
                   [] OTHER -> tp' = Done("A") /\ UNCHANGED clockSays
         [] Access.reg = "B" ->
              LET b == IF rtc.index = "B" THEN rtc.b ELSE {}
              IN  IF tp.call.fn = "setalarm" /\ "AIE" \in b THEN Fails
                  ELSE tp' = [Done("B") EXCEPT !.b = b] /\ UNCHANGED clockSays
         [] Access.reg \in {"C", "D"} -> tp' = Done("C") /\ UNCHANGED clockSays
         [] Access.reg \in Bytes ->
              /\ tp' = [Done("byte") EXCEPT !.got = Append(@, IF rtc.index \in Bytes THEN rtc.bytes[rtc.index] ELSE 9)]
              /\ UNCHANGED clockSays
    /\ UNCHANGED <<menu, clock, interval>>

\* A write that falls on register B sets its bits by whatever the byte is.
WriteData ==
    /\ tp.pc = "rtc" /\ tp.selected /\ Access.op = "write"
    /\ CASE rtc.index = "B" /\ Access.reg = "B" -> rtc' = [rtc EXCEPT !.b = (tp.b \cap Access.keep) \cup Access.add]
         [] rtc.index = "B" /\ Access.reg # "B" -> \E b \in SUBSET Both : rtc' = [rtc EXCEPT !.b = b]
         [] rtc.index \in Bytes -> rtc' = [rtc EXCEPT !.bytes[rtc.index] = tp.call.n]
         [] OTHER -> UNCHANGED rtc
    /\ tp' = Done("write") /\ UNCHANGED <<menu, clock, interval, clockSays>>

\* AH=05h fails after it has started a stuck clock again.
RtcReturns ==
    /\ tp.pc = "rtc" /\ tp.ops = <<>>
    /\ Answers([fn |-> tp.call.fn, cf |-> tp.cf, got |-> tp.got, call |-> tp.call])
    /\ UNCHANGED <<menu, clock, rtc, interval>>

-----------------------------------------------------------------------------
\* The real-time clock: periodic and alarm events.
Event(bit, enable) ==
    /\ bit \notin rtc.c
    /\ rtc' = [rtc EXCEPT !.c = @ \cup {bit}, !.irq = @ \/ enable \in rtc.b]
    /\ UNCHANGED <<menu, clock, tp, clockSays>>

Periodic == /\ Event("PF", "PIE")
            /\ interval' = IF interval.on THEN [interval EXCEPT !.periods = @ + 1] ELSE interval
Alarm == Event("AF", "AIE") /\ rtc.b # {} /\ UNCHANGED interval

\* IRQ 8.  The program's handler of INT 4Ah may turn the alarm off; what was
\* read from B before it is used after it.
Over(left) == left < Period

int70_function ==
    /\ tp.if /\ rtc.irq
    /\ \E off \in BOOLEAN :
       LET alarm    == rtc.b # {} /\ "AF" \in rtc.c
           b4A      == IF alarm /\ off THEN rtc.b \ {"AIE"} ELSE rtc.b
           periodic == rtc.b # {} /\ "PF" \in rtc.c /\ interval.on
           over     == periodic /\ Over(interval.left)
       IN  /\ off => alarm
           /\ rtc' = [rtc EXCEPT !.c = {}, !.irq = FALSE, !.b = IF over THEN @ \ {"PIE"} ELSE b4A,
                                 !.index = IF over \/ off THEN "B" ELSE "C"]
           /\ interval' = CASE over -> [interval EXCEPT !.on = FALSE, !.flag = TRUE]
                            [] periodic /\ ~over -> [interval EXCEPT !.left = @ - Period]
                            [] OTHER -> interval
    /\ UNCHANGED <<menu, clock, tp, clockSays>>

-----------------------------------------------------------------------------
TimeInit ==
    /\ menu \in TimeMenus
    /\ clock = [ticks |-> 0, flag |-> 0, true |-> 0]
    /\ rtc = [b |-> {}, c |-> {}, index |-> "D", irq |-> FALSE, bytes |-> [r \in Bytes |-> 0]]
    /\ interval = [on |-> FALSE, left |-> 0, asked |-> 0, flag |-> FALSE, periods |-> 0]
    /\ tp = Idle /\ clockSays = Silence

TimeNext ==
    \/ int08_ticks \/ Call \/ Taken \/ ReadHigh \/ ReadLow \/ ReadFlag \/ DelayLoop
    \/ Select \/ ReadData \/ WriteData \/ RtcReturns
    \/ Periodic \/ Alarm \/ int70_function

-----------------------------------------------------------------------------
(* Properties *)

\* A reading of the clock, with the midnights it reports, is the number of
\* ticks there have been.
ClockExact == clockSays.fn = "clock" => clockSays.count = clockSays.true

\* A delay takes at least the ticks asked for.
DelayElapsed == clockSays.fn = "delay" => clockSays.true >= clockSays.asked

\* A wait interval keeps the periodic interrupt on while it runs, and ends
\* no more than a period early.
IntervalKept == /\ interval.on => "PIE" \in rtc.b
                /\ interval.flag => interval.periods >= interval.asked \div Period
=============================================================================
