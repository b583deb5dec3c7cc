------------------------------- MODULE BiosPorts -------------------------------
(***************************************************************************)
(* Serial and printer services of the system BIOS (src/sw/sysbios): INT    *)
(* 14h, which waits for the line in timer ticks, and INT 17h, which waits  *)
(* for the printer in polls.  Both run with interrupts on.                 *)
(***************************************************************************)
EXTENDS Integers, Sequences

CONSTANTS SerialTimeout,    \* ticks: the byte at 0040:007C
          PrinterTimeout,   \* polls: the byte at 0040:0078, times 256
          MaxSent,          \* calls that send a character
          PortCalls         \* calls programs make

VARIABLES
    line,       \* the serial line: held, in the shifter, gone; a received byte; its divisor and control
    printer,    \* its latch, what it took, whether it acknowledges
    pp,         \* the program: where in which call, ticks or polls left
    said,       \* what the last call answered
    accepted    \* the characters whose sending was answered well

portVars == <<line, printer, pp, said, accepted>>

None == 0
Rest == [pc |-> "idle", call |-> [fn |-> "none", c |-> 0], left |-> 0]
Nothing == [fn |-> "none", timeout |-> FALSE, c |-> 0]
Says(fn, timeout, c) == pp' = Rest /\ said' = [fn |-> fn, timeout |-> timeout, c |-> c]

-----------------------------------------------------------------------------
\* AH=00h.  What was meant for 110 baud is never taken: the comparison binds
\* before the mask.
Divisor(code) == 1536 \div (2 ^ code)

int14_init(call) ==
    /\ call.fn = "init"
    /\ line' = [line EXCEPT !.divisor = Divisor(call.c)]
    /\ Says("init", FALSE, 0) /\ UNCHANGED <<printer, accepted>>

int14_status(call) == call.fn = "status" /\ Says("status", FALSE, 0) /\ UNCHANGED <<line, printer, accepted>>
Unsupported(call) == call.fn = "none" /\ Says("unsupported", TRUE, 0) /\ UNCHANGED <<line, printer, accepted>>

Waits(call) ==
    /\ call.fn \in {"send", "receive"}
    /\ pp' = [pc |-> call.fn, call |-> call, left |-> SerialTimeout]
    /\ UNCHANGED <<line, printer, said, accepted>>

Prints(call) ==
    /\ call.fn = "print"
    /\ pp' = [pc |-> "print", call |-> call, left |-> PrinterTimeout]
    /\ printer' = [printer EXCEPT !.latch = call.c, !.ack = FALSE]
    /\ UNCHANGED <<line, said, accepted>>

InitPrinter(call) ==
    /\ call.fn = "reset"
    /\ printer' = [printer EXCEPT !.latch = None, !.ack = FALSE]
    /\ Says("reset", FALSE, 0) /\ UNCHANGED <<line, accepted>>

Call == /\ pp.pc = "idle" /\ said = Nothing
        /\ \E call \in PortCalls : \/ int14_init(call) \/ int14_status(call) \/ Unsupported(call)
                                   \/ Waits(call) \/ Prints(call) \/ InitPrinter(call)

Taken == /\ pp.pc = "idle" /\ said # Nothing
         /\ said' = Nothing /\ UNCHANGED <<line, printer, pp, accepted>>

-----------------------------------------------------------------------------
\* Both registers empty; the tick count has moved on.
Ready(l) == l.held = None /\ l.shifted = None

TickPasses ==
    /\ \/ pp.pc = "send" /\ ~Ready(line)
       \/ pp.pc = "receive" /\ line.received = None
    /\ pp.left > 0
    /\ pp' = [pp EXCEPT !.left = @ - 1]
    /\ UNCHANGED <<line, printer, said, accepted>>

\* A bug: a wait that ran out of ticks sends all the same.
Sends_Always(left) == TRUE

Sends(left) == left > 0

Sent ==
    /\ pp.pc = "send" /\ (Ready(line) \/ pp.left = 0)
    /\ IF Sends(pp.left)
       THEN /\ line' = [line EXCEPT !.held = pp.call.c] /\ accepted' = Append(accepted, pp.call.c)
            /\ Says("send", FALSE, 0)
       ELSE Says("send", TRUE, 0) /\ UNCHANGED <<line, accepted>>
    /\ Len(accepted) < MaxSent /\ UNCHANGED printer

Received ==
    /\ pp.pc = "receive" /\ (line.received # None \/ pp.left = 0)
    /\ IF pp.left > 0
       THEN Says("receive", FALSE, line.received) /\ line' = [line EXCEPT !.received = None]
       ELSE Says("receive", TRUE, 0) /\ UNCHANGED line
    /\ UNCHANGED <<printer, accepted>>

Poll ==
    /\ pp.pc = "print" /\ ~printer.ack /\ pp.left > 0
    /\ pp' = [pp EXCEPT !.left = @ - 1]
    /\ UNCHANGED <<line, printer, said, accepted>>

Printed ==
    /\ pp.pc = "print" /\ (printer.ack \/ pp.left = 0)
    /\ Says("print", pp.left = 0, pp.call.c) /\ UNCHANGED <<line, printer, accepted>>

-----------------------------------------------------------------------------
\* The devices: a byte moves to the shifter, leaves it, arrives; the printer
\* takes what was strobed into it.
Shift == /\ line.held # None /\ line.shifted = None
         /\ line' = [line EXCEPT !.held = None, !.shifted = line.held]
         /\ UNCHANGED <<printer, pp, said, accepted>>
Leave == /\ line.shifted # None
         /\ line' = [line EXCEPT !.shifted = None, !.gone = Append(@, line.shifted)]
         /\ UNCHANGED <<printer, pp, said, accepted>>
Arrive == /\ line.received = None
          /\ \E c \in {1, 2} : line' = [line EXCEPT !.received = c]
          /\ UNCHANGED <<printer, pp, said, accepted>>
Acknowledge == /\ printer.latch # None
               /\ printer' = [latch |-> None, took |-> printer.latch, ack |-> TRUE]
               /\ UNCHANGED <<line, pp, said, accepted>>

PortsInit ==
    /\ line = [held |-> None, shifted |-> None, gone |-> <<>>, received |-> None, divisor |-> 12]
    /\ printer = [latch |-> None, took |-> None, ack |-> FALSE]
    /\ pp = Rest /\ said = Nothing /\ accepted = <<>>

PortsNext == \/ Call \/ Taken \/ TickPasses \/ Sent \/ Received \/ Poll \/ Printed
             \/ Shift \/ Leave \/ Arrive \/ Acknowledge

-----------------------------------------------------------------------------
(* Properties *)

\* The characters whose sending was answered well are those on the line, in
\* order: none overwrites one that still waits, none that timed out is sent.
InHand(c) == IF c = None THEN <<>> ELSE <<c>>
SentInOrder == line.gone \o InHand(line.shifted) \o InHand(line.held) = accepted

\* A character said to be printed has been taken by the printer.
PrintedTaken == (said.fn = "print" /\ ~said.timeout) => printer.took = said.c /\ printer.latch = None
=============================================================================
