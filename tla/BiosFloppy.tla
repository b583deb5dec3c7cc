------------------------------- MODULE BiosFloppy -------------------------------
(***************************************************************************)
(* Diskette services of the system BIOS (src/sw/sysbios): INT 13h for      *)
(* drives 00h and 01h, IRQ 6, the motor timeout of the timer tick, and as  *)
(* much of the diskette controller as they talk to.  INT 13h waits with    *)
(* interrupts on for a bit of the data area that the handler of IRQ 6 sets.*)
(***************************************************************************)
EXTENDS Integers, Sequences, FiniteSets

CONSTANTS FloppyOnCnt,      \* timer ticks a motor stays on: BX_FLOPPY_ON_CNT
          FloppyTypes,      \* what CMOS register 10h may say of the two drives
          FloppyCalls       \* calls programs make

VARIABLES
    types,      \* the types of drives 0 and 1
    fdc,        \* the controller: what it does, for whom, motors that are on
    irq6,       \* its interrupt is pending
    fl,         \* the diskette part of the BIOS data area
    prog,       \* the program: where in which call it is
    answer      \* what the last call answered

floppyVars == <<types, fdc, irq6, fl, prog, answer>>

Quiet == [pc |-> "idle", call |-> [ah |-> 0], if |-> TRUE, for |-> "none"]
NoAnswer == [cf |-> FALSE, ah |-> 0, call |-> [ah |-> 0], done |-> [what |-> "none"]]
Goto(pc) == prog' = [prog EXCEPT !.pc = pc]
Interruptible == prog.if /\ irq6        \* IRQ 6 comes before the program's next step

-----------------------------------------------------------------------------
\* Answers: AH, the status at 0040:0041, and the carry flag.
Says(call, cf, ah, stored) ==
    /\ answer' = [cf |-> cf, ah |-> ah, call |-> call, done |-> [what |-> "none"]]
    /\ prog' = Quiet /\ fl' = [fl EXCEPT !.st41 = stored]
    /\ UNCHANGED <<types, fdc, irq6>>
Refuses(call, code) == Says(call, TRUE, code, code)

Exists(drive) == IF drive = 0 THEN types[0] # 0 ELSE types[1] # 0
floppy_media_known(drive) == LET d == IF drive = 0 THEN 0 ELSE 1 IN d \in fl.cal /\ d \in fl.known
Sensible(drive) == types[IF drive = 0 THEN 0 ELSE 1] \in 1 .. 8

-----------------------------------------------------------------------------
\* The DMA address of ES:BX; a transfer may not cross 64 kilobytes.
\* A bug: the carry of the offset is not seen.
Page_NoCarry(es, bx) == es \div 4096

Page(es, bx) == (es \div 4096) + (IF (((es % 4096) * 16 + bx) % 65536) < (es % 4096) * 16 THEN 1 ELSE 0)
BaseAddress(es, bx) == ((es % 4096) * 16 + bx) % 65536
Bytes(call) == IF call.ah = 5 THEN call.n * 4 ELSE call.n * 512
Overrun(call) == (BaseAddress(call.es, call.bx) + Bytes(call) - 1) % 65536 < BaseAddress(call.es, call.bx)
Programmed(call) == [what |-> "data", call |-> call, page |-> Page(call.es, call.bx),
                     base |-> BaseAddress(call.es, call.bx), bytes |-> Bytes(call)]

-----------------------------------------------------------------------------
\* Functions that use the drive first see that it is there, and recalibrate
\* it when its medium is not known.
BadTransfer(call) == call.dl > 1 \/ call.h > 1 \/ call.s = 0 \/ call.n \notin 1 .. 72

BadFormat(call) == call.dl > 1 \/ call.h > 1 \/ call.c > 79 \/ call.n \notin 1 .. 18

Uses(call) ==
    IF ~Exists(call.dl) THEN Refuses(call, 128)
    ELSE /\ fl' = IF call.ah = 5 /\ BadFormat(call) THEN [fl EXCEPT !.st41 = 1] ELSE fl
         /\ prog' = [Quiet EXCEPT !.call = call, !.if = FALSE, !.for = "sense",
                                  !.pc = IF floppy_media_known(call.dl) THEN "setup" ELSE "prepare"]
         /\ UNCHANGED <<types, fdc, irq6, answer>>

\* The parameters of a format are judged, and the judgement is not heeded.
Format(call) == Uses(call)

Transfer(call) == IF BadTransfer(call) THEN Refuses(call, 1) ELSE Uses(call)

Reset(call) ==
    IF call.dl > 1 THEN Refuses(call, 1)
    ELSE IF ~Exists(call.dl) THEN Refuses(call, 128)
    ELSE Says(call, FALSE, 0, 0)

Parameters(call) ==
    IF call.dl > 1 THEN Says(call, TRUE, 0, fl.st41)
    ELSE IF types[call.dl] > 8
    THEN prog' = [Quiet EXCEPT !.pc = "panic"] /\ UNCHANGED <<types, fdc, irq6, fl, answer>>
    ELSE Says(call, FALSE, 0, fl.st41)

DriveType(call) == Says(call, call.dl > 1, IF call.dl <= 1 /\ types[call.dl] # 0 THEN 1 ELSE 0, fl.st41)
ChangeLine(call) == Refuses(call, IF call.dl > 1 THEN 1 ELSE 6)

\* AH=17h and 18h establish the medium.
Establishes(call) ==
    /\ answer' = [NoAnswer EXCEPT !.call = call] /\ prog' = Quiet
    /\ fl' = [fl EXCEPT !.st41 = 0, !.known = @ \cup {call.dl}]
    /\ UNCHANGED <<types, fdc, irq6>>

SetType(call) ==
    IF call.dl > 1 THEN Refuses(call, 1)
    ELSE IF ~Exists(call.dl) THEN Refuses(call, 128)
    ELSE IF call.n \notin 1 .. 4 THEN Refuses(call, 1) ELSE Establishes(call)

\* Cylinders and sectors a drive of a type can format.
Formats == [t \in 0 .. 15 |->
    CASE t \in {1, 6, 7, 8} -> {<<39, 8>>, <<39, 9>>} [] t = 2 -> {<<39, 8>>, <<39, 9>>, <<79, 15>>}
      [] t = 3 -> {<<79, 9>>} [] t = 4 -> {<<79, 9>>, <<79, 18>>} [] t = 5 -> {<<79, 9>>, <<79, 18>>, <<79, 36>>}
      [] OTHER -> {}]

SetMedia(call) == IF call.dl > 1 THEN Refuses(call, 1) ELSE Uses(call)

int13_diskette_function(call) ==
    CASE call.ah = 0          -> Reset(call)
      [] call.ah = 1          -> Says(call, fl.st41 # 0, fl.st41, fl.st41)
      [] call.ah \in {2, 3, 4} -> Transfer(call)
      [] call.ah = 5          -> Format(call)
      [] call.ah = 8          -> Parameters(call)
      [] call.ah = 21         -> DriveType(call)
      [] call.ah = 22         -> ChangeLine(call)
      [] call.ah = 23         -> SetType(call)
      [] call.ah = 24         -> SetMedia(call)
      [] OTHER                -> Refuses(call, 1)

Call == /\ prog.pc = "idle" /\ ~Interruptible /\ answer = NoAnswer
        /\ \E call \in FloppyCalls : int13_diskette_function(call)

Heard == /\ prog.pc = "idle" /\ answer # NoAnswer
         /\ answer' = NoAnswer /\ UNCHANGED <<types, fdc, irq6, fl, prog>>

-----------------------------------------------------------------------------
\* floppy_prepare_controller: motor on, timeout started; a controller that
\* was in reset is waited for.
\* A bug: the timeout is left as it is.
Motor_NoTimeout(f) == [f EXCEPT !.irqbit = FALSE]

Motor(f) == [f EXCEPT !.irqbit = FALSE, !.timeout = FloppyOnCnt]

floppy_prepare_controller ==
    /\ prog.pc = "prepare"
    /\ fl' = Motor(fl)
    /\ fdc' = [fdc EXCEPT !.motor = {prog.call.dl}, !.doing = IF @ = "reset" THEN "leaving" ELSE @]
    /\ prog' = [prog EXCEPT !.pc = "ready", !.if = fdc.doing = "reset"]
    /\ UNCHANGED <<types, irq6, answer>>

Prepared ==
    /\ prog.pc = "ready" /\ fdc.doing # "leaving" /\ ~Interruptible
    /\ prog.if => fl.irqbit
    /\ fl' = IF prog.if THEN [fl EXCEPT !.irqbit = FALSE] ELSE fl
    /\ prog' = [prog EXCEPT !.if = FALSE, !.pc = IF prog.for = "sense" THEN "recal" ELSE "command"]
    /\ UNCHANGED <<types, fdc, irq6, answer>>

\* floppy_drive_recal, whose wait has no timeout, and floppy_media_sense.
Recalibrate ==
    /\ prog.pc = "recal"
    /\ fdc' = [fdc EXCEPT !.doing = "seek", !.job = [what |-> "recal"]]
    /\ prog' = [prog EXCEPT !.pc = "recalwait", !.if = TRUE]
    /\ UNCHANGED <<types, irq6, fl, answer>>

Unit == IF prog.call.dl = 0 THEN 0 ELSE 1

floppy_media_sense ==
    /\ prog.pc = "recalwait" /\ ~Interruptible /\ fl.irqbit
    /\ IF Sensible(prog.call.dl)
       THEN /\ fl' = [fl EXCEPT !.irqbit = FALSE, !.cal = @ \cup {Unit}, !.known = @ \cup {Unit}]
            /\ prog' = [prog EXCEPT !.pc = "setup", !.if = FALSE]
            /\ UNCHANGED answer
       ELSE /\ fl' = [fl EXCEPT !.irqbit = FALSE, !.cal = @ \cup {Unit}, !.known = @ \ {Unit}, !.st41 = 12]
            /\ answer' = [NoAnswer EXCEPT !.cf = TRUE, !.ah = 12, !.call = prog.call]
            /\ prog' = Quiet
    /\ UNCHANGED <<types, fdc, irq6>>

\* The medium is known: what remains of the call.  A success of AH=02h to
\* 04h leaves 0040:0041 as it was.
Setup ==
    /\ prog.pc = "setup"
    /\ \/ prog.call.ah = 4 /\ Says(prog.call, FALSE, 0, fl.st41)
       \/ /\ prog.call.ah = 24
          /\ IF <<prog.call.c, prog.call.s>> \in Formats[types[prog.call.dl]]
             THEN Establishes(prog.call) ELSE Refuses(prog.call, 12)
       \/ /\ prog.call.ah \in {2, 3, 5} /\ Overrun(prog.call)
          /\ Refuses(prog.call, 9)
       \/ /\ prog.call.ah \in {2, 3, 5} /\ ~Overrun(prog.call)
          /\ prog' = [prog EXCEPT !.pc = "prepare", !.for = "data"]
          /\ UNCHANGED <<types, fdc, irq6, fl, answer>>

Issue ==
    /\ prog.pc = "command"
    /\ fdc' = [fdc EXCEPT !.doing = "transfer", !.job = Programmed(prog.call)]
    /\ prog' = [prog EXCEPT !.pc = "wait", !.if = TRUE]
    /\ UNCHANGED <<types, irq6, fl, answer>>

\* floppy_reset_controller: what the controller was doing it does no more.
\* A bug: a controller that did not answer in time is left alone.
Abandoned_Alone(c) == c

Abandoned(c) == [c EXCEPT !.doing = "leaving", !.job = [what |-> "none"]]

TimedOut ==
    /\ prog.pc = "wait" /\ ~Interruptible /\ fl.timeout = 0
    /\ fdc' = Abandoned(fdc) /\ Goto("reset")
    /\ UNCHANGED <<types, irq6, fl, answer>>

AfterReset ==
    /\ prog.pc = "reset" /\ ~Interruptible /\ fdc.doing # "leaving"
    /\ answer' = [NoAnswer EXCEPT !.cf = TRUE, !.ah = 128, !.call = prog.call]
    /\ fl' = [fl EXCEPT !.st41 = 128] /\ prog' = Quiet
    /\ UNCHANGED <<types, fdc, irq6>>

Completed ==
    /\ prog.pc = "wait" /\ ~Interruptible /\ fl.timeout # 0 /\ fl.irqbit
    /\ fl' = [fl EXCEPT !.irqbit = FALSE]
    /\ prog' = [prog EXCEPT !.if = FALSE, !.pc = IF fdc.doing = "result" THEN "result" ELSE "notready"]
    /\ UNCHANGED <<types, fdc, irq6, answer>>

\* The result phase.  A write error that is not a write protection is a panic.
Success(call) == /\ answer' = [NoAnswer EXCEPT !.call = call, !.done = fdc.job] /\ prog' = Quiet
                 /\ fl' = IF call.ah = 5 THEN [fl EXCEPT !.st41 = 0] ELSE fl
Result ==
    /\ prog.pc = "result"
    /\ fdc' = [fdc EXCEPT !.doing = "idle"]
    /\ \/ /\ fdc.result = "ok" /\ ~(prog.call.ah = 5 /\ prog.call.dl > 1)
          /\ Success(prog.call)
       \/ /\ fdc.result # "ok" /\ prog.call.ah = 2
          /\ answer' = [NoAnswer EXCEPT !.cf = TRUE, !.ah = 32, !.call = prog.call]
          /\ fl' = [fl EXCEPT !.st41 = 32] /\ prog' = Quiet
       \/ /\ fdc.result = "protected" /\ prog.call.ah # 2
          /\ answer' = [NoAnswer EXCEPT !.cf = TRUE, !.ah = 3, !.call = prog.call]
          /\ prog' = Quiet /\ UNCHANGED fl
       \/ /\ \/ fdc.result = "ok" /\ prog.call.ah = 5 /\ prog.call.dl > 1
             \/ fdc.result = "error" /\ prog.call.ah # 2
          /\ Goto("panic") /\ UNCHANGED <<fl, answer>>
    /\ UNCHANGED <<types, irq6>>

-----------------------------------------------------------------------------
\* The controller ends what it does, some day: a transfer with a result, the
\* rest with an interrupt whose reason has to be asked for.
ControllerEnds ==
    /\ \/ fdc.doing \in {"leaving", "seek"} /\ fdc' = [fdc EXCEPT !.doing = "asked"]
       \/ /\ fdc.doing = "transfer"
          /\ \E r \in {"ok", "protected", "error"} : fdc' = [fdc EXCEPT !.doing = "result", !.result = r]
    /\ irq6' = TRUE
    /\ UNCHANGED <<types, fl, prog, answer>>

\* IRQ 6: without a result to be read the reason is sensed.
int0e_handler ==
    /\ Interruptible
    /\ irq6' = FALSE /\ fl' = [fl EXCEPT !.irqbit = TRUE]
    /\ fdc' = [fdc EXCEPT !.doing = IF @ = "asked" THEN "idle" ELSE @]
    /\ UNCHANGED <<types, prog, answer>>

\* The timer tick: when the timeout has run down the motors stop.
int08_motor ==
    /\ prog.if /\ fl.timeout > 0
    /\ fl' = [fl EXCEPT !.timeout = @ - 1]
    /\ fdc' = IF fl.timeout = 1 THEN [fdc EXCEPT !.motor = {}] ELSE fdc
    /\ UNCHANGED <<types, irq6, prog, answer>>

-----------------------------------------------------------------------------
\* floppy_drive_post; the controller may still be in reset.
FloppyInit ==
    /\ types \in FloppyTypes
    /\ fdc \in [doing : {"reset", "idle"}, job : {[what |-> "none"]}, motor : {{}}, result : {"ok"}]
    /\ irq6 = FALSE
    /\ fl = [irqbit |-> FALSE, cal |-> {}, known |-> {}, timeout |-> 0, st41 |-> 0]
    /\ prog = Quiet /\ answer = NoAnswer

FloppyNext ==
    \/ Call \/ Heard \/ floppy_prepare_controller \/ Prepared \/ Recalibrate \/ floppy_media_sense
    \/ Setup \/ Issue \/ TimedOut \/ AfterReset \/ Completed \/ Result
    \/ ControllerEnds \/ int0e_handler \/ int08_motor

-----------------------------------------------------------------------------
(* Properties *)

\* A call that says it read, wrote or formatted did so by the command it
\* gave, at the address it was given; and no interrupt of an earlier command
\* is taken for the end of a later one.
OwnResult ==
    /\ prog.pc # "notready"
    /\ (answer.call.ah \in {2, 3, 5} /\ ~answer.cf) =>
           LET c == answer.call
           IN  /\ answer.done.what = "data" /\ answer.done.call = c
               /\ answer.done.page * 65536 + answer.done.base = c.es * 16 + c.bx
               /\ answer.done.base + answer.done.bytes <= 65536

\* A motor that is on has a timeout that will stop it.
MotorTimed == fdc.motor # {} => fl.timeout > 0
=============================================================================
