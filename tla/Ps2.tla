--------------------------------- MODULE Ps2 ----------------------------------
(***************************************************************************)
(* The 8042 keyboard controller (src/rtl/soc/ps2.v): one output buffer for *)
(* the keyboard and the aux (mouse) port, the commands of port 64h, and    *)
(* the two responders that answer device commands without the devices.     *)
(* One step is one clock: at most one access of the program (the I/O bus   *)
(* leaves two clocks between two), at most one event on each serial port.  *)
(*                                                                         *)
(* Bytes are numbers 0 .. 255.  The bits of a serial frame are one event:  *)
(* a port is idle, inhibited ("wait"), receiving ("bits"), at the stop bit *)
(* ("stop") or sending.  The status register's error bits are left out.    *)
(***************************************************************************)
EXTENDS Integers, SequencesExt

CONSTANTS
    Depth,        \* bytes a FIFO holds (64 in the code)
    High,         \* bytes at which the devices are held off (60)
    F1Period,     \* clocks between two injections of F1 (2^22)
    PulseLength,  \* clocks the reset line is pulled (63)
    Trans,        \* keyboard scan code set 2 -> 1
    Menus,        \* who is at work, a set of records of io: the accesses the program
                  \*   makes, keys: what the keyboard sends, aux: what the mouse sends
    F1Menu        \* values of inject_f1; PC110.sv ties it to FALSE

ASSUME Ps2Assumption ==
    /\ High \in Nat /\ Depth \in Nat /\ 0 < High /\ High < Depth
    /\ F1Period \in Nat /\ F1Period > 1
    /\ PulseLength \in Nat \ {0}
    /\ \A n \in Menus : n.keys \subseteq DOMAIN Trans /\ n.aux \subseteq 0 .. 255
    /\ \A b \in DOMAIN Trans : b \in 0 .. 255 /\ Trans[b] \in 0 .. 127
    /\ \A n \in Menus : \A io \in n.io :
           io.dir \in {"read", "write"} /\ io.v \in 0 .. 255

\* The code's own numbers, 60 and 64, leave just this; PC110.sv ties inject_f1.
ASSUME MarginAssumption == High + 4 <= Depth
ASSUME F1Assumption == F1Menu = {FALSE}

VARIABLES
    menu,                                   \* the one of Menus this behaviour is about
    keyb_fifo, mouse_fifo,
    outputbufferfull, mousebufferfull,      \* OBF and AUXOBF of the status register
    irq_keyb, irq_mouse,
    inputbufferfull, input_write_done, input_for_mouse,
    expecting_port_60h, last_command,
    command,                                \* the bits of the command byte
    disable_mouse, disable_keyboard,
    keyb_reply, mouse_reply,                \* a reply of the controller, or <<>>
    inj, minj,                              \* byte on its way to a FIFO, or <<>>
    kr, mr,                                 \* what a responder has still to say
    kclr, mclr,                             \* FIFO cleared in this clock
    keyb_fifo_q_last, translate_escape,
    keyb_port, mouse_port,                  \* [state, byte]
    inj_ctr, a20, reset_pulse,
    io_gap,
    \* history
    polled,                                 \* the last access saw OBF in the status register
    keyb_said, mouse_said,                  \* of each byte of a FIFO, what a responder said
    response, answer,                       \* keyboard: due, and read since its command
    m_response, m_answer                    \* the same for the mouse

buffers == <<keyb_fifo, mouse_fifo, outputbufferfull, mousebufferfull, irq_keyb, irq_mouse,
             keyb_fifo_q_last>>
control == <<inputbufferfull, input_write_done, input_for_mouse, expecting_port_60h,
             last_command, command, disable_mouse, disable_keyboard, a20, reset_pulse>>
answers == <<keyb_reply, mouse_reply, inj, minj, kr, mr, kclr, mclr, inj_ctr>>
ports   == <<translate_escape, keyb_port, mouse_port>>
history == <<polled, keyb_said, mouse_said, response, answer, m_response, m_answer>>
vars    == <<menu, buffers, control, answers, ports, io_gap, history>>

-----------------------------------------------------------------------------
(* The program's accesses. *)

NoIo == [dir |-> "none", port |-> 0, v |-> 0]
Reads(io, p) == io.dir = "read" /\ io.port = p
Writes(io, p) == io.dir = "write" /\ io.port = p
Data == 96            \* 60h
Control == 100        \* 64h
Port92 == 146

Bit(v, k) == (v \div 2 ^ k) % 2 = 1
Num(b) == IF b THEN 1 ELSE 0

WriteCommandByte == 96    \* 60h
WriteOutputPort == 209    \* D1h
WriteKeybOutput == 210    \* D2h
WriteMouseOutput == 211   \* D3h
WriteMouse == 212         \* D4h
SelfTest == 170           \* AAh
TakesParameter == {WriteCommandByte, 203, WriteOutputPort, WriteKeybOutput,
                   WriteMouseOutput, WriteMouse}

Parameter(io, c) == /\ Writes(io, Data) /\ expecting_port_60h /\ ~inputbufferfull
                    /\ last_command = c
Cmd(io, c) == Writes(io, Control) /\ io.v = c /\ c \notin TakesParameter
WriteToKeyb(io) == Writes(io, Data) /\ ~expecting_port_60h /\ ~inputbufferfull
WriteToMouse(io) == Parameter(io, WriteMouse)

Reads60(io, aux) == Reads(io, Data) /\ outputbufferfull /\ (aux <=> mousebufferfull)

CommandByte == 64 * Num(command.translate) + 32 * Num(command.mouse_visible)
               + 16 * Num(disable_keyboard) + 4 * Num(command.system)
               + 2 * Num(command.irq_mouse) + Num(command.irq_keyb)
OutputPort == 32 * Num(irq_mouse) + 16 * Num(irq_keyb) + 2 * Num(a20) + 1

-----------------------------------------------------------------------------
(* Commands. *)

ControlClock(io) ==
    LET cb == Parameter(io, WriteCommandByte)
        pulse == \/ Parameter(io, WriteOutputPort) /\ ~Bit(io.v, 0)
                 \/ Cmd(io, 254)
                 \/ Writes(io, Port92) /\ Bit(io.v, 0)
    IN  /\ command' = [translate     |-> IF cb THEN Bit(io.v, 6) ELSE command.translate,
                       mouse_visible |-> IF cb THEN Bit(io.v, 5)
                                         ELSE (command.mouse_visible \/ Cmd(io, 167))
                                              /\ ~Cmd(io, 168),
                       system        |-> IF cb THEN Bit(io.v, 2)
                                         ELSE command.system \/ Cmd(io, SelfTest),
                       irq_mouse     |-> IF cb THEN Bit(io.v, 1) ELSE command.irq_mouse,
                       irq_keyb      |-> IF cb THEN Bit(io.v, 0) ELSE command.irq_keyb]
        /\ disable_mouse' = IF cb THEN Bit(io.v, 5)
                            ELSE (disable_mouse \/ Cmd(io, 167))
                                 /\ ~Cmd(io, 168) /\ ~WriteToMouse(io)
        /\ disable_keyboard' = IF cb THEN Bit(io.v, 4)
                               ELSE (disable_keyboard \/ Cmd(io, 173))
                                    /\ ~Cmd(io, 174) /\ ~WriteToKeyb(io)
        /\ a20' = IF Parameter(io, WriteOutputPort) \/ Writes(io, Port92) THEN Bit(io.v, 1)
                  ELSE (a20 \/ Cmd(io, 223)) /\ ~Cmd(io, 221)
        /\ reset_pulse' = IF pulse THEN PulseLength
                          ELSE IF reset_pulse > 0 THEN reset_pulse - 1 ELSE 0
        /\ expecting_port_60h' = IF Writes(io, Control) THEN io.v \in TakesParameter
                                 ELSE expecting_port_60h /\ ~Writes(io, Data)
        /\ last_command' = IF Writes(io, Control) THEN io.v ELSE last_command

\* The input buffer is consumed by the responders: the write counts as done
\* at once, and the serial relay to the device is never started.
WriteDone_Relayed(io) == input_write_done /\ ~(WriteToKeyb(io) \/ WriteToMouse(io))
                                          \* mutant: wait for the device
WriteDone(io) == input_write_done \/ WriteToKeyb(io) \/ WriteToMouse(io)

InputConsumed_WhenRead == input_write_done /\ ~outputbufferfull  \* mutant: gated on OBF
InputConsumed == input_write_done

InputClock(io) ==
    /\ inputbufferfull' = \/ WriteToKeyb(io) \/ WriteToMouse(io)
                          \/ inputbufferfull /\ ~InputConsumed
    /\ input_write_done' = WriteDone(io)
    /\ input_for_mouse' = IF WriteToKeyb(io) THEN FALSE
                          ELSE input_for_mouse \/ WriteToMouse(io)

-----------------------------------------------------------------------------
(* Answers. *)

KeybResponse(v) == CASE v = 255 -> <<250, 170>>
                     [] v = 242 -> <<250, 171, 65>>
                     [] OTHER   -> <<250>>
MouseResponse(v) == CASE v = 255 -> <<250, 170, 0>>
                      [] v = 242 -> <<250, 0>>
                      [] OTHER   -> <<250>>

\* A new command cuts off what is left of the answer to the one before.
NewAnswer_Queued(v) == kr \o KeybResponse(v)      \* mutant: answers queue up
NewAnswer(v) == KeybResponse(v)

KeybReplyDone == keyb_reply # <<>> /\ Len(keyb_fifo) < High
MouseReplyDone == mouse_reply # <<>> /\ Len(mouse_fifo) < High

\* The replies of the controller itself wait for room, and for a clock in
\* which no byte of the device is stored.
ReplyClock(io, key, aux) ==
    /\ keyb_reply' =
         CASE Parameter(io, WriteKeybOutput) -> <<io.v>>
           [] Cmd(io, 32)                    -> <<CommandByte>>
           [] Cmd(io, 169) \/ Cmd(io, 171)   -> <<0>>
           [] Cmd(io, SelfTest)              -> <<85>>
           [] Cmd(io, 192)                   -> <<128>>
           [] Cmd(io, 202)                   -> <<1>>
           [] Cmd(io, 208)                   -> <<OutputPort>>
           [] OTHER -> IF KeybReplyDone /\ ~key THEN <<>> ELSE keyb_reply
    /\ mouse_reply' = IF Parameter(io, WriteMouseOutput) THEN <<io.v>>
                      ELSE IF MouseReplyDone /\ ~aux THEN <<>> ELSE mouse_reply

KeybClear_Never(io) == FALSE       \* mutant: what was queued stays
KeybClear(io) == WriteToKeyb(io)
MouseClear_Never(io) == FALSE      \* mutant
MouseClear(io) == WriteToMouse(io)

\* A responder says a byte every other clock; F1 goes in between, unless the
\* responder writes in the same clock, which drops the F1.
RespondClock(io, f1) ==
    LET f1_now == f1 /\ inj_ctr = 0
    IN  /\ kclr' = KeybClear(io)
        /\ mclr' = MouseClear(io)
        /\ inj_ctr' = IF f1 THEN (inj_ctr + 1) % F1Period ELSE 0
        /\ \/ WriteToKeyb(io) /\ kr' = NewAnswer(io.v)
                              /\ inj' = IF f1_now THEN <<59>> ELSE <<>>
           \/ ~WriteToKeyb(io) /\ kr # <<>> /\ inj = <<>>
                              /\ kr' = Tail(kr) /\ inj' = <<Head(kr)>>
           \/ ~WriteToKeyb(io) /\ ~(kr # <<>> /\ inj = <<>>)
                              /\ inj' = (IF f1_now THEN <<59>> ELSE <<>>) /\ UNCHANGED kr
        /\ \/ WriteToMouse(io) /\ mr' = MouseResponse(io.v) /\ minj' = <<>>
           \/ ~WriteToMouse(io) /\ mr # <<>> /\ minj = <<>>
                                /\ mr' = Tail(mr) /\ minj' = <<Head(mr)>>
           \/ ~WriteToMouse(io) /\ ~(mr # <<>> /\ minj = <<>>)
                                /\ minj' = <<>> /\ UNCHANGED mr

-----------------------------------------------------------------------------
(* The two FIFOs and the output buffer. *)

HasRoom(q, rd) == Len(q) < Depth \/ rd

Fifo(q, clear, rd, bytes) ==
    IF clear THEN <<>>
    ELSE LET rest == IF rd /\ q # <<>> THEN Tail(q) ELSE q
         IN  IF bytes # <<>> /\ HasRoom(q, rd) THEN Append(rest, Head(bytes)) ELSE rest

\* With translation on, the break prefix F0h is kept back and marks the next byte.
KeyByte == IF command.translate THEN Trans[keyb_port.byte] + 128 * Num(translate_escape)
           ELSE keyb_port.byte
KeyStored == command.translate => keyb_port.byte # 240

\* A responder's byte before a reply, and that before the device's.
Given(said, reply, own) == IF said # <<>> THEN said ELSE IF reply # <<>> THEN reply ELSE own
KeybGiven(key) == Given(inj, IF KeybReplyDone /\ ~key THEN keyb_reply ELSE <<>>,
                        IF key /\ KeyStored THEN <<KeyByte>> ELSE <<>>)
MouseGiven(aux) == Given(minj, IF MouseReplyDone /\ ~aux THEN mouse_reply ELSE <<>>,
                         IF aux THEN <<mouse_port.byte>> ELSE <<>>)

FifoClock(io, key, aux) ==
    /\ keyb_fifo' = Fifo(keyb_fifo, Cmd(io, SelfTest) \/ kclr, Reads60(io, FALSE), KeybGiven(key))
    /\ mouse_fifo' = Fifo(mouse_fifo, Cmd(io, SelfTest) \/ mclr, Reads60(io, TRUE), MouseGiven(aux))
    /\ keyb_fifo_q_last' = IF keyb_fifo # <<>> THEN Head(keyb_fifo) ELSE keyb_fifo_q_last

OutputIdle == ~mousebufferfull /\ ~outputbufferfull
OffersByte_MouseOnly == mouse_fifo # <<>>       \* mutant: forgets the keyboard
OffersByte == mouse_fifo # <<>> \/ keyb_fifo # <<>>

KeybIrqEnds_OnPoll(io) == Reads(io, Control)      \* mutant: the status register ends it
KeybIrqEnds(io) == Reads60(io, FALSE)

\* One buffer for both devices, the mouse first.
OutputClock(io) ==
    /\ mousebufferfull' = /\ ~Reads(io, Data) /\ ~disable_mouse
                          /\ mousebufferfull \/ (OutputIdle /\ mouse_fifo # <<>>)
    /\ outputbufferfull' = /\ ~Reads(io, Data)
                           /\ outputbufferfull \/ (OutputIdle /\ OffersByte)
    /\ irq_keyb' = /\ ~KeybIrqEnds(io)
                   /\ irq_keyb \/ (command.irq_keyb /\ outputbufferfull /\ ~mousebufferfull)
    /\ irq_mouse' = /\ ~(Reads(io, Data) /\ mousebufferfull)
                    /\ irq_mouse \/ (command.irq_mouse /\ mousebufferfull)

-----------------------------------------------------------------------------
(* The serial ports.  A port that is held off, or told to send, does so only
   from idle: a frame that has begun is received. *)

Port(p, p2, hold, send, final, bytes) ==
    LET to(s) == p2 = [p EXCEPT !.state = s]
    IN  \/ p.state = "idle" /\ hold /\ to("wait")
        \/ p.state = "idle" /\ ~hold /\ send /\ to("send")
        \/ p.state = "idle" /\ ~hold /\ ~send /\ (to("idle") \/ (bytes # {} /\ to("bits")))
        \/ p.state = "wait" /\ (to("wait") \/ (send /\ to("send")) \/ (~hold /\ to("idle")))
        \/ p.state = "bits" /\ (to("bits") \/ to("idle")    \* parity error or timeout
                                \/ \E b \in bytes : p2 = [state |-> "stop", byte |-> b])
        \/ p.state = "stop" /\ ~final /\ to("stop")
        \/ p.state = "stop" /\ p2 = [state |-> "idle", byte |-> 0]   \* stored, or timeout
        \/ p.state = "send" /\ (to("send") \/ to("idle"))

EscapeClock(key) ==
    \/ /\ keyb_port.state = "bits" /\ keyb_port'.state = "stop" /\ ~translate_escape
       /\ translate_escape' = (command.translate /\ keyb_port'.byte = 240)
    \/ /\ ~(keyb_port.state = "bits" /\ keyb_port'.state = "stop" /\ ~translate_escape)
       /\ translate_escape' = (translate_escape /\ ~(key /\ keyb_port.byte # 240))
    \/ /\ keyb_port.state \in {"bits", "stop"} /\ ~key /\ keyb_port'.state = "idle"   \* timeout
       /\ translate_escape' = FALSE

KeybHeldOff_Disabled == disable_keyboard       \* mutant: a full FIFO does not count
KeybHeldOff == Len(keyb_fifo) >= High \/ disable_keyboard

PortClock(io, key, aux) ==
    /\ key => keyb_port.state = "stop"
    /\ aux => mouse_port.state = "stop"
    /\ Port(keyb_port, keyb_port', KeybHeldOff,
            inputbufferfull /\ ~input_write_done /\ ~input_for_mouse, key, menu.keys)
    /\ Port(mouse_port, mouse_port', Len(mouse_fifo) >= High \/ disable_mouse,
            inputbufferfull /\ ~input_write_done /\ input_for_mouse, aux, menu.aux)
    /\ EscapeClock(key)

-----------------------------------------------------------------------------
(* What the program has seen since its last device command of what the     *)
(* responders said, whatever its value: devices send the same bytes, and the *)
(* controller replies with them.                                             *)

Other == 256      \* stands for a byte of a FIFO no responder said
Said(given, own) == IF given = <<>> THEN <<>> ELSE IF own # <<>> THEN given ELSE <<Other>>
KeybData == IF keyb_fifo = <<>> THEN keyb_fifo_q_last ELSE Head(keyb_fifo)

\* A read of an empty FIFO counts as one of an answer: for the keyboard's it is
\* the last byte again, for the mouse's it is none.
KeybRead == [said |-> IF keyb_said = <<>> THEN KeybData ELSE Head(keyb_said), byte |-> KeybData]
MouseRead == IF mouse_fifo = <<>> THEN [said |-> 0, byte |-> Other]
             ELSE [said |-> Head(mouse_said), byte |-> Head(mouse_fifo)]

Heard(due, so_far, read) ==
    IF due = <<>> \/ read.said = Other \/ Len(so_far) = 4 THEN so_far ELSE Append(so_far, read.byte)

\* A program that reads port 60h without having polled, or tests the controller,
\* gives up the answer.
History(io, key, aux) ==
    LET blind == (Reads(io, Data) /\ ~polled) \/ Cmd(io, SelfTest)
    IN  /\ polled' = IF io = NoIo THEN polled ELSE Reads(io, Control) /\ outputbufferfull
        /\ keyb_said' = Fifo(keyb_said, Cmd(io, SelfTest) \/ kclr, Reads60(io, FALSE), Said(KeybGiven(key), inj))
        /\ mouse_said' = Fifo(mouse_said, Cmd(io, SelfTest) \/ mclr, Reads60(io, TRUE), Said(MouseGiven(aux), minj))
        /\ response' = IF WriteToKeyb(io) THEN KeybResponse(io.v)
                       ELSE IF blind THEN <<>> ELSE response
        /\ answer' = IF WriteToKeyb(io) \/ blind THEN <<>>
                     ELSE IF Reads60(io, FALSE) THEN Heard(response, answer, KeybRead)
                     ELSE answer
        /\ m_response' = IF WriteToMouse(io) THEN MouseResponse(io.v)
                         ELSE IF blind THEN <<>> ELSE m_response
        /\ m_answer' = IF WriteToMouse(io) \/ blind THEN <<>>
                       ELSE IF Reads60(io, TRUE) THEN Heard(m_response, m_answer, MouseRead)
                       ELSE m_answer

-----------------------------------------------------------------------------
Clock(io, key, aux, f1) ==
    /\ UNCHANGED menu
    /\ io # NoIo => io_gap = 0
    /\ io_gap' = IF io # NoIo THEN 2 ELSE IF io_gap > 0 THEN io_gap - 1 ELSE 0
    /\ PortClock(io, key, aux)
    /\ ControlClock(io) /\ InputClock(io)
    /\ ReplyClock(io, key, aux) /\ RespondClock(io, f1)
    /\ FifoClock(io, key, aux) /\ OutputClock(io)
    /\ History(io, key, aux)

Init ==
    /\ menu \in Menus
    /\ keyb_fifo = <<>> /\ mouse_fifo = <<>> /\ keyb_fifo_q_last = 0
    /\ outputbufferfull = FALSE /\ mousebufferfull = FALSE
    /\ irq_keyb = FALSE /\ irq_mouse = FALSE
    /\ inputbufferfull = FALSE /\ input_write_done = FALSE /\ input_for_mouse = FALSE
    /\ expecting_port_60h = FALSE /\ last_command = 0
    /\ command = [translate |-> TRUE, mouse_visible |-> TRUE, system |-> FALSE,
                  irq_mouse |-> FALSE, irq_keyb |-> TRUE]
    /\ disable_mouse = TRUE /\ disable_keyboard = FALSE
    /\ a20 = TRUE /\ reset_pulse = 0
    /\ keyb_reply = <<>> /\ mouse_reply = <<>> /\ inj = <<>> /\ minj = <<>>
    /\ kr = <<>> /\ mr = <<>> /\ kclr = FALSE /\ mclr = FALSE /\ inj_ctr = 0
    /\ translate_escape = FALSE
    /\ keyb_port = [state |-> "idle", byte |-> 0] /\ mouse_port = keyb_port
    /\ io_gap = 0 /\ polled = FALSE
    /\ keyb_said = <<>> /\ mouse_said = <<>>
    /\ response = <<>> /\ answer = <<>> /\ m_response = <<>> /\ m_answer = <<>>

Next == \E io \in menu.io \union {NoIo}, key, aux \in BOOLEAN, f1 \in F1Menu :
            Clock(io, key, aux, f1)

Spec == Init /\ [][Next]_vars

\* Time goes on; and a program that waits for a byte polls the status register
\* and, when it saw the output buffer full, reads it, the one access that empties
\* it.  Asked only where liveness is claimed, with a silent mouse.
Tick == menu.aux = {} /\ Next
Poll == menu.aux = {} /\ io_gap = 0 /\ io_gap' = 2 /\ polled' = TRUE /\ Next
ReadByte == menu.aux = {} /\ polled /\ outputbufferfull /\ outputbufferfull' = FALSE /\ Next
FairSpec == Spec /\ WF_vars(Tick) /\ SF_vars(Poll) /\ SF_vars(ReadByte)

-----------------------------------------------------------------------------
(* Properties. *)

Byte == 0 .. 255
Small == UNION {[1 .. n -> Byte] : n \in 0 .. 1}
PortType == [state: {"idle", "wait", "bits", "stop", "send"}, byte: Byte]

TypeOK ==
    /\ menu \in Menus
    /\ keyb_fifo \in Seq(Byte) /\ Len(keyb_fifo) <= Depth
    /\ mouse_fifo \in Seq(Byte) /\ Len(mouse_fifo) <= Depth
    /\ keyb_said \in Seq(Byte \union {Other}) /\ Len(keyb_said) = Len(keyb_fifo)
    /\ mouse_said \in Seq(Byte \union {Other}) /\ Len(mouse_said) = Len(mouse_fifo)
    /\ outputbufferfull \in BOOLEAN /\ mousebufferfull \in BOOLEAN
    /\ irq_keyb \in BOOLEAN /\ irq_mouse \in BOOLEAN
    /\ inputbufferfull \in BOOLEAN /\ input_write_done \in BOOLEAN
    /\ input_for_mouse \in BOOLEAN /\ expecting_port_60h \in BOOLEAN
    /\ last_command \in Byte /\ keyb_fifo_q_last \in Byte
    /\ command \in [translate: BOOLEAN, mouse_visible: BOOLEAN, system: BOOLEAN,
                    irq_mouse: BOOLEAN, irq_keyb: BOOLEAN]
    /\ disable_mouse \in BOOLEAN /\ disable_keyboard \in BOOLEAN
    /\ keyb_reply \in Seq(Byte) /\ mouse_reply \in Seq(Byte)
    /\ inj \in Seq(Byte) /\ minj \in Seq(Byte)
    /\ kr \in Seq(Byte) /\ Len(kr) <= 3 /\ mr \in Seq(Byte) /\ Len(mr) <= 3
    /\ kclr \in BOOLEAN /\ mclr \in BOOLEAN /\ translate_escape \in BOOLEAN
    /\ keyb_port \in PortType /\ mouse_port \in PortType
    /\ inj_ctr \in 0 .. F1Period - 1 /\ a20 \in BOOLEAN
    /\ reset_pulse \in 0 .. PulseLength /\ io_gap \in 0 .. 2 /\ polled \in BOOLEAN

\* A program that polls before it reads gets the answer to a keyboard command
\* byte by byte as it is due, with nothing of what was queued before, whatever
\* keys and replies come in between.  The mouse is silent here and the program
\* makes it say nothing: what its port leaves in its FIFO when it is disabled
\* reads as a keyboard byte, see AuxDropped.
Controls(n) == {io.v : io \in {i \in n.io : i.dir = "write" /\ i.port = Control}}
MouseSilent == menu.aux = {} /\ Controls(menu) \cap {WriteMouse, WriteMouseOutput} = {}
KeybAligned == MouseSilent => IsPrefix(answer, response)

\* The same for the aux port, whose bytes share the output buffer.
MouseAligned == IsPrefix(m_answer, m_response)

\* Device commands are answered here: the serial relay to a device, which
\* would answer a second time, is never started.
NoRelay == keyb_port.state # "send" /\ mouse_port.state # "send"

\* Each device command is answered once, in order and undisturbed.
AnswersExact == KeybAligned /\ MouseAligned /\ NoRelay

\* No write to port 60h falls into a full input buffer, which would drop it:
\* the buffer is free again before the I/O bus can make another access.
NoWriteDropped == inputbufferfull => io_gap > 0

\* No FIFO is ever full, so no byte is dropped for want of room: the devices are held off early
\* enough for a frame that has begun, an answer and a reply on their way.
NeverFull == Len(keyb_fifo) < Depth /\ Len(mouse_fifo) < Depth

\* The keyboard interrupt announces a byte that is still there; so each byte
\* raises the line anew, as the edge-triggered interrupt controller needs.
IrqHasByte == irq_keyb => outputbufferfull /\ ~mousebufferfull

\* Nothing is lost for want of room on the way in either direction, nor announced
\* in vain.  (A device's byte whose frame ends in the clock in which a responder
\* stores one gives way to it, as in the code.)
NothingLost == NoWriteDropped /\ NeverFull /\ IrqHasByte

\* A program that goes on polling and reading gets the whole answer, unless it
\* gives another command or reads without polling.  The mouse must be silent: it
\* goes first, and one that always has a byte keeps the keyboard's back.
Answered ==
    \A r \in {KeybResponse(255), KeybResponse(242)} :
        (menu.aux = {} /\ response = r /\ answer = <<>> /\ ~kclr)
            ~> (answer = r \/ response = <<>> \/ kclr)

\* The comment at status_mousebufferfull, "Disabling the aux drops mouse data from
\* the shared output buffer": with the aux disabled the buffer fills only for a
\* byte of the keyboard.
AuxDropped ==
    [][disable_mouse /\ ~outputbufferfull /\ outputbufferfull' => keyb_fifo # <<>>]_vars

=============================================================================
