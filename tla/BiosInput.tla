------------------------------- MODULE BiosInput -------------------------------
(***************************************************************************)
(* Keyboard and mouse services of the system BIOS (src/sw/sysbios): the    *)
(* handlers of INT 09h and INT 74h, the services of INT 16h and INT 15h    *)
(* AH=C2h, and as much of the PS/2 controller as they talk to.  A program  *)
(* calls one service at a time and is interrupted wherever it may be; keys *)
(* and mouse bytes come at any moment.                                     *)
(***************************************************************************)
EXTENDS Integers, Sequences, FiniteSets

CONSTANTS Slots,        \* places of the key buffer, one of them never used: 16
          FifoDepth     \* bytes the controller holds per device

VARIABLES
    work,       \* which keys are pressed and which services are called
    held,       \* keys that are down
    kbc,        \* the controller: two FIFOs, what port 60h offers, enables
    mouse,      \* the mouse: the packet it sends and the byte it is at
    bda,        \* the keyboard's part of the BIOS data area
    ebda,       \* the mouse's part of the extended data area
    cpu,        \* the program: where in which service it is
    given,      \* the key INT 16h gave last
    heard,      \* bytes the mouse handler was given last
    lost        \* history: "codes" the controller dropped, a "prefix" that a key
                \* without a code left behind, a modifier taken for the other "side"

inputVars == <<work, held, kbc, mouse, bda, ebda, cpu, given, heard, lost>>

Idle == [pc |-> "idle", call |-> [ah |-> 0], if |-> TRUE, key |-> <<>>, script |-> <<>>,
         comm |-> <<>>, data |-> 0]

-----------------------------------------------------------------------------
\* Keys: the scan codes they send, and the entries of scan_to_scanascii that
\* are used (the columns that are none are left out).
Press == [a |-> <<30>>, home |-> <<224, 71>>, kp7 |-> <<71>>, lctrl |-> <<29>>, rctrl |-> <<224, 29>>,
          lshift |-> <<42>>, rshift |-> <<54>>, lalt |-> <<56>>, ralt |-> <<224, 56>>, caps |-> <<58>>,
          num |-> <<69>>, scroll |-> <<70>>, break |-> <<224, 70, 224, 198>>,
          pause |-> <<225, 29, 69, 225, 157, 197>>, del |-> <<83>>]
Release(k) == IF k \in {"break", "pause"} THEN <<>>
              ELSE IF Len(Press[k]) = 2 THEN <<224, Press[k][2] + 128>>
              ELSE <<Press[k][1] + 128>>

scan_to_scanascii ==
    [sc \in {30, 71, 83} |->
        IF sc = 30 THEN [columns |-> {"normal", "shift", "control", "alt"}, lock |-> "caps"]
        ELSE [columns |-> {"normal", "shift"} \cup (IF sc = 71 THEN {"control"} ELSE {}), lock |-> "num"]]
MAX_SCAN_CODE == 88
BreakKey == <<0, "zero">>

-----------------------------------------------------------------------------
\* The key buffer: between head and tail, turning round.
After(place) == (place + 1) % Slots

\* A bug: a full buffer is told by its being full, which looks like empty.
Full_Never(head, tail) == FALSE

Full(head, tail) == After(tail) = head

enqueue_key(k, key) ==
    IF Full(k.head, k.tail) THEN k
    ELSE [k EXCEPT !.mem[k.tail] = key, !.tail = After(@)]

Waiting(k) == [i \in 1 .. (k.tail - k.head) % Slots |-> k.mem[(k.head + i - 1) % Slots]]

-----------------------------------------------------------------------------
\* int09_function, a key at a time.
Flip(s, x) == (s \ {x}) \cup ({x} \ s)
With(s, x, on) == IF on THEN s \cup {x} ELSE s \ {x}
Down(b) == b < 128

CapsLock(b, k) == IF Down(b) THEN [k EXCEPT !.shift = Flip(@, "caps"), !.flags = @ \cup {"caps"}]
                  ELSE [k EXCEPT !.flags = @ \ {"caps"}]

Shift(b, k) == [k EXCEPT !.shift = With(@, IF b % 128 = 42 THEN "lshift" ELSE "rshift", Down(b))]

Ctrl(b, k) ==
    IF "e1" \in k.state THEN k
    ELSE [k EXCEPT !.shift = With(@, "ctrl", Down(b)),
                   !.state = IF "e0" \in k.state THEN With(@, "rctrl", Down(b)) ELSE @,
                   !.flags = IF "e0" \in k.state THEN @ ELSE With(@, "lctrl", Down(b))]

Alt(b, k) == [k EXCEPT !.shift = With(@, "alt", Down(b)),
                       !.state = IF "e0" \in k.state THEN With(@, "ralt", Down(b)) ELSE @,
                       !.flags = IF "e0" \in k.state THEN @ ELSE With(@, "lalt", Down(b))]

NumLock(b, k) ==
    IF k.state \cap {"e0", "e1"} # {} THEN k
    ELSE [k EXCEPT !.flags = With(@, "num", Down(b)), !.shift = IF Down(b) THEN Flip(@, "num") ELSE @]

\* An enhanced keyboard's Break is E0h 46h; the state's bit 4 says it is one.
CtrlBreak(k) == "e0" \in k.state

ScrollLock(b, k) ==
    IF CtrlBreak(k)
    THEN IF Down(b) THEN enqueue_key([k EXCEPT !.state = @ \ {"e0"}, !.tail = k.head], BreakKey) ELSE k
    ELSE [k EXCEPT !.flags = With(@, "scroll", Down(b)), !.shift = IF Down(b) THEN Flip(@, "scroll") ELSE @]

Column(b, k) ==
    LET locked == scan_to_scanascii[b].lock \in k.shift
        shifted == k.shift \cap {"lshift", "rshift"} # {}
    IN  IF "alt" \in k.shift THEN "alt"
        ELSE IF "ctrl" \in k.shift THEN "control"
        ELSE IF "e0" \in k.state /\ b \in 71 .. 83 THEN "e0"
        ELSE IF shifted # locked THEN "shift" ELSE "normal"

Known(b, column) == column \in scan_to_scanascii[b].columns \cup {"e0"}

\* After a key of its own the prefixes are forgotten, but for the E1h before
\* Ctrl, and but for keys that give nothing, which return early.
\* A bug: the E1h of Pause is not forgotten.
EndOfKey_KeepsE1(b, k) == [k EXCEPT !.state = @ \ {"e0"}]

EndOfKey(b, k) == [k EXCEPT !.state = (IF b % 128 = 29 THEN @ ELSE @ \ {"e1"}) \ {"e0"}]

OtherKey(b, k) ==
    IF ~Down(b) THEN EndOfKey(b, k)
    ELSE IF b > MAX_SCAN_CODE \/ ~Known(b, Column(b, k)) THEN k
    ELSE EndOfKey(b, enqueue_key(k, <<b, Column(b, k)>>))

Reboots(b, k) == b = 83 /\ k.shift \cap {"ctrl", "alt"} = {"ctrl", "alt"}
                        /\ k.shift \cap {"lshift", "rshift"} = {}

int09_function(b, k) ==
    LET code == b % 128
    IN  CASE b = 0             -> k
          [] b = 224           -> [k EXCEPT !.state = @ \cup {"e0"}]
          [] b = 225           -> [k EXCEPT !.state = @ \cup {"e1"}]
          [] code = 58         -> EndOfKey(b, CapsLock(b, k))
          [] code \in {42, 54} -> EndOfKey(b, Shift(b, k))
          [] code = 29         -> EndOfKey(b, Ctrl(b, k))
          [] code = 56         -> EndOfKey(b, Alt(b, k))
          [] code = 69         -> EndOfKey(b, NumLock(b, k))
          [] code = 70         -> EndOfKey(b, ScrollLock(b, k))
          [] OTHER             -> OtherKey(b, k)

-----------------------------------------------------------------------------
\* The controller: port 60h offers a byte of the mouse before one of the
\* keyboard; a command to a device drops what it had sent (src/rtl/soc/ps2.v).
ACK == 250
PutKeyb(c, bytes) == [c EXCEPT !.kf = @ \o bytes]
TakeByte(c) == [c EXCEPT !.obf = "none", !.kf = IF c.obf = "keyb" /\ @ # <<>> THEN Tail(@) ELSE @,
                         !.mf = IF c.obf = "mouse" /\ @ # <<>> THEN Tail(@) ELSE @]
\* What the byte is: a scan code, an answer or a part of a mouse packet.
Byte == IF kbc.obf = "mouse" THEN Head(kbc.mf) ELSE Head(kbc.kf)

Offer ==
    /\ kbc.obf = "none"
    /\ \/ kbc.mf # <<>> /\ ~kbc.auxoff /\ kbc' = [kbc EXCEPT !.obf = "mouse"]
       \/ (kbc.mf = <<>> \/ kbc.auxoff) /\ kbc.kf # <<>> /\ kbc' = [kbc EXCEPT !.obf = "keyb"]
    /\ UNCHANGED <<work, held, mouse, bda, ebda, cpu, given, heard, lost>>

KeyMoves ==
    /\ work.keys # {}
    /\ \E k \in work.keys :
           LET codes == IF k \in held THEN Release(k) ELSE Press[k]
               fits == Len(kbc.kf) + Len(codes) <= work.depth
           IN  /\ fits
               /\ k \notin held => Cardinality(held) < work.fingers
               /\ held' = IF k \in {"break", "pause"} THEN held ELSE Flip(held, k)
               /\ kbc' = PutKeyb(kbc, codes)
    /\ UNCHANGED <<work, mouse, bda, ebda, cpu, given, heard, lost>>

Packet(p) == [i \in 1 .. 3 |-> 299 + 3 * p + i]

\* The mouse sends packets of three bytes; one that is left alone does not
\* move while a service talks to it.
MouseMoves ==
    /\ ~kbc.auxoff /\ Len(kbc.mf) < FifoDepth
    /\ work.still => cpu.pc = "idle"
    /\ mouse' = [mouse EXCEPT !.at = (@ + 1) % 3, !.packet = IF mouse.at = 2 THEN 1 - @ ELSE @]
    /\ kbc' = [kbc EXCEPT !.mf = Append(@, Packet(mouse.packet)[mouse.at + 1])]
    /\ UNCHANGED <<work, held, bda, ebda, cpu, given, heard, lost>>

-----------------------------------------------------------------------------
\* A key that gives nothing leaves the E0h before it (int09_function returns
\* early), and the code that comes next is read as if E0h were its own.
Prefixed(b, k) ==
    IF "prefix" \in lost /\ b % 128 \in {29, 56, 69, 70}
    THEN (lost \ {"prefix"}) \cup {"side"}
    ELSE With(lost, "prefix", b # 224 /\ "e0" \in int09_function(b, k).state)

\* INT 09h: the byte is read, handled, and the interrupt ended.  A stand-in
\* for POST when Ctrl, Alt and Del are down.
Fresh == [shift |-> {}, flags |-> {}, state |-> {}, leds |-> {}, head |-> 0, tail |-> 0,
          mem |-> [i \in 0 .. Slots - 1 |-> BreakKey]]

int09 ==
    /\ cpu.if /\ kbc.obf = "keyb" /\ kbc.irq1 /\ kbc.kf # <<>>
    /\ lost' = Prefixed(Byte, bda)
    /\ IF Reboots(Byte, bda)
       THEN /\ bda' = Fresh /\ cpu' = Idle /\ given' = <<>>
            /\ kbc' = [TakeByte(kbc) EXCEPT !.kf = <<>>]
       ELSE /\ bda' = int09_function(Byte, bda)
            /\ kbc' = TakeByte(kbc)
            /\ UNCHANGED <<cpu, given>>
    /\ UNCHANGED <<work, held, mouse, ebda, heard>>

\* INT 74h.  A packet that is whole goes to the program's handler.
\* A bug: the handler is called a byte early.
PacketWhole_Early(e) == e.index + 1 >= e.count

PacketWhole(e) == e.index >= e.count

int74 ==
    /\ cpu.if /\ kbc.obf = "mouse" /\ kbc.irq12
    /\ kbc' = TakeByte(kbc)
    /\ LET e == [ebda EXCEPT !.data[ebda.index] = Byte]
       IN  IF ~ebda.installed THEN UNCHANGED <<ebda, heard>>
           ELSE IF PacketWhole(ebda)
           THEN /\ ebda' = [e EXCEPT !.index = 0]
                /\ heard' = [i \in 1 .. ebda.count + 1 |-> e.data[i - 1]]
           ELSE ebda' = [e EXCEPT !.index = @ + 1] /\ UNCHANGED heard
    /\ UNCHANGED <<work, held, mouse, bda, cpu, given, lost>>
-----------------------------------------------------------------------------
\* INT 16h.  A call that reads waits for a key with interrupts on and goes on
\* with them off; the others run with interrupts on.
Reads(c) == c.ah \in {0, 16}
Checks(c) == c.ah \in {1, 17}
Goto(pc) == cpu' = [cpu EXCEPT !.pc = pc]
OnlyCpu == UNCHANGED <<work, held, kbc, mouse, bda, ebda, given, heard, lost>>
Return(c) == [Idle EXCEPT !.call = c]

Call16(c) ==
    /\ cpu.pc = "idle"
    /\ cpu' = [Idle EXCEPT !.pc = IF Reads(c) THEN "wait" ELSE "leds", !.call = c]
    /\ OnlyCpu

KeyFound == /\ cpu.pc = "wait" /\ bda.head # bda.tail
            /\ cpu' = [cpu EXCEPT !.pc = "leds", !.if = FALSE]
            /\ OnlyCpu

Locks == bda.shift \cap {"caps", "num", "scroll"}

LedsAgree == /\ cpu.pc = "leds" /\ bda.leds = Locks
             /\ Goto("serve") /\ OnlyCpu

\* Commands to the keyboard, with interrupts off: what it had sent is gone.
\* The second byte is the lights asked for.
Command(ls) ==
    /\ kbc' = [kbc EXCEPT !.kf = <<ACK>>]
    /\ lost' = With(lost, "codes", "codes" \in lost \/ kbc.kf # <<>>)
    /\ cpu' = ls
    /\ UNCHANGED <<work, held, mouse, bda, ebda, given, heard>>

LedsSend == cpu.pc = "leds" /\ bda.leds # Locks
            /\ Command([cpu EXCEPT !.pc = "ack", !.if = FALSE, !.data = Locks])

LedsAcked ==
    /\ cpu.pc = "ack" /\ kbc.obf # "none"
    /\ IF Byte = ACK
       THEN /\ kbc' = [TakeByte(kbc) EXCEPT !.kf = <<ACK>>]
            /\ lost' = With(lost, "codes", "codes" \in lost \/ Len(kbc.kf) > 1)
            /\ Goto("set")
       ELSE /\ kbc' = TakeByte(kbc) /\ lost' = lost \cup {"codes"}
            /\ cpu' = [cpu EXCEPT !.pc = "serve", !.if = TRUE]
    /\ UNCHANGED <<work, held, mouse, bda, ebda, given, heard>>

LedsSet ==
    /\ cpu.pc = "set" /\ kbc.obf # "none"
    /\ kbc' = TakeByte(kbc) /\ lost' = With(lost, "codes", "codes" \in lost \/ Byte # ACK)
    /\ bda' = [bda EXCEPT !.leds = cpu.data]
    /\ cpu' = [cpu EXCEPT !.pc = "serve", !.if = TRUE, !.data = 0]
    /\ UNCHANGED <<work, held, mouse, ebda, given, heard>>

KeyThere == bda.head # bda.tail

\* dequeue_key: the key is read, and then head moves on.
Serve16 ==
    /\ cpu.pc = "serve"
    /\ CASE Reads(cpu.call) /\ KeyThere ->
               cpu' = [cpu EXCEPT !.pc = "step", !.key = <<bda.mem[bda.head]>>] /\ UNCHANGED <<given, bda>>
         [] Reads(cpu.call) /\ ~KeyThere ->
               cpu' = Return(cpu.call) /\ given' = <<>> /\ UNCHANGED bda
         [] Checks(cpu.call) ->
               /\ given' = IF KeyThere THEN <<bda.mem[bda.head]>> ELSE <<>>
               /\ cpu' = Return(cpu.call) /\ UNCHANGED bda
         [] cpu.call.ah = 5 ->
               cpu' = [cpu EXCEPT !.pc = IF Full(bda.head, bda.tail) THEN "idle" ELSE "put",
                                  !.data = bda.tail] /\ UNCHANGED <<given, bda>>
         [] OTHER -> cpu' = Return(cpu.call) /\ UNCHANGED <<given, bda>>    \* flags, capabilities
    /\ UNCHANGED <<work, held, kbc, mouse, ebda, heard, lost>>

StepHead ==
    /\ cpu.pc = "step"
    /\ bda' = [bda EXCEPT !.head = After(@)]
    /\ given' = cpu.key /\ cpu' = Return(cpu.call)
    /\ UNCHANGED <<work, held, kbc, mouse, ebda, heard, lost>>

\* enqueue_key for AH=05h, with interrupts on: the tail may have moved.
PutKey ==
    /\ cpu.pc = "put"
    /\ bda' = [bda EXCEPT !.mem[cpu.data] = cpu.call.key, !.tail = After(cpu.data)]
    /\ cpu' = Return(cpu.call)
    /\ UNCHANGED <<work, held, kbc, mouse, ebda, given, heard, lost>>

int16 == \/ \E c \in work.calls16 : Call16(c)
         \/ KeyFound \/ LedsAgree \/ LedsSend \/ LedsAcked \/ LedsSet
         \/ Serve16 \/ StepHead \/ PutKey

-----------------------------------------------------------------------------
\* INT 15h AH=C2h, with interrupts off: what it does to the controller, step
\* by step.  Command byte: IRQ 1, IRQ 12, the clock of the mouse.
Bits(b) == [irq1 |-> b % 2 = 1, irq12 |-> (b \div 2) % 2 = 1, auxoff |-> (b \div 4) % 2 = 1]
Number(x) == IF x THEN 1 ELSE 0
CommandByte == 400 + Number(kbc.irq1) + 2 * Number(kbc.irq12) + 4 * Number(kbc.auxoff)
Enables == [irq1 |-> kbc.irq1, irq12 |-> kbc.irq12, auxoff |-> kbc.auxoff]

inhibit_mouse == << <<"ask">>, <<"answer">>, <<"inhibit">> >>
enable_mouse == << <<"ask">>, <<"answer">>, <<"enable">> >>
Sent(v) == << <<"send", v>>, <<"get">> >>

Script(c) ==
    CASE c.al = 0 /\ c.bh = 0 -> inhibit_mouse
      [] c.al = 0 /\ c.bh = 1 -> IF ebda.installed
                                THEN inhibit_mouse \o Sent(244) \o << <<"acked">> >> \o enable_mouse ELSE <<>>
      [] c.al = 5 -> IF c.bh \in {3, 4} THEN inhibit_mouse ELSE <<>>
      [] c.al = 1 -> inhibit_mouse
      [] c.al = 2 -> IF c.bh <= 6 THEN Sent(243) \o Sent(20) ELSE <<>>
      [] c.al = 3 -> inhibit_mouse \o << <<"restore">> >>
      [] c.al = 4 -> inhibit_mouse \o Sent(242) \o << <<"get">> >>
      [] c.al = 6 -> IF c.bh = 0 THEN <<>> ELSE inhibit_mouse \o Sent(229 + c.bh) \o << <<"restore">> >>
      [] c.al = 7 -> IF ebda.installed /\ c.bh = 0 THEN inhibit_mouse ELSE <<>>
      [] OTHER -> <<>>

\* Initialize sets the size of a packet and starts one; a handler at 0:0 is none.
Recorded(c) == IF c.al = 5 /\ c.bh \in {3, 4} THEN [ebda EXCEPT !.index = 0, !.count = c.bh - 1]
               ELSE IF c.al = 7 THEN [ebda EXCEPT !.installed = c.bh # 0]
               ELSE ebda

Still == kbc.kf = <<>> /\ kbc.mf = <<>> /\ kbc.obf = "none" /\ mouse.at = 0

Call15 ==
    /\ cpu.pc = "idle" /\ (work.still => Still)
    /\ \E c \in work.calls15 :
           /\ cpu' = [Idle EXCEPT !.call = c, !.script = Script(c),
                                  !.pc = IF Script(c) = <<>> THEN "idle" ELSE "script",
                                  !.if = Script(c) = <<>>]
           /\ ebda' = Recorded(c)
    /\ UNCHANGED <<work, held, kbc, mouse, bda, given, heard, lost>>

Doing(step) == cpu.pc = "script" /\ Head(cpu.script)[1] = step
Done(c) == IF Len(c.script) = 1 THEN [Idle EXCEPT !.call = c.call]
           ELSE [c EXCEPT !.script = Tail(@)]
OnlyKbc == UNCHANGED <<work, held, mouse, bda, ebda, given, heard, lost>>

Ask == /\ Doing("ask")
       /\ kbc' = PutKeyb(kbc, <<CommandByte>>) /\ cpu' = Done(cpu) /\ OnlyKbc

\* Whatever byte is first is taken for the command byte.
Answer == /\ Doing("answer") /\ kbc.obf # "none"
          /\ \E comm \in IF Byte >= 400 THEN {Bits(Byte)} ELSE [{"irq1", "irq12", "auxoff"} -> BOOLEAN] :
                 cpu' = Done([cpu EXCEPT !.comm = comm])
          /\ kbc' = TakeByte(kbc) /\ OnlyKbc

WriteCommandByte(comm) ==
    /\ kbc' = [kbc EXCEPT !.irq1 = comm.irq1, !.irq12 = comm.irq12, !.auxoff = comm.auxoff]
    /\ cpu' = Done(cpu) /\ OnlyKbc

Inhibit == Doing("inhibit") /\ WriteCommandByte([cpu.comm EXCEPT !.irq12 = FALSE, !.auxoff = TRUE])
Enable == Doing("enable") /\ WriteCommandByte([cpu.comm EXCEPT !.irq12 = TRUE, !.auxoff = FALSE])
Restore == Doing("restore") /\ WriteCommandByte(cpu.comm)

\* send_to_mouse_ctrl opens the port; the answer drops what the mouse had sent.
Send == /\ Doing("send")
        /\ kbc' = [kbc EXCEPT !.auxoff = FALSE, !.mf = IF Head(cpu.script)[2] = 242 THEN <<ACK, 0>> ELSE <<ACK>>]
        /\ cpu' = Done(cpu) /\ OnlyKbc

get_mouse_data == /\ Doing("get") /\ kbc.obf = "mouse"
                  /\ kbc' = TakeByte(kbc)
                  /\ cpu' = Done([cpu EXCEPT !.data = Byte]) /\ OnlyKbc

Acked == /\ Doing("acked")
         /\ cpu' = IF cpu.data = ACK THEN Done(cpu) ELSE [Idle EXCEPT !.call = cpu.call]
         /\ UNCHANGED kbc /\ OnlyKbc

int15_function_mouse == Call15 \/ Ask \/ Answer \/ Inhibit \/ Enable \/ Restore \/ Send
                               \/ get_mouse_data \/ Acked

-----------------------------------------------------------------------------
InputInit(works) ==
    /\ work \in works
    /\ held = {} /\ bda = Fresh /\ cpu = Idle /\ given = <<>> /\ heard = <<>> /\ lost = {}
    /\ kbc = [kf |-> <<>>, mf |-> <<>>, obf |-> "none", irq1 |-> TRUE, irq12 |-> FALSE, auxoff |-> TRUE]
    /\ mouse = [at |-> 0, packet |-> 0]
    /\ ebda = [installed |-> FALSE, index |-> 0, count |-> 0, data |-> [i \in 0 .. 7 |-> 0]]

InputNext == Offer \/ KeyMoves \/ MouseMoves \/ int09 \/ int74 \/ int16 \/ int15_function_mouse

-----------------------------------------------------------------------------
(* Properties *)

KeyCodes == {BreakKey} \cup {<<b, c>> : b \in DOMAIN scan_to_scanascii, c \in {"normal", "shift", "control", "alt", "e0"}}

\* The key buffer with its two indices, used by an interrupt handler and a
\* service it interrupts between their reads and writes, is the queue of keys
\* that INT 16h promises: no key is lost, given twice or out of turn.
Queue == INSTANCE KeyQueue WITH Key <- KeyCodes, Break <- BreakKey, Room <- Slots - 1,
                                queue <- Waiting(bda), given <- given
IsKeyQueue == Queue!Spec

\* When the last key is up and all its codes are handled, the shift flags say
\* that no key is down and no prefix waits for a code, whatever was pressed
\* together, unless setting the lights made the controller drop a code.  The
\* flags that tell left from right say so too, unless a modifier's code came
\* behind the prefix that a key without a code had left (int09_function).
NothingStuck ==
    (held = {} /\ kbc.kf = <<>> /\ "codes" \notin lost) =>
        /\ bda.shift \cap {"lshift", "rshift", "ctrl", "alt"} = {}
        /\ bda.state \cap {"e0", "e1"} = {}
        /\ "side" \notin lost => bda.flags = {} /\ bda.state = {}

\* The program's handler is given whole packets of the mouse.
HandlerExact == heard' # heard /\ ebda.count = 2 => \E p \in {0, 1} : heard' = Packet(p)
=============================================================================
