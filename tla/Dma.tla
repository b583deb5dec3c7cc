--------------------------------- MODULE Dma ---------------------------------
(***************************************************************************)
(* The two cascaded i8237 DMA controllers and the page registers           *)
(* (src/rtl/soc/dma.v).  One step is one clock: at most one I/O access of  *)
(* the processor (the I/O bus leaves two clocks between two), the memory   *)
(* bus, and every channel at once.                                         *)
(*                                                                         *)
(* A channel is <<controller, number>>.  A 16-bit register is two bytes of *)
(* Byte values each, written through the flip-flop.  Data are left out;    *)
(* the transfer of one word over the bus is module MemoryBus.              *)
(***************************************************************************)
EXTENDS Integers, FiniteSets

CONSTANTS
    Channel,    \* the channels with a device, subset of {"sla", "mas"} \X 0 .. 3
    Byte,       \* byte values, 0 .. n
    Page,       \* values of a page register
    IoOps       \* the I/O accesses the processor makes

Controller == {"sla", "mas"}
Number == 0 .. 3
Base == Cardinality(Byte)

ASSUME DmaAssumption ==
    /\ Channel \subseteq (Controller \X Number) \ {<<"mas", 0>>}
    /\ Channel # {}
    /\ 0 \in Page
    /\ IsFiniteSet(Byte) /\ Byte = 0 .. Base - 1 /\ Byte # {}

VARIABLES
    base_address, current_address, base_counter, current_counter,
    dec, auto, transfer,
    state,                    \* i8237_chan state
    flip_flop, disabled, pending, mask, terminated,      \* per controller
    page,
    dma_address,              \* latched from the channel served
    mem_address,              \* page and address on the bus
    mem_read, mem_write,
    io_gap,                   \* clocks until the I/O bus can make another access
    ack, tc_out,              \* channels whose ack and tc outputs are high
    wanted,                   \* channels whose device requests
    \* history
    exhausted,                \* channels that reached the end of their count
    soft,                     \* channels served for a write of the request register
    rewritten                 \* channels whose address or page was written while served

progVars == <<base_address, base_counter, dec, auto, transfer, flip_flop, disabled, page>>
vars == <<progVars, current_address, current_counter, state, pending, mask, terminated,
          dma_address, mem_address, mem_read, mem_write, io_gap, ack, tc_out, wanted,
          exhausted, soft, rewritten>>

\* What the processor writes fits the register it writes.
ASSUME IoAssumption ==
    \A io \in IoOps :
        /\ io.ctl \in Controller /\ io.n \in Number
        /\ io.reg \in {"address", "counter"} => io.v \in Byte
        /\ io.reg = "mode" => /\ io.v.dec \in BOOLEAN /\ io.v.auto \in BOOLEAN
                             /\ io.v.transfer \in {"read", "write", "verify"}
        /\ io.reg = "command" => io.v \in BOOLEAN
        /\ io.reg = "page" => io.v \in Page
        /\ io.reg = "writemask" => io.v \in SUBSET Number

\* An access of the processor: its register, controller, channel and value.
NoIo == [reg |-> "none", ctl |-> "sla", n |-> 0, v |-> 0]

-----------------------------------------------------------------------------
(* Signals. *)

Is(io, reg, ctl) == io.reg = reg /\ io.ctl = ctl
MasterClear(io, c) == Is(io, "clear", c[1])
Writes(io, reg, c) == io.reg = reg /\ io.ctl = c[1] /\ io.n = c[2]

Busy == {c \in Channel : state[c] # 0}
Update == {c \in Channel : state[c] = 4}
Tc == {c \in Update : current_counter[c] = <<0, 0>>}
Of(ctl, s) == {c[2] : c \in {d \in s : d[1] = ctl}}

\* req & ~mute; the slave is muted by the master and by its cascade channel.
Muted(ctl) == disabled["mas"] \/ (ctl = "sla" /\ (disabled["sla"] \/ 0 \in mask["mas"]))
Requesting == {c \in Channel : /\ c[2] \in pending[c[1]]
                               /\ c[2] \notin mask[c[1]]
                               /\ ~Muted(c[1])}

\* Fixed priority: the slave's channels in order, then the master's.
Before(c, d) == IF c[1] = d[1] THEN c[2] < d[2] ELSE c[1] = "sla"

Granted_WhileBusy ==            \* mutant: grants without looking at who is busy
    {c \in Requesting : \A d \in Requesting \ {c} : Before(c, d)}
Granted == IF Busy # {} THEN {}
           ELSE {c \in Requesting : \A d \in Requesting \ {c} : Before(c, d)}

\* The other byte of a register stays as it is.
PutByte(r, ff, v) == IF ff THEN <<r[1], v>> ELSE <<v, r[2]>>
Plus_Open(r, k) ==              \* mutant: counts below zero
    LET n == r[1] + Base * r[2] + k IN <<n % Base, n \div Base>>
Plus(r, k) ==
    LET n == (r[1] + Base * r[2] + k + Base * Base) % (Base * Base)
    IN  <<n % Base, n \div Base>>

-----------------------------------------------------------------------------
(* One clock. *)

\* The programmed registers; the flip-flop chooses the byte of a 16-bit one.
Program(io) ==
    /\ base_address' = [c \in Channel |->
         IF Writes(io, "address", c) THEN PutByte(base_address[c], flip_flop[c[1]], io.v)
                                     ELSE base_address[c]]
    /\ base_counter' = [c \in Channel |->
         IF Writes(io, "counter", c) THEN PutByte(base_counter[c], flip_flop[c[1]], io.v)
                                     ELSE base_counter[c]]
    /\ dec' = [c \in Channel |-> IF Writes(io, "mode", c) THEN io.v.dec ELSE dec[c]]
    /\ auto' = [c \in Channel |-> IF Writes(io, "mode", c) THEN io.v.auto ELSE auto[c]]
    /\ transfer' = [c \in Channel |-> IF Writes(io, "mode", c) THEN io.v.transfer
                                                               ELSE transfer[c]]
    /\ flip_flop' = [k \in Controller |->
         IF Is(io, "clear", k) \/ Is(io, "flipflop", k) THEN FALSE
         ELSE IF io.ctl = k /\ io.reg \in {"address", "counter", "read"}
              THEN ~flip_flop[k] ELSE flip_flop[k]]
    /\ disabled' = [k \in Controller |->
         IF Is(io, "clear", k) THEN FALSE
         ELSE IF Is(io, "command", k) THEN io.v ELSE disabled[k]]
    /\ page' = [c \in Channel |-> IF Writes(io, "page", c) THEN io.v ELSE page[c]]

\* A write goes before the reload at the end of the count, that before the step.
Count(io) ==
    /\ current_address' = [c \in Channel |->
         IF Writes(io, "address", c) THEN PutByte(current_address[c], flip_flop[c[1]], io.v)
         ELSE IF c \in Tc /\ auto[c] THEN base_address[c]
         ELSE IF c \in Update THEN Plus(current_address[c], IF dec[c] THEN -1 ELSE 1)
         ELSE current_address[c]]
    /\ current_counter' = [c \in Channel |->
         IF Writes(io, "counter", c) THEN PutByte(current_counter[c], flip_flop[c[1]], io.v)
         ELSE IF c \in Tc /\ auto[c] THEN base_counter[c]
         ELSE IF c \in Update THEN Plus(current_counter[c], -1)
         ELSE current_counter[c]]

MaskAfterTc_Forgets(k) == mask[k]     \* mutant: the end of the count does not mask
MaskAfterTc(k) == mask[k] \union Of(k, {c \in Tc : ~auto[c]})

\* A write of a mask register in the clock of a Tc hides that Tc from the mask.
MaskClock(io) ==
    mask' = [k \in Controller |->
        CASE Is(io, "clear", k)     -> Number
          [] Is(io, "clearmask", k) -> {}
          [] Is(io, "writemask", k) -> io.v
          [] Is(io, "mask", k)      -> mask[k] \union {io.n}
          [] Is(io, "unmask", k)    -> mask[k] \ {io.n}
          [] OTHER                  -> MaskAfterTc(k)]
MaskWrite(io, k) == io.ctl = k /\ io.reg \in {"clear", "clearmask", "writemask", "mask", "unmask"}

RequestLines_Latched(k) == pending[k] \union Of(k, wanted)    \* mutant: never let go
RequestLines(k) == Of(k, wanted)

\* The request lines are sampled every clock but that of a request write, which
\* keeps the old sample.
PendingClock(io) ==
    pending' = [k \in Controller |->
        CASE Is(io, "clear", k)     -> {}
          [] Is(io, "request", k)   -> pending[k] \union {io.n}
          [] Is(io, "unrequest", k) -> pending[k] \ {io.n}
          [] OTHER                  -> RequestLines(k)]

TerminatedClock(io) ==
    terminated' = [k \in Controller |->
        IF Is(io, "clear", k) \/ Is(io, "status", k) THEN {} ELSE terminated[k] \union Of(k, Tc)]

\* i8237_chan, with the bus's answers to the channel that is served.
NextState(c, taken, valid) ==
    CASE state[c] = 0 -> IF c \in Granted THEN 1 ELSE 0
      [] state[c] = 1 -> (CASE transfer[c] = "read" -> 2 [] transfer[c] = "write" -> 6
                            [] OTHER -> 7)
      [] state[c] = 2 -> IF taken THEN 3 ELSE 2
      [] state[c] = 3 -> IF valid THEN 4 ELSE 3
      [] state[c] = 4 -> 5
      [] state[c] = 5 -> 0
      [] state[c] = 6 -> IF taken THEN 4 ELSE 6
      [] state[c] = 7 -> 4

ChannelClock(io, taken, valid) ==
    /\ state' = [c \in Channel |-> IF MasterClear(io, c) THEN 0 ELSE NextState(c, taken, valid)]
    /\ ack' = {c \in Channel : \/ state[c] = 3 /\ valid
                               \/ state[c] = 6 /\ taken
                               \/ state[c] = 7}
    /\ tc_out' = Tc

ServedPage_Master(c) == page[CHOOSE d \in Channel : d[1] = "mas"]   \* mutant: one set of page registers
ServedPage(c) == page[c]

\* dma_address holds the address from state 1 on and 0 in a free channel; the
\* mem_* registers follow the channel served a clock later.
BusClock ==
    /\ mem_read' = (\E c \in Busy : state[c] = 2)
    /\ mem_write' = (\E c \in Busy : state[c] = 6)
    /\ \/ Busy = {} /\ dma_address' = <<0, 0>> /\ UNCHANGED mem_address
       \/ \E c \in Busy :
             /\ dma_address' = IF state[c] = 1 THEN current_address[c] ELSE dma_address
             /\ mem_address' = [page |-> ServedPage(c), addr |-> dma_address]

\* A device keeps its request until it is acknowledged, and may then want more.
Devices ==
    \E up \in SUBSET Channel : wanted' = (wanted \ ack) \union up

History(io) ==
    /\ exhausted' = ({c \in exhausted : /\ ~MasterClear(io, c)
                                        /\ ~MaskWrite(io, c[1])}
                     \union {c \in Tc : ~auto[c] /\ ~MaskWrite(io, c[1])})
    /\ soft' = {c \in soft : state[c] # 0 \/ c \in Granted}
               \union {c \in Channel : io.reg \in {"request", "unrequest"} /\ c[1] = io.ctl
                                       /\ c[2] \in pending'[c[1]]}
    /\ rewritten' = {c \in Channel : /\ state[c] # 0 /\ state'[c] # 0
                                     /\ \/ c \in rewritten
                                        \/ Writes(io, "address", c) \/ Writes(io, "page", c)}

Clock(io, taken, valid) ==
    /\ taken => mem_read \/ mem_write
    /\ io # NoIo => io_gap = 0
    /\ io_gap' = IF io # NoIo THEN 2 ELSE IF io_gap > 0 THEN io_gap - 1 ELSE 0
    /\ Program(io) /\ Count(io) /\ MaskClock(io) /\ PendingClock(io) /\ TerminatedClock(io)
    /\ ChannelClock(io, taken, valid)
    /\ BusClock
    /\ Devices
    /\ History(io)

Init ==
    /\ base_address = [c \in Channel |-> <<0, 0>>] /\ current_address = base_address
    /\ base_counter = base_address /\ current_counter = base_address
    /\ dec = [c \in Channel |-> FALSE] /\ auto = [c \in Channel |-> FALSE]
    /\ transfer = [c \in Channel |-> "verify"]
    /\ state = [c \in Channel |-> 0]
    /\ flip_flop = [k \in Controller |-> FALSE] /\ disabled = [k \in Controller |-> FALSE]
    /\ pending = [k \in Controller |-> {}] /\ mask = [k \in Controller |-> Number]
    /\ terminated = [k \in Controller |-> {}]
    /\ page = [c \in Channel |-> 0]
    /\ mem_address = [page |-> 0, addr |-> <<0, 0>>] /\ dma_address = <<0, 0>>
    /\ mem_read = FALSE /\ mem_write = FALSE
    /\ io_gap = 0 /\ ack = {} /\ tc_out = {} /\ wanted = {}
    /\ exhausted = {} /\ soft = {} /\ rewritten = {}

Next == \E io \in IoOps \union {NoIo}, taken, valid \in BOOLEAN : Clock(io, taken, valid)

Spec == Init /\ [][Next]_vars

-----------------------------------------------------------------------------
(* Properties. *)

Register == Byte \X Byte

TypeOK ==
    /\ base_address \in [Channel -> Register] /\ current_address \in [Channel -> Register]
    /\ base_counter \in [Channel -> Register] /\ current_counter \in [Channel -> Register]
    /\ dec \in [Channel -> BOOLEAN] /\ auto \in [Channel -> BOOLEAN]
    /\ transfer \in [Channel -> {"read", "write", "verify"}]
    /\ state \in [Channel -> 0 .. 7]
    /\ flip_flop \in [Controller -> BOOLEAN] /\ disabled \in [Controller -> BOOLEAN]
    /\ pending \in [Controller -> SUBSET Number] /\ mask \in [Controller -> SUBSET Number]
    /\ terminated \in [Controller -> SUBSET Number]
    /\ page \in [Channel -> Page]
    /\ dma_address \in Register /\ mem_address \in [page: Page, addr: Register]
    /\ mem_read \in BOOLEAN /\ mem_write \in BOOLEAN
    /\ io_gap \in 0 .. 2 /\ ack \in SUBSET Channel /\ tc_out \in SUBSET Channel /\ wanted \in SUBSET Channel
    /\ exhausted \in SUBSET Channel /\ soft \in SUBSET Channel /\ rewritten \in SUBSET Channel

\* One channel of the seven is served at a time: their outputs are or-ed.
OneServed == \A c, d \in Busy : c = d

\* A channel that has counted out starts no transfer until it is unmasked,
\* however many requests were on their way; the one hole is a write of its
\* controller's mask in the very clock of the Tc.
StopsAtTc == \A c \in exhausted : state[c] \in {0, 4, 5}

\* A device is served only when it asks: the sample of a request line that its
\* acknowledge has dropped is gone when the channel is free again.  A write of
\* the request register serves without being asked.
ServedWhenAsked == \A c \in ack : c \in wanted \/ c \in soft

\* Every transfer is one channel's, asked for and not yet counted out.
TransfersExact == OneServed /\ StopsAtTc /\ ServedWhenAsked

\* What the bus is asked for is the current address of the channel that is
\* served, in its page, though the address, the page and the request reach the
\* bus in three different clocks and the address steps on after them.  A
\* program that writes them in the middle of a transfer gets what it gets.
RightAddress ==
    mem_read \/ mem_write =>
        \A c \in Busy \ rewritten : mem_address = [page |-> page[c], addr |-> current_address[c]]

=============================================================================
