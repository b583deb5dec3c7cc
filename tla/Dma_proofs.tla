------------------------------ MODULE Dma_proofs ------------------------------
(***************************************************************************)
(* Proofs about the DMA controllers: for every set of channels, every      *)
(* width of the registers and every sequence of accesses, one channel is   *)
(* served at a time, for a device that asks, and none after the end of its *)
(* count.                                                                  *)
(***************************************************************************)
EXTENDS Dma, FiniteSetTheorems, TLAPS

LEMMA ChannelParts ==
    /\ \A c \in Channel : c = <<c[1], c[2]>> /\ c[1] \in Controller /\ c[2] \in Number
    /\ \A c, d \in Channel : c[1] = d[1] /\ c[2] = d[2] => c = d
  BY DmaAssumption DEF Controller, Number

LEMMA NoIoOk == NoIo.ctl \in Controller /\ NoIo.n \in Number /\ NoIo.reg = "none"
  BY DEF NoIo, Controller, Number

-----------------------------------------------------------------------------
(* Arithmetic of the 16-bit registers. *)

LEMMA BasePositive == Base \in Nat /\ Base > 0
<1>1. Base \in Int
  <2>1. IsFiniteSet(Byte) /\ Byte = 0 .. Base - 1 /\ Byte # {}
    BY DmaAssumption
  <2> QED
    BY <2>1, FS_CardinalityType DEF Base
<1>2. 0 .. Base - 1 # {}
  BY DmaAssumption
<1> QED
  BY <1>1, <1>2

\* The low and the high byte of a number of two bytes are bytes.
LEMMA TwoBytes ==
    ASSUME NEW n \in Nat, n < Base * Base
    PROVE  n % Base \in Byte /\ n \div Base \in Byte
<1>1. Base \in Nat /\ Base > 0 /\ Byte = 0 .. Base - 1
  BY BasePositive, DmaAssumption
<1> DEFINE q == n \div Base
           r == n % Base
<1>2. q \in Int /\ r \in 0 .. Base - 1 /\ n = Base * q + r
  BY <1>1
<1> HIDE DEF q, r
<1>3. q >= 0
  <2> SUFFICES ASSUME q <= -1 PROVE FALSE
    BY <1>2
  <2>1. Base * q <= Base * (-1)
    BY <1>1, <1>2
  <2> QED
    BY <2>1, <1>1, <1>2
<1>4. q < Base
  <2> SUFFICES ASSUME q >= Base PROVE FALSE
    BY <1>1, <1>2
  <2>1. Base * q >= Base * Base
    BY <1>1, <1>2
  <2> QED
    BY <2>1, <1>1, <1>2
<1> QED
  BY <1>1, <1>2, <1>3, <1>4 DEF q, r

LEMMA PutByteType ==
    ASSUME NEW r \in Register, NEW ff \in BOOLEAN, NEW v \in Byte
    PROVE  PutByte(r, ff, v) \in Register
  BY DEF PutByte, Register

LEMMA PlusType ==
    ASSUME NEW r \in Register, NEW k \in {-1, 1}
    PROVE  Plus(r, k) \in Register
<1>1. Base \in Nat /\ Base > 0 /\ r[1] \in 0 .. Base - 1 /\ r[2] \in 0 .. Base - 1
  BY BasePositive, DmaAssumption DEF Register
<1> DEFINE B == Base * Base
           high == Base * r[2]
           m == r[1] + high + k + B
<1>2. B \in Nat /\ B > 0
  BY <1>1
<1>3. high \in Int
  BY <1>1
<1>4. m \in Int
  BY <1>1, <1>2, <1>3
<1> HIDE DEF B, high, m
<1>5. m % B \in Nat /\ m % B < B
  BY <1>2, <1>4
<1>6. (m % B) % Base \in Byte /\ (m % B) \div Base \in Byte
  BY <1>5, TwoBytes DEF B
<1>7. Plus(r, k) = <<(m % B) % Base, (m % B) \div Base>>
  BY DEF Plus, B, high, m
<1> QED
  BY <1>6, <1>7 DEF Register

LEMMA RegisterZero == <<0, 0>> \in Register
  BY BasePositive, DmaAssumption DEF Register

-----------------------------------------------------------------------------
(* Types. *)

\* What an access writes, for the accesses of the processor and for none.
IoOk(io) ==
    /\ io.ctl \in Controller /\ io.n \in Number
    /\ io.reg \in {"address", "counter"} => io.v \in Byte
    /\ io.reg = "mode" => /\ io.v.dec \in BOOLEAN /\ io.v.auto \in BOOLEAN
                          /\ io.v.transfer \in {"read", "write", "verify"}
    /\ io.reg = "command" => io.v \in BOOLEAN
    /\ io.reg = "page" => io.v \in Page
    /\ io.reg = "writemask" => io.v \in SUBSET Number

LEMMA EveryIoOk == \A io \in IoOps \union {NoIo} : IoOk(io)
<1>1. \A io \in IoOps : IoOk(io)
  BY IoAssumption DEF IoOk
<1>2. IoOk(NoIo)
  BY NoIoOk DEF IoOk
<1> QED
  BY <1>1, <1>2

LEMMA OfType == \A k \in Controller, s \in SUBSET Channel : Of(k, s) \subseteq Number
  BY ChannelParts DEF Of

LEMMA ProgramType ==
    ASSUME TypeOK, NEW io, IoOk(io), Program(io)
    PROVE  /\ base_address' \in [Channel -> Register] /\ base_counter' \in [Channel -> Register]
           /\ dec' \in [Channel -> BOOLEAN] /\ auto' \in [Channel -> BOOLEAN]
           /\ transfer' \in [Channel -> {"read", "write", "verify"}]
           /\ flip_flop' \in [Controller -> BOOLEAN] /\ disabled' \in [Controller -> BOOLEAN]
           /\ page' \in [Channel -> Page]
<1>1. \A c \in Channel : flip_flop[c[1]] \in BOOLEAN
  BY ChannelParts DEF TypeOK
<1>2. base_address' \in [Channel -> Register]
  BY <1>1, PutByteType DEF Program, TypeOK, IoOk, Writes
<1>3. base_counter' \in [Channel -> Register]
  BY <1>1, PutByteType DEF Program, TypeOK, IoOk, Writes
<1>4. dec' \in [Channel -> BOOLEAN] /\ auto' \in [Channel -> BOOLEAN]
      /\ transfer' \in [Channel -> {"read", "write", "verify"}]
  BY DEF Program, TypeOK, IoOk, Writes
<1>5. flip_flop' \in [Controller -> BOOLEAN]
  BY DEF Program, TypeOK
<1>6. disabled' \in [Controller -> BOOLEAN]
  BY DEF Program, TypeOK, IoOk, Is
<1>7. page' \in [Channel -> Page]
  BY DEF Program, TypeOK, IoOk, Writes
<1> QED
  BY <1>2, <1>3, <1>4, <1>5, <1>6, <1>7

LEMMA CountType ==
    ASSUME TypeOK, NEW io, IoOk(io), Count(io)
    PROVE  current_address' \in [Channel -> Register] /\ current_counter' \in [Channel -> Register]
<1>1. \A c \in Channel : flip_flop[c[1]] \in BOOLEAN
  BY ChannelParts DEF TypeOK
<1>2. current_address' \in [Channel -> Register]
  <2> SUFFICES ASSUME NEW c \in Channel PROVE current_address'[c] \in Register
    BY DEF Count
  <2>1. CASE Writes(io, "address", c)
    BY <2>1, <1>1, PutByteType DEF Count, TypeOK, IoOk, Writes
  <2>2. CASE ~Writes(io, "address", c)
    BY <2>2, PlusType DEF Count, TypeOK
  <2> QED
    BY <2>1, <2>2
<1>3. current_counter' \in [Channel -> Register]
  <2> SUFFICES ASSUME NEW c \in Channel PROVE current_counter'[c] \in Register
    BY DEF Count
  <2>1. CASE Writes(io, "counter", c)
    BY <2>1, <1>1, PutByteType DEF Count, TypeOK, IoOk, Writes
  <2>2. CASE ~Writes(io, "counter", c)
    BY <2>2, PlusType DEF Count, TypeOK
  <2> QED
    BY <2>1, <2>2
<1> QED
  BY <1>2, <1>3

LEMMA FlagsType ==
    ASSUME TypeOK, NEW io, IoOk(io), MaskClock(io), PendingClock(io), TerminatedClock(io)
    PROVE  /\ mask' \in [Controller -> SUBSET Number] /\ pending' \in [Controller -> SUBSET Number]
           /\ terminated' \in [Controller -> SUBSET Number]
<1>1. \A k \in Controller : /\ mask[k] \in SUBSET Number /\ pending[k] \in SUBSET Number
                            /\ terminated[k] \in SUBSET Number
  BY DEF TypeOK
<1>2. Tc \in SUBSET Channel /\ {c \in Tc : ~auto[c]} \in SUBSET Channel /\ wanted \in SUBSET Channel
  BY DEF Tc, Update, TypeOK
<1>3. mask' \in [Controller -> SUBSET Number]
  <2> SUFFICES ASSUME NEW k \in Controller PROVE mask'[k] \in SUBSET Number
    BY DEF MaskClock
  <2>1. MaskAfterTc(k) \in SUBSET Number
    BY <1>1, <1>2, OfType DEF MaskAfterTc
  <2> QED
    BY <2>1, <1>1 DEF MaskClock, IoOk, Is
<1>4. pending' \in [Controller -> SUBSET Number]
  <2> SUFFICES ASSUME NEW k \in Controller PROVE pending'[k] \in SUBSET Number
    BY DEF PendingClock
  <2>1. RequestLines(k) \in SUBSET Number
    BY <1>2, OfType DEF RequestLines
  <2> QED
    BY <2>1, <1>1 DEF PendingClock, IoOk, Is
<1>5. terminated' \in [Controller -> SUBSET Number]
  BY <1>1, <1>2, OfType DEF TerminatedClock
<1> QED
  BY <1>3, <1>4, <1>5

LEMMA NextStateType ==
    ASSUME TypeOK, NEW c \in Channel, NEW taken \in BOOLEAN, NEW valid \in BOOLEAN
    PROVE  NextState(c, taken, valid) \in 0 .. 7
<1>1. state[c] \in 0 .. 7
  BY DEF TypeOK
<1> QED
  BY <1>1 DEF NextState

LEMMA BusType ==
    ASSUME TypeOK, BusClock
    PROVE  /\ dma_address' \in Register /\ mem_address' \in [page: Page, addr: Register]
           /\ mem_read' \in BOOLEAN /\ mem_write' \in BOOLEAN
<1>1. \A c \in Busy : page[c] \in Page /\ current_address[c] \in Register
  BY DEF TypeOK, Busy
<1>2. dma_address \in Register /\ mem_address \in [page: Page, addr: Register]
  BY DEF TypeOK
<1>3. mem_read' \in BOOLEAN /\ mem_write' \in BOOLEAN
  BY Zenon DEF BusClock
<1>4. dma_address' \in Register
  BY <1>1, <1>2, RegisterZero DEF BusClock
<1>5. mem_address' \in [page: Page, addr: Register]
  <2>1. CASE UNCHANGED mem_address
    BY <2>1, <1>2
  <2>2. CASE \E c \in Busy : mem_address' = [page |-> page[c], addr |-> dma_address]
    BY <2>2, <1>1, <1>2
  <2> QED
    BY <2>1, <2>2 DEF BusClock, ServedPage
<1> QED
  BY <1>3, <1>4, <1>5

\* Every register, flag and latch keeps its width, whatever the processor writes.
THEOREM TypeCorrect == Spec => []TypeOK
<1>1. Init => TypeOK
  <2> SUFFICES ASSUME Init PROVE TypeOK
    OBVIOUS
  <2>1. /\ base_address \in [Channel -> Register] /\ current_address \in [Channel -> Register]
        /\ base_counter \in [Channel -> Register] /\ current_counter \in [Channel -> Register]
        /\ dma_address \in Register
    BY RegisterZero DEF Init
  <2>2. /\ dec \in [Channel -> BOOLEAN] /\ auto \in [Channel -> BOOLEAN]
        /\ transfer \in [Channel -> {"read", "write", "verify"}] /\ state \in [Channel -> 0 .. 7]
    BY DEF Init
  <2>3. /\ flip_flop \in [Controller -> BOOLEAN] /\ disabled \in [Controller -> BOOLEAN]
        /\ pending \in [Controller -> SUBSET Number] /\ mask \in [Controller -> SUBSET Number]
        /\ terminated \in [Controller -> SUBSET Number]
    BY DEF Init
  <2>4. page \in [Channel -> Page] /\ mem_address \in [page: Page, addr: Register]
    BY RegisterZero, DmaAssumption DEF Init
  <2>5. mem_read \in BOOLEAN /\ mem_write \in BOOLEAN
    BY Zenon DEF Init
  <2>6. /\ io_gap \in 0 .. 2
        /\ ack = {} /\ tc_out = {} /\ wanted = {} /\ exhausted = {} /\ soft = {} /\ rewritten = {}
    BY DEF Init
  <2> QED
    BY <2>1, <2>2, <2>3, <2>4, <2>5, <2>6 DEF TypeOK
<1>2. TypeOK /\ [Next]_vars => TypeOK'
  <2>1. ASSUME TypeOK, UNCHANGED vars PROVE TypeOK'
    BY <2>1 DEF TypeOK, vars, progVars
  <2>2. ASSUME TypeOK, NEW io, IoOk(io), NEW taken \in BOOLEAN, NEW valid \in BOOLEAN,
               Clock(io, taken, valid)
        PROVE  TypeOK'
    <3>1. Program(io) /\ Count(io) /\ MaskClock(io) /\ PendingClock(io) /\ TerminatedClock(io)
          /\ ChannelClock(io, taken, valid) /\ BusClock /\ Devices /\ History(io)
      BY <2>2 DEF Clock
    <3>2. state' \in [Channel -> 0 .. 7]
      BY <2>2, <3>1, NextStateType DEF ChannelClock
    <3>3. io_gap' \in 0 .. 2
      BY <2>2 DEF Clock, TypeOK
    <3>4. ack' \in SUBSET Channel /\ tc_out' \in SUBSET Channel /\ wanted' \in SUBSET Channel
      BY <2>2, <3>1 DEF ChannelClock, Devices, Tc, Update, TypeOK
    <3>5. exhausted' \in SUBSET Channel /\ soft' \in SUBSET Channel /\ rewritten' \in SUBSET Channel
      BY <2>2, <3>1 DEF History, Tc, Update, TypeOK
    <3> QED
      BY <2>2, <3>1, <3>2, <3>3, <3>4, <3>5, ProgramType, CountType, FlagsType, BusType DEF TypeOK
  <2> QED
    BY <2>1, <2>2, EveryIoOk DEF Next
<1> QED
  BY <1>1, <1>2, PTL DEF Spec

-----------------------------------------------------------------------------
(* The channel served. *)

LEMMA OneGranted == \A c, d \in Granted : c = d
<1> SUFFICES ASSUME NEW c \in Requesting, NEW d \in Requesting, c # d, Before(c, d), Before(d, c)
             PROVE  FALSE
  BY DEF Granted
<1>1. c \in Channel /\ d \in Channel
  BY DEF Requesting
<1>2. c[2] \in Number /\ d[2] \in Number
  BY <1>1, ChannelParts
<1>3. CASE c[1] = d[1]
  BY <1>2, <1>3 DEF Before, Number
<1>4. CASE c[1] # d[1]
  BY <1>4 DEF Before
<1> QED
  BY <1>3, <1>4

\* A channel leaves its free state only when it is granted.
LEMMA BusyNext ==
    ASSUME TypeOK, NEW io, NEW taken \in BOOLEAN, NEW valid \in BOOLEAN,
           ChannelClock(io, taken, valid), NEW c \in Channel, state'[c] # 0
    PROVE  state[c] # 0 \/ c \in Granted
  BY DEF ChannelClock, NextState

LEMMA OneServedStep ==
    ASSUME TypeOK, OneServed, NEW io, NEW taken \in BOOLEAN, NEW valid \in BOOLEAN,
           ChannelClock(io, taken, valid)
    PROVE  OneServed'
<1> SUFFICES ASSUME NEW c \in Channel, NEW d \in Channel, state'[c] # 0, state'[d] # 0
             PROVE  c = d
  BY DEF OneServed, Busy
<1>1. (c \in Busy \/ c \in Granted) /\ (d \in Busy \/ d \in Granted)
  BY BusyNext DEF Busy
<1>2. CASE Busy = {}
  BY <1>1, <1>2, OneGranted
<1>3. CASE Busy # {}
  BY <1>1, <1>3 DEF Granted, OneServed
<1> QED
  BY <1>2, <1>3

-----------------------------------------------------------------------------
(* The end of the count. *)

\* A channel that counted out is masked, and free or about to be.
StopInv == \A c \in exhausted : state[c] \in {0, 5} /\ c[2] \in mask[c[1]]

LEMMA StopInvStep ==
    ASSUME TypeOK, StopInv, NEW io, IoOk(io), NEW taken \in BOOLEAN, NEW valid \in BOOLEAN,
           Clock(io, taken, valid)
    PROVE  StopInv'
<1> SUFFICES ASSUME NEW c \in exhausted'
             PROVE  state'[c] \in {0, 5} /\ c[2] \in mask'[c[1]]
  BY DEF StopInv
<1> DEFINE k == c[1]
<1>1. c \in Channel /\ k \in Controller /\ c[2] \in Number
  BY ChannelParts DEF TypeOK, Clock, History, Tc, Update
<1>2. c \in exhausted \/ (c \in Tc /\ ~auto[c])
  BY DEF Clock, History
<1>3. ~MaskWrite(io, k)
  BY DEF Clock, History
<1>4. mask'[k] = MaskAfterTc(k)
  BY <1>1, <1>3 DEF Clock, MaskClock, MaskWrite, Is
<1>5. c[2] \in mask'[k]
  <2>1. CASE c \in exhausted
    BY <2>1, <1>4 DEF StopInv, MaskAfterTc
  <2>2. CASE c \in Tc /\ ~auto[c]
    BY <2>2, <1>4 DEF MaskAfterTc, Of
  <2> QED
    BY <1>2, <2>1, <2>2
<1>6. state'[c] \in {0, 5}
  <2>1. state'[c] \in {0, NextState(c, taken, valid)}
    BY <1>1 DEF Clock, ChannelClock
  <2>2. CASE c \in exhausted
    <3>1. c \notin Granted
      BY <2>2 DEF StopInv, Granted, Requesting
    <3>2. NextState(c, taken, valid) = 0
      BY <3>1, <2>2 DEF StopInv, NextState
    <3> QED
      BY <2>1, <3>2
  <2>3. CASE c \in Tc
    BY <2>1, <2>3 DEF Tc, Update, NextState
  <2> QED
    BY <1>2, <2>1, <2>2, <2>3
<1> QED
  BY <1>5, <1>6

-----------------------------------------------------------------------------
(* A device is served only when it asks. *)

\* An acknowledge comes as the channel counts, unless its controller was
\* cleared in that clock: then nothing is pending, all is masked, and the I/O
\* bus makes no access for two clocks.
AckInv ==
    \A c \in ack : \/ state[c] = 4
                  \/ /\ state[c] = 0 /\ io_gap = 2
                     /\ pending[c[1]] = {} /\ c[2] \in mask[c[1]]

\* A sample older than the acknowledge is one clock old: the channel is not
\* free, or still masked by the clear.
SampleInv ==
    \A c \in Channel : c[2] \in pending[c[1]] =>
        \/ c \in wanted \cup soft
        \/ state[c] = 5
        \/ state[c] = 0 /\ io_gap = 1 /\ c[2] \in mask[c[1]]

\* A channel at work towards its acknowledge has a device that asks.
WorkInv == \A c \in Channel : state[c] \in {1, 2, 3, 6, 7} => c \in wanted \cup soft

LEMMA WantedStays ==
    ASSUME Devices, NEW c \in wanted, c \notin ack
    PROVE  c \in wanted'
  BY DEF Devices

LEMMA SoftStays ==
    ASSUME NEW io, History(io), NEW c \in soft, state[c] # 0 \/ c \in Granted
    PROVE  c \in soft'
  BY DEF History

LEMMA AckInvStep ==
    ASSUME TypeOK, NEW io, IoOk(io), NEW taken \in BOOLEAN, NEW valid \in BOOLEAN,
           Clock(io, taken, valid)
    PROVE  AckInv'
<1> SUFFICES ASSUME NEW c \in ack'
             PROVE  \/ state'[c] = 4
                    \/ /\ state'[c] = 0 /\ io_gap' = 2
                       /\ pending'[c[1]] = {} /\ c[2] \in mask'[c[1]]
  BY DEF AckInv
<1>1. /\ c \in Channel
      /\ \/ state[c] = 3 /\ valid
         \/ state[c] = 6 /\ taken
         \/ state[c] = 7
  BY DEF Clock, ChannelClock
<1>2. c[1] \in Controller /\ c[2] \in Number
  BY <1>1, ChannelParts
<1>3. NextState(c, taken, valid) = 4
  BY <1>1 DEF NextState
<1>4. CASE MasterClear(io, c)
  <2>1. Is(io, "clear", c[1]) /\ io # NoIo
    BY <1>4 DEF MasterClear, Is, NoIo
  <2>2. pending'[c[1]] = {} /\ mask'[c[1]] = Number
    BY <2>1, <1>2 DEF Clock, PendingClock, MaskClock, Is
  <2>3. state'[c] = 0 /\ io_gap' = 2
    BY <2>1, <1>1, <1>4 DEF Clock, ChannelClock
  <2> QED
    BY <2>2, <2>3, <1>2
<1>5. CASE ~MasterClear(io, c)
  BY <1>1, <1>3, <1>5 DEF Clock, ChannelClock
<1> QED
  BY <1>4, <1>5

LEMMA WorkInvStep ==
    ASSUME TypeOK, AckInv, SampleInv, WorkInv, NEW io, NEW taken \in BOOLEAN, NEW valid \in BOOLEAN,
           Clock(io, taken, valid)
    PROVE  WorkInv'
<1> SUFFICES ASSUME NEW c \in Channel, state'[c] \in {1, 2, 3, 6, 7}
             PROVE  c \in wanted' \cup soft'
  BY DEF WorkInv
<1>1. state'[c] = NextState(c, taken, valid)
  BY DEF Clock, ChannelClock
<1>2. state[c] \in 0 .. 7
  BY DEF TypeOK
<1>3. state[c] \in {1, 2, 3, 6} \/ (state[c] = 0 /\ c \in Granted)
  BY <1>1, <1>2 DEF NextState
<1>4. c \in wanted \cup soft /\ c \notin ack
  <2>1. CASE state[c] \in {1, 2, 3, 6}
    BY <2>1 DEF WorkInv, AckInv
  <2>2. CASE state[c] = 0 /\ c \in Granted
    <3>1. c[2] \in pending[c[1]] /\ c[2] \notin mask[c[1]]
      BY <2>2 DEF Granted, Requesting
    <3> QED
      BY <2>2, <3>1 DEF SampleInv, AckInv
  <2> QED
    BY <1>3, <2>1, <2>2
<1>5. state[c] # 0 \/ c \in Granted
  BY <1>3
<1> QED
  BY <1>4, <1>5, WantedStays, SoftStays DEF Clock

LEMMA SampleInvStep ==
    ASSUME TypeOK, AckInv, NEW io, IoOk(io), NEW taken \in BOOLEAN, NEW valid \in BOOLEAN,
           Clock(io, taken, valid)
    PROVE  SampleInv'
<1> SUFFICES ASSUME NEW c \in Channel, c[2] \in pending'[c[1]]
             PROVE  \/ c \in wanted' \cup soft'
                    \/ state'[c] = 5
                    \/ state'[c] = 0 /\ io_gap' = 1 /\ c[2] \in mask'[c[1]]
  BY DEF SampleInv
<1> DEFINE k == c[1]
<1>1. k \in Controller /\ c[2] \in Number /\ \A d \in Channel : d[1] = k /\ d[2] = c[2] => d = c
  BY ChannelParts
<1>2. ~Is(io, "clear", k)
  BY <1>1 DEF Clock, PendingClock, Is
<1>3. CASE Is(io, "request", k) \/ Is(io, "unrequest", k)
  BY <1>3 DEF Clock, History, Is
<1>4. CASE ~(Is(io, "request", k) \/ Is(io, "unrequest", k))
  <2>1. pending'[k] = RequestLines(k)
    BY <1>1, <1>2, <1>4 DEF Clock, PendingClock
  <2>2. PICK d \in wanted : d[1] = k /\ d[2] = c[2]
    BY <2>1 DEF RequestLines, Of
  <2>3. c \in wanted
    BY <2>2, <1>1 DEF TypeOK
  <2>4. CASE c \notin ack
    BY <2>3, <2>4, WantedStays DEF Clock
  <2>5. CASE c \in ack /\ state[c] = 4
    BY <2>5, <1>2 DEF Clock, ChannelClock, NextState, MasterClear
  <2>6. CASE c \in ack /\ state[c] # 4
    <3>1. state[c] = 0 /\ io_gap = 2 /\ pending[k] = {} /\ c[2] \in mask[k]
      BY <2>6 DEF AckInv
    <3>2. io = NoIo /\ io_gap' = 1
      BY <3>1 DEF Clock
    <3>3. mask'[k] = MaskAfterTc(k)
      BY <3>2, <1>1 DEF Clock, MaskClock, Is, NoIo
    <3>4. c \notin Granted
      BY <3>1 DEF Granted, Requesting
    <3>5. state'[c] = 0
      BY <3>1, <3>4 DEF Clock, ChannelClock, NextState
    <3> QED
      BY <3>1, <3>2, <3>3, <3>5 DEF MaskAfterTc
  <2> QED
    BY <2>4, <2>5, <2>6
<1> QED
  BY <1>3, <1>4

LEMMA ServedWhenAskedStep ==
    ASSUME TypeOK, AckInv, WorkInv, NEW io, NEW taken \in BOOLEAN, NEW valid \in BOOLEAN,
           Clock(io, taken, valid)
    PROVE  ServedWhenAsked'
<1> SUFFICES ASSUME NEW c \in ack' PROVE c \in wanted' \cup soft'
  BY DEF ServedWhenAsked
<1>1. c \in Channel /\ state[c] \in {3, 6, 7}
  BY DEF Clock, ChannelClock
<1>2. c \in wanted \cup soft /\ c \notin ack
  BY <1>1 DEF WorkInv, AckInv
<1> QED
  BY <1>1, <1>2, WantedStays, SoftStays DEF Clock

-----------------------------------------------------------------------------
(* The address on the bus. *)

\* From the clock after the grant until the channel has counted, the latch holds
\* its current address.
LatchInv ==
    \A c \in Busy \ rewritten : state[c] \in {2, 3, 4, 6, 7} => dma_address = current_address[c]

\* A channel at work that nobody writes keeps its page, and its address until
\* it counts.
LEMMA NotRewritten ==
    ASSUME NEW io, NEW taken, NEW valid, Clock(io, taken, valid),
           NEW c \in Channel, state[c] \notin {0, 4}, state'[c] # 0, c \notin rewritten'
    PROVE  c \in Busy \ rewritten /\ page'[c] = page[c] /\ current_address'[c] = current_address[c]
<1>1. c \notin rewritten /\ ~Writes(io, "address", c) /\ ~Writes(io, "page", c)
  BY DEF Clock, History
<1>2. c \in Busy /\ c \notin Update /\ c \notin Tc
  BY DEF Busy, Update, Tc
<1> QED
  BY <1>1, <1>2 DEF Clock, Program, Count

LEMMA LatchInvStep ==
    ASSUME TypeOK, OneServed, LatchInv, NEW io, NEW taken \in BOOLEAN, NEW valid \in BOOLEAN,
           Clock(io, taken, valid)
    PROVE  LatchInv'
<1> SUFFICES ASSUME NEW c \in Channel, c \notin rewritten', state'[c] \in {2, 3, 4, 6, 7}
             PROVE  dma_address' = current_address'[c]
  BY DEF LatchInv, Busy
<1>1. state'[c] = NextState(c, taken, valid) /\ state[c] \in 0 .. 7
  BY DEF Clock, ChannelClock, TypeOK
<1>2. state[c] \in {1, 2, 3, 6, 7}
  BY <1>1 DEF NextState
<1>3. c \in Busy \ rewritten /\ current_address'[c] = current_address[c]
  BY <1>2, NotRewritten
<1>4. dma_address' = IF state[c] = 1 THEN current_address[c] ELSE dma_address
  BY <1>3 DEF Clock, BusClock, OneServed
<1> QED
  BY <1>2, <1>3, <1>4 DEF LatchInv

LEMMA RightAddressStep ==
    ASSUME TypeOK, OneServed, LatchInv, NEW io, NEW taken \in BOOLEAN, NEW valid \in BOOLEAN,
           Clock(io, taken, valid)
    PROVE  RightAddress'
<1> SUFFICES ASSUME mem_read' \/ mem_write', NEW c \in Channel, state'[c] # 0, c \notin rewritten'
             PROVE  mem_address' = [page |-> page'[c], addr |-> current_address'[c]]
  BY DEF RightAddress, Busy
<1>1. PICK b \in Busy : state[b] \in {2, 6}
  BY DEF Clock, BusClock
<1>2. c = b
  <2>1. c \in Busy
    BY <1>1, BusyNext DEF Clock, Granted, Busy
  <2> QED
    BY <1>1, <2>1 DEF OneServed
<1>3. c \in Busy \ rewritten /\ page'[c] = page[c] /\ current_address'[c] = current_address[c]
  BY <1>1, <1>2, NotRewritten
<1>4. mem_address' = [page |-> page[c], addr |-> dma_address]
  BY <1>3 DEF Clock, BusClock, OneServed, ServedPage
<1> QED
  BY <1>1, <1>2, <1>3, <1>4 DEF LatchInv

-----------------------------------------------------------------------------
(* What the runs check. *)

DmaInv == /\ OneServed /\ StopInv /\ AckInv /\ SampleInv /\ WorkInv /\ ServedWhenAsked
          /\ LatchInv /\ RightAddress

LEMMA Inductive == Spec => []DmaInv
<1>1. Init => DmaInv
  <2> SUFFICES ASSUME Init PROVE DmaInv
    OBVIOUS
  <2>1. \A c \in Channel : state[c] = 0 /\ pending[c[1]] = {}
    BY ChannelParts DEF Init
  <2>2. Busy = {} /\ exhausted = {} /\ ack = {}
    BY <2>1 DEF Init, Busy
  <2>3. LatchInv /\ RightAddress
    <3>1. \A c \in Busy \ rewritten : FALSE
      BY <2>2
    <3> QED
      BY <3>1, Zenon DEF LatchInv, RightAddress
  <2> QED
    BY <2>1, <2>2, <2>3 DEF DmaInv, OneServed, StopInv, AckInv, SampleInv, WorkInv, ServedWhenAsked
<1>2. TypeOK /\ DmaInv /\ [Next]_vars => DmaInv'
  <2>1. ASSUME DmaInv, UNCHANGED vars PROVE DmaInv'
    BY <2>1 DEF DmaInv, OneServed, Busy, StopInv, AckInv, SampleInv, WorkInv, ServedWhenAsked,
                LatchInv, RightAddress, vars, progVars
  <2>2. ASSUME TypeOK, DmaInv, NEW io, IoOk(io), NEW taken \in BOOLEAN, NEW valid \in BOOLEAN,
               Clock(io, taken, valid)
        PROVE  DmaInv'
    BY <2>2, OneServedStep, StopInvStep, AckInvStep, SampleInvStep, WorkInvStep, ServedWhenAskedStep,
       LatchInvStep, RightAddressStep
       DEF DmaInv, Clock
  <2> QED
    BY <2>1, <2>2, EveryIoOk DEF Next
<1> QED
  BY <1>1, <1>2, TypeCorrect, PTL DEF Spec

\* Every transfer is one channel's, asked for by its device and not yet counted
\* out, whatever the processor writes to the controllers meanwhile (dma.v).
THEOREM DmaTransfersExact == Spec => []TransfersExact
<1>1. DmaInv => TransfersExact
  BY DEF DmaInv, TransfersExact, StopInv, StopsAtTc
<1> QED
  BY <1>1, Inductive, PTL

\* The bus is given the page and the current address of the channel that is
\* served (the latch of dma.v, a clock before the bus, two before the count).
THEOREM DmaRightAddress == Spec => []RightAddress
<1>1. DmaInv => RightAddress
  BY DEF DmaInv
<1> QED
  BY <1>1, Inductive, PTL
=============================================================================
