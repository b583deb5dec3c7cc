----------------------------- MODULE Board_proofs -----------------------------
(* Proofs about Board, for any menus of accesses, lengths of the counters and *)
(* probed addresses.                                                          *)
EXTENDS Board, SequenceTheorems, TLAPS

-----------------------------------------------------------------------------
(* Types. *)

LEMMA Nonempty == ASSUME NEW S, NEW s \in Seq(S) PROVE Len(s) \in Nat /\ (s = <<>> <=> Len(s) = 0)
BY EmptySeq, LenProperties

LEMMA BitType == \A v, w : Bit(v, w) \in BOOLEAN
BY DEF Bit

LEMMA AccessType ==
    ASSUME NEW m \in Menus, NEW a \in m
    PROVE  a.dir \in {"read", "write"} /\ a.port \in Port /\ a.bytes \in Seq(Byte) /\ a.bytes # <<>>
<1>1. a \in Access /\ Len(a.bytes) \in 1 .. 4
  BY IoBusAssumption
<1>2. a.dir \in {"read", "write"} /\ a.port \in Port /\ a.bytes \in Seq(Byte)
  BY <1>1 DEF Access
<1>3. Len(a.bytes) # 0
  BY <1>1
<1> QED
  BY <1>2, <1>3, Nonempty

LEMMA TailType ==
    ASSUME NEW S, NEW s \in Seq(S), s # <<>>, Len(s) # 1
    PROVE  Tail(s) \in Seq(S) /\ Tail(s) # <<>>
<1>1. Tail(s) \in Seq(S) /\ Len(Tail(s)) = Len(s) - 1
  BY HeadTailProperties
<1>2. Len(s) \in Nat
  BY Nonempty
<1>3. Len(Tail(s)) # 0
  BY <1>1, <1>2
<1> QED
  BY <1>1, <1>3, Nonempty

LEMMA ZeroPort == 0 \in Port
BY DEF Port, PortCount

LEMMA NextPort == ASSUME NEW n \in Port PROVE (n + 1) % PortCount \in Port
<1>1. PortCount \in Nat \ {0}
  BY DEF PortCount
<1> QED
  BY <1>1 DEF Port

LEMMA BusInitType == BusInit => BusTypeOK
BY ZeroPort, EmptySeq DEF BusInit, BusTypeOK

LEMMA BusType ==
    ASSUME BusTypeOK, NEW r \in BOOLEAN, BusClock(r)
    PROVE  BusTypeOK'
<1>1. menu \in Menus /\ bus_address \in Port /\ bytes \in Seq(Byte) /\ (bytes = <<>> <=> bus_state = "idle")
  BY DEF BusTypeOK
<1>2. menu' \in Menus
  BY <1>1 DEF BusClock
<1>3. CASE bus_state' = "idle" /\ bus_address' = 0 /\ bytes' = <<>>
  <2>1. 0 \in Port /\ <<>> \in Seq(Byte)
    BY ZeroPort, EmptySeq
  <2> QED
    BY <1>2, <1>3, <2>1 DEF BusTypeOK
<1>4. CASE UNCHANGED <<bus_state, bus_address, bytes>>
  BY <1>2, <1>4 DEF BusTypeOK
<1>5. CASE Started
  <2> PICK a \in menu : bus_state' = a.dir /\ bus_address' = a.port /\ bytes' = a.bytes
    BY <1>5 DEF Started
  <2> QED
    BY <1>1, <1>2, AccessType DEF BusTypeOK
<1>6. ASSUME NEW s \in {"read", "write"}, bus_state # "idle", NextByte(s)
      PROVE  BusTypeOK'
  <2>1. CASE Len(bytes) = 1
    BY <1>3, <1>6, <2>1 DEF NextByte
  <2>2. CASE Len(bytes) # 1
    <3>1. Tail(bytes) \in Seq(Byte) /\ Tail(bytes) # <<>>
      BY <1>1, <1>6, <2>2, TailType
    <3>2. bus_state' = s /\ bytes' = Tail(bytes) /\ bus_address' \in Port
      BY <1>1, <1>6, <2>2, NextPort DEF NextByte
    <3> QED
      BY <1>2, <3>1, <3>2 DEF BusTypeOK
  <2> QED
    BY <2>1, <2>2
<1>7. ASSUME bus_state # "idle", NEW s \in {"read_w", "read_chk", "write_w", "write_chk"}, BusTo(s)
      PROVE  BusTypeOK'
  BY <1>1, <1>2, <1>7 DEF BusTo, BusTypeOK
<1> QED
  BY <1>3, <1>4, <1>5, <1>6, <1>7 DEF BusClock

\* A strobed byte is a byte.
LEMMA DataType == BusTypeOK /\ BusWrite => Data \in Byte
<1> SUFFICES ASSUME BusTypeOK, BusWrite PROVE Data \in Byte
  OBVIOUS
<1> bytes \in Seq(Byte) /\ bytes # <<>>
  BY DEF BusTypeOK, BusWrite
<1> QED
  BY HeadTailProperties DEF Data

LEMMA ChipsetInitType == ChipsetInit => ChipsetTypeOK
<1> SUFFICES ASSUME ChipsetInit PROVE ChipsetTypeOK
  OBVIOUS
<1>1. 0 \in Byte /\ 1 \in Byte /\ 11 \in Byte /\ 41 \in Byte /\ 170 \in Byte /\ 222 \in Byte
  BY DEF Byte
<1>2. eced \in [EcedRegs -> Byte]
  BY <1>1 DEF ChipsetInit
<1>3. csc \in [{4, 68} -> Byte] /\ change_due \in [{4, 68} -> BOOLEAN]
  BY <1>1 DEF ChipsetInit
<1>4. last_reads \in Keys \X Keys \X Keys
  BY DEF ChipsetInit, Keys
<1>5. /\ scamp_gate \in BOOLEAN /\ block2_gate \in BOOLEAN /\ eced_gate \in BOOLEAN
      /\ font_enable \in BOOLEAN /\ lpt_strobe \in BOOLEAN /\ lpt_ack_pending \in BOOLEAN
      /\ lpt_status_read_d \in BOOLEAN /\ ack_due \in BOOLEAN
  BY DEF ChipsetInit
<1>6. /\ block2_unlock_step \in 0 .. 3 /\ eced_index \in 0 .. 63 /\ font_bank \in 0 .. 127
      /\ cfg23 \in Byte /\ block2 \in Byte /\ planar_control \in Byte /\ font_segment \in Byte
      /\ pcic_index \in Byte /\ ckpt_last \in Byte
  BY <1>1 DEF ChipsetInit
<1> QED
  BY <1>2, <1>3, <1>4, <1>5, <1>6 DEF ChipsetTypeOK

LEMMA GatesType == BusTypeOK /\ ChipsetTypeOK /\ GatesClock =>
    /\ scamp_gate' \in BOOLEAN /\ block2_gate' \in BOOLEAN /\ eced_gate' \in BOOLEAN
    /\ block2_unlock_step' \in 0 .. 3 /\ cfg23' \in Byte /\ block2' \in Byte
<1> SUFFICES ASSUME BusTypeOK, ChipsetTypeOK, GatesClock
             PROVE  /\ scamp_gate' \in BOOLEAN /\ block2_gate' \in BOOLEAN /\ eced_gate' \in BOOLEAN
                    /\ block2_unlock_step' \in 0 .. 3 /\ cfg23' \in Byte /\ block2' \in Byte
  OBVIOUS
<1>1. scamp_gate' \in BOOLEAN /\ block2_gate' \in BOOLEAN /\ eced_gate' \in BOOLEAN
  BY DEF GatesClock, ChipsetTypeOK
<1>2. block2_unlock_step' \in 0 .. 3
  BY DEF GatesClock, ChipsetTypeOK, UnlockStep
<1>3. cfg23' \in Byte /\ block2' \in Byte
  BY DataType DEF GatesClock, ChipsetTypeOK, Writes
<1> QED
  BY <1>1, <1>2, <1>3

LEMMA SteeringType == BusTypeOK /\ ChipsetTypeOK /\ SteeringClock =>
    /\ eced_index' \in 0 .. 63 /\ eced' \in [EcedRegs -> Byte]
    /\ planar_control' \in Byte
    /\ font_bank' \in 0 .. 127 /\ font_segment' \in Byte /\ font_enable' \in BOOLEAN
<1> SUFFICES ASSUME BusTypeOK, ChipsetTypeOK, SteeringClock
             PROVE  /\ eced_index' \in 0 .. 63 /\ eced' \in [EcedRegs -> Byte]
                    /\ planar_control' \in Byte
                    /\ font_bank' \in 0 .. 127 /\ font_segment' \in Byte
                    /\ font_enable' \in BOOLEAN
  OBVIOUS
<1>1. ASSUME NEW v \in Byte PROVE v % 64 \in 0 .. 63 /\ v % 128 \in 0 .. 127
  BY DEF Byte
<1>2. eced' \in [EcedRegs -> Byte]
  BY DataType DEF SteeringClock, ChipsetTypeOK, Writes
<1>3. eced_index' \in 0 .. 63 /\ font_bank' \in 0 .. 127
  BY <1>1, DataType DEF SteeringClock, ChipsetTypeOK, Writes
<1>4. planar_control' \in Byte /\ font_segment' \in Byte
  BY DataType DEF SteeringClock, ChipsetTypeOK, Writes
<1>5. font_enable' \in BOOLEAN
  BY BitType DEF SteeringClock, ChipsetTypeOK
<1> QED
  BY <1>2, <1>3, <1>4, <1>5

LEMMA PrinterType == ChipsetTypeOK /\ PrinterClock =>
    lpt_strobe' \in BOOLEAN /\ lpt_ack_pending' \in BOOLEAN /\ lpt_status_read_d' \in BOOLEAN
BY ZenonT(30) DEF PrinterClock, ChipsetTypeOK, Reads, Writes, BusRead, BusWrite, Bit, AckTaken

LEMMA CardType == BusTypeOK /\ ChipsetTypeOK /\ CardClock =>
    pcic_index' \in Byte /\ csc' \in [{4, 68} -> Byte]
<1> SUFFICES ASSUME BusTypeOK, ChipsetTypeOK, CardClock
             PROVE  pcic_index' \in Byte /\ csc' \in [{4, 68} -> Byte]
  OBVIOUS
<1>1. ASSUME NEW v \in Byte, ~Bit(v, 8) PROVE v + 8 \in Byte
  BY <1>1 DEF Bit, Byte
<1>2. Latch \in {4, 68} /\ csc[Latch] \in Byte
  BY DEF Latch, ChipsetTypeOK
<1>3. csc \in [{4, 68} -> Byte]
  BY DEF ChipsetTypeOK
<1>4. pcic_index' \in Byte
  BY DataType DEF CardClock, ChipsetTypeOK, Writes
<1>5. ASSUME NEW s \in {4, 68} PROVE csc'[s] \in Byte
  <2>1. csc[s] \in Byte
    BY <1>3
  <2>2. Writes(CardData) => Data \in Byte
    BY DataType DEF Writes
  <2>3. \/ csc'[s] = 0 \/ csc'[s] = csc[s]
        \/ Writes(CardData) /\ csc'[s] = Data
        \/ ~Bit(csc[s], 8) /\ csc'[s] = csc[s] + 8
    BY <1>3 DEF CardClock
  <2>4. 0 \in Byte
    BY DEF Byte
  <2> QED
    BY <1>1, <2>1, <2>2, <2>3, <2>4
<1>6. csc' \in [{4, 68} -> Byte]
  BY <1>3, <1>5 DEF CardClock
<1> QED
  BY <1>4, <1>6

LEMMA HistoryType == BusTypeOK /\ ChipsetTypeOK /\ History =>
    /\ last_reads' \in Keys \X Keys \X Keys
    /\ ack_due' \in BOOLEAN /\ change_due' \in [{4, 68} -> BOOLEAN]
<1> SUFFICES ASSUME BusTypeOK, ChipsetTypeOK, History
             PROVE  /\ last_reads' \in Keys \X Keys \X Keys
                    /\ ack_due' \in BOOLEAN /\ change_due' \in [{4, 68} -> BOOLEAN]
  OBVIOUS
<1>1. Key(bus_address) \in Keys
  BY DEF Key, Keys
<1>2. last_reads' \in Keys \X Keys \X Keys
  BY <1>1 DEF History, ChipsetTypeOK
<1>3. ack_due' \in BOOLEAN
  BY DEF History, ChipsetTypeOK
<1>4. change_due' \in [{4, 68} -> BOOLEAN]
  BY DEF History, ChipsetTypeOK
<1> QED
  BY <1>2, <1>3, <1>4

LEMMA ChipsetType ==
    ASSUME BusTypeOK, ChipsetTypeOK, NEW r \in BOOLEAN, ChipsetClock(r)
    PROVE  ChipsetTypeOK'
<1>1. CASE ChipsetReset
  <2>1. 0 \in Byte /\ 1 \in Byte /\ 222 \in Byte
    BY DEF Byte
  <2>2. /\ block2' \in Byte /\ eced' \in [EcedRegs -> Byte] /\ csc' \in [{4, 68} -> Byte]
        /\ last_reads' \in Keys \X Keys \X Keys /\ change_due' \in [{4, 68} -> BOOLEAN]
    BY <1>1 DEF ChipsetReset, ChipsetTypeOK
  <2>3. /\ block2_unlock_step' = 0 /\ cfg23' = 1 /\ eced_index' = 0 /\ planar_control' = 0
        /\ font_bank' = 0 /\ font_segment' = 222 /\ pcic_index' = 0 /\ ckpt_last' = 0
    BY <1>1 DEF ChipsetReset, PlanarAtReset
  <2>4. /\ scamp_gate' \in BOOLEAN /\ block2_gate' \in BOOLEAN /\ eced_gate' \in BOOLEAN
        /\ font_enable' \in BOOLEAN /\ lpt_strobe' \in BOOLEAN /\ lpt_ack_pending' \in BOOLEAN
        /\ lpt_status_read_d' \in BOOLEAN /\ ack_due' \in BOOLEAN
    BY <1>1 DEF ChipsetReset
  <2> QED
    BY <2>1, <2>2, <2>3, <2>4 DEF ChipsetTypeOK
<1>2. CASE GatesClock /\ SteeringClock /\ PrinterClock /\ CardClock
           /\ ckpt_last' = Checkpoint /\ History
  <2>1. ckpt_last' \in Byte
    BY <1>2, DataType DEF Checkpoint, ChipsetTypeOK, Writes
  <2> QED
    BY <1>2, <2>1, GatesType, SteeringType, PrinterType, CardType, HistoryType
    DEF ChipsetTypeOK
<1> QED
  BY <1>1, <1>2 DEF ChipsetClock

LEMMA InitType == Init => TypeOK
<1> SUFFICES ASSUME Init PROVE TypeOK
  OBVIOUS
<1>1. BusTypeOK /\ ChipsetTypeOK
  BY BusInitType, ChipsetInitType DEF Init
<1>2. setup_cnt \in 0 .. SetupWindow /\ rst_cnt \in 0 .. ResetLength
  BY BoardAssumption DEF Init
<1>3. 0 \in 0 .. 127
  OBVIOUS
<1> QED
  BY <1>1, <1>2, <1>3 DEF Init, TypeOK

LEMMA RequestType ==
    ASSUME TypeOK, NEW press, RequestClock(press)
    PROVE  /\ ram_option' \in RamOptions /\ old_ram_option' \in RamOptions
           /\ setup_cnt' \in 0 .. SetupWindow /\ rst_cnt' \in 0 .. ResetLength
           /\ bios_setup_req' \in BOOLEAN /\ menu_reset' \in BOOLEAN /\ reset' \in BOOLEAN
<1>1. /\ setup_cnt \in 0 .. SetupWindow /\ rst_cnt \in 0 .. ResetLength
      /\ ram_option \in RamOptions /\ old_ram_option \in RamOptions /\ menu_reset \in BOOLEAN
  BY DEF TypeOK
<1>2. /\ SetupWindow \in Nat /\ ResetLength \in Nat
  BY BoardAssumption
<1>3. setup_cnt' \in 0 .. SetupWindow
  BY <1>1, <1>2 DEF RequestClock, SetupCount, CountDown
<1>4. rst_cnt' \in 0 .. ResetLength
  BY <1>1, <1>2 DEF RequestClock, CountDown
<1> QED
  BY <1>1, <1>3, <1>4 DEF RequestClock

LEMMA CmosType ==
    ASSUME TypeOK, CmosClock
    PROVE  ram_address' \in 0 .. 127 /\ setup_ack' \in BOOLEAN /\ setup_bit' \in BOOLEAN
<1>1. ASSUME NEW v \in Byte PROVE v % 128 \in 0 .. 127
  BY DEF Byte
<1>2. BusTypeOK /\ ram_address \in 0 .. 127 /\ bios_setup_req \in BOOLEAN
  BY DEF TypeOK
<1>3. Writes(CmosIndex) => Data \in Byte
  BY <1>2, DataType DEF Writes
<1>4. ram_address' \in 0 .. 127
  BY <1>1, <1>2, <1>3 DEF CmosClock
<1> QED
  BY <1>2, <1>4 DEF CmosClock

LEMMA NextType == TypeOK /\ [Next]_vars => TypeOK'
<1>1. ASSUME TypeOK, NEW press, Clock(press) PROVE TypeOK'
  <2>1. BusTypeOK /\ ChipsetTypeOK /\ reset \in BOOLEAN /\ told \in BOOLEAN /\ asked \in BOOLEAN
    BY <1>1 DEF TypeOK
  <2>2. BusTypeOK'
    BY <1>1, <2>1, BusType DEF Clock
  <2>3. ChipsetTypeOK'
    BY <1>1, <2>1, ChipsetType DEF Clock
  <2>4. shr_rgn_en' \in BOOLEAN
    BY <1>1 DEF Clock, SharedClock
  <2>5. asked' \in BOOLEAN /\ told' \in BOOLEAN
    BY <1>1, <2>1 DEF Clock, SetupHistory
  <2> QED
    BY <1>1, <2>2, <2>3, <2>4, <2>5, RequestType, CmosType DEF Clock, TypeOK
<1>2. ASSUME TypeOK, UNCHANGED vars PROVE TypeOK'
  BY <1>2 DEF TypeOK, BusTypeOK, ChipsetTypeOK, vars, bus_vars, chipset_vars, gates, steering,
              printer, card, history, request, cmos
<1> QED
  BY <1>1, <1>2 DEF Next

\* The registers and counters of the board keep their widths, whatever the
\* program does and whenever the menu is used.
THEOREM BoardTypeCorrect == Spec => []TypeOK
<1> QED
  BY InitType, NextType, PTL DEF Spec

-----------------------------------------------------------------------------
(* The memory map. *)

\* What the rules of the decode need to know of the board.
LEMMA MapType ==
    ASSUME TypeOK
    PROVE  /\ \A b \in Probes : b \in Nat /\ Low26(b) = b
           /\ M.romset = eced[12] /\ M.dram_cfg0 = eced[2]
           /\ M.easysetup = EasySetupRemap
           /\ M.font_segment \in Byte /\ M.font_bank \in 0 .. 127
           /\ M.shared = shr_rgn_en /\ M.ram_option \in 0 .. 3
<1>1. ASSUME NEW b \in Probes PROVE b \in Nat /\ Low26(b) = b
  <2>1. b \in 0 .. Wrap - 1
    BY BoardAssumption
  <2>2. Wrap \in Nat
    BY DEF Wrap
  <2>3. b \in Nat /\ b < Wrap
    BY <2>1, <2>2
  <2> QED
    BY <2>3 DEF Low26, Wrap
<1>2. ram_option \in 0 .. 3 /\ font_segment \in Byte /\ font_bank \in 0 .. 127
  BY BoardAssumption DEF TypeOK, ChipsetTypeOK
<1> QED
  BY <1>1, <1>2 DEF M, Board

\* The font window is below 1 MiB, wherever the program puts it.
LEMMA FontLow ==
    ASSUME TypeOK, NEW b \in Nat, FontRegion(b, M)
    PROVE  b < Extended
<1>1. M.font_segment \in 0 .. 255
  BY MapType DEF Byte
<1> QED
  BY <1>1 DEF FontRegion, Extended

\* No read or write above 1 MiB goes astray: see the property.
LEMMA AlwaysExtendedStraight == Spec => []ExtendedStraight
<1>1. TypeOK => ExtendedStraight
  <2> SUFFICES ASSUME TypeOK, NEW b \in Probes, b >= Extended, Responds(b, M)
               PROVE  Cell(b, M) = b /\ b < RamLimit(M)
    BY DEF ExtendedStraight
  <2>1. b \in Nat /\ Low26(b) = b /\ M.ram_option \in 0 .. 3
    BY MapType
  <2>2. ~FontRegion(b, M)
    BY <2>1, FontLow DEF Extended
  <2>3. Cell(b, M) = b
    BY <2>1, <2>2 DEF Cell, Address, Folded, RomAddress, EasySetupAlias, VgaRomAlias, Within,
                      Extended, VgaMemory, FlashTop, UpperMem
  <2>4. Planar <= RamLimit(M)
    BY <2>1 DEF RamLimit, Planar
  <2>5. b < Planar \/ b < RamLimit(M)
    BY <2>1, <2>2 DEF Responds, UpperRegion, Within, UpperMem, Extended
  <2>6. RamLimit(M) \in Nat
    BY <2>1 DEF RamLimit, Planar
  <2> QED
    BY <2>1, <2>3, <2>4, <2>5, <2>6 DEF Planar
<1> QED
  BY <1>1, BoardTypeCorrect, PTL

\* The Easy-Setup stub reads its module whatever ROMSET says: the order of
\* the two aliases.
LEMMA AlwaysStubReadsModule == Spec => []StubReadsModule
<1>1. TypeOK => StubReadsModule
  <2> SUFFICES ASSUME TypeOK, EasySetupRemap,
                      NEW b \in Probes, Within(b, FlashTop, 128), ~FontRegion(b, M)
               PROVE  Cell(b, M) = b - 128
    BY DEF StubReadsModule, EasySetupRemap
  <2>1. b \in Nat /\ M.easysetup
    BY MapType
  <2> QED
    BY <2>1 DEF Cell, Address, Folded, RomAddress, EasySetupAlias, Within, VgaMemory, FlashTop
<1> QED
  BY <1>1, BoardTypeCorrect, PTL

\* What is written to the module's copy is addressed to it.
LEMMA AlwaysNoStrayWrites == Spec => []NoStrayWrites
<1>1. TypeOK => NoStrayWrites
  <2> SUFFICES ASSUME TypeOK, eced[12] = 25, ~EasySetupRemap,
                      NEW b \in Probes, Writable(b, M), Within(Cell(b, M), UpperMem, 128)
               PROVE  Cell(b, M) = b /\ Within(b, 880, 16)
    BY DEF NoStrayWrites, NormalDecode, EasySetupRemap
  <2>1. b \in Nat /\ Low26(b) = b /\ M.romset = 25 /\ ~M.easysetup /\ M.font_bank \in 0 .. 127
    BY MapType
  <2>2. CASE FontRegion(b, M)
    <3>1. Cell(b, M) >= FontImage
      BY <2>1, <2>2 DEF Cell, FontImage
    <3> QED
      BY <2>1, <2>2, <3>1 DEF Cell, Within, UpperMem, FontImage
  <2>3. CASE ~FontRegion(b, M)
    <3>1. Cell(b, M) = Address(b, M) /\ ~OpenFrame(b, M)
      BY <2>3 DEF Cell, Writable, Responds
    <3>2. CASE b < VgaMemory
      <4>1. RomAddress(b, M) = b
        BY <2>1, <3>2 DEF RomAddress, EasySetupAlias, VgaRomAlias, Within, VgaMemory, UpperMem
      <4>2. b - (b % 8) <= b /\ b - (b % 8) \in Int
        BY <2>1
      <4> QED
        BY <2>1, <3>1, <3>2, <4>1, <4>2 DEF Address, Within, VgaMemory, UpperMem
    <3>3. CASE b >= VgaMemory
      <4>1. Cell(b, M) = RomAddress(b, M)
        BY <2>1, <3>1, <3>3 DEF Address, Folded, VgaMemory
      <4>2. RomAddress(b, M) = IF Within(b, UpperMem, 64) THEN b + 128 ELSE b
        BY <2>1 DEF RomAddress, EasySetupAlias, VgaRomAlias
      <4>3. Within(b, PageFrame, 64) => Within(b, SharedWindow, 8)
        BY <2>1, <3>1 DEF OpenFrame, SharedRegion
      <4> QED
        BY <2>1, <4>1, <4>2, <4>3 DEF Within, UpperMem, PageFrame, SharedWindow
    <3> QED
      BY <2>1, <3>2, <3>3 DEF VgaMemory
  <2> QED
    BY <2>2, <2>3
<1> QED
  BY <1>1, BoardTypeCorrect, PTL

-----------------------------------------------------------------------------
(* The registers. *)

\* The sampling of a read is the clock after its strobe, if no reset comes.
LEMMA SampleAfterStrobe ==
    ASSUME BusTypeOK, NEW r \in BOOLEAN, NEW p, BusClock(r)
    PROVE  Samples(p)' <=> Reads(p) /\ ~r
<1>1. CASE r
  BY <1>1 DEF BusClock, Samples
<1>2. CASE ~r /\ bus_state = "read_w"
  BY <1>2 DEF BusClock, Samples, Reads, BusRead, BusTo, Started, NextByte
<1>3. CASE ~r /\ bus_state # "read_w"
  <2>1. bus_state' # "read_chk"
    <3>1. CASE Started
      <4>1. menu \in Menus
        BY DEF BusTypeOK
      <4>2. bus_state' \in {"read", "write"}
        BY <3>1, <4>1, AccessType DEF Started
      <4> QED
        BY <4>2
    <3>2. CASE ~Started
      BY <1>3, <3>2 DEF BusClock, BusTo, NextByte
    <3> QED
      BY <3>1, <3>2
  <2> QED
    BY <1>3, <2>1 DEF Samples, Reads, BusRead
<1> QED
  BY <1>1, <1>2, <1>3

\* The latch and the history rise and fall together, because the read is over
\* for the latch just when the bus samples it.
AckInv ==
    /\ lpt_ack_pending <=> ack_due
    /\ lpt_status_read_d <=> Samples(LptStatus)

\* A printer acknowledge is sampled once: see the property.
THEOREM BoardAckSeen == Spec => []AckSeen
<1>1. Init => AckInv
  BY DEF Init, BusInit, ChipsetInit, AckInv, Samples
<1>2. TypeOK /\ AckInv /\ [Next]_vars => AckInv'
  <2>1. ASSUME TypeOK, AckInv, NEW press, Clock(press) PROVE AckInv'
    <3>1. BusTypeOK /\ reset \in BOOLEAN /\ BusClock(reset) /\ ChipsetClock(reset)
      BY <2>1 DEF TypeOK, Clock
    <3>2. Samples(LptStatus)' <=> Reads(LptStatus) /\ ~reset
      BY <3>1, SampleAfterStrobe
    <3>3. CASE reset
      BY <3>1, <3>2, <3>3 DEF ChipsetClock, ChipsetReset, AckInv
    <3>4. CASE ~reset
      <4>1. PrinterClock /\ History
        BY <3>1, <3>4 DEF ChipsetClock
      <4>2. AckTaken <=> Samples(LptStatus)
        BY <2>1 DEF AckInv, AckTaken, Samples, Reads, BusRead
      <4>3. lpt_status_read_d' <=> Samples(LptStatus)'
        BY <3>2, <3>4, <4>1 DEF PrinterClock
      <4>4. lpt_ack_pending' <=> ack_due'
        BY <2>1, <4>1, <4>2 DEF PrinterClock, History, AckInv
      <4> QED
        BY <4>3, <4>4 DEF AckInv
    <3> QED
      BY <3>3, <3>4
  <2>2. ASSUME AckInv, UNCHANGED vars PROVE AckInv'
    BY <2>2 DEF AckInv, Samples, vars, bus_vars, chipset_vars, printer, history
  <2> QED
    BY <2>1, <2>2 DEF Next
<1>3. AckInv => AckSeen
  BY DEF AckInv, AckSeen
<1> QED
  BY <1>1, <1>2, <1>3, BoardTypeCorrect, PTL DEF Spec

\* The step of the unlock counts the keys at the end of the reads so far.
UnlockInv ==
    /\ block2_unlock_step = 1 => last_reads[3] = Key1
    /\ block2_unlock_step = 2 => last_reads[2] = Key1 /\ last_reads[3] = Key2
    /\ block2_unlock_step = 3 =>
           last_reads[1] = Key1 /\ last_reads[2] = Key2 /\ last_reads[3] = Key3

\* Bank 2 opens only by its four reads in a row: see the property.
THEOREM BoardUnlockExact == Spec => UnlockExact
<1>1. Init => UnlockInv
  BY DEF Init, ChipsetInit, UnlockInv
<1>2. TypeOK /\ UnlockInv /\ [Next]_vars => UnlockInv'
  <2>1. ASSUME TypeOK, UnlockInv, NEW press, Clock(press) PROVE UnlockInv'
    <3>1. ChipsetClock(reset)
      BY <2>1 DEF Clock
    <3>2. CASE ChipsetReset
      BY <3>2 DEF ChipsetReset, UnlockInv
    <3>3. CASE GatesClock /\ History /\ ~BusRead
      BY <2>1, <3>3 DEF GatesClock, History, UnlockInv
    <3>4. CASE GatesClock /\ History /\ BusRead
      <4>1. /\ block2_unlock_step' = UnlockStep(block2_unlock_step, bus_address)
            /\ last_reads' = <<last_reads[2], last_reads[3], Key(bus_address)>>
        BY <3>4 DEF GatesClock, History
      <4>2. Key(Key1) = Key1 /\ Key(Key2) = Key2 /\ Key(Key3) = Key3
        BY DEF Key, Keys
      <4>3. last_reads'[1] = last_reads[2] /\ last_reads'[2] = last_reads[3]
            /\ last_reads'[3] = Key(bus_address)
        BY <4>1
      <4> QED
        BY <2>1, <4>1, <4>2, <4>3 DEF UnlockStep, UnlockInv
    <3> QED
      BY <3>1, <3>2, <3>3, <3>4 DEF ChipsetClock
  <2>2. ASSUME UnlockInv, UNCHANGED vars PROVE UnlockInv'
    BY <2>2 DEF UnlockInv, vars, chipset_vars, gates, history
  <2> QED
    BY <2>1, <2>2 DEF Next
<1>3. TypeOK /\ UnlockInv /\ [Next]_vars =>
          [~block2_gate /\ block2_gate' => last_reads = <<Key1, Key2, Key3>> /\ Reads(35)]_vars
  <2>1. ASSUME TypeOK, UnlockInv, NEW press, Clock(press), ~block2_gate, block2_gate'
        PROVE  last_reads = <<Key1, Key2, Key3>> /\ Reads(35)
    <3>1. Reads(35) /\ block2_unlock_step = 3
      BY <2>1 DEF Clock, ChipsetClock, ChipsetReset, GatesClock
    <3>2. last_reads \in Keys \X Keys \X Keys
      BY <2>1 DEF TypeOK, ChipsetTypeOK
    <3>3. last_reads[1] = Key1 /\ last_reads[2] = Key2 /\ last_reads[3] = Key3
      BY <2>1, <3>1 DEF UnlockInv
    <3> QED
      BY <3>1, <3>2, <3>3
  <2> QED
    BY <2>1 DEF Next
<1> QED
  BY <1>1, <1>2, <1>3, BoardTypeCorrect, PTL DEF Spec, UnlockExact

-----------------------------------------------------------------------------
(* The setup request. *)

\* With nothing asked, no request is left: the counter is clear, what is late
\* of it cannot meet the strobe of a read, and no setup bit is being sampled.
\* And a setup bit that is sampled was acknowledged in the same clock.
SetupInv ==
    /\ ~asked => /\ setup_cnt = 0
                 /\ bios_setup_req => bus_state \in {"idle", "read"}
                 /\ setup_bit => bus_state # "read_chk"
    /\ Samples(CmosData) /\ ram_address = SetupByte /\ setup_bit => setup_ack

LEMMA CheckpointWindow == TypeOK => (CkptBoot <=> ckpt_last \in BootDecision)
<1> SUFFICES ASSUME TypeOK PROVE CkptBoot <=> ckpt_last \in BootDecision
  OBVIOUS
<1>1. ckpt_last \in Nat
  BY DEF TypeOK, ChipsetTypeOK, Byte
<1> QED
  BY <1>1 DEF CkptBoot, BootDecision

\* The bus state after a state, for the states that matter here.
LEMMA BusAfter ==
    ASSUME BusTypeOK, NEW r \in BOOLEAN, BusClock(r)
    PROVE  /\ bus_state = "read_chk" => bus_state' \in {"idle", "read"}
           /\ bus_state \in {"idle", "read"} => bus_state' # "read_chk"
<1>1. Started => bus_state' \in {"read", "write"}
  BY AccessType DEF BusTypeOK, Started
<1> QED
  BY <1>1 DEF BusClock, BusTo, NextByte, Started

LEMMA SetupInvStep ==
    ASSUME TypeOK, SetupInv, NEW press, Clock(press)
    PROVE  SetupInv'
<1>1. /\ BusTypeOK /\ reset \in BOOLEAN /\ BusClock(reset)
      /\ RequestClock(press) /\ CmosClock /\ SetupHistory(press)
  BY DEF TypeOK, Clock
<1>2. Samples(CmosData)' /\ setup_bit' => setup_ack'
  <2>1. Samples(CmosData)' => Reads(CmosData) /\ ~reset
    BY <1>1, SampleAfterStrobe
  <2> QED
    BY <1>1, <2>1 DEF CmosClock, ReadsSetupByte
<1>3. ASSUME ~asked' PROVE setup_cnt' = 0 /\ (bios_setup_req' => bus_state' \in {"idle", "read"})
                           /\ (setup_bit' => bus_state' # "read_chk")
  <2>1. press \notin {"setup", "f1"} /\ (~asked \/ BootTold)
    BY <1>1, <1>3 DEF SetupHistory
  <2>2. CASE ~asked
    <3>1. setup_cnt = 0 /\ (bios_setup_req => bus_state \in {"idle", "read"})
      BY <2>2 DEF SetupInv
    <3>2. setup_cnt' = 0
      BY <1>1, <2>1, <3>1 DEF RequestClock, SetupCount, Requested, CountDown
    <3>3. ~bios_setup_req'
      BY <1>1, <3>1 DEF RequestClock
    <3>4. setup_bit' => bus_state' # "read_chk"
      BY <1>1, <3>1, BusAfter DEF CmosClock
    <3> QED
      BY <3>2, <3>3, <3>4
  <2>3. CASE BootTold
    <3>1. bus_state = "read_chk" /\ setup_ack /\ CkptBoot
      BY <2>3, CheckpointWindow DEF BootTold, SetupInv, Samples
    <3>2. setup_cnt' = 0
      BY <1>1, <3>1 DEF RequestClock, SetupCount, Acknowledged
    <3>3. bus_state' \in {"idle", "read"}
      BY <1>1, <3>1, BusAfter
    <3> QED
      BY <3>2, <3>3
  <2> QED
    BY <2>1, <2>2, <2>3
<1> QED
  BY <1>2, <1>3 DEF SetupInv

\* The BIOS is told to enter setup only when that was asked for since it was
\* last told.
LEMMA AlwaysSetupOnce == Spec => []SetupOnce
<1>1. Init => SetupInv
  BY DEF Init, BusInit, SetupInv, Samples
<1>2. TypeOK /\ SetupInv /\ [Next]_vars => SetupInv'
  <2>1. ASSUME SetupInv, UNCHANGED vars PROVE SetupInv'
    BY <2>1 DEF SetupInv, Samples, vars, bus_vars, request, cmos
  <2> QED
    BY <2>1, SetupInvStep DEF Next
<1>3. SetupInv => SetupOnce
  BY DEF SetupInv, SetupOnce, BootTold, Samples
<1> QED
  BY <1>1, <1>2, <1>3, BoardTypeCorrect, PTL DEF Spec

\* An acknowledge that counts was given at the boot decision: the checkpoint
\* cannot change in the clock of the read.
ToldInv == setup_ack /\ CkptBoot => told

\* A request ends early only because the BIOS was told: see the property.
LEMMA AlwaysSetupNotLost == Spec => [][SetupNotLost]_vars
<1>1. Init => ToldInv
  BY DEF Init, ToldInv
<1>2. TypeOK /\ ToldInv /\ [Next]_vars => ToldInv'
  <2>1. ASSUME TypeOK, NEW press, Clock(press) PROVE ToldInv'
    <3> SUFFICES ASSUME setup_ack', CkptBoot' PROVE told'
      BY DEF ToldInv
    <3>1. ~reset /\ ReadsSetupByte /\ bios_setup_req
      BY <2>1 DEF Clock, CmosClock
    <3>2. ckpt_last' = ckpt_last
      BY <2>1, <3>1 DEF Clock, ChipsetClock, Checkpoint, ReadsSetupByte, Reads, Writes,
                        BusRead, BusWrite
    <3>3. CkptBoot
      BY <3>2 DEF CkptBoot
    <3> QED
      BY <2>1, <3>1, <3>3, CheckpointWindow DEF Clock, SetupHistory, ReadsSetupByte
  <2>2. ASSUME ToldInv, UNCHANGED vars PROVE ToldInv'
    BY <2>2 DEF ToldInv, CkptBoot, vars, chipset_vars, cmos
  <2> QED
    BY <2>1, <2>2 DEF Next
<1>3. TypeOK /\ ToldInv /\ [Next]_vars => [SetupNotLost]_vars
  <2>1. ASSUME TypeOK, ToldInv, NEW press, Clock(press), setup_cnt > 1, setup_cnt' = 0
        PROVE  told
    <3>1. setup_cnt \in Nat /\ SetupWindow \in Nat /\ SetupWindow > 0
      BY <2>1, BoardAssumption DEF TypeOK
    <3>2. setup_cnt' = SetupCount(press)
      BY <2>1 DEF Clock, RequestClock
    <3>3. Acknowledged
      BY <2>1, <3>1, <3>2 DEF SetupCount, CountDown
    <3> QED
      BY <2>1, <3>3 DEF Acknowledged, ToldInv
  <2> QED
    BY <2>1 DEF Next, SetupNotLost
<1> QED
  BY <1>1, <1>2, <1>3, BoardTypeCorrect, PTL DEF Spec

-----------------------------------------------------------------------------
(* The reset. *)

\* The reset follows its counter by two clocks, and a clock later the board's
\* registers have been set.
ResetInv ==
    /\ 0 < rst_cnt /\ rst_cnt < ResetLength => menu_reset
    /\ 0 < rst_cnt /\ rst_cnt < ResetLength - 1 => reset
    /\ ResetLength > 2 /\ rst_cnt = 0 /\ menu_reset => reset
    /\ reset /\ rst_cnt < ResetLength - 2 => planar_control = 0 /\ font_segment = 222

LEMMA ResetInvStep ==
    ASSUME TypeOK, ResetInv, NEW press, Clock(press)
    PROVE  ResetInv'
<1>1. ResetLength \in Nat \ {0} /\ rst_cnt \in 0 .. ResetLength /\ menu_reset \in BOOLEAN
  BY BoardAssumption DEF TypeOK
<1>2. /\ menu_reset' <=> rst_cnt # 0
      /\ reset' <=> menu_reset
      /\ rst_cnt' = ResetLength \/ rst_cnt' = CountDown(rst_cnt)
  BY DEF Clock, RequestClock
<1>3. reset => planar_control' = 0 /\ font_segment' = 222
  BY DEF Clock, ChipsetClock, ChipsetReset, PlanarAtReset
<1>4. CASE rst_cnt' = ResetLength
  <2>1. /\ rst_cnt' # 0 /\ ~(rst_cnt' < ResetLength)
        /\ ~(rst_cnt' < ResetLength - 1) /\ ~(rst_cnt' < ResetLength - 2)
    BY <1>1, <1>4
  <2> QED
    BY <2>1 DEF ResetInv
<1>5. CASE rst_cnt > 0 /\ rst_cnt' = rst_cnt - 1
  <2>1. menu_reset'
    BY <1>1, <1>2, <1>5
  <2>2. rst_cnt < ResetLength => reset'
    BY <1>1, <1>2, <1>5 DEF ResetInv
  <2>3. /\ rst_cnt' < ResetLength - 1 => rst_cnt < ResetLength
        /\ ResetLength > 2 /\ rst_cnt' = 0 => rst_cnt < ResetLength
        /\ rst_cnt' < ResetLength - 2 => rst_cnt < ResetLength - 1
    BY <1>1, <1>5
  <2>4. rst_cnt < ResetLength - 1 => reset
    BY <1>1, <1>5 DEF ResetInv
  <2> QED
    BY <1>3, <2>1, <2>2, <2>3, <2>4 DEF ResetInv
<1>6. CASE rst_cnt = 0 /\ rst_cnt' = 0
  BY <1>1, <1>2, <1>3, <1>6 DEF ResetInv
<1> QED
  BY <1>1, <1>2, <1>4, <1>5, <1>6 DEF CountDown

\* After a reset the BIOS is at the reset vector: see the property.
LEMMA AlwaysResetFindsBios == Spec => []ResetFindsBios
<1>1. Init => ResetInv
  BY BoardAssumption DEF Init, ResetInv
<1>2. TypeOK /\ ResetInv /\ [Next]_vars => ResetInv'
  <2>1. ASSUME ResetInv, UNCHANGED vars PROVE ResetInv'
    BY <2>1 DEF ResetInv, vars, request, chipset_vars, steering
  <2> QED
    BY <2>1, ResetInvStep DEF Next
<1>3. TypeOK /\ ResetInv => ResetFindsBios
  <2> SUFFICES ASSUME TypeOK, planar_control = 0, font_segment = 222,
                      NEW b \in Probes, Within(b, BiosSegment, 64)
               PROVE  Responds(b, M) /\ Cell(b, M) = b
    BY DEF ResetInv, ResetFindsBios
  <2>1. b \in Nat /\ Low26(b) = b
    BY MapType
  <2>2. ~M.easysetup
    <3>1. ~Bit(0, 4)
      BY DEF Bit
    <3> QED
      BY <3>1 DEF M, Board, EasySetupRemap
  <2>3. ~FontRegion(b, M)
    BY <2>1 DEF FontRegion, M, Board, Within, BiosSegment
  <2>4. Responds(b, M)
    BY <2>1 DEF Responds, OpenFrame, Within, BiosSegment, Planar, PageFrame
  <2>5. Cell(b, M) = b
    BY <2>1, <2>2, <2>3 DEF Cell, Address, Folded, RomAddress, EasySetupAlias, VgaRomAlias, Within,
                            BiosSegment, VgaMemory, UpperMem
  <2> QED
    BY <2>4, <2>5
<1> QED
  BY <1>1, <1>2, <1>3, BoardTypeCorrect, PTL DEF Spec

\* The memory map: what holds of every address in every state.
THEOREM BoardDecodeExact == Spec => []DecodeExact
<1>1. ExtendedStraight /\ StubReadsModule /\ NoStrayWrites /\ ResetFindsBios => DecodeExact
  BY DEF DecodeExact
<1> QED
  BY <1>1, AlwaysExtendedStraight, AlwaysStubReadsModule, AlwaysNoStrayWrites,
     AlwaysResetFindsBios, PTL

\* The BIOS is told of a setup request once and in the boot it was made for.
THEOREM BoardSetupExact == Spec => SetupExact
<1>1. SetupOnce /\ [SetupNotLost]_vars => [SetupOnce /\ SetupNotLost]_vars
  OBVIOUS
<1> QED
  BY <1>1, AlwaysSetupOnce, AlwaysSetupNotLost, PTL DEF SetupExact

=============================================================================
