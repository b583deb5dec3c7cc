-------------------------------- MODULE Chipset --------------------------------
(***************************************************************************)
(* The board registers of the PC110 (src/rtl/pc110/pc110_chipset.sv) on    *)
(* the I/O bus: the gates in front of the configuration banks, the EC/ED   *)
(* registers and port 98h that steer the memory map, the font window, the  *)
(* printer's acknowledge, the card controller's change latch, the POST     *)
(* checkpoint.  Registers that are only stored and read back are left out; *)
(* of a bank behind a gate, one register stands for all.                   *)
(***************************************************************************)
EXTENDS IoBus, UpperMemory

VARIABLES
    scamp_gate, block2_gate, eced_gate, block2_unlock_step, cfg23, block2,
    eced_index, eced,                       \* the EC/ED registers that steer the memory map
    planar_control,
    font_bank, font_segment, font_enable,
    lpt_strobe, lpt_ack_pending, lpt_status_read_d,
    pcic_index, csc,                        \* card status change, of both sockets
    ckpt_last,
    \* history
    last_reads,                             \* the last three ports read
    ack_due, change_due                     \* caused, and not yet read by the program

gates   == <<scamp_gate, block2_gate, eced_gate, block2_unlock_step, cfg23, block2>>
steering == <<eced_index, eced, planar_control, font_bank, font_segment, font_enable>>
printer == <<lpt_strobe, lpt_ack_pending, lpt_status_read_d>>
card    == <<pcic_index, csc>>
history == <<last_reads, ack_due, change_due>>
chipset_vars == <<gates, steering, printer, card, ckpt_last, history>>

Bit(v, weight) == (v \div weight) % 2 = 1     \* bits are named by their weight: Bit(v, 64) is v[6]
EcedRegs == {2, 12, 17, 18}             \* RAMCFG0, ROMSET, shadow E, shadow F

-----------------------------------------------------------------------------
(* Gates. *)

Key1 == 64547                           \* FC23h
Key2 == 61475                           \* F023h
Key3 == 49187                           \* C023h

UnlockStep_Waits(step, p) ==            \* mutant: other reads in between do no harm
    IF step < 3 /\ p = <<Key1, Key2, Key3>>[step + 1] THEN step + 1
    ELSE IF p = 35 THEN 0 ELSE step
UnlockStep(step, p) ==
    IF step \in {0, 1} /\ p = Key1 THEN 1
    ELSE IF (step = 1 /\ p = Key2) \/ (step = 2 /\ p = Key3) THEN step + 1 ELSE 0

\* The lock bit is the lowest of port 23h; block 2 opens by four reads.
GatesClock ==
    /\ block2_unlock_step' = IF BusRead THEN UnlockStep(block2_unlock_step, bus_address)
                             ELSE block2_unlock_step
    /\ cfg23' = IF Writes(35) THEN Data ELSE cfg23
    /\ scamp_gate' = /\ scamp_gate \/ (Writes(34) /\ Data = 128 /\ cfg23 = 0)
                     /\ ~(Writes(35) /\ Bit(Data, 1))
    /\ block2_gate' = /\ block2_gate \/ (Reads(35) /\ block2_unlock_step = 3)
                      /\ ~(Writes(35) /\ Bit(Data, 1))
    /\ block2' = IF Writes(37) /\ block2_gate THEN Data ELSE block2
    /\ eced_gate' = (eced_gate \/ Writes(251)) /\ ~Writes(249)

-----------------------------------------------------------------------------
(* The memory map. *)

SteeringClock ==
    /\ eced_index' = IF Writes(236) THEN Data % 64 ELSE eced_index
    /\ eced' = IF Writes(237) /\ eced_gate /\ eced_index \in EcedRegs
               THEN [eced EXCEPT ![eced_index] = Data] ELSE eced
    /\ planar_control' = IF Writes(152) THEN Data ELSE planar_control
    /\ font_bank' = IF Writes(4448) THEN Data % 128 ELSE font_bank
    /\ font_segment' = IF Writes(4450) THEN Data ELSE font_segment
    /\ font_enable' = IF Writes(4451) THEN Bit(Data, 1) ELSE font_enable

EasySetupRemap == eced[17] = 0 /\ eced[18] = 0 /\ Bit(planar_control, 4)

\* What the decode in front of the cache sees of the board.
Board(shared, ram_option) ==
    [romset |-> eced[12], dram_cfg0 |-> eced[2], easysetup |-> EasySetupRemap,
     font_enable |-> font_enable, font_segment |-> font_segment, font_bank |-> font_bank,
     shared |-> shared, ram_option |-> ram_option]

-----------------------------------------------------------------------------
(* Printer and card controller. *)

LptStatus == 957                        \* 3BDh
CardData == 993                         \* 3E1h
CardIndex == 992

\* The acknowledge is held until the read of the status port is over.
AckTaken_AtOnce == Reads(LptStatus)       \* mutant: on the first clock of the read
AckTaken == lpt_status_read_d /\ ~Reads(LptStatus)

PrinterClock ==
    /\ lpt_status_read_d' = Reads(LptStatus)
    /\ lpt_strobe' = IF Writes(958) THEN Bit(Data, 1) ELSE lpt_strobe
    /\ lpt_ack_pending' = \/ Writes(958) /\ lpt_strobe /\ ~Bit(Data, 1)
                          \/ lpt_ack_pending /\ ~AckTaken

SoftwareDetect == Writes(CardData) /\ pcic_index % 64 = 22 /\ Bit(Data, 32)
Latch == IF Bit(pcic_index, 64) THEN 68 ELSE 4           \* of the selected socket

CardClock ==
    /\ pcic_index' = IF Writes(CardIndex) THEN Data ELSE pcic_index
    /\ csc' = [s \in DOMAIN csc |->
                 IF Reads(CardData) /\ pcic_index = s THEN 0
                 ELSE IF Writes(CardData) /\ pcic_index = s THEN Data
                 ELSE IF SoftwareDetect /\ Latch = s /\ ~Bit(csc[s], 8) THEN csc[s] + 8
                 ELSE csc[s]]

CkptBoot_Plain == ckpt_last >= 110                 \* mutant: early POST codes count too
CkptBoot == ckpt_last >= 110 /\ ckpt_last < 128
Checkpoint == IF Writes(400) THEN Data ELSE ckpt_last

-----------------------------------------------------------------------------
Keys == {0, Key1, Key2, Key3}           \* 0: a port that is no key
Key(p) == IF p \in Keys THEN p ELSE 0

History ==
    /\ last_reads' = IF BusRead THEN <<last_reads[2], last_reads[3], Key(bus_address)>>
                     ELSE last_reads
    /\ ack_due' = \/ Writes(958) /\ lpt_strobe /\ ~Bit(Data, 1)
                  \/ ack_due /\ ~Samples(LptStatus)
    /\ change_due' = [s \in DOMAIN change_due |->
                         \/ SoftwareDetect /\ Latch = s
                         \/ change_due[s] /\ ~(Samples(CardData) /\ pcic_index = s)
                                          /\ ~(Writes(CardData) /\ pcic_index = s)]

PlanarAtReset_Kept == planar_control       \* mutant: port 98h survives the reset
PlanarAtReset == 0

\* A reset closes the gates; the register files behind them keep their values.
ChipsetReset ==
    /\ scamp_gate' = FALSE /\ block2_gate' = FALSE /\ eced_gate' = FALSE
    /\ block2_unlock_step' = 0 /\ cfg23' = 1 /\ eced_index' = 0
    /\ planar_control' = PlanarAtReset
    /\ font_bank' = 0 /\ font_segment' = 222 /\ font_enable' = TRUE
    /\ lpt_strobe' = FALSE /\ lpt_ack_pending' = FALSE /\ lpt_status_read_d' = FALSE
    /\ pcic_index' = 0 /\ ckpt_last' = 0
    /\ ack_due' = FALSE
    /\ UNCHANGED <<block2, eced, csc, last_reads, change_due>>

ChipsetClock(reset) ==
    \/ reset /\ ChipsetReset
    \/ ~reset /\ GatesClock /\ SteeringClock /\ PrinterClock /\ CardClock
              /\ ckpt_last' = Checkpoint /\ History

ChipsetInit ==
    /\ scamp_gate = FALSE /\ block2_gate = FALSE /\ eced_gate = FALSE
    /\ block2_unlock_step = 0 /\ cfg23 = 1 /\ block2 = 0
    /\ eced_index = 0
    /\ eced = [r \in EcedRegs |-> IF r = 2 THEN 11 ELSE IF r = 12 THEN 41
                                ELSE IF r = 17 THEN 0 ELSE 170]
    /\ planar_control = 0
    /\ font_bank = 0 /\ font_segment = 222 /\ font_enable = TRUE
    /\ lpt_strobe = FALSE /\ lpt_ack_pending = FALSE /\ lpt_status_read_d = FALSE
    /\ pcic_index = 0 /\ csc = [s \in {4, 68} |-> 0]
    /\ ckpt_last = 0
    /\ last_reads = <<0, 0, 0>> /\ ack_due = FALSE
    /\ change_due = [s \in {4, 68} |-> FALSE]

-----------------------------------------------------------------------------
ChipsetTypeOK ==
    /\ scamp_gate \in BOOLEAN /\ block2_gate \in BOOLEAN /\ eced_gate \in BOOLEAN
    /\ block2_unlock_step \in 0 .. 3 /\ cfg23 \in Byte /\ block2 \in Byte
    /\ eced_index \in 0 .. 63 /\ eced \in [EcedRegs -> Byte]
    /\ planar_control \in Byte
    /\ font_bank \in 0 .. 127 /\ font_segment \in Byte /\ font_enable \in BOOLEAN
    /\ lpt_strobe \in BOOLEAN /\ lpt_ack_pending \in BOOLEAN /\ lpt_status_read_d \in BOOLEAN
    /\ pcic_index \in Byte /\ csc \in [{4, 68} -> Byte]
    /\ ckpt_last \in Byte
    /\ last_reads \in Keys \X Keys \X Keys
    /\ ack_due \in BOOLEAN /\ change_due \in [{4, 68} -> BOOLEAN]
=============================================================================
