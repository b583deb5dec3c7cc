--------------------------------- MODULE Board ---------------------------------
(***************************************************************************)
(* The PC110 board: the I/O bus, the chipset registers, the memory map     *)
(* they steer, and the way into the BIOS setup: the menu's actions and the *)
(* reset they cause (src/PC110.sv), the setup bit that the clock chip puts *)
(* into CMOS 7Bh (src/rtl/soc/rtc.v), and its acknowledge, which counts    *)
(* only while POST is at the boot decision (src/rtl/system.v).             *)
(***************************************************************************)
EXTENDS Chipset

CONSTANTS
    SetupWindow,        \* clocks a setup request lasts (2^33 - 1)
    ResetLength,        \* clocks the menu holds the reset (2^28 - 1)
    RamOptions,         \* memory modules that may be chosen (0 .. 3)
    UserOf,             \* what the user of a menu of accesses may do
    Probes              \* addresses, in KiB, at which the memory map is tried: below
                        \* 256 MiB, from where on the windows of the decode repeat

ASSUME BoardAssumption ==
    /\ ResetLength \in Nat \ {0} /\ SetupWindow \in Nat /\ SetupWindow > ResetLength
    /\ RamOptions \subseteq 0 .. 3 /\ Probes \subseteq 0 .. Wrap - 1
    /\ UserOf \in [Menus -> SUBSET {"setup", "f1", "reset", "module", "unlock"}]

VARIABLES
    ram_option, old_ram_option,
    setup_cnt, rst_cnt,                 \* the request, and the longest of the menu's resets
    bios_setup_req, menu_reset, reset,  \* each a clock later
    ram_address,                        \* index register of the CMOS
    setup_ack, setup_bit,               \* acknowledge; bit 3 of the byte read from 7Bh
    shr_rgn_en,
    \* history
    asked,                              \* setup asked for, and not yet told to the BIOS
    told                                \* the last CMOS read told the BIOS at the boot decision

request == <<setup_cnt, rst_cnt, bios_setup_req, menu_reset, reset, ram_option, old_ram_option>>
cmos == <<ram_address, setup_ack, setup_bit>>
vars == <<bus_vars, chipset_vars, request, cmos, shr_rgn_en, asked, told>>

CmosIndex == 112                        \* 70h
CmosData == 113
SetupByte == 123                        \* CMOS 7Bh
M == Board(shr_rgn_en, ram_option)

-----------------------------------------------------------------------------
Acknowledged == setup_ack /\ CkptBoot

\* An F1 key is a request only when none runs: the count down comes after it.
Requested(press) == press = "setup" \/ (press = "f1" /\ setup_cnt = 0)
CountDown(n) == IF n > 0 THEN n - 1 ELSE 0

SetupCount_Bleeds(press) ==               \* mutant: the request lasts out its window
    IF Requested(press) THEN SetupWindow ELSE CountDown(setup_cnt)
SetupCount_Wraps(press) ==                \* mutant: counts on below zero
    IF Acknowledged THEN 0 ELSE IF Requested(press) THEN SetupWindow ELSE setup_cnt - 1
SetupCount(press) ==
    IF Acknowledged THEN 0
    ELSE IF Requested(press) THEN SetupWindow ELSE CountDown(setup_cnt)

\* The menu's three resets have one length: the last of them to begin ends last.
RequestClock(press) ==
    /\ setup_cnt' = SetupCount(press)
    /\ rst_cnt' = IF press \in {"setup", "reset"} \/ ram_option # old_ram_option THEN ResetLength
                  ELSE CountDown(rst_cnt)
    /\ old_ram_option' = ram_option
    /\ \/ press # "module" /\ UNCHANGED ram_option
       \/ press = "module" /\ ram_option' \in RamOptions
    /\ bios_setup_req' = (setup_cnt # 0)
    /\ menu_reset' = (rst_cnt # 0)
    /\ reset' = menu_reset

ReadsSetupByte == Reads(CmosData) /\ ram_address = SetupByte

CmosClock ==
    /\ ram_address' = IF reset THEN 0
                      ELSE IF Writes(CmosIndex) THEN Data % 128 ELSE ram_address
    /\ setup_ack' = (~reset /\ ReadsSetupByte /\ bios_setup_req)
    /\ setup_bit' = (ram_address = SetupByte /\ bios_setup_req)

\* The program writes A345h to the first word of the shared window.  What is
\* compared is the address after the ROM alias.
SharedClock(press) ==
    shr_rgn_en' = (~reset /\ (shr_rgn_en \/ (press = "unlock" /\ Address(SharedWindow, M) = SharedWindow)))

\* The checkpoints of the BIOS's decision what to boot (docs/STATUS.md:152).
BootDecision == 110 .. 127
BootTold == Samples(CmosData) /\ ram_address = SetupByte /\ setup_bit /\ ckpt_last \in BootDecision

SetupHistory(press) ==
    /\ asked' = \/ press \in {"setup", "f1"}
                \/ asked /\ ~BootTold
    /\ told' = IF Reads(CmosData) THEN ReadsSetupByte /\ bios_setup_req /\ ckpt_last \in BootDecision
               ELSE told

Clock(press) ==
    /\ BusClock(reset) /\ ChipsetClock(reset)
    /\ RequestClock(press) /\ CmosClock /\ SharedClock(press)
    /\ SetupHistory(press)

Init ==
    /\ BusInit /\ ChipsetInit
    /\ ram_option \in RamOptions /\ old_ram_option = ram_option
    /\ setup_cnt = 0 /\ rst_cnt = 0 /\ bios_setup_req = FALSE
    /\ menu_reset = FALSE /\ reset = FALSE
    /\ ram_address = 0 /\ setup_ack = FALSE /\ setup_bit = FALSE
    /\ shr_rgn_en = FALSE
    /\ asked = FALSE /\ told = FALSE

Next == \E press \in UserOf[menu] \union {"nothing"} : Clock(press)

Spec == Init /\ [][Next]_vars

-----------------------------------------------------------------------------
(* Properties. *)

TypeOK ==
    /\ BusTypeOK /\ ChipsetTypeOK
    /\ ram_option \in RamOptions /\ old_ram_option \in RamOptions
    /\ setup_cnt \in 0 .. SetupWindow /\ rst_cnt \in 0 .. ResetLength
    /\ bios_setup_req \in BOOLEAN /\ menu_reset \in BOOLEAN /\ reset \in BOOLEAN
    /\ ram_address \in 0 .. 127 /\ setup_ack \in BOOLEAN /\ setup_bit \in BOOLEAN
    /\ shr_rgn_en \in BOOLEAN /\ asked \in BOOLEAN /\ told \in BOOLEAN

\* A printer strobe is acknowledged to the program exactly once: by the next
\* read of the printer status to be sampled, however the bus spreads it over
\* clocks, and by no other.
AckSeen == Samples(LptStatus) => (lpt_ack_pending <=> ack_due)

\* Bank 2 opens only by the read sequence of the test bench's "exact four-read
\* enable sequence": FC23h, F023h, C023h, 0023h with no other read in between,
\* the second byte of a wider read included.
UnlockExact ==
    [][~block2_gate /\ block2_gate' => last_reads = <<Key1, Key2, Key3>> /\ Reads(35)]_vars

\* A software card detect is seen by the next read of the socket's change
\* register, which clears it (src/sim/pc110_chipset_tb.sv:117-118).
CardDetectSeen ==
    Samples(CardData) /\ pcic_index \in DOMAIN csc => (Bit(csc[pcic_index], 8) <=> change_due[pcic_index])

\* The BIOS is told at the boot decision to enter setup only if the user asked
\* for it since it was last told: a request does not bleed into the next boot.
SetupOnce == BootTold => asked

\* A request ends by running out, or because the BIOS was told at the boot
\* decision; not by the reads of 7Bh that POST makes before.
SetupNotLost == setup_cnt > 1 /\ setup_cnt' = 0 => told

\* A setup request is told once, in the boot it was made for.
SetupExact == [][SetupOnce /\ SetupNotLost]_vars

\* Above 1 MiB an address is its own place in the installed memory, whatever
\* the ROM and font registers hold.
ExtendedStraight ==
    \A b \in Probes : b >= Extended /\ Responds(b, M) => Cell(b, M) = b /\ b < RamLimit(M)

\* While the BIOS holds the Easy-Setup window open (registers 11h and 12h zero,
\* port 98h bit 2 set), E0000h-FFFFFh is the lower half of the flash, whatever
\* ROMSET says.
StubReadsModule ==
    eced[17] = 0 /\ eced[18] = 0 /\ Bit(planar_control, 4) =>
        \A b \in Probes : Within(b, FlashTop, 128) /\ ~FontRegion(b, M) => Cell(b, M) = b - 128

\* ROMSET 19h, Easy-Setup window closed.
NormalDecode == eced[12] = 25 /\ ~(eced[17] = 0 /\ eced[18] = 0 /\ Bit(planar_control, 4))

\* In the normal decode no alias, fold or window sends a write into the copy of
\* the Easy-Setup module: what reaches it is addressed to it, at DC000h-DFFFFh.
NoStrayWrites ==
    NormalDecode =>
        \A b \in Probes : Writable(b, M) /\ Within(Cell(b, M), UpperMem, 128) =>
            Cell(b, M) = b /\ Within(b, 880, 16)

\* "That copy is pristine: C-segment writes alias away (pc110_vga_rom_alias) and
\* nothing writes the D segment" (src/rtl/cache/l2_cache.v:296-297), of the copy at
\* C0000h-DFFFFh.  It does not hold: DC000h-DFFFFh is writable.
ModulePristine ==
    NormalDecode => \A b \in Probes : Writable(b, M) => ~Within(Cell(b, M), UpperMem, 128)

\* After a reset the processor finds the BIOS at F0000h, although the reset
\* leaves the memory map's registers as the last program set them.
ResetFindsBios ==
    reset /\ rst_cnt < ResetLength - 2 =>
        \A b \in Probes : Within(b, BiosSegment, 64) => Responds(b, M) /\ Cell(b, M) = b

\* Every address stays where the documents put it, whatever the order in which
\* the registers of the map were written, and across a reset.
DecodeExact == ExtendedStraight /\ StubReadsModule /\ NoStrayWrites /\ ResetFindsBios
=============================================================================
