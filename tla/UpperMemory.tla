------------------------------ MODULE UpperMemory ------------------------------
(***************************************************************************)
(* Where an address of the processor leads (src/rtl/cache/l2_cache.v,      *)
(* the decode in front of the cache): the page frame left open, the ROM    *)
(* alias, the Easy-Setup window, the font window, the row bits folded      *)
(* while the DRAM configuration is not settled, the shared window.  The    *)
(* VGA aperture, which takes A0000h-BFFFFh away from memory, is left out.   *)
(*                                                                         *)
(* Addresses are in units of 1 KiB, the finest any of these rules needs.   *)
(* m is the state of the board they depend on, a record of                 *)
(*   romset, dram_cfg0, easysetup, font_enable, font_segment, font_bank,   *)
(*   shared (shr_rgn_en), ram_option.                                      *)
(***************************************************************************)
LOCAL INSTANCE Integers

Within(b, first, n) == first <= b /\ b < first + n
Wrap == 262144                      \* 256 MiB
Low26(b) == b % Wrap                \* the decoders that compare CPU_ADDR[25:..] only

VgaMemory == 640                    \* A0000h
UpperMem == 768                     \* C0000h
PageFrame == 816                    \* CC000h
SharedWindow == 824                 \* CE000h
FlashTop == 896                     \* E0000h
BiosSegment == 960                  \* F0000h
Extended == 1024                    \* 100000h
Planar == 4096                      \* 4 MiB
FontImage == 32768                  \* the font ROM's image in DDR memory

-----------------------------------------------------------------------------
RamLimit(m) == <<20480, Planar, 8192, 12288>>[m.ram_option + 1]    \* 20, 4, 8, 12 MiB

UpperRegion(b) == Within(Low26(b), UpperMem, 256)
SharedRegion(b, m) == m.shared /\ Within(Low26(b), SharedWindow, 8)

FontRegion_Low(b, m) == m.font_enable /\ (b % 1024) \div 8 = m.font_segment \div 2
                                      \* mutant: compares the low address bits only
FontRegion(b, m) == m.font_enable /\ b \div 8 = m.font_segment \div 2

Settled(m) == m.dram_cfg0 % 16 = 11
Folded(b, m) == ~Settled(m) /\ b < VgaMemory

EasySetupAlias(b, m) == m.easysetup /\ Within(b, FlashTop, 128)
VgaRomAlias(b, m) == m.romset = 25 /\ Within(Low26(b), UpperMem, 64)

\* The Easy-Setup window comes before the alias of the video ROM.
RomAddress_Chained(b, m) ==           \* mutant: what one alias gives goes through the other
    LET a == IF EasySetupAlias(b, m) THEN b - 128 ELSE b
    IN  IF VgaRomAlias(a, m) THEN a + 128 ELSE a
RomAddress(b, m) == IF EasySetupAlias(b, m) THEN b - 128
                    ELSE IF VgaRomAlias(b, m) THEN b + 128 ELSE b

Address(b, m) == IF Folded(b, m) THEN RomAddress(b, m) - (RomAddress(b, m) % 8)
                 ELSE RomAddress(b, m)

OpenFrame_Short(b, m) == Within(b, PageFrame, 48) /\ ~SharedRegion(b, m)  \* mutant: one
OpenFrame(b, m) == Within(b, PageFrame, 64) /\ ~SharedRegion(b, m)        \* 16 KiB page less

\* Something answers at b (ram_rgn), and the place in DDR memory it stands for.
Responds(b, m) ==
    \/ FontRegion(b, m)
    \/ /\ b < Planar \/ (b < RamLimit(m) /\ Settled(m)) \/ UpperRegion(b)
       /\ ~OpenFrame(b, m)

Cell(b, m) == IF FontRegion(b, m) THEN FontImage + 8 * m.font_bank + (b % 8)
              ELSE Address(b, m)

Writable(b, m) == Responds(b, m) /\ (FontRegion(b, m) => SharedRegion(b, m))
=============================================================================
