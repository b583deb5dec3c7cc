-------------------------------- MODULE VgaState --------------------------------
(***************************************************************************)
(* The display BIOS: power-on up to its first mode, the alternate          *)
(* functions of AH=12h, what AH=1Ah and 1Bh tell, and AH=1Ch, which saves  *)
(* the state of the display in a caller's buffer, byte after byte, and     *)
(* restores it from there.                                                 *)
(***************************************************************************)
EXTENDS VgaBios

init_vga_card == <<<<WRITE_MISC_OUTPUT, 195>>>> \o Sets(SEQU_ADDRESS, 4, 2)
\* The data area as the system BIOS leaves it, with what the display BIOS
\* sets before it makes its first mode.
init_bios_area ==
    [mode |-> 0, cols |-> 0, psize |-> 0, start |-> 0, cursor |-> [p \in 0 .. 7 |-> <<0, 0>>], type |-> <<0, 0>>,
     page |-> 0, crtc |-> 0, rows |-> 0, height |-> 16, ctl |-> 0, switches |-> 249, modeset |-> 81, dcc |-> 0]
PowerOn(kind, memory) ==
    [kind |-> kind, hw |-> Adapter(kind), bda |-> init_bios_area, ivt |-> [x1F |-> <<0, 0>>, x43 |-> <<0, 0>>],
     reg |-> Does(ResetRegisters, init_vga_card), font |-> [b \in 0 .. 7 |-> [ch \in Sampled |-> 0]], mem |-> memory]

-----------------------------------------------------------------------------
(* AH=12h, 1Ah, 1Bh *)

\* The switches 1001b stand for 400 and 350 lines, 1000b for 200.
select_vert_res(m, al) ==
    LET Lines(b7, b4, switches) ==
            [m EXCEPT !.bda.modeset = WithBit(WithBit(@, 7, b7), 4, b4), !.bda.switches = 16 * (@ \div 16) + switches]
    IN  CASE al = 0 -> Lines(1, 0, 8) [] al = 1 -> Lines(0, 0, 9) [] al = 2 -> Lines(0, 1, 9) [] OTHER -> m
ModeSet(m, bit, b) == [m EXCEPT !.bda.modeset = WithBit(@, bit, b)]
enable_default_palette_loading(m, al) == ModeSet(m, 3, Bit(al, 0))
enable_grayscale_summing(m, al) == ModeSet(m, 1, 1 - Bit(al, 0))
enable_cursor_emulation(m, al) == ModeSet(m, 0, 1 - Bit(al, 0))
enable_video_addressing(m, al) ==
    Port(m, <<<<WRITE_MISC_OUTPUT, WithBit(Value(m.reg, READ_MISC_OUTPUT), 1, 1 - Bit(al, 0))>>>>)

get_ega_info(m) ==
    [bh |-> Flag(m.bda.crtc = MDA_CRTC), bl |-> 3, ch |-> 0, cl |-> m.bda.switches % 16]
read_display_code(m) == [bl |-> m.bda.dcc, bh |-> 0]
set_display_code(m, bl) == [m EXCEPT !.bda.dcc = bl]

-----------------------------------------------------------------------------
(* AH=1Bh, 1Ch *)

Word(v) == <<Byte(v), v \div 256>>
WordAt(bytes, i) == bytes[i] + 256 * bytes[i + 1]
Cursors(b) == [i \in 1 .. 16 |-> b.cursor[(i - 1) \div 2][IF i % 2 = 1 THEN 1 ELSE 2]]

\* The data area from the mode to the CRTC's address and its three bytes of
\* rows and height, and the display code, after the address of a table.
read_state_info(m) ==
    LET b == m.bda
    IN  <<b.mode>> \o Word(b.cols) \o Word(b.psize) \o Word(b.start) \o Cursors(b) \o <<b.type[2], b.type[1], b.page>>
        \o Word(b.crtc) \o <<b.rows>> \o Word(b.height) \o <<b.dcc>>

PartSize(part) == CASE part = 0 -> 70 [] part = 1 -> 42 [] part = 2 -> 3 + 3 * DacSize + 1
read_video_state_size(cx) ==
    LET Size(part) == IF Bit(cx, part) = 1 THEN PartSize(part) ELSE 0 IN Size(0) + Size(1) + Size(2)

\* Accesses of which some are reads into the buffer: those of three parts.
Keep(port) == <<port, 0, 0>>
Keeps(a) == Len(a) = 3
Take(s, a) ==
    IF Keeps(a) THEN [r |-> Read(s.r, a[1]), bytes |-> Append(s.bytes, Value(s.r, a[1]))]
    ELSE [s EXCEPT !.r = Access(@, a)]
RECURSIVE TakeAll(_, _)
TakeAll(s, accesses) ==
    LET n    == Len(accesses)
        half == n \div 2
    IN  IF n = 0 THEN s
        ELSE IF n = 1 THEN Take(s, accesses[1])
        ELSE CHOOSE last \in {TakeAll(middle, SubSeq(accesses, half + 1, n)) :
                                 middle \in {TakeAll(s, SubSeq(accesses, 1, half))}} : TRUE
Takes(r, accesses) == TakeAll([r |-> r, bytes |-> <<>>], accesses)
\* Registers first to last of a controller with two ports.
KeepAll(port, first, last) ==
    [i \in 1 .. 2 * (last - first + 1) |->
        IF i % 2 = 1 THEN <<port, first + (i - 1) \div 2>> ELSE Keep(port + 1)]
KeepActl(ar) ==
    [i \in 1 .. 60 |->
        CASE i % 3 = 1 -> <<ACTL_RESET>>
          [] i % 3 = 2 -> <<ACTL_ADDRESS, (i - 2) \div 3 + 32 * Bit(ar, 5)>>
          [] i % 3 = 0 -> Keep(ACTL_READ_DATA)]

SaveRegisters(m) ==
    LET crtc == m.bda.crtc
        ar   == Value(Read(m.reg, ACTL_RESET), ACTL_ADDRESS)
        taken == Takes(m.reg, <<Keep(SEQU_ADDRESS), Keep(crtc), Keep(GRDC_ADDRESS), <<ACTL_RESET>>, Keep(ACTL_ADDRESS),
                                Keep(READ_FEATURE_CTL)>>
                              \o KeepAll(SEQU_ADDRESS, 1, 4) \o KeepAll(SEQU_ADDRESS, 0, 0) \o KeepAll(crtc, 0, 24)
                              \o KeepActl(ar) \o <<<<ACTL_RESET>>>> \o KeepAll(GRDC_ADDRESS, 0, 8))
    IN  [taken EXCEPT !.bytes = @ \o Word(crtc) \o <<0, 0, 0, 0>>]
SaveData(m) ==
    LET b == m.bda
    IN  <<b.mode>> \o Word(b.cols) \o Word(b.psize) \o Word(b.crtc) \o <<b.rows>> \o Word(b.height)
        \o <<96 + 128 * b.ctl, b.switches, b.modeset, b.type[2], b.type[1]>> \o Cursors(b) \o Word(b.start) \o <<b.page>>
        \o Word(m.ivt.x1F[1]) \o Word(m.ivt.x1F[2]) \o Word(m.ivt.x43[1]) \o Word(m.ivt.x43[2])
\* The write index is selected, and the colours are read.
SaveColours(r) ==
    LET taken == Takes(r, <<Keep(DAC_STATE), Keep(DAC_WRITE_ADDRESS), Keep(PEL_MASK), <<DAC_WRITE_ADDRESS, 0>>>>
                          \o [i \in 1 .. 3 * DacSize |-> Keep(DAC_DATA)])
    IN  [taken EXCEPT !.bytes = Append(@, 0)]
save_video_state(m, cx) ==
    LET Part(part, saved, r) == IF Bit(cx, part) = 1 THEN saved ELSE [r |-> r, bytes |-> <<>>]
        registers == Part(0, SaveRegisters(m), m.reg)
        data      == IF Bit(cx, 1) = 1 THEN SaveData(m) ELSE <<>>
        colours   == Part(2, SaveColours(registers.r), registers.r)
    IN  [m |-> [m EXCEPT !.reg = colours.r], bytes |-> registers.bytes \o data \o colours.bytes]

\* Where, after the 25 CRTC registers, the one for register 11h is looked for.
LockByte == 35 - 24 + 17
\* Where register `reg` of the CRTC is, 11h being passed over.
CrtcPlace_Shifted(reg) == IF reg > 17 THEN 9 + reg ELSE 10 + reg
CrtcPlace(reg) == 10 + reg
RestoreRegisters(m, bytes) ==
    LET At(i) == bytes[i + 1]
        ar    == At(3)
        crtc  == WordAt(bytes, 65)
        Crtc  == [i \in 1 .. 48 |-> LET k == (i - 1) \div 2
                                        reg == IF k >= 17 THEN k + 1 ELSE k
                                    IN  IF i % 2 = 1 THEN <<crtc, reg>> ELSE <<crtc + 1, At(CrtcPlace(reg))>>]
        Actl  == [i \in 1 .. 40 |-> LET k == (i - 1) \div 2
                                    IN  <<ACTL_ADDRESS, IF i % 2 = 1 THEN k + 32 * Bit(ar, 5) ELSE At(35 + k)>>]
        timed == Does(m.reg, <<<<ACTL_RESET>>>>
                             \o [i \in 1 .. 10 |-> LET k == (i + 1) \div 2
                                                   IN  IF i % 2 = 1 THEN <<SEQU_ADDRESS, k % 5>>
                                                       ELSE <<SEQU_DATA, At(4 + k)>>]
                             \o Sets(crtc, 17, 0) \o Crtc)
        \* The test for a colour CRTC assigns: it always is one from here on.
        colour == Out(timed, WRITE_MISC_OUTPUT, WithBit(Value(timed, READ_MISC_OUTPUT), 0, 1))
    IN  Port([m EXCEPT !.reg = colour],
             Sets(VGA_CRTC, 17, At(LockByte)) \o <<<<ACTL_RESET>>>> \o Actl \o <<<<ACTL_ADDRESS, ar>>, <<ACTL_RESET>>>>
             \o Load(GRDC_ADDRESS, [i \in 1 .. 9 |-> At(54 + i)])
             \o <<<<SEQU_ADDRESS, At(0)>>, <<VGA_CRTC, At(1)>>, <<GRDC_ADDRESS, At(2)>>, <<WRITE_FEATURE_CTL, At(4)>>>>)
RestoreData(m, bytes) ==
    [m EXCEPT
        !.bda = [@ EXCEPT !.mode = bytes[1], !.cols = WordAt(bytes, 2), !.psize = WordAt(bytes, 4), !.crtc = WordAt(bytes, 6),
                          !.rows = bytes[8], !.height = WordAt(bytes, 9), !.ctl = Bit(bytes[11], 7),
                          !.switches = bytes[12], !.modeset = bytes[13], !.type = <<bytes[15], bytes[14]>>,
                          !.cursor = [p \in 0 .. 7 |-> <<bytes[16 + 2 * p], bytes[17 + 2 * p]>>],
                          !.start = WordAt(bytes, 32), !.page = bytes[34]],
        !.ivt = [x1F |-> <<WordAt(bytes, 35), WordAt(bytes, 37)>>, x43 |-> <<WordAt(bytes, 39), WordAt(bytes, 41)>>]]
RestoreColours(m, bytes) ==
    Port(m, <<<<PEL_MASK, bytes[3]>>, <<DAC_WRITE_ADDRESS, 0>>>>
            \o [i \in 1 .. 3 * DacSize |-> <<DAC_DATA, bytes[3 + i]>>] \o <<<<DAC_WRITE_ADDRESS, bytes[2]>>>>)
restore_video_state(m, cx, bytes) ==
    LET Rest(n) == SubSeq(bytes, n + 1, Len(bytes))
        first  == IF Bit(cx, 0) = 1 THEN PartSize(0) ELSE 0
        second == first + (IF Bit(cx, 1) = 1 THEN PartSize(1) ELSE 0)
        registers == IF Bit(cx, 0) = 1 THEN RestoreRegisters(m, bytes) ELSE m
        data      == IF Bit(cx, 1) = 1 THEN RestoreData(registers, Rest(first)) ELSE registers
    IN  IF Bit(cx, 2) = 1 THEN RestoreColours(data, Rest(second)) ELSE data
=================================================================================
