-------------------------------- MODULE VgaBios --------------------------------
(***************************************************************************)
(* The display BIOS (src/sw/vgabios/vgabios.c): the mode, cursor, page,    *)
(* palette, font and state services of INT 10h, on a machine               *)
(*   m = [kind, hw, bda, ivt, reg, font, mem]                              *)
(* with the BIOS data area, the two font vectors, the adapter's registers, *)
(* its eight character sets and its text or graphics memory.               *)
(* A service runs with interrupts off, from call to return.                *)
(***************************************************************************)
EXTENDS VgaModes, TLC

CONSTANTS Adapter(_),       \* hw of a kind of machine: [modes, unit, bank, pitch, tab, dots]
          Colour(_, _),     \* entry i of DAC table n
          Sampled           \* the characters looked at in a character set

Byte(v) == v % 256
Flag(b) == IF b THEN 1 ELSE 0
Port(m, accesses) == [m EXCEPT !.reg = Does(@, accesses)]

\* The fonts of the BIOS, named by where they are in its segment.
BiosSegment == 49152
vgafont8     == 1
vgafont14    == 2
vgafont16    == 3
vgafont8high == 4
vgafont14alt == 5
vgafont16alt == 6

Modes(m) == m.hw.modes
Known(m, mode) == mode \in DOMAIN Modes(m)
Current(m) == Modes(m)[m.bda.mode]
IsText(m) == Current(m).class = "TEXT"
SCREEN_SIZE(m, rows, cols) == LET unit == m.hw.unit IN ((rows * cols * 2) \div unit + 1) * unit

-----------------------------------------------------------------------------
(* Cursor and pages *)

\* The size a cursor given for characters of 8 lines has in taller ones.
Scaled(m, ch, cl) ==
    LET h == Byte(m.bda.height)
        At(n) == (n * h) \div 8
    IN  IF Bit(m.bda.modeset, 0) = 1 /\ h >= 8 /\ cl < 8 /\ ch < 32
        THEN <<Byte(IF cl = ch + 1 THEN At(cl + 1) - 2 ELSE At(ch + 1) - 1), Byte(At(cl + 1) - 1)>>
        ELSE <<ch, cl>>
set_cursor_shape(m, ch, cl) ==
    LET shape == Scaled(m, ch % 64, cl % 32)
    IN  Port([m EXCEPT !.bda.type = <<ch % 64, cl % 32>>],
             Sets(m.bda.crtc, 10, shape[1]) \o Sets(m.bda.crtc, 11, shape[2]))

Word16(v) == v % 65536
CursorAddress_NoStart(m, at) == Word16(at[2] * Byte(m.bda.cols) + at[1])
CursorAddress(m, at) == Word16(m.bda.start \div 2 + at[2] * Byte(m.bda.cols) + at[1])
Shows(m, page) == page = m.bda.page
set_cursor_pos(m, page, at) ==
    IF page > 7 THEN m
    ELSE LET moved == [m EXCEPT !.bda.cursor[page] = at]
             address == CursorAddress(m, at)
         IN  IF ~Shows(m, page) THEN moved
             ELSE Port(moved, Sets(m.bda.crtc, 14, address \div 256) \o Sets(m.bda.crtc, 15, Byte(address)))
get_cursor_pos(m, page) == IF page > 7 THEN <<0, 0>> ELSE m.bda.cursor[page]

set_active_page(m, page) ==
    IF page > 7 \/ ~Known(m, m.bda.mode) THEN m
    ELSE LET start   == Word16(m.bda.psize * page)
             address == IF IsText(m) THEN start \div 2 ELSE Word16(page * Current(m).slength)
             shown   == Port([m EXCEPT !.bda.start = IF IsText(m) THEN start ELSE @, !.bda.page = page],
                             Sets(m.bda.crtc, 12, address \div 256) \o Sets(m.bda.crtc, 13, Byte(address)))
         IN  set_cursor_pos(shown, page, get_cursor_pos(m, page))

get_video_mode(m) == [al |-> m.bda.mode + 128 * m.bda.ctl, ah |-> Byte(m.bda.cols), bh |-> m.bda.page]

-----------------------------------------------------------------------------
(* Colours *)

\* How many entries the table `num` fills; the rest is black.
Filled(num) == (dac_regs[num + 1] * DacSize) \div 256
load_dac_palette(r, num) ==
    Does(r, <<<<DAC_WRITE_ADDRESS, 0>>>>
            \o [i \in 1 .. 3 * DacSize |->
                  LET entry == (i - 1) \div 3
                  IN  <<DAC_DATA, IF entry <= Filled(num) THEN Colour(num, entry)[((i - 1) % 3) + 1] ELSE 0>>])

Luma(c) == LET i == (77 * c[1] + 151 * c[2] + 28 * c[3] + 128) \div 256 IN IF i > 63 THEN 63 ELSE i
Grey(r, entry) ==
    LET addressed == Out(r, DAC_READ_ADDRESS, entry)
        red   == DacRead(addressed)
        green == DacRead(red.r)
        blue  == DacRead(green.r)
        i == Luma(<<red.v, green.v, blue.v>>)
    IN  Does(blue.r, <<<<DAC_WRITE_ADDRESS, entry>>, <<DAC_DATA, i>>, <<DAC_DATA, i>>, <<DAC_DATA, i>>>>)
perform_gray_scale_summing(r, start, count) ==
    LET after[k \in 0 .. count] ==
            IF k = 0 THEN Does(r, <<<<ACTL_RESET>>, <<ACTL_ADDRESS, 0>>>>)
            ELSE Grey(after[k - 1], (start + k - 1) % DacSize)
    IN  Does(after[count], <<<<ACTL_RESET>>, <<ACTL_ADDRESS, 32>>>>)

\* Read attribute registers 1 to 3, change one bit of each and write them back.
CgaColours(r, bit, on) ==
    LET after[i \in 0 .. 3] ==
            IF i = 0 THEN r
            ELSE LET at == Out(after[i - 1], ACTL_ADDRESS, i)
                 IN  Out(at, ACTL_ADDRESS, WithBit(Value(at, ACTL_READ_DATA), bit, on))
    IN  Out(after[3], ACTL_ADDRESS, 32)
set_border_color(r, bl) ==
    LET border == Does(r, <<<<ACTL_RESET>>, <<ACTL_ADDRESS, 0>>, <<ACTL_ADDRESS, (bl % 16) + 8 * Bit(bl, 3)>>>>)
    IN  CgaColours(border, 4, Bit(bl, 4))
set_palette(r, bl) == CgaColours(Read(r, ACTL_RESET), 0, Bit(bl, 0))

set_single_palette_reg_NoReset(r, bl, bh) ==
    IF bl > 20 THEN r ELSE Does(r, <<<<ACTL_ADDRESS, bl>>, <<ACTL_ADDRESS, bh>>, <<ACTL_ADDRESS, 32>>>>)
set_single_palette_reg(r, bl, bh) ==
    IF bl > 20 THEN r
    ELSE Does(r, <<<<ACTL_RESET>>, <<ACTL_ADDRESS, bl>>, <<ACTL_ADDRESS, bh>>, <<ACTL_ADDRESS, 32>>>>)
set_all_palette_reg(r, table) ==
    LET Pair(i) == IF i = 17 THEN 17 ELSE i - 1
    IN  Does(r, <<<<ACTL_RESET>>>>
                \o [k \in 1 .. 34 |-> <<ACTL_ADDRESS, IF k % 2 = 1 THEN Pair((k + 1) \div 2) ELSE table[k \div 2]>>]
                \o <<<<ACTL_ADDRESS, 32>>>>)
\* The register selected after a reset of the port, as it reads.
Selected(r, i) == Does(r, <<<<ACTL_RESET>>, <<ACTL_ADDRESS, i>>>>)
Attribute(r, i) == Value(Selected(r, i), ACTL_READ_DATA)
Looked(r, i) == Does(r, <<<<ACTL_RESET>>, <<ACTL_ADDRESS, i>>, <<ACTL_RESET>>, <<ACTL_ADDRESS, 32>>>>)
toggle_intensity(r, bl) ==
    Does(Selected(r, 16), <<<<ACTL_ADDRESS, WithBit(Attribute(r, 16), 3, Bit(bl, 0))>>, <<ACTL_ADDRESS, 32>>>>)
get_single_palette_reg(r, bl) == IF bl > 20 THEN r ELSE Looked(r, bl)

select_video_dac_color_page(r, bl, bh) ==
    LET mode == Attribute(r, 16)
        small == Bit(mode, 7) = 1
    IN  IF Bit(bl, 0) = 0
        THEN Does(Selected(r, 16), <<<<ACTL_ADDRESS, WithBit(mode, 7, Bit(bh, 0))>>, <<ACTL_ADDRESS, 32>>>>)
        ELSE Does(Selected(Selected(r, 16), 20),
                  <<<<ACTL_ADDRESS, (IF small THEN bh ELSE bh * 4) % 16>>, <<ACTL_ADDRESS, 32>>>>)
read_video_dac_state(r) ==
    LET paged == Bit(Attribute(r, 16), 7)
        page  == Attribute(r, 20) % 16
    IN  [bl |-> paged, bh |-> IF paged = 1 THEN page ELSE page \div 4]

Rgb(colours) == [i \in 1 .. 3 * Len(colours) |-> <<DAC_DATA, colours[((i - 1) \div 3) + 1][((i - 1) % 3) + 1]>>]
set_all_dac_reg(r, first, colours) == Does(r, <<<<DAC_WRITE_ADDRESS, first>>>> \o Rgb(colours))
set_single_dac_reg(r, bl, colour) == set_all_dac_reg(r, bl, <<colour>>)
read_all_dac_reg(r, first, count) ==
    Does(r, <<<<DAC_READ_ADDRESS, first>>>> \o [i \in 1 .. 3 * count |-> <<DAC_DATA>>])
DacSeen(r, first, i) ==
    LET at == Does(r, <<<<DAC_READ_ADDRESS, first>>>> \o [k \in 1 .. 3 * i |-> <<DAC_DATA>>])
        green == DacRead(at).r
    IN  <<DacRead(at).v, DacRead(green).v, DacRead(DacRead(green).r).v>>

-----------------------------------------------------------------------------
(* Fonts *)

get_font_access ==
    Sets(SEQU_ADDRESS, 0, 1) \o Sets(SEQU_ADDRESS, 2, 4) \o Sets(SEQU_ADDRESS, 4, 7) \o Sets(SEQU_ADDRESS, 0, 3)
    \o Sets(GRDC_ADDRESS, 4, 2) \o Sets(GRDC_ADDRESS, 5, 0) \o Sets(GRDC_ADDRESS, 6, 4)
release_font_access(r) ==
    Sets(SEQU_ADDRESS, 0, 1) \o Sets(SEQU_ADDRESS, 2, 3) \o Sets(SEQU_ADDRESS, 4, 3) \o Sets(SEQU_ADDRESS, 0, 3)
    \o Sets(GRDC_ADDRESS, 6, 4 * Bit(Value(r, READ_MISC_OUTPUT), 0) + 10) \o Sets(GRDC_ADDRESS, 4, 0)
    \o Sets(GRDC_ADDRESS, 5, 16)
\* A write to A000h reaches plane 2 alone, byte for byte.
PlaneTwoOpen(r) ==
    r.seq[2] = 4 /\ Bit(r.seq[4], 2) = 1 /\ r.gr[5] % 4 = 0 /\ (r.gr[6] \div 4) % 4 = 1 /\ Bit(r.misc, 1) = 1
Block(bl) == 2 * (bl % 4) + Bit(bl, 2)

\* Vertical display end of the CRTC, in lines.
DisplayEnd(r, crtc) ==
    LET overflow == Indexed(r, crtc, 7)
    IN  Indexed(r, crtc, 18) + 256 * Bit(overflow, 1) + 512 * Bit(overflow, 6) + 1
RowsFit(m, lines) ==
    LET rows == DisplayEnd(m.reg, m.bda.crtc) \div lines
    IN  Port([m EXCEPT !.bda.height = lines, !.bda.rows = Byte(rows - 1),
                       !.bda.psize = SCREEN_SIZE(m, Byte(rows), m.bda.cols)],
             <<<<m.bda.crtc, 7>>>>)
set_scan_lines(m, lines) ==
    LET crtc    == m.bda.crtc
        maximum == Indexed(m.reg, crtc, 9)
        tall    == Port(m, Sets(crtc, 9, 32 * (maximum \div 32) + Byte(lines - 1)))
        bottom  == IF lines = 8 THEN 7 ELSE Byte(lines - 3)
    IN  RowsFit(set_cursor_shape(tall, Byte(bottom - 1), bottom), lines)

\* Characters `first` on of block bl; those past its end are the next block's.
Patterns(font, bl, from, first, n) ==
    LET Asked(b, ch) == (256 * (b - Block(bl)) + ch - first) % 2048 < n
    IN  [b \in 0 .. 7 |-> [ch \in Sampled |-> IF Asked(b, ch) THEN from ELSE font[b][ch]]]
load_text_pat(m, al, from, lines, bl, first, n) ==
    LET opened == Does(m.reg, get_font_access)
        loaded == [m EXCEPT !.font = IF PlaneTwoOpen(opened) THEN Patterns(@, bl, from, first, n) ELSE @,
                            !.reg = Does(opened, release_font_access(opened))]
    IN  IF al >= 16 THEN set_scan_lines(loaded, lines) ELSE loaded
set_text_block_specifier(m, bl) == Port(m, Sets(SEQU_ADDRESS, 3, bl))

Vector(offset) == <<offset, BiosSegment>>
RowsOf(bl) == CASE bl = 1 -> 13 [] bl = 3 -> 42 [] OTHER -> 24
load_gfx_8_8_chars(m, address) == [m EXCEPT !.ivt.x1F = address, !.bda.height = 8]
load_gfx_user_chars(m, address, cx, bl, dl) ==
    [m EXCEPT !.ivt.x43 = address, !.bda.rows = IF bl = 0 THEN Byte(dl - 1) ELSE RowsOf(bl), !.bda.height = Byte(cx)]
load_gfx_chars(m, font, lines, bl) ==
    [m EXCEPT !.ivt.x43 = Vector(font), !.bda.rows = RowsOf(bl), !.bda.height = lines]

\* ES and BP get the offset and the segment of a vector, in this order.
get_font_info(m, bh) ==
    LET where == CASE bh = 0 -> m.ivt.x1F
                   [] bh = 1 -> m.ivt.x43
                   [] OTHER  -> <<BiosSegment, <<vgafont14, vgafont8, vgafont8high, vgafont14alt, vgafont16, vgafont16alt>>[bh - 1]>>
    IN  [es |-> where[1], bp |-> where[2], cx |-> Byte(m.bda.height), dx |-> m.bda.rows]

-----------------------------------------------------------------------------
(* Setting a mode *)

Load(port, values) == [i \in 1 .. 2 * Len(values) |-> IF i % 2 = 1 THEN <<port, (i - 1) \div 2>> ELSE <<port + 1, values[i \div 2]>>]
SetActl(v) ==
    <<<<ACTL_RESET>>>> \o [i \in 1 .. 40 |-> <<ACTL_ADDRESS, IF i % 2 = 1 THEN (i - 1) \div 2 ELSE v.actl[i \div 2]>>]
    \o <<<<ACTL_ADDRESS, 20>>, <<ACTL_ADDRESS, 0>>>>
SetSequencer(v) == Sets(SEQU_ADDRESS, 0, 3) \o Load(SEQU_ADDRESS, <<3>> \o v.sequ)
CrtcAddress(v) == IF v.memmodel = "MTEXT" THEN MDA_CRTC ELSE VGA_CRTC
SetCrtc(v) ==
    LET crtc == CrtcAddress(v)
    IN  Sets(crtc, 17, 0)
        \o [i \in 1 .. 50 |-> LET reg == (i - 1) \div 2
                              IN  IF i % 2 = 1 THEN <<crtc, reg>>
                                  ELSE <<crtc + 1, IF reg \in CrtKept THEN v.crtc[reg] ELSE 0>>]
SetColours(m, v) ==
    LET loaded == load_dac_palette(Out(m.reg, PEL_MASK, 255), v.dacmodel)
    IN  CASE Bit(m.bda.modeset, 3) = 1 -> m.reg
          [] Bit(m.bda.modeset, 3) = 0 /\ Bit(m.bda.modeset, 1) = 1 -> perform_gray_scale_summing(loaded, 0, DacSize)
          [] OTHER -> loaded
ModeRegisters(m, v) ==
    Does(SetColours(m, v), SetActl(v) \o SetSequencer(v) \o Load(GRDC_ADDRESS, v.grdc) \o SetCrtc(v)
                           \o <<<<WRITE_MISC_OUTPUT, v.misc>>, <<ACTL_ADDRESS, 32>>, <<ACTL_RESET>>>>)

\* A clear covers all of the mode's memory; in planar modes it selects all
\* planes and puts the selection back.
Erased(v) == IF v.class = "TEXT" THEN [ch |-> 32, attr |-> 7] ELSE {}
ClearMemory(m, v, al) ==
    LET cleared == [m EXCEPT !.mem = [a \in DOMAIN @ |-> Erased(v)]]
        accesses == IF v.class = "TEXT" \/ al < 13 THEN <<>>
                    ELSE <<<<SEQU_ADDRESS, 2>>, <<SEQU_DATA, 15>>, <<SEQU_DATA, Indexed(m.reg, SEQU_ADDRESS, 2)>>>>
    IN  IF al >= 128 THEN m ELSE Port(cleared, accesses)

ModeData(m, v, mode, noclear) ==
    [m EXCEPT !.bda = [@ EXCEPT !.mode = mode, !.cols = v.twidth, !.psize = v.slength, !.crtc = CrtcAddress(v),
                                !.rows = v.theightm1, !.height = v.cheight, !.ctl = noclear, !.switches = 249,
                                !.modeset = WithBit(@, 7, 0), !.dcc = 8]]
\* In every mode the cursors of all pages go home; text modes get a shape of
\* cursor and a font.
CursorsHome(m, v) ==
    LET homed[page \in -1 .. 7] ==
            IF page >= 0 THEN set_cursor_pos(homed[page - 1], page, <<0, 0>>)
            ELSE IF v.class = "TEXT" THEN set_cursor_shape(m, 6, 7) ELSE m
    IN  homed[7]
ModeFont(lines) == CASE lines = 8 -> vgafont8 [] lines = 14 -> vgafont14 [] OTHER -> vgafont16
FirstFont(m, v) ==
    IF v.class = "TEXT" THEN set_text_block_specifier(load_text_pat(m, 4, vgafont16, 16, 0, 0, 256), 0) ELSE m
set_video_mode(m, al) ==
    LET mode == al % 128
        v    == Modes(m)[mode]
        set  == ClearMemory([m EXCEPT !.reg = ModeRegisters(m, v)], v, al)
        home == CursorsHome(ModeData(set, v, mode, al \div 128), v)
    IN  IF ~Known(m, mode) THEN m
        ELSE [FirstFont(set_active_page(home, 0), v) EXCEPT
                 !.ivt = [x1F |-> Vector(vgafont8high), x43 |-> Vector(ModeFont(v.cheight))]]
=================================================================================
