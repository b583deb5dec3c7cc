-------------------------------- MODULE VgaModes --------------------------------
(***************************************************************************)
(* The video modes of the display BIOS (src/sw/vgabios/vgatables.h): what  *)
(* vga_modes says of a mode, joined with its entry of video_param_table.   *)
(* Of the CRTC's registers the table keeps those named in VgaPorts.        *)
(***************************************************************************)
EXTENDS VgaPorts

CrtcTable(overflow, lines, shape, retraceEnd, displayEnd) ==
    [i \in CrtKept |->
        CASE i = 7 -> overflow [] i = 9 -> lines [] i = 10 -> shape[1] [] i = 11 -> shape[2]
          [] i = 17 -> retraceEnd [] i = 18 -> displayEnd [] OTHER -> 0]
Scan400(lines, shape) == CrtcTable(31, lines, shape, 142, 143)
Scan350 == CrtcTable(31, 64, <<0, 0>>, 133, 93)
Scan480 == CrtcTable(62, 64, <<0, 0>>, 140, 223)
Scan600 == CrtcTable(240, 96, <<0, 0>>, 141, 87)
NoShape == <<0, 0>>
TextShape == <<13, 14>>

\* The sixteen palette registers.
EgaPalette  == <<0, 1, 2, 3, 4, 5, 20, 7, 56, 57, 58, 59, 60, 61, 62, 63>>
CgaPalette  == <<0, 19, 21, 23, 2, 4, 6, 7, 16, 17, 18, 19, 20, 21, 22, 23>>
RgbiPalette == <<0, 1, 2, 3, 4, 5, 6, 7, 16, 17, 18, 19, 20, 21, 22, 23>>
HiresPalette == <<0>> \o [i \in 1 .. 15 |-> 23]
MdaPalette  == <<0, 8, 8, 8, 8, 8, 8, 8, 16, 24, 24, 24, 24, 24, 24, 24>>
MonoPalette == <<0, 8, 0, 0, 24, 24, 0, 0, 0, 8, 0, 0, 0, 24, 0, 0>>
TwoPalette  == [i \in 1 .. 16 |-> IF i % 2 = 1 THEN 0 ELSE 63]
Vga256      == [i \in 1 .. 16 |-> i - 1]

Mode(class, memmodel, pixbits, sstart, dac, tw, thm1, ch, slength, sequ, misc, crtc, actl, grdc) ==
    [class |-> class, memmodel |-> memmodel, pixbits |-> pixbits, sstart |-> sstart, dacmodel |-> dac,
     twidth |-> tw, theightm1 |-> thm1, cheight |-> ch, slength |-> slength,
     sequ |-> sequ, misc |-> misc, crtc |-> crtc, actl |-> actl, grdc |-> grdc]

Grdc(odd, select) == <<0, 0, 0, 0, 0, odd, select, 15, 255>>
TextMode(memmodel, sstart, dac, tw, slength, clock, misc, actl, select) ==
    Mode("TEXT", memmodel, 4, sstart, dac, tw, 24, 16, slength, <<clock, 3, 0, 2>>, misc, Scan400(79, TextShape), actl,
         Grdc(16, select))
CgaMode == Mode("GRAPH", "CGA", 2, "B800", 1, 40, 24, 8, 2048, <<9, 3, 0, 2>>, 99, Scan400(193, NoShape),
                CgaPalette \o <<1, 0, 3, 0>>, Grdc(48, 15))
HiresMode == Mode("GRAPH", "CGA", 1, "B800", 1, 80, 24, 8, 4096, <<1, 1, 0, 6>>, 99, Scan400(193, NoShape),
                  HiresPalette \o <<1, 0, 1, 0>>, Grdc(0, 13))
PlanarMode(memmodel, bits, dac, tw, thm1, ch, slength, clock, misc, crtc, palette, planes) ==
    Mode("GRAPH", memmodel, bits, "A000", dac, tw, thm1, ch, slength, <<clock, 15, 0, 6>>, misc, crtc,
         palette \o <<1, 0, planes, 0>>, Grdc(0, 5))
LinearMode == Mode("GRAPH", "LINEAR8", 8, "A000", 3, 40, 24, 8, 0, <<1, 15, 0, 14>>, 99, Scan400(65, NoShape),
                   Vga256 \o <<65, 0, 15, 0>>, Grdc(64, 5))

vga_modes ==
    [m \in (0 .. 7) \cup (13 .. 19) \cup {106} |->
        CASE m \in {0, 1} -> TextMode("CTEXT", "B800", 2, 40, 2048, 8, 103, EgaPalette \o <<12, 0, 15, 8>>, 14)
          [] m \in {2, 3} -> TextMode("CTEXT", "B800", 2, 80, 4096, 0, 103, EgaPalette \o <<12, 0, 15, 8>>, 14)
          [] m \in {4, 5} -> CgaMode
          [] m = 6        -> HiresMode
          [] m = 7        -> TextMode("MTEXT", "B000", 0, 80, 4096, 0, 102, MdaPalette \o <<14, 0, 15, 8>>, 10)
          [] m = 13  -> PlanarMode("PLANAR4", 4, 1, 40, 24, 8, 8192, 9, 99, Scan400(192, NoShape), RgbiPalette, 15)
          [] m = 14  -> PlanarMode("PLANAR4", 4, 1, 80, 24, 8, 16384, 1, 99, Scan400(192, NoShape), RgbiPalette, 15)
          [] m = 15  -> PlanarMode("PLANAR1", 1, 0, 80, 24, 14, 32768, 1, 163, Scan350, MonoPalette, 1)
          [] m = 16  -> PlanarMode("PLANAR4", 4, 2, 80, 24, 14, 32768, 1, 163, Scan350, EgaPalette, 15)
          [] m = 17  -> PlanarMode("PLANAR1", 1, 2, 80, 29, 16, 0, 1, 227, Scan480, TwoPalette, 15)
          [] m = 18  -> PlanarMode("PLANAR4", 4, 2, 80, 29, 16, 0, 1, 227, Scan480, EgaPalette, 15)
          [] m = 19  -> LinearMode
          [] m = 106 -> PlanarMode("PLANAR4", 4, 2, 100, 36, 16, 0, 1, 227, Scan600, EgaPalette, 15)]

\* The DAC tables give the first dac_regs+1 entries a colour, the rest black.
dac_regs == <<63, 63, 63, 255>>
=================================================================================
