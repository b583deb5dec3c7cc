--------------------------------- MODULE MC_Vga ---------------------------------
(* Small machines for the display BIOS.  Where a whole screen is compared it *)
(* has a handful of cells, of a scaled mode; pixels and registers are those  *)
(* of the real modes.                                                        *)
EXTENDS VgaPromises

Real == [modes |-> [n \in {3, 4, 6, 14, 18, 19} |-> vga_modes[n]], unit |-> 256, bank |-> 8192, pitch |-> 80, tab |-> 8, dots |-> 8]
Small(n, cols, rows, height, size) ==
    [vga_modes[n] EXCEPT !.twidth = cols, !.theightm1 = rows - 1, !.cheight = height, !.slength = size]
Scale(n, mode, bank, pitch) ==
    [modes |-> (n :> mode), unit |-> 16, bank |-> bank, pitch |-> pitch, tab |-> 2, dots |-> 2]
\* 4 columns and 3 rows of 16 lines, 6 of 8; as many lines in the CRTC.
TextMode3 == [Small(3, 4, 3, 16, 32) EXCEPT !.crtc = [@ EXCEPT ![7] = 0, ![18] = 47]]

McAdapter(kind) ==
    CASE kind \in {"text", "rows"} -> Scale(3, TextMode3, 0, 0)
      [] kind = "planar" -> Scale(18, Small(18, 2, 3, 2, 0), 0, 0)
      [] kind = "cga2"   -> Scale(4, Small(4, 2, 2, 8, 0), 40, 4)
      [] kind = "cga1"   -> Scale(6, Small(6, 3, 2, 8, 0), 30, 3)
      [] kind = "linear" -> Scale(19, Small(19, 2, 3, 2, 0), 0, 0)
      [] OTHER -> Real
ModeOf(kind) ==
    CASE kind \in {"planar", "dots18"} -> 18 [] kind \in {"cga2", "dots4"} -> 4 [] kind = "cga1" -> 6
      [] kind \in {"linear", "dots19"} -> 19 [] OTHER -> 3
Size(kind) ==
    CASE kind \in {"text", "rows"} -> 64 [] kind = "planar" -> 14 [] kind = "cga2" -> 80 [] kind = "cga1" -> 60
      [] kind = "linear" -> 26 [] OTHER -> 0
McPoints(kind) ==
    CASE kind = "dots18" -> {<<0, 0>>, <<7, 0>>, <<8, 0>>, <<639, 1>>, <<0, 2>>}
      [] kind = "dots19" -> {<<0, 0>>, <<319, 0>>, <<0, 1>>, <<63, 199>>, <<64, 199>>}
      [] kind = "dots4"  -> {<<0, 0>>, <<3, 0>>, <<4, 0>>, <<0, 1>>, <<319, 199>>}
      [] kind = "planar" -> {<<1, 0>>, <<2, 0>>, <<9, 1>>}
      [] OTHER -> {}
\* The bytes at the two ends of the memory and those of the pixels.
DotBytes == {0, 1, 2, 3, 79, 80, 159, 160, 319, 320, 8192, 8193, 16191, 16192, 63743, 63744}
McMemory(kind) == IF kind \in {"dots4", "dots18", "dots19"} THEN DotBytes ELSE 0 .. Size(kind) - 1
\* Every cell, or byte, different; or, for pixels alone, clear.
McBench(kind) ==
    LET on == set_video_mode(PowerOn(kind, [a \in McMemory(kind) |-> {}]), ModeOf(kind))
    IN  IF McMemory(kind) = DotBytes THEN on ELSE
        [on EXCEPT !.mem = [a \in DOMAIN @ |-> IF IsText(on) THEN Cell(1000 + a, 2000 + a) ELSE Strip(NoFont, 1000 + a, 0, 0, 0)]]
McColour(table, entry) == <<table + 1, entry, 2 * entry % 64>>

Call(ah, al) == [Zero EXCEPT !.ah = ah, !.al = al]
Shape(ah, n, attr, upper, lower) == [Call(ah, n) EXCEPT !.bh = attr, !.at = upper, !.to = lower]
Goes(page, x, y) == [Call(2, 0) EXCEPT !.bh = page, !.at = <<x, y>>]
Writes(ah, page, n) == [Call(ah, 65) EXCEPT !.bh = page, !.bl = 20, !.count = n]
TypesOut(ch) == [Call(14, ch) EXCEPT !.bl = 21]
Strings(al, page, at, text) == [Call(19, al) EXCEPT !.bh = page, !.bl = 22, !.at = at, !.data = text]

TextMenu ==
    {Goes(0, 0, 0), Goes(0, 3, 2), Goes(1, 2, 2), Call(5, 0), Call(5, 1), Call(8, 0),
     Shape(6, 0, 30, <<0, 0>>, <<9, 9>>), Shape(6, 1, 31, <<1, 0>>, <<2, 2>>), Shape(6, 2, 32, <<0, 0>>, <<3, 9>>),
     Shape(7, 1, 33, <<0, 1>>, <<3, 2>>), Shape(7, 0, 34, <<1, 1>>, <<2, 1>>), Shape(7, 1, 35, <<0, 0>>, <<3, 2>>),
     Writes(9, 0, 2), Writes(9, 1, 3), Writes(10, 0, 6), TypesOut(65), TypesOut(LF), TypesOut(BS), TypesOut(CR),
     Strings(0, 0, <<3, 1>>, <<<<65>>, <<66>>>>), Strings(3, 0, <<0, 255>>, <<<<67, 40>>, <<LF, 41>>, <<68, 42>>>>),
     Strings(1, 1, <<1, 0>>, <<<<65>>, <<CR>>, <<BEL>>>>)}
RowsMenu ==
    {[Call(17, 18) EXCEPT !.bl = 0], [Call(17, 20) EXCEPT !.bl = 0], Goes(0, 0, 2), Goes(0, 3, 5), TypesOut(65), TypesOut(LF),
     Shape(6, 1, 31, <<0, 0>>, <<9, 9>>), Writes(9, 0, 5), Call(0, 3), Call(0, 131), Call(8, 0), TypesOut(TAB), Call(27, 0)}
GraphicsMenu ==
    {Goes(0, 0, 0), Goes(0, 1, 1), Shape(6, 0, 3, <<0, 0>>, <<9, 9>>), Shape(6, 1, 1, <<0, 0>>, <<9, 9>>),
     Shape(6, 0, 2, <<1, 0>>, <<1, 0>>), Shape(6, 1, 0, <<1, 0>>, <<1, 9>>), Shape(7, 1, 1, <<0, 1>>, <<9, 9>>),
     [Writes(9, 0, 5) EXCEPT !.bl = 3], [Writes(10, 0, 1) EXCEPT !.bl = 130], [TypesOut(66) EXCEPT !.bl = 129], TypesOut(LF)}

DotsMenu(kind) == {[Call(12, al) EXCEPT !.at = p] : al \in {1, 3, 130}, p \in McPoints(kind)} \cup {Call(13, 0)}
PlanarDots == {[Call(12, 3) EXCEPT !.at = <<1, 0>>], [Call(12, 130) EXCEPT !.at = <<9, 1>>]}

Ten(al, bl, bh, data) == [Call(16, al) EXCEPT !.bl = bl, !.bh = bh, !.data = data]
RegisterMenu ==
    {Call(0, 3), Call(0, 147), Call(0, 18), Call(1, 0), Call(5, 1),
     [Call(11, 0) EXCEPT !.bl = 25], [Call(11, 0) EXCEPT !.bh = 1, !.bl = 1],
     Ten(0, 3, 42, <<>>), Ten(0, 16, 201, <<>>), Ten(0, 21, 5, <<>>), Ten(1, 0, 9, <<>>), Ten(2, 0, 0, [i \in 1 .. 17 |-> 40 + i]),
     Ten(3, 0, 0, <<>>), Ten(7, 2, 0, <<>>), Ten(9, 0, 0, <<>>), Ten(16, 1, 0, <<<<9, 8, 7>>>>),
     Ten(18, 2, 0, <<<<1, 2, 3>>, <<4, 5, 6>>>>), Ten(19, 0, 1, <<>>), Ten(19, 1, 2, <<>>), Ten(21, 1, 0, <<>>),
     [Ten(23, 0, 0, <<>>) EXCEPT !.count = 2], Ten(24, 15, 0, <<>>), Ten(26, 0, 0, <<>>), [Ten(27, 1, 0, <<>>) EXCEPT !.count = 2],
     [Call(17, 18) EXCEPT !.bl = 1], [Call(17, 1) EXCEPT !.bl = 6], [Call(17, 3) EXCEPT !.bl = 4],
     [Call(17, 16) EXCEPT !.bh = 14, !.data = <<9, 65>>, !.count = 1], [Call(17, 0) EXCEPT !.bh = 16, !.data = <<8, 255>>, !.count = 2], [Call(17, 36) EXCEPT !.bl = 2], [Call(17, 32) EXCEPT !.data = <<5, 6>>],
     [Call(18, 1) EXCEPT !.bl = 49], [Call(18, 0) EXCEPT !.bl = 51], [Call(18, 1) EXCEPT !.bl = 50], [Call(18, 0) EXCEPT !.bl = 50],
     [Call(18, 0) EXCEPT !.bl = 52], [Call(18, 0) EXCEPT !.bl = 48]}

McMenu(kind) ==
    CASE kind = "text" -> TextMenu
      [] kind = "rows" -> RowsMenu
      [] kind = "planar" -> GraphicsMenu \cup PlanarDots
      [] kind \in {"cga2", "cga1", "linear"} -> GraphicsMenu
      [] kind \in {"dots4", "dots18", "dots19"} -> DotsMenu(kind)
      [] OTHER -> RegisterMenu
\* An index left waiting for its value, with the picture on or off; a colour
\* half written.
McPokes(kind) ==
    IF kind = "registers" THEN {<<<<ACTL_RESET>>, <<ACTL_ADDRESS, 34>>>>, <<<<ACTL_RESET>>, <<ACTL_ADDRESS, 1>>>>,
                                <<<<DAC_WRITE_ADDRESS, 1>>, <<DAC_DATA, 7>>>>}
    ELSE {}
McSaveSets(kind) == IF kind = "registers" THEN {1, 2, 3, 7} ELSE {}
=================================================================================
