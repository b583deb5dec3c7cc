------------------------------ MODULE VgaPromises ------------------------------
(***************************************************************************)
(* What the services of the display BIOS promise, said on the matrix of    *)
(* cells that the adapter shows and on the registers' contents, and the    *)
(* properties that hold the services to it.                                *)
(***************************************************************************)
EXTENDS Vga

-----------------------------------------------------------------------------
(* The matrix on the screen *)

Places(m) == (0 .. m.bda.cols - 1) \X (0 .. nbrows(m) - 1)
\* The byte the adapter shows at a scan line and a place in it.
ShownByte(m, line, part) ==
    LET wide == m.bda.cols * PartsOf(m)
    IN  IF Model(m) = "CGA" THEN (line % 2) * m.hw.bank + (line \div 2) * wide + part ELSE line * wide + part
Strips(m) == (0 .. CharLines(m) - 1) \X (0 .. PartsOf(m) - 1)
Grid(m, page) ==
    [p \in Places(m) |->
        IF IsText(m) THEN m.mem[(m.bda.psize \div 2) * page + p[2] * m.bda.cols + p[1]]
        ELSE [s \in Strips(m) |-> m.mem[ShownByte(m, p[2] * CharLines(m) + s[1], p[1] * PartsOf(m) + s[2])]]]

Blank(m, attr) ==
    IF IsText(m) THEN Cell(Space, attr) ELSE [s \in Strips(m) |-> Fill(IF IsPlanar(m) THEN attr % 16 ELSE attr)]
Glyph(m, old, ch, attr, coloured) ==
    IF IsText(m) THEN Cell(ch, IF coloured THEN attr ELSE old.attr)
    ELSE [s \in Strips(m) |-> LET new == Strip(FontOf(m), ch, Ink(m, attr), s[1], s[2])
                              IN  IF Mixes(m, attr) THEN Both(old[s], new) ELSE new]

Moves(m, g, n, attr, upper, lower, up) ==
    LET In(p) == p \in Places(m) /\ p[1] \in upper[1] .. lower[1] /\ p[2] \in upper[2] .. lower[2]
        From(p) == <<p[1], IF up THEN p[2] + n ELSE p[2] - n>>
    IN  [p \in Places(m) |-> IF ~In(p) THEN g[p] ELSE IF n > 0 /\ In(From(p)) THEN g[From(p)] ELSE Blank(m, attr)]
\* Text runs on at the end of a row, graphics characters do not.
Repeats(m, g, at, ch, attr, coloured, n) ==
    LET Index(p) == p[2] * m.bda.cols + p[1]
        In(p) == Index(p) \in Index(at) .. Index(at) + n - 1 /\ (IsText(m) \/ p[2] = at[2])
    IN  [p \in Places(m) |-> IF In(p) THEN Glyph(m, g[p], ch, attr, coloured) ELSE g[p]]
\* s = [g, at, rolled]: the matrix, the cursor, and whether it ever scrolled.
Types(m, s, ch, attr, coloured) ==
    LET printed == IF ch \in Controls THEN s.g ELSE [s.g EXCEPT ![s.at] = Glyph(m, @, ch, attr, coloured)]
        x == CASE ch = CR -> 0 [] ch = BS /\ s.at[1] > 0 -> s.at[1] - 1 [] ch \in {BS, BEL, LF} -> s.at[1] [] OTHER -> s.at[1] + 1
        y == s.at[2] + Flag(ch = LF) + Flag(x = m.bda.cols)
        col == x % m.bda.cols
        last == nbrows(m) - 1
        attrOf == IF IsText(m) THEN printed[<<col, last>>].attr ELSE 0
    IN  IF y <= last THEN [s EXCEPT !.g = printed, !.at = <<col, y>>]
        ELSE [g |-> Moves(m, printed, 1, attrOf, <<0, 0>>, <<m.bda.cols - 1, last>>, TRUE), at |-> <<col, last>>, rolled |-> TRUE]

\* The page a call is about, and what it promises of it.
PageFor(m, c) == IF c.ah \in {6, 7, 14} THEN m.bda.page ELSE c.bh
Promised(m, c) ==
    LET page  == PageFor(m, c)
        now   == [g |-> Grid(m, IF IsText(m) THEN page ELSE 0), at |-> m.bda.cursor[page], rolled |-> FALSE]
        start == [now EXCEPT !.at = IF c.at[2] = 255 THEN @ ELSE c.at]
        typed[i \in 0 .. Len(c.data)] ==
            IF i = 0 THEN start
            ELSE Types(m, typed[i - 1], c.data[i][1], IF Bit(c.al, 1) = 1 THEN c.data[i][2] ELSE c.bl, TRUE)
        string == typed[Len(c.data)]
    IN  CASE c.ah \in {6, 7} -> [now EXCEPT !.g = Moves(m, @, c.al, c.bh, c.at, c.to, c.ah = 6), !.rolled = TRUE]
          [] c.ah = 9  -> [now EXCEPT !.g = Repeats(m, @, now.at, c.al, c.bl, TRUE, c.count)]
          [] c.ah = 10 -> [now EXCEPT !.g = Repeats(m, @, now.at, c.al, c.bl, FALSE, c.count)]
          [] c.ah = 14 -> Types(m, now, c.al, c.bl, FALSE)
          [] c.ah = 19 -> IF Bit(c.al, 0) = 1 THEN string ELSE [string EXCEPT !.at = now.at]

Draws == {6, 7, 9, 10, 14, 19}
\* What the code is known to do otherwise: a text page other than the first
\* is scrolled from the first, graphics scroll down the wrong way, and a
\* cleared CGA screen keeps its last lines, a tab is a space or two.  And
\* what a caller may do: repeat a character past the end of its page, or
\* write at a cursor that a change of height left below the screen.
RunsOver(m, c) ==
    LET at == m.bda.cursor[c.bh] IN c.ah \in {9, 10} /\ at[2] * m.bda.cols + at[1] + c.count > nbrows(m) * m.bda.cols
OffScreen(m, c) == c.ah \notin {6, 7} /\ m.bda.cursor[PageFor(m, c)] \notin Places(m)
KnownOtherwise(m, c) ==
    \/ OffScreen(m, c)
    \/ c.ah = 14 /\ c.al = TAB
    \/ IsText(m) /\ (RunsOver(m, c) \/ (PageFor(m, c) # 0 /\ Promised(m, c).rolled))
    \/ ~IsText(m) /\ (c.ah = 7 \/ (Model(m) = "CGA" /\ c.ah = 6 /\ c.al = 0))
Drawn(m, c, n) ==
    LET page == PageFor(m, c)
        told == Promised(m, c)
        Other == IF IsText(m) THEN 0 .. 1 \ {page} ELSE {}
    IN  /\ Grid(n, IF IsText(m) THEN page ELSE 0) = told.g
        /\ n.bda.cursor = [m.bda.cursor EXCEPT ![page] = told.at]
        /\ \A p \in Other : Grid(n, p) = Grid(m, p)
\* A pixel written reads back, whatever was drawn over or under it, and no
\* other changes.
Dotted(m, c, n) ==
    \A q \in Points(m.kind) :
        LET old == read_pixel(m, q[1], q[2])
            ink == Ink(m, c.al)
        IN  read_pixel(n, q[1], q[2]) =
                IF q # c.at THEN old ELSE IF Mixes(m, c.al) THEN <<old[1], Xor(old[2], ink)>> ELSE <<{}, ink>>

\* However a sequence of calls, pages, windows, wraps and control characters
\* goes, a drawing call changes the matrix of its page and that page's
\* cursor as promised, and nothing of the other page; a character read is
\* the one shown at the cursor; a pixel written reads back and disturbs no
\* other (scroll, write_*, write_gfx_char_*, write_teletype, write_string).
ScreenStep ==
    CASE call'.ah \in Draws -> KnownOtherwise(vga, call') \/ Drawn(vga, call', vga')
      [] call'.ah = 8 /\ IsText(vga) /\ ~OffScreen(vga, call') -> reply' = <<Grid(vga, call'.bh)[vga.bda.cursor[call'.bh]]>>
      [] call'.ah = 12 -> Dotted(vga, call', vga')
      [] call'.ah = 0  -> call'.al >= 128 => vga'.mem = vga.mem
      [] OTHER -> vga'.mem = vga.mem
ScreenExact == [][ScreenStep]_vars

\* In text modes the adapter shows the page the data area calls active, from
\* its first cell, with its cursor where that page's writing goes on
\* (set_cursor_pos, biosfn_set_active_page, set_scan_lines), as long as
\* programs leave the registers to the BIOS and change the height of the
\* characters on the first page only.
Pair(crt, i) == 256 * crt[i] + crt[i + 1]
PageInSight ==
    IsText(vga) /\ Pokes(vga.kind) = {} =>
        LET first == (vga.bda.psize \div 2) * vga.bda.page
            at    == vga.bda.cursor[vga.bda.page]
        IN  /\ Pair(vga.reg.crt, 12) = first
            /\ Pair(vga.reg.crt, 14) = first + at[2] * vga.bda.cols + at[1]

-----------------------------------------------------------------------------
(* The registers' contents *)

Contents(r) ==
    [misc |-> r.misc, seq |-> [i \in {1, 2, 4} |-> r.seq[i]], gr |-> r.gr, act |-> r.act, video |-> r.video,
     dac |-> r.dac, pel |-> r.pel, crt |-> [i \in {7, 18} |-> r.crt[i]], lines |-> r.crt[9] % 32]

Greyed(dac, first, n) ==
    [i \in DOMAIN dac |-> IF \E k \in 0 .. n - 1 : i = (first + k) % DacSize
                          THEN LET g == Luma(dac[i]) IN <<g, g, g>> ELSE dac[i]]
Table(v) == [i \in 0 .. DacSize - 1 |-> IF i <= Filled(v.dacmodel) THEN Colour(v.dacmodel, i) ELSE BlackEntry]
ModeColours(m, v) ==
    CASE Bit(m.bda.modeset, 3) = 1 -> m.reg.dac
      [] Bit(m.bda.modeset, 1) = 1 -> Greyed(Table(v), 0, DacSize)
      [] OTHER -> Table(v)
OfMode(m, v) ==
    [misc |-> v.misc, seq |-> [i \in {1, 2, 4} |-> v.sequ[i]], gr |-> [i \in 0 .. 8 |-> v.grdc[i + 1]],
     act |-> [i \in 0 .. 20 |-> IF i = 20 THEN 0 ELSE v.actl[i + 1]], video |-> TRUE, dac |-> ModeColours(m, v),
     pel |-> IF Bit(m.bda.modeset, 3) = 1 THEN m.reg.pel ELSE 255,
     crt |-> [i \in {7, 18} |-> v.crtc[i]], lines |-> v.crtc[9] % 32]

\* The contents after a call, from those before it.
Attributes(k, changed) == [k EXCEPT !.act = [i \in DOMAIN @ |-> IF i \in DOMAIN changed THEN changed[i] ELSE @[i]], !.video = TRUE]
PaletteTable(data) == [i \in (0 .. 15) \cup {17} |-> IF i = 17 THEN data[17] ELSE data[i + 1] % 64]
CgaBits(k, bit, b) == [i \in 1 .. 3 |-> WithBit(k.act[i], bit, b)]
Page(k, bh) == IF Bit(k.act[16], 7) = 1 THEN bh % 16 ELSE (4 * bh) % 16
Asked10(k, c) ==
    CASE c.al = 0  -> IF c.bl > 20 THEN k ELSE Attributes(k, c.bl :> ActKeeps(c.bl, c.bh))
      [] c.al = 1  -> Attributes(k, 17 :> c.bh)
      [] c.al = 2  -> Attributes(k, PaletteTable(c.data))
      [] c.al = 3  -> Attributes(k, 16 :> WithBit(k.act[16], 3, Bit(c.bl, 0)))
      [] c.al = 7 /\ c.bl > 20 -> k
      [] c.al \in {7, 8, 9, 26} -> Attributes(k, <<>>)
      [] c.al \in {16, 18} ->
             [k EXCEPT !.dac = [i \in DOMAIN @ |-> IF i - c.bl \in 0 .. Len(c.data) - 1 THEN c.data[i - c.bl + 1] ELSE @[i]]]
      [] c.al = 19 -> Attributes(k, IF Bit(c.bl, 0) = 0 THEN 16 :> WithBit(k.act[16], 7, Bit(c.bh, 0)) ELSE 20 :> Page(k, c.bh))
      [] c.al = 24 -> [k EXCEPT !.pel = c.bl]
      [] c.al = 27 -> [Attributes(k, <<>>) EXCEPT !.dac = Greyed(@, c.bl, c.count)]
      [] OTHER -> k
FontLines(c) == CASE c.al % 16 = 0 -> c.bh [] c.al % 16 = 1 -> 14 [] c.al % 16 = 2 -> 8 [] OTHER -> 16
AskedOf(m, c) ==
    LET k == Contents(m.reg)
    IN  CASE c.ah = 0 /\ Known(m, c.al % 128) -> OfMode(m, Modes(m)[c.al % 128])
          [] c.ah = 13 /\ IsPlanar(m) -> [k EXCEPT !.gr[4] = 3]
          [] c.ah = 11 /\ c.bh = 0 -> Attributes(k, (0 :> ((c.bl % 16) + 8 * Bit(c.bl, 3)) % 64) @@ CgaBits(k, 4, Bit(c.bl, 4)))
          [] c.ah = 11 /\ c.bh = 1 -> Attributes(k, CgaBits(k, 0, Bit(c.bl, 0)))
          [] c.ah = 16 -> Asked10(k, c)
          [] c.ah = 17 /\ c.al \in 16 .. 20 -> [k EXCEPT !.lines = FontLines(c) - 1]
          [] c.ah = 18 /\ c.bl = 50 -> [k EXCEPT !.misc = WithBit(@, 1, 1 - Bit(c.al, 0))]
          [] OTHER -> k
AnsweredOf(m, c) ==
    LET k == Contents(m.reg)
    IN  CASE c.ah = 16 /\ c.al \in {7, 8} -> <<k.act[IF c.al = 8 THEN 17 ELSE c.bl]>>
          [] c.ah = 16 /\ c.al = 9  -> [i \in 1 .. 17 |-> k.act[IF i = 17 THEN 17 ELSE i - 1]]
          [] c.ah = 16 /\ c.al = 21 -> <<k.dac[c.bl]>>
          [] c.ah = 16 /\ c.al = 23 -> [i \in 1 .. c.count |-> k.dac[(c.bl + i - 1) % DacSize]]
          [] OTHER -> reply'
\* The character sets after a call: a mode loads set 0, a font call its own
\* or the characters it was asked for, unless the memory is closed to programs.
Replaced(font, from, first, n) ==
    [b \in 0 .. 7 |-> [ch \in Sampled |-> IF 256 * b + ch \in first .. first + n - 1 THEN from ELSE font[b][ch]]]
LoadedOf(m, c) ==
    LET from  == CASE c.al \in {0, 16} -> c.data[1] [] c.al \in {1, 17} -> vgafont14 [] c.al \in {2, 18} -> vgafont8 [] OTHER -> vgafont16
        first == 256 * (2 * (c.bl % 4) + Bit(c.bl, 2))
    IN  CASE c.ah = 0 /\ Known(m, c.al % 128) /\ Modes(m)[c.al % 128].class = "TEXT" -> Replaced(m.font, vgafont16, 0, 256)
          [] c.ah = 17 /\ c.al \in {0, 16} /\ Bit(m.reg.misc, 1) = 1 -> Replaced(m.font, from, first + c.data[2], c.count)
          [] c.ah = 17 /\ c.al \in {1, 2, 4, 17, 18, 20} /\ Bit(m.reg.misc, 1) = 1 -> Replaced(m.font, from, first, 256)
          [] OTHER -> m.font

\* In the colour modes a call leaves in every register exactly what it was
\* asked for and the rest as it was, with the picture on if it touched the
\* attribute controller, whichever way round its port was left, whatever is
\* locked in the CRTC and however far a colour was written; and what it
\* reads is what is there (biosfn_set_video_mode, biosfn_group_10, _0B, the
\* font and the AH=12h services).
RegistersStep ==
    \/ call'.ah \in {255, 28}
    \/ call'.ah = 17 /\ ~IsText(vga)
    \/ /\ Contents(vga'.reg) = AskedOf(vga, call')
       /\ vga'.font = LoadedOf(vga, call')
       /\ reply' = AnsweredOf(vga, call')
RegistersExact == [][RegistersStep]_vars

\* What AH=1Ch saved it puts back, whatever was set or shown meanwhile: the
\* registers (11h of the CRTC excepted) and the data area and font vectors,
\* each if it was asked for, and the PEL mask wherever it is in the buffer
\* (biosfn_save_video_state, biosfn_restore_video_state).
Saved(r) ==
    [seq |-> r.seq, gr |-> r.gr, act |-> [i \in 0 .. 19 |-> r.act[i]], video |-> r.video,
     crt |-> [i \in CrtKept \ {17} |-> r.crt[i]], ix |-> <<r.seqIx, r.grIx, r.crtIx>>]
RestoreStep ==
    call'.ah = 28 /\ call'.al = 2 =>
        /\ Bit(kept.cx, 0) = 1 => Saved(vga'.reg) = Saved(kept.was.reg)
        /\ Bit(kept.cx, 1) = 1 => vga'.bda = [kept.was.bda EXCEPT !.dcc = vga.bda.dcc] /\ vga'.ivt = kept.was.ivt
        /\ Bit(kept.cx, 2) = 1 => vga'.reg.pel = kept.was.reg.pel
RestoredAsSaved == [][RestoreStep]_vars
=================================================================================
