-------------------------------- MODULE VgaText --------------------------------
(***************************************************************************)
(* The display BIOS: what it writes on the screen.  Text memory is counted *)
(* in words, a cell [ch, attr] each; graphics memory in bytes, each the    *)
(* set of marks whose pixels are combined in it, so that combining with    *)
(* XOR is the symmetric difference.  A mark is a strip of a character,     *)
(*   <<ch, colour, line, part, font, without>>,                            *)
(* without the pixels that were written since, a fill or such a pixel.     *)
(* Memory outside the adapter's does not change.                           *)
(***************************************************************************)
EXTENDS VgaState, FiniteSets

BEL == 7
BS  == 8
TAB == 9
LF  == 10
CR  == 13
Space == 32

Cell(ch, attr) == [ch |-> ch, attr |-> attr]
NoFont == <<0, 0>>
Strip(font, ch, colour, line, part) == {<<ch, colour, line, part, font, {}>>}
Fill(colour) == Strip(NoFont, -1, colour, 0, 0)
Dot(colour, field) == IF colour = 0 THEN {} ELSE Strip(NoFont, -2, colour, 0, field)
Both(a, b) == (a \ b) \cup (b \ a)

Peek(mem, a, beyond) == IF a \in DOMAIN mem THEN mem[a] ELSE beyond
memset(mem, at, v, n) == [a \in DOMAIN mem |-> IF a \in at .. at + n - 1 THEN v ELSE mem[a]]
Elsewhere == Cell(-1, -1)
\* Cells; source and destination never overlap.
memcpy(mem, to, from, n) ==
    [a \in DOMAIN mem |-> IF a \in to .. to + n - 1 THEN Peek(mem, from + a - to, Elsewhere) ELSE mem[a]]

nbrows(m) == m.bda.rows + 1
PageAt(size, page) == Word16(size * page) \div 2
TextAt(m, page, x, y) == (PageAt(m.bda.psize, page) + x + y * m.bda.cols) % 32768

-----------------------------------------------------------------------------
(* Graphics memory, as the services count it *)

Bpp(m) == Current(m).pixbits
Model(m) == Current(m).memmodel
IsPlanar(m) == Model(m) \in {"PLANAR4", "PLANAR1"}

\* Planar modes are written in a mode of the graphics controller's own, all
\* planes at once for a character; it is put back to mode 0, the replacing
\* function and the whole byte, whatever it was.
InPlanes(m, accesses) == IF IsPlanar(m) THEN Port(m, accesses) ELSE m
WriteMode(n) == Sets(GRDC_ADDRESS, 5, n)
Combined(mixes) == Sets(GRDC_ADDRESS, 3, IF mixes THEN 24 ELSE 0)
PutBack == Sets(GRDC_ADDRESS, 8, 255) \o WriteMode(0) \o Sets(GRDC_ADDRESS, 3, 0)

\* Bytes of a character's line, and the byte where line i of row y starts.
PartsOf(m) == CASE IsPlanar(m) -> 1 [] Model(m) = "CGA" -> Bpp(m) [] OTHER -> m.hw.dots
RowLine(m, x, y, i) ==
    LET A == m.hw
        cheight == Byte(m.bda.height)
        wide == m.bda.cols * PartsOf(m)
        rowAt == Word16((y % 256) * cheight * wide)
    IN  IF Model(m) = "CGA" THEN Word16(rowAt \div 2 + Byte(x * Bpp(m)) + A.bank * (i % 2) + (i \div 2) * wide)
        ELSE Word16(rowAt + x * PartsOf(m) + i * wide)
RowLines(m, x, y, cols) ==
    {<<i, RowLine(m, x, y, i) + k>> : i \in 0 .. Byte(m.bda.height) - 1, k \in 0 .. cols * PartsOf(m) - 1}

\* One row of characters, all of its lines.
vgamem_fill(m, mem, x, y, cols, attr) ==
    LET bytes == {p[2] : p \in RowLines(m, x, y, cols)}
        colour == IF IsPlanar(m) THEN attr % 16 ELSE attr
    IN  [a \in DOMAIN mem |-> IF a \in bytes THEN Fill(colour) ELSE mem[a]]
vgamem_copy(m, mem, x, ysrc, ydest, cols) ==
    LET lines == RowLines(m, x, ydest, cols)
        bytes == {p[2] : p \in lines}
        From(a) == LET i == (CHOOSE p \in lines : p[2] = a)[1] IN a + RowLine(m, x, ysrc, i) - RowLine(m, x, ydest, i)
    IN  [a \in DOMAIN mem |-> IF a \in bytes THEN Peek(mem, From(a), {}) ELSE mem[a]]
\* The whole screen, as so many bytes from the start of the memory.
ClearScreen(m, mem, attr) ==
    LET bytes == nbrows(m) * m.bda.cols * Byte(m.bda.height) * PartsOf(m)
    IN  memset(mem, 0, Fill(IF IsPlanar(m) THEN attr % 16 ELSE attr), bytes)

\* A character: CGA modes have 8 lines of the font of the BIOS, whatever the
\* one in use, and a pitch of their own; only linear modes know no XOR.
FontOf(m) == IF Model(m) = "CGA" THEN Vector(vgafont8) ELSE m.ivt.x43
CharLines(m) == IF Model(m) = "CGA" THEN 8 ELSE Byte(m.bda.height)
CharByte(m, x, y, i, k) ==
    LET A == m.hw
        wide == m.bda.cols * PartsOf(m)
    IN  Word16(IF Model(m) = "CGA" THEN x * Bpp(m) + y * A.pitch * 4 + (i \div 2) * A.pitch + A.bank * (i % 2) + k
               ELSE x * PartsOf(m) + y * CharLines(m) * wide + i * wide + k)
Ink(m, attr) ==
    CASE IsPlanar(m) -> attr % 16
      [] Model(m) = "CGA" -> IF Bpp(m) = 1 THEN attr % 2 ELSE attr % 4
      [] OTHER -> attr
Mixes(m, attr) == attr >= 128 /\ Model(m) # "LINEAR8"
write_gfx_char(m, ch, attr, x, y) ==
    LET strips == {<<i, k>> : i \in 0 .. CharLines(m) - 1, k \in 0 .. PartsOf(m) - 1}
        At(s) == CharByte(m, x, y, s[1], s[2])
        Drawn(old, s) == LET new == Strip(FontOf(m), ch, Ink(m, attr), s[1], s[2])
                         IN  IF Mixes(m, attr) THEN Both(old, new) ELSE new
        bytes == {At(s) : s \in strips}
        drawn == [m EXCEPT !.mem = [a \in DOMAIN @ |->
                     IF a \in bytes THEN Drawn(m.mem[a], CHOOSE s \in strips : At(s) = a) ELSE m.mem[a]]]
    IN  InPlanes(drawn, Sets(SEQU_ADDRESS, 2, 15) \o WriteMode(2) \o Combined(Mixes(m, attr)) \o PutBack)

-----------------------------------------------------------------------------
(* AH=06h, 07h *)

\* Downwards from row 0 the row counter wraps, and the loop's body runs once
\* more before the test that ends it.
RowOrder(first, last, up) ==
    IF up THEN [k \in 1 .. last - first + 1 |-> first + k - 1]
    ELSE [k \in 1 .. last - first + 1 |-> last - k + 1] \o (IF first = 0 THEN <<65535>> ELSE <<>>)
Empties_Late(w, i) == w.n = 0 \/ (IF w.up THEN i + w.n > w.rlr + 1 ELSE i < w.rul + w.n)
Empties(w, i) == w.n = 0 \/ (IF w.up THEN i + w.n > w.rlr ELSE i < w.rul + w.n)
SourceRow(w, i) == IF w.up THEN i + w.n ELSE i - w.n
\* Text goes to the page asked for and comes from the first page; in graphics
\* the row counted downwards is the one copied from.
EmptyRow(m, mem, w, i) ==
    IF IsText(m) THEN memset(mem, TextAt(m, w.page, w.cul, i), Cell(Space, w.attr), w.cols)
    ELSE vgamem_fill(m, mem, w.cul, i, w.cols, w.attr)
CopyRow(m, mem, w, i) ==
    CASE IsText(m) -> memcpy(mem, TextAt(m, w.page, w.cul, i), TextAt(m, 0, w.cul, SourceRow(w, i)), w.cols)
      [] ~IsText(m) /\ w.up -> vgamem_copy(m, mem, w.cul, i + w.n, i, w.cols)
      [] OTHER -> vgamem_copy(m, mem, w.cul, i, i - w.n, w.cols)
ScrollRows(m, w) ==
    LET order == RowOrder(w.rul, w.rlr, w.up)
        after[k \in 0 .. Len(order)] ==
            IF k = 0 THEN m.mem
            ELSE IF Empties(w, order[k]) THEN EmptyRow(m, after[k - 1], w, order[k]) ELSE CopyRow(m, after[k - 1], w, order[k])
    IN  after[Len(order)]
\* The write mode each row is done in.
RowModes(w) ==
    LET order == RowOrder(w.rul, w.rlr, w.up)
        after[k \in 0 .. Len(order)] ==
            IF k = 0 THEN <<>> ELSE after[k - 1] \o WriteMode(IF Empties(w, order[k]) THEN 2 ELSE 1) \o WriteMode(0)
    IN  after[Len(order)]
EmptyScreen(m, w) ==
    IF IsText(m) THEN memset(m.mem, PageAt(m.bda.psize, w.page), Cell(Space, w.attr), nbrows(m) * m.bda.cols)
    ELSE ClearScreen(m, m.mem, w.attr)

PageOf(m, page) == IF page = 255 THEN m.bda.page ELSE page
Least(a, b) == IF a < b THEN a ELSE b
scroll(m, nblines, attr, upper, lower, page, up) ==
    LET rlr == Least(lower[2], nbrows(m) - 1)
        clr == Least(lower[1], m.bda.cols - 1)
        n   == IF nblines > nbrows(m) THEN 0 ELSE nblines
        w   == [n |-> n, attr |-> attr, rul |-> upper[2], cul |-> upper[1], rlr |-> rlr,
                cols |-> Byte(clr - upper[1] + 1), page |-> PageOf(m, page), up |-> up,
                whole |-> n = 0 /\ upper = <<0, 0>> /\ rlr = nbrows(m) - 1 /\ clr = m.bda.cols - 1]
    IN  IF upper[2] > lower[2] \/ upper[1] > lower[1] \/ ~Known(m, m.bda.mode) THEN m
        ELSE InPlanes([m EXCEPT !.mem = IF w.whole THEN EmptyScreen(m, w) ELSE ScrollRows(m, w)],
                      IF w.whole THEN WriteMode(2) \o WriteMode(0) ELSE RowModes(w))

-----------------------------------------------------------------------------
(* AH=08h, 09h, 0Ah *)

AtCursor(m, page) == LET at == get_cursor_pos(m, page) IN TextAt(m, page, at[1], at[2])
read_char_attr(m, page) == Peek(m.mem, AtCursor(m, page), Elsewhere)

\* Graphics characters stop at the end of their row.
WriteRow(m, ch, attr, at, count) ==
    LET n == IF at[1] >= m.bda.cols THEN 0 ELSE Least(count, m.bda.cols - at[1])
        after[i \in 0 .. n] == IF i = 0 THEN m ELSE write_gfx_char(after[i - 1], ch, attr, at[1] + i - 1, at[2])
    IN  after[n]
write_char_attr(m, ch, page, attr, count) ==
    IF ~Known(m, m.bda.mode) THEN m
    ELSE IF IsText(m) THEN [m EXCEPT !.mem = memset(@, AtCursor(m, page), Cell(ch, attr), count)]
    ELSE WriteRow(m, ch, attr, get_cursor_pos(m, page), count)
write_char_only(m, ch, page, attr, count) ==
    IF ~Known(m, m.bda.mode) THEN m
    ELSE IF IsText(m)
    THEN LET first == AtCursor(m, page)
         IN  [m EXCEPT !.mem = [a \in DOMAIN @ |-> IF a \in first .. first + count - 1 THEN [@[a] EXCEPT !.ch = ch] ELSE @[a]]]
    ELSE WriteRow(m, ch, attr, get_cursor_pos(m, page), count)

-----------------------------------------------------------------------------
(* AH=0Ch, 0Dh: a pixel is a field of a byte *)

Xor(a, b) ==
    LET sum[k \in 0 .. 8] == IF k = 0 THEN 0 ELSE sum[k - 1] + ((Bit(a, k - 1) + Bit(b, k - 1)) % 2) * 2 ^ (k - 1)
    IN  sum[8]
PerByte(m) == IF IsPlanar(m) THEN 8 ELSE IF Model(m) = "CGA" THEN 8 \div Bpp(m) ELSE 1
PixelAt(m, x, y, perByte) ==
    IF Model(m) = "CGA" THEN Word16((x \div perByte) + (y \div 2) * 80 + 8192 * (y % 2))
    ELSE Word16(x \div perByte + y * m.bda.cols * (8 \div perByte))
Field(m, x) == x % PerByte(m)
\* The dot in a field of a byte, the byte without that field, and the dot
\* combined with another.
IsDot(mark, field) == mark[1] = -2 /\ mark[4] = field
DotIn(byte, field) == LET dots == {mark \in byte : IsDot(mark, field)} IN IF dots = {} THEN 0 ELSE (CHOOSE d \in dots : TRUE)[2]
Without(byte, field) ==
    {[mark EXCEPT ![6] = @ \cup {field}] : mark \in {t \in byte : t[1] # -2}} \cup {t \in byte : t[1] = -2 /\ t[4] # field}
Mixed(byte, colour, field) == {mark \in byte : ~IsDot(mark, field)} \cup Dot(Xor(DotIn(byte, field), colour), field)
write_pixel(m, al, x, y) ==
    LET a == PixelAt(m, x, y, PerByte(m))
        field == Field(m, x)
        New(byte) == IF Mixes(m, al) THEN Mixed(byte, Ink(m, al), field) ELSE Without(byte, field) \cup Dot(Ink(m, al), field)
        Written == [m EXCEPT !.mem = IF a \in DOMAIN @ THEN [@ EXCEPT ![a] = New(@)] ELSE @]
        Mask == Sets(GRDC_ADDRESS, 8, 2 ^ (7 - (x % 8))) \o WriteMode(2)
    IN  IF ~Known(m, m.bda.mode) \/ IsText(m) THEN m
        ELSE InPlanes(Written, Mask \o (IF Mixes(m, al) THEN Combined(TRUE) ELSE <<>>) \o PutBack)
\* What a fill shows in a field.
FillAt(m, byte, field) ==
    LET fills == {mark \in byte : mark[1] = -1 /\ field \notin mark[6]}
        colour == (CHOOSE mark \in fills : TRUE)[2]
    IN  IF fills = {} THEN 0
        ELSE IF Model(m) = "CGA" THEN (colour \div 2 ^ (Bpp(m) * (PerByte(m) - 1 - field))) % 2 ^ Bpp(m) ELSE colour
\* The characters in a field: one combined with itself is not there.
Glyphs(byte, field) ==
    LET here == {mark \in byte : mark[1] >= 0 /\ field \notin mark[6]}
        whole == {[mark EXCEPT ![6] = {}] : mark \in here}
    IN  {w \in whole : Cardinality({mark \in here : [mark EXCEPT ![6] = {}] = w}) % 2 = 1}
\* What a pixel is of: the characters combined in it, and a colour.  The
\* byte of a CGA pixel is looked for as if there were four in each.
read_pixel(m, x, y) ==
    LET byte == Peek(m.mem, PixelAt(m, x, y, IF Model(m) = "CGA" THEN 4 ELSE PerByte(m)), {})
        field == Field(m, x)
    IN  <<Glyphs(byte, field), Xor(FillAt(m, byte, field), DotIn(byte, field))>>
\* Planes are read one by one; the last stays selected.
PlanesRead(m) ==
    IF ~Known(m, m.bda.mode) \/ IsText(m) THEN m
    ELSE InPlanes(m, Sets(GRDC_ADDRESS, 4, 0) \o Sets(GRDC_ADDRESS, 4, 1) \o Sets(GRDC_ADDRESS, 4, 2) \o Sets(GRDC_ADDRESS, 4, 3))

-----------------------------------------------------------------------------
(* AH=0Eh, 13h *)

Put(m, ch, page, attr, coloured, at) ==
    IF IsText(m)
    THEN LET a == TextAt(m, page, at[1], at[2])
         IN  IF a \in DOMAIN m.mem THEN [m EXCEPT !.mem[a] = Cell(ch, IF coloured THEN attr ELSE @.attr)] ELSE m
    ELSE write_gfx_char(m, ch, attr, at[1], at[2])

Moved(ch, at) ==
    CASE ch = BEL -> at
      [] ch = BS  -> IF at[1] > 0 THEN <<at[1] - 1, at[2]>> ELSE at
      [] ch = CR  -> <<0, at[2]>>
      [] ch = LF  -> <<at[1], at[2] + 1>>
      [] OTHER    -> <<at[1] + 1, at[2]>>
Wrapped(m, at) == IF at[1] = m.bda.cols THEN <<0, at[2] + 1>> ELSE at

\* The new row takes the attribute found at the cursor, where the page is
\* thought to start: only the printing of a character reads its size.
AttributeAt(m, a) == Peek(m.mem, a % 32768, Elsewhere).attr
RowScrolled(m, page, at, size) ==
    LET attr == IF IsText(m) THEN AttributeAt(m, PageAt(size, page) + at[1] + (at[2] - 1) * m.bda.cols) ELSE 0
    IN  scroll(m, 1, attr, <<0, 0>>, <<m.bda.cols - 1, nbrows(m) - 1>>, page, TRUE)
Controls == {BEL, BS, CR, LF, TAB}
TypeOne(m, ch, page, attr, coloured, stray) ==
    LET from == get_cursor_pos(m, page)
        put  == IF ch \in Controls THEN m ELSE Put(m, ch, page, attr, coloured, from)
        at   == Wrapped(m, Moved(ch, from))
        size == IF ch \in Controls THEN stray ELSE m.bda.psize
        below == at[2] = nbrows(m)
    IN  set_cursor_pos(IF below THEN RowScrolled(put, page, at, size) ELSE put, page,
                       IF below THEN <<at[1], at[2] - 1>> ELSE at)
\* A tab types a space, and another one for as long as that ends on a stop:
\* two at most on the eight pages, since no width is one more than a stop.
\* What follows finds the cursor wrapped and scrolled, and puts it there again.
write_teletype(m, ch, asked, attr, coloured, stray) ==
    LET page == PageOf(m, asked)
        One(n) == TypeOne(n, IF ch = TAB THEN Space ELSE ch, page, attr, coloured, stray)
        Again(n) == IF ch = TAB /\ get_cursor_pos(n, page)[1] % m.hw.tab = 0 THEN One(n) ELSE n
    IN  IF Known(m, m.bda.mode) THEN Again(One(m)) ELSE m

\* `flag` is <<the cursor follows, the string has attributes>>.
write_string(m, flag, page, attr, text, to, stray) ==
    LET old   == get_cursor_pos(m, page)
        start == set_cursor_pos(m, page, IF to[2] = 255 THEN old ELSE to)
        after[i \in 0 .. Len(text)] ==
            IF i = 0 THEN start
            ELSE write_teletype(after[i - 1], text[i][1], page, IF flag[2] THEN text[i][2] ELSE attr, TRUE, stray)
        Back(n) == IF flag[1] THEN n ELSE set_cursor_pos(n, page, old)
    IN  Back(after[Len(text)])
=================================================================================
