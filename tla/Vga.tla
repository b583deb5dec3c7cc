---------------------------------- MODULE Vga ----------------------------------
(***************************************************************************)
(* The display BIOS as programs use it: INT 10h services one after the     *)
(* other on one machine, and between them programs that write the          *)
(* adapter's ports themselves.  `kind` picks the machine, its modes and    *)
(* what is asked of it; at most MaxCalls services are asked for.           *)
(*                                                                         *)
(* A call is a record                                                      *)
(*   [ah, al, bh, bl, count, at, to, data]                                 *)
(* with positions <<column, row>> in `at` and `to` and a table in `data`.  *)
(***************************************************************************)
EXTENDS VgaText

CONSTANTS Kinds,
          Bench(_),         \* the machine of a kind
          Menu(_),          \* the calls made on it
          Pokes(_),         \* the accesses programs make to its ports
          SaveSets(_),      \* the parts of the state saved, as CX of AH=1Ch
          Points(_),        \* the pixels looked at
          Strays,           \* what an uninitialized page size may hold
          MaxCalls

VARIABLES vga,              \* the machine
          call,             \* the last call
          reply,            \* what it answered
          kept,             \* the state saved: [cx, was, bytes], or NotKept
          count             \* services asked for

vars == <<vga, call, reply, kept, count>>

Zero == [ah |-> 255, al |-> 0, bh |-> 0, bl |-> 0, count |-> 0, at |-> <<0, 0>>, to |-> <<0, 0>>, data |-> <<>>]
NotKept == [cx |-> 0]

-----------------------------------------------------------------------------
(* The dispatcher *)

group_0B(m, c) ==
    CASE c.bh = 0 -> [m EXCEPT !.reg = set_border_color(@, c.bl)]
      [] c.bh = 1 -> [m EXCEPT !.reg = set_palette(@, c.bl)]
      [] OTHER    -> m

LookedAll(r) ==
    LET after[i \in 0 .. 16] == IF i = 0 THEN r ELSE Does(after[i - 1], <<<<ACTL_RESET>>, <<ACTL_ADDRESS, i - 1>>>>)
    IN  Looked(after[16], 17)
group_10(r, c) ==
    CASE c.al = 0  -> set_single_palette_reg(r, c.bl, c.bh)
      [] c.al = 1  -> set_single_palette_reg(r, 17, c.bh)
      [] c.al = 2  -> set_all_palette_reg(r, c.data)
      [] c.al = 3  -> toggle_intensity(r, c.bl)
      [] c.al = 7  -> get_single_palette_reg(r, c.bl)
      [] c.al = 8  -> get_single_palette_reg(r, 17)
      [] c.al = 9  -> LookedAll(r)
      [] c.al = 16 -> set_single_dac_reg(r, c.bl, c.data[1])
      [] c.al = 18 -> set_all_dac_reg(r, c.bl, c.data)
      [] c.al = 19 -> select_video_dac_color_page(r, c.bl, c.bh)
      [] c.al = 21 -> read_all_dac_reg(r, c.bl, 1)
      [] c.al = 23 -> read_all_dac_reg(r, c.bl, c.count)
      [] c.al = 24 -> Out(r, PEL_MASK, c.bl)
      [] c.al = 26 -> Looked(Looked(r, 16), 20)
      [] c.al = 27 -> perform_gray_scale_summing(r, c.bl, c.count)
      [] OTHER     -> r

\* The font loaded, its height, the first character and their number: the
\* caller's, or all of one of the BIOS.
FontAsked(c) ==
    CASE c.al \in {0, 16} -> <<c.data[1], c.bh, c.data[2], c.count>>
      [] c.al \in {1, 17, 34} -> <<vgafont14, 14, 0, 256>>
      [] c.al \in {2, 18, 35} -> <<vgafont8, 8, 0, 256>>
      [] OTHER -> <<vgafont16, 16, 0, 256>>
group_11(m, c) ==
    CASE c.al \in {0, 1, 2, 4, 16, 17, 18, 20} ->
             LET asked == FontAsked(c) IN load_text_pat(m, c.al, asked[1], asked[2], c.bl, asked[3], asked[4])
      [] c.al = 3  -> set_text_block_specifier(m, c.bl)
      [] c.al = 32 -> load_gfx_8_8_chars(m, c.data)
      [] c.al = 33 -> load_gfx_user_chars(m, c.data, c.count, c.bl, c.bh)
      [] c.al \in 34 .. 36 -> LET asked == FontAsked(c) IN load_gfx_chars(m, asked[1], asked[2], c.bl)
      [] OTHER     -> m

group_12(m, c) ==
    CASE c.bl = 48 -> select_vert_res(m, c.al)
      [] c.bl = 49 -> enable_default_palette_loading(m, c.al)
      [] c.bl = 50 -> enable_video_addressing(m, c.al)
      [] c.bl = 51 -> enable_grayscale_summing(m, c.al)
      [] c.bl = 52 -> enable_cursor_emulation(m, c.al)
      [] OTHER     -> m

Int10(m, c, stray) ==
    CASE c.ah = 0  -> set_video_mode(m, c.al)
      [] c.ah = 1  -> set_cursor_shape(m, c.at[1], c.at[2])
      [] c.ah = 2  -> set_cursor_pos(m, c.bh, c.at)
      [] c.ah = 5  -> set_active_page(m, c.al)
      [] c.ah \in {6, 7} -> scroll(m, c.al, c.bh, c.at, c.to, 255, c.ah = 6)
      [] c.ah = 9  -> write_char_attr(m, c.al, c.bh, c.bl, c.count)
      [] c.ah = 10 -> write_char_only(m, c.al, c.bh, c.bl, c.count)
      [] c.ah = 11 -> group_0B(m, c)
      [] c.ah = 12 -> write_pixel(m, c.al, c.at[1], c.at[2])
      [] c.ah = 13 -> PlanesRead(m)
      [] c.ah = 14 -> write_teletype(m, c.al, 255, c.bl, FALSE, stray)
      [] c.ah = 16 -> [m EXCEPT !.reg = group_10(@, c)]
      [] c.ah = 17 -> group_11(m, c)
      [] c.ah = 18 -> group_12(m, c)
      [] c.ah = 19 -> write_string(m, <<Bit(c.al, 0) = 1, Bit(c.al, 1) = 1>>, c.bh, c.bl, c.data, c.at, stray)
      [] c.ah = 26 /\ c.al = 1 -> set_display_code(m, c.bl)
      [] OTHER     -> m

\* AL after a mode was asked for, known or not.
ModeSaid(mode) == IF mode = 6 THEN 63 ELSE IF mode \in 0 .. 7 THEN 48 ELSE 32
Reply(m, c) ==
    CASE c.ah = 0  -> <<ModeSaid(c.al % 128)>>
      [] c.ah = 3  /\ c.bh \in 0 .. 7 -> <<get_cursor_pos(m, c.bh), m.bda.type>>
      [] c.ah = 4  -> <<0, 0, 0, 0>>
      [] c.ah = 8  /\ Known(m, m.bda.mode) /\ IsText(m)  -> <<read_char_attr(m, c.bh)>>
      [] c.ah = 13 /\ Known(m, m.bda.mode) /\ ~IsText(m) -> <<read_pixel(m, c.at[1], c.at[2])>>
      [] c.ah = 15 -> <<get_video_mode(m)>>
      [] c.ah = 16 /\ c.al \in {7, 8} -> <<Attribute(m.reg, IF c.al = 8 THEN 17 ELSE c.bl)>>
      [] c.ah = 16 /\ c.al = 9  -> [i \in 1 .. 17 |-> Attribute(m.reg, IF i = 17 THEN 17 ELSE i - 1)]
      [] c.ah = 16 /\ c.al = 21 -> <<DacSeen(m.reg, c.bl, 0)>>
      [] c.ah = 16 /\ c.al = 23 -> [i \in 1 .. c.count |-> DacSeen(m.reg, c.bl, i - 1)]
      [] c.ah = 16 /\ c.al = 25 -> <<Value(m.reg, PEL_MASK)>>
      [] c.ah = 16 /\ c.al = 26 -> <<read_video_dac_state(m.reg)>>
      [] c.ah = 17 /\ c.al = 48 /\ c.bh \in 0 .. 7 -> <<get_font_info(m, c.bh)>>
      [] c.ah = 18 /\ c.bl = 16 -> <<get_ega_info(m)>>
      [] c.ah = 26 /\ c.al = 0  -> <<read_display_code(m)>>
      [] c.ah = 27 -> read_state_info(m)
      [] c.ah = 28 /\ c.al = 0  -> <<read_video_state_size(c.count)>>
      [] OTHER -> <<>>

-----------------------------------------------------------------------------
Init ==
    /\ vga \in {Bench(kind) : kind \in Kinds}
    /\ call = Zero
    /\ reply = <<>>
    /\ kept = NotKept
    /\ count = 0

Asks == count < MaxCalls /\ count' = count + 1

Service ==
    /\ Asks
    /\ \E c \in Menu(vga.kind), stray \in Strays :
           /\ vga' = Int10(vga, c, stray)
           /\ call' = c
           /\ reply' = Reply(vga, c)
    /\ UNCHANGED kept

\* AH=1Ch.
SaveState ==
    /\ Asks
    /\ kept = NotKept
    /\ \E cx \in SaveSets(vga.kind) :
           LET saved == save_video_state(vga, cx)
           IN  /\ vga' = saved.m
               /\ kept' = [cx |-> cx, was |-> vga, bytes |-> saved.bytes]
               /\ reply' = <<read_video_state_size(cx)>>
    /\ call' = [Zero EXCEPT !.ah = 28, !.al = 1]
RestoreState ==
    /\ Asks
    /\ kept # NotKept
    /\ vga' = restore_video_state(vga, kept.cx, kept.bytes)
    /\ call' = [Zero EXCEPT !.ah = 28, !.al = 2]
    /\ reply' = <<>>
    /\ UNCHANGED kept

\* A program writes the ports itself.
Program ==
    /\ Asks
    /\ \E accesses \in Pokes(vga.kind) : vga' = Port(vga, accesses)
    /\ call' = Zero
    /\ reply' = <<>>
    /\ UNCHANGED kept

\* The bound of the run: nothing more is asked for.
Idle == count = MaxCalls /\ UNCHANGED vars

Next == Service \/ SaveState \/ RestoreState \/ Program \/ Idle
Spec == Init /\ [][Next]_vars
=================================================================================
