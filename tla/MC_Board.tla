------------------------------- MODULE MC_Board -------------------------------
(* Small instances of Board: one menu of accesses per program. *)
EXTENDS Board

Wr(p, v) == [dir |-> "write", port |-> p, bytes |-> <<v>>]
Wr2(p, v, w) == [dir |-> "write", port |-> p, bytes |-> <<v, w>>]
Rd(p) == [dir |-> "read", port |-> p, bytes |-> <<0>>]
Rd2(p) == [dir |-> "read", port |-> p, bytes |-> <<0, 0>>]

\* Opening and locking the configuration banks.
Unlock == {Rd(Key1), Rd(Key2), Rd(Key3), Rd(35), Rd2(Key3), Rd2(34), Wr(35, 0), Wr2(34, 128, 1),
           Wr(34, 128), Wr(37, 7)}
\* Strobes of the printer; single and wide reads of its status.
Printing == {Wr(958, 1), Wr(958, 0), Rd(LptStatus), Rd2(956), Rd2(LptStatus)}
\* POST codes and reads of CMOS 7Bh.
Post == {Wr(400, 240), Wr(400, 110), Wr(CmosIndex, SetupByte), Rd(CmosData)}
\* ROMSET, RAMCFG0, the shadow registers, port 98h, the font window.
Map == {Wr(251, 0), Wr2(236, 12, 25), Wr2(236, 2, 0), Wr2(236, 18, 0), Wr2(236, 18, 170),
        Wr(152, 4), Wr(152, 0), Wr(4450, 206)}
\* Software card detect of socket B and its change register.
Card == {Wr(CardIndex, 86), Wr(CardIndex, 68), Wr(CardData, 32), Rd(CardData)}

AllMenus == {Unlock, Printing, Post, Map}
AllUsers == [m \in AllMenus |-> CASE m = Post -> {"setup", "f1", "module"}
                                   [] m = Map  -> {"reset", "unlock"}
                                   [] OTHER    -> {}]
MapMenus == {Map}
CardMenus == {Card}
MapUsers == [m \in MapMenus |-> {}]
NoUsers == [m \in CardMenus |-> {}]

\* The first and last KiB of every region the decode tells apart, addresses
\* that agree with one in their low bits, and the ends of the memory sizes.
Edges == {0, 7, 8, 639, 640, 767, 768, 815, 816, 823, 824, 831, 832, 864, 879, 880, 887, 888, 895,
          896, 959, 960, 1023, 1024, 1848, 1912, 4095, 4096, 8191, 8192, 12287, 12288, 20479, 20480}
=============================================================================
