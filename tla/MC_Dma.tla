-------------------------------- MODULE MC_Dma --------------------------------
(* A small instance of Dma: a channel of each controller.                     *)
EXTENDS Dma

Io(reg, ctl, n, v) == [reg |-> reg, ctl |-> ctl, n |-> n, v |-> v]
Mode(kind, a, d) == [transfer |-> kind, auto |-> a, dec |-> d]

\* A channel of each controller: 2 (floppy) and 5 (sound).
TwoChannels == {<<"sla", 2>>, <<"mas", 1>>}

Ops ==
    {Io("clearmask", "sla", 0, 0), Io("clearmask", "mas", 0, 0), Io("clear", "sla", 0, 0),
     Io("mask", "sla", 1, 0), Io("command", "mas", 0, TRUE),
     Io("request", "sla", 2, 0),
     Io("mode", "sla", 2, Mode("write", FALSE, FALSE)), Io("page", "sla", 2, 1)}
=============================================================================
