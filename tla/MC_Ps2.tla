-------------------------------- MODULE MC_Ps2 --------------------------------
(* Small instances of Ps2. *)
EXTENDS Ps2

Wr(p, v) == [dir |-> "write", port |-> p, v |-> v]
Rd(p) == [dir |-> "read", port |-> p, v |-> 0]

\* The left Shift, 12h -> 2Ah, whose break code is AAh, also the second byte of
\* the answer to a reset; and the break prefix.
Codes == [b \in {18, 240} |-> IF b = 18 THEN 42 ELSE 112]

\* The keyboard: reset, identify, reading; the controller's self test, whose
\* reply may come between the bytes of an answer.
KeybOps == {Wr(Data, 255), Wr(Data, 242), Rd(Data), Rd(Control), Wr(Control, SelfTest)}

\* The aux port, whose mouse sends FAh, as an answer begins: reset, enable,
\* disable (by the command byte FFh), reading.
AuxOps == {Wr(Data, 255), Wr(Control, WriteMouse), Rd(Data), Rd(Control),
           Wr(Control, WriteCommandByte)}

AllMenus == {[io |-> KeybOps, keys |-> DOMAIN Codes, aux |-> {}],
             [io |-> AuxOps, keys |-> {}, aux |-> {250}]}
=============================================================================
