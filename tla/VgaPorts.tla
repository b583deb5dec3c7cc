-------------------------------- MODULE VgaPorts --------------------------------
(***************************************************************************)
(* The registers of the display adapter as a program sees them through the *)
(* I/O ports (src/rtl/soc/vga.v): what a write does and what a read gives  *)
(* back and leaves behind.                                                 *)
(***************************************************************************)
EXTENDS Integers, Sequences

CONSTANT DacSize        \* entries of the colour table, 256 in the adapter

ACTL_ADDRESS      == 960
ACTL_READ_DATA    == 961
WRITE_MISC_OUTPUT == 962
READ_MISC_OUTPUT  == 972
SEQU_ADDRESS      == 964
SEQU_DATA         == 965
PEL_MASK          == 966
DAC_STATE         == 967
DAC_READ_ADDRESS  == 967
DAC_WRITE_ADDRESS == 968
DAC_DATA          == 969
READ_FEATURE_CTL  == 970
GRDC_ADDRESS      == 974
GRDC_DATA         == 975
MDA_CRTC          == 948
VGA_CRTC          == 980
ACTL_RESET        == 986
WRITE_FEATURE_CTL == 986

Bit(v, k) == (v \div 2 ^ k) % 2
WithBit(v, k, b) == v + (b - Bit(v, k)) * 2 ^ k

\* The CRTC registers that the properties tell apart: sizes (07h, 09h, 12h),
\* cursor shape and address, start address, and the lock of 00h-07h (11h).
CrtKept == {7, 9, 10, 11, 12, 13, 14, 15, 17, 18}

BlackEntry == <<0, 0, 0>>

ResetRegisters ==
    [misc |-> 0, seqIx |-> 0, seq |-> [i \in 0 .. 4 |-> 0], crtIx |-> 0, crt |-> [i \in CrtKept |-> 0],
     grIx |-> 0, gr |-> [i \in 0 .. 8 |-> 0], actIx |-> 0, actData |-> FALSE, video |-> FALSE,
     act |-> [i \in 0 .. 20 |-> 0], pel |-> 255, dac |-> [i \in 0 .. DacSize - 1 |-> BlackEntry],
     dacBuf |-> <<0, 0>>, dacN |-> 0, dacW |-> 0, dacR |-> 0, dacIsRead |-> FALSE]

-----------------------------------------------------------------------------
\* The attribute controller's one port takes an index and a value in turn.
ActKeeps(i, v) == IF i < 16 THEN v % 64 ELSE IF i = 16 THEN WithBit(v, 4, 0) ELSE IF i = 17 THEN v ELSE v % 16
ActWrite(r, v) ==
    IF r.actData
    THEN [r EXCEPT !.actData = FALSE,
                   !.act = IF r.actIx \in DOMAIN @ THEN [@ EXCEPT ![r.actIx] = ActKeeps(r.actIx, v)] ELSE @]
    ELSE [r EXCEPT !.actData = TRUE, !.actIx = v % 32, !.video = Bit(v, 5) = 1]

\* A reset of the sequencer, asked for by its register 0, also forgets the
\* character maps.
SeqKeeps(i, v) == IF i = 4 THEN v - Bit(v, 0) ELSE v
SeqWrite(r, v) ==
    LET written == IF r.seqIx \in DOMAIN r.seq THEN [r.seq EXCEPT ![r.seqIx] = SeqKeeps(r.seqIx, v)] ELSE r.seq
    IN  [r EXCEPT !.seq = [written EXCEPT ![3] = IF written[0] % 4 = 3 THEN @ ELSE 0]]

\* The CRTC and input status 1 answer at 3Dxh or at 3Bxh, as bit 0 of the
\* miscellaneous register says; at the other place they are not there.
Listens(r, port) == IF Bit(r.misc, 0) = 1 THEN port \in 976 .. 991 ELSE port \in 944 .. 959

CrtUnlocked(r) == Bit(r.crt[17], 7) = 0 \/ r.crtIx >= 8
\* The lock of registers 0 to 7 leaves bit 8 of the line compare open.
CrtWrite(r, v) ==
    IF CrtUnlocked(r) /\ r.crtIx \in CrtKept THEN [r EXCEPT !.crt[r.crtIx] = v]
    ELSE IF r.crtIx = 7 THEN [r EXCEPT !.crt[7] = WithBit(@, 4, Bit(v, 4))]
    ELSE r

\* The colour table is written and read three bytes at a time.
DacAddress(r) == IF r.dacIsRead THEN r.dacR ELSE r.dacW
NextByte(r) == (r.dacN + 1) % 3
DacWrite(r, v) ==
    LET colour == v % 64
    IN  [r EXCEPT !.dacBuf = <<@[2], colour>>, !.dacN = NextByte(r),
                  !.dac = IF r.dacN = 2 THEN [@ EXCEPT ![DacAddress(r)] = <<r.dacBuf[1], r.dacBuf[2], colour>>] ELSE @,
                  !.dacW = IF r.dacN = 2 THEN (@ + 1) % DacSize ELSE @]
\* A read moves the read index only: with the write index selected it gives
\* the same entry again and again.
DacRead(r) ==
    [v |-> r.dac[DacAddress(r)][r.dacN + 1],
     r |-> [r EXCEPT !.dacN = NextByte(r), !.dacR = IF r.dacN = 2 THEN (@ + 1) % DacSize ELSE @]]

Out(r, port, v) ==
    CASE port = ACTL_ADDRESS      -> ActWrite(r, v)
      [] port = WRITE_MISC_OUTPUT -> [r EXCEPT !.misc = WithBit(v, 4, 0)]
      [] port = SEQU_ADDRESS      -> [r EXCEPT !.seqIx = v % 8]
      [] port = SEQU_DATA         -> SeqWrite(r, v)
      [] port = PEL_MASK          -> [r EXCEPT !.pel = v]
      [] port = DAC_READ_ADDRESS  -> [r EXCEPT !.dacR = v % DacSize, !.dacIsRead = TRUE, !.dacN = 0]
      [] port = DAC_WRITE_ADDRESS -> [r EXCEPT !.dacW = v % DacSize, !.dacIsRead = FALSE, !.dacN = 0]
      [] port = DAC_DATA          -> DacWrite(r, v)
      [] port = GRDC_ADDRESS      -> [r EXCEPT !.grIx = v % 16]
      [] port = GRDC_DATA         -> IF r.grIx \in DOMAIN r.gr THEN [r EXCEPT !.gr[r.grIx] = v] ELSE r
      [] port \in {MDA_CRTC, VGA_CRTC} /\ Listens(r, port) -> [r EXCEPT !.crtIx = v % 64]
      [] port \in {MDA_CRTC + 1, VGA_CRTC + 1} /\ Listens(r, port) -> CrtWrite(r, v)
      [] OTHER -> r

Value(r, port) ==
    CASE port = ACTL_ADDRESS      -> IF r.actData THEN 0 ELSE r.actIx + (IF r.video THEN 32 ELSE 0)
      [] port = ACTL_READ_DATA    -> IF r.actIx \in DOMAIN r.act THEN r.act[r.actIx] ELSE 0
      [] port = READ_MISC_OUTPUT  -> r.misc
      [] port = SEQU_ADDRESS      -> r.seqIx
      [] port = SEQU_DATA         -> IF r.seqIx \in DOMAIN r.seq THEN r.seq[r.seqIx] ELSE 0
      [] port = PEL_MASK          -> r.pel
      [] port = DAC_STATE         -> IF r.dacIsRead THEN 3 ELSE 0
      [] port = DAC_WRITE_ADDRESS -> r.dacW
      [] port = DAC_DATA          -> DacRead(r).v
      [] port = GRDC_ADDRESS      -> r.grIx
      [] port = GRDC_DATA         -> IF r.grIx \in DOMAIN r.gr THEN r.gr[r.grIx] ELSE 0
      [] port = VGA_CRTC /\ Listens(r, port) -> r.crtIx
      [] port \in {MDA_CRTC + 1, VGA_CRTC + 1} /\ Listens(r, port) ->
             IF r.crtIx \in CrtKept THEN r.crt[r.crtIx] ELSE 0
      [] port = READ_FEATURE_CTL  -> 0
      [] OTHER -> 255

\* What a read leaves behind.
Read(r, port) ==
    IF port = DAC_DATA THEN DacRead(r).r
    ELSE IF port = ACTL_RESET /\ Listens(r, port) THEN [r EXCEPT !.actData = FALSE]
    ELSE r

-----------------------------------------------------------------------------
\* A program's port accesses, one after the other: <<port, value>> writes,
\* <<port>> reads and drops what it reads.  The first half is done before
\* the second.
Access(r, a) == IF Len(a) = 2 THEN Out(r, a[1], a[2]) ELSE Read(r, a[1])
RECURSIVE Does(_, _)
Does(r, accesses) ==
    LET n    == Len(accesses)
        half == n \div 2
    IN  IF n = 0 THEN r
        ELSE IF n = 1 THEN Access(r, accesses[1])
        ELSE CHOOSE last \in {Does(middle, SubSeq(accesses, half + 1, n)) :
                                 middle \in {Does(r, SubSeq(accesses, 1, half))}} : TRUE

\* An index and a value, for a controller with two ports.
Sets(port, i, v) == <<<<port, i>>, <<port + 1, v>>>>
Indexed(r, port, i) == Value(Out(r, port, i), port + 1)
=================================================================================
