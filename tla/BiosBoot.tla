-------------------------------- MODULE BiosBoot --------------------------------
(***************************************************************************)
(* From reset to a loaded system (src/sw/sysbios): what the power-on self  *)
(* test does about the shutdown code of CMOS 0Fh, the scan for expansion   *)
(* ROMs and the boot entries they register, INT 19h and INT 18h, and the   *)
(* resets a loaded system makes, some to be resumed where it asked.        *)
(***************************************************************************)
EXTENDS Integers, Sequences, FiniteSets, FiniteSetsExt

CONSTANTS Boards,           \* what there is: ROMs, boot order, media, user's choice
          Machine(_),       \* a board's record
          Codes,            \* shutdown codes a system arms
          TableEntries,     \* IPL_TABLE_ENTRIES
          MaxResets         \* the runs stop after this many

VARIABLES
    board,      \* which board this is
    at,         \* what runs: the test, a scan, a boot attempt, a system; nothing
    shutdown,   \* CMOS 0Fh, the resume address at 40:67, the S3 vector; resets, and resumes asked and made
    ipl,        \* the boot table, the user's choice, the sequence number
    inits,      \* the ROMs initialised in this test, in order
    tried       \* the devices tried since INT 19h, in order

bootVars == <<board, at, shutdown, ipl, inits, tried>>

This == Machine(board)
NoChoice == 65535
At(what) == [what |-> what, pos |-> 0]

-----------------------------------------------------------------------------
\* The shutdown code is cleared before it is acted on.
\* A bug: it is not.
Cleared_Kept(code) == code

Cleared(code) == 0

Resumes == {5, 10, 11, 12}
Panics(code) == code \in 1 .. 12 \ Resumes

Post ==
    /\ at.what = "reset"
    /\ LET code == shutdown.code
           s3   == code = 254 /\ shutdown.s3vector
       IN  /\ shutdown' = [shutdown EXCEPT !.code = Cleared(@),
                                           !.resumed = @ + (IF code \in Resumes \/ s3 THEN 1 ELSE 0)]
           /\ at' = CASE code \in Resumes \/ s3 -> At("system")
                      [] Panics(code) -> At("halted")
                      [] OTHER -> [what |-> "video", pos |-> 0]
           /\ inits' = IF code \in Resumes \/ s3 THEN inits ELSE <<>>
           /\ tried' = IF code \in Resumes \/ s3 THEN tried ELSE <<>>
    /\ UNCHANGED <<board, ipl>>

-----------------------------------------------------------------------------
\* rom_scan: a ROM with its signature and checksum is initialised, and the
\* scan goes on after it at a multiple of 2K, its length rounded up in a byte.
\* A bug: the length is not rounded up.
Stride_Down(blocks) == IF blocks < 4 THEN 1 ELSE blocks \div 4

Stride(blocks) == ((blocks + 3) \div 4) % 64

Found(pos) == pos \in DOMAIN This.roms /\ This.roms[pos].good

\* A ROM's boot entry vector is registered while there is room; one with a
\* connection vector has it run instead.
Registers(pos) == This.roms[pos].boot /\ Len(ipl.table) < TableEntries

Scan(what, last) ==
    /\ at.what = what /\ at.pos <= last
    /\ IF Found(at.pos)
       THEN /\ inits' = Append(inits, at.pos)
            /\ at' = [at EXCEPT !.pos = @ + Stride(This.roms[at.pos].blocks)]
            /\ ipl' = IF what = "options" /\ Registers(at.pos)
                      THEN [ipl EXCEPT !.table = Append(@, "rom"), !.first = This.choice] ELSE ipl
       ELSE at' = [at EXCEPT !.pos = @ + 1] /\ UNCHANGED <<inits, ipl>>
    /\ UNCHANGED <<board, shutdown, tried>>

VideoScan == Scan("video", This.video)
OptionScan == Scan("options", This.last)

\* Between the two the drives are set up, and init_boot_vectors.
Drives ==
    /\ at.what = "video" /\ at.pos > This.video
    /\ at' = [what |-> "options", pos |-> This.options]
    /\ ipl' = [table |-> <<"floppy", "disk", "cdrom">>, first |-> NoChoice, seq |-> NoChoice]
    /\ UNCHANGED <<board, shutdown, inits, tried>>

-----------------------------------------------------------------------------
\* INT 19h starts with the first device, INT 18h goes on with the next.
StartBoot == /\ at' = At("boot") /\ ipl' = [ipl EXCEPT !.seq = 0] /\ tried' = <<>>
             /\ UNCHANGED <<board, shutdown, inits>>
int18 == /\ at' = At("boot") /\ ipl' = [ipl EXCEPT !.seq = (@ + 1) % 65536]
         /\ UNCHANGED <<board, shutdown, inits, tried>>

BootAfterPost == at.what = "options" /\ at.pos > This.last /\ StartBoot
NextDevice == at.what = "failed" /\ int18

Device(seq) == IF seq + 1 \in DOMAIN This.order THEN This.order[seq + 1] ELSE 0

\* The user's device comes first, once; the sequence starts over after it.
\* A bug: it stays chosen.
Forget_Not(i) == [i EXCEPT !.seq = NoChoice]

Forget(i) == [i EXCEPT !.first = NoChoice, !.seq = NoChoice]

Attempt(dev) ==
    IF dev - 1 \in 0 .. Len(ipl.table) - 1
    THEN /\ tried' = Append(tried, dev)
         /\ at' = At(CASE ipl.table[dev] = "rom" -> "system"
                       [] ipl.table[dev] = "floppy" /\ This.media[1] = "unsigned" /\ This.skip -> "system"
                       [] OTHER -> IF This.media[dev] = "boots" THEN "system" ELSE "failed")
    ELSE at' = At("failed") /\ UNCHANGED tried

int19_function ==
    /\ at.what = "boot"
    /\ IF ipl.first # NoChoice
       THEN ipl' = Forget(ipl) /\ Attempt(ipl.first)
       ELSE /\ UNCHANGED ipl
            /\ IF Device(ipl.seq) = 0 THEN at' = At("halted") /\ UNCHANGED tried
               ELSE Attempt(Device(ipl.seq))
    /\ UNCHANGED <<board, shutdown, inits>>

-----------------------------------------------------------------------------
\* A system that runs gives up, boots again, or resets the processor; one
\* that has armed a shutdown code goes on to the reset.
Running == at.what = "system" /\ tried # <<>> /\ shutdown.code = 0
GiveUp == Running /\ int18
Reboot == Running /\ StartBoot

Arm == /\ at.what = "system" /\ shutdown.code = 0 /\ shutdown.asked < MaxResets
       /\ \E code \in Codes, vector \in BOOLEAN :
             shutdown' = [shutdown EXCEPT !.code = code, !.s3vector = vector,
                              !.asked = @ + (IF code \in Resumes \/ (code = 254 /\ vector) THEN 1 ELSE 0)]
       /\ UNCHANGED <<board, at, ipl, inits, tried>>

Reset == /\ at.what \in {"system", "halted", "boot", "video"} /\ shutdown.resets < MaxResets
         /\ at' = At("reset") /\ shutdown' = [shutdown EXCEPT !.resets = @ + 1]
         /\ UNCHANGED <<board, ipl, inits, tried>>

BootInit ==
    /\ board \in Boards
    /\ at = At("reset")
    /\ shutdown = [code |-> 0, s3vector |-> FALSE, resets |-> 0, asked |-> 0, resumed |-> 0]
    /\ ipl = [table |-> <<>>, first |-> NoChoice, seq |-> NoChoice]
    /\ inits = <<>> /\ tried = <<>>

BootNext == \/ Post \/ VideoScan \/ Drives \/ OptionScan \/ BootAfterPost \/ NextDevice \/ int19_function
            \/ GiveUp \/ Reboot \/ Arm \/ Reset

-----------------------------------------------------------------------------
(* Properties *)

\* A test initialises the ROMs that are good and not inside one it
\* initialised, in order of their addresses, each once.
Inside(pos, rom) == rom < pos /\ pos * 4 < rom * 4 + This.roms[rom].blocks
RomsInitialised ==
    /\ \A i, j \in DOMAIN inits : i < j => inits[i] < inits[j] /\ ~Inside(inits[j], inits[i])
    /\ at.what \in {"boot", "failed"} =>
         \A pos \in DOMAIN This.roms : (Found(pos) /\ pos \in 0 .. This.video \cup This.options .. This.last) =>
             \E i \in DOMAIN inits : inits[i] = pos \/ Inside(pos, inits[i])

\* Devices are tried in the order set up, the user's first; none is passed
\* over or tried twice, and the machine halts only when all have been.
Tryable(dev) == dev \in 1 .. Len(ipl.table)
Candidates == {i \in DOMAIN This.order : Tryable(This.order[i]) /\ \A k \in 1 .. i : This.order[k] # 0}
Place(i) == Cardinality({k \in Candidates : k <= i})
Chosen == IF This.choice # NoChoice /\ Tryable(This.choice) THEN <<This.choice>> ELSE <<>>
InOrder(first) ==
    /\ Len(tried) <= Len(first) + Cardinality(Candidates)
    /\ \A n \in DOMAIN tried :
          IF n <= Len(first) THEN tried[n] = first[n]
          ELSE \E i \in Candidates : tried[n] = This.order[i] /\ Len(first) + Place(i) = n
AllTried(first) == Len(tried) = Len(first) + Cardinality(Candidates)
BootsInOrder ==
    \E first \in {<<>>, Chosen} :
        InOrder(first) /\ (at.what = "halted" /\ tried # <<>> => AllTried(first))

\* A system is resumed at most as often as it asked to be.
ResumedAsAsked == shutdown.resumed <= shutdown.asked
=============================================================================
