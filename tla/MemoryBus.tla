------------------------------ MODULE MemoryBus ------------------------------
(***************************************************************************)
(* The bus master between the processor, the DMA controller and the L2     *)
(* cache (src/rtl/ao486/memory/avalon_mem.v), composed with one transfer   *)
(* at a time of the DMA controller (src/rtl/soc/dma.v) and with the memory *)
(* that MemoryService promises and L2Cache implements.                     *)
(*                                                                         *)
(* One step is one clock of everything.  Addresses are byte addresses; a   *)
(* dword is its index.  No data flows: a word read is known by the address *)
(* it came from and a byte written by its place in the processor's word,   *)
(* so that a lane put in the wrong place shows.                            *)
(***************************************************************************)
EXTENDS Integers, FiniteSets

CONSTANTS
    Dword,           \* dword addresses, 0 .. n
    CodeBurst,       \* dwords of a line of code (8)
    DmaAddress,      \* the dword the DMA transfers
    Menus            \* what is asked of the bus, a set of records of
                     \*   writes: [address, length], the processor's, length 1 .. 4
                     \*   reads: [address, length], length 1 .. 8
                     \*   code: the dwords where it fetches a line of code
                     \*   dma: the transfer modes programmed, "read", "write", "verify"
                     \*   reset: the keyboard controller may reset the processor

\* Every byte that is read or written is in a dword there is.
ASSUME BusAssumption ==
    /\ Dword \subseteq Nat /\ 0 \in Dword
    /\ CodeBurst \in 1 .. 8
    /\ DmaAddress \in Dword
    /\ \A n \in Menus :
          /\ \A w \in n.writes : w.address \in Nat /\ w.length \in 1 .. 4
          /\ \A r \in n.reads : r.address \in Nat /\ r.length \in 1 .. 8
          /\ \A q \in n.writes \cup n.reads :
                \A b \in q.address .. q.address + q.length - 1 : b \div 4 \in Dword
          /\ n.code \subseteq Dword
          /\ n.dma \subseteq {"read", "write", "verify"}
          /\ n.reset \in BOOLEAN

VARIABLES
    menu,            \* the one of Menus that this behaviour is about
    rst,             \* kbc_cpu_reset
    writeburst, readburst, readcode,    \* requests held by the links; {} or one
    \* avalon_mem
    state, counter, save_readburst, readaddrmux, bus_0, bus_1,
    write_next,      \* the second dword of a write; {} outside STATE_WRITE
    \* the DMA controller: the channel being served and the mem_* registers
    chan, transfer, dma_read, dma_write, mem_read, mem_write, ack,
    \* the memory
    mem, awaited, seen, reply,
    \* history
    owed,            \* bytes of a write whose first dword is on the bus alone
    dma_taken,       \* bus accesses taken for this DMA transfer
    last_taken,      \* what the last access taken was for
    orphaned         \* a reset cut a DMA read short

cpuVars == <<writeburst, readburst, readcode>>
avalonVars == <<state, counter, save_readburst, readaddrmux, bus_0, bus_1, write_next>>
dmaVars == <<chan, transfer, dma_read, dma_write, mem_read, mem_write, ack>>
memVars == <<mem, awaited, seen, reply>>
vars == <<menu, rst, cpuVars, avalonVars, dmaVars, memVars, owed, dma_taken, last_taken,
          orphaned>>

Memory == INSTANCE MemoryService WITH
    Address  <- Dword,
    Value    <- {0},
    After    <- [a \in Dword |-> IF a + 1 \in Dword THEN a + 1 ELSE 0],
    OpenBus  <- 0,
    MaxBurst <- 8,
    HostArea <- {}

Only(s) == CHOOSE x \in s : TRUE
Lane == 0 .. 3

-----------------------------------------------------------------------------
(* The lanes of a processor access. *)

Offset(r) == r.address % 4
FirstDword(r) == r.address \div 4

WriteDwords_Byte3(w) ==         \* mutant: forgets the three bytes at offset 2
    IF (Offset(w) = 3 /\ w.length > 1) \/ (Offset(w) # 0 /\ w.length = 4) THEN 2 ELSE 1

\* writeburst_dword_length
WriteDwords(w) ==
    IF \/ w.length = 2 /\ Offset(w) = 3
       \/ w.length = 3 /\ Offset(w) \in {2, 3}
       \/ w.length = 4 /\ Offset(w) # 0
    THEN 2 ELSE 1

\* readburst_dword_length
ReadDwords_Two(r) ==            \* mutant: a long read is never three dwords
    IF r.length + Offset(r) > 4 THEN 2 ELSE 1
ReadDwords(r) ==
    CASE r.length = 2 /\ Offset(r) = 3      -> 2
      [] r.length = 3 /\ Offset(r) \in {2, 3} -> 2
      [] r.length = 4 /\ Offset(r) # 0      -> 2
      [] r.length \in {6, 7, 8} /\
         \/ r.length = 6 /\ Offset(r) = 3
         \/ r.length = 7 /\ Offset(r) \in {2, 3}
         \/ r.length = 8 /\ Offset(r) # 0   -> 3
      [] OTHER -> IF r.length <= 4 THEN 1 ELSE 2

\* writeburst_byteenable_0, a table of offset and length
ByteEnable0(w) ==
    CASE Offset(w) = 0                   -> 0 .. w.length - 1
      [] Offset(w) = 1 /\ w.length = 1   -> {1}
      [] Offset(w) = 1 /\ w.length = 2   -> {1, 2}
      [] Offset(w) = 1 /\ w.length >= 3  -> {1, 2, 3}
      [] Offset(w) = 2 /\ w.length = 1   -> {2}
      [] Offset(w) = 2 /\ w.length >= 2  -> {2, 3}
      [] Offset(w) = 3                   -> {3}

\* writeburst_byteenable_1
ByteEnable1(w) ==
    CASE Offset(w) = 3 /\ w.length = 2   -> {0}
      [] Offset(w) = 2 /\ w.length = 3   -> {0}
      [] Offset(w) = 3 /\ w.length = 3   -> {0, 1}
      [] Offset(w) = 1 /\ w.length = 4   -> {0}
      [] Offset(w) = 2 /\ w.length = 4   -> {0, 1}
      [] OTHER                           -> {0, 1, 2}

\* The bytes that the enabled lanes of a dword carry: where each goes and which
\* byte of the processor's word it is, writeburst_data being that word shifted
\* left by the offset.
Bytes(dword, part, lanes, w) ==
    {<<4 * dword + l, 4 * part + l - Offset(w)>> : l \in lanes}
FirstBytes(w) == Bytes(FirstDword(w), 0, ByteEnable0(w), w)
SecondBytes(w) == Bytes(FirstDword(w) + 1, 1, ByteEnable1(w), w)

\* The bytes the processor asked to write.
Asked(w) == {<<w.address + i, i>> : i \in 0 .. w.length - 1}

\* readburst_data: which dword each of its three dwords came from, while the
\* last one, word, is on the bus.
ReadData(word) ==
    <<IF save_readburst \in {2, 3} THEN bus_1 ELSE word,
      IF save_readburst = 3 THEN bus_0 ELSE word,
      word>>

\* readburst_data_out: the byte address that byte i of the answer came from
DataOut(word, i) ==
    LET p == readaddrmux + i IN 4 * ReadData(word)[(p \div 4) + 1] + (p % 4)

-----------------------------------------------------------------------------
(* Signals. *)

Grant_ReadFirst ==              \* mutant: reads go before writes
    IF readburst # {} THEN "read" ELSE IF readcode # {} THEN "code"
    ELSE IF writeburst # {} THEN "write" ELSE "dma"
\* Whose address is on the bus in IDLE.
Grant == IF writeburst # {} THEN "write" ELSE IF readburst # {} THEN "read"
         ELSE IF readcode # {} THEN "code" ELSE "dma"

AvmWrite == ~rst /\ \/ state = "IDLE" /\ (Grant = "write" \/ (Grant = "dma" /\ mem_write))
                    \/ state = "WRITE"
AvmRead == ~rst /\ state = "IDLE" /\ (Grant \in {"read", "code"} \/ (Grant = "dma" /\ mem_read))

Valid == reply # {}                        \* avm_readdatavalid
Word == Only(reply).a                      \* avm_readdata
ReadburstDone == state = "READ" /\ counter = 0 /\ Valid
DmaWaitrequest == state \notin {"READ_DMA", "WRITE_DMA"}
DmaReaddatavalid == state = "READ_DMA" /\ Valid

-----------------------------------------------------------------------------
(* The DMA controller, the memory and the processor in one clock. *)

DmaGranted_Always == TRUE       \* mutant: the channel does not look at the bus
DmaGranted == ~DmaWaitrequest

\* i8237_chan: 0 free, 1 granted, 2-3 reading memory, 6 writing it, 7 verifying,
\* 4 counting, 5 done.
NextChan ==
    CASE chan = 1 -> (CASE transfer = "read" -> 2 [] transfer = "write" -> 6
                        [] transfer = "verify" -> 7)
      [] chan = 2 -> IF DmaGranted THEN 3 ELSE 2
      [] chan = 3 -> IF DmaReaddatavalid THEN 4 ELSE 3
      [] chan = 4 -> 5
      [] chan = 5 -> 0
      [] chan = 6 -> IF DmaGranted THEN 4 ELSE 6
      [] chan = 7 -> 4

DmaAck == \/ chan = 3 /\ DmaReaddatavalid
          \/ chan = 6 /\ DmaGranted
          \/ chan = 7

NextDmaRead_Late ==             \* mutant: the read request outlasts its acceptance
    CASE chan = 0 -> FALSE
      [] chan = 1 /\ transfer = "read" -> TRUE
      [] chan = 4 -> FALSE
      [] OTHER -> dma_read
NextDmaRead ==
    CASE chan = 0 -> FALSE
      [] chan = 1 /\ transfer = "read" -> TRUE
      [] chan = 2 /\ DmaGranted -> FALSE
      [] OTHER -> dma_read

\* The mem_* registers follow the channel one clock later.
DmaClock ==
    /\ IF chan = 0
       THEN \/ chan' = 1 /\ transfer' \in menu.dma
            \/ UNCHANGED <<chan, transfer>>
       ELSE chan' = NextChan /\ UNCHANGED transfer
    /\ dma_read' = NextDmaRead
    /\ dma_write' = CASE chan = 0 -> FALSE
                      [] chan = 1 /\ transfer = "write" -> TRUE
                      [] chan = 6 /\ DmaGranted -> FALSE
                      [] OTHER -> dma_write
    /\ ack' = DmaAck
    /\ mem_read' = (chan # 0 /\ dma_read)
    /\ mem_write' = (chan # 0 /\ dma_write)

\* The links hold a request until it is done; the line cache of code drops its
\* request at the first word.  A new one may come at any clock.
Requests(held, done, new) == IF held # {} THEN {IF done THEN {} ELSE held}
                                          ELSE {{}} \union {{r} : r \in new}
CpuClock(writeDone, readDone, codeDone) ==
    /\ writeburst' \in Requests(writeburst, writeDone, menu.writes)
    /\ readburst' \in Requests(readburst, readDone, menu.reads)
    /\ readcode' \in Requests(readcode, codeDone, menu.code)

\* The reset comes at any clock and lasts 255 of them, which is longer than a
\* burst under way takes to end.
ResetClock == UNCHANGED menu /\ rst' \in {menu.reset, FALSE}

\* A clock in which the memory takes nothing: it answers the burst or is quiet.
\* What is asked for while it answers a burst is lost.
MemoryGoesOn == Memory!ReturnWord \/ Memory!Quiet
MemoryTakesRead(a, n) == IF Memory!NoBurst(awaited) THEN Memory!StartRead(a, n, FALSE)
                                                    ELSE MemoryGoesOn
MemoryTakesWrite(a) == IF Memory!NoBurst(awaited) THEN Memory!Write(a, 0)
                                                  ELSE MemoryGoesOn

\* History of an access that is taken, for = "cpu" or "dma".
Taken(for) ==
    /\ last_taken' = for
    /\ dma_taken' = IF for = "dma" THEN dma_taken + 1 ELSE IF chan = 0 THEN 0 ELSE dma_taken
NoneTaken == /\ UNCHANGED last_taken
             /\ dma_taken' = IF chan = 0 THEN 0 ELSE dma_taken

-----------------------------------------------------------------------------
(* One clock, by what avalon_mem does in it. *)

Running == ~rst /\ ResetClock /\ DmaClock

TakeWrite ==
    /\ Running /\ state = "IDLE" /\ Grant = "write"
    /\ LET w == Only(writeburst) IN
         /\ IF WriteDwords(w) = 2
            THEN state' = "WRITE" /\ write_next' = {w}
            ELSE UNCHANGED <<state, write_next>>
         /\ MemoryTakesWrite(FirstDword(w))
         /\ owed' = Asked(w) \ FirstBytes(w)
    /\ CpuClock(TRUE, FALSE, FALSE)
    /\ Taken("cpu")
    /\ UNCHANGED <<counter, save_readburst, readaddrmux, bus_0, bus_1, orphaned>>

TakeRead ==
    /\ Running /\ state = "IDLE" /\ Grant = "read"
    /\ LET r == Only(readburst) IN
         /\ state' = "READ"
         /\ counter' = ReadDwords(r) - 1
         /\ save_readburst' = ReadDwords(r)
         /\ readaddrmux' = Offset(r)
         /\ MemoryTakesRead(FirstDword(r), ReadDwords(r))
    /\ CpuClock(FALSE, FALSE, FALSE)
    /\ Taken("cpu")
    /\ UNCHANGED <<bus_0, bus_1, write_next, orphaned, owed>>

TakeCode ==
    /\ Running /\ state = "IDLE" /\ Grant = "code"
    /\ state' = "READ_CODE"
    /\ counter' = CodeBurst - 1
    /\ MemoryTakesRead(Only(readcode), CodeBurst)
    /\ CpuClock(FALSE, FALSE, FALSE)
    /\ Taken("cpu")
    /\ UNCHANGED <<save_readburst, readaddrmux, bus_0, bus_1, write_next, orphaned, owed>>

TakeDmaWrite ==
    /\ Running /\ state = "IDLE" /\ Grant = "dma" /\ mem_write
    /\ state' = "WRITE_DMA"
    /\ MemoryTakesWrite(DmaAddress)
    /\ CpuClock(FALSE, FALSE, FALSE)
    /\ Taken("dma")
    /\ UNCHANGED <<counter, save_readburst, readaddrmux, bus_0, bus_1, write_next, orphaned, owed>>

TakeDmaRead ==
    /\ Running /\ state = "IDLE" /\ Grant = "dma" /\ mem_read
    /\ state' = "READ_DMA"
    /\ MemoryTakesRead(DmaAddress, 1)
    /\ CpuClock(FALSE, FALSE, FALSE)
    /\ Taken("dma")
    /\ UNCHANGED <<counter, save_readburst, readaddrmux, bus_0, bus_1, write_next, orphaned, owed>>

\* Nothing is asked for, or the memory keeps the request waiting, or the
\* state's answer has not come.
Wait ==
    /\ Running
    /\ state \in {"READ", "READ_CODE", "READ_DMA"} => ~Valid
    /\ state # "WRITE_DMA"
    /\ MemoryGoesOn
    /\ CpuClock(FALSE, FALSE, FALSE)
    /\ NoneTaken
    /\ UNCHANGED <<avalonVars, orphaned, owed>>

SecondWrite ==
    /\ Running /\ state = "WRITE"
    /\ state' = "IDLE"
    /\ write_next' = {}
    /\ MemoryTakesWrite(FirstDword(Only(write_next)) + 1)
    /\ CpuClock(FALSE, FALSE, FALSE)
    /\ owed' = owed \ SecondBytes(Only(write_next))
    /\ Taken("cpu")
    /\ UNCHANGED <<counter, save_readburst, readaddrmux, bus_0, bus_1, orphaned>>

LastWord_Wrapped == counter = 7     \* mutant: the burst ends when the count has wrapped
LastWord_Early == counter <= 1       \* mutant: the burst ends a word early
LastWord == counter = 0

ReadWord ==
    /\ Running /\ state = "READ" /\ Valid
    /\ IF LastWord
       THEN state' = "IDLE" /\ UNCHANGED <<counter, bus_0, bus_1>>
       ELSE /\ counter' = counter - 1
            /\ bus_1' = IF counter = 2 \/ save_readburst = 2 THEN Word ELSE bus_1
            /\ bus_0' = Word
            /\ UNCHANGED state
    /\ MemoryGoesOn
    /\ CpuClock(FALSE, counter = 0, FALSE)
    /\ NoneTaken
    /\ UNCHANGED <<save_readburst, readaddrmux, write_next, orphaned, owed>>

CodeWord ==
    /\ Running /\ state = "READ_CODE" /\ Valid
    /\ IF LastWord THEN state' = "IDLE" /\ UNCHANGED counter
                   ELSE counter' = counter - 1 /\ UNCHANGED state
    /\ MemoryGoesOn
    /\ CpuClock(FALSE, FALSE, TRUE)
    /\ NoneTaken
    /\ UNCHANGED <<save_readburst, readaddrmux, bus_0, bus_1, write_next, orphaned, owed>>

DmaDone ==
    /\ Running
    /\ \/ state = "WRITE_DMA"
       \/ state = "READ_DMA" /\ Valid
    /\ state' = "IDLE"
    /\ MemoryGoesOn
    /\ CpuClock(FALSE, FALSE, FALSE)
    /\ NoneTaken
    /\ UNCHANGED <<counter, save_readburst, readaddrmux, bus_0, bus_1, write_next, orphaned, owed>>

\* A clock with the processor in reset: its requests are gone, the DMA
\* controller and the memory carry on.
InReset ==
    /\ rst /\ UNCHANGED menu
    /\ IF Memory!NoBurst(awaited) /\ reply = {} THEN rst' \in BOOLEAN ELSE rst' = TRUE
    /\ DmaClock
    /\ state' = "IDLE"
    /\ write_next' = {}
    /\ writeburst' = {} /\ readburst' = {} /\ readcode' = {}
    /\ MemoryGoesOn
    /\ owed' = {}
    /\ NoneTaken
    /\ orphaned' = (orphaned \/ (state = "READ_DMA" /\ ~Valid))
    /\ UNCHANGED <<counter, save_readburst, readaddrmux, bus_0, bus_1>>

Init ==
    /\ menu \in Menus
    /\ rst = FALSE
    /\ writeburst = {} /\ readburst = {} /\ readcode = {}
    /\ state = "IDLE" /\ counter = 0 /\ save_readburst = 0 /\ readaddrmux = 0
    /\ bus_0 = 0 /\ bus_1 = 0 /\ write_next = {}
    /\ chan = 0 /\ transfer = "verify"
    /\ dma_read = FALSE /\ dma_write = FALSE
    /\ mem_read = FALSE /\ mem_write = FALSE /\ ack = FALSE
    /\ Memory!Init /\ awaited.a = 0
    /\ owed = {} /\ dma_taken = 0 /\ last_taken = "cpu" /\ orphaned = FALSE

Next ==
    \/ TakeWrite \/ TakeRead \/ TakeCode \/ TakeDmaWrite \/ TakeDmaRead
    \/ Wait \/ SecondWrite \/ ReadWord \/ CodeWord \/ DmaDone \/ InReset

Spec == Init /\ [][Next]_vars

\* The memory does not keep a request waiting for ever and answers every burst.
FairSpec ==
    /\ Spec
    /\ WF_vars(TakeWrite) /\ WF_vars(SecondWrite)
    /\ WF_vars(Memory!ReturnWord /\ Next)
    /\ WF_vars(ReadWord) /\ WF_vars(CodeWord) /\ WF_vars(DmaDone) /\ WF_vars(InReset)

-----------------------------------------------------------------------------
(* Properties. *)

TypeOK ==
    /\ menu \in Menus /\ rst \in BOOLEAN
    /\ writeburst \in SUBSET menu.writes /\ Cardinality(writeburst) <= 1
    /\ readburst \in SUBSET menu.reads /\ Cardinality(readburst) <= 1
    /\ readcode \in SUBSET menu.code /\ Cardinality(readcode) <= 1
    /\ state \in {"IDLE", "WRITE", "READ", "READ_CODE", "WRITE_DMA", "READ_DMA"}
    /\ counter \in 0 .. 7
    /\ save_readburst \in 0 .. 3
    /\ readaddrmux \in Lane
    /\ bus_0 \in Dword /\ bus_1 \in Dword
    /\ write_next \in SUBSET menu.writes
    /\ chan \in 0 .. 7 /\ transfer \in menu.dma \union {"verify"}
    /\ dma_read \in BOOLEAN /\ dma_write \in BOOLEAN
    /\ mem_read \in BOOLEAN /\ mem_write \in BOOLEAN /\ ack \in BOOLEAN
    /\ awaited.a \in Dword /\ awaited.left \in 0 .. 8

\* A read of 1 to 8 bytes at any offset is answered with those bytes, in order.
ReadAssembled ==
    ReadburstDone /\ ~rst =>
        LET r == Only(readburst) IN
        \A i \in 0 .. r.length - 1 : DataOut(Word, i) = r.address + i

\* A write puts each byte the processor asked for in its place, and no other:
\* what its first dword leaves is just what the second carries, and while that
\* is owed nothing else is taken.
WriteWhole ==
    /\ \A w \in writeburst : FirstBytes(w) \subseteq Asked(w)
    /\ owed = UNION {SecondBytes(w) : w \in write_next}
    /\ state # "WRITE" => owed = {}

\* Byte for byte the processor reads and writes what it asked for, at every
\* offset and length (the tables of readburst_* and writeburst_*).
LanesExact == ReadAssembled /\ WriteWhole

\* The cache drops a request made while it answers a burst, so none is made:
\* the master leaves its read states no sooner than the last word.
NoRequestDropped == AvmRead \/ AvmWrite => Memory!NoBurst(awaited)

\* A channel that waits for data has a read of its address under way, and the
\* data come after it has begun to wait, unless a processor reset cut the read
\* short: then the channel waits until it is reset itself.
DmaDataComes ==
    /\ chan = 3 /\ ~orphaned => state = "READ_DMA"
    /\ DmaReaddatavalid => chan = 3 /\ Word = DmaAddress

\* A DMA transfer reads memory once.  It may write it twice, the request
\* being a clock longer than its acceptance, but with nothing in between.
DmaTakenOnce ==
    dma_taken' = dma_taken + 1 =>
        \/ dma_taken = 0
        \/ dma_taken = 1 /\ transfer = "write" /\ last_taken = "dma"

\* The processor and the DMA controller share the bus without a request lost,
\* answered twice or given the other's data, a processor reset in between or not.
NothingLost == [][NoRequestDropped /\ DmaDataComes /\ DmaTakenOnce]_vars

\* A write is served, however much is read: it has the highest priority.
WriteServed == writeburst # {} ~> writeburst = {}

=============================================================================
