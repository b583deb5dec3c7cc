--------------------------- MODULE MemoryBus_proofs ---------------------------
(***************************************************************************)
(* Proofs about the bus master of the processor: for any memory, any       *)
(* accesses that fit in it, any line of code of at most eight dwords and   *)
(* any DMA modes, bytes are read and written where they belong and no      *)
(* request is lost, answered twice or given the other's data.              *)
(***************************************************************************)
EXTENDS MemoryBus, FiniteSetTheorems, TLAPS

-----------------------------------------------------------------------------
(* Lanes. *)

\* An access of the processor, all of whose bytes are in memory.
IsAccess(r, longest) ==
    /\ r.address \in Nat /\ r.length \in 1 .. longest
    /\ \A b \in r.address .. r.address + r.length - 1 : b \div 4 \in Dword

LEMMA OffsetOf ==
    ASSUME NEW r, r.address \in Nat
    PROVE  /\ Offset(r) \in 0 .. 3 /\ FirstDword(r) \in Nat
           /\ r.address = 4 * FirstDword(r) + Offset(r)
  BY DEF Offset, FirstDword

\* What a read of n bytes at offset o takes.
LEMMA DwordsRead ==
    ASSUME NEW r, r.address \in Nat, r.length \in 1 .. 8
    PROVE  ReadDwords(r) = ((Offset(r) + r.length - 1) \div 4) + 1
<1>1. Offset(r) \in 0 .. 3
  BY OffsetOf
<1>2. CASE r.length \in {1, 5}
  BY <1>1, <1>2 DEF ReadDwords
<1>3. CASE r.length = 2
  BY <1>1, <1>3 DEF ReadDwords
<1>4. CASE r.length = 3
  BY <1>1, <1>4 DEF ReadDwords
<1>5. CASE r.length = 4
  BY <1>1, <1>5 DEF ReadDwords
<1>6. CASE r.length \in {6, 7, 8}
  BY <1>1, <1>6 DEF ReadDwords
<1> QED
  BY <1>2, <1>3, <1>4, <1>5, <1>6

LEMMA ReadsInMemory ==
    ASSUME NEW r, IsAccess(r, 8)
    PROVE  /\ ReadDwords(r) \in 1 .. 3
           /\ \A d \in FirstDword(r) .. FirstDword(r) + ReadDwords(r) - 1 : d \in Dword
<1> DEFINE o == Offset(r)
           f == FirstDword(r)
           n == ReadDwords(r)
<1>1. o \in 0 .. 3 /\ f \in Nat /\ r.address = 4 * f + o /\ r.length \in 1 .. 8
  BY OffsetOf DEF IsAccess
<1>2. n = ((o + r.length - 1) \div 4) + 1
  BY DwordsRead DEF IsAccess
<1> HIDE DEF o, f, n
<1>3. n \in 1 .. 3 /\ 4 * (n - 1) <= o + r.length - 1
  BY <1>1, <1>2
<1>4. ASSUME NEW d \in f .. f + n - 1 PROVE d \in Dword
  <2> DEFINE b == IF d = f THEN r.address ELSE 4 * d
  <2>1. b \in r.address .. r.address + r.length - 1 /\ b \div 4 = d
    BY <1>1, <1>3
  <2> QED
    BY <2>1 DEF IsAccess
<1> QED
  BY <1>3, <1>4 DEF f, n

\* A write is one dword or two, and the lanes of both carry each byte once.
LEMMA WriteLanes ==
    ASSUME NEW w, w.address \in Nat, w.length \in 1 .. 4
    PROVE  /\ FirstBytes(w) \subseteq Asked(w)
           /\ Asked(w) \ FirstBytes(w) = IF WriteDwords(w) = 2 THEN SecondBytes(w) ELSE {}
           /\ WriteDwords(w) \in {1, 2}
<1> DEFINE o == Offset(w)
           f == FirstDword(w)
           n == w.length
<1>1. o \in 0 .. 3 /\ f \in Nat /\ w.address = 4 * f + o /\ n \in 1 .. 4
  BY OffsetOf
<1>3. /\ WriteDwords(w) = 1 <=> o + n <= 4
      /\ WriteDwords(w) \in {1, 2}
  BY <1>1 DEF WriteDwords
<1>4. \A l : l \in ByteEnable0(w) <=> l \in Int /\ o <= l /\ l <= 3 /\ l < o + n
  <2>1. CASE o = 0
    BY <1>1, <2>1 DEF ByteEnable0
  <2>2. CASE o = 1
    BY <1>1, <2>2 DEF ByteEnable0
  <2>3. CASE o = 2
    BY <1>1, <2>3 DEF ByteEnable0
  <2>4. CASE o = 3
    BY <1>1, <2>4 DEF ByteEnable0
  <2> QED
    BY <1>1, <2>1, <2>2, <2>3, <2>4
<1>5. o + n > 4 => \A l : l \in ByteEnable1(w) <=> l \in Int /\ 0 <= l /\ l < o + n - 4
  <2>1. CASE n = 2
    BY <1>1, <2>1 DEF ByteEnable1
  <2>2. CASE n = 3
    BY <1>1, <2>2 DEF ByteEnable1
  <2>3. CASE n = 4
    BY <1>1, <2>3 DEF ByteEnable1
  <2> QED
    BY <1>1, <2>1, <2>2, <2>3
<1>2. /\ FirstBytes(w) = {<<4 * f + l, l - o>> : l \in ByteEnable0(w)}
      /\ o + n > 4 => SecondBytes(w) = {<<4 * f + 4 + l, 4 + l - o>> : l \in ByteEnable1(w)}
      /\ Asked(w) = {<<4 * f + o + i, i>> : i \in 0 .. n - 1}
  <2>1. \A l \in ByteEnable0(w) : 4 * f + l = 4 * f + l /\ 4 * 0 + l - o = l - o
    BY <1>1, <1>4
  <2>2. o + n > 4 => \A l \in ByteEnable1(w) : 4 * (f + 1) + l = 4 * f + 4 + l /\ 4 * 1 + l - o = 4 + l - o
    BY <1>1, <1>5
  <2>3. FirstBytes(w) = {<<4 * f + l, l - o>> : l \in ByteEnable0(w)}
    BY <2>1 DEF FirstBytes, Bytes
  <2>4. o + n > 4 => SecondBytes(w) = {<<4 * f + 4 + l, 4 + l - o>> : l \in ByteEnable1(w)}
    BY <2>2 DEF SecondBytes, Bytes
  <2>5. Asked(w) = {<<4 * f + o + i, i>> : i \in 0 .. n - 1}
    BY <1>1 DEF Asked
  <2> QED
    BY <2>3, <2>4, <2>5
<1> HIDE DEF o, f, n
<1>6. FirstBytes(w) = {<<4 * f + o + i, i>> : i \in {i \in 0 .. n - 1 : o + i <= 3}}
  <2>1. ASSUME NEW l \in ByteEnable0(w)
        PROVE  \E i \in 0 .. n - 1 : o + i <= 3 /\ <<4 * f + l, l - o>> = <<4 * f + o + i, i>>
    <3>1. l - o \in 0 .. n - 1 /\ o + (l - o) <= 3 /\ 4 * f + l = 4 * f + o + (l - o)
      BY <1>1, <1>4, <2>1
    <3> QED
      BY <3>1
  <2>2. ASSUME NEW i \in 0 .. n - 1, o + i <= 3
        PROVE  \E l \in ByteEnable0(w) : <<4 * f + l, l - o>> = <<4 * f + o + i, i>>
    <3>1. o + i \in ByteEnable0(w) /\ (o + i) - o = i /\ 4 * f + (o + i) = 4 * f + o + i
      BY <1>1, <1>4, <2>2
    <3> QED
      BY <3>1
  <2> QED
    BY <1>2, <2>1, <2>2
<1>7. o + n > 4 => SecondBytes(w) = {<<4 * f + o + i, i>> : i \in {i \in 0 .. n - 1 : o + i > 3}}
  <2> SUFFICES ASSUME o + n > 4
               PROVE  SecondBytes(w) = {<<4 * f + o + i, i>> : i \in {i \in 0 .. n - 1 : o + i > 3}}
    OBVIOUS
  <2>1. ASSUME NEW l \in ByteEnable1(w)
        PROVE  \E i \in 0 .. n - 1 : o + i > 3 /\ <<4 * f + 4 + l, 4 + l - o>> = <<4 * f + o + i, i>>
    <3>1. /\ 4 + l - o \in 0 .. n - 1 /\ o + (4 + l - o) > 3
          /\ 4 * f + 4 + l = 4 * f + o + (4 + l - o)
      BY <1>1, <1>5, <2>1
    <3> QED
      BY <3>1
  <2>2. ASSUME NEW i \in 0 .. n - 1, o + i > 3
        PROVE  \E l \in ByteEnable1(w) : <<4 * f + 4 + l, 4 + l - o>> = <<4 * f + o + i, i>>
    <3>1. /\ o + i - 4 \in ByteEnable1(w) /\ 4 + (o + i - 4) - o = i
          /\ 4 * f + 4 + (o + i - 4) = 4 * f + o + i
      BY <1>1, <1>5, <2>2
    <3> QED
      BY <3>1
  <2> QED
    BY <1>2, <2>1, <2>2
<1>8. FirstBytes(w) \subseteq Asked(w)
  BY <1>2, <1>6
<1>9. Asked(w) \ FirstBytes(w) = {<<4 * f + o + i, i>> : i \in {i \in 0 .. n - 1 : o + i > 3}}
  BY <1>1, <1>2, <1>6
<1>10. o + n <= 4 => {i \in 0 .. n - 1 : o + i > 3} = {}
  BY <1>1
<1> QED
  BY <1>1, <1>3, <1>7, <1>8, <1>9, <1>10

-----------------------------------------------------------------------------
(* The inductive invariant. *)

Held(s, R) == s = {} \/ \E r \in R : s = {r}

Shapes ==
    /\ menu \in Menus /\ rst \in BOOLEAN
    /\ Held(writeburst, menu.writes) /\ Held(readburst, menu.reads) /\ Held(readcode, menu.code)
    /\ Held(write_next, menu.writes)
    /\ state \in {"IDLE", "WRITE", "READ", "READ_CODE", "WRITE_DMA", "READ_DMA"}
    /\ counter \in 0 .. 7 /\ save_readburst \in 0 .. 3 /\ readaddrmux \in Lane
    /\ bus_0 \in Dword /\ bus_1 \in Dword
    /\ awaited = [a |-> awaited.a, left |-> awaited.left, absent |-> awaited.absent]
    /\ awaited.a \in Dword /\ awaited.left \in 0 .. 8
    /\ reply = {} \/ \E v : reply = {[a |-> Word, v |-> v]}
    /\ reply # {} => Word \in Dword

\* n words of the burst are still to be used, the next of dword d.
Coming(n) == awaited.left = IF reply = {} THEN n ELSE n - 1
At(d) == /\ reply # {} => Word = d
         /\ awaited.left > 0 => awaited.a = IF reply = {} THEN d ELSE d + 1

\* The master leaves a state that waits for words with the last of them.
MemInv ==
    /\ ~rst /\ state \in {"IDLE", "WRITE", "WRITE_DMA"} => awaited.left = 0 /\ reply = {}
    /\ state = "READ_CODE" => Coming(counter + 1)
    /\ state = "READ_DMA" => Coming(1) /\ At(DmaAddress)

\* A read in progress, n of its words to be used: they go to bus_1 and bus_0
\* in the order they come.
Reading(r, n) ==
    /\ readburst = {r} /\ save_readburst = ReadDwords(r) /\ readaddrmux = Offset(r)
    /\ counter = n - 1 /\ n \in 1 .. ReadDwords(r)
    /\ Coming(n) /\ At(FirstDword(r) + ReadDwords(r) - n)
    /\ n < ReadDwords(r) => bus_1 = FirstDword(r)
    /\ n < ReadDwords(r) - 1 => bus_0 = FirstDword(r) + 1

ReadInv == state = "READ" => \E r \in menu.reads, n \in 1 .. 3 : Reading(r, n)

\* What the first dword of a write leaves is what the second carries.
WriteInv ==
    IF state = "WRITE"
    THEN \E w \in menu.writes : write_next = {w} /\ WriteDwords(w) = 2 /\ owed = SecondBytes(w)
    ELSE write_next = {} /\ owed = {}

\* The registers between the channel and the bus are two clocks deep: a
\* request lasts one clock after the channel has seen it taken, when the master
\* is in READ_DMA, or has written already.
ChanInv ==
    /\ chan \in 0 .. 7 /\ transfer \in menu.dma \cup {"verify"}
    /\ dma_read \in BOOLEAN /\ dma_write \in BOOLEAN /\ mem_read \in BOOLEAN /\ mem_write \in BOOLEAN
    /\ ack \in BOOLEAN /\ orphaned \in BOOLEAN
    /\ dma_read <=> chan = 2
    /\ dma_write <=> chan = 6
    /\ mem_read => chan \in {2, 3} /\ (chan = 3 => rst \/ state = "READ_DMA")
    /\ mem_write => chan \in {4, 6} /\ transfer = "write"
    /\ chan = 6 => transfer = "write"
    /\ state = "READ_DMA" => chan \in {2, 3} /\ (chan = 2 => reply = {})
    /\ state = "WRITE_DMA" => chan \in {5, 6}
    /\ chan = 3 => orphaned \/ state = "READ_DMA"

TakenInv ==
    /\ dma_taken \in Nat
    /\ chan = 1 => dma_taken = 0
    /\ chan = 2 /\ state # "READ_DMA" => dma_taken = 0
    /\ chan = 6 /\ state # "WRITE_DMA" => dma_taken = 0
    /\ chan = 6 /\ state = "WRITE_DMA" => dma_taken = 1 /\ last_taken = "dma"
    /\ chan = 4 /\ mem_write => dma_taken = 1 /\ last_taken = "dma"

BusInv == Shapes /\ MemInv /\ ReadInv /\ WriteInv /\ ChanInv /\ TakenInv

LEMMA OnlyOne == \A x : Only({x}) = x
  BY DEF Only

-----------------------------------------------------------------------------
(* The memory in one clock. *)

LEMMA AfterInMemory ==
    \A a \in Dword : /\ (IF a + 1 \in Dword THEN a + 1 ELSE 0) \in Dword
                      /\ a \in Nat
  BY BusAssumption

LEMMA AwaitedShape ==
    ASSUME Shapes
    PROVE  /\ awaited = [a |-> awaited.a, left |-> awaited.left, absent |-> awaited.absent]
           /\ awaited.a \in Dword /\ awaited.a \in Nat /\ awaited.left \in 0 .. 8
  BY BusAssumption DEF Shapes

\* The memory returns the next word, or nothing.
LEMMA GoesOn ==
    ASSUME Shapes, MemoryGoesOn
    PROVE  /\ awaited' = [a |-> awaited'.a, left |-> awaited'.left, absent |-> awaited'.absent]
           /\ awaited'.a \in Dword /\ awaited'.left \in 0 .. 8
           /\ \/ reply' = {} /\ awaited' = awaited
              \/ /\ awaited.left > 0 /\ (\E v : reply' = {[a |-> Word', v |-> v]}) /\ Word' = awaited.a
                 /\ awaited'.left = awaited.left - 1
                 /\ awaited'.left > 0 /\ awaited.a + 1 \in Dword => awaited'.a = awaited.a + 1
<1>1. CASE Memory!Quiet
  BY <1>1 DEF Memory!Quiet, Shapes
<1>2. CASE Memory!ReturnWord
  <2>1. awaited.left > 0 /\ awaited.left \in 0 .. 8 /\ awaited.a \in Dword
    BY <1>2 DEF Memory!ReturnWord, Memory!NoBurst, Shapes
  <2>2. PICK v : reply' = {[a |-> awaited.a, v |-> v]}
    BY <1>2 DEF Memory!ReturnWord
  <2>3. Word' = awaited.a
    <3>1. Word' = Only({[a |-> awaited.a, v |-> v]}).a
      BY <2>2 DEF Word
    <3>2. Only({[a |-> awaited.a, v |-> v]}) = [a |-> awaited.a, v |-> v]
      BY OnlyOne, Zenon
    <3> QED
      BY <3>1, <3>2
  <2>4. CASE awaited.left > 1
    <3>1. awaited' = [awaited EXCEPT !.a = IF awaited.a + 1 \in Dword THEN awaited.a + 1 ELSE 0, !.left = @ - 1]
      BY <1>2, <2>1, <2>4 DEF Memory!ReturnWord
    <3> DEFINE next == IF awaited.a + 1 \in Dword THEN awaited.a + 1 ELSE 0
    <3> HIDE DEF next
    <3>2. awaited' = [a |-> next, left |-> awaited.left - 1, absent |-> awaited.absent]
      BY <3>1, AwaitedShape DEF next
    <3>3. /\ awaited'.a = IF awaited.a + 1 \in Dword THEN awaited.a + 1 ELSE 0
          /\ awaited'.left = awaited.left - 1
          /\ awaited' = [a |-> awaited'.a, left |-> awaited'.left, absent |-> awaited'.absent]
      BY <3>2 DEF next
    <3> QED
      BY <2>1, <2>2, <2>3, <3>3, AfterInMemory
  <2>5. CASE ~(awaited.left > 1)
    <3>1. awaited' = [awaited EXCEPT !.left = 0]
      BY <1>2, <2>5 DEF Memory!ReturnWord
    <3>3. awaited' = [a |-> awaited.a, left |-> 0, absent |-> awaited.absent]
      BY <3>1, AwaitedShape
    <3>2. /\ awaited'.a = awaited.a /\ awaited'.left = 0
          /\ awaited' = [a |-> awaited'.a, left |-> awaited'.left, absent |-> awaited'.absent]
      BY <3>3
    <3> QED
      BY <2>1, <2>2, <2>3, <2>5, <3>2
  <2> QED
    BY <2>4, <2>5
<1> QED
  BY <1>1, <1>2 DEF MemoryGoesOn

LEMMA ReplyShape ==
    ASSUME Shapes, MemoryGoesOn
    PROVE  /\ reply' = {} \/ \E v : reply' = {[a |-> Word', v |-> v]}
           /\ reply' # {} => Word' \in Dword
  BY GoesOn DEF Shapes

\* While nothing has come, as many words as before are to come.
LEMMA StillComing ==
    ASSUME Shapes, MemoryGoesOn, reply = {}, NEW n \in Nat, Coming(n)
    PROVE  Coming(n)'
  BY GoesOn DEF Coming

LEMMA StillAt ==
    ASSUME Shapes, MemoryGoesOn, reply = {}, NEW n \in Nat, Coming(n), NEW d \in Nat, At(d),
           n > 1 => d + 1 \in Dword
    PROVE  At(d)'
<1>1. awaited.left = n /\ (awaited.left > 0 => awaited.a = d)
  BY DEF Coming, At
<1>2. CASE reply' = {} /\ awaited' = awaited
  BY <1>1, <1>2 DEF At
<1>3. CASE /\ awaited.left > 0 /\ reply' # {} /\ Word' = awaited.a /\ awaited'.left = awaited.left - 1
           /\ awaited'.left > 0 /\ awaited.a + 1 \in Dword => awaited'.a = awaited.a + 1
  BY <1>1, <1>3 DEF At
<1> QED
  BY <1>2, <1>3, GoesOn

\* A word that is used makes it one less.
LEMMA OneLess ==
    ASSUME Shapes, MemoryGoesOn, reply # {}, NEW n \in Nat, Coming(n)
    PROVE  Coming(n - 1)'
  BY GoesOn DEF Coming

LEMMA NextAt ==
    ASSUME Shapes, MemoryGoesOn, reply # {}, NEW n \in Nat, Coming(n), NEW d \in Nat, At(d),
           n > 2 => d + 2 \in Dword
    PROVE  At(d + 1)'
<1>1. awaited.left = n - 1 /\ (awaited.left > 0 => awaited.a = d + 1)
  BY DEF Coming, At
<1>2. CASE reply' = {} /\ awaited' = awaited
  BY <1>1, <1>2 DEF At
<1>3. CASE /\ awaited.left > 0 /\ reply' # {} /\ Word' = awaited.a /\ awaited'.left = awaited.left - 1
           /\ awaited'.left > 0 /\ awaited.a + 1 \in Dword => awaited'.a = awaited.a + 1
  <2>1. d + 1 + 1 = d + 2
    OBVIOUS
  <2> QED
    BY <1>1, <1>3, <2>1 DEF At
<1> QED
  BY <1>2, <1>3, GoesOn

\* With no burst the memory is quiet.
LEMMA StaysQuiet ==
    ASSUME Shapes, MemoryGoesOn, awaited.left = 0
    PROVE  reply' = {} /\ awaited' = awaited
  BY GoesOn

LEMMA StartsRead ==
    ASSUME Shapes, awaited.left = 0, NEW d \in Dword, NEW n \in 1 .. 8, MemoryTakesRead(d, n)
    PROVE  /\ awaited' = [a |-> awaited'.a, left |-> awaited'.left, absent |-> awaited'.absent]
           /\ awaited'.a \in Dword /\ awaited'.left \in 0 .. 8
           /\ reply' = {} /\ Coming(n)' /\ At(d)'
<1>1. awaited' = [a |-> d, left |-> n, absent |-> FALSE] /\ reply' = {}
  BY DEF MemoryTakesRead, Memory!StartRead, Memory!NoBurst
<1> QED
  BY <1>1 DEF Coming, At

LEMMA Writes ==
    ASSUME Shapes, awaited.left = 0, NEW d \in Dword, MemoryTakesWrite(d)
    PROVE  /\ awaited' = [a |-> awaited'.a, left |-> awaited'.left, absent |-> awaited'.absent]
           /\ awaited'.a \in Dword /\ awaited'.left = 0 /\ reply' = {}
<1>1. awaited' = [awaited EXCEPT !.a = d] /\ reply' = {}
  BY DEF MemoryTakesWrite, Memory!Write, Memory!NoBurst
<1>2. awaited' = [a |-> d, left |-> awaited.left, absent |-> awaited.absent]
  BY <1>1, AwaitedShape
<1> QED
  BY <1>1, <1>2

-----------------------------------------------------------------------------
(* The DMA channel and the master. *)

LEMMA MenuOf ==
    ASSUME Shapes
    PROVE  /\ \A w \in menu.writes : IsAccess(w, 4)
           /\ \A r \in menu.reads : IsAccess(r, 8)
           /\ menu.code \subseteq Dword /\ menu.dma \subseteq {"read", "write", "verify"}
           /\ menu.reset \in BOOLEAN
  BY BusAssumption DEF Shapes, IsAccess

LEMMA EveryClock ==
    ASSUME Next
    PROVE  DmaClock /\ UNCHANGED menu
  BY DEF Next, TakeWrite, TakeRead, TakeCode, TakeDmaWrite, TakeDmaRead, Wait, SecondWrite, ReadWord,
         CodeWord, DmaDone, InReset, Running, ResetClock

\* What the master does for the channel, and the rest.
TakesRead == /\ state = "IDLE" /\ ~rst /\ mem_read /\ state' = "READ_DMA" /\ reply' = {}
             /\ Taken("dma")
TakesWrite == state = "IDLE" /\ ~rst /\ mem_write /\ state' = "WRITE_DMA" /\ Taken("dma")
WaitsForWord == state = "READ_DMA" /\ state' = "READ_DMA" /\ ~rst /\ reply = {} /\ NoneTaken
LeavesDma == /\ state \in {"READ_DMA", "WRITE_DMA"} /\ state' = "IDLE" /\ NoneTaken
             /\ state = "READ_DMA" => reply # {} \/ (rst /\ rst' /\ orphaned')
OtherWork == /\ {state, state'} \cap {"READ_DMA", "WRITE_DMA"} = {}
             /\ Taken("cpu") \/ NoneTaken

Moves == /\ orphaned => orphaned'
         /\ TakesRead \/ TakesWrite \/ WaitsForWord \/ LeavesDma \/ OtherWork

LEMMA EveryMove == ASSUME Shapes, MemInv, Next PROVE Moves
<1>1. CASE TakeWrite
  BY <1>1 DEF TakeWrite, Moves, OtherWork, WriteDwords
<1>2. CASE TakeRead
  BY <1>2 DEF TakeRead, Moves, OtherWork
<1>3. CASE TakeCode
  BY <1>3 DEF TakeCode, Moves, OtherWork
<1>4. CASE TakeDmaWrite
  BY <1>4 DEF TakeDmaWrite, Running, Moves, TakesWrite
<1>5. CASE TakeDmaRead
  <2>1. ~rst /\ state = "IDLE" /\ awaited.left = 0
    BY <1>5 DEF TakeDmaRead, Running, MemInv
  <2>2. reply' = {}
    BY <1>5, <2>1, StartsRead, BusAssumption DEF TakeDmaRead
  <2> QED
    BY <1>5, <2>1, <2>2 DEF TakeDmaRead, Moves, TakesRead
<1>6. CASE Wait
  <2>1. state' = state /\ state # "WRITE_DMA" /\ (state = "READ_DMA" => reply = {}) /\ ~rst /\ NoneTaken
        /\ orphaned' = orphaned
    BY <1>6 DEF Wait, Running, Valid, avalonVars
  <2> QED
    BY <2>1 DEF Moves, WaitsForWord, OtherWork
<1>7. CASE SecondWrite
  BY <1>7 DEF SecondWrite, Moves, OtherWork
<1>8. CASE ReadWord
  BY <1>8 DEF ReadWord, Moves, OtherWork
<1>9. CASE CodeWord
  BY <1>9 DEF CodeWord, Moves, OtherWork
<1>10. CASE DmaDone
  BY <1>10 DEF DmaDone, Valid, Moves, LeavesDma
<1>11. CASE InReset
  <2>1. /\ state' = "IDLE" /\ NoneTaken /\ rst
        /\ orphaned' = (orphaned \/ (state = "READ_DMA" /\ ~Valid))
        /\ IF Memory!NoBurst(awaited) /\ reply = {} THEN rst' \in BOOLEAN ELSE rst' = TRUE
    BY <1>11 DEF InReset
  <2>2. CASE state \in {"READ_DMA", "WRITE_DMA"}
    <3>1. state = "READ_DMA" /\ reply = {} => rst' /\ orphaned'
      <4>1. state = "READ_DMA" /\ reply = {} => awaited.left = 1
        BY DEF MemInv, Coming
      <4>2. state = "READ_DMA" /\ reply = {} => rst' = TRUE
        BY <2>1, <4>1 DEF Memory!NoBurst
      <4>3. state = "READ_DMA" /\ reply = {} => orphaned'
        BY <2>1, Zenon DEF Valid
      <4> QED
        BY <4>2, <4>3
    <3>2. orphaned => orphaned'
      BY <2>1
    <3> QED
      BY <2>1, <2>2, <3>1, <3>2 DEF Moves, LeavesDma
  <2>3. CASE state \notin {"READ_DMA", "WRITE_DMA"}
    BY <2>1, <2>3 DEF Moves, OtherWork
  <2> QED
    BY <2>2, <2>3
<1> QED
  BY <1>1, <1>2, <1>3, <1>4, <1>5, <1>6, <1>7, <1>8, <1>9, <1>10, <1>11 DEF Next

\* The state of the channel after a clock.
LEMMA ChanNext ==
    ASSUME Shapes, ChanInv, DmaClock
    PROVE  /\ chan = 0 => chan' \in {0, 1}
           /\ chan = 1 => chan' = IF transfer = "read" THEN 2 ELSE IF transfer = "write" THEN 6 ELSE 7
           /\ chan = 2 => chan' = IF state \in {"READ_DMA", "WRITE_DMA"} THEN 3 ELSE 2
           /\ chan = 3 => chan' = IF state = "READ_DMA" /\ reply # {} THEN 4 ELSE 3
           /\ chan = 4 => chan' = 5
           /\ chan = 5 => chan' = 0
           /\ chan = 6 => chan' = IF state \in {"READ_DMA", "WRITE_DMA"} THEN 4 ELSE 6
           /\ chan = 7 => chan' = 4
           /\ chan # 0 => transfer' = transfer
           /\ chan = 0 => transfer' \in menu.dma \cup {transfer}
<1>1. chan \in 0 .. 7 /\ transfer \in {"read", "write", "verify"}
  BY MenuOf DEF ChanInv
<1>2. chan # 0 => chan' = NextChan /\ transfer' = transfer
  BY DEF DmaClock
<1>3. chan = 0 => chan' \in {0, 1} /\ transfer' \in menu.dma \cup {transfer}
  BY DEF DmaClock
<1>4. chan = 1 => NextChan = IF transfer = "read" THEN 2 ELSE IF transfer = "write" THEN 6 ELSE 7
  BY <1>1 DEF NextChan
<1>5. chan \in {2, 6} => NextChan = IF state \in {"READ_DMA", "WRITE_DMA"}
                                    THEN (IF chan = 2 THEN 3 ELSE 4) ELSE chan
  BY DEF NextChan, DmaGranted, DmaWaitrequest
<1>6. chan = 3 => NextChan = IF state = "READ_DMA" /\ reply # {} THEN 4 ELSE 3
  BY DEF NextChan, DmaReaddatavalid, Valid
<1>7. chan \in {4, 5, 7} => NextChan = IF chan = 4 THEN 5 ELSE IF chan = 5 THEN 0 ELSE 4
  BY DEF NextChan
<1> QED
  BY <1>2, <1>3, <1>4, <1>5, <1>6, <1>7

\* The requests after a clock.
LEMMA RequestsNext ==
    ASSUME Shapes, ChanInv, DmaClock
    PROVE  /\ dma_read' \in BOOLEAN /\ dma_write' \in BOOLEAN
           /\ mem_read' \in BOOLEAN /\ mem_write' \in BOOLEAN /\ ack' \in BOOLEAN
           /\ dma_read' <=> chan' = 2
           /\ dma_write' <=> chan' = 6
           /\ mem_read' <=> chan = 2
           /\ mem_write' <=> chan = 6
<1> DEFINE granted == state \in {"READ_DMA", "WRITE_DMA"}
<1>1. /\ chan \in 0 .. 7 /\ dma_read \in BOOLEAN /\ dma_write \in BOOLEAN
      /\ (dma_read <=> chan = 2) /\ (dma_write <=> chan = 6)
  BY DEF ChanInv
<1>2. dma_read' = NextDmaRead /\ ack' = DmaAck
      /\ mem_read' = (chan # 0 /\ dma_read) /\ mem_write' = (chan # 0 /\ dma_write)
  BY DEF DmaClock
<1>3. NextDmaRead <=> (chan = 1 /\ transfer = "read") \/ (chan = 2 /\ ~granted)
  BY <1>1 DEF NextDmaRead, DmaGranted, DmaWaitrequest
<1>4. dma_write' <=> (chan = 1 /\ transfer = "write") \/ (chan = 6 /\ ~granted)
  BY <1>1 DEF DmaClock, DmaGranted, DmaWaitrequest
<1>5. NextDmaRead \in BOOLEAN /\ dma_write' \in BOOLEAN
  BY <1>1 DEF NextDmaRead, DmaClock
<1>6. DmaAck \in BOOLEAN
  BY Zenon DEF DmaAck
<1>7. (chan' = 2 <=> (chan = 1 /\ transfer = "read") \/ (chan = 2 /\ ~granted))
      /\ (chan' = 6 <=> (chan = 1 /\ transfer = "write") \/ (chan = 6 /\ ~granted))
  BY <1>1, ChanNext
<1>8. mem_read' \in BOOLEAN /\ mem_write' \in BOOLEAN
  BY <1>2, Zenon
<1>9. (mem_read' <=> chan = 2) /\ (mem_write' <=> chan = 6)
  BY <1>1, <1>2
<1>10. (dma_read' <=> chan' = 2) /\ dma_read' \in BOOLEAN
  BY <1>2, <1>3, <1>5, <1>7, Zenon
<1>11. dma_write' <=> chan' = 6
  BY <1>4, <1>7, Zenon
<1> QED
  BY <1>2, <1>5, <1>6, <1>8, <1>9, <1>10, <1>11, Zenon

LEMMA ChanStep ==
    ASSUME Shapes, MemInv, ChanInv, UNCHANGED menu, DmaClock, Moves, orphaned' \in BOOLEAN
    PROVE  ChanInv'
<1>1. /\ chan' \in 0 .. 7 /\ transfer' \in menu'.dma \cup {"verify"}
  BY ChanNext DEF ChanInv
<1>2. mem_read' => chan' \in {2, 3} /\ (chan' = 3 => rst' \/ state' = "READ_DMA")
  <2> SUFFICES ASSUME chan = 2 PROVE chan' \in {2, 3} /\ (chan' = 3 => rst' \/ state' = "READ_DMA")
    BY RequestsNext
  <2>1. state # "WRITE_DMA" /\ (state = "READ_DMA" => reply = {})
    BY DEF ChanInv
  <2>2. CASE state = "READ_DMA"
    <3>1. chan' = 3
      BY <2>2, ChanNext
    <3>2. WaitsForWord \/ LeavesDma
      BY <2>2 DEF Moves, TakesRead, TakesWrite, OtherWork
    <3>3. state' = "READ_DMA" \/ rst'
      BY <2>1, <2>2, <3>2 DEF WaitsForWord, LeavesDma
    <3> QED
      BY <3>1, <3>3
  <2>3. CASE state # "READ_DMA"
    BY <2>1, <2>3, ChanNext
  <2> QED
    BY <2>2, <2>3
<1>3. mem_write' => chan' \in {4, 6} /\ transfer' = "write"
  BY RequestsNext, ChanNext DEF ChanInv
<1>4. chan' = 6 => transfer' = "write"
  BY <1>1, ChanNext DEF ChanInv
<1>5. state' = "READ_DMA" => chan' \in {2, 3} /\ (chan' = 2 => reply' = {})
  BY ChanNext DEF ChanInv, Moves, TakesRead, TakesWrite, WaitsForWord, LeavesDma, OtherWork
<1>6. state' = "WRITE_DMA" => chan' \in {5, 6}
  BY ChanNext DEF ChanInv, Moves, TakesRead, TakesWrite, WaitsForWord, LeavesDma, OtherWork
<1>7. ASSUME chan' = 3 PROVE orphaned' \/ state' = "READ_DMA"
  <2>1. /\ chan \in {2, 3} /\ (chan = 2 => state = "READ_DMA" /\ reply = {})
        /\ state = "READ_DMA" => reply = {}
    BY <1>7, ChanNext DEF ChanInv
  <2>2. CASE state = "READ_DMA"
    <3>1. WaitsForWord \/ LeavesDma
      BY <2>2 DEF Moves, TakesRead, TakesWrite, OtherWork
    <3> QED
      BY <2>1, <2>2, <3>1 DEF WaitsForWord, LeavesDma
  <2>3. CASE state # "READ_DMA"
    <3>1. orphaned
      BY <2>1, <2>3 DEF ChanInv
    <3> QED
      BY <3>1 DEF Moves
  <2> QED
    BY <2>2, <2>3
<1> QED
  BY <1>1, <1>2, <1>3, <1>4, <1>5, <1>6, <1>7, RequestsNext DEF ChanInv

LEMMA TakenStep ==
    ASSUME Shapes, ChanInv, TakenInv, UNCHANGED menu, DmaClock, Moves
    PROVE  TakenInv'
<1>1. /\ dma_taken \in Nat /\ dma_taken' \in Nat
      /\ TakesRead \/ TakesWrite => dma_taken' = dma_taken + 1 /\ last_taken' = "dma"
      /\ WaitsForWord \/ LeavesDma => /\ dma_taken' = IF chan = 0 THEN 0 ELSE dma_taken
                                      /\ last_taken' = last_taken
      /\ OtherWork => dma_taken' = IF chan = 0 THEN 0 ELSE dma_taken
  BY DEF TakenInv, Moves, TakesRead, TakesWrite, WaitsForWord, LeavesDma, OtherWork, Taken, NoneTaken
<1>2. mem_write' <=> chan = 6
  BY RequestsNext
<1>3. CASE TakesRead
  <2>1. chan = 2 /\ chan' = 2 /\ state' = "READ_DMA"
    BY <1>3, ChanNext DEF TakesRead, ChanInv
  <2> QED
    BY <1>1, <1>2, <2>1 DEF TakenInv
<1>4. CASE TakesWrite
  <2>1. state = "IDLE" /\ state' = "WRITE_DMA" /\ chan \in {4, 6}
        /\ (chan = 6 => chan' = 6) /\ (chan = 4 => chan' = 5)
    BY <1>4, ChanNext DEF TakesWrite, ChanInv
  <2> QED
    BY <1>1, <1>2, <1>4, <2>1 DEF TakenInv
<1>5. CASE WaitsForWord
  <2>1. chan \in {2, 3} /\ chan' = 3 
    BY <1>5, ChanNext DEF WaitsForWord, ChanInv
  <2> QED
    BY <1>1, <1>2, <1>5, <2>1 DEF TakenInv
<1>6. CASE LeavesDma
  <2>1. \/ state = "READ_DMA" /\ chan' \in {3, 4} /\ chan \in {2, 3}
        \/ state = "WRITE_DMA" /\ chan = 6 /\ chan' = 4
        \/ state = "WRITE_DMA" /\ chan = 5 /\ chan' = 0
    BY <1>6, ChanNext DEF LeavesDma, ChanInv
  <2> QED
    BY <1>1, <1>2, <1>6, <2>1 DEF TakenInv
<1>7. CASE OtherWork
  <2>1. /\ state \notin {"READ_DMA", "WRITE_DMA"} /\ state' \notin {"READ_DMA", "WRITE_DMA"}
        /\ chan \in 0 .. 7
    BY <1>7 DEF OtherWork, ChanInv
  <2> QED
    BY <1>1, <1>2, <1>7, <2>1, ChanNext DEF TakenInv
<1> QED
  BY <1>3, <1>4, <1>5, <1>6, <1>7 DEF Moves

\* A DMA transfer is taken once, or written twice in a row.
LEMMA TakenOnce ==
    ASSUME Shapes, ChanInv, TakenInv, DmaClock, Moves
    PROVE  DmaTakenOnce
<1>1. CASE TakesRead
  BY <1>1 DEF TakesRead, ChanInv, TakenInv, DmaTakenOnce
<1>2. CASE TakesWrite
  BY <1>2 DEF TakesWrite, ChanInv, TakenInv, DmaTakenOnce
<1>3. CASE WaitsForWord \/ LeavesDma \/ OtherWork
  BY <1>3 DEF WaitsForWord, LeavesDma, OtherWork, Taken, NoneTaken, TakenInv, DmaTakenOnce
<1> QED
  BY <1>1, <1>2, <1>3 DEF Moves

-----------------------------------------------------------------------------
(* The processor's requests. *)

LEMMA WritesInMemory ==
    ASSUME NEW w, IsAccess(w, 4)
    PROVE  FirstDword(w) \in Dword /\ (WriteDwords(w) = 2 => FirstDword(w) + 1 \in Dword)
<1> DEFINE o == Offset(w)
           f == FirstDword(w)
<1>1. o \in 0 .. 3 /\ f \in Nat /\ w.address = 4 * f + o /\ w.length \in 1 .. 4
  BY OffsetOf DEF IsAccess
<1>2. WriteDwords(w) = 2 => o + w.length > 4
  BY <1>1 DEF WriteDwords
<1> HIDE DEF o, f
<1>3. w.address \in w.address .. w.address + w.length - 1 /\ w.address \div 4 = f
  BY <1>1
<1>4. o + w.length > 4 => /\ 4 * f + 4 \in w.address .. w.address + w.length - 1
                          /\ (4 * f + 4) \div 4 = f + 1
  BY <1>1
<1> QED
  BY <1>2, <1>3, <1>4 DEF IsAccess, f

LEMMA RequestsHeld ==
    ASSUME NEW R, NEW s, NEW t, NEW done \in BOOLEAN, Held(s, R), t \in Requests(s, done, R)
    PROVE  Held(t, R) /\ (s # {} /\ ~done => t = s)
<1>1. CASE s = {}
  BY <1>1 DEF Requests, Held
<1>2. CASE s # {}
  BY <1>2 DEF Requests, Held
<1> QED
  BY <1>1, <1>2

LEMMA Links ==
    ASSUME Shapes, UNCHANGED menu, NEW wd \in BOOLEAN, NEW rd \in BOOLEAN, NEW cd \in BOOLEAN,
           CpuClock(wd, rd, cd)
    PROVE  /\ Held(writeburst', menu'.writes) /\ Held(readburst', menu'.reads)
           /\ Held(readcode', menu'.code)
           /\ readburst # {} /\ ~rd => readburst' = readburst
  BY RequestsHeld DEF Shapes, CpuClock

\* The requests stay what they are, and a read stays until its last word.
LEMMA LinksStep ==
    ASSUME Shapes, Next
    PROVE  /\ Held(writeburst', menu'.writes) /\ Held(readburst', menu'.reads)
           /\ Held(readcode', menu'.code)
           /\ readburst # {} /\ ~rst /\ ~(state = "READ" /\ counter = 0 /\ reply # {}) =>
                  readburst' = readburst
<1>1. UNCHANGED menu
  BY EveryClock
<1>2. CASE TakeWrite
  BY <1>1, <1>2, Links DEF TakeWrite
<1>3. CASE TakeRead \/ TakeCode \/ TakeDmaWrite \/ TakeDmaRead \/ Wait \/ SecondWrite \/ DmaDone
  BY <1>1, <1>3, Links DEF TakeRead, TakeCode, TakeDmaWrite, TakeDmaRead, Wait, SecondWrite, DmaDone
<1>4. CASE CodeWord
  BY <1>1, <1>4, Links DEF CodeWord
<1>5. CASE ReadWord
  <2>1. state = "READ" /\ reply # {} /\ CpuClock(FALSE, counter = 0, FALSE)
    BY <1>5 DEF ReadWord, Valid
  <2>2. (counter = 0) \in BOOLEAN
    OBVIOUS
  <2> QED
    BY <1>1, <2>1, <2>2, Links
<1>6. CASE InReset
  BY <1>6 DEF InReset, Held
<1> QED
  BY <1>2, <1>3, <1>4, <1>5, <1>6 DEF Next

-----------------------------------------------------------------------------
(* The memory and the master. *)

Granted(for) == ~rst /\ state = "IDLE" /\ Grant = for

LEMMA GrantedOne ==
    ASSUME Shapes
    PROVE  /\ Granted("write") => \E w \in menu.writes : writeburst = {w} /\ Only(writeburst) = w
           /\ Granted("read") => \E r \in menu.reads : readburst = {r} /\ Only(readburst) = r
           /\ Granted("code") => \E d \in menu.code : readcode = {d} /\ Only(readcode) = d
<1>1. /\ Granted("write") => writeburst # {}
      /\ Granted("read") => readburst # {}
      /\ Granted("code") => readcode # {}
  BY DEF Granted, Grant
<1> QED
  BY <1>1, OnlyOne DEF Shapes, Held

LEMMA MemoryShapes ==
    ASSUME Shapes, MemInv, WriteInv, Next
    PROVE  /\ awaited' = [a |-> awaited'.a, left |-> awaited'.left, absent |-> awaited'.absent]
           /\ awaited'.a \in Dword /\ awaited'.left \in 0 .. 8
           /\ reply' = {} \/ \E v : reply' = {[a |-> Word', v |-> v]}
           /\ reply' # {} => Word' \in Dword
<1>1. CASE MemoryGoesOn
  BY <1>1, GoesOn, ReplyShape
<1>2. ~rst /\ state \in {"IDLE", "WRITE"} => awaited.left = 0
  BY DEF MemInv
<1>3. CASE TakeWrite
  <2>1. Granted("write")
    BY <1>3 DEF TakeWrite, Running, Granted
  <2>2. PICK w \in menu.writes : Only(writeburst) = w
    BY <2>1, GrantedOne
  <2>3. MemoryTakesWrite(FirstDword(w)) /\ FirstDword(w) \in Dword
    BY <1>3, <2>2, MenuOf, WritesInMemory DEF TakeWrite
  <2> QED
    BY <1>2, <2>1, <2>3, Writes DEF Granted
<1>4. CASE SecondWrite
  <2>1. state = "WRITE" /\ ~rst /\ MemoryTakesWrite(FirstDword(Only(write_next)) + 1)
    BY <1>4 DEF SecondWrite, Running
  <2>2. PICK w \in menu.writes : write_next = {w} /\ WriteDwords(w) = 2
    BY <2>1 DEF WriteInv
  <2>3. Only(write_next) = w /\ FirstDword(w) + 1 \in Dword
    BY <2>2, OnlyOne, MenuOf, WritesInMemory
  <2> QED
    BY <1>2, <2>1, <2>3, Writes
<1>5. CASE TakeRead
  <2>1. Granted("read")
    BY <1>5 DEF TakeRead, Running, Granted
  <2>2. PICK r \in menu.reads : Only(readburst) = r
    BY <2>1, GrantedOne
  <2>3. /\ MemoryTakesRead(FirstDword(r), ReadDwords(r))
        /\ FirstDword(r) \in Dword /\ ReadDwords(r) \in 1 .. 8
    <3>1. ReadDwords(r) \in 1 .. 3 /\ FirstDword(r) \in Nat
      BY MenuOf, ReadsInMemory, OffsetOf DEF IsAccess
    <3>2. FirstDword(r) \in FirstDword(r) .. FirstDword(r) + ReadDwords(r) - 1
      BY <3>1
    <3> QED
      BY <1>5, <2>2, <3>1, <3>2, MenuOf, ReadsInMemory DEF TakeRead
  <2> QED
    BY <1>2, <2>1, <2>3, StartsRead DEF Granted
<1>6. CASE TakeCode
  <2>1. Granted("code")
    BY <1>6 DEF TakeCode, Running, Granted
  <2>2. PICK d \in menu.code : Only(readcode) = d
    BY <2>1, GrantedOne
  <2>3. MemoryTakesRead(d, CodeBurst) /\ d \in Dword /\ CodeBurst \in 1 .. 8
    BY <1>6, <2>2, MenuOf, BusAssumption DEF TakeCode
  <2> QED
    BY <1>2, <2>1, <2>3, StartsRead DEF Granted
<1>7. CASE TakeDmaWrite
  BY <1>2, <1>7, Writes, BusAssumption DEF TakeDmaWrite, Running
<1>8. CASE TakeDmaRead
  <2>1. MemoryTakesRead(DmaAddress, 1) /\ DmaAddress \in Dword /\ awaited.left = 0 /\ 1 \in 1 .. 8
    BY <1>2, <1>8, BusAssumption DEF TakeDmaRead, Running
  <2> QED
    BY <2>1, StartsRead
<1> QED
  BY <1>1, <1>3, <1>4, <1>5, <1>6, <1>7, <1>8 DEF Next, Wait, ReadWord, CodeWord, DmaDone, InReset

LEMMA ShapesStep ==
    ASSUME Shapes, MemInv, WriteInv, Next
    PROVE  Shapes'
<1>1. menu' \in Menus /\ menu' = menu
  BY EveryClock DEF Shapes
<1>2. rst' \in BOOLEAN
  BY MenuOf DEF Next, TakeWrite, TakeRead, TakeCode, TakeDmaWrite, TakeDmaRead, Wait, SecondWrite,
                ReadWord, CodeWord, DmaDone, InReset, Running, ResetClock
<1>3. /\ Held(write_next', menu.writes)
      /\ state' \in {"IDLE", "WRITE", "READ", "READ_CODE", "WRITE_DMA", "READ_DMA"}
      /\ counter' \in 0 .. 7 /\ save_readburst' \in 0 .. 3 /\ readaddrmux' \in Lane
      /\ bus_0' \in Dword /\ bus_1' \in Dword
  <2>1. CASE TakeWrite
    <3>1. PICK w \in menu.writes : Only(writeburst) = w
      BY <2>1, GrantedOne DEF TakeWrite, Running, Granted
    <3> QED
      BY <2>1, <3>1 DEF TakeWrite, Shapes, Held
  <2>2. CASE TakeRead
    <3>1. PICK r \in menu.reads : Only(readburst) = r
      BY <2>2, GrantedOne DEF TakeRead, Running, Granted
    <3>2. ReadDwords(r) \in 1 .. 3 /\ Offset(r) \in 0 .. 3
      BY MenuOf, ReadsInMemory, OffsetOf DEF IsAccess
    <3> QED
      BY <2>2, <3>1, <3>2 DEF TakeRead, Shapes, Lane
  <2>3. CASE TakeCode
    BY <2>3, BusAssumption DEF TakeCode, Shapes
  <2>4. CASE ReadWord
    <3>1. Word \in Dword
      BY <2>4 DEF ReadWord, Valid, Shapes
    <3> QED
      BY <2>4, <3>1 DEF ReadWord, LastWord, Shapes
  <2>5. CASE CodeWord
    BY <2>5 DEF CodeWord, LastWord, Shapes
  <2>6. CASE TakeDmaWrite \/ TakeDmaRead \/ DmaDone
    BY <2>6 DEF TakeDmaWrite, TakeDmaRead, DmaDone, Shapes
  <2>7. CASE Wait
    BY <2>7 DEF Wait, avalonVars, Shapes
  <2>8. CASE SecondWrite \/ InReset
    BY <2>8 DEF SecondWrite, InReset, Shapes, Held
  <2> QED
    BY <2>1, <2>2, <2>3, <2>4, <2>5, <2>6, <2>7, <2>8 DEF Next
<1> QED
  BY <1>1, <1>2, <1>3, LinksStep, MemoryShapes DEF Shapes

\* The memory is quiet when the master asks for nothing, and answers what it
\* waits for.
LEMMA MemStep ==
    ASSUME Shapes, MemInv, ReadInv, WriteInv, Next
    PROVE  MemInv'
<1>1. ~rst /\ state \in {"IDLE", "WRITE", "WRITE_DMA"} => awaited.left = 0 /\ reply = {}
  BY DEF MemInv
<1>2. CASE TakeWrite
  <2>1. Granted("write") /\ awaited.left = 0
    BY <1>1, <1>2 DEF TakeWrite, Running, Granted
  <2>2. PICK w \in menu.writes : Only(writeburst) = w
    BY <2>1, GrantedOne
  <2>3. MemoryTakesWrite(FirstDword(w)) /\ FirstDword(w) \in Dword
    BY <1>2, <2>2, MenuOf, WritesInMemory DEF TakeWrite
  <2>4. awaited'.left = 0 /\ reply' = {}
    BY <2>1, <2>3, Writes
  <2>5. state' \in {"IDLE", "WRITE"}
    BY <1>2 DEF TakeWrite
  <2> QED
    BY <2>4, <2>5 DEF MemInv
<1>3. CASE TakeRead
  BY <1>3 DEF TakeRead, MemInv
<1>4. CASE TakeCode
  <2>1. Granted("code") /\ awaited.left = 0
    BY <1>1, <1>4 DEF TakeCode, Running, Granted
  <2>2. PICK d \in menu.code : Only(readcode) = d
    BY <2>1, GrantedOne
  <2>3. Coming(CodeBurst)'
    BY <1>4, <2>1, <2>2, MenuOf, StartsRead, BusAssumption DEF TakeCode
  <2>4. state' = "READ_CODE" /\ counter' + 1 = CodeBurst
    BY <1>4, BusAssumption DEF TakeCode
  <2> QED
    BY <2>3, <2>4 DEF MemInv, Coming
<1>5. CASE TakeDmaWrite
  <2>1. awaited.left = 0 /\ MemoryTakesWrite(DmaAddress) /\ state' = "WRITE_DMA"
    BY <1>1, <1>5 DEF TakeDmaWrite, Running
  <2> QED
    BY <2>1, Writes, BusAssumption DEF MemInv
<1>6. CASE TakeDmaRead
  <2>1. awaited.left = 0 /\ MemoryTakesRead(DmaAddress, 1) /\ state' = "READ_DMA"
    BY <1>1, <1>6 DEF TakeDmaRead, Running
  <2>2. Coming(1)' /\ At(DmaAddress)'
    BY <2>1, StartsRead, BusAssumption
  <2> QED
    BY <2>1, <2>2 DEF MemInv
<1>7. CASE Wait
  <2>1. /\ MemoryGoesOn /\ ~rst /\ state' = state /\ counter' = counter
        /\ state \in {"READ_CODE", "READ_DMA"} => reply = {}
    BY <1>7 DEF Wait, Running, Valid, avalonVars
  <2>2. state \in {"IDLE", "WRITE", "WRITE_DMA"} => awaited'.left = 0 /\ reply' = {}
    BY <1>1, <2>1, StaysQuiet
  <2>3. state = "READ_CODE" => Coming(counter + 1)'
    <3> SUFFICES ASSUME state = "READ_CODE" PROVE Coming(counter + 1)'
      OBVIOUS
    <3>1. PICK n \in Nat : n = counter + 1
      BY DEF Shapes
    <3>2. Coming(n)
      BY <3>1 DEF MemInv
    <3>3. Coming(n)'
      BY <2>1, <3>2, StillComing
    <3>4. counter' + 1 = n
      BY <2>1, <3>1
    <3> QED
      BY <3>3, <3>4 DEF Coming
  <2>4. state = "READ_DMA" => Coming(1)' /\ At(DmaAddress)'
    BY <2>1, StillComing, StillAt, BusAssumption DEF MemInv
  <2> QED
    BY <2>1, <2>2, <2>3, <2>4 DEF MemInv
<1>8. CASE SecondWrite
  <2>1. state = "WRITE" /\ ~rst /\ MemoryTakesWrite(FirstDword(Only(write_next)) + 1) /\ state' = "IDLE"
    BY <1>8 DEF SecondWrite, Running
  <2>2. PICK w \in menu.writes : write_next = {w} /\ WriteDwords(w) = 2
    BY <2>1 DEF WriteInv
  <2>3. Only(write_next) = w /\ FirstDword(w) + 1 \in Dword
    BY <2>2, OnlyOne, MenuOf, WritesInMemory
  <2> QED
    BY <1>1, <2>1, <2>3, Writes DEF MemInv
<1>9. CASE ReadWord
  <2>1. state = "READ" /\ reply # {} /\ MemoryGoesOn
    BY <1>9 DEF ReadWord, Valid
  <2>2. CASE counter = 0
    <3>1. Coming(1)
      <4>1. PICK r \in menu.reads, n \in 1 .. 3 : counter = n - 1 /\ Coming(n)
        BY <2>1 DEF ReadInv, Reading
      <4>2. n = 1
        BY <2>2, <4>1
      <4> QED
        BY <4>1, <4>2
    <3>2. awaited.left = 0
      BY <2>1, <2>2, <3>1 DEF Coming
    <3>3. reply' = {} /\ awaited' = awaited /\ state' = "IDLE"
      BY <1>9, <2>1, <2>2, <3>2, StaysQuiet DEF ReadWord, LastWord
    <3> QED
      BY <3>2, <3>3 DEF MemInv
  <2>3. CASE counter # 0
    <3>1. state' = "READ"
      BY <1>9, <2>1, <2>3 DEF ReadWord, LastWord
    <3> QED
      BY <3>1 DEF MemInv
  <2> QED
    BY <2>2, <2>3
<1>10. CASE CodeWord
  <2>1. state = "READ_CODE" /\ reply # {} /\ MemoryGoesOn /\ Coming(counter + 1) /\ counter \in 0 .. 7
    BY <1>10 DEF CodeWord, Valid, MemInv, Shapes
  <2>2. CASE counter = 0
    <3>1. awaited.left = 0
      BY <2>1, <2>2 DEF Coming
    <3>2. reply' = {} /\ awaited' = awaited /\ state' = "IDLE"
      BY <1>10, <2>1, <2>2, <3>1, StaysQuiet DEF CodeWord, LastWord
    <3> QED
      BY <3>1, <3>2 DEF MemInv
  <2>3. CASE counter # 0
    <3>1. state' = "READ_CODE" /\ counter' + 1 = counter /\ counter + 1 \in Nat
      BY <1>10, <2>1, <2>3 DEF CodeWord, LastWord
    <3>2. awaited'.left = IF reply' = {} THEN counter + 1 - 1 ELSE counter + 1 - 1 - 1
      BY <2>1, <3>1, OneLess DEF Coming
    <3>3. Coming(counter + 1)'
      BY <2>1, <3>1, <3>2 DEF Coming
    <3> QED
      BY <3>1, <3>3 DEF MemInv
  <2> QED
    BY <2>2, <2>3
<1>11. CASE DmaDone
  <2>1. /\ MemoryGoesOn /\ state' = "IDLE" /\ ~rst
        /\ state = "WRITE_DMA" \/ (state = "READ_DMA" /\ reply # {})
    BY <1>11 DEF DmaDone, Running, Valid
  <2>2. awaited.left = 0
    BY <2>1 DEF MemInv, Coming
  <2>3. reply' = {} /\ awaited' = awaited
    BY <2>1, <2>2, StaysQuiet
  <2> QED
    BY <2>1, <2>2, <2>3 DEF MemInv
<1>12. CASE InReset
  <2>1. /\ MemoryGoesOn /\ state' = "IDLE"
        /\ ~(awaited.left = 0 /\ reply = {}) => rst' = TRUE
    BY <1>12 DEF InReset, Memory!NoBurst
  <2>2. awaited.left = 0 => reply' = {} /\ awaited' = awaited
    BY <2>1, StaysQuiet
  <2> QED
    BY <2>1, <2>2 DEF MemInv
<1> QED
  BY <1>2, <1>3, <1>4, <1>5, <1>6, <1>7, <1>8, <1>9, <1>10, <1>11, <1>12 DEF Next

LEMMA ReadStep ==
    ASSUME Shapes, MemInv, ReadInv, WriteInv, Next
    PROVE  ReadInv'
<1>1. menu' = menu
  BY EveryClock
<1>2. CASE TakeRead
  <2>1. Granted("read") /\ awaited.left = 0
    BY <1>2 DEF TakeRead, Running, Granted, MemInv
  <2>2. PICK r \in menu.reads : readburst = {r} /\ Only(readburst) = r
    BY <2>1, GrantedOne
  <2>3. PICK n \in 1 .. 3 : n = ReadDwords(r)
    BY MenuOf, ReadsInMemory
  <2>4. FirstDword(r) \in Nat /\ FirstDword(r) \in Dword
    <3>1. FirstDword(r) \in Nat /\ ReadDwords(r) \in 1 .. 3
      BY MenuOf, ReadsInMemory, OffsetOf DEF IsAccess
    <3>2. FirstDword(r) \in FirstDword(r) .. FirstDword(r) + ReadDwords(r) - 1
      BY <3>1
    <3> QED
      BY <3>1, <3>2, MenuOf, ReadsInMemory
  <2>5. MemoryTakesRead(FirstDword(r), n) /\ n \in 1 .. 8
    BY <1>2, <2>2, <2>3 DEF TakeRead
  <2>6. Coming(n)' /\ At(FirstDword(r))'
    BY <2>1, <2>4, <2>5, StartsRead
  <2>7. readburst' = {r}
    BY <1>2, <2>1, <2>2, LinksStep DEF Granted
  <2>8. save_readburst' = n /\ readaddrmux' = Offset(r) /\ counter' = n - 1
    BY <1>2, <2>2, <2>3 DEF TakeRead
  <2>9. FirstDword(r) + ReadDwords(r) - n = FirstDword(r)
    BY <2>3, <2>4
  <2>10. Reading(r, n)'
    BY <2>3, <2>6, <2>7, <2>8, <2>9 DEF Reading, At
  <2> QED
    BY <1>1, <2>10 DEF ReadInv
<1>3. CASE Wait
  <2> SUFFICES ASSUME state = "READ" PROVE ReadInv'
    BY <1>3 DEF Wait, avalonVars, ReadInv
  <2>1. PICK r \in menu.reads, n \in 1 .. 3 : Reading(r, n)
    BY DEF ReadInv
  <2>2. /\ MemoryGoesOn /\ ~rst /\ reply = {} /\ counter' = counter /\ save_readburst' = save_readburst
        /\ readaddrmux' = readaddrmux /\ bus_0' = bus_0 /\ bus_1' = bus_1
    BY <1>3 DEF Wait, Running, Valid, avalonVars
  <2>3. readburst' = readburst
    BY <2>1, <2>2, LinksStep DEF Reading
  <2>4. /\ ReadDwords(r) \in 1 .. 3 /\ FirstDword(r) \in Nat
        /\ \A d \in FirstDword(r) .. FirstDword(r) + ReadDwords(r) - 1 : d \in Dword
    BY MenuOf, ReadsInMemory, OffsetOf DEF IsAccess
  <2>5. PICK d \in Nat : d = FirstDword(r) + ReadDwords(r) - n
    BY <2>1, <2>4 DEF Reading
  <2>6. n > 1 => d + 1 \in Dword
    BY <2>1, <2>4, <2>5 DEF Reading
  <2>7. Coming(n) /\ At(d)
    BY <2>1, <2>5 DEF Reading
  <2>8. Coming(n)' /\ At(d)'
    BY <2>2, <2>6, <2>7, StillComing, StillAt
  <2>9. Reading(r, n)'
    BY <2>1, <2>2, <2>3, <2>5, <2>8 DEF Reading, At
  <2> QED
    BY <1>1, <2>9 DEF ReadInv
<1>4. CASE ReadWord
  <2>1. PICK r \in menu.reads, n \in 1 .. 3 : Reading(r, n)
    BY <1>4 DEF ReadInv, ReadWord
  <2>2. /\ state = "READ" /\ MemoryGoesOn /\ ~rst /\ reply # {} /\ save_readburst' = save_readburst
        /\ readaddrmux' = readaddrmux
    BY <1>4 DEF ReadWord, Running, Valid
  <2>3. CASE counter = 0
    BY <1>4, <2>3 DEF ReadWord, LastWord, ReadInv
  <2>4. CASE counter # 0
    <3>1. /\ counter' = counter - 1 /\ bus_0' = Word
          /\ bus_1' = IF counter = 2 \/ save_readburst = 2 THEN Word ELSE bus_1
      BY <1>4, <2>4 DEF ReadWord, LastWord
    <3>2. /\ ReadDwords(r) \in 1 .. 3 /\ FirstDword(r) \in Nat
          /\ \A d \in FirstDword(r) .. FirstDword(r) + ReadDwords(r) - 1 : d \in Dword
      BY MenuOf, ReadsInMemory, OffsetOf DEF IsAccess
    <3>3. n - 1 \in 1 .. 3 /\ n \in 1 .. ReadDwords(r) /\ counter = n - 1 /\ save_readburst = ReadDwords(r)
      BY <2>1, <2>4 DEF Reading
    <3>4. PICK d \in Nat : d = FirstDword(r) + ReadDwords(r) - n
      BY <3>2, <3>3
    <3>5. n > 2 => d + 2 \in Dword
      BY <3>2, <3>3, <3>4
    <3>6. Coming(n) /\ At(d)
      BY <2>1, <3>4 DEF Reading
    <3>7. Coming(n - 1)' /\ At(d + 1)'
      BY <2>2, <3>5, <3>6, OneLess, NextAt
    <3>8. Word = d
      BY <2>2, <3>6 DEF At
    <3>9. readburst' = {r} /\ readburst = {r}
      BY <2>1, <2>2, <2>4, LinksStep DEF Reading
    <3>10. d + 1 = FirstDword(r) + ReadDwords(r) - (n - 1)
      BY <3>2, <3>3, <3>4
    <3>11. n - 1 < ReadDwords(r) => bus_1' = FirstDword(r)
      <4>1. CASE counter = 2 \/ save_readburst = 2
        BY <3>1, <3>2, <3>3, <3>4, <3>8, <4>1
      <4>2. CASE ~(counter = 2 \/ save_readburst = 2)
        <5>1. n = 2 /\ ReadDwords(r) = 3
          BY <3>2, <3>3, <4>2
        <5>2. bus_1 = FirstDword(r)
          BY <2>1, <5>1 DEF Reading
        <5> QED
          BY <3>1, <4>2, <5>2
      <4> QED
        BY <4>1, <4>2
    <3>12. n - 1 < ReadDwords(r) - 1 => bus_0' = FirstDword(r) + 1
      BY <3>1, <3>2, <3>3, <3>4, <3>8
    <3>13. Reading(r, n - 1)'
      <4>1. n - 1 \in 1 .. ReadDwords(r) /\ counter' = n - 1 - 1
        BY <3>1, <3>2, <3>3
      <4> QED
        BY <2>1, <2>2, <3>7, <3>9, <3>10, <3>11, <3>12, <4>1 DEF Reading, At
    <3> QED
      BY <1>1, <3>3, <3>13 DEF ReadInv
  <2> QED
    BY <2>3, <2>4
<1>5. CASE TakeWrite \/ TakeCode \/ TakeDmaWrite \/ TakeDmaRead \/ SecondWrite \/ DmaDone \/ InReset
  BY <1>5 DEF TakeWrite, TakeCode, TakeDmaWrite, TakeDmaRead, SecondWrite, DmaDone, InReset, ReadInv
<1>6. CASE CodeWord
  BY <1>6 DEF CodeWord, ReadInv
<1> QED
  BY <1>2, <1>3, <1>4, <1>5, <1>6 DEF Next

LEMMA WriteStep ==
    ASSUME Shapes, WriteInv, Next
    PROVE  WriteInv'
<1>1. menu' = menu
  BY EveryClock
<1>2. CASE TakeWrite
  <2>1. Granted("write")
    BY <1>2 DEF TakeWrite, Running, Granted
  <2>2. PICK w \in menu.writes : Only(writeburst) = w
    BY <2>1, GrantedOne
  <2>3. owed' = Asked(w) \ FirstBytes(w)
    BY <1>2, <2>2 DEF TakeWrite
  <2>4. owed' = IF WriteDwords(w) = 2 THEN SecondBytes(w) ELSE {}
    BY <2>2, <2>3, MenuOf, WriteLanes DEF IsAccess
  <2>5. CASE WriteDwords(w) = 2
    <3>1. state' = "WRITE" /\ write_next' = {w}
      BY <1>2, <2>2, <2>5 DEF TakeWrite
    <3> QED
      BY <1>1, <2>4, <2>5, <3>1 DEF WriteInv
  <2>6. CASE WriteDwords(w) # 2
    <3>1. state' = "IDLE" /\ write_next' = write_next /\ state = "IDLE"
      BY <1>2, <2>2, <2>6 DEF TakeWrite
    <3> QED
      BY <2>4, <2>6, <3>1 DEF WriteInv
  <2> QED
    BY <2>5, <2>6
<1>3. CASE SecondWrite
  <2>1. state = "WRITE" /\ state' = "IDLE" /\ write_next' = {} /\ owed' = owed \ SecondBytes(Only(write_next))
    BY <1>3 DEF SecondWrite
  <2>2. PICK w \in menu.writes : write_next = {w} /\ owed = SecondBytes(w)
    BY <2>1 DEF WriteInv
  <2>3. Only(write_next) = w
    BY <2>2, OnlyOne
  <2>4. owed' = {}
    BY <2>1, <2>2, <2>3
  <2> QED
    BY <2>1, <2>4 DEF WriteInv
<1>4. CASE InReset
  BY <1>4 DEF InReset, WriteInv
<1>5. CASE Wait
  BY <1>1, <1>5 DEF Wait, avalonVars, WriteInv
<1>6. CASE TakeRead \/ TakeCode \/ TakeDmaWrite \/ TakeDmaRead \/ DmaDone
  BY <1>6 DEF TakeRead, TakeCode, TakeDmaWrite, TakeDmaRead, DmaDone, WriteInv
<1>7. CASE ReadWord \/ CodeWord
  BY <1>7 DEF ReadWord, CodeWord, WriteInv
<1> QED
  BY <1>2, <1>3, <1>4, <1>5, <1>6, <1>7 DEF Next

LEMMA OrphanedKept ==
    ASSUME orphaned \in BOOLEAN, Next
    PROVE  orphaned' \in BOOLEAN
<1>1. CASE InReset
  <2>1. orphaned' = (orphaned \/ (state = "READ_DMA" /\ ~Valid))
    BY <1>1 DEF InReset
  <2> QED
    BY <2>1, Zenon
<1>2. CASE ~InReset
  <2>1. orphaned' = orphaned
    BY <1>2 DEF Next, TakeWrite, TakeRead, TakeCode, TakeDmaWrite, TakeDmaRead, Wait, SecondWrite,
                ReadWord, CodeWord, DmaDone
  <2> QED
    BY <2>1
<1> QED
  BY <1>1, <1>2

-----------------------------------------------------------------------------
(* The invariant and what follows from it. *)

LEMMA InitInv == Init => BusInv
<1> SUFFICES ASSUME Init PROVE BusInv
  OBVIOUS
<1>1. /\ awaited = [a |-> awaited.a, left |-> awaited.left, absent |-> awaited.absent]
      /\ awaited.left = 0 /\ awaited.a = 0 /\ reply = {}
  BY DEF Init, Memory!Init
<1>2. /\ menu \in Menus /\ rst = FALSE
      /\ writeburst = {} /\ readburst = {} /\ readcode = {}
      /\ state = "IDLE" /\ counter = 0 /\ save_readburst = 0 /\ readaddrmux = 0
      /\ bus_0 = 0 /\ bus_1 = 0 /\ write_next = {} /\ owed = {}
  BY DEF Init
<1>3. /\ chan = 0 /\ transfer = "verify" /\ dma_taken = 0
      /\ ~dma_read /\ dma_read \in BOOLEAN /\ ~dma_write /\ dma_write \in BOOLEAN
      /\ ~mem_read /\ mem_read \in BOOLEAN /\ ~mem_write /\ mem_write \in BOOLEAN
      /\ ack \in BOOLEAN /\ orphaned \in BOOLEAN
  BY DEF Init
<1>4. Shapes
  <2>1. awaited.left \in 0 .. 8 /\ awaited.a \in Dword
    BY <1>1, BusAssumption
  <2>2. /\ Held(writeburst, menu.writes) /\ Held(readburst, menu.reads) /\ Held(readcode, menu.code)
        /\ Held(write_next, menu.writes)
    BY <1>2 DEF Held
  <2>3. /\ menu \in Menus /\ rst \in BOOLEAN
        /\ state \in {"IDLE", "WRITE", "READ", "READ_CODE", "WRITE_DMA", "READ_DMA"}
        /\ counter \in 0 .. 7 /\ save_readburst \in 0 .. 3 /\ readaddrmux \in Lane
        /\ bus_0 \in Dword /\ bus_1 \in Dword
    <3>1. menu \in Menus /\ rst \in BOOLEAN
      BY <1>2, Zenon
    <3>2. state \in {"IDLE", "WRITE", "READ", "READ_CODE", "WRITE_DMA", "READ_DMA"}
      BY <1>2
    <3>3. counter = 0 /\ save_readburst = 0 /\ readaddrmux = 0 /\ bus_0 = 0 /\ bus_1 = 0
      BY <1>2
    <3>4. bus_0 \in Dword /\ bus_1 \in Dword
      BY <3>3, BusAssumption
    <3>5. counter \in 0 .. 7 /\ save_readburst \in 0 .. 3 /\ readaddrmux \in Lane
      BY <3>3 DEF Lane
    <3> QED
      BY <3>1, <3>2, <3>4, <3>5
  <2>4. /\ reply = {} \/ \E v : reply = {[a |-> Word, v |-> v]}
        /\ reply # {} => Word \in Dword
    BY <1>1
  <2>5. awaited = [a |-> awaited.a, left |-> awaited.left, absent |-> awaited.absent]
    BY <1>1
  <2> QED
    BY <2>1, <2>2, <2>3, <2>4, <2>5, Zenon DEF Shapes
<1>5. MemInv /\ ReadInv /\ WriteInv
  BY <1>1, <1>2 DEF MemInv, ReadInv, WriteInv
<1>6. ChanInv /\ TakenInv
  BY <1>2, <1>3 DEF ChanInv, TakenInv
<1> QED
  BY <1>4, <1>5, <1>6 DEF BusInv

LEMMA StepInv ==
    ASSUME BusInv, Next
    PROVE  BusInv' /\ DmaTakenOnce
<1>1. Shapes /\ MemInv /\ ReadInv /\ WriteInv /\ ChanInv /\ TakenInv
  BY DEF BusInv
<1>2. DmaClock /\ UNCHANGED menu /\ Moves
  BY <1>1, EveryClock, EveryMove
<1>3. orphaned' \in BOOLEAN
  BY <1>1, OrphanedKept DEF ChanInv
<1>4. Shapes' /\ MemInv' /\ ReadInv' /\ WriteInv'
  BY <1>1, ShapesStep, MemStep, ReadStep, WriteStep
<1>5. ChanInv' /\ TakenInv'
  BY <1>1, <1>2, <1>3, ChanStep, TakenStep
<1>6. DmaTakenOnce
  BY <1>1, <1>2, TakenOnce
<1> QED
  BY <1>4, <1>5, <1>6 DEF BusInv

LEMMA StutterInv ==
    ASSUME BusInv, UNCHANGED vars
    PROVE  BusInv' /\ DmaTakenOnce
<1>1. /\ UNCHANGED <<menu, rst, writeburst, readburst, readcode, state, counter, save_readburst>>
      /\ UNCHANGED <<readaddrmux, bus_0, bus_1, write_next, chan, transfer, dma_read, dma_write>>
      /\ UNCHANGED <<mem_read, mem_write, ack, awaited, reply, owed, dma_taken, last_taken, orphaned>>
  BY DEF vars, cpuVars, avalonVars, dmaVars, memVars
<1>2. Shapes'
  BY <1>1 DEF BusInv, Shapes, Held, Word
<1>3. MemInv' /\ WriteInv'
  BY <1>1 DEF BusInv, MemInv, WriteInv, Coming, At, Word
<1>4. ReadInv'
  BY <1>1 DEF BusInv, ReadInv, Reading, Coming, At, Word
<1>5. ChanInv' /\ TakenInv' /\ DmaTakenOnce
  BY <1>1 DEF BusInv, ChanInv, TakenInv, DmaTakenOnce
<1> QED
  BY <1>2, <1>3, <1>4, <1>5 DEF BusInv

LEMMA Inductive == Spec => []BusInv
<1>1. Init => BusInv
  BY InitInv
<1>2. BusInv /\ [Next]_vars => BusInv'
  BY StepInv, StutterInv
<1> QED
  BY <1>1, <1>2, PTL DEF Spec

LEMMA HeldOne ==
    ASSUME NEW s, NEW R, Held(s, R)
    PROVE  s \in SUBSET R /\ Cardinality(s) <= 1
  BY FS_EmptySet, FS_Singleton DEF Held

\* Every register keeps its width and every link at most one request, for any
\* memory and any accesses that fit in it (avalon_mem.v:94-127).
THEOREM BusTypeCorrect == Spec => []TypeOK
<1>1. BusInv => TypeOK
  <2> SUFFICES ASSUME BusInv PROVE TypeOK
    OBVIOUS
  <2>1. Shapes /\ ChanInv
    BY DEF BusInv
  <2>2. /\ writeburst \in SUBSET menu.writes /\ Cardinality(writeburst) <= 1
        /\ readburst \in SUBSET menu.reads /\ Cardinality(readburst) <= 1
        /\ readcode \in SUBSET menu.code /\ Cardinality(readcode) <= 1
        /\ write_next \in SUBSET menu.writes
    BY <2>1, HeldOne DEF Shapes
  <2>3. /\ menu \in Menus /\ rst \in BOOLEAN
        /\ state \in {"IDLE", "WRITE", "READ", "READ_CODE", "WRITE_DMA", "READ_DMA"}
        /\ counter \in 0 .. 7 /\ save_readburst \in 0 .. 3 /\ readaddrmux \in Lane
        /\ bus_0 \in Dword /\ bus_1 \in Dword
        /\ awaited.a \in Dword /\ awaited.left \in 0 .. 8
    BY <2>1 DEF Shapes
  <2>4. /\ chan \in 0 .. 7 /\ transfer \in menu.dma \union {"verify"}
        /\ dma_read \in BOOLEAN /\ dma_write \in BOOLEAN
        /\ mem_read \in BOOLEAN /\ mem_write \in BOOLEAN /\ ack \in BOOLEAN
    BY <2>1 DEF ChanInv
  <2> QED
    BY <2>2, <2>3, <2>4 DEF TypeOK
<1> QED
  BY <1>1, Inductive, PTL

LEMMA LastWordAnswers ==
    ASSUME BusInv, ReadburstDone, ~rst
    PROVE  \A i \in 0 .. Only(readburst).length - 1 :
              DataOut(Word, i) = Only(readburst).address + i
<1>1. state = "READ" /\ counter = 0 /\ reply # {}
  BY DEF ReadburstDone, Valid
<1>2. PICK r \in menu.reads, n \in 1 .. 3 : Reading(r, n)
  BY <1>1 DEF BusInv, ReadInv
<1>3. n = 1 /\ Only(readburst) = r
  <2>1. n = 1 /\ readburst = {r}
    BY <1>1, <1>2 DEF Reading
  <2>2. Only({r}) = r
    BY OnlyOne, Zenon
  <2> QED
    BY <2>1, <2>2
<1>4. r.address \in Nat /\ r.length \in 1 .. 8 /\ ReadDwords(r) \in 1 .. 3
  BY MenuOf, ReadsInMemory DEF BusInv, IsAccess
<1> DEFINE o == Offset(r)
           f == FirstDword(r)
           k == ReadDwords(r)
<1>5. o \in 0 .. 3 /\ f \in Nat /\ r.address = 4 * f + o /\ k = ((o + r.length - 1) \div 4) + 1
  BY <1>4, OffsetOf, DwordsRead
<1>6. /\ save_readburst = k /\ readaddrmux = o /\ Word = f + k - 1
      /\ k > 1 => bus_1 = f
      /\ k > 2 => bus_0 = f + 1
  BY <1>1, <1>2, <1>3, <1>4, <1>5 DEF Reading, At
<1>7. ASSUME NEW i \in 0 .. r.length - 1
      PROVE  DataOut(Word, i) = r.address + i
  <2> DEFINE p == o + i
  <2>1. p \in Nat /\ p \div 4 \in 0 .. k - 1 /\ p % 4 \in 0 .. 3 /\ p = 4 * (p \div 4) + (p % 4)
    <3>1. p \in 0 .. o + r.length - 1
      BY <1>4, <1>5
    <3>2. p % 4 \in 0 .. 3 /\ p = 4 * (p \div 4) + (p % 4) /\ p \div 4 \in Nat
      <4>1. p \in Nat
        BY <3>1, <1>4, <1>5
      <4> HIDE DEF p
      <4> QED
        BY <4>1
    <3>3. p \div 4 <= (o + r.length - 1) \div 4
      BY <3>1, <1>4, <1>5
    <3> QED
      BY <3>1, <3>2, <3>3, <1>4, <1>5
  <2> HIDE DEF o, f, k
  <2>2. \A j \in 0 .. k - 1 : ReadData(Word)[j + 1] = f + j
    <3>1. ReadData(Word) = <<IF k \in {2, 3} THEN bus_1 ELSE Word,
                             IF k = 3 THEN bus_0 ELSE Word, Word>>
      BY <1>6 DEF ReadData
    <3>2. k \in 1 .. 3
      BY <1>4 DEF k
    <3>3. CASE k = 1
      BY <1>5, <1>6, <3>1, <3>3
    <3>4. CASE k = 2
      BY <1>5, <1>6, <3>1, <3>4
    <3>5. CASE k = 3
      BY <1>5, <1>6, <3>1, <3>5
    <3> QED
      BY <3>2, <3>3, <3>4, <3>5
  <2>3. DataOut(Word, i) = 4 * ReadData(Word)[(p \div 4) + 1] + (p % 4)
    BY <1>6 DEF DataOut
  <2>4. ReadData(Word)[(p \div 4) + 1] = f + (p \div 4)
    BY <2>1, <2>2
  <2> DEFINE q == p \div 4
             m == p % 4
  <2>5. q \in Int /\ m \in Int /\ p = 4 * q + m /\ p = o + i
    BY <2>1, <1>4
  <2>6. DataOut(Word, i) = 4 * (f + q) + m
    BY <2>3, <2>4
  <2> HIDE DEF q, m, p
  <2>7. 4 * (f + q) + m = 4 * f + o + i
    BY <2>5, <1>5
  <2> QED
    BY <1>5, <2>6, <2>7
<1> QED
  BY <1>3, <1>7

\* Whatever the memory, a read of 1 to 8 bytes at any offset is answered with
\* just those bytes in order, and a write of 1 to 4 puts each byte in its place
\* and touches no other: the tables readburst_* and writeburst_* of
\* avalon_mem.v are right for every address, not for the tested ones alone.
THEOREM BusLanesExact == Spec => []LanesExact
<1>1. ASSUME BusInv PROVE LanesExact
  <2>1. ReadAssembled
    BY <1>1, LastWordAnswers DEF ReadAssembled
  <2>2. \A w \in writeburst : FirstBytes(w) \subseteq Asked(w)
    <3>1. \A w \in writeburst : w \in menu.writes
      BY <1>1 DEF BusInv, Shapes, Held
    <3> QED
      BY <1>1, <3>1, MenuOf, WriteLanes DEF BusInv, IsAccess
  <2>3. owed = UNION {SecondBytes(w) : w \in write_next} /\ (state # "WRITE" => owed = {})
    <3>1. CASE state = "WRITE"
      <4>1. PICK w \in menu.writes : write_next = {w} /\ owed = SecondBytes(w)
        BY <1>1, <3>1 DEF BusInv, WriteInv
      <4>2. UNION {SecondBytes(x) : x \in {w}} = SecondBytes(w)
        OBVIOUS
      <4> QED
        BY <3>1, <4>1, <4>2
    <3>2. CASE state # "WRITE"
      BY <1>1, <3>2 DEF BusInv, WriteInv
    <3> QED
      BY <3>1, <3>2
  <2> QED
    BY <2>1, <2>2, <2>3 DEF LanesExact, WriteWhole
<1> QED
  BY <1>1, Inductive, PTL

\* Whatever is asked for and whenever the processor is reset, the cache drops
\* no request, the DMA channel gets the data it asked for and no others, and a
\* DMA transfer is taken once, or written twice in a row (avalon_mem.v:160-330
\* with dma.v's two-clock handshake).
THEOREM BusNothingLost == Spec => NothingLost
<1>1. ASSUME BusInv PROVE NoRequestDropped /\ DmaDataComes
  <2>1. NoRequestDropped
    BY <1>1 DEF BusInv, MemInv, NoRequestDropped, AvmRead, AvmWrite, Memory!NoBurst
  <2>2. DmaReaddatavalid => state = "READ_DMA" /\ reply # {}
    BY DEF DmaReaddatavalid, Valid
  <2>3. DmaReaddatavalid => chan = 3 /\ Word = DmaAddress
    BY <1>1, <2>2 DEF BusInv, MemInv, ChanInv, At
  <2>4. chan = 3 /\ ~orphaned => state = "READ_DMA"
    BY <1>1 DEF BusInv, ChanInv
  <2> QED
    BY <2>1, <2>3, <2>4 DEF DmaDataComes
<1>2. BusInv /\ [Next]_vars => DmaTakenOnce
  BY StepInv, StutterInv
<1>3. BusInv /\ [Next]_vars => [NoRequestDropped /\ DmaDataComes /\ DmaTakenOnce]_vars
  BY <1>1, <1>2
<1> QED
  BY <1>3, Inductive, PTL DEF Spec, NothingLost
=============================================================================
