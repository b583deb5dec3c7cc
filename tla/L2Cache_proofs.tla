--------------------------- MODULE L2Cache_proofs ---------------------------
(* Proofs about L2Cache, for every geometry of the cache and every content:  *)
(* its types, its coherence, its victims, and that it implements            *)
(* MemoryService.                                                          *)
EXTENDS L2Cache, TLAPS

\* The touched order of a set is again a total assignment of ages to ways.
LEMMA TouchType ==
    ASSUME NEW ages \in [Way -> Way], NEW w \in Way
    PROVE  Touch(ages, w) \in [Way -> Way]
<1>1. \A i \in Way : ages[i] \in Way /\ ages[i] \in 0 .. Assoc - 1
  BY DEF Way
<1>2. \A i \in Way : ages[i] < ages[w] => ages[i] + 1 \in Way
  <2> TAKE i \in Way
  <2>1. ages[i] \in 0 .. Assoc - 1 /\ ages[w] \in 0 .. Assoc - 1
    BY <1>1
  <2>2. ASSUME NEW x \in 0 .. Assoc - 1, NEW y \in 0 .. Assoc - 1, x < y
        PROVE  x + 1 \in 0 .. Assoc - 1
    BY <2>2, SizeAssumption
  <2> QED
    BY <2>1, <2>2 DEF Way
<1>3. 0 \in Way
  BY SizeAssumption DEF Way
<1> QED
  BY <1>1, <1>2, <1>3 DEF Touch

\* What a RAM write port leaves in an entry has the entry's type.
LEMMA WrittenType ==
    ASSUME NEW S, NEW port \in SUBSET S, NEW old \in S
    PROVE  Written(port, old) \in S
BY DEF Written

LEMMA NextAddrType ==
    ASSUME NEW a \in Addr
    PROVE  NextAddr(a) \in Addr
BY SizeAssumption, LineAssumption DEF NextAddr, Addr, Word

LEMMA IndexType ==
    ASSUME NEW a \in Addr
    PROVE  Index(a) \in CacheSet
BY LineAssumption DEF Index, Addr

LEMMA RamPortsType == TypeOK /\ RamPorts =>
    /\ dirty' \in [CacheSet -> [Way -> BOOLEAN]]
    /\ lru' \in [CacheSet -> [Way -> Way]]
<1> SUFFICES ASSUME TypeOK, RamPorts
             PROVE  /\ dirty' \in [CacheSet -> [Way -> BOOLEAN]]
                    /\ lru' \in [CacheSet -> [Way -> Way]]
  OBVIOUS
<1>1. Written(LRU_in, lru[LRU_addr]) \in [Way -> Way]
  <2>1. LRU_in \in SUBSET [Way -> Way] /\ lru[LRU_addr] \in [Way -> Way]
    BY DEF TypeOK
  <2> QED
    BY <2>1, WrittenType
<1> QED
  BY <1>1 DEF TypeOK, RamPorts

LEMMA LruPipelineType == TypeOK /\ LruPipeline => LRU_in' \in SUBSET [Way -> Way]
<1> SUFFICES ASSUME TypeOK, LruPipeline PROVE LRU_in' \in SUBSET [Way -> Way]
  OBVIOUS
<1>1. lru[LRU_addr] \in [Way -> Way] /\ cache_mux \in Way
  BY DEF TypeOK
<1>2. Touch(lru[LRU_addr], cache_mux) \in [Way -> Way]
  BY <1>1, TouchType
<1> QED
  BY <1>2 DEF LruPipeline

LEMMA DdrTakesType ==
    ASSUME NEW busy \in BOOLEAN, TypeOK, DdrTakes(busy)
    PROVE  /\ ddr' \in [Addr -> Val]
           /\ ddr_phase' \in {"idle", "latency", "data"}
           /\ ddr_line' \in Line
           /\ ddr_beat' \in Word
BY SizeAssumption DEF TypeOK, DdrTakes, TakesWrite, Addr, Word

LEMMA DdrUnheardType ==
    ASSUME NEW busy \in BOOLEAN, TypeOK, DdrUnheard(busy)
    PROVE  /\ ddr' \in [Addr -> Val]
           /\ ddr_phase' \in {"idle", "latency", "data"}
           /\ ddr_line' \in Line
           /\ ddr_beat' \in Word
<1>1. CASE DdrTakes(busy)
  BY <1>1, DdrTakesType
<1>2. CASE TakesWrite(busy) /\ DdrBeat
  BY <1>2, SizeAssumption DEF TypeOK, TakesWrite, DdrBeat, Addr, Word
<1> QED
  BY <1>1, <1>2 DEF DdrUnheard

\* Every register keeps to its width.
THEOREM L2TypeCorrect == Spec => []TypeOK
<1>1. Init => TypeOK
  <2> SUFFICES ASSUME Init PROVE TypeOK
    OBVIOUS
  <2>1. 0 \in CacheSet /\ 0 \in Way /\ 0 \in Word /\ 0 \in 0 .. MaxBurst
    BY SizeAssumption DEF CacheSet, Way, Word
  <2>2. /\ tag \in [CacheSet -> [Way -> Line]]
        /\ read_addr \in Addr /\ ram_addr \in Addr /\ ddr_line \in Line
    BY <2>1 DEF Init, Addr
  <2>3. data \in [CacheSet -> [Way -> [Word -> Val]]]
    BY DEF Init
  <2> QED
    BY <2>1, <2>2, <2>3 DEF Init, TypeOK, States
<1>2. TypeOK /\ [Next]_vars => TypeOK'
  <2> SUFFICES ASSUME TypeOK, [Next]_vars PROVE TypeOK'
    OBVIOUS
  <2>1. CASE Reset
    <3>1. 0 \in CacheSet /\ 0 \in Word
      BY SizeAssumption DEF CacheSet, Word
    <3>2. RamPorts
      BY <2>1 DEF Reset
    <3> QED
      BY <2>1, <3>1, <3>2, RamPortsType DEF Reset, TypeOK, States, reqVars
  <2>2. ASSUME NEW busy \in BOOLEAN, Start(busy) PROVE TypeOK'
    <3>1. update_tag_addr' \in CacheSet
      BY <2>2, SizeAssumption DEF Start, TypeOK, CacheSet
    <3>2. LRU_in' \in SUBSET [Way -> Way]
      BY <2>2 DEF Start
    <3>3. RamPorts /\ DdrUnheard(busy)
      BY <2>2 DEF Start
    <3>4. /\ dirty' \in [CacheSet -> [Way -> BOOLEAN]]
          /\ lru' \in [CacheSet -> [Way -> Way]]
      BY <3>3, RamPortsType
    <3>5. /\ ddr' \in [Addr -> Val]
          /\ ddr_phase' \in {"idle", "latency", "data"}
          /\ ddr_line' \in Line
          /\ ddr_beat' \in Word
      BY <3>3, DdrUnheardType
    <3> QED
      BY <2>2, <3>1, <3>2, <3>4, <3>5 DEF Start, TypeOK, States, PortRegs, reqVars
  <2>3. ASSUME NEW busy \in BOOLEAN, Idle(busy) PROVE TypeOK'
    BY <2>3, RamPortsType, LruPipelineType, DdrUnheardType
       DEF Idle, TypeOK, PortRegs, reqVars
  <2>4. ASSUME NEW busy \in BOOLEAN, WriteOne(busy) PROVE TypeOK'
    <3>1. data' \in [CacheSet -> [Way -> [Word -> Val]]]
      BY <2>4, IndexType DEF WriteOne, UpdateCopies, TypeOK, Addr
    <3> QED
      BY <2>4, <3>1, RamPortsType, LruPipelineType, DdrTakesType
         DEF WriteOne, TypeOK, States, PortRegs, reqVars
  <2>5. ASSUME NEW busy \in BOOLEAN, ReadHit(busy) PROVE TypeOK'
    <3>1. /\ Index(read_addr) \in CacheSet
          /\ read_addr \in Addr
          /\ NextAddr(read_addr) \in Addr
          /\ ddr' \in [Addr -> Val]
          /\ Matching \subseteq Way
          /\ read_addr[1] \in Line /\ read_addr[2] \in Word /\ 0 \in Word
      <4>1. read_addr \in Addr
        BY DEF TypeOK
      <4>2. DdrTakes(busy)
        BY <2>5 DEF ReadHit, Lookup
      <4>3. 0 \in Word
        BY SizeAssumption DEF Word
      <4> QED
        BY <4>1, <4>2, <4>3, IndexType, NextAddrType, DdrTakesType DEF Matching, Addr
    <3>2. dout' \in SUBSET [a: Addr, v: Val \union {OpenBus}]
      BY <2>5, <3>1 DEF ReadHit, TypeOK
    <3>3. held' \in SUBSET Val
      BY <2>5, <3>1 DEF ReadHit, TypeOK
    <3>4. /\ burst_left' \in 0 .. MaxBurst
          /\ read_addr' \in Addr
          /\ ram_addr' \in Addr
          /\ cache_mux' \in Way
          /\ state' \in States
      BY <2>5, <3>1, SizeAssumption DEF ReadHit, Lookup, TypeOK, States, Addr
    <3> QED
      BY <2>5, <3>1, <3>2, <3>3, <3>4, RamPortsType, LruPipelineType, DdrTakesType
         DEF ReadHit, Lookup, TypeOK, ForceNext
  <2>6. ASSUME NEW busy \in BOOLEAN, ReadMiss(busy) PROVE TypeOK'
    <3>1. /\ Index(read_addr) \in CacheSet
          /\ <<read_addr[1], 0>> \in Addr /\ 0 \in Word
      BY IndexType, SizeAssumption DEF TypeOK, Addr, Word
    <3> QED
      BY <2>6, <3>1, RamPortsType, LruPipelineType, DdrTakesType
         DEF ReadMiss, Lookup, TypeOK, States, MissTags, ForceNext
  <2>7. ASSUME NEW busy \in BOOLEAN, FillWait(busy) PROVE TypeOK'
    BY <2>7, RamPortsType, LruPipelineType, DdrTakesType
       DEF FillWait, Fill, TypeOK, PortRegs, reqVars, Victim
  <2>8. ASSUME NEW busy \in BOOLEAN, FillBeat(busy) PROVE TypeOK'
    <3>1. Index(read_addr) \in CacheSet /\ ddr[<<ddr_line, ddr_beat>>] \in Val
      BY IndexType DEF TypeOK, Addr
    <3>2. data' \in [CacheSet -> [Way -> [Word -> Val]]]
      BY <2>8, <3>1 DEF FillBeat, TypeOK
    <3>3. fillcount' \in Word /\ ddr_beat' \in Word
      BY <2>8, SizeAssumption DEF FillBeat, DdrBeat, LastBeat, TypeOK, Word
    <3> QED
      BY <2>8, <3>2, <3>3, RamPortsType, LruPipelineType
         DEF FillBeat, Fill, DdrBeat, TypeOK, States, PortRegs, reqVars, Victim
  <2>9. ASSUME NEW busy \in BOOLEAN, ReadCacheOut(busy) PROVE TypeOK'
    BY <2>9, RamPortsType, LruPipelineType, DdrTakesType, IndexType
       DEF ReadCacheOut, TypeOK, States, PortRegs, reqVars, Addr
  <2>10. ASSUME NEW r \in ReadRequest, AcceptRead(r) PROVE TypeOK'
    <3>1. /\ r.a \in Addr /\ r.n \in 0 .. MaxBurst
          /\ r.behind \in BOOLEAN /\ r.forced \in BOOLEAN
      BY SizeAssumption DEF ReadRequest, Burst
    <3>2. DdrTakes(FALSE) /\ RamPorts /\ LruPipeline
      BY <2>10 DEF AcceptRead, Accept
    <3>3. ddr' \in [Addr -> Val]
      BY <3>2, DdrTakesType
    <3>4. held' \in SUBSET Val
      BY <2>10, <3>1, <3>3 DEF AcceptRead
    <3> QED
      BY <2>10, <3>1, <3>2, <3>4, RamPortsType, LruPipelineType, DdrTakesType
         DEF AcceptRead, Accept, TypeOK, States
  <2>11. ASSUME NEW r \in WriteRequest, AcceptWrite(r) PROVE TypeOK'
    BY <2>11, RamPortsType, LruPipelineType, DdrTakesType
       DEF AcceptWrite, Accept, WriteRequest, TypeOK, States
  <2>12. ASSUME NEW a \in Addr, NEW v \in Val, HostWrite(a, v) PROVE TypeOK'
    BY <2>12 DEF HostWrite, TypeOK, reqVars
  <2>13. CASE UNCHANGED vars
    BY <2>13 DEF vars, TypeOK
  <2> QED
    BY <2>1, <2>2, <2>3, <2>4, <2>5, <2>6, <2>7, <2>8, <2>9, <2>10, <2>11, <2>12,
       <2>13 DEF Next, Step
<1> QED
  BY <1>1, <1>2, PTL DEF Spec

-----------------------------------------------------------------------------
(* The inductive invariant, in parts: what the state says of each register. *)

IsOrder(ages) == \A v, w \in Way : v # w => ages[v] # ages[w]

\* The sets the sweep has passed, and all of them after it, are in order.
LruInv ==
    \A s \in CacheSet : (state = "START" => s < update_tag_addr) => IsOrder(Ages(s))

\* The write port of the valid bits.
PortInv ==
    /\ state = "START" =>
         /\ update_tag_we
         /\ \A w \in Way : tags_dirty_in[w]
         /\ \A s \in CacheSet : s < update_tag_addr => \A w \in Way : dirty[s][w]
    /\ state \in {"IDLE", "WRITEONE", "READONE"} => ~update_tag_we
    /\ Filling => update_tag_addr = Index(read_addr)
    /\ state = "READCACHE_OUT" => update_tag_we

\* The DDR port: one read at a time, in FILLCACHE alone unless a reset orphaned
\* it, and none behind a write.
DdrInv ==
    /\ state \in {"WRITEONE", "READONE", "READCACHE_OUT"} => DdrQuiet
    /\ state = "FILLCACHE" =>
         /\ ram_rd <=> ddr_phase = "idle"
         /\ ram_rd => ram_addr[1] = read_addr[1]
         /\ ddr_phase # "idle" => ddr_line = read_addr[1] /\ ddr_beat = fillcount
         /\ ddr_phase # "data" => fillcount = 0
    /\ Reading => ~ram_we
    /\ state = "WRITEONE" => ram_we /\ ram_addr = read_addr

\* The victim is settled before the first beat.
MuxInv ==
    /\ Filling => dout = {}
    /\ state = "FILLCACHE" /\ ddr_phase # "idle" => LRU_in = {}
    /\ state = "FILLCACHE" /\ ddr_phase = "data" =>
         Victim(lru[LRU_addr]) = {} \/ cache_mux \in Victim(lru[LRU_addr])

\* A fill has written to the victim.
Touched == state = "READCACHE_OUT" \/ (state = "FILLCACHE" /\ fillcount > 0)

\* Valid tags are unique, and stay so with the tag and the valid bits that the
\* fill will write.
TagInv ==
    /\ state # "START" =>
         \A s \in CacheSet : \A v, w \in Way :
            v # w /\ ~dirty[s][v] /\ ~dirty[s][w] => tag[s][v] # tag[s][w]
    /\ Filling =>
         \A w \in Way : ~tags_dirty_in[w] /\ ~(Touched /\ w = cache_mux) =>
            ~dirty[Index(read_addr)][w] /\ tag[Index(read_addr)][w] # read_addr[1]
    /\ state = "FILLCACHE" /\ update_tag_we =>
         \A w \in Way : ~(Touched /\ w = cache_mux) => tags_dirty_in[w]
    /\ state = "READCACHE_OUT" => ~tags_dirty_in[cache_mux]

\* A way holds lines of its own set only: the tag RAM has no set bits.
HomeInv == \A s \in CacheSet, w \in Way : IndexOf[tag[s][w]] = s

\* Valid ways are copies of memory, and so is what the fill has written.
CopyInv ==
    /\ state # "START" =>
         \A s \in CacheSet, w \in Way, i \in Word :
            \/ dirty[s][w]
            \/ tag[s][w] \in Shared
            \/ Touched /\ s = Index(read_addr) /\ w = cache_mux
            \/ state = "WRITEONE" /\ <<tag[s][w], i>> = read_addr
            \/ data[s][w][i] = Mem(<<tag[s][w], i>>)
    /\ Filling /\ read_addr[1] \notin Shared =>
         \A i \in Word : (state = "FILLCACHE" => i < fillcount) =>
            data[Index(read_addr)][cache_mux][i] = Mem(<<read_addr[1], i>>)

-----------------------------------------------------------------------------
(* Facts about one clock edge. *)

LEMMA WrittenNone == ASSUME NEW old PROVE Written({}, old) = old
BY DEF Written

LEMMA WrittenOne == ASSUME NEW old, NEW new PROVE Written({new}, old) = new
BY DEF Written

\* The LRU RAM takes what its port holds.
LEMMA RamPortsAges ==
    ASSUME TypeOK, RamPorts, NEW s \in CacheSet
    PROVE  lru'[s] = Ages(s)
BY DEF TypeOK, RamPorts, Ages

LEMMA TouchOrder ==
    ASSUME NEW ages \in [Way -> Way], IsOrder(ages), NEW w \in Way
    PROVE  IsOrder(Touch(ages, w))
<1> SUFFICES ASSUME NEW x \in Way, NEW y \in Way, x # y
             PROVE  Touch(ages, w)[x] # Touch(ages, w)[y]
  BY DEF IsOrder
<1>1. ages[x] \in Nat /\ ages[y] \in Nat /\ ages[w] \in Nat
  <2>1. ages[x] \in Way /\ ages[y] \in Way /\ ages[w] \in Way
    OBVIOUS
  <2>2. \A n \in Way : n \in Nat
    BY SizeAssumption DEF Way
  <2> QED
    BY <2>1, <2>2
<1>2. ages[x] # ages[y] /\ (x # w => ages[x] # ages[w]) /\ (y # w => ages[y] # ages[w])
  BY DEF IsOrder
<1>3. /\ Touch(ages, w)[x] = IF x = w THEN 0
                             ELSE IF ages[x] < ages[w] THEN ages[x] + 1 ELSE ages[x]
      /\ Touch(ages, w)[y] = IF y = w THEN 0
                             ELSE IF ages[y] < ages[w] THEN ages[y] + 1 ELSE ages[y]
  BY DEF Touch
<1> QED
  BY <1>1, <1>2, <1>3

LEMMA PipelineOrder ==
    ASSUME TypeOK, RamPorts, LruPipeline,
           \A s \in CacheSet : IsOrder(Ages(s)), NEW s \in CacheSet
    PROVE  IsOrder(Ages(s)')
<1>1. lru'[s] = Ages(s)
  BY RamPortsAges
<1>2. CASE LRU_in' = {}
  BY <1>1, <1>2, WrittenNone DEF Ages
<1>3. CASE LRU_in' # {}
  <2>1. LRU_in = {} /\ LRU_in' = {Touch(lru[LRU_addr], cache_mux)}
    BY <1>3 DEF LruPipeline
  <2>2. Ages(LRU_addr) = lru[LRU_addr]
    BY <2>1, WrittenNone DEF Ages
  <2>3. lru[LRU_addr] \in [Way -> Way] /\ cache_mux \in Way /\ LRU_addr \in CacheSet
    BY DEF TypeOK
  <2>4. IsOrder(Touch(lru[LRU_addr], cache_mux))
    BY <2>2, <2>3, TouchOrder
  <2> QED
    BY <1>1, <2>1, <2>4, WrittenOne DEF Ages
<1> QED
  BY <1>2, <1>3

-----------------------------------------------------------------------------
(* Each part is preserved. *)

LEMMA LruStep == TypeOK /\ LruInv /\ [Next]_vars => LruInv'
<1> SUFFICES ASSUME TypeOK, LruInv, [Next]_vars, NEW s \in CacheSet,
                    state' = "START" => s < update_tag_addr'
             PROVE  IsOrder(Ages(s)')
  BY DEF LruInv
<1>1. CASE Reset
  <2>1. s \in Nat
    BY DEF CacheSet
  <2> QED
    BY <1>1, <2>1 DEF Reset
<1>2. ASSUME NEW busy \in BOOLEAN, Start(busy) PROVE IsOrder(Ages(s)')
  <2>1. RamPorts /\ LRU_in' = {[w \in Way |-> w]} /\ LRU_addr' = update_tag_addr
    BY <1>2 DEF Start
  <2>2. lru'[s] = Ages(s)
    BY <2>1, RamPortsAges
  <2>3. CASE s = update_tag_addr
    <3>1. Ages(s)' = [w \in Way |-> w]
      BY <2>1, <2>3, WrittenOne DEF Ages
    <3> QED
      BY <3>1 DEF IsOrder
  <2>4. CASE s # update_tag_addr
    <3>1. Ages(s)' = Ages(s)
      BY <2>1, <2>2, <2>4 DEF Ages
    <3>2. s < update_tag_addr
      BY <1>2, <2>4, SizeAssumption DEF Start, TypeOK, CacheSet
    <3>3. IsOrder(Ages(s))
      BY <1>2, <3>2 DEF LruInv
    <3> QED
      BY <3>1, <3>3 DEF IsOrder
  <2> QED
    BY <2>3, <2>4
<1>3. CASE RamPorts /\ LruPipeline /\ state # "START"
  BY <1>3, PipelineOrder DEF LruInv
<1>4. CASE UNCHANGED <<state, update_tag_addr, lru, LRU_addr, LRU_in>>
  <2>1. Ages(s)' = Ages(s)
    BY <1>4 DEF Ages
  <2> QED
    BY <1>4, <2>1 DEF LruInv, IsOrder
<1>5. CASE Next
  BY <1>1, <1>2, <1>3, <1>4, <1>5
     DEF Next, Step, Idle, WriteOne, ReadHit, ReadMiss, Lookup, FillWait, FillBeat, Fill,
         ReadCacheOut, AcceptRead, AcceptWrite, Accept, HostWrite
<1> QED
  BY <1>4, <1>5 DEF vars

LEMMA PortStep == TypeOK /\ PortInv /\ [Next]_vars => PortInv'
<1> SUFFICES ASSUME TypeOK, PortInv, [Next]_vars PROVE PortInv'
  OBVIOUS
<1>1. CASE Reset
  <2>1. \A s \in CacheSet : ~(s < 0)
    BY DEF CacheSet
  <2> QED
    BY <1>1, <2>1 DEF Reset, PortInv, Filling
<1>2. ASSUME NEW busy \in BOOLEAN, Start(busy) PROVE PortInv'
  <2>1. /\ update_tag_we /\ \A w \in Way : tags_dirty_in[w]
        /\ \A s \in CacheSet : s < update_tag_addr => \A w \in Way : dirty[s][w]
        /\ dirty' = [dirty EXCEPT ![update_tag_addr] = tags_dirty_in]
        /\ tags_dirty_in' = tags_dirty_in
    BY <1>2 DEF Start, PortInv, RamPorts
  <2>2. ASSUME NEW s \in CacheSet, state' = "START", s < update_tag_addr'
        PROVE  \A w \in Way : dirty'[s][w]
    <3>1. s = update_tag_addr \/ s < update_tag_addr
      BY <1>2, <2>2, SizeAssumption DEF Start, TypeOK, CacheSet
    <3> QED
      BY <2>1, <3>1 DEF TypeOK
  <2> QED
    BY <1>2, <2>1, <2>2 DEF Start, PortInv, Filling
<1>3. ASSUME NEW busy \in BOOLEAN, Step(busy), ~Start(busy) PROVE PortInv'
  BY <1>3
     DEF PortInv, Filling, Step, Idle, WriteOne, ReadHit, ReadMiss, Lookup, FillWait,
         FillBeat, Fill, ReadCacheOut, reqVars
<1>4. ASSUME NEW r, AcceptRead(r) \/ AcceptWrite(r) PROVE PortInv'
  <2>1. /\ state = "IDLE" /\ state' \in {"READONE", "WRITEONE"}
        /\ update_tag_we' = update_tag_we
    BY <1>4 DEF AcceptRead, AcceptWrite, Accept
  <2> QED
    BY <2>1 DEF PortInv, Filling
<1>5. CASE \E a \in Addr, v \in Val : HostWrite(a, v)
  BY <1>5 DEF PortInv, Filling, HostWrite, Index, reqVars
<1>6. CASE UNCHANGED vars
  BY <1>6 DEF PortInv, Filling, vars, Index
<1> QED
  BY <1>1, <1>2, <1>3, <1>4, <1>5, <1>6 DEF Next

LEMMA DdrStep == TypeOK /\ DdrInv /\ [Next]_vars => DdrInv'
<1> SUFFICES ASSUME TypeOK, DdrInv, [Next]_vars PROVE DdrInv'
  OBVIOUS
<1>1. CASE Reset
  BY <1>1 DEF Reset, DdrInv, DdrQuiet, Reading
<1>2. ASSUME NEW busy \in BOOLEAN,
             Start(busy) \/ Idle(busy) \/ WriteOne(busy) \/ ReadHit(busy)
      PROVE  DdrInv'
  BY <1>2 DEF Start, Idle, WriteOne, ReadHit, Lookup, DdrInv, DdrQuiet, Reading, DdrTakes, DdrUnheard, TakesWrite, PortRegs
<1>3. ASSUME NEW busy \in BOOLEAN, ReadMiss(busy) PROVE DdrInv'
  BY <1>3 DEF ReadMiss, Lookup, DdrInv, DdrQuiet, Reading, DdrTakes, DdrUnheard, TakesWrite
<1>4. ASSUME NEW busy \in BOOLEAN, FillWait(busy) PROVE DdrInv'
  BY <1>4 DEF FillWait, Fill, DdrInv, DdrQuiet, Reading, DdrTakes, DdrUnheard, TakesWrite, PortRegs, reqVars
<1>5. ASSUME NEW busy \in BOOLEAN, FillBeat(busy) PROVE DdrInv'
  BY <1>5, SizeAssumption
     DEF FillBeat, Fill, DdrInv, DdrQuiet, Reading, DdrBeat, LastBeat, PortRegs, reqVars, TypeOK, Word
<1>6. ASSUME NEW busy \in BOOLEAN, ReadCacheOut(busy) PROVE DdrInv'
  BY <1>6 DEF ReadCacheOut, DdrInv, DdrQuiet, Reading, DdrTakes, DdrUnheard, TakesWrite, PortRegs
<1>7. CASE \/ \E r \in ReadRequest : AcceptRead(r)
           \/ \E r \in WriteRequest : AcceptWrite(r)
  BY <1>7 DEF DdrInv, DdrQuiet, Reading, AcceptRead, AcceptWrite, Accept, DdrTakes, DdrUnheard, TakesWrite
<1>8. CASE \E a \in Addr, v \in Val : HostWrite(a, v)
  BY <1>8 DEF DdrInv, DdrQuiet, Reading, HostWrite, reqVars
<1>9. CASE UNCHANGED vars
  BY <1>9 DEF DdrInv, DdrQuiet, Reading, vars
<1> QED
  BY <1>1, <1>2, <1>3, <1>4, <1>5, <1>6, <1>7, <1>8, <1>9 DEF Next, Step

\* Victim depends on the ages alone.
LEMMA MuxStep == TypeOK /\ DdrInv /\ MuxInv /\ [Next]_vars => MuxInv'
<1> SUFFICES ASSUME TypeOK, DdrInv, MuxInv, [Next]_vars PROVE MuxInv'
  OBVIOUS
<1>1. ASSUME NEW busy \in BOOLEAN, ReadMiss(busy) PROVE MuxInv'
  BY <1>1 DEF ReadMiss, Lookup, MuxInv, Filling, DdrInv, DdrQuiet, DdrTakes, DdrUnheard, TakesWrite
<1>2. ASSUME NEW busy \in BOOLEAN, FillWait(busy) PROVE MuxInv'
  <2>1. dout = {} /\ dout' = {} /\ LRU_in' = {} /\ LRU_addr' = LRU_addr
    BY <1>2 DEF FillWait, Fill, MuxInv, Filling, LruPipeline
  <2>2. ASSUME ddr_phase' = "data"
        PROVE  Victim(lru[LRU_addr])' = {} \/ cache_mux' \in Victim(lru[LRU_addr])'
    <3>1. LRU_in = {}
      BY <1>2, <2>2 DEF FillWait, Fill, MuxInv, DdrTakes, DdrUnheard, TakesWrite, DdrInv, DdrQuiet
    <3>2. lru' = lru
      BY <1>2, <3>1, WrittenNone DEF FillWait, Fill, RamPorts, TypeOK
    <3>3. Victim(lru[LRU_addr])' = Victim(lru[LRU_addr])
      BY <2>1, <3>2 DEF Victim
    <3> QED
      BY <1>2, <3>3 DEF FillWait, Fill
  <2> QED
    BY <1>2, <2>1, <2>2 DEF FillWait, MuxInv, Filling
<1>3. ASSUME NEW busy \in BOOLEAN, FillBeat(busy) PROVE MuxInv'
  <2>1. dout = {} /\ dout' = {} /\ LRU_in' = {} /\ LRU_in = {} /\ LRU_addr' = LRU_addr
    BY <1>3 DEF FillBeat, Fill, MuxInv, Filling, LruPipeline, DdrBeat
  <2>2. lru' = lru
    BY <1>3, <2>1, WrittenNone DEF FillBeat, Fill, RamPorts, TypeOK
  <2>3. Victim(lru[LRU_addr])' = Victim(lru[LRU_addr])
    BY <2>1, <2>2 DEF Victim
  <2> QED
    BY <1>3, <2>1, <2>3 DEF FillBeat, Fill, MuxInv, Filling
<1>4. ASSUME state' \notin {"FILLCACHE", "READCACHE_OUT"} PROVE MuxInv'
  BY <1>4 DEF MuxInv, Filling
<1>5. CASE \E a \in Addr, v \in Val : HostWrite(a, v)
  BY <1>5 DEF MuxInv, Filling, HostWrite, Victim
<1>6. CASE UNCHANGED vars
  BY <1>6 DEF MuxInv, Filling, vars, Victim
<1> QED
  BY <1>1, <1>2, <1>3, <1>4, <1>5, <1>6
     DEF Next, Step, Reset, Start, Idle, WriteOne, ReadHit, Lookup, ReadCacheOut,
         AcceptRead, AcceptWrite, Accept

\* Fills do not wander: once the controller delivers, the victim stays.
LEMMA MuxSettled ==
    ASSUME TypeOK, MuxInv, NEW busy, Fill(busy), ddr_phase = "data"
    PROVE  cache_mux' = cache_mux
<1> DEFINE V == Victim(lru[LRU_addr])
<1>1. state = "FILLCACHE" /\ (V = {} \/ cache_mux \in V)
  BY DEF Fill, MuxInv
<1>2. \A v, w \in V : v = w
  <2> TAKE v, w \in V
  <2>1. v \in Way /\ w \in Way /\ v <= w /\ w <= v
    BY DEF Victim
  <2> QED
    BY <2>1, SizeAssumption DEF Way
<1>3. IF V = {} THEN cache_mux' = cache_mux ELSE cache_mux' \in V
  BY DEF Fill
<1> QED
  BY <1>1, <1>2, <1>3

LEMMA TagStep ==
    TypeOK /\ PortInv /\ DdrInv /\ MuxInv /\ TagInv /\ [Next]_vars => TagInv'
<1> SUFFICES ASSUME TypeOK, PortInv, DdrInv, MuxInv, TagInv, [Next]_vars PROVE TagInv'
  OBVIOUS
<1> DEFINE i == Index(read_addr)
<1>0. i \in CacheSet /\ cache_mux \in Way
  BY IndexType DEF TypeOK
<1>1. CASE Reset
  BY <1>1 DEF Reset, TagInv, Filling
<1>2. ASSUME NEW busy \in BOOLEAN, Start(busy) PROVE TagInv'
  <2>1. CASE update_tag_addr # Sets - 1
    BY <1>2, <2>1 DEF Start, TagInv, Filling
  <2>2. CASE update_tag_addr = Sets - 1
    <3>1. ASSUME NEW s \in CacheSet, NEW w \in Way PROVE dirty'[s][w]
      <4>1. s = update_tag_addr \/ s < update_tag_addr
        BY <2>2, SizeAssumption DEF CacheSet
      <4> QED
        BY <1>2, <4>1 DEF Start, RamPorts, PortInv, TypeOK
    <3> QED
      BY <1>2, <2>2, <3>1 DEF Start, TagInv, Filling
  <2> QED
    BY <2>1, <2>2
<1>3. CASE /\ state \in {"IDLE", "WRITEONE", "READONE"} /\ RamPorts /\ tag' = tag
           /\ state' \in {"IDLE", "WRITEONE", "READONE"}
  <2>1. dirty' = dirty
    BY <1>3 DEF RamPorts, PortInv
  <2> QED
    BY <1>3, <2>1 DEF TagInv, Filling
<1>4. ASSUME NEW busy \in BOOLEAN, ReadMiss(busy) PROVE TagInv'
  <2>1. /\ dirty' = dirty /\ tag' = tag /\ read_addr' = read_addr
        /\ state' = "FILLCACHE" /\ fillcount' = 0 /\ state = "READONE"
        /\ tags_dirty_in' = MissTags /\ update_tag_we' = force_next
        /\ force_next \/ Matching = {}
    BY <1>4 DEF ReadMiss, Lookup, RamPorts, PortInv
  <2>2. ~Touched'
    BY <2>1 DEF Touched
  <2>3. CASE force_next
    BY <2>1, <2>2, <2>3 DEF TagInv, MissTags, Filling
  <2>4. CASE ~force_next
    <3>1. \A w \in Way : ~dirty[i][w] => tag[i][w] # read_addr[1]
      BY <2>1, <2>4 DEF Matching
    <3>2. tags_dirty_in' = dirty[i] /\ Index(read_addr)' = i
      BY <2>1, <2>4 DEF MissTags, Index
    <3> QED
      BY <2>1, <2>2, <2>4, <3>1, <3>2 DEF TagInv, Filling
  <2> QED
    BY <2>3, <2>4
<1>5. ASSUME NEW busy \in BOOLEAN, FillWait(busy) PROVE TagInv'
  <2>1. /\ state = "FILLCACHE" /\ state' = "FILLCACHE" /\ Index(read_addr)' = i
        /\ UNCHANGED <<tag, read_addr, tags_dirty_in, update_tag_we, fillcount>>
        /\ dirty' = IF update_tag_we THEN [dirty EXCEPT ![i] = tags_dirty_in] ELSE dirty
    BY <1>5 DEF FillWait, Fill, RamPorts, PortInv, Filling, reqVars, Index
  <2>2. Touched' = Touched
    BY <2>1 DEF Touched
  <2>3. Touched => cache_mux' = cache_mux
    <3>1. Touched => ddr_phase = "data"
      BY <2>1 DEF Touched, DdrInv, DdrQuiet, TypeOK
    <3> QED
      BY <1>5, <3>1, MuxSettled DEF FillWait
  <2>4. \A w \in Way : ~tags_dirty_in[w] /\ ~(Touched /\ w = cache_mux) =>
           ~dirty[i][w] /\ tag[i][w] # read_addr[1]
    BY <2>1 DEF TagInv, Filling
  <2>5. update_tag_we => \A w \in Way : ~(Touched /\ w = cache_mux) => tags_dirty_in[w]
    BY <2>1 DEF TagInv
  <2>6. \A s \in CacheSet : \A v, w \in Way :
           v # w /\ ~dirty'[s][v] /\ ~dirty'[s][w] => tag[s][v] # tag[s][w]
    <3> SUFFICES ASSUME NEW s \in CacheSet, NEW v \in Way, NEW w \in Way,
                        v # w, ~dirty'[s][v], ~dirty'[s][w]
                 PROVE  tag[s][v] # tag[s][w]
      OBVIOUS
    <3>1. CASE update_tag_we /\ s = i
      BY <1>0, <2>1, <2>5, <3>1 DEF TypeOK
    <3>2. CASE ~(update_tag_we /\ s = i)
      <4>1. dirty'[s] = dirty[s]
        BY <1>0, <2>1, <3>2 DEF TypeOK
      <4> QED
        BY <2>1, <4>1 DEF TagInv
    <3> QED
      BY <3>1, <3>2
  <2>7. \A w \in Way : ~tags_dirty_in[w] /\ ~(Touched /\ w = cache_mux') =>
           ~dirty'[i][w] /\ tag[i][w] # read_addr[1]
    BY <1>0, <2>1, <2>3, <2>4, <2>5 DEF TypeOK
  <2>8. update_tag_we => \A w \in Way : ~(Touched /\ w = cache_mux') => tags_dirty_in[w]
    BY <2>3, <2>5
  <2> QED
    BY <2>1, <2>2, <2>6, <2>7, <2>8 DEF TagInv, Filling
<1>6. ASSUME NEW busy \in BOOLEAN, FillBeat(busy) PROVE TagInv'
  <2>1. /\ state = "FILLCACHE" /\ state' \in {"FILLCACHE", "READCACHE_OUT"}
        /\ Index(read_addr)' = i
        /\ UNCHANGED <<tag, read_addr>>
        /\ tags_dirty_in' = [tags_dirty_in EXCEPT ![cache_mux] = FALSE]
        /\ state' = "FILLCACHE" => update_tag_we' = update_tag_we
        /\ dirty' = IF update_tag_we THEN [dirty EXCEPT ![i] = tags_dirty_in] ELSE dirty
        /\ ddr_phase = "data"
    BY <1>6 DEF FillBeat, Fill, RamPorts, PortInv, Filling, reqVars, Index, DdrBeat
  <2>2. Touched'
    BY <1>6, SizeAssumption DEF FillBeat, Fill, Touched, TypeOK, Word
  <2>3. cache_mux' = cache_mux
    BY <1>6, <2>1, MuxSettled DEF FillBeat
  <2>4. \A w \in Way : ~tags_dirty_in[w] /\ ~(Touched /\ w = cache_mux) =>
           ~dirty[i][w] /\ tag[i][w] # read_addr[1]
    BY <2>1 DEF TagInv, Filling
  <2>5. update_tag_we => \A w \in Way : ~(Touched /\ w = cache_mux) => tags_dirty_in[w]
    BY <2>1 DEF TagInv
  <2>6. \A s \in CacheSet : \A v, w \in Way :
           v # w /\ ~dirty'[s][v] /\ ~dirty'[s][w] => tag[s][v] # tag[s][w]
    <3> SUFFICES ASSUME NEW s \in CacheSet, NEW v \in Way, NEW w \in Way,
                        v # w, ~dirty'[s][v], ~dirty'[s][w]
                 PROVE  tag[s][v] # tag[s][w]
      OBVIOUS
    <3>1. CASE update_tag_we /\ s = i
      BY <1>0, <2>1, <2>5, <3>1 DEF TypeOK
    <3>2. CASE ~(update_tag_we /\ s = i)
      <4>1. dirty'[s] = dirty[s]
        BY <1>0, <2>1, <3>2 DEF TypeOK
      <4> QED
        BY <2>1, <4>1 DEF TagInv
    <3> QED
      BY <3>1, <3>2
  <2>7. \A w \in Way : w # cache_mux /\ ~tags_dirty_in'[w] =>
           ~dirty'[i][w] /\ tag[i][w] # read_addr[1]
    BY <1>0, <2>1, <2>4, <2>5 DEF TypeOK
  <2>8. /\ ~tags_dirty_in'[cache_mux]
        /\ update_tag_we => \A w \in Way : w # cache_mux => tags_dirty_in'[w]
    BY <1>0, <2>1, <2>5 DEF TypeOK
  <2> QED
    BY <2>1, <2>2, <2>3, <2>6, <2>7, <2>8 DEF TagInv, Filling
<1>7. ASSUME NEW busy \in BOOLEAN, ReadCacheOut(busy) PROVE TagInv'
  <2>1. /\ state = "READCACHE_OUT" /\ state' = "READONE"
        /\ tag' = [tag EXCEPT ![i][cache_mux] = read_addr[1]]
        /\ dirty' = [dirty EXCEPT ![i] = tags_dirty_in]
    BY <1>7 DEF ReadCacheOut, RamPorts, PortInv, Filling
  <2>2. \A w \in Way : ~tags_dirty_in[w] /\ w # cache_mux =>
           ~dirty[i][w] /\ tag[i][w] # read_addr[1]
    BY <2>1 DEF TagInv, Filling
  <2>3. ASSUME NEW s \in CacheSet, NEW v \in Way, NEW w \in Way,
               v # w, ~dirty'[s][v], ~dirty'[s][w]
        PROVE  tag'[s][v] # tag'[s][w]
    <3>1. \A x, y \in Way : x # y /\ ~dirty[s][x] /\ ~dirty[s][y] => tag[s][x] # tag[s][y]
      BY <2>1 DEF TagInv
    <3>2. CASE s # i
      BY <1>0, <2>1, <2>3, <3>1, <3>2 DEF TypeOK
    <3>3. CASE s = i
      <4>1. /\ dirty'[s] = tags_dirty_in
            /\ tag'[s] = [tag[s] EXCEPT ![cache_mux] = read_addr[1]]
        BY <1>0, <2>1, <3>3 DEF TypeOK
      <4>2. \A x \in Way : tag'[s][x] = IF x = cache_mux THEN read_addr[1] ELSE tag[s][x]
        BY <1>0, <4>1 DEF TypeOK
      <4> QED
        BY <2>2, <2>3, <3>1, <3>3, <4>1, <4>2
    <3> QED
      BY <3>2, <3>3
  <2> QED
    BY <2>1, <2>3 DEF TagInv, Filling
<1>8. CASE UNCHANGED <<state, dirty, tag, tags_dirty_in, update_tag_we, read_addr,
                      cache_mux, fillcount>>
  BY <1>8 DEF TagInv, Filling, Touched, Index
<1> QED
  BY <1>1, <1>2, <1>3, <1>4, <1>5, <1>6, <1>7, <1>8
     DEF Next, Step, Idle, WriteOne, ReadHit, Lookup, AcceptRead, AcceptWrite, Accept,
         HostWrite, vars, reqVars

LEMMA HomeStep == TypeOK /\ HomeInv /\ [Next]_vars => HomeInv'
<1> SUFFICES ASSUME TypeOK, HomeInv, [Next]_vars PROVE HomeInv'
  OBVIOUS
<1>1. ASSUME NEW busy \in BOOLEAN, ReadCacheOut(busy) PROVE HomeInv'
  BY <1>1, IndexType DEF ReadCacheOut, HomeInv, TypeOK, Index
<1>2. CASE tag' = tag
  BY <1>2 DEF HomeInv
<1> QED
  BY <1>1, <1>2
     DEF Next, Step, Reset, Start, Idle, WriteOne, ReadHit, ReadMiss, Lookup, FillWait,
         FillBeat, Fill, AcceptRead, AcceptWrite, Accept, HostWrite, vars

\* The memory the program sees does not change when the DDR takes a write.
LEMMA MemKept ==
    ASSUME TypeOK, NEW busy \in BOOLEAN, TakesWrite(busy), ram_we' = (ram_we /\ busy),
           ~ram_we \/ UNCHANGED <<ram_addr, ram_din>>, NEW a \in Addr
    PROVE  Mem(a)' = Mem(a)
BY DEF TypeOK, TakesWrite, Mem

\* A clock that changes neither the copies nor what they are copies of.
LEMMA CopyKept ==
    ASSUME TypeOK, CopyInv, state # "START",
           state' \in {"IDLE", "READONE", "WRITEONE"}, ~Filling, state # "WRITEONE",
           UNCHANGED <<dirty, tag, data>>,
           \A a \in Addr : (state' = "WRITEONE" /\ a = read_addr') \/ Mem(a)' = Mem(a)
    PROVE  CopyInv'
<1>1. ASSUME NEW s \in CacheSet, NEW w \in Way, NEW i \in Word
       PROVE  \/ dirty[s][w]
              \/ tag[s][w] \in Shared
              \/ state' = "WRITEONE" /\ <<tag[s][w], i>> = read_addr'
              \/ data[s][w][i] = Mem(<<tag[s][w], i>>)'
  <2> DEFINE a == <<tag[s][w], i>>
  <2>1. \/ dirty[s][w]
        \/ tag[s][w] \in Shared
        \/ data[s][w][i] = Mem(a)
    BY DEF CopyInv, Touched, Filling
  <2>2. a \in Addr
    BY DEF TypeOK, Addr
  <2>3. ASSUME NEW b \in Addr, b = a
        PROVE  (state' = "WRITEONE" /\ b = read_addr') \/ Mem(b)' = Mem(b)
    OBVIOUS
  <2>4. (state' = "WRITEONE" /\ a = read_addr') \/ Mem(a)' = Mem(a)
    BY <2>2, <2>3 DEF Mem
  <2> QED
    BY <2>1, <2>4 DEF Mem
<1> QED
  BY <1>1 DEF CopyInv, Filling, Mem

LEMMA CopyStep ==
    TypeOK /\ PortInv /\ DdrInv /\ MuxInv /\ TagInv /\ HomeInv /\ CopyInv /\ [Next]_vars
        => CopyInv'
<1> SUFFICES ASSUME TypeOK, PortInv, DdrInv, MuxInv, TagInv, HomeInv, CopyInv, [Next]_vars
             PROVE  CopyInv'
  OBVIOUS
<1> DEFINE k == Index(read_addr)
<1>0. /\ k \in CacheSet /\ cache_mux \in Way /\ read_addr \in Addr
      /\ \A l \in Line, i \in Word : <<l, i>> \in Addr
  BY IndexType DEF TypeOK, Addr
<1>1. CASE Reset
  BY <1>1 DEF Reset, CopyInv, Filling
<1>2. ASSUME NEW busy \in BOOLEAN, Start(busy) PROVE CopyInv'
  <2>1. CASE update_tag_addr # Sets - 1
    BY <1>2, <2>1 DEF Start, CopyInv, Filling
  <2>2. CASE update_tag_addr = Sets - 1
    <3>1. ASSUME NEW s \in CacheSet, NEW w \in Way PROVE dirty'[s][w]
      <4>1. s = update_tag_addr \/ s < update_tag_addr
        BY <2>2, SizeAssumption DEF CacheSet
      <4> QED
        BY <1>2, <4>1 DEF Start, RamPorts, PortInv, TypeOK
    <3> QED
      BY <1>2, <2>2, <3>1 DEF Start, CopyInv, Filling
  <2> QED
    BY <2>1, <2>2
<1>3. ASSUME NEW busy \in BOOLEAN, Idle(busy) PROVE CopyInv'
  <2>1. /\ state = "IDLE" /\ state' = "IDLE" /\ UNCHANGED <<dirty, tag, data>>
    BY <1>3 DEF Idle, RamPorts, PortInv
  <2>2. \A a \in Addr : Mem(a)' = Mem(a)
    BY <1>3, MemKept DEF Idle, PortRegs, DdrTakes, DdrUnheard
  <2> QED
    BY <2>1, <2>2, CopyKept DEF Filling
<1>4. ASSUME NEW r \in ReadRequest, AcceptRead(r) PROVE CopyInv'
  <2>1. /\ state = "IDLE" /\ state' = "READONE" /\ UNCHANGED <<dirty, tag, data>>
    BY <1>4 DEF AcceptRead, Accept, RamPorts, PortInv
  <2>2. \A a \in Addr : Mem(a)' = Mem(a)
    BY <1>4 DEF AcceptRead, Accept, DdrTakes, DdrUnheard, TakesWrite, Mem, TypeOK
  <2> QED
    BY <2>1, <2>2, CopyKept DEF Filling
<1>5. ASSUME NEW r \in WriteRequest, AcceptWrite(r) PROVE CopyInv'
  <2>1. /\ state = "IDLE" /\ state' = "WRITEONE" /\ UNCHANGED <<dirty, tag, data>>
    BY <1>5 DEF AcceptWrite, Accept, RamPorts, PortInv
  <2>2. \A a \in Addr : a = read_addr' \/ Mem(a)' = Mem(a)
    BY <1>5 DEF AcceptWrite, Accept, DdrTakes, DdrUnheard, TakesWrite, Mem, TypeOK
  <2> QED
    BY <2>1, <2>2, CopyKept DEF Filling
<1>6. ASSUME NEW busy \in BOOLEAN, WriteOne(busy) PROVE CopyInv'
  <2>1. /\ state = "WRITEONE" /\ state' = "IDLE" /\ UNCHANGED <<dirty, tag>>
        /\ ram_we /\ ram_addr = read_addr
    BY <1>6 DEF WriteOne, RamPorts, PortInv, DdrInv, DdrQuiet
  <2>2. \A a \in Addr : Mem(a)' = Mem(a)
    BY <1>6, MemKept DEF WriteOne, PortRegs, DdrTakes, DdrUnheard
  <2>3. ASSUME NEW s \in CacheSet, NEW w \in Way, NEW i \in Word,
               ~dirty[s][w], tag[s][w] \notin Shared
        PROVE  data'[s][w][i] = Mem(<<tag[s][w], i>>)
    <3>1. \/ <<tag[s][w], i>> = read_addr
          \/ data[s][w][i] = Mem(<<tag[s][w], i>>)
      BY <2>1, <2>3 DEF CopyInv, Touched
    <3>2. CASE s = k /\ w \in Matching
      <4>1. data'[s][w] = [data[s][w] EXCEPT ![read_addr[2]] = ram_din]
        BY <1>0, <1>6, <3>2 DEF WriteOne, UpdateCopies, TypeOK
      <4>2. tag[s][w] = read_addr[1]
        BY <3>2 DEF Matching
      <4>3. CASE i = read_addr[2]
        <5>1. data'[s][w][i] = ram_din
          BY <4>1, <4>3 DEF TypeOK
        <5>2. <<tag[s][w], i>> = read_addr
          BY <1>0, <4>2, <4>3 DEF Addr
        <5> QED
          BY <2>1, <5>1, <5>2 DEF Mem
      <4>4. CASE i # read_addr[2]
        <5>1. data'[s][w][i] = data[s][w][i]
          BY <4>1, <4>4 DEF TypeOK
        <5>2. <<tag[s][w], i>> # read_addr
          BY <4>4
        <5> QED
          BY <3>1, <5>1, <5>2
      <4> QED
        BY <4>3, <4>4
    <3>3. CASE ~(s = k /\ w \in Matching)
      <4>1. data'[s][w] = data[s][w]
        BY <1>0, <1>6, <3>3 DEF WriteOne, UpdateCopies, TypeOK
      <4>2. <<tag[s][w], i>> # read_addr
        BY <2>3, <3>3 DEF Matching, Index, HomeInv
      <4> QED
        BY <3>1, <4>1, <4>2
    <3> QED
      BY <3>2, <3>3
  <2> QED
    BY <1>0, <2>1, <2>2, <2>3 DEF CopyInv, Filling, TypeOK

<1>7. ASSUME NEW busy \in BOOLEAN, ReadHit(busy) PROVE CopyInv'
  <2>1. /\ state = "READONE" /\ state' \in {"IDLE", "READONE"}
        /\ UNCHANGED <<dirty, tag, data>>
        /\ ~ram_we
    BY <1>7 DEF ReadHit, Lookup, RamPorts, PortInv, DdrInv, DdrQuiet, Reading
  <2>2. \A a \in Addr : Mem(a)' = Mem(a)
    BY <1>7, <2>1, MemKept DEF ReadHit, Lookup, DdrTakes, DdrUnheard
  <2> QED
    BY <2>1, <2>2, CopyKept DEF Filling
<1>8. ASSUME NEW busy \in BOOLEAN, ReadMiss(busy) PROVE CopyInv'
  <2>1. /\ state = "READONE" /\ state' = "FILLCACHE" /\ fillcount' = 0
        /\ UNCHANGED <<dirty, tag, data, read_addr>>
        /\ ~ram_we
    BY <1>8 DEF ReadMiss, Lookup, RamPorts, PortInv, DdrInv, DdrQuiet, Reading
  <2>2. \A a \in Addr : Mem(a)' = Mem(a)
    BY <1>8, <2>1, MemKept DEF ReadMiss, Lookup, DdrTakes, DdrUnheard
  <2>3. \A i \in Word : ~(i < 0)
    BY DEF Word
  <2>4. ASSUME NEW s \in CacheSet, NEW w \in Way, NEW i \in Word,
               ~dirty[s][w], tag[s][w] \notin Shared
        PROVE  data[s][w][i] = Mem(<<tag[s][w], i>>)
    BY <2>1, <2>4 DEF CopyInv, Touched
  <2> QED
    BY <1>0, <2>1, <2>2, <2>3, <2>4 DEF CopyInv, Filling, TypeOK
<1>9. ASSUME NEW busy \in BOOLEAN, FillWait(busy) PROVE CopyInv'
  <2>1. /\ state = "FILLCACHE" /\ state' = "FILLCACHE" /\ ~ram_we
        /\ UNCHANGED <<tag, data, read_addr, fillcount>> /\ Index(read_addr)' = k
        /\ dirty' = IF update_tag_we THEN [dirty EXCEPT ![k] = tags_dirty_in] ELSE dirty
    BY <1>9 DEF FillWait, Fill, RamPorts, PortInv, DdrInv, DdrQuiet, Reading, Filling, reqVars, Index
  <2>2. \A a \in Addr : Mem(a)' = Mem(a)
    BY <1>9, <2>1, MemKept DEF FillWait, Fill, PortRegs, DdrTakes, DdrUnheard
  <2>3. Touched' = Touched
    BY <2>1 DEF Touched
  <2>4. Touched => cache_mux' = cache_mux
    <3>1. Touched => ddr_phase = "data"
      BY <2>1 DEF Touched, DdrInv, DdrQuiet, TypeOK
    <3> QED
      BY <1>9, <3>1, MuxSettled DEF FillWait
  <2>5. ASSUME NEW s \in CacheSet, NEW w \in Way, NEW i \in Word,
               ~dirty'[s][w], tag[s][w] \notin Shared, ~(Touched /\ s = k /\ w = cache_mux)
        PROVE  data[s][w][i] = Mem(<<tag[s][w], i>>)
    <3>1. ~dirty[s][w]
      BY <1>0, <2>1, <2>5 DEF TagInv, Filling, TypeOK
    <3> QED
      BY <2>1, <2>5, <3>1 DEF CopyInv
  <2>6. ASSUME read_addr[1] \notin Shared, NEW i \in Word, i < fillcount
        PROVE  data[k][cache_mux'][i] = Mem(<<read_addr[1], i>>)
    <3>1. Touched
      BY <2>1, <2>6 DEF Touched, TypeOK, Word
    <3> QED
      BY <2>1, <2>4, <2>6, <3>1 DEF CopyInv, Filling
  <2> QED
    BY <1>0, <2>1, <2>2, <2>3, <2>4, <2>5, <2>6 DEF CopyInv, Filling, TypeOK, Addr
<1>10. ASSUME NEW busy \in BOOLEAN, FillBeat(busy) PROVE CopyInv'
  <2>1. /\ state = "FILLCACHE" /\ state' \in {"FILLCACHE", "READCACHE_OUT"} /\ ~ram_we
        /\ UNCHANGED <<tag, read_addr, ddr>> /\ Index(read_addr)' = k /\ ~ram_we'
        /\ dirty' = IF update_tag_we THEN [dirty EXCEPT ![k] = tags_dirty_in] ELSE dirty
        /\ ddr_phase = "data" /\ ddr_line = read_addr[1] /\ ddr_beat = fillcount
        /\ data' = [data EXCEPT ![k][cache_mux][fillcount] = ddr[<<ddr_line, ddr_beat>>]]
    BY <1>10 DEF FillBeat, Fill, RamPorts, PortInv, DdrInv, DdrQuiet, Reading, Filling, reqVars,
                 Index, DdrBeat, PortRegs
  <2>2. \A a \in Addr : Mem(a)' = Mem(a) /\ Mem(a) = ddr[a]
    BY <2>1 DEF Mem
  <2>3. cache_mux' = cache_mux
    BY <1>10, <2>1, MuxSettled DEF FillBeat
  <2>4. Touched'
    BY <1>10, SizeAssumption DEF FillBeat, Fill, Touched, TypeOK, Word
  <2>5. ASSUME NEW s \in CacheSet, NEW w \in Way, NEW i \in Word,
               ~dirty'[s][w], tag[s][w] \notin Shared, ~(s = k /\ w = cache_mux)
        PROVE  data'[s][w][i] = Mem(<<tag[s][w], i>>)
    <3>1. ~dirty[s][w]
      BY <1>0, <2>1, <2>5 DEF TagInv, Filling, TypeOK
    <3>2. data'[s][w] = data[s][w]
      BY <1>0, <2>1, <2>5 DEF TypeOK
    <3>3. data[s][w][i] = Mem(<<tag[s][w], i>>)
      BY <2>1, <2>5, <3>1 DEF CopyInv
    <3> QED
      BY <3>2, <3>3
  <2>6. ASSUME read_addr[1] \notin Shared, NEW i \in Word,
               state' = "FILLCACHE" => i < fillcount'
        PROVE  data'[k][cache_mux][i] = Mem(<<read_addr[1], i>>)
    <3>1. data'[k][cache_mux] = [data[k][cache_mux] EXCEPT ![fillcount] =
                                   ddr[<<read_addr[1], fillcount>>]]
      BY <1>0, <2>1 DEF TypeOK
    <3>2. i = fillcount \/ i < fillcount
      <4>1. i \in Nat /\ fillcount \in Nat /\ i <= LineSize - 1 /\ LineSize \in Nat
        BY SizeAssumption DEF TypeOK, Word
      <4>2. CASE state' = "FILLCACHE"
        <5>1. fillcount' = fillcount + 1
          BY <1>10, <4>2 DEF FillBeat
        <5> QED
          BY <2>6, <4>1, <4>2, <5>1
      <4>3. CASE state' = "READCACHE_OUT"
        <5>1. fillcount = LineSize - 1
          BY <1>10, <2>1, <4>3 DEF FillBeat, LastBeat
        <5> QED
          BY <4>1, <5>1
      <4> QED
        BY <2>1, <4>2, <4>3
    <3>3. CASE i = fillcount
      <4>1. data'[k][cache_mux][i] = ddr[<<read_addr[1], i>>]
        BY <1>0, <3>1, <3>3 DEF TypeOK
      <4>2. <<read_addr[1], i>> \in Addr
        BY <1>0 DEF Addr
      <4> QED
        BY <2>2, <4>1, <4>2
    <3>4. CASE i < fillcount
      <4>1. data[k][cache_mux][i] = Mem(<<read_addr[1], i>>)
        BY <2>1, <2>6, <3>4 DEF CopyInv, Filling
      <4>2. i # fillcount
        BY <3>4 DEF TypeOK, Word
      <4> QED
        BY <1>0, <3>1, <4>1, <4>2 DEF TypeOK
    <3> QED
      BY <3>2, <3>3, <3>4
  <2>7. read_addr[1] \in Line
    BY <1>0 DEF Addr
  <2> QED
    BY <1>0, <2>1, <2>2, <2>3, <2>4, <2>5, <2>6, <2>7 DEF CopyInv, Filling, TypeOK
<1>11. ASSUME NEW busy \in BOOLEAN, ReadCacheOut(busy) PROVE CopyInv'
  <2>1. /\ state = "READCACHE_OUT" /\ state' = "READONE" /\ ~ram_we
        /\ UNCHANGED <<data, read_addr>>
        /\ tag' = [tag EXCEPT ![k][cache_mux] = read_addr[1]]
        /\ dirty' = [dirty EXCEPT ![k] = tags_dirty_in]
    BY <1>11 DEF ReadCacheOut, RamPorts, PortInv, DdrInv, DdrQuiet, Reading, Filling, reqVars
  <2>2. \A a \in Addr : Mem(a)' = Mem(a)
    BY <1>11, <2>1, MemKept DEF ReadCacheOut, PortRegs, DdrTakes, DdrUnheard
  <2>3. ASSUME NEW s \in CacheSet, NEW w \in Way, NEW i \in Word,
               ~dirty'[s][w], tag'[s][w] \notin Shared
        PROVE  data[s][w][i] = Mem(<<tag'[s][w], i>>)
    <3>1. CASE s = k /\ w = cache_mux
      <4>1. tag'[s][w] = read_addr[1]
        BY <1>0, <2>1, <3>1 DEF TypeOK
      <4> QED
        BY <2>1, <2>3, <3>1, <4>1 DEF CopyInv, Filling
    <3>2. CASE ~(s = k /\ w = cache_mux)
      <4>1. tag'[s][w] = tag[s][w]
        BY <1>0, <2>1, <3>2 DEF TypeOK
      <4>2. ~dirty[s][w]
        BY <1>0, <2>1, <2>3, <3>2 DEF TagInv, Filling, TypeOK
      <4> QED
        BY <2>1, <2>3, <3>2, <4>1, <4>2 DEF CopyInv
    <3> QED
      BY <3>1, <3>2
  <2>4. tag' \in [CacheSet -> [Way -> Line]]
    BY <1>0, <2>1 DEF TypeOK, Addr
  <2> QED
    BY <1>0, <2>1, <2>2, <2>3, <2>4 DEF CopyInv, Filling
<1>12. ASSUME NEW a \in Addr, NEW v \in Val, HostWrite(a, v) PROVE CopyInv'
  <2>1. /\ UNCHANGED <<state, dirty, tag, data, read_addr, cache_mux, fillcount>>
        /\ a[1] \in Shared
        /\ \A b \in Addr : b[1] \notin Shared => Mem(b)' = Mem(b)
    BY <1>12 DEF HostWrite, reqVars, Mem, TypeOK
  <2>2. \A l \in Line, i \in Word : l \notin Shared => Mem(<<l, i>>)' = Mem(<<l, i>>)
    BY <1>0, <2>1
  <2>3. read_addr[1] \in Line
    BY <1>0 DEF Addr
  <2> QED
    BY <2>1, <2>2, <2>3 DEF CopyInv, Filling, Touched, Index, TypeOK
<1>13. CASE UNCHANGED vars
  BY <1>13 DEF CopyInv, Filling, Touched, Index, Mem, vars
<1> QED
  BY <1>1, <1>2, <1>3, <1>4, <1>5, <1>6, <1>7, <1>8, <1>9, <1>10, <1>11, <1>12, <1>13
     DEF Next, Step

-----------------------------------------------------------------------------
(* The theorems. *)

IInv == /\ LruInv /\ PortInv /\ DdrInv /\ MuxInv /\ TagInv /\ HomeInv /\ CopyInv

LEMMA Inductive == Spec => []IInv
<1>1. Init => IInv
  <2> SUFFICES ASSUME Init PROVE IInv
    OBVIOUS
  <2>1. \A s \in CacheSet : ~(s < 0)
    BY DEF CacheSet
  <2>2. LruInv /\ PortInv
    BY <2>1 DEF Init, LruInv, PortInv, Filling
  <2>3. DdrInv /\ MuxInv /\ TagInv /\ CopyInv
    BY DEF Init, DdrInv, DdrQuiet, MuxInv, TagInv, CopyInv, Filling, Reading
  <2>4. HomeInv
    BY DEF Init, HomeInv
  <2> QED
    BY <2>2, <2>3, <2>4 DEF IInv
<1>2. TypeOK /\ IInv /\ [Next]_vars => IInv'
  BY LruStep, PortStep, DdrStep, MuxStep, TagStep, HomeStep, CopyStep DEF IInv
<1> QED
  BY <1>1, <1>2, L2TypeCorrect, PTL DEF Spec

\* The valid ways are copies of what the program last wrote, across fills,
\* evictions, write-through in progress and resets, and no line is valid in two
\* ways when a request is looked up.
THEOREM L2CopiesExact == Spec => []CopiesExact
<1>1. IInv => UniqueLine
  BY DEF IInv, TagInv, UniqueLine
<1>2. IInv => Coherent
  BY DEF IInv, CopyInv, Coherent, Touched, Filling
<1>3. IInv => CopiesExact
  BY <1>1, <1>2 DEF CopiesExact
<1> QED
  BY <1>3, Inductive, PTL

\* The beats of a line go to one way.
LEMMA FillInOneWay == Spec => [][FillStaysInOneWay]_vars
<1>1. TypeOK /\ IInv /\ [Next]_vars => [FillStaysInOneWay]_vars
  <2> SUFFICES ASSUME TypeOK, IInv, Next, state = "FILLCACHE", ddr_phase = "data"
               PROVE  cache_mux' = cache_mux
    BY DEF vars, FillStaysInOneWay
  <2>1. MuxInv
    BY DEF IInv
  <2>2. ASSUME NEW busy \in BOOLEAN, Step(busy) PROVE cache_mux' = cache_mux
    <3>1. Fill(busy)
      BY <2>2 DEF Step, Start, Idle, WriteOne, ReadHit, ReadMiss, Lookup, FillWait,
                  FillBeat, ReadCacheOut
    <3> QED
      BY <2>1, <3>1, MuxSettled
  <2> QED
    BY <2>2 DEF Next, Reset, AcceptRead, AcceptWrite, Accept, HostWrite
<1> QED
  BY <1>1, L2TypeCorrect, Inductive, PTL DEF Spec

\* In every set there is one oldest way to evict, whatever bursts and resets went
\* before, and the fill keeps to it.
THEOREM L2VictimSettled == Spec => VictimSettled
<1>1. IInv => LruIsOrder
  BY DEF IInv, LruInv, LruIsOrder, IsOrder
<1>2. LruIsOrder /\ [FillStaysInOneWay]_vars => [LruIsOrder /\ FillStaysInOneWay]_vars
  OBVIOUS
<1> QED
  BY <1>1, <1>2, Inductive, FillInOneWay, PTL DEF VictimSettled

-----------------------------------------------------------------------------
(* The cache implements the memory *)

\* What the burst in progress may be given: a value its word has had since the
\* burst came to it.  A line of the host's window is fetched anew for each word,
\* and a burst that runs on stays in the window or out of it.
BurstInv ==
    Reading =>
        /\ burst_left > 0
        /\ Mem(read_addr) \in held
        /\ read_addr[1] \in Shared => force_fetch \/ read_behind
        /\ read_addr[2] + burst_left > LineSize =>
             (read_addr[1] \in Shared <=> NextLine[read_addr[1]] \in Shared)
FreshInv ==
    /\ Filling /\ (state = "FILLCACHE" => read_addr[2] < fillcount) =>
         data[Index(read_addr)][cache_mux][read_addr[2]] \in held
    /\ state = "READONE" /\ force_fetch /\ ~force_next =>
         \A w \in Matching : data[Index(read_addr)][w][read_addr[2]] \in held

\* A request in progress that stays as it is.
LEMMA BurstKept ==
    ASSUME TypeOK, BurstInv, Reading, UNCHANGED <<read_addr, burst_left, force_fetch, read_behind>>,
           held \subseteq held', Mem(read_addr)' \in held'
    PROVE  BurstInv'
BY DEF BurstInv

LEMMA ReadingTypes ==
    ASSUME TypeOK
    PROVE  /\ read_addr \in Addr /\ read_addr = <<read_addr[1], read_addr[2]>>
           /\ read_addr[1] \in Line /\ read_addr[2] \in Word /\ read_addr[2] \in 0 .. LineSize - 1
           /\ Index(read_addr) \in CacheSet /\ cache_mux \in Way /\ fillcount \in Word
           /\ burst_left \in 0 .. MaxBurst /\ Matching \subseteq Way
<1>1. read_addr \in Addr
  BY DEF TypeOK
<1>2. read_addr = <<read_addr[1], read_addr[2]>> /\ read_addr[1] \in Line /\ read_addr[2] \in Word
  BY <1>1 DEF Addr
<1> QED
  BY <1>1, <1>2, IndexType DEF TypeOK, Matching, Word

\* A burst that is accepted.
LEMMA AcceptBurst ==
    ASSUME TypeOK, NEW r \in ReadRequest, AcceptRead(r)
    PROVE  /\ BurstInv' /\ FreshInv'
           /\ \A a \in Addr : Mem(a)' = Mem(a)
           /\ held' = {Mem(r.a)}
<1>1. /\ r.a \in Addr /\ r.n \in 1 .. MaxBurst
  BY DEF ReadRequest, Burst
<1>2. /\ state' = "READONE" /\ read_addr' = r.a /\ burst_left' = r.n /\ force_fetch' = r.forced /\ force_next' = r.forced
      /\ read_behind' = r.behind /\ ~ram_we' /\ held' = {ddr'[r.a]}
  BY DEF AcceptRead, Accept
<1>3. \A a \in Addr : Mem(a)' = Mem(a) /\ Mem(a)' = ddr'[a]
  <2>1. DdrTakes(FALSE)
    BY DEF AcceptRead, Accept
  <2> QED
    BY <1>2, <2>1 DEF DdrTakes, DdrUnheard, TakesWrite, Mem, TypeOK
<1>4. Mem(read_addr)' = ddr'[r.a]
  BY <1>2 DEF Mem
<1>5. /\ r.a[1] \in Shared => r.forced \/ r.behind
      /\ r.a[2] + r.n > LineSize => (r.a[1] \in Shared <=> NextLine[r.a[1]] \in Shared)
  BY DEF AcceptRead, WithinRegion
<1>6. BurstInv'
  <2>1. burst_left' > 0
    BY <1>1, <1>2
  <2> QED
    BY <1>2, <1>4, <1>5, <2>1 DEF BurstInv
<1>7. FreshInv'
  BY <1>2 DEF FreshInv, Filling
<1> QED
  BY <1>1, <1>2, <1>3, <1>6, <1>7

\* The word that a hit drives out.
LEMMA HitFresh ==
    ASSUME TypeOK, IInv, BurstInv, FreshInv, NEW busy \in BOOLEAN, ReadHit(busy)
    PROVE  \E v \in IF read_behind THEN {OpenBus} ELSE held : dout' = {[a |-> read_addr, v |-> v]}
<1>1. state = "READONE" /\ ~force_next
  BY DEF ReadHit, Lookup
<1>2. PICK w \in Matching : dout' = {[a |-> read_addr, v |-> IF read_behind THEN OpenBus ELSE data[Index(read_addr)][w][read_addr[2]]]}
  BY DEF ReadHit
<1>3. CASE read_behind
  BY <1>2, <1>3
<1>4. CASE ~read_behind /\ read_addr[1] \in Shared
  <2>1. force_fetch
    BY <1>1, <1>4 DEF BurstInv, Reading
  <2>2. data[Index(read_addr)][w][read_addr[2]] \in held
    BY <1>1, <1>2, <2>1 DEF FreshInv
  <2> QED
    BY <1>2, <1>4, <2>2
<1>5. CASE ~read_behind /\ read_addr[1] \notin Shared
  <2>1. /\ w \in Way /\ ~dirty[Index(read_addr)][w] /\ tag[Index(read_addr)][w] = read_addr[1]
    BY DEF Matching
  <2>2. Index(read_addr) \in CacheSet /\ read_addr[2] \in Word /\ read_addr = <<read_addr[1], read_addr[2]>>
    BY ReadingTypes
  <2>3. data[Index(read_addr)][w][read_addr[2]] = Mem(<<tag[Index(read_addr)][w], read_addr[2]>>)
    BY <1>1, <1>5, <2>1, <2>2 DEF IInv, CopyInv, Touched
  <2>4. data[Index(read_addr)][w][read_addr[2]] = Mem(read_addr)
    BY <2>1, <2>2, <2>3
  <2>5. Mem(read_addr) \in held
    BY <1>1 DEF BurstInv, Reading
  <2> QED
    BY <1>2, <1>5, <2>4, <2>5
<1> QED
  BY <1>3, <1>4, <1>5

\* The burst moves on to the next word.
LEMMA HitMoves ==
    ASSUME TypeOK, IInv, BurstInv, NEW busy \in BOOLEAN, ReadHit(busy)
    PROVE  /\ BurstInv' /\ FreshInv'
           /\ \A a \in Addr : Mem(a)' = Mem(a)
           /\ burst_left > 1 => held' = {Mem(NextAddr(read_addr))}
<1>1. /\ state = "READONE" /\ ~ram_we /\ ~ram_we' /\ DdrTakes(busy)
      /\ force_fetch' = force_fetch /\ read_behind' = read_behind /\ force_next' = ForceNext /\ ~force_next
  BY DEF ReadHit, Lookup, IInv, DdrInv, DdrQuiet, Reading
<1>2. \A a \in Addr : Mem(a)' = Mem(a) /\ Mem(a)' = ddr'[a]
  BY <1>1 DEF DdrTakes, DdrUnheard, TakesWrite, Mem
<1>3. CASE burst_left > 1
  <2>1. /\ burst_left' = burst_left - 1 /\ read_addr' = NextAddr(read_addr) /\ held' = {ddr'[NextAddr(read_addr)]}
        /\ state' = state
    BY <1>3 DEF ReadHit
  <2>2. NextAddr(read_addr) \in Addr
    BY NextAddrType, ReadingTypes
  <2>3. held' = {Mem(NextAddr(read_addr))} /\ Mem(read_addr)' \in held'
    BY <1>1, <1>2, <2>1, <2>2 DEF Mem
  <2>4. burst_left \in Nat /\ burst_left' > 0 /\ burst_left <= LineSize + 1 /\ LineSize \in Nat \ {0}
    <3>1. burst_left \in 0 .. MaxBurst
      BY ReadingTypes
    <3> QED
      BY <1>3, <2>1, <3>1, SizeAssumption, BurstAssumption
  <2>5. /\ read_addr[1] \in Shared => force_fetch \/ read_behind
        /\ read_addr[2] + burst_left > LineSize => (read_addr[1] \in Shared <=> NextLine[read_addr[1]] \in Shared)
    BY <1>1 DEF BurstInv, Reading
  <2>6. ASSUME read_addr[2] = LineSize - 1 PROVE BurstInv'
    <3>1. read_addr'[1] = NextLine[read_addr[1]] /\ read_addr'[2] = 0
      BY <2>1, <2>6 DEF NextAddr
    <3>2. read_addr[2] + burst_left > LineSize
      BY <1>3, <2>4, <2>6
    <3>3. ~(read_addr'[2] + burst_left' > LineSize)
      BY <2>1, <2>4, <3>1
    <3>4. read_addr'[1] \in Shared => force_fetch' \/ read_behind'
      <4>1. read_addr[1] \in Shared <=> NextLine[read_addr[1]] \in Shared
        BY <2>5, <3>2
      <4>2. read_addr[1] \in Shared => force_fetch' \/ read_behind'
        BY <1>1, <2>5, Zenon
      <4> QED
        BY <3>1, <4>1, <4>2, Zenon
    <3> QED
      BY <1>1, <2>1, <2>3, <2>4, <3>3, <3>4 DEF BurstInv
  <2>7. ASSUME read_addr[2] # LineSize - 1 PROVE BurstInv'
    <3>1. read_addr'[1] = read_addr[1] /\ read_addr'[2] = read_addr[2] + 1
      BY <2>1, <2>7 DEF NextAddr
    <3>2. read_addr'[2] + burst_left' = read_addr[2] + burst_left
      <4>1. read_addr[2] \in 0 .. LineSize - 1
        BY ReadingTypes
      <4>2. PICK i \in Nat : i = read_addr[2]
        BY <4>1
      <4>3. PICK b \in Nat : b = burst_left
        BY <2>4
      <4>4. (i + 1) + (b - 1) = i + b
        OBVIOUS
      <4> QED
        BY <2>1, <3>1, <4>2, <4>3, <4>4
    <3>3. read_addr'[1] \in Shared => force_fetch' \/ read_behind'
      <4>1. read_addr[1] \in Shared => force_fetch' \/ read_behind'
        BY <1>1, <2>5, Zenon
      <4> QED
        BY <3>1, <4>1, Zenon
    <3>4. read_addr'[2] + burst_left' > LineSize => (read_addr'[1] \in Shared <=> NextLine[read_addr'[1]] \in Shared)
      BY <2>5, <3>1, <3>2
    <3> QED
      BY <2>3, <2>4, <3>3, <3>4 DEF BurstInv
  <2>8. BurstInv'
    BY <2>6, <2>7
  <2>9. FreshInv'
    BY <1>1, <2>1 DEF FreshInv, Filling, ForceNext
  <2> QED
    BY <1>2, <2>3, <2>8, <2>9
<1>4. CASE ~(burst_left > 1)
  <2>1. state' = "IDLE"
    BY <1>4 DEF ReadHit
  <2> QED
    BY <1>2, <1>4, <2>1 DEF BurstInv, FreshInv, Reading, Filling
<1> QED
  BY <1>3, <1>4

\* A miss: the line is fetched, and nothing of it is there yet.
LEMMA MissMoves ==
    ASSUME TypeOK, IInv, BurstInv, NEW busy \in BOOLEAN, ReadMiss(busy)
    PROVE  BurstInv' /\ FreshInv'
<1>1. /\ state = "READONE" /\ ~ram_we /\ state' = "FILLCACHE" /\ fillcount' = 0
      /\ UNCHANGED <<read_addr, burst_left, force_fetch, read_behind, held>>
  BY DEF ReadMiss, Lookup, IInv, DdrInv, DdrQuiet, Reading
<1>2. read_addr \in Addr /\ read_addr[2] \in 0 .. LineSize - 1 /\ Mem(read_addr) \in held
  BY <1>1, ReadingTypes DEF BurstInv, Reading
<1>3. TakesWrite(busy) /\ ram_we' = (ram_we /\ busy)
  BY DEF DdrTakes, DdrUnheard, ReadMiss, Lookup
<1>4. \A a \in Addr : Mem(a)' = Mem(a)
  BY <1>1, <1>3, MemKept
<1>5. Mem(read_addr)' \in held'
  BY <1>1, <1>2, <1>4 DEF Mem
<1>6. ~(read_addr[2] < 0)
  BY <1>2
<1> QED
  BY <1>1, <1>5, <1>6, BurstKept DEF FreshInv, Filling, Reading

\* A clock of the fill that brings no beat.
LEMMA WaitMoves ==
    ASSUME TypeOK, IInv, BurstInv, FreshInv, NEW busy \in BOOLEAN, FillWait(busy)
    PROVE  BurstInv' /\ FreshInv'
<1>1. /\ state = "FILLCACHE" /\ state' = "FILLCACHE" /\ ~ram_we
      /\ UNCHANGED <<read_addr, burst_left, force_fetch, read_behind, held, data, fillcount>>
  BY DEF FillWait, Fill, IInv, DdrInv, DdrQuiet, Reading, reqVars
<1>2. read_addr \in Addr /\ read_addr[2] \in 0 .. LineSize - 1 /\ Mem(read_addr) \in held
  BY <1>1, ReadingTypes DEF BurstInv, Reading
<1>3. TakesWrite(busy) /\ ram_we' = (ram_we /\ busy)
  BY DEF DdrTakes, DdrUnheard, FillWait, Fill, PortRegs
<1>4. \A a \in Addr : Mem(a)' = Mem(a)
  BY <1>1, <1>3, MemKept
<1>5. Mem(read_addr)' \in held'
  BY <1>1, <1>2, <1>4 DEF Mem
<1>6. ASSUME read_addr[2] < fillcount
      PROVE  data[Index(read_addr)][cache_mux'][read_addr[2]] \in held
  <2>1. fillcount # 0
    BY <1>2, <1>6
  <2>2. ddr_phase = "data"
    BY <1>1, <2>1 DEF IInv, DdrInv, DdrQuiet
  <2>3. Fill(busy)
    BY DEF FillWait
  <2>4. cache_mux' = cache_mux
    BY <2>2, <2>3, MuxSettled DEF IInv
  <2> QED
    BY <1>1, <1>6, <2>4 DEF FreshInv, Filling
<1>7. FreshInv'
  BY <1>1, <1>6 DEF FreshInv, Index
<1> QED
  BY <1>1, <1>5, <1>7, BurstKept DEF Reading

\* A beat of the line: the awaited word arrives as memory has it.
LEMMA BeatMoves ==
    ASSUME TypeOK, IInv, BurstInv, FreshInv, NEW busy \in BOOLEAN, FillBeat(busy)
    PROVE  /\ BurstInv' /\ FreshInv'
           /\ \A a \in Addr : Mem(a)' = Mem(a)
<1> DEFINE k == Index(read_addr)
           i == read_addr[2]
<1>1. /\ state = "FILLCACHE" /\ state' \in {"FILLCACHE", "READCACHE_OUT"} /\ ~ram_we /\ ~ram_we'
      /\ ddr_phase = "data" /\ ddr_line = read_addr[1] /\ ddr_beat = fillcount
      /\ UNCHANGED <<read_addr, burst_left, force_fetch, read_behind, held, ddr>>
      /\ data' = [data EXCEPT ![k][cache_mux][fillcount] = ddr[<<ddr_line, ddr_beat>>]]
  BY DEF FillBeat, Fill, IInv, DdrInv, DdrQuiet, Reading, reqVars, DdrBeat, PortRegs
<1>2. /\ read_addr \in Addr /\ i \in 0 .. LineSize - 1 /\ Mem(read_addr) \in held /\ k \in CacheSet
      /\ fillcount \in Word /\ cache_mux \in Way /\ read_addr = <<read_addr[1], i>>
  BY <1>1, ReadingTypes DEF BurstInv, Reading
<1>3. \A a \in Addr : Mem(a)' = Mem(a) /\ Mem(a) = ddr[a]
  BY <1>1 DEF Mem
<1>4. Mem(read_addr)' \in held'
  BY <1>1, <1>2, <1>3 DEF Mem
<1>5. cache_mux' = cache_mux
  <2>1. Fill(busy)
    BY DEF FillBeat
  <2> QED
    BY <1>1, <2>1, MuxSettled DEF IInv
<1>6. data'[k][cache_mux] = [data[k][cache_mux] EXCEPT ![fillcount] = ddr[<<read_addr[1], fillcount>>]]
  BY <1>1, <1>2 DEF TypeOK
<1>7. ASSUME state' = "FILLCACHE" => i < fillcount'
      PROVE  data'[k][cache_mux][i] \in held
  <2>1. i = fillcount \/ i < fillcount
    <3>1. i \in Nat /\ fillcount \in Nat /\ i <= LineSize - 1 /\ LineSize \in Nat
      BY <1>2, SizeAssumption DEF Word
    <3>2. CASE state' = "FILLCACHE"
      <4>1. fillcount' = fillcount + 1
        BY <3>2 DEF FillBeat
      <4> QED
        BY <1>7, <3>1, <3>2, <4>1
    <3>3. CASE state' = "READCACHE_OUT"
      <4>1. fillcount = LineSize - 1
        BY <1>1, <3>3 DEF FillBeat, LastBeat
      <4> QED
        BY <3>1, <4>1
    <3> QED
      BY <1>1, <3>2, <3>3
  <2>2. data[k][cache_mux] \in [Word -> Val] /\ i \in Word
    BY <1>2 DEF TypeOK, Word
  <2>3. CASE i = fillcount
    <3>1. data'[k][cache_mux][i] = ddr[read_addr]
      BY <1>2, <1>6, <2>2, <2>3
    <3> QED
      BY <1>2, <1>3, <3>1
  <2>4. CASE i < fillcount
    <3>1. i # fillcount
      BY <1>2, <2>4 DEF Word
    <3>2. data'[k][cache_mux][i] = data[k][cache_mux][i]
      BY <1>6, <2>2, <3>1
    <3>3. data[k][cache_mux][i] \in held
      BY <1>1, <2>4 DEF FreshInv, Filling
    <3> QED
      BY <3>2, <3>3
  <2> QED
    BY <2>1, <2>3, <2>4
<1>8. FreshInv'
  BY <1>1, <1>5, <1>7 DEF FreshInv, Filling, Index
<1>9. BurstInv'
  BY <1>1, <1>4, BurstKept DEF Reading
<1> QED
  BY <1>3, <1>8, <1>9

\* The line is complete: the way it went to is the one that matches it.
LEMMA OutMoves ==
    ASSUME TypeOK, IInv, TypeOK', IInv', BurstInv, FreshInv, NEW busy \in BOOLEAN, ReadCacheOut(busy)
    PROVE  BurstInv' /\ FreshInv'
<1> DEFINE k == Index(read_addr)
<1>1. /\ state = "READCACHE_OUT" /\ state' = "READONE" /\ ~ram_we
      /\ UNCHANGED <<read_addr, burst_left, force_fetch, read_behind, held, data>>
      /\ tag' = [tag EXCEPT ![k][cache_mux] = read_addr[1]]
      /\ dirty' = [dirty EXCEPT ![k] = tags_dirty_in] /\ ~tags_dirty_in[cache_mux]
  BY DEF ReadCacheOut, RamPorts, IInv, PortInv, DdrInv, DdrQuiet, TagInv, Reading, Filling, reqVars
<1>2. read_addr \in Addr /\ k \in CacheSet /\ cache_mux \in Way /\ Mem(read_addr) \in held
  BY <1>1, ReadingTypes DEF BurstInv, Reading
<1>3. TakesWrite(busy) /\ ram_we' = (ram_we /\ busy)
  BY DEF DdrTakes, DdrUnheard, ReadCacheOut, PortRegs
<1>4. \A a \in Addr : Mem(a)' = Mem(a)
  BY <1>1, <1>3, MemKept DEF ReadCacheOut, DdrTakes, DdrUnheard
<1>5. Mem(read_addr)' \in held'
  BY <1>1, <1>2, <1>4 DEF Mem
<1>6. tag'[k][cache_mux] = read_addr[1] /\ ~dirty'[k][cache_mux]
  BY <1>1, <1>2 DEF TypeOK
<1>7. \A w \in Way : ~dirty'[k][w] /\ tag'[k][w] = read_addr[1] => w = cache_mux
  BY <1>1, <1>2, <1>6 DEF IInv, TagInv
<1>8. data[k][cache_mux][read_addr[2]] \in held
  BY <1>1 DEF FreshInv, Filling
<1>9. FreshInv'
  BY <1>1, <1>7, <1>8 DEF FreshInv, Filling, Matching, Index
<1> QED
  BY <1>1, <1>5, <1>9, BurstKept DEF Reading

\* The host writes its window: what the program had there may still be read.
LEMMA HostMoves ==
    ASSUME TypeOK, IInv, BurstInv, FreshInv, NEW a \in Addr, NEW v \in Val, HostWrite(a, v)
    PROVE  BurstInv' /\ FreshInv'
<1>1. /\ UNCHANGED <<state, data, dirty, tag, read_addr, burst_left, force_fetch, force_next, read_behind,
                     cache_mux, fillcount, ram_we>>
      /\ ddr' = [ddr EXCEPT ![a] = v]
      /\ held' = IF Reading /\ a = read_addr THEN held \union {v} ELSE held
  BY DEF HostWrite, reqVars, Reading
<1>2. held \subseteq held'
  BY <1>1
<1>3. ASSUME Reading PROVE Mem(read_addr)' \in held'
  <2>1. read_addr \in Addr /\ ~ram_we /\ Mem(read_addr) \in held
    BY <1>3, ReadingTypes DEF IInv, DdrInv, DdrQuiet, BurstInv
  <2>2. Mem(read_addr)' = ddr'[read_addr] /\ Mem(read_addr) = ddr[read_addr]
    BY <1>1, <2>1 DEF Mem
  <2>3. CASE a = read_addr
    BY <1>1, <1>3, <2>1, <2>2, <2>3 DEF TypeOK
  <2>4. CASE a # read_addr
    BY <1>1, <1>3, <2>1, <2>2, <2>4 DEF TypeOK
  <2> QED
    BY <2>3, <2>4
<1>4. BurstInv'
  BY <1>1, <1>2, <1>3, BurstKept DEF BurstInv, Reading
<1>5. FreshInv'
  BY <1>1, <1>2 DEF FreshInv, Filling, Matching, Index
<1> QED
  BY <1>4, <1>5

LEMMA BurstStep == TypeOK /\ IInv /\ TypeOK' /\ IInv' /\ BurstInv /\ FreshInv /\ [Next]_vars => BurstInv' /\ FreshInv'
<1> SUFFICES ASSUME TypeOK, IInv, TypeOK', IInv', BurstInv, FreshInv, [Next]_vars
             PROVE  BurstInv' /\ FreshInv'
  OBVIOUS
<1>1. ASSUME state' \in {"START", "IDLE", "WRITEONE"} PROVE BurstInv' /\ FreshInv'
  BY <1>1 DEF BurstInv, FreshInv, Reading, Filling
<1>2. CASE Reset
  BY <1>1, <1>2 DEF Reset
<1>3. ASSUME NEW busy \in BOOLEAN, Step(busy) PROVE BurstInv' /\ FreshInv'
  <2>1. CASE Start(busy) \/ Idle(busy) \/ WriteOne(busy)
    BY <1>1, <2>1 DEF Start, Idle, WriteOne
  <2>2. CASE ReadHit(busy)
    BY <2>2, HitMoves
  <2>3. CASE ReadMiss(busy)
    BY <2>3, MissMoves
  <2>4. CASE FillWait(busy)
    BY <2>4, WaitMoves
  <2>5. CASE FillBeat(busy)
    BY <2>5, BeatMoves
  <2>6. CASE ReadCacheOut(busy)
    BY <2>6, OutMoves
  <2> QED
    BY <1>3, <2>1, <2>2, <2>3, <2>4, <2>5, <2>6 DEF Step
<1>4. ASSUME NEW r \in ReadRequest, AcceptRead(r) PROVE BurstInv' /\ FreshInv'
  BY <1>4, AcceptBurst
<1>5. ASSUME NEW r \in WriteRequest, AcceptWrite(r) PROVE BurstInv' /\ FreshInv'
  BY <1>1, <1>5 DEF AcceptWrite
<1>6. ASSUME NEW a \in Addr, NEW v \in Val, HostWrite(a, v) PROVE BurstInv' /\ FreshInv'
  BY <1>6, HostMoves
<1>7. CASE UNCHANGED vars
  BY <1>7 DEF vars, BurstInv, FreshInv, Reading, Filling, Matching, Index, Mem
<1> QED
  BY <1>2, <1>3, <1>4, <1>5, <1>6, <1>7 DEF Next

LEMMA BurstKeeps == Spec => [](BurstInv /\ FreshInv)
<1>1. Init => BurstInv /\ FreshInv
  BY DEF Init, BurstInv, FreshInv, Reading, Filling
<1> QED
  BY <1>1, BurstStep, L2TypeCorrect, Inductive, PTL DEF Spec

\* A clock that returns no word, takes no request and leaves memory as it is.
LEMMA QuietClock ==
    ASSUME dout' = {}, \A a \in Addr : Mem(a)' = Mem(a),
           UNCHANGED <<held, read_addr, burst_left, read_behind>>, Reading' = Reading
    PROVE  Service!Quiet
<1>1. [a \in Addr |-> Mem(a)]' = [a \in Addr |-> Mem(a)]
  OBVIOUS
<1> QED
  BY <1>1 DEF Service!Quiet

\* The variables of the memory.
Shown == <<[a \in Addr |-> Mem(a)],
           [a |-> read_addr, left |-> IF Reading THEN burst_left ELSE 0, absent |-> read_behind],
           held, dout>>

\* The burst b at its next word.
Onward(b, f) == [b EXCEPT !.a = f[@], !.left = @ - 1]

LEMMA MovedOn ==
    ASSUME NEW b, NEW n \in Nat, NEW c, NEW x, NEW y, NEW f, f[x] = y, b = [a |-> x, left |-> n, absent |-> c]
    PROVE  Onward(b, f) = [a |-> y, left |-> n - 1, absent |-> c]
<1> DEFINE next == [b EXCEPT !.a = f[@], !.left = @ - 1]
<1>1. next.a = y /\ next.left = n - 1 /\ next.absent = c
  OBVIOUS
<1>2. next = [i \in {"a", "left", "absent"} |-> next[i]]
  OBVIOUS
<1> HIDE DEF next
<1>3. next = [a |-> y, left |-> n - 1, absent |-> c]
  BY <1>1, <1>2
<1> QED
  BY <1>3 DEF next, Onward

\* A hit returns the awaited word.
LEMMA HitReturns ==
    ASSUME TypeOK, IInv, BurstInv, FreshInv, NEW busy \in BOOLEAN, ReadHit(busy)
    PROVE  Service!ReturnWord
<1> DEFINE mem == [a \in Addr |-> Mem(a)]
           awaited == [a |-> read_addr, left |-> IF Reading THEN burst_left ELSE 0, absent |-> read_behind]
           after == [a \in Addr |-> NextAddr(a)]
<1>1. Reading /\ burst_left > 0 /\ burst_left \in Nat /\ read_addr \in Addr /\ NextAddr(read_addr) \in Addr
  <2>1. Reading
    BY DEF ReadHit, Lookup, Reading
  <2> QED
    BY <2>1, ReadingTypes, NextAddrType DEF BurstInv
<1>2. \E v \in IF read_behind THEN {OpenBus} ELSE held : dout' = {[a |-> read_addr, v |-> v]}
  BY HitFresh
<1>3. mem' = mem /\ (burst_left > 1 => held' = {Mem(NextAddr(read_addr))})
  BY HitMoves
<1>4. awaited = [a |-> read_addr, left |-> burst_left, absent |-> read_behind]
  BY <1>1
<1>5. awaited.a = read_addr /\ awaited.left = burst_left /\ awaited.absent = read_behind
  BY <1>4
<1>6. ~Service!NoBurst(awaited)
  BY <1>1, <1>5 DEF Service!NoBurst
<1>7. read_behind' = read_behind
  BY DEF ReadHit, Lookup
<1>8. IF awaited.left > 1
      THEN /\ awaited' = [awaited EXCEPT !.a = after[@], !.left = @ - 1]
           /\ held' = {mem[after[awaited.a]]}
      ELSE awaited' = [awaited EXCEPT !.left = 0] /\ held' = {}
  <2>1. CASE burst_left > 1
    <3>1. Reading' /\ burst_left' = burst_left - 1 /\ read_addr' = NextAddr(read_addr)
      BY <1>1, <2>1 DEF ReadHit, Lookup, Reading
    <3>2. after[read_addr] = NextAddr(read_addr) /\ mem[NextAddr(read_addr)] = Mem(NextAddr(read_addr))
      BY <1>1
    <3>3. awaited' = [a |-> NextAddr(read_addr), left |-> burst_left - 1, absent |-> read_behind]
      BY <1>7, <3>1
    <3> HIDE DEF after, awaited
    <3>4. Onward(awaited, after) = [a |-> NextAddr(read_addr), left |-> burst_left - 1, absent |-> read_behind]
      BY <1>1, <1>4, <3>2, MovedOn
    <3> QED
      BY <1>3, <1>5, <2>1, <3>2, <3>3, <3>4 DEF Onward
  <2>2. CASE ~(burst_left > 1)
    <3>1. ~Reading' /\ read_addr' = read_addr /\ held' = {}
      BY <2>2 DEF ReadHit, Lookup, Reading
    <3>2. awaited' = [a |-> read_addr, left |-> 0, absent |-> read_behind]
      BY <1>7, <3>1
    <3>3. [awaited EXCEPT !.left = 0] = [a |-> read_addr, left |-> 0, absent |-> read_behind]
      BY <1>4
    <3> QED
      BY <1>5, <2>2, <3>1, <3>2, <3>3
  <2> QED
    BY <2>1, <2>2
<1>9. \E v \in IF awaited.absent THEN {OpenBus} ELSE held : dout' = {[a |-> awaited.a, v |-> v]}
  BY <1>2, <1>5
<1> QED
  BY <1>3, <1>6, <1>8, <1>9 DEF Service!ReturnWord

LEMMA InitIsService == TypeOK /\ Init => Service!Init
<1> SUFFICES ASSUME TypeOK, Init PROVE Service!Init
  OBVIOUS
<1>1. [a \in Addr |-> Mem(a)] \in [Addr -> Val]
  BY DEF TypeOK, Mem
<1>2. ~Reading /\ read_addr \in Addr /\ read_behind = FALSE /\ held = {} /\ dout = {}
  BY DEF Init, TypeOK, Reading
<1> QED
  BY <1>1, <1>2 DEF Service!Init

\* Each clock of the cache is a step of the memory.
LEMMA ServiceStep ==
    TypeOK /\ IInv /\ BurstInv /\ FreshInv /\ TypeOK' /\ IInv' /\ BurstInv' /\ FreshInv' /\ [Next]_vars
        => [Service!Next]_Shown
<1> SUFFICES ASSUME TypeOK, IInv, BurstInv, FreshInv, [Next]_vars
             PROVE  Service!Next \/ UNCHANGED Shown
  OBVIOUS
<1>1. CASE Reset
  <2>1. Service!Abandon
    <3>1. [a \in Addr |-> Mem(a)]' = [a \in Addr |-> Mem(a)]
      BY <1>1 DEF Reset, Mem
    <3>2. ~Reading' /\ UNCHANGED <<read_addr, read_behind>> /\ held' = {} /\ dout' = {}
      BY <1>1 DEF Reset, Reading, reqVars
    <3> QED
      BY <3>1, <3>2 DEF Service!Abandon
  <2> QED
    BY <2>1 DEF Service!Next
<1>2. ASSUME NEW busy \in BOOLEAN, Step(busy) PROVE Service!Next
  <2>1. CASE ReadHit(busy)
    <3>1. Service!ReturnWord
      BY <2>1, HitReturns
    <3> QED
      BY <3>1 DEF Service!Next
  <2>2. CASE ~ReadHit(busy)
    <3>1. /\ dout' = {} /\ UNCHANGED <<held, read_addr, burst_left, read_behind>> /\ Reading' = Reading
      BY <1>2, <2>2 DEF Step, Start, Idle, WriteOne, ReadMiss, Lookup, FillWait, FillBeat, Fill, ReadCacheOut, Reading, reqVars
    <3>2. \A a \in Addr : Mem(a)' = Mem(a)
      <4>1. CASE FillBeat(busy)
        BY <4>1, BeatMoves
      <4>2. CASE ~FillBeat(busy)
        <5>1. TakesWrite(busy) /\ ram_we' = (ram_we /\ busy)
          BY <1>2, <2>2, <4>2 DEF DdrTakes, DdrUnheard, Step, Start, Idle, WriteOne, ReadMiss, Lookup, FillWait, Fill, ReadCacheOut, PortRegs
        <5>2. ~ram_we \/ UNCHANGED <<ram_addr, ram_din>>
          BY <1>2, <2>2, <4>2 DEF Step, Start, Idle, WriteOne, ReadMiss, Lookup, FillWait, Fill, ReadCacheOut,
             IInv, DdrInv, DdrQuiet, Reading
        <5> QED
          BY <5>1, <5>2, MemKept
      <4> QED
        BY <4>1, <4>2
    <3>3. Service!Quiet
      BY <3>1, <3>2, QuietClock
    <3> QED
      BY <3>3 DEF Service!Next
  <2> QED
    BY <2>1, <2>2
<1>3. ASSUME NEW r \in ReadRequest, AcceptRead(r) PROVE Service!Next
  <2>1. r.a \in Addr /\ r.n \in 1 .. MaxBurst /\ r.behind \in BOOLEAN
    BY DEF ReadRequest, Burst
  <2>2. Service!StartRead(r.a, r.n, r.behind)
    <3>1. ~Reading /\ Reading' /\ read_addr' = r.a /\ burst_left' = r.n /\ read_behind' = r.behind /\ dout' = {}
      BY <1>3 DEF AcceptRead, Accept, Reading
    <3>2. /\ \A a \in Addr : Mem(a)' = Mem(a)
          /\ held' = {Mem(r.a)}
      BY <1>3, AcceptBurst
    <3>3. [a \in Addr |-> Mem(a)]' = [a \in Addr |-> Mem(a)]
      BY <3>2
    <3> QED
      BY <2>1, <3>1, <3>2, <3>3 DEF Service!StartRead, Service!NoBurst
  <2> QED
    BY <2>1, <2>2 DEF Service!Next
<1>4. ASSUME NEW r \in WriteRequest, AcceptWrite(r) PROVE Service!Next
  <2>1. r.a \in Addr /\ r.v \in Val
    BY DEF WriteRequest
  <2>2. Service!Write(r.a, r.v)
    <3>1. /\ ~Reading /\ ~Reading' /\ read_addr' = r.a /\ ram_addr' = r.a /\ ram_we' /\ ram_din' = r.v
          /\ dout' = {} /\ UNCHANGED <<read_behind, held>> /\ DdrTakes(FALSE)
      BY <1>4 DEF AcceptWrite, Accept, Reading
    <3>2. \A a \in Addr : Mem(a)' = IF a = r.a THEN r.v ELSE Mem(a)
      BY <3>1 DEF Mem, DdrTakes, DdrUnheard, TakesWrite, TypeOK
    <3>3. [a \in Addr |-> Mem(a)]' = [[a \in Addr |-> Mem(a)] EXCEPT ![r.a] = r.v]
      BY <3>2
    <3> QED
      BY <2>1, <3>1, <3>3 DEF Service!Write, Service!NoBurst
  <2> QED
    BY <2>1, <2>2 DEF Service!Next
<1>5. ASSUME NEW a \in Addr, NEW v \in Val, HostWrite(a, v) PROVE Service!Next \/ UNCHANGED Shown
  <2> DEFINE mem == [b \in Addr |-> Mem(b)]
             awaited == [a |-> read_addr, left |-> IF Reading THEN burst_left ELSE 0, absent |-> read_behind]
  <2>1. /\ UNCHANGED <<state, read_addr, burst_left, read_behind, ram_we, ram_addr, ram_din, dout>>
        /\ a[1] \in Shared /\ ddr' = [ddr EXCEPT ![a] = v] /\ Reading' = Reading
        /\ held' = IF Reading /\ a = read_addr THEN held \union {v} ELSE held
    BY <1>5 DEF HostWrite, reqVars, Reading
  <2>2. awaited' = awaited
    BY <2>1
  <2>3. CASE ram_we /\ ram_addr = a
    <3>1. mem' = mem
      BY <2>1, <2>3 DEF Mem, TypeOK
    <3>2. ~Reading
      BY <2>3 DEF IInv, DdrInv, DdrQuiet
    <3>3. held' = held /\ dout' = dout
      BY <2>1, <3>2
    <3> QED
      BY <2>2, <3>1, <3>3 DEF Shown
  <2>4. CASE ~(ram_we /\ ram_addr = a)
    <3>1. \A b \in Addr : Mem(b)' = IF b = a THEN v ELSE Mem(b)
      BY <2>1, <2>4 DEF Mem, TypeOK
    <3>2. mem' = [mem EXCEPT ![a] = v]
      BY <3>1
    <3>3. a \in Shared \X Word
      BY <2>1 DEF Addr
    <3>4. held' = IF ~Service!NoBurst(awaited) /\ a = awaited.a THEN held \union {v} ELSE held
      <4>1. CASE Reading
        <5>1. awaited.left = burst_left /\ awaited.a = read_addr /\ burst_left > 0 /\ burst_left \in Nat
          BY <4>1, ReadingTypes DEF BurstInv
        <5> QED
          BY <2>1, <4>1, <5>1 DEF Service!NoBurst
      <4>2. CASE ~Reading
        <5>1. awaited.left = 0
          BY <4>2
        <5> QED
          BY <2>1, <4>2, <5>1 DEF Service!NoBurst
      <4> QED
        BY <4>1, <4>2
    <3>5. Service!HostWrite(a, v)
      BY <2>1, <2>2, <3>2, <3>3, <3>4 DEF Service!HostWrite
    <3> QED
      BY <3>5 DEF Service!Next
  <2> QED
    BY <2>3, <2>4
<1>6. CASE UNCHANGED vars
  BY <1>6 DEF vars, Mem, Reading, Shown
<1> QED
  BY <1>1, <1>2, <1>3, <1>4, <1>5, <1>6 DEF Next

\* The cache is a memory: a burst returns its words in order, each with a value
\* its address has had since the burst came to it, whatever is evicted, filled,
\* forced, written by the host or reset meanwhile.
THEOREM L2IsMemory == Spec => IsMemoryService
<1>1. TypeOK /\ Init => Service!Init
  BY InitIsService
<1> QED
  BY <1>1, ServiceStep, L2TypeCorrect, Inductive, BurstKeeps, PTL DEF Spec, IsMemoryService, Service!Spec, Shown

=============================================================================
