------------------------------- MODULE L2Cache -------------------------------
(***************************************************************************)
(* The write-through, set-associative L2 cache between the processor bus    *)
(* and the DDR controller (src/rtl/cache/l2_cache.v).                       *)
(*                                                                         *)
(* One action is one rising clock edge in one state of the cache's state   *)
(* machine; every edge also clocks the RAM write ports (RamPorts), the LRU *)
(* pipeline (LruPipeline) and the DDR port (DdrTakes, PortRegs).  Variables *)
(* have the names of the registers.                                        *)
(*                                                                         *)
(* Abstractions.  A dword address is <<line, word>>; the tag of a line is  *)
(* the line itself.  The 64-bit width of the data RAM (data64_high) is     *)
(* folded: a beat carries one word.  Byte enables are folded: a word has   *)
(* one value.  The one-clock delay of the data RAM write port (memory_we)  *)
(* is folded into the state that raises it, since no state reads the data  *)
(* RAM before the second clock after.  The legacy VGA window, which        *)
(* bypasses the cache, is left out; the address decode that gives a        *)
(* request its flags is module UpperMemory.                                *)
(***************************************************************************)
EXTENDS Naturals

CONSTANTS
    Line,       \* memory lines
    Sets,       \* number of cache sets (LINES in the source)
    IndexOf,    \* the set a line maps to
    NextLine,   \* the line after a line, where a burst runs on
    Assoc,      \* ways of a set (ASSOCIATIVITY)
    LineSize,   \* words of a line (LINESIZE)
    Val,        \* values of a word
    Content,    \* the values each word may be given; Val, or less to bound a run
    OpenBus,    \* what a read outside the installed memory returns
    MaxBurst,   \* longest burst the bus master asks for
    Shared,     \* lines the host writes behind the cache
    DISABLE     \* the cache is switched off: every read is fetched anew

CacheSet == 0 .. Sets - 1
Way      == 0 .. Assoc - 1
Word     == 0 .. LineSize - 1
Addr     == Line \X Word
Burst    == 1 .. MaxBurst

ASSUME SizeAssumption ==
    /\ Sets \in Nat \ {0}
    /\ Assoc \in Nat \ {0}
    /\ LineSize \in Nat \ {0}
    /\ MaxBurst \in Nat \ {0}
\* A burst runs over the end of one line at most (8 words and 8, in the code).
ASSUME BurstAssumption == MaxBurst <= LineSize + 1
ASSUME LineAssumption ==
    /\ IndexOf \in [Line -> CacheSet]
    /\ NextLine \in [Line -> Line]
    /\ Shared \subseteq Line
    /\ DISABLE \in BOOLEAN
    /\ Content \in [Addr -> SUBSET Val]

VARIABLES
    state,            \* the state machine
    \* RAMs
    dirty,            \* dirtyram: TRUE marks a way INVALID
    tag,              \* tagram
    lru,              \* LRUram: age of each way, 0 the youngest
    data,             \* the data RAM
    \* write ports of dirtyram and LRUram
    update_tag_we, update_tag_addr, tags_dirty_in,
    LRU_addr, LRU_in, \* LRU_in is {} while LRU_we is low
    \* the request in progress
    read_addr, burst_left, force_fetch, force_next, read_behind,
    cache_mux, fillcount,
    dout,             \* the word driven out; {} while ram_dout_ready is low
    \* the DDR port and the controller behind it
    ram_rd, ram_we, ram_addr, ram_din,
    ddr,              \* contents of the DDR
    ddr_phase,        \* the controller's read: "idle", "latency", "data"
    ddr_line, ddr_beat,
    \* history: values the awaited word has had since the burst came to it
    held

reqVars == <<read_addr, burst_left, force_fetch, force_next, read_behind>>
vars == <<state, dirty, tag, lru, data, update_tag_we, update_tag_addr,
          tags_dirty_in, LRU_addr, LRU_in, read_addr, burst_left,
          force_fetch, force_next, read_behind, cache_mux, fillcount,
          dout, ram_rd, ram_we, ram_addr, ram_din,
          ddr, ddr_phase, ddr_line, ddr_beat, held>>

States == {"START", "IDLE", "WRITEONE", "READONE", "FILLCACHE", "READCACHE_OUT"}

Index(a) == IndexOf[a[1]]
NextAddr(a) == IF a[2] = LineSize - 1 THEN <<NextLine[a[1]], 0>>
                                      ELSE <<a[1], a[2] + 1>>

-----------------------------------------------------------------------------
(* The parts of a clock edge that do not depend on the state. *)

Touch_KeepsAge(ages, w) ==      \* mutant: the touched way is not made youngest
    [i \in Way |-> IF ages[i] < ages[w] THEN ages[i] + 1 ELSE ages[i]]

\* The ways younger than the touched one age by one, the touched one is youngest.
Touch(ages, w) ==
    [i \in Way |-> IF i = w THEN 0
                   ELSE IF ages[i] < ages[w] THEN ages[i] + 1 ELSE ages[i]]

\* What a RAM entry becomes: a port is the set of the values it writes, {} or one.
Written(port, old) == IF port = {} THEN old ELSE CHOOSE new \in port : TRUE

RamPorts_NoSweep ==             \* mutant: the power-up sweep writes no tag bits
    /\ dirty' = IF update_tag_we /\ state # "START"
                THEN [dirty EXCEPT ![update_tag_addr] = tags_dirty_in] ELSE dirty
    /\ lru' = [lru EXCEPT ![LRU_addr] = Written(LRU_in, @)]

RamPorts ==
    /\ dirty' = IF update_tag_we
                THEN [dirty EXCEPT ![update_tag_addr] = tags_dirty_in] ELSE dirty
    /\ lru' = [lru EXCEPT ![LRU_addr] = Written(LRU_in, @)]

LruPipeline_Held ==             \* mutant: the write enable is not a pulse
    LRU_in' = IF dout # {} \/ LRU_in # {}
              THEN {Touch(lru[LRU_addr], cache_mux)} ELSE {}

LruPipeline ==
    LRU_in' = IF dout # {} /\ LRU_in = {}        \* ram_dout_ready && ~LRU_we
              THEN {Touch(lru[LRU_addr], cache_mux)} ELSE {}

TakesWrite(busy) == ddr' = IF ram_we /\ ~busy THEN [ddr EXCEPT ![ram_addr] = ram_din] ELSE ddr

\* The controller takes a request when it is not busy; a read's first beat
\* comes no sooner than the second clock after.
DdrTakes(busy) ==
    /\ TakesWrite(busy)
    /\ IF ram_rd /\ ~busy
       THEN /\ ddr_phase' = "latency"
            /\ ddr_line' = ram_addr[1]
            /\ ddr_beat' = 0
       ELSE /\ ddr_phase' = IF ddr_phase = "latency" THEN "data" ELSE ddr_phase
            /\ UNCHANGED <<ddr_line, ddr_beat>>

\* A beat of the line in the controller's read; only in phase "data".
DdrBeat ==
    /\ ddr_phase = "data"
    /\ ddr_phase' = IF ddr_beat = LineSize - 1 THEN "idle" ELSE "data"
    /\ ddr_beat' = IF ddr_beat = LineSize - 1 THEN 0 ELSE ddr_beat + 1
    /\ UNCHANGED ddr_line

\* START and IDLE look at no beat: what a read brings that a reset orphaned is lost.
DdrUnheard(busy) == DdrTakes(busy) \/ (TakesWrite(busy) /\ DdrBeat)

\* No read is under way in the DDR port.
DdrQuiet == ~ram_rd /\ ddr_phase = "idle"

PortRegs(busy) ==          \* if (~DDRAM_BUSY) begin ram_rd <= 0; ram_we <= 0; end
    /\ ram_we' = (ram_we /\ busy)
    /\ ram_rd' = (ram_rd /\ busy)

-----------------------------------------------------------------------------
(* What the bus may ask for, with the flags the address decode gives it.  The
   bus master (module MemoryBus) starts nothing before its last read is answered. *)
ReadRequest == [a: Addr, n: Burst,
                behind: BOOLEAN,     \* ~ram_rgn
                forced: BOOLEAN]     \* shr_rgn | DISABLE
WriteRequest == [a: Addr, v: Val]    \* one with (~rom_rgn | shr_rgn) & ram_rgn

\* The shared window reads as absent until it is mapped and is fetched anew
\* from then on; a burst stays in the window or out of it.
WithinRegion(r) ==
    /\ IF r.a[1] \in Shared THEN r.forced \/ r.behind ELSE r.forced = DISABLE
    /\ r.a[2] + r.n > LineSize =>
         (r.a[1] \in Shared <=> NextLine[r.a[1]] \in Shared)

\* The word at address a as the program sees it: a write the DDR has yet to
\* take counts.
Mem(a) == IF ram_we /\ ram_addr = a THEN ram_din ELSE ddr[a]

-----------------------------------------------------------------------------
(* The state machine. *)

\* The edge RESET_1 && ~RESET_2.  It leaves the DDR port and the controller as
\* they are: a read under way goes on, and is orphaned.
Reset ==
    /\ state' = "START"
    /\ update_tag_addr' = 0
    /\ update_tag_we' = TRUE
    /\ tags_dirty_in' = [w \in Way |-> TRUE]
    /\ RamPorts
    /\ dout' = {}
    /\ held' = {}
    /\ UNCHANGED <<reqVars, tag, data, LRU_addr, LRU_in, cache_mux, fillcount, ram_rd,
                   ram_we, ram_addr, ram_din, ddr, ddr_phase, ddr_line, ddr_beat>>

\* Invalidates one set an edge; its LRU entry is written one edge later.
Start(busy) ==
    /\ state = "START"
    /\ RamPorts /\ DdrUnheard(busy) /\ PortRegs(busy)
    /\ update_tag_addr' = IF update_tag_addr = Sets - 1 THEN 0 ELSE update_tag_addr + 1
    /\ LRU_in' = {[w \in Way |-> w]}
    /\ LRU_addr' = update_tag_addr
    /\ IF update_tag_addr = Sets - 1
       THEN state' = "IDLE" /\ update_tag_we' = FALSE
       ELSE UNCHANGED <<state, update_tag_we>>
    /\ dout' = {}
    /\ UNCHANGED <<reqVars, tag, data, tags_dirty_in, cache_mux, fillcount, ram_addr, ram_din, held>>

\* IDLE with a busy controller or no request, or with a write to a
\* write-ignored region, which is accepted and dropped.
Idle(busy) ==
    /\ state = "IDLE"
    /\ RamPorts /\ LruPipeline /\ DdrUnheard(busy) /\ PortRegs(busy)
    /\ dout' = {}
    /\ UNCHANGED <<state, reqVars, tag, data, update_tag_we, update_tag_addr,
                   tags_dirty_in, LRU_addr, cache_mux, fillcount,
                   ram_addr, ram_din, held>>

\* The registers IDLE loads from a request it accepts (CPU_BUSY low).  ram_din is
\* left alone by a read and the burst registers by a write, which never use them.
\* DdrQuiet is an assumption on the environment, of the time after a reset only:
\* the reset and the sweep (all the sets, one a clock) outlast an orphaned read,
\* so that no request comes before its last beat.  The code does not check it.
Accept(r) ==
    /\ state = "IDLE"
    /\ DdrQuiet
    /\ RamPorts /\ LruPipeline /\ DdrTakes(FALSE)
    /\ read_addr' = r.a
    /\ ram_addr' = r.a
    /\ ram_rd' = FALSE
    /\ dout' = {}
    /\ UNCHANGED <<tag, data, update_tag_we, update_tag_addr, tags_dirty_in,
                   LRU_addr, cache_mux, fillcount>>

AcceptRead(r) ==
    /\ Accept(r)
    /\ WithinRegion(r)
    /\ state' = "READONE"
    /\ burst_left' = r.n
    /\ force_fetch' = r.forced
    /\ force_next' = r.forced
    /\ read_behind' = r.behind
    /\ ram_we' = FALSE
    /\ UNCHANGED ram_din
    /\ held' = {ddr'[r.a]}

AcceptWrite(r) ==
    /\ Accept(r)
    /\ r.v \in Content[r.a]
    /\ state' = "WRITEONE"
    /\ ram_we' = TRUE
    /\ ram_din' = r.v
    /\ UNCHANGED <<burst_left, force_fetch, force_next, read_behind, held>>

Matching_AnyWay ==              \* mutant: the valid bits are not looked at
    {w \in Way : tag[Index(read_addr)][w] = read_addr[1]}

\* The valid ways of the addressed set that hold the addressed line.
Matching == {w \in Way : /\ ~dirty[Index(read_addr)][w]
                         /\ tag[Index(read_addr)][w] = read_addr[1]}

UpdateCopies_None == UNCHANGED data     \* mutant: the write goes to DDR alone

UpdateCopies ==
    data' = [data EXCEPT ![Index(read_addr)] =
               [w \in Way |-> IF w \in Matching
                              THEN [@[w] EXCEPT ![read_addr[2]] = ram_din]
                              ELSE @[w]]]

WriteOne(busy) ==
    /\ state = "WRITEONE"
    /\ RamPorts /\ LruPipeline /\ DdrTakes(busy) /\ PortRegs(busy)
    /\ state' = "IDLE"
    /\ UpdateCopies
    /\ dout' = {}
    /\ UNCHANGED <<reqVars, tag, update_tag_we, update_tag_addr, tags_dirty_in,
                   LRU_addr, cache_mux, fillcount, ram_addr, ram_din, held>>

ForceNext_Stuck == force_next           \* mutant: every lookup is forced
ForceNext == IF force_fetch THEN ~force_next ELSE force_next

\* What READONE does on a hit and on a miss alike.
Lookup(busy) ==
    /\ state = "READONE"
    /\ RamPorts /\ LruPipeline /\ DdrTakes(busy)
    /\ ram_we' = (ram_we /\ busy)
    /\ ram_addr' = <<read_addr[1], 0>>
    /\ fillcount' = 0
    /\ update_tag_addr' = Index(read_addr)
    /\ LRU_addr' = Index(read_addr)
    /\ force_next' = ForceNext
    /\ UNCHANGED <<tag, data, force_fetch, read_behind, ram_din>>

\* A hit drives a word out and the burst moves on; of several matching ways the
\* last one drives.
ReadHit(busy) ==
    /\ Lookup(busy)
    /\ ~force_next
    /\ Matching # {}
    /\ \E w \in Matching :
         /\ \A x \in Matching : x <= w
         /\ cache_mux' = w
         /\ dout' = {[a |-> read_addr,
                       v |-> IF read_behind THEN OpenBus
                             ELSE data[Index(read_addr)][w][read_addr[2]]]}
    /\ ram_rd' = FALSE
    /\ tags_dirty_in' = dirty[Index(read_addr)]
    /\ update_tag_we' = FALSE
    /\ IF burst_left > 1
       THEN /\ burst_left' = burst_left - 1
            /\ read_addr' = NextAddr(read_addr)
            /\ held' = {ddr'[NextAddr(read_addr)]}
            /\ UNCHANGED state
       ELSE /\ state' = "IDLE"
            /\ held' = {}
            /\ UNCHANGED <<burst_left, read_addr>>

MissTags_Kept == dirty[Index(read_addr)]     \* mutant: a forced fetch keeps the set
MissTags == IF force_next THEN [w \in Way |-> TRUE] ELSE dirty[Index(read_addr)]

\* A miss, or the first look of a forced fetch, which invalidates the set.
ReadMiss(busy) ==
    /\ Lookup(busy)
    /\ force_next \/ Matching = {}
    /\ state' = "FILLCACHE"
    /\ ram_rd' = TRUE
    /\ dout' = {}
    /\ tags_dirty_in' = MissTags
    /\ update_tag_we' = force_next
    /\ UNCHANGED <<burst_left, read_addr, cache_mux, held>>

\* The oldest way (the last of them, had several the oldest age).
Victim(ages) ==
    LET oldest == {w \in Way : ages[w] = Assoc - 1}
    IN  {w \in oldest : \A x \in oldest : x <= w}

LastBeat_Late == fillcount = LineSize        \* mutant: counts one beat too many
LastBeat == fillcount = LineSize - 1

Fill(busy) ==
    /\ state = "FILLCACHE"
    /\ RamPorts /\ LruPipeline /\ PortRegs(busy)
    /\ IF Victim(lru[LRU_addr]) = {} THEN UNCHANGED cache_mux
                                     ELSE cache_mux' \in Victim(lru[LRU_addr])
    /\ dout' = {}
    /\ UNCHANGED <<reqVars, tag, update_tag_addr, LRU_addr, ram_addr,
                   ram_din, held>>

FillWait(busy) ==
    /\ Fill(busy)
    /\ DdrTakes(busy)
    /\ UNCHANGED <<state, data, fillcount, tags_dirty_in, update_tag_we>>

FillBeat(busy) ==
    /\ Fill(busy)
    /\ DdrBeat /\ UNCHANGED ddr
    /\ data' = [data EXCEPT ![Index(read_addr)][cache_mux][fillcount] =
                   ddr[<<ddr_line, ddr_beat>>]]
    /\ tags_dirty_in' = [tags_dirty_in EXCEPT ![cache_mux] = FALSE]
    /\ IF LastBeat
       THEN /\ state' = "READCACHE_OUT"
            /\ update_tag_we' = TRUE
            /\ UNCHANGED fillcount
       ELSE fillcount' = fillcount + 1 /\ UNCHANGED <<state, update_tag_we>>

ReadCacheOut(busy) ==
    /\ state = "READCACHE_OUT"
    /\ RamPorts /\ LruPipeline /\ DdrTakes(busy) /\ PortRegs(busy)
    /\ state' = "READONE"
    /\ update_tag_we' = FALSE
    /\ tag' = [tag EXCEPT ![Index(read_addr)][cache_mux] = read_addr[1]]
    /\ dout' = {}
    /\ UNCHANGED <<reqVars, data, update_tag_addr, tags_dirty_in, LRU_addr,
                   cache_mux, fillcount, ram_addr, ram_din, held>>

-----------------------------------------------------------------------------
(* The environment. *)

\* The host writes the shared window in DDR, behind the cache.
HostWrite(a, v) ==
    /\ a[1] \in Shared
    /\ v \in Content[a]
    /\ ddr' = [ddr EXCEPT ![a] = v]
    /\ held' = IF state \in {"READONE", "FILLCACHE", "READCACHE_OUT"}
                  /\ a = read_addr
               THEN held \union {v} ELSE held
    /\ UNCHANGED <<state, dirty, tag, lru, data, update_tag_we, update_tag_addr,
                   tags_dirty_in, LRU_addr, LRU_in, reqVars, cache_mux,
                   fillcount, dout, ram_rd, ram_we, ram_addr,
                   ram_din, ddr_phase, ddr_line, ddr_beat>>

\* The state after configuration: the RAMs power up zeroed, so every way is
\* valid and holds its set's first line, and no LRU entry is an order.
Init ==
    /\ state = "START"
    /\ dirty = [s \in CacheSet |-> [w \in Way |-> FALSE]]
    /\ \E first \in [CacheSet -> Line] :
         /\ \A s \in CacheSet : IndexOf[first[s]] = s
         /\ tag = [s \in CacheSet |-> [w \in Way |-> first[s]]]
         /\ read_addr = <<first[0], 0>>
    /\ lru = [s \in CacheSet |-> [w \in Way |-> 0]]
    /\ data \in {[s \in CacheSet |-> [w \in Way |-> [i \in Word |-> v]]] : v \in Val}
    /\ update_tag_we = TRUE
    /\ update_tag_addr = 0
    /\ tags_dirty_in = [w \in Way |-> TRUE]
    /\ LRU_addr = 0
    /\ LRU_in = {}
    /\ burst_left = 0
    /\ force_fetch = FALSE
    /\ force_next = FALSE
    /\ read_behind = FALSE
    /\ cache_mux = 0
    /\ fillcount = 0
    /\ dout = {}
    /\ ram_rd = FALSE
    /\ ram_we = FALSE
    /\ ram_addr = read_addr
    /\ ram_din \in Val
    /\ ddr \in {f \in [Addr -> Val] : \A a \in Addr : f[a] \in Content[a]}
    /\ ddr_phase = "idle"
    /\ ddr_line = read_addr[1]
    /\ ddr_beat = 0
    /\ held = {}

Step(busy) ==
    \/ Start(busy) \/ Idle(busy) \/ WriteOne(busy) \/ ReadHit(busy)
    \/ ReadMiss(busy) \/ FillWait(busy) \/ FillBeat(busy) \/ ReadCacheOut(busy)

Next ==
    \/ Reset
    \/ \E busy \in BOOLEAN : Step(busy)
    \/ \E r \in ReadRequest : AcceptRead(r)
    \/ \E r \in WriteRequest : AcceptWrite(r)
    \/ \E a \in Addr, v \in Val : HostWrite(a, v)

Spec == Init /\ [][Next]_vars

\* The clock ticks, and the DDR controller is not busy for ever: it takes a read
\* and returns its beats.
FairSpec ==
    /\ Spec
    /\ WF_vars(Step(FALSE))
    /\ WF_vars(FillBeat(FALSE))

-----------------------------------------------------------------------------
(* Properties. *)

TypeOK ==
    /\ state \in States
    /\ dirty \in [CacheSet -> [Way -> BOOLEAN]]
    /\ tag \in [CacheSet -> [Way -> Line]]
    /\ lru \in [CacheSet -> [Way -> Way]]
    /\ data \in [CacheSet -> [Way -> [Word -> Val]]]
    /\ update_tag_we \in BOOLEAN
    /\ update_tag_addr \in CacheSet
    /\ tags_dirty_in \in [Way -> BOOLEAN]
    /\ LRU_addr \in CacheSet
    /\ LRU_in \in SUBSET [Way -> Way]
    /\ read_addr \in Addr
    /\ burst_left \in 0 .. MaxBurst
    /\ force_fetch \in BOOLEAN
    /\ force_next \in BOOLEAN
    /\ read_behind \in BOOLEAN
    /\ cache_mux \in Way
    /\ fillcount \in Word
    /\ dout \in SUBSET [a: Addr, v: Val \union {OpenBus}]
    /\ ram_rd \in BOOLEAN
    /\ ram_we \in BOOLEAN
    /\ ram_addr \in Addr
    /\ ram_din \in Val
    /\ ddr \in [Addr -> Val]
    /\ ddr_phase \in {"idle", "latency", "data"}
    /\ ddr_line \in Line
    /\ ddr_beat \in Word
    /\ held \in SUBSET Val

Reading == state \in {"READONE", "FILLCACHE", "READCACHE_OUT"}
Filling == state \in {"FILLCACHE", "READCACHE_OUT"}

\* A set's ages, the write on its way to the LRU RAM included.
Ages(s) == IF LRU_addr = s THEN Written(LRU_in, lru[s]) ELSE lru[s]

\* Once the power-up sweep is over, the ages of every set are an order of its
\* ways: there is exactly one oldest way to evict.  A burst that crosses a line
\* writes one set's touched order over another's, so this is not immediate.
LruIsOrder ==
    state # "START" =>
        \A s \in CacheSet : \A v, w \in Way : v # w => Ages(s)[v] # Ages(s)[w]

\* Outside a fill no line is valid in two ways of its set, so a read has one
\* way to hit and a write updates every copy.
UniqueLine ==
    state \in {"IDLE", "WRITEONE", "READONE"} =>
        \A s \in CacheSet : \A v, w \in Way :
            v # w /\ ~dirty[s][v] /\ ~dirty[s][w] => tag[s][v] # tag[s][w]

\* A valid way is a copy of memory: the way a fill is replacing, the word
\* WRITEONE is about to write and the host's window excepted.
Coherent ==
    state # "START" =>
        \A s \in CacheSet, w \in Way : \A i \in Word :
            LET a == <<tag[s][w], i>> IN
            \/ dirty[s][w]
            \/ tag[s][w] \in Shared
            \/ Filling /\ s = Index(read_addr) /\ w = cache_mux
            \/ state = "WRITEONE" /\ a = read_addr
            \/ data[s][w][i] = Mem(a)

\* What the cache holds is memory's, and held in one place.
CopiesExact == UniqueLine /\ Coherent

\* All the beats of a line go to one way: the victim is settled before the
\* first beat, although the LRU pipeline may still be writing when a fill starts.
FillStaysInOneWay == state = "FILLCACHE" /\ ddr_phase = "data" => cache_mux' = cache_mux

\* The victim of a fill is one way and stays it, however the pipeline of the
\* ages runs behind bursts that cross from set to set.
VictimSettled == [][LruIsOrder /\ FillStaysInOneWay]_vars

\* The cache is a memory: see MemoryService.
Service == INSTANCE MemoryService WITH
    Address  <- Addr,
    Value    <- Val,
    After    <- [a \in Addr |-> NextAddr(a)],
    HostArea <- Shared \X Word,
    mem      <- [a \in Addr |-> Mem(a)],
    awaited  <- [a |-> read_addr, left |-> IF Reading THEN burst_left ELSE 0,
                 absent |-> read_behind],
    seen     <- held,
    reply    <- dout
IsMemoryService == Service!Spec

\* No burst is read for ever: the lookup after a fill, forced or not, hits.
BurstEnds == Reading ~> ~Reading

=============================================================================
