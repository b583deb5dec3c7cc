---------------------------------- MODULE Bios ----------------------------------
(***************************************************************************)
(* The system BIOS (src/sw/sysbios).  Its services keep what they know in  *)
(* different places of the BIOS data area, and none calls another while it *)
(* waits, so a behaviour exercises one part of it: `part` says which.      *)
(***************************************************************************)
EXTENDS Integers, Sequences, FiniteSets

CONSTANTS Parts,                                                    \* the parts exercised
          Slots, FifoDepth, Works,                                  \* BiosInput
          Machines, Bench(_),                                       \* BiosDisk
          FloppyOnCnt, FloppyTypes, FloppyCalls,                    \* BiosFloppy
          DayTicks, LowWord, Period, TimeMenus, TimeBench(_), TickLimit(_),     \* BiosTime
          SerialTimeout, PrinterTimeout, MaxSent, PortCalls,        \* BiosPorts
          Boards, Machine(_), Codes, TableEntries, MaxResets,       \* BiosBoot
          Memories, Moves,                                          \* BiosMemory
          Computers, Computer(_)                                    \* BiosPost

VARIABLES
    part,
    work, held, kbc, mouse, bda, ebda, cpu, given, heard, lost,
    machine, ata, locks, cdemu, floppies, status, xfer, reply,
    types, fdc, irq6, fl, prog, answer,
    menu, clock, rtc, interval, tp, clockSays,
    line, printer, pp, said, accepted,
    board, at, shutdown, ipl, inits, tried,
    cmos, a20, mem, told,
    computer, cmosTime, post

Input  == INSTANCE BiosInput
Disk   == INSTANCE BiosDisk
Floppy == INSTANCE BiosFloppy
Time   == INSTANCE BiosTime
Ports  == INSTANCE BiosPorts
Boot   == INSTANCE BiosBoot
Memory == INSTANCE BiosMemory
Post   == INSTANCE BiosPost

inputV  == <<work, held, kbc, mouse, bda, ebda, cpu, given, heard, lost>>
diskV   == <<machine, ata, locks, cdemu, floppies, status, xfer, reply>>
floppyV == <<types, fdc, irq6, fl, prog, answer>>
timeV   == <<menu, clock, rtc, interval, tp, clockSays>>
portV   == <<line, printer, pp, said, accepted>>
bootV   == <<board, at, shutdown, ipl, inits, tried>>
memoryV == <<cmos, a20, mem, told>>
postV   == <<computer, cmosTime, post>>
biosVars == <<part, inputV, diskV, floppyV, timeV, portV, bootV, memoryV, postV>>

\* 0 stands for no character.
ASSUME PortsAssumption ==
    /\ SerialTimeout \in Nat /\ PrinterTimeout \in Nat
    /\ \A call \in PortCalls : call.c \in Nat /\ (call.fn \in {"send", "print"} => call.c # 0)

\* The clock is read before the byte of midnights wraps and set to a time of
\* day, and a menu with wait intervals does not set the real-time clock.
ASSUME TimeAssumption ==
    /\ DayTicks \in Nat \ {0} /\ LowWord \in Nat \ {0} /\ Period \in Nat \ {0}
    /\ \A m \in TimeMenus :
          /\ TickLimit(m) \in Nat /\ TickLimit(m) < 256 * DayTicks
          /\ \A call \in TimeBench(m) :
                /\ call.n \in Nat
                /\ call.fn = "setclock" => call.n < DayTicks
                /\ call.fn = "interval" => \A other \in TimeBench(m) : other.fn \notin Time!RtcCalls

\* Diskette calls that transfer have a segment, an offset and a byte of sectors.
ASSUME FloppyAssumption ==
    /\ FloppyOnCnt \in Nat \ {0}
    /\ \A call \in FloppyCalls :
          call.ah \in {2, 3, 5} => /\ call.es \in Nat /\ call.es < 65536
                                  /\ call.bx \in Nat /\ call.bx < 65536
                                  /\ call.n \in Nat /\ call.n < 256

\* A disk's identity says no more sectors than it has, a disk that is addressed
\* by LBA has a logical cylinder and no more of them than a word counts, and a
\* transfer by block number is of 1 to 255 sectors.
DiskIdentity(unit) ==
    /\ unit.pchs.c \in Nat /\ 0 < unit.pchs.c /\ unit.pchs.c < 65536
    /\ unit.pchs.h \in 1 .. 16 /\ unit.pchs.s \in 1 .. 63
    /\ unit.size \in Nat /\ unit.pchs.c * unit.pchs.h * unit.pchs.s <= unit.size
    /\ unit.translation \in {"none", "lba", "large", "rechs"}
    /\ unit.translation = "lba" => 16 * 63 <= unit.size /\ unit.size < 255 * 65536 * 63
DiskUnit(unit) ==
    /\ unit.kind \in {"ata", "atapi", "unknown", "none"}
    /\ unit.kind = "ata" => DiskIdentity(unit)
    /\ unit.kind = "atapi" =>
          unit.disc.ilba \in Nat /\ unit.disc.geometry.h \in Nat /\ unit.disc.geometry.s \in Nat
DiskCall(call) ==
    /\ call.c \in Nat /\ call.h \in Nat /\ call.s \in Nat /\ call.n \in Nat /\ call.lba \in Nat
    /\ call.seg \in Nat /\ call.off \in Nat /\ call.off < 65536
    /\ call.ah \in {66, 67} => 0 < call.n /\ call.n < 256
ASSUME DiskAssumption ==
    \A m \in Machines :
        /\ \A d \in Disk!Devices : DiskUnit(Bench(m).units[d])
        /\ \A call \in Bench(m).calls : DiskCall(call)
        /\ Bench(m).chunks \subseteq Nat

\* The sizes are words of the CMOS.
ASSUME MemoryAssumption ==
    \A c \in Memories : /\ c.k \in Nat /\ c.k < 65536
                         /\ c.blocks \in Nat /\ c.blocks < 65536

\* A key is not stored by a call while keys come.  No menu has all three:
\* calls that read keys, keys whose codes have the prefix E0h, and anything
\* that makes a call set the lights, which lets Ctrl-Break between the
\* reading of a key and the moving of the head.
E0Keys == {"home", "rctrl", "ralt", "break"}
LockKeys == {"caps", "num", "scroll", "pause"}
ASSUME InputAssumption ==
    /\ Slots \in Nat \ {0, 1}
    /\ \A w \in Works :
          /\ w.keys \subseteq DOMAIN Input!Press
          /\ \A c \in w.calls16 : c.ah = 5 => c.key \in Input!KeyCodes /\ w.keys = {}
          /\ \/ \A c \in w.calls16 : ~Input!Reads(c)
             \/ w.keys \cap E0Keys = {}
             \/ w.keys \cap LockKeys = {} /\ w.calls15 = {}

\* A good ROM has 1 to 252 blocks, for the rounding of more is out of a byte's
\* range and the scan stands still; the video ROM ends where the options begin;
\* the boot order is three nibbles of the CMOS.
RomFits(m, pos) == m.roms[pos].blocks \in Nat \ {0} /\ m.roms[pos].blocks <= 252
                   /\ (pos <= m.video => 4 * pos + m.roms[pos].blocks <= 4 * m.options)
RomsFit(m) == /\ m.video \in Nat /\ m.options \in Nat /\ m.last \in Nat /\ m.video < m.options
              /\ DOMAIN m.roms \subseteq Nat
              /\ \A pos \in DOMAIN m.roms : m.roms[pos].good => RomFits(m, pos)
OrderFits(m) == m.order \in Seq(0 .. 15) /\ Len(m.order) = 3 /\ m.choice \in Nat /\ m.choice < 65536
ASSUME BootAssumption == /\ TableEntries \in Nat
                         /\ \A b \in Boards : RomsFit(Machine(b)) /\ OrderFits(Machine(b))

\* What the CMOS says of the machine: bytes and words, disks of the geometries
\* that the code translates; two printer and four serial ports at most.
PostDisk(d) == /\ d.c \in Nat \ {0} /\ d.c <= 16384 /\ d.h \in 1 .. 16 /\ d.s \in 1 .. 63
               /\ d.precomp \in Nat /\ d.precomp < 65536 /\ d.landing \in Nat /\ d.landing < 65536
               /\ d.control \in 0 .. 255
PostPorts(m) == /\ IsFiniteSet(m.lpts) /\ Cardinality(m.lpts) <= 2
                /\ IsFiniteSet(m.coms) /\ Cardinality(m.coms) <= 4
PostMachine(m) == /\ m.time \in Nat /\ m.time < 86400 /\ m.equipment \in 0 .. 255
                  /\ \A n \in {1, 2} : Post!IsDisk(m.disks[n]) => PostDisk(m.disks[n])
                  /\ m.stale \in [0 .. 15 -> 0 .. 255]
ASSUME PostAssumption == \A c \in Computers : PostMachine(Computer(c)) /\ PostPorts(Computer(c))

Some(S) == CHOOSE x \in S : TRUE

\* What is not exercised is as it is after POST, on one machine.
BiosInit(parts) ==
    /\ part \in parts
    /\ Input!InputInit(IF part = "input" THEN Works ELSE {Some(Works)})
    /\ Disk!DiskInit     /\ (part = "disk" \/ machine = Some(Machines))
    /\ Floppy!FloppyInit /\ (part = "floppy" \/ (types = Some(FloppyTypes) /\ fdc.doing = "idle"))
    /\ Time!TimeInit     /\ (part = "time" \/ menu = Some(TimeMenus))
    /\ Ports!PortsInit
    /\ Boot!BootInit     /\ (part = "boot" \/ board = Some(Boards))
    /\ Memory!MemoryInit /\ (part = "memory" \/ (cmos = Some(Memories) /\ a20))
    /\ Post!PostInit     /\ (part = "post" \/ computer = Some(Computers))

BiosNext ==
    /\ \/ part = "input"  /\ Input!InputNext   /\ UNCHANGED <<diskV, floppyV, timeV, portV, bootV, memoryV, postV>>
       \/ part = "disk"   /\ Disk!DiskNext     /\ UNCHANGED <<inputV, floppyV, timeV, portV, bootV, memoryV, postV>>
       \/ part = "floppy" /\ Floppy!FloppyNext /\ UNCHANGED <<inputV, diskV, timeV, portV, bootV, memoryV, postV>>
       \/ part = "time"   /\ Time!TimeNext     /\ UNCHANGED <<inputV, diskV, floppyV, portV, bootV, memoryV, postV>>
       \/ part = "ports"  /\ Ports!PortsNext   /\ UNCHANGED <<inputV, diskV, floppyV, timeV, bootV, memoryV, postV>>
       \/ part = "boot"   /\ Boot!BootNext     /\ UNCHANGED <<inputV, diskV, floppyV, timeV, portV, memoryV, postV>>
       \/ part = "memory" /\ Memory!MemoryNext /\ UNCHANGED <<inputV, diskV, floppyV, timeV, portV, bootV, postV>>
       \/ part = "post"   /\ Post!PostNext     /\ UNCHANGED <<inputV, diskV, floppyV, timeV, portV, bootV, memoryV>>
    /\ UNCHANGED part

Spec == BiosInit(Parts) /\ [][BiosNext]_biosVars

-----------------------------------------------------------------------------
(* Properties *)

\* The key buffer, used by an interrupt handler and the service it
\* interrupts, is the queue of keys that INT 16h promises (KeyQueue).
IsKeyQueue == Input!IsKeyQueue

\* Once all keys are up no shift flag of the data area says that one is down,
\* nor any other flag unless a modifier's code came behind a prefix left by a
\* key without a code, and the mouse handler is given whole packets.
InputExact == [][Input!NothingStuck /\ Input!HandlerExact]_biosVars

\* INT 13h moves the sectors asked for between the drive and the addresses
\* asked for, within the geometry it reports, each drive has one number, and a
\* CD-ROM is let go as often as it was locked.
DiskExact ==
    [][Disk!GeometryOnDisk /\ Disk!TransferExact /\ Disk!EachDriveOnce /\ Disk!LocksHold]_biosVars

\* A diskette transfer said to be done is the one asked for, whatever
\* interrupts of earlier commands came in between, and a motor that runs
\* will be stopped.
FloppyExact == Floppy!OwnResult /\ Floppy!MotorTimed

\* The clock counts every tick, a delay is not too short, and a wait interval
\* keeps its periodic interrupt and does not end early.
TimeKept == Time!ClockExact /\ Time!DelayElapsed /\ Time!IntervalKept

\* Characters said to be sent or printed are, in order.
PortsExact == Ports!SentInOrder /\ Ports!PrintedTaken

\* ROMs are initialised once, devices tried in the order set up, systems
\* resumed no more often than they asked; and the tables they find describe the
\* machine.
BootExact == /\ Boot!RomsInitialised /\ Boot!BootsInOrder /\ Boot!ResumedAsAsked
             /\ Post!IrqsEnded /\ Post!ClockSet /\ Post!EquipmentCounts /\ Post!DiskTables

\* What the services say of memory agrees, and blocks go where asked.
MemoryExact == Memory!MapAgrees /\ Memory!MovedAsAsked
=============================================================================
