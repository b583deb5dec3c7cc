-------------------------------- MODULE BiosDisk --------------------------------
(***************************************************************************)
(* Disk services of the system BIOS (src/sw/sysbios): the ATA/ATAPI driver *)
(* and INT 13h for hard disks, CD-ROMs and the disk a bootable CD stands   *)
(* for.  Data are numbers of sectors, or of half kilobytes of a CD; a      *)
(* drive may fail at any point of a command.                               *)
(***************************************************************************)
EXTENDS Integers, Sequences

CONSTANTS
    Machines,
    Bench(_)    \* the drives of each, and the calls its programs make

VARIABLES
    machine,    \* which of them it is
    ata,        \* what ata_detect found: devices, hdidmap, cdidmap, hdcount
    locks,      \* times each CD-ROM is locked
    cdemu,      \* the emulation of a disk by a CD
    floppies,   \* the equipment word's count of diskette drives
    status,     \* 0040:0074
    xfer,       \* the command in progress at a drive
    reply       \* the last call and what it answered

diskVars == <<machine, ata, locks, cdemu, floppies, status, xfer, reply>>

bench == Bench(machine)

MaxDevices == 8
Devices == 0 .. MaxDevices - 1
NoDevice == MaxDevices
Least(a, b) == IF a < b THEN a ELSE b

-----------------------------------------------------------------------------
\* Geometry: the logical one a translation makes of the physical one.
Cut(cylinders) == Least(cylinders, 1024)

\* Halve the cylinders and double the heads, until the cylinders fit or the
\* heads are at their limit.  Six times are enough for a word of cylinders.
Halved(g, k) == [c |-> g.c \div 2 ^ k, h |-> g.h * 2 ^ k]
Settled(g, k) == Halved(g, k).c <= 1024 \/ (k > 0 /\ Halved(g, k).h > 127)
large(g) == Halved(g, CHOOSE k \in 0 .. 6 : Settled(g, k) /\ \A i \in 0 .. k - 1 : ~Settled(g, i))

LbaHeads(tracks) ==
    LET h == (tracks \div 1024) % 65536
    IN  IF h > 128 THEN 255 ELSE IF h > 64 THEN 128 ELSE IF h > 32 THEN 64 ELSE IF h > 16 THEN 32 ELSE 16

rechs(p) == IF p.h = 16 THEN [c |-> (Least(p.c, 61439) * 16) \div 15, h |-> 15] ELSE [c |-> p.c, h |-> p.h]

Lchs(translation, p, size) ==
    LET of(g) == [c |-> Cut(large(g).c), h |-> large(g).h, s |-> p.s]
        heads == LbaHeads(size \div 63)
    IN  CASE translation = "none"  -> [c |-> Cut(p.c), h |-> p.h, s |-> p.s]
          [] translation = "lba"   -> [c |-> Cut(((size \div 63) \div heads) % 65536), h |-> heads, s |-> 63]
          [] translation = "large" -> of([c |-> p.c, h |-> p.h])
          [] translation = "rechs" -> of(rechs(p))

-----------------------------------------------------------------------------
\* POST: a device is what its signature says it is.
Absent == [type |-> "none"]

ata_init ==
    [found |-> [d \in Devices |-> Absent], hdidmap |-> [n \in Devices |-> NoDevice],
     cdidmap |-> [n \in Devices |-> NoDevice], hdcount |-> 0, cdcount |-> 0, next |-> 0]

DetectDisk(d, unit) ==
    ata' = [ata EXCEPT !.found[d] = [type |-> "ata", pchs |-> unit.pchs, size |-> unit.size,
                                     lchs |-> Lchs(unit.translation, unit.pchs, unit.size)],
                       !.hdidmap[ata.hdcount] = d, !.hdcount = @ + 1, !.next = @ + 1]

DetectPacket(d, unit) ==
    ata' = [ata EXCEPT !.found[d] = [type |-> "atapi", cdrom |-> unit.cdrom],
                       !.cdidmap[ata.cdcount] = d, !.cdcount = @ + 1, !.next = @ + 1]

ata_detect ==
    /\ ata.next \in Devices
    /\ LET unit == bench.units[ata.next]
       IN  CASE unit.kind = "ata"     -> DetectDisk(ata.next, unit)
             [] unit.kind = "atapi"   -> DetectPacket(ata.next, unit)
             [] unit.kind = "unknown" -> ata' = [ata EXCEPT !.found[ata.next] = [type |-> "unknown"], !.next = @ + 1]
             [] unit.kind = "none"    -> ata' = [ata EXCEPT !.next = @ + 1]
    /\ UNCHANGED <<machine, locks, cdemu, floppies, status, xfer, reply>>

Ready == ata.next = MaxDevices
atapi_is_cdrom(d) == d \in Devices /\ ata.found[d].type = "atapi" /\ ata.found[d].cdrom

-----------------------------------------------------------------------------
\* ata_cmd_data_io.  What it writes to the registers: sector 0 asks for LBA,
\* and a block or a count beyond 28 and 8 bits for the EXT form of the command.
Extended(count, low) == count \div 256 >= 1 \/ low >= 2 ^ 28 - count

TaskFile(count, cylinder, head, sector, low) ==
    LET form == IF sector # 0 THEN "chs" ELSE IF Extended(count, low) THEN "ext" ELSE "lba"
        n == IF form = "ext" THEN count % 256 ELSE count
        block == IF form = "ext" THEN low % 2 ^ 24 ELSE low
    IN  IF sector = 0
        THEN [form |-> form, high |-> <<count \div 256, low \div 2 ^ 24>>, loop |-> n,
              sc |-> n % 256, sn |-> block % 256, cyl |-> (block \div 256) % 65536, dh |-> (block \div 2 ^ 24) % 16]
        ELSE [form |-> form, high |-> <<0, 0>>, loop |-> count,
              sc |-> count % 256, sn |-> sector, cyl |-> cylinder, dh |-> head]

\* What the drive makes of them.
OrAll(n, all) == IF n = 0 THEN all ELSE n
Sectors(r) == IF r.form = "ext" THEN OrAll(r.high[1] * 256 + r.sc, 65536) ELSE OrAll(r.sc, 256)
Block(r, p) == CASE r.form = "ext" -> r.high[2] * 2 ^ 24 + r.cyl * 256 + r.sn
                 [] r.form = "lba" -> r.dh * 2 ^ 24 + r.cyl * 256 + r.sn
                 [] r.form = "chs" -> (r.cyl * p.h + r.dh) * p.s + r.sn - 1

NoXfer == [pc |-> "idle"]
Halted == [pc |-> "halted"]     \* BX_PANIC
\* The call, the drive's side of the command (left) and the program's (loop).
Command(call, d, r, write) ==
    [pc |-> "start", call |-> call, dev |-> d, write |-> write, first |-> Block(r, ata.found[d].pchs),
     left |-> Sectors(r), loop |-> r.loop, moved |-> 0, seg |-> call.seg, off |-> call.off, at |-> <<>>]

\* Near the end of its segment the buffer is given a later one.
Adjusted(x) == IF x.off > 63488 THEN [x EXCEPT !.off = @ - 2048, !.seg = @ + 128] ELSE x
Linear(seg, off) == seg * 16 + off

-----------------------------------------------------------------------------
\* Answers: int13_fail, int13_fail_noah, int13_success, int13_success_noah.
NoReply == [call |-> [ah |-> 0, dl |-> 0], cf |-> FALSE, ah |-> 0, n |-> 0, got |-> <<>>]
Says(call, cf, ah, stored) == /\ reply' = [NoReply EXCEPT !.call = call, !.cf = cf, !.ah = ah]
                              /\ status' = stored
Fails(call, code) == Says(call, TRUE, code, code)
Succeeds(call, ah) == Says(call, FALSE, ah, 0)
\* AH=01h: the status is told once.
TellsStatus(call, s) == Says(call, s # 0, s, 0)
SameDisks == UNCHANGED <<machine, ata, locks, cdemu, floppies>>

\* int13_harddisk.  Addresses are logical; one that is physical too goes to
\* the drive as it is.
Cylinder(call) == call.c
InGeometry(call, g) == call.c < g.c /\ call.h < g.h /\ call.s <= g.s
Parameters(call, g) == call.n \in 1 .. 128 /\ call.s # 0 /\ InGeometry(call, g)

Translated(p, l) == p.h # l.h \/ p.s # l.s
LogicalBlock(call, l) == (call.c * l.h + call.h) * l.s + call.s - 1

HardDisk02(call, d) ==
    LET l == ata.found[d].lchs
        p == ata.found[d].pchs
    IN  IF ~Parameters(call, l) THEN Fails(call, 1) /\ UNCHANGED xfer
        ELSE IF call.ah = 4 THEN Succeeds(call, 0) /\ UNCHANGED xfer
        ELSE /\ xfer' = Command(call, d, IF Translated(p, l) THEN TaskFile(call.n, call.c, call.h, 0, LogicalBlock(call, l))
                                         ELSE TaskFile(call.n, call.c, call.h, call.s, 0), call.ah = 3)
             /\ reply' = NoReply /\ UNCHANGED status

HardDisk42(call, d) ==
    IF call.high > 0 \/ call.lba >= ata.found[d].size THEN Fails(call, 1) /\ UNCHANGED xfer
    ELSE IF call.ah \in {68, 71} THEN Succeeds(call, 0) /\ UNCHANGED xfer
    ELSE /\ xfer' = Command(call, d, TaskFile(call.n, 0, 0, 0, call.lba), call.ah = 67)
         /\ reply' = NoReply /\ UNCHANGED status

int13_edd(call) == IF call.size < 26 THEN Fails(call, 1) ELSE Succeeds(call, 0)
SetConfiguration(call) == IF call.al \in {1, 3, 4, 6} THEN Succeeds(call, 0) ELSE Fails(call, 1)

\* What is told of a drive; ready or not it says itself.
DriveFacts(call) ==
    CASE call.ah = 5  -> Succeeds(call, 0)
      [] call.ah = 8  -> reply' = [NoReply EXCEPT !.call = call, !.n = ata.hdcount] /\ status' = 0
      [] call.ah = 16 -> Succeeds(call, 0) \/ Fails(call, 170)
      [] call.ah = 21 -> Succeeds(call, 3)
      [] call.ah = 65 -> Succeeds(call, 48)

int13_harddisk(call, dl) ==
    LET d == IF dl \in 128 .. 127 + MaxDevices THEN ata.hdidmap[dl - 128] ELSE NoDevice
    IN  IF d = NoDevice THEN Fails(call, 1) /\ UNCHANGED xfer
        ELSE CASE call.ah \in {2, 3, 4} -> HardDisk02(call, d)
               [] call.ah \in {66, 67, 68, 71} -> HardDisk42(call, d)
               [] call.ah = 1 -> TellsStatus(call, status) /\ UNCHANGED xfer
               [] call.ah \in {5, 8, 16, 21, 65} -> DriveFacts(call) /\ UNCHANGED xfer
               [] call.ah = 70 -> Fails(call, 178) /\ UNCHANGED xfer
               [] call.ah = 72 -> int13_edd(call) /\ UNCHANGED xfer
               [] call.ah = 78 -> SetConfiguration(call) /\ UNCHANGED xfer
               [] call.ah \in {0, 9, 12, 13, 17, 20, 69, 73} -> Succeeds(call, 0) /\ UNCHANGED xfer
               [] OTHER -> Fails(call, 1) /\ UNCHANGED xfer

-----------------------------------------------------------------------------
\* A packet command: header units are skipped, length units go to the buffer.
Packet(call, d, block, blocks, header, length) ==
    [pc |-> "packet", call |-> call, dev |-> d, first |-> 4 * block, left |-> 4 * blocks, pos |-> 0,
     header |-> header, length |-> length, moved |-> 0, seg |-> call.seg, off |-> call.off, at |-> <<>>, from |-> 0]

\* int13_cdrom.  The status is cleared before the function is looked at.
\* A bug: the count of locks is a byte, and nobody looks whether it is full.
Lock_Wraps(call, d) ==
    /\ locks' = [locks EXCEPT ![d] = IF call.al = 0 THEN (@ + 1) % 256 ELSE IF call.al = 1 /\ @ > 0 THEN @ - 1 ELSE @]
    /\ Succeeds(call, 0)

Lock(call, d) ==
    CASE call.al = 0 -> IF locks[d] = 255 THEN Fails(call, 180) /\ UNCHANGED locks
                        ELSE locks' = [locks EXCEPT ![d] = @ + 1] /\ Succeeds(call, 0)
      [] call.al = 1 -> IF locks[d] = 0 THEN Fails(call, 176) /\ UNCHANGED locks
                        ELSE locks' = [locks EXCEPT ![d] = @ - 1] /\ Succeeds(call, 0)
      [] call.al = 2 -> Succeeds(call, 0) /\ UNCHANGED locks
      [] OTHER -> Fails(call, 1) /\ UNCHANGED locks

Eject(call, d) == IF locks[d] # 0 THEN Fails(call, 177) ELSE Succeeds(call, 0) \/ Fails(call, 177)

int13_cdrom(call, dl) ==
    LET d == IF dl \in 224 .. 223 + MaxDevices THEN ata.cdidmap[dl - 224] ELSE NoDevice
    IN  IF d = NoDevice THEN Fails(call, 1) /\ UNCHANGED <<xfer, locks>>
        ELSE IF call.ah \in {66, 68, 71} /\ call.high > 0
        THEN xfer' = Halted /\ status' = 0 /\ reply' = NoReply /\ UNCHANGED locks
        ELSE IF call.ah = 66
        THEN xfer' = Packet(call, d, call.lba, call.n, 0, 4 * call.n) /\ status' = 0 /\ reply' = NoReply /\ UNCHANGED locks
        ELSE IF call.ah = 69 THEN Lock(call, d) /\ UNCHANGED xfer
        ELSE /\ UNCHANGED <<xfer, locks>>
             /\ CASE call.ah \in {0, 9, 12, 13, 16, 17, 20, 22, 68, 71} -> Succeeds(call, 0)
                  [] call.ah \in {3, 5, 67} -> Fails(call, 3)
                  [] call.ah = 1 -> TellsStatus(call, 0)
                  [] call.ah = 21 -> Fails(call, 2)
                  [] call.ah = 65 -> Succeeds(call, 48)
                  [] call.ah = 70 -> Eject(call, d)
                  [] call.ah = 72 -> int13_edd(call)
                  [] call.ah = 73 -> Says(call, TRUE, 6, 0)
                  [] call.ah = 78 -> SetConfiguration(call)
                  [] OTHER -> Fails(call, 1)

-----------------------------------------------------------------------------
\* cdrom_boot, as far as it gets: the disc's first boot entry is emulated.
MediaGeometry(media, image) ==
    CASE media = 1 -> [c |-> 80, h |-> 2, s |-> 15] [] media = 2 -> [c |-> 80, h |-> 2, s |-> 18]
      [] media = 3 -> [c |-> 80, h |-> 2, s |-> 36] [] OTHER -> image

EmulatedDrive(media) == IF media = 0 THEN 224 ELSE IF media < 4 THEN 0 ELSE 128
NoCdemu == [active |-> FALSE, drive |-> 0, dev |-> NoDevice, media |-> 0, ilba |-> 0, geometry |-> [c |-> 0, h |-> 0, s |-> 0]]

FirstCdrom == IF \E d \in Devices : atapi_is_cdrom(d)
              THEN CHOOSE d \in Devices : atapi_is_cdrom(d) /\ \A e \in Devices : atapi_is_cdrom(e) => d <= e
              ELSE NoDevice

Booted(d, disc) == [active |-> disc.media # 0, drive |-> EmulatedDrive(disc.media), dev |-> d, media |-> disc.media,
                    ilba |-> disc.ilba, geometry |-> MediaGeometry(disc.media, disc.geometry)]

\* One that is not bootable, or whose image cannot be read, leaves everything
\* as it was, or the entry in place and the emulation off.
cdrom_boot ==
    /\ Ready /\ xfer = NoXfer /\ cdemu = NoCdemu /\ bench.boots
    /\ LET d == FirstCdrom
           disc == bench.units[d].disc
       IN  /\ d # NoDevice /\ disc.bootable
           /\ \/ /\ cdemu' = Booted(d, disc)
                 /\ floppies' = IF disc.media \in 1 .. 3 THEN 2 ELSE floppies
                 /\ ata' = IF disc.media > 3 THEN [ata EXCEPT !.hdcount = @ + 1] ELSE ata
              \/ /\ cdemu' = [Booted(d, disc) EXCEPT !.active = FALSE, !.geometry = NoCdemu.geometry]
                 /\ UNCHANGED <<floppies, ata>>
    /\ UNCHANGED <<machine, locks, status, xfer, reply>>

\* int13_eltorito: the emulation ends; the other functions are a panic.
int13_eltorito(call) ==
    IF call.ah = 75
    THEN /\ Succeeds(call, 0) /\ UNCHANGED xfer
         /\ cdemu' = IF call.al = 0 THEN [cdemu EXCEPT !.active = FALSE] ELSE cdemu
    ELSE xfer' = Halted /\ UNCHANGED <<cdemu, status, reply>>

\* int13_cdemu: sectors of half a kilobyte, four to a block of the CD.  Sector 0,
\* which is not refused, wraps as a word.
Virtual(call) == (call.c * cdemu.geometry.h + call.h) * cdemu.geometry.s + ((call.s - 1) % 65536)

\* A bug: that the first sector may be inside a block is not seen.
Blocks_Short(v, n) == (n + 3) \div 4

Blocks(v, n) == ((v + n - 1) \div 4) - (v \div 4) + 1

int13_cdemu(call) ==
    IF call.ah \in {2, 4} /\ call.n # 0 /\ ~InGeometry(call, cdemu.geometry) THEN Fails(call, 1) /\ UNCHANGED xfer
    ELSE IF call.ah = 2 /\ call.n # 0
    THEN /\ xfer' = Packet(call, cdemu.dev, cdemu.ilba + Virtual(call) \div 4, Blocks(Virtual(call), call.n),
                           Virtual(call) % 4, call.n)
         /\ status' = 0 /\ reply' = NoReply
    ELSE /\ UNCHANGED xfer
         /\ CASE call.ah \in {0, 2, 4, 8, 9, 12, 13, 16, 17, 20, 22} -> Succeeds(call, 0)
              [] call.ah \in {3, 5} -> Fails(call, 3)
              [] call.ah = 1 -> TellsStatus(call, 0)
              [] call.ah = 21 -> Succeeds(call, 3)
              [] OTHER -> Fails(call, 1)

\* int13_relocated.  While a CD stands for drive 00h or 80h, the real drives
\* of that class are numbered from the next one on.
Class(dl) == (dl \div 32) * 32

RealDrive(dl) == IF cdemu.active /\ dl # cdemu.drive /\ Class(dl) = cdemu.drive THEN dl - 1 ELSE dl

\* Diskettes are another module's; here their calls only come and go.
int13_diskette(call) == Succeeds(call, 0) \/ Fails(call, 1)

Int13 ==
    /\ Ready /\ xfer = NoXfer /\ reply = NoReply
    /\ \E call \in bench.calls :
           LET dl == RealDrive(call.dl)
           IN  IF call.ah \in 74 .. 77
               THEN int13_eltorito(call) /\ UNCHANGED <<machine, ata, locks, floppies>>
               ELSE IF cdemu.active /\ call.dl = cdemu.drive THEN int13_cdemu(call) /\ SameDisks
               ELSE IF dl < 128 THEN int13_diskette(call) /\ SameDisks /\ UNCHANGED xfer
               ELSE IF dl < 224 THEN int13_harddisk(call, dl) /\ SameDisks
               ELSE int13_cdrom(call, dl) /\ UNCHANGED <<machine, ata, cdemu, floppies>>

\* The program takes what the call answered.
Taken == reply # NoReply /\ reply' = NoReply /\ UNCHANGED <<machine, ata, locks, cdemu, floppies, status, xfer>>

-----------------------------------------------------------------------------
\* The drive's side.  A command may fail at its start, or after any sector.
Told(x, code) == IF "loop" \in DOMAIN x THEN x.moved % 256
                 ELSE IF x.call.ah = 66 THEN x.moved \div 4 ELSE IF code = 0 THEN x.call.n ELSE 0
Ended(x, code, ah) ==
    /\ reply' = [call |-> x.call, cf |-> code # 0, ah |-> IF code # 0 THEN ah ELSE 0, n |-> Told(x, code),
                 got |-> [x EXCEPT !.pc = "over"]]
    /\ status' = (IF code # 0 THEN ah ELSE 0)
    /\ xfer' = NoXfer

AtaStarts ==
    /\ xfer.pc = "start"
    /\ \/ xfer' = [xfer EXCEPT !.pc = "sector"] /\ UNCHANGED <<reply, status>>
       \/ \E code \in {1, 2, 3} : Ended(xfer, code, 12)      \* busy, error, no DRQ
    /\ SameDisks

\* A sector at its place in memory.  The drive asks for the next as long as
\* sectors are left; whoever disagrees makes the command fail.
AfterSector(x) ==
    LET y == Adjusted(x)
    IN  [y EXCEPT !.off = (@ + 512) % 65536, !.at = <<Linear(y.seg, y.off) + 512>>,
                  !.moved = @ + 1, !.left = @ - 1, !.loop = (@ - 1) % 65536]

Whole(x) == x.loop = 0

AtaSector ==
    /\ xfer.pc = "sector"
    /\ LET x == AfterSector(xfer)
           more == x.left > 0
       IN  \/ /\ IF Whole(x) THEN Ended(x, IF more THEN 4 ELSE 0, 12)
                 ELSE IF more THEN xfer' = x /\ UNCHANGED <<reply, status>>
                 ELSE Ended(x, 5, 12)
           \/ Ended(x, IF Whole(x) THEN 4 ELSE 5, 12)
    /\ SameDisks

\* A packet's data come in chunks the drive chooses.
AfterChunk(x, k) ==
    LET before == Least(x.header, k)
        count == Least(k - before, x.length)
    IN  [x EXCEPT !.pos = @ + k, !.left = @ - k, !.header = @ - before, !.length = @ - count,
                  !.moved = @ + count, !.from = IF x.moved = 0 THEN x.pos + before ELSE @,
                  !.at = IF count > 0 THEN <<x.pos + before + count>> ELSE @]

PacketError(x) == IF x.call.ah = 66 THEN 12 ELSE 2
AtapiChunk ==
    /\ xfer.pc = "packet" /\ xfer.left > 0
    /\ \/ \E k \in bench.chunks : xfer' = AfterChunk(xfer, Least(k, xfer.left)) /\ UNCHANGED <<reply, status>>
       \/ Ended(xfer, 3, PacketError(xfer))
    /\ SameDisks

\* The final status may say error or fault yet.
AtapiEnds ==
    /\ xfer.pc = "packet" /\ xfer.left = 0
    /\ Ended(xfer, 0, 0) \/ Ended(xfer, 4, PacketError(xfer))
    /\ SameDisks

-----------------------------------------------------------------------------
DiskInit ==
    /\ machine \in Machines
    /\ ata = ata_init /\ locks = [d \in Devices |-> 0] /\ cdemu = NoCdemu /\ floppies = 1
    /\ status = 0 /\ xfer = NoXfer /\ reply = NoReply

DiskNext == ata_detect \/ cdrom_boot \/ Int13 \/ Taken \/ AtaStarts \/ AtaSector \/ AtapiChunk \/ AtapiEnds

-----------------------------------------------------------------------------
(* Properties *)

\* A logical geometry fits the bytes INT 13h has for it, and every address in
\* it is a sector of the disk.
GeometryOnDisk ==
    \A d \in Devices : ata.found[d].type = "ata" =>
        LET g == ata.found[d].lchs
        IN  /\ 0 < g.c /\ g.c <= 1024 /\ 0 < g.h /\ g.h <= 255 /\ 0 < g.s /\ g.s <= 63
            /\ g.c * g.h * g.s <= ata.found[d].size

\* A transfer that succeeded moved the sectors that were asked for, all of
\* them, from or to one stretch of memory; one that failed says how many.
Asked(r) ==
    LET c == r.call
    IN  IF c.ah \in {66, 67} THEN c.lba
        ELSE LogicalBlock(c, ata.found[r.got.dev].lchs)
Moved(r) ==
    IF "loop" \in DOMAIN r.got
    THEN /\ r.got.first = Asked(r)
         /\ r.n = r.got.moved
         /\ r.got.at # <<>> => r.got.at[1] = Linear(r.call.seg, r.call.off) + 512 * r.got.moved
         /\ ~r.cf => r.got.moved = r.call.n /\ r.got.left = 0
    ELSE /\ r.got.at # <<>> => r.got.at[1] = r.got.from + r.got.moved
         /\ ~r.cf => /\ r.got.moved = IF r.call.ah = 66 THEN 4 * r.call.n ELSE r.call.n
                     /\ r.got.first + r.got.from =
                            IF r.call.ah = 66 THEN 4 * r.call.lba ELSE 4 * cdemu.ilba + Virtual(r.call)
TransferExact == reply.got # <<>> => Moved(reply)

\* Whatever a CD emulates, every hard disk and CD-ROM is reached by one drive
\* number and one only.
Target(dl) ==
    IF cdemu.active /\ dl = cdemu.drive THEN NoDevice
    ELSE IF RealDrive(dl) \in 128 .. 127 + MaxDevices THEN ata.hdidmap[RealDrive(dl) - 128]
    ELSE IF RealDrive(dl) \in 224 .. 223 + MaxDevices THEN ata.cdidmap[RealDrive(dl) - 224]
    ELSE NoDevice
Numbers == (128 .. 128 + MaxDevices) \cup (224 .. 224 + MaxDevices)
EachDriveOnce ==
    Ready => LET target == [dl \in Numbers |-> Target(dl)]
             IN  \A d \in {e \in Devices : ata.found[e].type \in {"ata", "atapi"}} :
                     \E n \in Numbers : {dl \in Numbers : target[dl] = d} = {n}

\* A lock taken holds: no call but an unlock makes the number of locks of a
\* CD-ROM smaller, however many are taken.
LocksHold ==
    \A d \in Devices : locks'[d] < locks[d] => reply'.call.ah = 69 /\ reply'.call.al = 1
=============================================================================
