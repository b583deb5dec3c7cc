# PC110 MiSTer core: formal models

TLA+ models of `src/`, a MiSTer FPGA core of the IBM PC110: its hardware
description, the system BIOS and video BIOS it is built with, and the DOS driver of
its shared folder. TLC configurations check the models, TLAPS proofs establish
some of the properties for every size. `PROJECT.json` lists runs, mutants, theorems,
hazards and, under `map`, the source lines of every definition.

    cd tla
    tlc -workers 2 -config L2.cfg MC_L2Cache.tla     # any row of the table of runs
    tlapm L2Cache_proofs.tla

## 1. The system

The hardware is Verilog and SystemVerilog, mostly one clock domain (`clk_sys`). A
"process" is a clocked `always` block; all of them step together on each clock, and
what one writes the others see on the next. So the interleavings that matter there
are not of threads but of requests, beats, key presses and resets that arrive at any
clock, relative to state machines that take several clocks. `docs/ARCHITECTURE.md`
tells what is whose: the processor (`rtl/ao486`) and the synthesisers are
third-party, the PC parts (`rtl/cache`, `rtl/common`, `rtl/soc`) are reused and
changed, and `PC110.sv` and `rtl/pc110` are the project's own.

The software is real-mode C (`sw/sysbios/rombios.c`, `sw/vgabios/vgabios.c`,
`sw/MiSTerFS/MiSTerFS.C`). One processor runs it, so its interleavings are those of
a service with the interrupt handlers that share its memory and its device
ports, and of the driver with the host on the other side of the shared window.

### Components, their state, and what makes them correct

Hardware:

| Component | Source | State | Operations | Correct when |
|---|---|---|---|---|
| L2 cache | `rtl/cache/l2_cache.v` | tags, invalid bits (`dirtyram`), ages, data RAM, the request in progress | read burst, write, fill from DDR, tag sweep, reset; the host writes a window of the memory behind it | it is a memory: no stale, misplaced or lost word; every burst ends |
| Address decode | same file, 233–320; `rtl/pc110/pc110_ram_config.sv` | none of its own: ROMSET, RAMCFG0, shadow registers, port 98h, font window, memory size | a processor address to a DDR address, or none | RAM, flash, font ROM and open bus are where the BIOS expects them |
| Processor memory bus | `rtl/ao486/memory/avalon_mem.v`, `link_dcache*.v` | state, beat counter, lanes, saved burst | write (1–4 bytes), read (1–8), code fetch, DMA read and write, processor reset | no request lost or taken twice, bytes in their lanes, each answer to its asker |
| DMA controllers | `rtl/soc/dma.v` | per channel: address, count, mode, state; per controller: mask, pending, terminal count, flip-flop | 16 registers each, page registers, device requests | one channel at a time, at its address, when asked, up to its count |
| Interrupt controllers | `rtl/soc/pic.v` | request, service, mask, initialisation, priority | commands, requests, acknowledge | the right vector, nothing answered twice, every held request served |
| PS/2 controller | `rtl/soc/ps2.v`, `rtl/common/simple_fifo.v` | output and input buffer flags, command byte, two FIFOs, two responders, two serial ports | ports 60h, 64h, 92h; keys and mouse bytes; injected F1 | answers aligned with their commands, interrupts with bytes, nothing dropped |
| I/O bus | `rtl/soc/iobus.v` | state, address, bytes left | an access of 1–4 ports as byte accesses, three clocks each | devices see every byte once |
| Chipset registers | `rtl/pc110/pc110_chipset.sv` | gates, EC/ED registers, port 98h, font window, printer, card controller, POST checkpoint | about 40 ports | gates open by their sequences only; status with a read side effect is seen once; reset state |
| Setup entry, resets | `src/PC110.sv` 860–925, `rtl/system.v` 225–330 | request and reset counters | menu: setup, reset, memory module; F1; the BIOS reads CMOS 7Bh | a setup request reaches the BIOS once |
| Clock and CMOS | `rtl/soc/rtc.v` | 128 bytes, calendar, alarm, flags, checksum | 70h/71h, the second tick, the host's initial values | consistent reads of the time, flags not lost |
| VGA adapter's ports | `rtl/soc/vga.v` | sequencer, graphics, attribute and CRT registers and their indices, the flip-flop, the DAC | ports 3C0h–3DAh | see the video BIOS |
| IDE, floppy controller, timer, sound, UART, joystick | `rtl/soc/*` | — | — | see section 5 |
| Code cache, prefetch, TLB, processor | `rtl/cache/l1_icache.v`, `rtl/ao486/**` | — | — | see section 5 |

Software:

| Component | Source | State | Operations | Correct when |
|---|---|---|---|---|
| Keyboard and mouse services | `rombios.c`: INT 9h, 16h, 74h, INT 15h C2h | shift flags, key buffer, LEDs; in the EBDA the mouse's packet and handler | keys, key services, mouse commands and packets | the buffer is a queue; no shift flag sticks; the handler is given whole packets |
| Disks and CD-ROM | INT 13h, `ata_*`, `cdrom_*`, `cdemu` | the table of devices, geometries and translations, lock counts, the emulation | detection, all functions of hard disk, CD-ROM and emulated drive, El Torito | the sectors asked for are moved, within the geometry reported; locks are undone |
| Diskettes | INT 13h (`int13_diskette_function`), INT 0Eh | motor count, recalibration and interrupt flags, status and media state | all functions; the motor's timeout | a transfer said to be done is the one asked for; motors stop |
| Clock and timers | INT 8h, 1Ah, 70h, 15h 83h/86h | tick count and midnight flag, the interval's counter, pointer and flag | reading and setting the clocks, waits, alarm | no tick or day lost, no wait too short |
| Serial and parallel ports | INT 14h, 17h | port addresses and timeouts | initialise, send, receive, status, print | what is said to be sent was sent, in order |
| POST and boot | `post`, `rom_scan`, INT 18h/19h, `ipl` | shutdown byte, vectors, equipment word, disk tables, boot order | resets of every kind, ROM scan, boot | ROMs called once, devices in order; tables describe the machine |
| Memory services | INT 12h, 15h 24h/87h/88h/89h/E8xxh | none; CMOS sizes, A20 | sizes, the memory map, block moves | all services tell of one memory; blocks go where asked |
| Video BIOS | `vgabios.c` | modes, pages, cursors, fonts in the data area; the adapter's registers and memory | INT 10h | the screen is the matrix of cells asked for, the active page is in sight, registers hold what was asked, saved states come back |
| Shared-folder driver | `MiSTerFS.C` | the mark of the last query, DOS's file tables and directory structures, search tokens | the redirector's calls, installing, unloading | data and searches exact, every call comes back, the chain of INT 2Fh whole |

### How they interact

    processor ──┬─ memory request ─> avalon_mem ─┬─> decode ─> L2 cache ─> DDR  <─ host window
                │                        ^       
                │                DMA ────┘ <── request lines ── floppy, sound
                └─ I/O ─> iobus ─> chipset, PS/2, DMA, RTC, PIC, IDE ...
    menu ─> setup request, resets, memory module      chipset ─> decode (registers that steer it)
    host (HPS) ─> IDE, floppy, CMOS initial values, keyboard bytes
    devices ─> request lines ─> PIC ─> processor ─> interrupt handlers ─┐
    programs ─> INT services <── BIOS data area, EBDA, device ports ────┘
    DOS ─> INT 2Fh ─> MiSTerFS ─> shared window <─ host

In hardware calls are wires: a request held until it is accepted
(`CPU_RD`/`CPU_BUSY`), a one-clock strobe (`io_read_valid`, `ack`), a level sampled
later (`pending`), a clock-late register (`setup_ack`). Most of the hard behaviour
is a strobe that is used a clock after, or a clock before, somebody else changed
what it refers to. In software calls are interrupts, and shared state is a few bytes
at segment 40h, in the EBDA or behind a device's port.

### What is hard

* a clock of delay between looking and using: LRU pipeline, DMA `pending`,
  registers cleared on the strobe while the bus samples a clock after, the PIC's
  vector read a clock after the decision;
* a burst under way while something else happens: a host write, a processor reset,
  a DMA request, a mask write, a line boundary;
* resets of part of the system: the keyboard controller resets the processor but not
  the memory or the DMA; the menu's reset leaves the EC/ED register file as it was;
  a shutdown byte makes a reset the return from a program's own code;
* shared buffers: two PS/2 ports and three producers behind one output buffer;
* address rules whose order matters: two aliases, a fold, a window, an open frame;
* services that run with interrupts on: the key buffer, the tick count, the
  controller's bytes, the interval's counter change under them;
* devices that fail, fall silent or answer late: after a timeout the answer still
  comes, and is the next command's;
* sizes at their limits: sectors and blocks of different length, counts of 0 and
  128, translations, rows of a window cut to the screen, marks and tokens that wrap;
* state kept twice: data area and controller (page, cursor, start address; shift
  state; equipment), which must be changed together.

`hazards` in `PROJECT.json` lists them line by line, with the properties that cover
them or the reason why none does yet.

## 2. Modules

| Module | Models | Uses |
|---|---|---|
| `MemoryService` | the abstract memory: what the L2 cache promises the bus master | |
| `L2Cache`, `L2Cache_proofs` | the cache's state machine, clock by clock; proofs | implements `MemoryService` |
| `MemoryBus`, `MemoryBus_proofs` | `avalon_mem` with the processor's links and one DMA transfer; proofs | memory is `MemoryService` |
| `Dma`, `Dma_proofs` | both i8237 with page registers, every channel; proofs | |
| `Ps2`, `Ps2_proofs` | the 8042, responders, FIFOs, serial ports; proofs | |
| `IoBus` | the I/O bus | |
| `UpperMemory` | the address decode, as functions of an address and the board's state | |
| `Chipset` | the chipset registers on the bus | `IoBus`, `UpperMemory` |
| `Board`, `Board_proofs` | chipset, decode, setup entry, CMOS 7Bh and resets together; proofs | `Chipset` |
| `I8259` | one interrupt controller, as functions of its registers | |
| `Pic`, `Pic_proofs` | both in cascade, request lines, the processor's acknowledge, handlers; proofs | `I8259` |
| `KeyQueue` | the abstract key buffer: what INT 16h promises | |
| `BiosInput` | keys, key services, mouse services, the controller they share | implements `KeyQueue` |
| `BiosDisk` | detection, INT 13h for hard disks, CD-ROMs and emulated disks | |
| `BiosFloppy` | INT 13h for diskettes, INT 0Eh, motors | |
| `BiosTime` | the tick count, INT 1Ah, waits, the real-time clock's interrupt | |
| `BiosPorts` | INT 14h and INT 17h | |
| `BiosBoot` | shutdown codes, ROM scan, boot order, INT 18h and 19h | |
| `BiosPost` | the tables POST leaves | |
| `BiosMemory` | memory sizes, the map, block moves, A20 | |
| `Bios`, `Bios_proofs` | the parts above as one machine; proofs about all of them but the flags and packets of keyboard and mouse | all `Bios*` by `INSTANCE` |
| `VgaPorts` | the adapter's registers behind its ports | |
| `VgaModes` | the tables of modes and CRTC parameters | `VgaPorts` |
| `VgaBios` | modes, cursor, pages, palettes, fonts | `VgaModes` |
| `VgaState` | power-on, alternate functions, functionality table, save and restore | `VgaBios` |
| `VgaText` | scrolling, characters, pixels, teletype, strings | `VgaState` |
| `Vga` | INT 10h, called on one machine, and programs that use the ports themselves | `VgaText` |
| `VgaPromises` | what each service promises, said of cells and registers | `Vga` |
| `MiSTerFS`, `MiSTerFS_proofs` | the redirector's calls, the window and the host, the chain of INT 2Fh; proofs | |
| `MC_*` | constants of the small instances | |

### Conventions

In the hardware modules one step is one clock, of all the blocks the module models; a
`Clock` action is a conjunction of one operator per register group (`…Clock`), which
stands for its `always` block. `L2Cache` and `MemoryBus`, whose blocks are one state
machine with a few registers around it, have one action per branch of the state
machine. A variable holding a one-clock strobe and its data together is the set of
the data, `{}` while the strobe is low (`dout`, `LRU_in`).

In the software modules one step is what runs between two points where somebody else
can come in: where interrupts are on, or a device or the host is waited for, each access to
shared memory or to a port is a step of its own; a stretch with interrupts off, or
of memory nobody else touches, is one step. A service's place in the code is a
field `pc`.

Names are the source's. A definition `Name_Something`, marked *mutant*, is a
plausible bug put in the place of `Name` to show that a property would notice it.
Variables under "history" are not in the code: they record what the properties relate.
Devices as seen by software (the drive behind `BiosDisk`, the diskette controller
behind `BiosFloppy`, the clock chip behind `BiosTime`, the keyboard controller behind
`BiosInput`) and the host behind `MiSTerFS` are environments: they do what
the code that uses them expects of them, and fail or stay silent where it checks for that.

### L2Cache

An address is a line and a word; the data RAM's 64-bit width, byte enables and the
write port's one clock are folded (the header says why). Note that `dirty` marks a way
*invalid*, as in the code: the cache is write-through. `busy` is a choice of each
clock (the DDR controller), the controller itself (`ddr_*`) is the environment.
`Reset` may happen at any clock; it leaves the RAMs' contents, the read request in the DDR
port and the controller's read as they are, as the code does. The request is still taken
and its beats still come, unread, while `Start` sweeps the tags (`DdrUnheard`). The code
does not wait for the last of them; that they are over by the end of the sweep (128 sets,
so 128 clocks, for eight beats) is an assumption about the controller, the guard
`DdrQuiet` of `Accept`. `HostWrite` is the ARM side writing the shared window
behind the cache's back; reads there force a new fetch (`force_fetch`). `Mem(a)` is
the memory a program sees: DDR, with the word in the write port.

`MemoryService` has no cache: a memory, a burst with its next address, and the set
`seen` of values the next word has had since the burst came to it. A word returned
is one of `seen`; for words only the processor writes, `seen` has one element, so
this is exact; the set is there for a host write racing a read. `L2Cache` is
shown to implement it (`IsMemoryService`, a refinement mapping with `Mem`), by TLC and
by proof.

### MemoryBus

The links hold one write, one read and one code request; `avalon_mem`'s six states
take them in priority order. No data flow: a word read is known by the address it
came from, so that a misplaced lane shows. The DMA side is the part of `dma.v` that
talks to this bus, one transfer at a time (the whole controller is `Dma`). The
memory is `MemoryService`. `InReset` is a clock with `kbc_cpu_reset`: links and
`avalon_mem` are reset, DMA and memory carry on. A DMA read that the reset cuts short
never gets its word: `avalon_mem` has left `STATE_READ_DMA`, and the channel waits until
POST clears both controllers, its first act (`rombios.c:10660`). `orphaned` marks it, and
`NothingLost` says that there is no other way to wait for a word that does not come; it
says nothing for the interrupted transfer itself.

### Dma

A channel is `<<controller, number>>`. A 16-bit register is two bytes written
through the flip-flop; a byte has `Base` values. At most one I/O access each three
clocks (`io_gap`, from `iobus.v`). Request lines rise and fall as the devices do it
(`Devices`, external).

### Ps2

Port 64h commands, the command byte, both buffers, both FIFOs, the two responders
that answer device commands in hardware (`kr`, `mr`), interrupts, and the frames of
the serial ports as events: a port is idle, held off, receiving or at its stop bit.
`FIFO` depth, the F1 period and the reset pulse are constants. A FIFO takes one byte a
clock (`KeybGiven`, `MouseGiven`): a responder's before a reply, and that before the
device's, so a device's byte whose frame ends in a responder's clock is lost, as in the
code; `NothingLost` speaks of room, not of this. Bytes of equal value come from devices,
from replies of the controller and from the responders: a break code of the left Shift is
AAh, like the second byte of the answer to a reset. So the history keeps beside each
FIFO who said its bytes (`keyb_said`, `mouse_said`), and `AnswersExact` speaks of what a
responder said.

### Board

`IoBus` makes accesses of one menu out of a set of menus, chosen in the initial state; the
chipset registers follow it clock by clock. Of the registers only those with an
effect are modelled; of the bank behind a gate one register stands for all.
`UpperMemory` works in KiB, the finest granularity of any rule, and gives three
answers about an address: does anything respond, at which cell, and may it be
written. `Board` adds the setup request (`setup_cnt`, `bios_setup_req`, a clock
later), the resets of the menu, and the setup bit of CMOS 7Bh with its acknowledge,
which counts only while POST shows a checkpoint of 6Eh to 7Fh (`CkptBoot`).

### Pic

`I8259!Clock` gives all the registers of a controller after a clock edge; registers
of eight bits are sets of levels. `Pic` joins two of them, and the processor's side:
it accepts an interrupt at the end of an instruction, acknowledges one clock later,
reads the vector the clock after that, runs a handler that may enable interrupts,
writes the ends it owes (to the slave and the master) and returns. A task (`IsTask`) says
which lines rise how often, which of them may fall again before they are answered, and
which kind of EOI, nesting and masks the program uses. It begins with the ten writes
of `post_init_pic` and of INT 15h AH=89h, which set up both controllers in turn (`SetsUp`);
the devices are enabled after ICW1. `Orderly` names what the controllers need of a program
and its devices for the properties to hold at all; section 6 has what happens without
it. OCW3 is left out. Nothing in `src/sw` uses its poll mode or special mask. Its register
select is written by INT 9h (`rombios.c:11124`), which reads the service register and does
nothing unless IRQ 1 is in service; the select changes what a read of port 20h returns and
nothing that is requested, served or answered.

### Bios

A behaviour of `Bios` exercises one part (`part`). The parts keep their bytes of the
data area to themselves and none calls another while it waits, so composing their
interleavings would add states and no behaviour; what they do share (the timer
tick's effect on motors and on the count) is in each of the parts that has it. The
configuration is that of `rombios.h` and the makefile: PS/2 mouse, the INT 15h
keyboard intercept, EBDA, one ATA driver with eight devices, El Torito; no APM, PCI
or USB services.

* `BiosInput`: the controller is two FIFOs and what port 60h offers. INT 9h and
  INT 74h run whole where they may interrupt, INT 16h in steps: look at head and tail,
  take the key, move the head. A mouse service is a `script` of bytes written and
  awaited. `Waiting` maps the ring to the queue of `KeyQueue`.
* `BiosDisk`: data are numbers of sectors, or of half kilobytes of a CD, so a
  misplaced or repeated one shows. A transfer is one step per sector; the drive
  may fail or fall silent before each. `Lchs` and `LogicalBlock` are the translations,
  `TaskFile` the registers written for a command, with their widths.
* `BiosFloppy`: INT 13h waits, interrupts on, for the flag of INT 0Eh or the end of
  the motor count; the controller answers a command given up as well.
* `BiosTime`: an access to the clock chip is two steps, select and use, and INT 70h
  comes between.
* `BiosPorts`, `BiosBoot`, `BiosPost`, `BiosMemory`: one step per wait, per ROM or
  device, per table, per call.

### Vga

A machine is a record: data area, font vectors, adapter's registers, character
generators, text or graphics memory. There is one memory: a byte of a graphics screen
is the set of what was drawn in it (strips of characters, each with its font, a fill,
single pixels), and a pixel reads as what is left of them in its field. Of the character
generators' 256 places a block, those `Sampled` are kept. A service runs with interrupts off and is a function
of machine and call; a register operation is a list of port accesses folded over
the adapter (`VgaPorts`), since what counts is the order of index and data. The
numbers of a mode are the tables'; for runs that compare whole screens an `Adapter`
may scale them down (columns, rows, page size), with the algorithms unchanged.
`VgaPromises` says what each call means without the code's loops: `Moves` for a
scroll is a function on cells, `Contents` and `AskedOf` for the registers.

### MiSTerFS

`process2f` as its guards, query and answer per call. The driver writes the query,
then the mark (`request_flg[0]`), and spins until the host has copied the mark to
`request_flg[1]`; the host acts at any moment and answers well, shortly or with an
error. A file is a sequence; a search is known by its DTA. `Programs` is the part
with the chain of INT 2Fh: the driver is installed and unloaded among other resident
programs that hook the same vector.

## 3. Runs

| Run | Constants | Checks |
|---|---|---|
| `L2` | one set, two ways, three one-word lines, one in the host's window (fetched anew each time), bursts to 2 | `TypeOK`, `CopiesExact`, `IsMemoryService`, `VictimSettled`, `BurstEnds` |
| `Bus` | three dwords; writes of 1–4 and reads of 1–8 bytes at every offset; then writes, a read, a code fetch, DMA in all modes and processor resets together | `TypeOK`, `LanesExact`, `NothingLost`, `WriteServed` |
| `Dma` | channel 2 of the slave and 1 of the master, 2 byte values, 2 pages, 8 register writes | `TypeOK`, `TransfersExact`, `RightAddress` |
| `Ps2` | FIFO of 6 held off at 2; keyboard commands FFh and F2h, self test, left Shift and its break code; mouse command FFh, aux enabled and disabled, a mouse that sends FAh | `TypeOK`, `AnswersExact`, `NothingLost`, `Answered` |
| `Board` | four programs: gates, printer, POST, memory map; menu and F1; setup window of 24 clocks, reset of 4 | `TypeOK`, `AckSeen`, `DecodeExact`, `UnlockExact`, `SetupExact` |
| `Pic` | nested handlers; requests withdrawn and masked at master and slave; rotation and automatic EOI at both | `InterruptsExact`, `InTurn`, `Served` |
| `MiSTerFS` | marks 0 and 1, chunks of 2 bytes, files to 4, 3 tokens, drives A, E, F; five tasks | `FilesExact`, `SearchesExact`, `ChainSound`, `CallsReturn` |
| `Bios` | eight parts, with small buffers and the machines of `MC_Bios` | `IsKeyQueue`, `InputExact`, `DiskExact`, `FloppyExact`, `TimeKept`, `PortsExact`, `BootExact`, `MemoryExact` |
| `Vga` | ten kinds of machine and menus, three calls each | `PageInSight`, `ScreenExact`, `RegistersExact`, `RestoredAsSaved` |
| `Ps2_auxdrop`, `Board_card`, `Board_module` | as `Ps2`, `Board` | one property each, which the code violates (section 6) |

What they show, each in a sentence, is the run's `about` in `PROJECT.json`.

Why the bounds are enough:

* L2: the cache compares addresses and copies words; it never looks at a word. One
  word with two values among words that stay constant shows every stale, lost or misplaced
  copy. Eviction needs more lines than ways (3 to 2) in one set, and bursts run from line to
  line in it. Bursts that cross from one set to another, and fills of more than one word,
  are outside this run: for the safety properties the proofs have every geometry;
  `BurstEnds` is checked for lines of one word only.
* Bus: offsets and lengths are complete, and three dwords hold the longest read. A
  code line of two words tells the last from the others.
* DMA: one channel per controller gives every pair the arbiter tells apart (within
  the slave, through the cascade); two byte values make counts of up to four
  transfers, carries between the bytes and an underflow.
* PS/2: answers have one to three bytes, so a FIFO of 6 with the mark at 2 leaves
  the margin the code has (64 − 60) above the mark, which `NothingLost` needs. The
  devices' bytes are chosen to equal bytes of answers. The
  injected F1 is left to `Board`: `PC110.sv` ties the controller's input low.
* Board: the setup window is longer than a reset and several accesses, as in the
  code (95 s to 3 s); every ordering of request, reset, checkpoint and read occurs.
  `Edges` has the first and last KiB of every region and addresses equal to one in
  the low bits. Menus keep groups of registers that do not touch each other apart.
* Pic: one line on each side of every comparison (a higher and a lower level, each
  side of the cascade, level 7 for spurious requests); a line that rises twice
  shows a request that stays or is forgotten. The proofs remove the bounds for the
  safety properties: all lines, any number of rises, any words and vectors.
* MiSTerFS: two marks make the mark repeat at once, which is the worst the low byte of
  `request_flg` can do; a transfer of 5 bytes takes three chunks; three tokens
  wrap within two searches. A token must not come round while its search
  lasts: at 65536 that is the code's own assumption, and the tasks keep it.
* Bios: three places of the key buffer (two keys) fill it and wrap; a controller FIFO
  of 6 holds the longest key and an answer. At most three keys are down at once, of the
  sets `MC_Bios` names: each modifier with a grey key, an ordinary one or another
  modifier, and the grey key under Alt, which gives nothing. A day of 7 ticks, a low word of 3 and a
  period of 3 make every wrap of the clock happen. Option ROMs are of at most nine blocks;
  the proof has up to 252. The menus keep intervals apart from setting the real-time
  clock, so the race of section 6 does not come up. Drives keep their real
  geometries, since there the limits are the point; `MC_Bios` picks addresses at both ends
  of a disk and of each field, and counts that cross a limit. `TableEntries` 4 (8
  in the code) is filled by the ROMs of a board; `MaxResets` bounds a system that
  would otherwise reset for ever.
* Vga: screens of a handful of cells have a first, a middle and a last row and
  column, and two pages; three calls are enough to bring page, cursor and start
  address apart, and to save, change and restore. The register kinds use the
  real modes. `Sampled` has the ends of a block and a letter between, so that a partial
  font shows whom it replaced. `DacSize` 4 shortens the table that `AH=1Ch` copies byte by byte.

No run replaces a definition of a module; no state constraint is used. Deadlock is
checked in every run but `Bios`, where a machine may halt (`BX_PANIC`) and a
part's program may have made its last call.

### Fairness

* `L2Cache!FairSpec`: the clock ticks (weak fairness of a step), and the DDR
  controller delivers the beats it was asked for: weak fairness of a clock with the
  controller not busy, and of one that brings a beat to a fill. The
  controller is outside the repository's control; nothing could be promised without
  it. New requests, writes of the host and resets are not fair.
* `MemoryBus!FairSpec`: the memory answers every burst and is not busy for ever,
  which is what `BurstEnds` shows for the cache; a reset ends. The processor's
  requests are not fair.
* `Ps2!FairSpec`: the clock ticks, and the program goes on polling (strong fairness of a
  status read, and of a data read when the last status showed a byte). That is the
  program's part of the protocol; the property is about a program that does it.
* `Pic!Spec`: the clock ticks; the processor accepts an interrupt if it is offered
  at one instruction boundary after the other (strong, because other clocks come
  in between); the program finishes setting up, writes its EOIs and returns.
* `MiSTerFS!Spec`: the driver sends the query it has begun, and the host answers.
  The driver spins without a timeout, so nothing could be promised without it.

## 4. Proofs

`L2Cache_proofs` proves for any number of sets, ways, words, lines and values, and
any window of the host:

* `L2TypeCorrect`: `Spec => []TypeOK`;
* `L2CopiesExact`: no line is in two ways, and a valid copy is what memory holds;
* `L2VictimSettled`: the ages of a set are always an order of its ways, and the
  words of a fill go to the way chosen at its first;
* `L2IsMemory`: `Spec => IsMemoryService`, the cache implements `MemoryService`, with a
  host that writes its window at any clock, forced fetches, evictions and resets.

The one assumption besides types is `BurstAssumption`: a burst crosses the end of a line
at most once (the bus asks for 8 words at most, lines have 8).

None of these is inductive alone. The invariant is

    IInv == LruInv /\ PortInv /\ DdrInv /\ MuxInv /\ TagInv /\ HomeInv /\ CopyInv

`LruInv` is the order of the ages with the write on its way included; `PortInv` says
what the write ports of tag and age RAM may carry in which state; `DdrInv` ties the
DDR controller's phase to the state (in particular: outside `START` and `IDLE` no beats
come but the ones the current fill waits for); `MuxInv`
that the way of a fill is the oldest until its first word has come; `TagInv` that no
line is in two ways; `HomeInv` that a valid tag is in its line's set; `CopyInv` is
coherence including the words of a half-filled way. The refinement needs two more, about
the burst in progress: `BurstInv` (memory's value of the awaited word is one the burst may
be given; in the window every word is fetched anew) and `FreshInv` (a word that has
arrived, and later the only way that matches, holds such a value even if the host has
written since). Each clock is then a step of `MemoryService`: accepting a read is
`StartRead`, accepting a write `Write`, a hit `ReturnWord`, a reset `Abandon`, all others
`Quiet`; a host write is `HostWrite`, or no step at all if the word waits in the write
port behind it. There is one lemma per action
and, under it, one step per conjunct it can disturb; lemmas about `Touch` (touching
a way of an order gives an order) are stated once.

`MemoryBus_proofs` proves, for any memory, any accesses of the processor that fit in
it, any line of code of at most eight dwords and any DMA modes, every safety property
the run `Bus` checks:

* `BusTypeCorrect`: `Spec => []TypeOK`;
* `BusLanesExact`: bytes are read and written where they belong. The tables of the
  source are met by arithmetic: a read takes `(offset + length - 1) \div 4 + 1` dwords
  (`DwordsRead`), the lanes of both dwords of a write carry each byte asked for once
  (`WriteLanes`), for every address;
* `BusNothingLost`: `Spec => NothingLost`.

The invariant is

    BusInv == Shapes /\ MemInv /\ ReadInv /\ WriteInv /\ ChanInv /\ TakenInv

`MemInv`: when the master asks for nothing the memory is quiet, and in a state that
waits for words just those are to come (`Coming`, `At`); a reset of the processor
breaks this, and its end waits until it holds again. `ReadInv`: of a read with *n*
words left, those that came are in `bus_1` and `bus_0` in the order that
`readburst_data` expects. `WriteInv`: what the first dword of a write leaves is what
the second carries. `ChanInv` is the handshake with the DMA channel, whose request
lasts one clock longer than its acceptance: that clock finds the master in `READ_DMA`,
or has it write again; `TakenInv` counts the times. Assumed (`BusAssumption`): every
byte that is read or written, every line of code and the DMA address are in memory.

`Board_proofs` proves, for any menus of accesses, counter lengths and probed addresses
below 256 MiB, every property the run `Board` checks:

* `BoardTypeCorrect`: `Spec => []TypeOK`;
* `BoardAckSeen`: a printer acknowledge is sampled exactly once. Invariant: the
  latch is up exactly while an acknowledge is due, and `lpt_status_read_d` is up
  exactly in the clock in which the bus samples the port;
* `BoardUnlockExact`: invariant: step *n* of the unlock means that the last *n*
  reads were the first *n* keys;
* `BoardSetupExact`, from `AlwaysSetupOnce` and `AlwaysSetupNotLost`. Invariants:
  with nothing asked the counter is clear, what is late of an old request cannot
  meet the strobe of a read, and no setup bit is being sampled; a setup bit
  that is sampled was acknowledged in the same clock; an acknowledge that counts
  was given at the boot decision, since the checkpoint cannot change in the
  clock of a read;
* `BoardDecodeExact`, from `AlwaysExtendedStraight`, `AlwaysStubReadsModule` and
  `AlwaysNoStrayWrites` (from the types and arithmetic) and
  `AlwaysResetFindsBios`, whose invariant is that the reset follows its counter by
  two clocks and one clock later the registers have been set.

All of them rest on the lemma that the bus samples a read in the clock after its
strobe (`SampleAfterStrobe`). Assumed of the constants: accesses are of one to four
bytes, the reset is shorter than the setup window, memory modules are 0 to 3.

`Dma_proofs` proves, for any channels, widths and programs, every property the run
`Dma` checks: `TypeCorrect`, `DmaTransfersExact` and `DmaRightAddress`. The
invariant is

    DmaInv == OneServed /\ StopInv /\ AckInv /\ SampleInv /\ WorkInv /\ ServedWhenAsked
              /\ LatchInv /\ RightAddress

`StopInv`: a channel that counted out is masked, and free or on its last clock.
`AckInv`, `SampleInv` and `WorkInv` are the argument that no stale sample of a request
line starts a transfer: the acknowledge comes in the clock in which the channel counts,
so the request has been dropped and sampled again before the channel is free; a
master clear in that very clock frees it early, but masks every channel, and the I/O
bus needs two clocks to its next access. Take away that gap and the property is
false. `LatchInv`: the address latch follows the channel until it has counted.
Assumed of the constants: a write carries a value its register can hold
(`IoAssumption`), there is no channel 4 (`DmaAssumption`).

`Bios_proofs` proves all parts of the system BIOS but the flags and packets of the keyboard
and mouse services, whatever the other parts do. The first six:

* `BiosPortsExact`: the characters answered to be sent are those that left, with the
  one in the shift register and the one held, in order; a character answered to be
  printed was taken. Invariant: while a character is printed it is in the latch until
  the acknowledge, and no answer is pending while a call is at work;
* `BiosTimeKept`, for any length of the day, any split of the count in two words and any
  period: readings of the clock are exact, delays are long enough, intervals keep
  their interrupt and are not short. Invariant `TimeInv`: ticks and midnights are what
  has passed (`ClockInv`); while the count is read its high word is the clock's own,
  which holds because interrupts are off; what a delay has subtracted is at most what
  has passed, at midnight too (`ProgramInv`); what was counted down of an interval is
  at most the periods there were, and one more if an interrupt was pending when the
  interval was set (`WaitInv`).

  Assumed (`TimeAssumption`): the clock is read before the byte of midnights wraps and
  is set to a time of the day; a program with an interval does not set the real-time
  clock meanwhile (section 6 says what happens if it does).

* `BiosFloppyExact`, for any types of drives, any calls and any time a motor stays on: a
  transfer that succeeds was done by the command of this very call, at the address asked
  for and within 64K. Invariant `FloppyInv`: wherever INT 13h waits, the controller works for
  it, or its interrupt is pending, or the handler has set its bit (`Abreast`), and nothing
  of an earlier command is left when one is given, because a command that timed out is
  waited for until the reset's interrupt is over; the command and its call agree
  (`Commanded`); a success carries the command (`Answered`). `AddressSplit` is the
  arithmetic of page and base address;
* `BiosMemoryExact`, for any two words in the CMOS: the map of AX=E820h is a prefix of
  its ranges, in order, at any point of the walk (`MapInv`), and its end agrees with the older
  services where they can say it.

  Assumed (`FloppyAssumption`, `MemoryAssumption`): registers are bytes and words, and
  motors stay on for some time.

* `BiosDiskExact`, for any drives, discs and menus of calls, drives that fail anywhere and
  choose any chunks. Four arguments meet in the invariant

      DiskInv == FoundInv /\ NumberedInv /\ CdemuInv /\ XferInv /\ ReplyInv /\ ...

  `FoundInv`: each translation of a geometry leaves one that fits INT 13h and lies on the disk
  (`LchsFits`; `HalvesFit` and `LargeFits` for the shifting of cylinders into heads, `LbaFits` for
  the word the cylinders are cut to). `NumberedInv`: the maps of drive numbers are one to one on
  the devices found, and the next number is free while POST detects; with the renumbering
  for an emulated drive this gives one number for each (`OneNumber`). `XferInv`: what a drive
  makes of the registers is the block and the count that were asked for, in each of the three
  forms of a command (`ByBlock`, `ByChs`; `Bytes28` and `Bytes32` put a number cut into
  registers together again); after each sector the drive's count and the program's
  are the same and the buffer, moved to a later segment or not, ends where that much of
  memory does (`SectorMoved`); of a packet's chunks what is skipped before the
  first sector and what was moved make up the position in the blocks (`ChunkMoved`, `BlocksHold`).
  `ReplyInv`: an answer keeps what its command had moved, and the emulation that gave a
  CD's sectors their places is not set up anew.

  Assumed (`DiskAssumption`): a disk's physical geometry is of at most 65535, 16 and 63,
  as its identity can say, and lies within its size; one translated by LBA is smaller
  than 255 · 65536 · 63 sectors (half a terabyte), because the code keeps the
  cylinders in a word before it cuts them; AH=42h/43h ask for 1 to 255 sectors,
  because the program's count of sectors is a byte in the EXT form (section 6
  says what other counts do).

* `BiosBootExact`, for any boards, ROMs, boot orders and machines within the assumptions:
  every good ROM is initialised once and in order, none inside another; devices are tried
  in the user's order, each once; a program resumes only as it asked; POST leaves ticks,
  equipment word and disk tables that describe the machine, and vectors that end each
  interrupt at its controllers. The invariant is in two parts,

      BootInv == BootTypes /\ CodeInv /\ ScanInv /\ TriedInv /\ TriedRight /\ ResumeInv
      PostInv == PostTypes /\ ClockReadInv /\ WrittenInv

  `ScanInv`: the ROMs initialised lie one after the other, the scan stands at or behind the end
  of the last, and every good ROM behind it is one of them or inside one (`Visited`). This
  needs that the step over a ROM, a byte's arithmetic, is the ROM's own length rounded
  up to two kilobytes. `TriedInv` relates the sequence of devices tried to the word counted up by
  INT 18h: what was tried is the device the user chose, then as many entries of the
  order as are devices below the counter (`Upto`). `CodeInv`: a shutdown code that is not 0 is
  found only by a reset, or is still to be found; `ResumeInv` counts resumptions against
  requests. `ClockReadInv`: hours, minutes and seconds are of one minute unless it turned
  while they were read (`torn`). The tables are met by arithmetic: a geometry scaled by 2, 4, 8
  or 16 loses less than one scaled cylinder, a checksum makes the sum of sixteen bytes 0.

  Assumed: a good ROM has 1 to 252 blocks and those of the video's region end before the options'
  (`BootAssumption`; section 6 says what the others do), the order is three nibbles, what
  the CMOS says of the machine are bytes and words, disks have at most 16384 cylinders, 16
  heads and 63 sectors, and there are at most two parallel and four serial ports
  (`PostAssumption`).

The seventh is `KeyBufferIsQueue`: `Spec => IsKeyQueue`, that is, the key
buffer implements `KeyQueue`, for any size of the buffer and of the controller's FIFO
and any menu of keys and calls. The abstract queue is `Waiting(bda)`, the places from head
to tail with the turn at the end; lemmas say what storing, taking and throwing away do
to it, with no reference to the keyboard (`StoringAppends`, `MovingTakes`, …), and
what a byte of the keyboard does to the data area (`ByteEffect`: nothing to the queue,
one key, or Ctrl-Break). The invariant is

    InputInv == BdaInv /\ KbcInv /\ CpuInv /\ HoldInv /\ LocksInv

`HoldInv` is what the interleaving is about: between the reading of a key and the
moving of the head the key stays the first of the queue, although INT 9h may store others
behind it; between the choice of a place and the moving of the tail the place stays
the last. It is not inductive without the rest: Ctrl-Break in between would empty the
queue. `LocksInv` and `KbcInv` show that it cannot come where no lights are set (a
call then keeps interrupts off from the key it found to the end) or where no prefix
E0h is ever in the FIFO. That is why `InputAssumption` asks of a menu that it has not all
three: calls that read, keys with a prefix, and a reason to set lights; nor AH=05h
together with keys. With them the code does break the queue (section 6). TLC checked
`InputInv` on the menus of `MC_Bios` before it was proved.

`MiSTerFS_proofs` proves, for any number of marks and tokens, any chunk size, any files
and directories and any menu of calls within `TaskAssumption`, the three safety
properties of the run `MiSTerFS`: `FsChainSound`, `FsSearchesExact` and `FsFilesExact`.
The chain has an invariant of its own (`ChainInv`: one of five shapes). For the
others it is

    Inside == Shapes /\ HandInv /\ FrameInv /\ FileInv /\ ReadInv /\ WriteInv /\ OpenInv
              /\ ListsInv /\ LiveInv /\ FindInv /\ SearchesExact

`HandInv` is the handshake: the mark differs from the one the host saw last exactly from
the posting of a query to its answer, and the answer's place holds the special
word until then, which is no mark; so what is in the window is the query (`FrameInv`) or an
answer to this query and no other (`ReadInv`, `WriteInv`, `OpenInv`, `FindInv`). `ReadInv` and
`WriteInv` say how far the chunks have come: the buffer holds the first `done` bytes, the
host's file is the old one with the first `done` bytes written over it; the step from chunk to
chunk is two lemmas about sequences (`BytesJoin`, `OverwrittenTwice`). `LiveInv` says
that a search that goes on has a token, given `younger` tokens ago and fewer than
`Tokens`, under which the host still has its list. TLC checked the conjuncts on the run
before they were proved, and showed two of the assumptions to be needed (section 6).

`Ps2_proofs` proves the three safety properties of the run `Ps2`, for any depth of the
FIFOs, devices and menus within the assumptions: `Ps2Types`, `Ps2LosesNothing` and
`Ps2AnswersExact`. The invariant is

    IInv == TypeOK /\ Sources /\ Taken /\ NoRelay /\ IrqHasByte /\ Rooms
            /\ Dues /\ Marking /\ MouseAnswer /\ KeybAnswer

`Rooms` adds up, for each FIFO, what is in it, the byte on its way, what the responder has
still to say and a frame that has begun: at most three above the mark, except that a
command may have three bytes to say in the clock before the FIFO is cleared for it. This
is why the mark must leave four places (`MarginAssumption`; the code leaves 64 − 60 = 4).
`Marking` keeps the record of who said a byte beside its FIFO, place for place.
`MouseAnswer` and `KeybAnswer` say that an answer is a stream (`Stream`): a numbering of the
FIFO's places under which what was read, the bytes a responder said among the others in the
FIFO, the byte on its way and what is unsaid are the answer, in order. One lemma each says
that the stream survives a read, a byte no responder said, the storing of the byte on its
way and the saying of the next. For the keyboard the invariant has to say as well when the
output buffer is full with nothing behind it: only in the one clock after a command has
cleared the FIFO, in which the program can make no access. Nothing is assumed of the values
that devices send or the controller replies: they may be those of an answer. The keyboard's
part of `AnswersExact` is about a mouse that says nothing (`MouseSilent`: it sends nothing and the
program neither writes to it nor has the controller do so), since a byte its port leaves behind
is read as the keyboard's last byte again (run `Ps2_auxdrop`). TLC checked
`IInv` on the menus of `MC_Ps2` before it was proved.

`Pic_proofs` proves both safety properties of the run `Pic`, `PicInterruptsExact` and
`PicInTurn`, for any lines that rise any number of times and any program within
`PicAssumption`: any words, vectors, masks and order of nesting, and each kind of EOI. The
invariant (`PicInv`) is

    Inv == Types /\ SetupLeft /\ ProgramKept /\ Phases /\ Vectors /\ HandlersNest /\ ServiceExact
           /\ Cascades /\ Settled /\ Answered /\ Counted /\ Steady /\ Turns /\ TurnTaken

* Priorities. `Rank` is the distance from the level after the lowest, modulo 8, and
  `First` the level of least rank (`RankIs`, `FirstIs`): everything about rotation is
  reduced to comparing ranks. `Answered` says that what the processor is about to take
  outranks all that its controller serves, though the vector was latched a clock before
  and the request may be gone since; then it is level 7 of a controller that serves nothing.
* What is in service (`ServiceExact`). An unspecific EOI ends the level of least rank, which
  must be that of the handler that writes it: `HandlersNest` has the levels that the
  stack of handlers has open at a controller grow downwards. A fixed lowest
  priority (`ProgramKept`, `Settled`) is what makes rank and level agree. `ProgramKept` also
  follows the words of the setup into a controller one at a time, because `Vectors` needs two
  different offsets to say whose vector the processor has read.
* The cascade (`SlaveAsks`). `Cascades`: the master holds or shows a request at level 2
  only while the slave asks and has been seen to ask. It holds by edges: `Phases` says that
  nothing is asked for before both controllers were started.
* One answer per rise (`OnePerEdge`). `Counted` adds up, for each line, the times it was taken,
  the request held or latched for it, and a rise not yet seen: no more than its
  rises. A request is thus in one place at a time, `irr` or the latched vector, while
  it moves through registers a clock apart. `Steady`: a line that is held is high
  as long as its request is.
* Turns. `Turns`: a line that waits ranks, at its own controller, between what is in
  service and whatever was taken before it since it began to wait; after a rotation to the level
  ended that one is the last. `TurnTaken` carries this over the clocks of the acknowledge.
  For a line of the master against one of the slave the level compared is 2 (`Rival`).

TLC checked `Inv` on eight tasks of every kind of EOI (252,269 states) before it was proved. Three attempts failed for good reasons, which is where `Orderly` and `Rivals`
come from: nesting with withdrawn requests, rotation in nested handlers, and
turns between a line of the slave and one of the master (section 6).

Model-checked only:

* `InputExact` (the modifier flags follow the keys held, mouse packets come whole): it compares the
  flags with a function folded over all that is still on its way from the keyboard, an
  induction over a queue;
* the video BIOS: screens and register sets are built by recursive functions and folds
  over tables;
* liveness: `BurstEnds`, `WriteServed`, `Answered`, `Served`, `CallsReturn`.

ENABLED and induction over data are out of the prover's reach.

## 5. Not modelled, and the plan

Order of the next steps, most important first, with what each is to show:

1. `Ide`: commands that finish in hardware and commands the host finishes; a soft
   reset between; the buffer's pointers at the end of a transfer. `BiosDisk` has a
   drive as the BIOS sees it; the interface would come between the two.
2. `Floppy`: command phases with DMA, under `BiosFloppy` in the same way.
3. `Rtc`: the update cycle clock by clock, flags cleared by a read, checksum; today
   `Board` has CMOS 7Bh and `BiosTime` the chip as the BIOS uses it.
4. `Timer` (counter modes and latches).
5. `L1Cache` with its snoop FIFO, `Prefetch`, and the TLB against a page table.
6. `SoundDsp`: command FIFO and DMA requests.

Left out of what is modelled: the VGA aperture in front of the L2 cache, the
bit-level frames of the serial ports and the table of scan codes, OCW3 of the
interrupt controllers (poll, special mask, what a read shows), registers of the chipset that are only stored and read
back; in the BIOS `lba_high` and disks above 2^31 sectors, the identity strings,
`atapi_is_ready` (its result is only logged), the S3 resume beyond its jump, ACPI and
32-bit tables, banners; in the driver the parsing of its command line.

Not planned: the processor's instruction semantics and generated tables (out of
TLC's reach; the processor is the environment), pixel timing and planes of the VGA,
synthesisers and their firmware (signal processing, vendored), UART and the MiSTer framework
(vendored), the top level's wiring, build and installation scripts. Of the software:
`clext.c` and `vbe.c` and the APM, PCI and USB parts of `rombios.c` are not compiled
for this core; fonts are data; the DOS utilities parse an argument and
write a port once; the ROM tools run when a ROM is built.

## 6. Disagreements between code and words, and other observations

With a run:

* `Ps2_auxdrop`: a comment in `ps2.v` says that disabling the aux port drops its data
  from the shared output buffer; the code still fills the buffer for them.
* `Board_card`: the card controller's change register is cleared in the clock of the
  read strobe, and the bus samples it one clock later, so the program never sees a
  change; the test bench expects to see it and does only because it looks earlier.
* `Board_module`: `l2_cache.v:296–297` says of the copy of the Easy-Setup module at
  C0000h–DFFFFh, "That copy is pristine: C-segment writes alias away … and nothing writes
  the D segment". `l2_cache.v:241–248` leaves upper memory always writable, so a program
  writes DC000h–DFFFFh of the copy, with ROMSET 19h too (where only C0000h–DBFFFh alias
  away). `docs/STATUS.md:27` lists "ROM shadow protection … write enable per 16 KiB" as
  implemented, which the decode does not do either. `NoStrayWrites`, part of `DecodeExact`, is what
  holds: no write addressed elsewhere gets into the copy.

Seen while modelling, without a run (no property in the repository's words, or
only a question of wording). Where the passing runs stay clear of one, it says so.

Hardware:

* The comment at `l2_cache.v:184–189` speaks of a write-back cache; it is write-through.
* With a ROMSET other than 19h C0000h–CBFFFh of the module's copy are plain memory too.
* With ROMSET 19h the ROM alias is applied before the shared window's unlock
  address is compared, so the window cannot be unlocked then.
* The font window is writable when the shared window covers it (segment CEh).
* Windows below 1 MiB repeat every 256 MiB (bits 25:0 only are compared), above the
  installed memory.
* `rtc.v:134`: register 03h reads the alarm's seconds. `ide.v:284`: a soft reset
  completes in hardware only with drive 0 present. Both for the planned modules.
* `pic.v`: a poll read ends nothing and reports a vector a clock older than the
  request it clears; a spurious interrupt has the level `lowest_priority`, so after a
  rotation to 2 the master's would acknowledge the slave; command A0h rotates by
  one, not to the level ended; a rise before ICW1 is forgotten.
* `pic.v` latches request, level and vector a clock apart, and prepares a level while an
  earlier one is shown (`selectected_prepare`). When a request is withdrawn or masked while
  handlers nest, the spurious vector may name a level that is not put in service, and the
  handler's EOI then ends another's. With a rotating EOI and nested handlers the level ended
  need not be the latest. With automatic EOI a program cannot tell a spurious level
  7 from a request. An 8259 leaves all three to the program; the runs and `Orderly` stay clear of them.
* `pic.v`: to the master the slave is one device, so with a rotating EOI a line of the slave
  may wait while one of the master's is taken twice. Turns are kept among the lines of one
  controller, and for a waiting line of the master against those of the slave (`Rivals`).
* A processor reset in the middle of a DMA read leaves its channel waiting for a word that
  does not come, until POST clears the controllers (`MemoryBus`, above).
* `dma.v:463–470`: a write to a controller's mask in the very clock of a terminal count takes the
  place of setting the mask, so the channel goes on with the next request. `TransfersExact`
  leaves that clock out (`exhausted`).
* `l2_cache.v`: nothing makes the cache wait for the beats of a read that a reset orphaned; if the
  DDR controller were slower than the sweep of 128 tags they would be taken for the next fill's.
* `ps2.v`: with a mouse byte always waiting the keyboard is never served.

Keyboard and mouse services:

* INT 16h AH=05h stores with interrupts on; a key of INT 9h at that moment is lost
  (the run calls it with no key coming).
* Setting the LEDs turns interrupts on between reading a key and moving the head, so
  Ctrl-Break can come between (kept out of the run); and it empties the controller's FIFO,
  so codes may be lost, a flag sticking after that (`lost` has "codes").
* A key without a code for the shift state (Alt with Home, Ctrl with an arrow key)
  makes INT 9h return early, with the E0 flag set. If Alt or Ctrl moves next, its code is
  taken for the right-hand key's: Alt down, Home down, Alt up, Home up leaves "left Alt
  down" in 40:18h, and Alt down, Home down, left Ctrl down leaves "right Ctrl" in
  40:96h. The run reaches both; `NothingStuck` says what still holds, the shift flags of
  40:17h and the prefixes, and all flags where that did not happen (`lost` has no
  "side"). Releasing one of two Ctrl keys clears the flag of both. INT 9h does not look
  whether the byte is the mouse's.
* `inhibit_mouse_int_and_events` takes whatever byte waits for the command byte and
  writes it back, which may turn off IRQ 1; C202h–C204h leave the port open with
  IRQ 12 off; disabling and enabling in the middle of a packet shifts the following ones. The run's
  mouse is still while a service talks to it.

Disk services:

* A 48-bit count of 0 transfers 256 sectors; one of 256 and more fails after moving some.
* CD-ROM and emulated-disk functions clear the status byte first, so AH=01h always
  says 0; AH=49h stores none; the emulation does not reject sector 0, which becomes a
  sector 65536 too far (`rombios.c:6175`, reached by the run), and says DL=2 in
  AH=08h; after it ends the number of hard disks stays one too large.
* An error leaves the drive's interrupt disabled; a packet drive that hangs is waited for for ever.

Diskette services:

* AH=05h with bad parameters sets the error and goes on to answer success; AH=02h–04h
  do not clear the status on success; the write-protect path stores none; other
  write errors halt; AH=08h of drive 2 and up returns an uninitialised count; the
  wait for a recalibration has no timeout.

Time services:

* INT 70h selects a register of the clock chip between the index and the data write
  of INT 1Ah: a time set is then lost or lands in register B, where it may stop a
  wait interval for ever. The menus of the run keep intervals and AH=02h–07h apart, so no
  property is checked against this race.
* INT 70h writes register B back as read before INT 4Ah: an alarm turned off there
  is on again. A delay across midnight takes one tick more.

Ports, POST, boot, memory:

* INT 14h: `al & 0xE0 == 0` is `al & 0`, so the divisor of 110 baud is never used. A wait
  that succeeds as its count ends is told as a timeout (INT 14h and 17h).
* `timer_tick_post` reads hours, minutes and seconds without looking whether the
  clock is updating: a minute that turns between makes the day start up to an hour
  late (`ClockSet` speaks of the readings that are not torn so).
* A drive of 16 heads and over 8192 cylinders gets a head count of 0 in its parameter
  table; the EBDA is not cleared, so an untranslated disk may keep an old signature.
* The length of a ROM is rounded up in a byte (`rombios.c:10449`): one of 0 blocks, or of 253 to
  255, makes the step 0, and the scan stands at it for ever. `BootAssumption` has none.
* The boot entry of a video ROM is forgotten by a second initialisation of the table;
  after a device the user chose fails the whole order is tried again.
* AH=87h returns with interrupts on; AH=89h takes ES:SI where its comment says ES:DI;
  E820h tells of 636 KiB of low memory and INT 12h of 639.

Video BIOS:

* Scrolling text on a page other than 0 copies from page 0; scrolling down from row 0
  copies once more, to the end of the page before; scrolling graphics down
  copies the wrong way; clearing a CGA screen misses the end of the odd bank. The
  promises exclude these by name (`KnownOtherwise`).
* `pgsize` is not initialised when a line feed scrolls a page other than 0: any
  value (`Strays`) is allowed there.
* Pixels of mode 6 are read at CX>>2; a tab types one or two spaces; a font loaded
  while another page is active leaves the start address of the old height; graphics pages
  can be shown but not written; setting no colours (CX=0) sets 65536.
* AH=1130h gives offset and segment in the wrong registers for BH=0 and 1;
  `if (crtc_addr = 0x3d4)` is an assignment; CRTC 11h is restored from the byte of 12h;
  the DAC is saved through its write index, 256 times entry 0 on this adapter. Mono
  modes write a CRTC at ports the adapter does not listen to, and are not in the run.

Shared-folder driver:

* Writing no bytes beyond the end sets the size DOS knows but not the host's file's;
  a query that is too long returns 0 where a comment says FFFFh, so a list of 136 to 8191
  locks (more than `FRAMESIZE` bytes) is granted or released without the host being asked; RMDIR
  compares only a prefix with the current directory.
* A FINDNEXT that the host could not carry out is told as error 18, "no more files"
  (`MiSTerFS.C:662–668`): the program takes the entries it has for all. The run has such
  failures; `SearchesExact` promises all entries of a search that ended otherwise.
* Unloading and installing again sets `glob_ff_token` back to 0: a program that goes on
  with an old search then may share its token with a new one. Writing on a full host disk
  beyond the end of the file raises the size DOS knows. `TaskAssumption` keeps
  both out: no searches where programs come and go, no moving past the room there is.
* Running the program again while the host is not watching would reset the mark; the
  model assumes a host that is awake.
