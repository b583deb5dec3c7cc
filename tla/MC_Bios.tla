--------------------------------- MODULE MC_Bios ---------------------------------
EXTENDS Bios, TLC

-----------------------------------------------------------------------------
\* Keys that are pressed together with the calls that are made meanwhile, or
\* mouse services: AX=C2xxh with the BH they are given.
Works1(keys, depth, calls16, calls15, fingers, still) ==
    [keys |-> keys, depth |-> depth, calls16 |-> calls16, calls15 |-> calls15, fingers |-> fingers, still |-> still]
AH(codes) == [ah : codes]
Stuff == [ah : {5}, key : {<<30, "normal">>, <<71, "normal">>}]
MouseCalls ==
    {[ah |-> 194, al |-> x[1], bh |-> x[2]] :
        x \in {<<0, 0>>, <<0, 1>>, <<1, 0>>, <<2, 2>>, <<2, 7>>, <<3, 1>>, <<4, 0>>, <<5, 3>>, <<5, 1>>,
               <<6, 0>>, <<6, 1>>, <<7, 0>>, <<7, 1>>, <<8, 0>>}}
MCWorks ==
    {Works1({"home", "lctrl", "rctrl"}, 2, AH({0}), {}, 2, TRUE),
     Works1({"home", "lalt"}, 3, {}, {}, 2, TRUE), Works1({"home", "lalt", "lctrl"}, 3, {}, {}, 3, TRUE),
     Works1({"home", "lshift", "rctrl"}, 4, {}, {}, 3, TRUE),
     Works1({"a", "lctrl", "break"}, 4, AH({0, 1}), {}, 1, TRUE),
     Works1({"a", "scroll"}, 2, AH({16, 17}), {}, 1, TRUE),
     Works1({"lctrl", "num", "pause"}, 6, {}, {}, 2, TRUE),
     Works1({"kp7", "num", "rshift"}, 2, AH({1}), {}, 1, TRUE),
     Works1({"a", "caps"}, 2, AH({17}), {}, 1, TRUE),
     Works1({"lalt", "ralt", "lctrl", "del"}, 2, AH({2, 9, 10, 18}), {}, 3, TRUE),
     Works1({}, 0, AH({0, 1}) \cup Stuff, {}, 0, TRUE),
     Works1({}, 0, {}, MouseCalls, 0, TRUE)}

\* A key, and a mouse that moves while a service talks to it.
MCMouseWorks == {Works1({"a"}, 1, {}, MouseCalls, 1, FALSE)}

-----------------------------------------------------------------------------
\* Drives, and calls with every field a call may have.
NoCall == [dl |-> 0, al |-> 0, size |-> 66, lba |-> 9, high |-> 0, c |-> 0, h |-> 0, s |-> 1, n |-> 1,
           seg |-> 8192, off |-> 0]
Chs(ahs, dl, places, counts, offs) ==
    [ah : ahs, dl : {dl}, c : {x[1] : x \in places}, h : {x[2] : x \in places}, s : {x[3] : x \in places},
     n : counts, seg : {8192}, off : offs]
Lba(ahs, dl, blocks, counts) == [ah : ahs, dl : {dl}, lba : blocks, high : {0, 1}, n : counts, seg : {8192}, off : {0, 63000}]
Other(ahs, dl) == [ah : ahs, dl : {dl}, al : {0, 1, 2, 3}, size : {20, 66}]

HardDrive(c, h, s, size, translation) ==
    [kind |-> "ata", pchs |-> [c |-> c, h |-> h, s |-> s], size |-> size, translation |-> translation]
Cd(media) ==
    [kind |-> "atapi", cdrom |-> TRUE,
     disc |-> [bootable |-> TRUE, media |-> media, ilba |-> 50, geometry |-> [c |-> 40, h |-> 3, s |-> 21]]]
NoDrive == [kind |-> "none"]
Small == HardDrive(306, 4, 17, 20808, "none")
DriveBench(units, calls, boots, chunks) ==
    [units |-> [d \in Disk!Devices |-> IF d + 1 \in DOMAIN units THEN units[d + 1] ELSE NoDrive],
     calls |-> {call @@ NoCall : call \in calls}, boots |-> boots, chunks |-> chunks]

\* Every translation, and addresses at the ends of a disk and of 28 bits.
HardDisks ==
    DriveBench(<<Small, HardDrive(16383, 16, 63, 268435460, "lba"), HardDrive(16383, 16, 63, 16514064, "rechs"),
                 HardDrive(4095, 16, 63, 4127760, "large")>>,
               Chs({2, 3, 4}, 129, {<<3, 2, 5>>, <<1023, 254, 63>>}, {1, 3}, {0, 63000, 65024})
               \cup Lba({66, 67, 68}, 129, {7, 268435454, 268435460}, {1, 3, 130})
               \cup Chs({2}, 130, {<<3, 2, 5>>, <<1000, 200, 63>>}, {1, 128}, {0})
               \cup Chs({2, 3}, 128, {<<0, 0, 1>>, <<305, 3, 17>>}, {1, 2, 129}, {0})
               \cup Chs({2}, 131, {<<3, 2, 5>>}, {1}, {0}) \cup Other({0, 1, 8}, 135),
               FALSE, {})
\* Functions of hard disk and CD-ROM, and a device that is neither.
Functions13 == {0, 1, 5, 8, 9, 10, 16, 21, 65, 69, 70, 72, 73, 78}
Mixed ==
    DriveBench(<<NoDrive, NoDrive, Cd(0), [kind |-> "unknown"], HardDrive(65535, 16, 63, 66059280, "rechs")>>,
               Other((Functions13 \cup {2, 3, 75}) \ {69}, 224) \cup Other({8, 1}, 225) \cup Other(Functions13, 128)
               \cup Lba({66, 68}, 224, {9}, {1, 3}),
               FALSE, {4, 6})
\* Locking and ejecting, as often as one likes.
Locking == DriveBench(<<Cd(0)>>, Other({69, 70}, 224), FALSE, {})
\* A CD that stands for a diskette drive, a hard disk or nothing.
Emulating(media) ==
    LET drive == Disk!EmulatedDrive(media)
    IN  DriveBench(<<Small, Cd(media), Small>>,
                   Chs({0, 1, 2, 3, 4, 8, 21}, drive, {<<3, 2, 5>>, <<0, 0, 1>>, <<3, 1, 18>>, <<90, 1, 1>>}, {0, 1, 3, 9}, {0})
                   \cup Chs({2}, drive, {<<0, 0, 0>>}, {1}, {0})
                   \cup Chs({2}, 129, {<<3, 2, 5>>}, {1}, {0}) \cup Other({5, 10}, drive)
                   \cup [ah : {74, 75}, dl : {0, 128}, al : {0, 1}],
                   TRUE, {1, 3, 4})
MCBenches == <<HardDisks, Mixed, Locking, Emulating(0), Emulating(1), Emulating(2), Emulating(3), Emulating(4)>>
MCBench(m) == MCBenches[m]

-----------------------------------------------------------------------------
MCFloppyTypes == {[d \in {0, 1} |-> IF d = 0 THEN 4 ELSE 0], [d \in {0, 1} |-> IF d = 0 THEN 2 ELSE 9]}
NoFloppyCall == [dl |-> 0, c |-> 0, h |-> 0, s |-> 1, n |-> 1, es |-> 4096, bx |-> 0]
MCFloppyCalls ==
    {call @@ NoFloppyCall : call \in
        [ah : {0, 1, 4, 8, 21, 22, 23, 24, 32}, dl : {0, 1, 2}]
        \cup [ah : {2, 3}, n : {1, 72}, es : {4096, 8190}, bx : {0, 33000}]
        \cup [ah : {2}, dl : {1, 2}] \cup [ah : {5}, dl : {0, 1, 2}, c : {5, 80}]
        \cup [ah : {24}, c : {79}, s : {18}] \cup [ah : {23}, n : {0, 4}]}

-----------------------------------------------------------------------------
\* A menu with wait intervals does not set the real-time clock (TimeAssumption).
TimeCall(fn, n) == [fn |-> fn, n |-> n]
MCTimeBench(m) ==
    CASE m = "clock" -> {TimeCall("clock", 0), TimeCall("setclock", 4), TimeCall("delay", 3)}
      [] m = "interval" -> {TimeCall("interval", 0), TimeCall("interval", 7), TimeCall("clear", 0), TimeCall("bad", 0)}
      [] m = "rtc" -> {TimeCall(fn, 1) : fn \in Time!RtcCalls}
MCTickLimit(m) == IF m = "clock" THEN 16 ELSE 0
MCTimeMenus == {"clock", "interval", "rtc"}

PortCall(fn, c) == [fn |-> fn, c |-> c]
MCPortCalls ==
    {PortCall("init", 0), PortCall("init", 7), PortCall("status", 0), PortCall("none", 0), PortCall("send", 1),
     PortCall("send", 2), PortCall("receive", 0), PortCall("print", 1), PortCall("print", 2), PortCall("reset", 0)}

-----------------------------------------------------------------------------
\* ROMs at multiples of 2K: one inside another, one that ends in the next
\* step, one without a checksum, two that boot.
Rom(blocks, boot, good) == [blocks |-> blocks, boot |-> boot, good |-> good]
BaseBoard ==
    [roms |-> (0 :> Rom(6, FALSE, TRUE) @@ 1 :> Rom(2, FALSE, TRUE) @@ 3 :> Rom(4, TRUE, TRUE)
               @@ 4 :> Rom(9, TRUE, TRUE) @@ 6 :> Rom(1, FALSE, TRUE) @@ 7 :> Rom(1, FALSE, FALSE)),
     video |-> 1, options |-> 2, last |-> 7, order |-> <<1, 2, 3>>, choice |-> 65535, skip |-> FALSE,
     media |-> <<"unreadable", "boots", "unreadable">>]
MCMachines ==
    <<BaseBoard,
      [BaseBoard EXCEPT !.order = <<3, 9, 1>>, !.media = <<"unsigned", "unreadable", "unreadable">>],
      [BaseBoard EXCEPT !.order = <<2, 0, 1>>, !.choice = 4],
      [BaseBoard EXCEPT !.order = <<1, 4, 2>>, !.choice = 3, !.skip = TRUE,
                        !.media = <<"unsigned", "unsigned", "unreadable">>],
      [BaseBoard EXCEPT !.order = <<1, 2, 5>>, !.choice = 1]>>
MCMachine(b) == MCMachines[b]

Sizes(k, blocks) == [k |-> k, blocks |-> blocks]
MCMemories ==
    {Sizes(0, 0), Sizes(3072, 0), Sizes(15360, 0), Sizes(15360, 64), Sizes(65535, 0), Sizes(65535, 784),
     Sizes(15360, 48896), Sizes(15360, 65535)}

-----------------------------------------------------------------------------
\* Times around the turn of a minute, an hour and the day; disks at every limit
\* of the translation, where RAM still holds another disk's table; no disk, one
\* of a type the test does not know; no ports and all of them.
Geometry(c, h, s) == [type |-> 15, extended |-> 47, c |-> c, h |-> h, s |-> s,
                      precomp |-> 65535, control |-> 200, landing |-> c]
NoDisk == [Geometry(0, 0, 0) EXCEPT !.type = 0]
OfType(type, extended) == [NoDisk EXCEPT !.type = type, !.extended = extended]
MCComputer(n) ==
    LET with(time, first, second, ports) ==
            [time |-> time, disks |-> <<first, second>>, stale |-> [i \in 0 .. 15 |-> 255 - i],
             equipment |-> 45, lpts |-> 1 .. (ports \div 2), coms |-> 1 .. ports]
    IN  <<with(0, NoDisk, NoDisk, 0),
          with(59, Geometry(615, 4, 17), NoDisk, 1),
          with(3599, Geometry(1024, 16, 63), Geometry(1025, 16, 63), 2),
          with(36000, Geometry(2048, 16, 63), Geometry(2049, 15, 63), 4),
          with(43199, Geometry(4096, 16, 63), Geometry(4097, 16, 63), 3),
          with(86399, Geometry(8192, 16, 63), Geometry(8193, 15, 63), 4),
          with(86398, Geometry(16383, 15, 63), Geometry(16383, 16, 63), 4),
          with(70000, NoDisk, Geometry(980, 5, 17), 1),
          with(52345, OfType(2, 0), Geometry(3000, 7, 32), 1),
          with(1, OfType(15, 3), NoDisk, 1),
          with(2, Geometry(980, 5, 17), OfType(3, 0), 1),
          with(3, Geometry(980, 5, 17), OfType(15, 46), 1)>>[n]
=============================================================================
