--------------------------------- MODULE IoBus ---------------------------------
(***************************************************************************)
(* The I/O bus (src/rtl/soc/iobus.v): an access of the processor to 1 to 4 *)
(* ports becomes one byte access after the other, each with one clock for  *)
(* the chip select, one for the strobe, and one in which a read is sampled.*)
(* One step is one clock.  Modules that extend this one add the devices.   *)
(***************************************************************************)
EXTENDS Integers, Sequences

CONSTANT Menus          \* sets of accesses; the program makes those of one of them

Byte == 0 .. 255
PortCount == 65536
Port == 0 .. PortCount - 1

\* An access: to a port and the ports after it, the bytes written, or as many
\* zeroes as bytes are read.
Access == [dir: {"read", "write"}, port: Port, bytes: Seq(Byte)]
ASSUME IoBusAssumption == \A menu \in Menus : \A a \in menu :
           a \in Access /\ Len(a.bytes) \in 1 .. 4

VARIABLES
    menu,               \* the accesses of this program
    bus_state,
    bus_address,
    bytes               \* bytes of the access to go, the current one first

bus_vars == <<menu, bus_state, bus_address, bytes>>

-----------------------------------------------------------------------------
BusRead == bus_state = "read_w"
BusWrite == bus_state = "write_w"
Reads(p) == BusRead /\ bus_address = p
Writes(p) == BusWrite /\ bus_address = p
Samples(p) == bus_state = "read_chk" /\ bus_address = p
Data == Head(bytes)

BusTo(s) == bus_state' = s /\ UNCHANGED <<bus_address, bytes>>

Started == bus_state = "idle" /\ \E a \in menu : /\ bus_state' = a.dir
                                                 /\ bus_address' = a.port
                                                 /\ bytes' = a.bytes

\* The next byte, or the end of the access.
NextByte(s) == IF Len(bytes) = 1
               THEN bus_state' = "idle" /\ bus_address' = 0 /\ bytes' = <<>>
               ELSE /\ bus_state' = s /\ bus_address' = (bus_address + 1) % PortCount
                    /\ bytes' = Tail(bytes)

BusClock(reset) ==
    /\ UNCHANGED menu
    /\ \/ reset /\ bus_state' = "idle" /\ bus_address' = 0 /\ bytes' = <<>>
       \/ ~reset /\ bus_state = "idle" /\ UNCHANGED <<bus_state, bus_address, bytes>>
       \/ ~reset /\ Started
       \/ ~reset /\ bus_state = "read" /\ BusTo("read_w")
       \/ ~reset /\ bus_state = "read_w" /\ BusTo("read_chk")
       \/ ~reset /\ bus_state = "read_chk" /\ NextByte("read")
       \/ ~reset /\ bus_state = "write" /\ BusTo("write_w")
       \/ ~reset /\ bus_state = "write_w" /\ BusTo("write_chk")
       \/ ~reset /\ bus_state = "write_chk" /\ NextByte("write")

BusInit == menu \in Menus /\ bus_state = "idle" /\ bus_address = 0 /\ bytes = <<>>

BusTypeOK ==
    /\ menu \in Menus
    /\ bus_state \in {"idle", "read", "read_w", "read_chk", "write", "write_w", "write_chk"}
    /\ bus_address \in Port
    /\ bytes \in Seq(Byte) /\ (bytes = <<>> <=> bus_state = "idle")
=============================================================================
