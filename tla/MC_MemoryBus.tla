---------------------------- MODULE MC_MemoryBus ----------------------------
(* Small instances of MemoryBus: three dwords, every offset and length that *)
(* fits, a two-dword line of code.                                           *)
EXTENDS MemoryBus

Placed(longest) == [address: 0 .. 3, length: 1 .. longest]
AllWrites == Placed(4)
AllReads  == Placed(8)
\* Writes of one and of two dwords, and a read, to contend with the DMA.
SomeWrites == {[address |-> 0, length |-> 4], [address |-> 2, length |-> 3]}
SomeReads  == {[address |-> 1, length |-> 4]}
\* Every lane of the processor's accesses; then all the masters contending.
Lanes    == [writes |-> AllWrites, reads |-> AllReads, code |-> {}, dma |-> {}, reset |-> FALSE]
Masters  == [writes |-> SomeWrites, reads |-> SomeReads, code |-> {0},
             dma |-> {"read", "write", "verify"}, reset |-> TRUE]
AllMenus == {Lanes, Masters}
=============================================================================
