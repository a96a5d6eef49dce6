----------------------------- MODULE MemoryMap ------------------------------
(* The bus the constructor of Emulator builds (emulator.cpp): the devices,  *)
(* their ranges and interrupt numbers. Bus addresses are in units of 8      *)
(* bytes here, so that all of them fit an integer of the model checker;     *)
(* every range starts and ends on such a unit.                              *)
EXTENDS Integers, Sequences

CONSTANTS DramMegabytes     \* the values of --memory looked at
MapAssumption == DramMegabytes \subseteq Nat \ {0}

\* A device of size bytes at base; irq 0 stands for none.
Dev(base, size, irq) ==
    [start |-> base \div 8, end |-> ((base + size) \div 8) - 1, irq |-> irq]

Flash(base) == Dev(base, \h10000 * 512, 0)

Battery == Dev(\h10003000, \h1000, 3)

\* The order of the calls of add_device.
Devices(disk) ==
    << Dev(\h2000000, \h10000, 0),                  \* Clint
       Dev(\h40000000, \h1000, 0),                  \* TestIntrGen
       Dev(\hC000000, \h1000000, 0),                \* Plic
       Dev(\h100000, \h1000, 0),                    \* SiFiveTest
       Dev(\h10000000, \h100, 10),                  \* NS16550
       Dev(\h50000000, 1024 * 768 * 4, 0) >>        \* SimpleFB
    \o (IF disk THEN <<Dev(\h10001000, \h1000, 12)>> ELSE <<>>)  \* VirtioBlk
    \o << Flash(\h20000000), Flash(\h22000000),     \* PFlashCFI01
          Dev(\h10002000, \h1000, 2),               \* GoldfishEvents
          Dev(\h101000, \h100, 11),                 \* GoldfishRTC
          Battery,                                  \* GoldfishBattery
          Dev(\h10004000, \h10, 0),                 \* BCM2835Rng
          Dev(\h10008000, 8, 0) >>                  \* NemuConsole

DramBase == \h10000000                              \* 0x80000000 bytes
DramLast == {DramBase + (m * \h20000) - 1 : m \in DramMegabytes}
Offers == {Devices(disk) : disk \in BOOLEAN}

-----------------------------------------------------------------------------
(* Properties.                                                             *)

\* Devices that raise interrupts have numbers of their own, within the sources
\* of the PLIC: a line is a level each device writes outright, so two devices on
\* one line would clear each other's interrupt.
OwnInterrupt(devices) ==
    \A j, k \in DOMAIN devices :
        /\ devices[j].irq < 1024
        /\ devices[j].irq = devices[k].irq /\ devices[j].irq # 0 => j = k
=============================================================================
