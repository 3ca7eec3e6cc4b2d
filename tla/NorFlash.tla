------------------------------ MODULE NorFlash ------------------------------
(***************************************************************************)
(* Byte arithmetic of the calculator's NOR Flash.  A byte is the set of    *)
(* its one bits, so "program" is an intersection and "erase" restores all  *)
(* eight bits; every command byte the decoders compare with is a constant  *)
(* of that type.                                                           *)
(*                                                                         *)
(* Source: src/tools/ti84re/flash/hardware.py and flash/replay.py.         *)
(***************************************************************************)
EXTENDS Naturals

Bits == 0 .. 7
Byte == SUBSET Bits

\* Erase leaves every bit set; only erase can set a bit again.
Erased == Bits

\* The stored byte after a program request on a part (or an emulator) that
\* honours the NOR rule: programming can only clear bits.
Programmed(old, requested) == old \cap requested

\* A request that would need to turn a zero into a one.
ZeroToOne(old, requested) == ~(requested \subseteq old)

\* The status bit the ROM poll worker compares with the byte it wrote.
DQ7 == 7

SameBit(bit, a, b) == (bit \in a) <=> (bit \in b)

(***************************************************************************)
(* Command bytes of the AMD protocol and the GC journal's phase bytes.     *)
(***************************************************************************)
xAA == {1, 3, 5, 7}
x55 == {0, 2, 4, 6}
x80 == {7}
xA0 == {5, 7}
x30 == {4, 5}
xF0 == {4, 5, 6, 7}

xFF == Bits
xFE == 1 .. 7
xFC == 2 .. 7
xF8 == 3 .. 7
xE0 == 5 .. 7

(***************************************************************************)
(* Sector geometry: sectorOf[a] is the set of addresses erased together    *)
(* with address a.  A geometry partitions the addresses.                   *)
(***************************************************************************)
IsGeometry(sectorOf, Addr) ==
    /\ sectorOf \in [Addr -> SUBSET Addr]
    /\ \A a \in Addr : a \in sectorOf[a]
    /\ \A a, b \in Addr : b \in sectorOf[a] => sectorOf[b] = sectorOf[a]

\* The array after programming one byte, and after erasing one sector.
AfterProgram(image, a, requested) ==
    [image EXCEPT ![a] = Programmed(image[a], requested)]

AfterErase(image, sector) ==
    [b \in DOMAIN image |-> IF b \in sector THEN Erased ELSE image[b]]
=============================================================================
