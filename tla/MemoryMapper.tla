---------------------------- MODULE MemoryMapper ----------------------------
(***************************************************************************)
(* The bank registers of the calculator under one implementation profile,  *)
(* and a tracer that rebuilds them from the OUT instructions it sees.      *)
(*                                                                         *)
(* The machine's registers always have a value.  The tracer starts with    *)
(* any part of them, learns from each OUT and forgets on a block OUT,      *)
(* whose data byte the trace does not carry.  Whatever page it then names  *)
(* for an address has to be the page the machine has there.                *)
(*                                                                         *)
(* An address is a multiple of one unit; a region of the address space has *)
(* REGION of them, an overlay register counts GRANULE of them.             *)
(*                                                                         *)
(* Source: src/tools/ti84re/hardware/memory_mapper.py,                     *)
(*         src/tools/ti84re/trace/resolve.py (Banker)                      *)
(***************************************************************************)
EXTENDS Integers

CONSTANTS
    FLASH_PAGES,   \* 64 on a TI-84 Plus
    RAM_PAGES,     \* 8
    RAM_BIT,       \* 80: the selector bit that chooses RAM
    REGION,        \* 4000
    GRANULE,       \* 40
    Port27Minimum, \* FB64: where Wabbitemu's upper overlay starts at most
    Values,        \* bytes the program writes, by register
    Machines       \* <<implementation, topology>> pairs looked at

REGISTERS == {"port4", "bank_c", "bank_a", "bank_b",
              "port0e", "port0f", "port27", "port28"}

UNKNOWN == -1

\* RAM pages from "alias" on are one page (RAM_PAGES when there is no such
\* alias), and the overlays in paired mode follow the profile or are forced.
Topology == [alias : 0 .. RAM_PAGES, paired : {"profile", "always", "never"}]

ASSUME MapperAssumption ==
    /\ FLASH_PAGES \in Nat \ {0} /\ RAM_PAGES \in Nat \ {0}
    /\ RAM_BIT \in Nat \ {0} /\ REGION \in Nat \ {0} /\ GRANULE \in Nat \ {0}
    /\ Port27Minimum \in Nat
    /\ Values \in [REGISTERS -> SUBSET Nat]
    /\ Machines \subseteq {"Documented", "TilEm", "Wabbitemu", "MAME"} \X Topology

\* A byte's worth of granules ends one granule short of a region.
ASSUME OverlayAssumption ==
    \A v \in Values["port27"] \cup Values["port28"] : GRANULE * v < REGION

VARIABLES
    profile,   \* the implementation
    topology,  \* what is known of its RAM and its overlays
    machine,   \* its mapper
    tracer     \* the registers as the tracer knows them

vars == <<profile, topology, machine, tracer>>

Addresses == 0 .. 4 * REGION - 1
RegionOf(address) == address \div REGION

-----------------------------------------------------------------------------
(* Registers.                                                              *)

\* MAME has no overlay and no extension registers.
MappedPorts == IF profile = "MAME"
               THEN {"port4", "bank_c", "bank_a", "bank_b"} ELSE REGISTERS

\* Seeded fault: the extension registers keep the whole byte.
NormalizedWhole(port, v) ==
    IF v = UNKNOWN THEN UNKNOWN
    ELSE IF port = "bank_c" /\ profile = "TilEm" THEN v % (2 * RAM_PAGES)
    ELSE IF port = "bank_c" /\ profile = "MAME" THEN v % RAM_PAGES
    ELSE v

\* What a register keeps of a byte.
Normalized(port, v) ==
    IF v = UNKNOWN THEN UNKNOWN
    ELSE IF port = "bank_c" /\ profile = "TilEm" THEN v % (2 * RAM_PAGES)
    ELSE IF port = "bank_c" /\ profile = "MAME" THEN v % RAM_PAGES
    ELSE IF port \in {"bank_a", "bank_b"} /\ profile = "MAME" /\ v < RAM_BIT
         THEN v % FLASH_PAGES
    ELSE IF port \in {"port0e", "port0f"} THEN v % 4
    ELSE v

Written(reg, port, v) ==
    IF port \in MappedPorts THEN [reg EXCEPT ![port] = Normalized(port, v)]
                            ELSE reg

-----------------------------------------------------------------------------
(* Pages.                                                                  *)

Flash(n) == [kind |-> "flash", page |-> n]
Ram(n) == [kind |-> "ram", page |-> n]
Nowhere == [kind |-> "none", page |-> 0]

\* Seeded fault: unknown extension bits count as zero.
FlashPageGuessed(low, high) ==
    IF profile \in {"TilEm", "MAME"} THEN low % FLASH_PAGES
    ELSE IF high = UNKNOWN THEN low % FLASH_PAGES
    ELSE (low + RAM_BIT * high) % FLASH_PAGES

\* Extension bits that are unknown may still make no difference.
FlashPage(low, high) ==
    LET possible == {(low + RAM_BIT * h) % FLASH_PAGES : h \in 0 .. 3}
    IN  IF profile \in {"TilEm", "MAME"} THEN low % FLASH_PAGES
        ELSE IF high # UNKNOWN THEN (low + RAM_BIT * high) % FLASH_PAGES
        ELSE IF \E p \in possible : possible = {p}
             THEN CHOOSE p \in possible : TRUE ELSE UNKNOWN

SelectedRam(v) ==
    Ram(IF profile = "MAME" THEN v % RAM_BIT ELSE (v % RAM_BIT) % RAM_PAGES)

SelectedFlash(v, high) ==
    LET page == FlashPage(v % RAM_BIT, high)
    IN  IF page = UNKNOWN THEN Nowhere ELSE Flash(page)

Selected(reg, port) ==
    LET v == reg[port]
        high == IF port = "bank_a" THEN reg["port0e"] ELSE reg["port0f"]
    IN  IF v = UNKNOWN THEN Nowhere
        ELSE IF port = "bank_c" \/ v >= RAM_BIT THEN SelectedRam(v)
        ELSE SelectedFlash(v, high)

\* MAME backs one RAM page less than the selector can name.
Backed(p) ==
    IF p.kind # "ram" THEN p
    ELSE IF profile = "MAME" /\ p.page >= RAM_PAGES - 1 THEN Nowhere
    ELSE IF p.page >= topology.alias THEN Ram(topology.alias)
    ELSE p

Even(p) == IF p.kind = "none" THEN p ELSE [p EXCEPT !.page = @ - (@ % 2)]
Odd(p) == IF p.kind = "none" THEN p ELSE [p EXCEPT !.page = (@ - (@ % 2)) + 1]

PagedRegions(reg, region) ==
    IF reg["port4"] % 2 = 1
    THEN IF region = 1 THEN Even(Selected(reg, "bank_a"))
         ELSE IF region = 2 /\ profile = "Wabbitemu"
              THEN Selected(reg, "bank_a")
         ELSE IF region = 2 THEN Odd(Selected(reg, "bank_a"))
         ELSE Selected(reg, "bank_b")
    ELSE Selected(reg, IF region = 1 THEN "bank_a"
                       ELSE IF region = 2 THEN "bank_b" ELSE "bank_c")

MappedPage(reg, fixed, region) ==
    IF region = 0 THEN Flash(fixed)
    ELSE IF reg["port4"] = UNKNOWN THEN Nowhere
    ELSE Backed(PagedRegions(reg, region))

-----------------------------------------------------------------------------
(* Forced-RAM overlays.                                                    *)

\* _overlays_active.  Unknown without port 4, also where the profile would
\* have them on whatever port 4 says; a topology that forces them needs none.
OverlaysActive(reg) ==
    LET paired == reg["port4"] % 2 = 1
        always == topology.paired = "profile" /\ profile = "TilEm"
    IN  IF profile = "MAME" THEN "off"
        ELSE IF topology.paired = "always" THEN "on"
        ELSE IF reg["port4"] = UNKNOWN THEN "unknown"
        ELSE IF always \/ ~paired THEN "on" ELSE "off"

AtLeast(x, y) == IF x < y THEN y ELSE x

LowerOverlayEnd(reg) == 2 * REGION + GRANULE * reg["port28"]

UpperOverlayStart(reg) ==
    LET start == 4 * REGION - GRANULE * reg["port27"]
    IN  IF profile = "Wabbitemu" THEN AtLeast(start, Port27Minimum) ELSE start

MappedAddress(reg, fixed, a) ==
    LET region == RegionOf(a)
        active == OverlaysActive(reg)
    IN  IF active = "unknown" /\ region \in {2, 3} THEN Nowhere
        ELSE IF active = "on" /\ region = 2 /\ reg["port28"] = UNKNOWN
             THEN Nowhere
        ELSE IF active = "on" /\ region = 2 /\ a < LowerOverlayEnd(reg)
             THEN Ram(1)
        ELSE IF active = "on" /\ region = 3 /\ reg["port27"] = UNKNOWN
             THEN Nowhere
        ELSE IF active = "on" /\ region = 3 /\ a >= UpperOverlayStart(reg)
             THEN Ram(0)
        ELSE MappedPage(reg, fixed, region)

\* Seeded fault: the overlay registers are not asked for.
MappingCompleteWithoutOverlays(reg, fixed) ==
    /\ OverlaysActive(reg) # "unknown"
    /\ \A region \in 0 .. 3 : MappedPage(reg, fixed, region) # Nowhere

MappingComplete(reg, fixed) ==
    /\ OverlaysActive(reg) # "unknown"
    /\ OverlaysActive(reg) = "on" =>
           reg["port27"] # UNKNOWN /\ reg["port28"] # UNKNOWN
    /\ \A region \in 0 .. 3 : MappedPage(reg, fixed, region) # Nowhere

LowerRange(reg) ==
    IF reg["port28"] = 0 THEN {}
    ELSE {<<2 * REGION, (2 * REGION + GRANULE * reg["port28"]) - 1, Ram(1)>>}

\* Seeded fault: the report leaves out Wabbitemu's cutoff.
UpperRangeUncut(reg) ==
    IF reg["port27"] = 0 THEN {}
    ELSE {<<4 * REGION - GRANULE * reg["port27"], 4 * REGION - 1, Ram(0)>>}

UpperRange(reg) ==
    LET start == 4 * REGION - GRANULE * reg["port27"]
    IN  IF reg["port27"] = 0 THEN {}
        ELSE {<<IF profile = "Wabbitemu" THEN AtLeast(start, Port27Minimum)
                                         ELSE start,
                4 * REGION - 1, Ram(0)>>}

\* forced_ranges as <<first, last, page>>, when they can be told.
ForcedRanges(reg) == LowerRange(reg) \cup UpperRange(reg)

RangesKnown(reg) ==
    \/ OverlaysActive(reg) = "off"
    \/ /\ OverlaysActive(reg) = "on"
       /\ reg["port27"] # UNKNOWN /\ reg["port28"] # UNKNOWN

-----------------------------------------------------------------------------
(* Readback.                                                               *)

\* The byte that selects a page again.
SelectorByte(p) == IF p.kind = "ram" THEN RAM_BIT + (p.page % RAM_BIT)
                                     ELSE p.page % RAM_BIT

\* Seeded fault: TilEm and MAME answer from the pages in force as well.
ReadPortInForce(reg, port) ==
    LET paired == reg["port4"] % 2 = 1
    IN  IF port = "bank_c"
        THEN Selected(reg, IF paired THEN "bank_b" ELSE "bank_c").page
                 % RAM_BIT
        ELSE IF paired /\ port = "bank_a"
             THEN SelectorByte(Even(Selected(reg, "bank_a")))
        ELSE IF paired THEN SelectorByte(Selected(reg, "bank_a"))
        ELSE SelectorByte(Selected(reg, port))

\* Wabbitemu answers from the pages in force, the others from the register.
ReadPort(reg, port) ==
    LET paired == reg["port4"] % 2 = 1
    IN  IF profile # "Wabbitemu" THEN reg[port]
        ELSE IF port = "bank_c"
             THEN Selected(reg, IF paired THEN "bank_b" ELSE "bank_c").page
                      % RAM_BIT
        ELSE IF paired /\ port = "bank_a"
             THEN SelectorByte(Even(Selected(reg, "bank_a")))
        ELSE IF paired THEN SelectorByte(Selected(reg, "bank_a"))
        ELSE SelectorByte(Selected(reg, port))

\* A handler reads the three bank ports, uses them and writes them back.
Restored(reg) ==
    LET c == Written(reg, "bank_c", ReadPort(reg, "bank_c"))
        a == Written(c, "bank_a", ReadPort(reg, "bank_a"))
    IN  Written(a, "bank_b", ReadPort(reg, "bank_b"))

-----------------------------------------------------------------------------
(* Steps.                                                                  *)

LastPage == FLASH_PAGES - 1

\* reset_registers; the public contract asserts none, zero is taken there.
ResetRegisters(p) ==
    [r \in REGISTERS |->
        IF p = "TilEm" /\ r \in {"bank_a", "bank_b"} THEN LastPage % RAM_BIT
        ELSE IF p \in {"TilEm", "MAME"} /\ r = "port4" THEN 1 ELSE 0]

ResetMapper(p) ==
    LET latch == p \in {"Wabbitemu", "MAME"}
    IN  [reg |-> ResetRegisters(p), boot_latch |-> latch,
         fixed_page |-> IF latch THEN LastPage ELSE 0]

\* The tracer is told any part of the registers (make_banker).
Init ==
    /\ \E m \in Machines : profile = m[1] /\ topology = m[2]
    /\ machine = ResetMapper(profile)
    /\ \E told \in SUBSET REGISTERS :
           tracer = [r \in REGISTERS |-> IF r \in told THEN machine.reg[r]
                                                      ELSE UNKNOWN]

\* Seeded fault: a block OUT is skipped.
FeedKnown(port, v, visible) ==
    tracer' = IF visible THEN Written(tracer, port, v) ELSE tracer

\* Banker.feed: a block OUT invalidates what it may have changed.
Feed(port, v, visible) ==
    tracer' = Written(tracer, port, IF visible THEN v ELSE UNKNOWN)

Out(port, v, visible) ==
    /\ machine' = [machine EXCEPT !.reg = Written(@, port, v)]
    /\ Feed(port, v, visible)
    /\ UNCHANGED <<profile, topology>>

\* read_address: a read from a bank ends the boot mapping.
ReadAddress(region, fetch) ==
    LET paired == machine.reg["port4"] % 2 = 1
    IN  /\ machine.boot_latch
        /\ region = 1 \/ (region = 2 /\ paired)
        /\ profile = "Wabbitemu" =>
               fetch /\ MappedPage(machine.reg, machine.fixed_page,
                                   region).kind = "flash"
        /\ machine' = [machine EXCEPT !.fixed_page = 0, !.boot_latch = FALSE]
        /\ UNCHANGED <<profile, topology, tracer>>

Next ==
    \/ \E port \in REGISTERS, visible \in BOOLEAN :
           \E v \in Values[port] : Out(port, v, visible)
    \/ \E region \in 1 .. 2, fetch \in BOOLEAN : ReadAddress(region, fetch)

Spec == Init /\ [][Next]_vars

-----------------------------------------------------------------------------
\* Registers hold what they have bits for; only the tracer has unknown ones.
TypeOK ==
    /\ <<profile, topology>> \in Machines
    /\ machine \in [reg : [REGISTERS -> Nat], fixed_page : Nat,
                    boot_latch : BOOLEAN]
    /\ tracer \in [REGISTERS -> Nat \cup {UNKNOWN}]
    /\ machine.reg["port0e"] \in 0 .. 3 /\ machine.reg["port0f"] \in 0 .. 3

\* Whatever the tracer started from and whatever bytes it could not see: a
\* page it names for an address is the page the machine has there.  Region 0
\* is left out while a boot latch holds it: the tracer replays no reads, and
\* no caller gives it a profile with that latch.
ResolutionIsSound ==
    \A a \in Addresses :
        \/ RegionOf(a) = 0 /\ machine.boot_latch
        \/ MappedAddress(tracer, 0, a) \in
               {Nowhere, MappedAddress(machine.reg, machine.fixed_page, a)}

\* mapping_complete promises that every address resolves, and a mapping that
\* resolves everywhere is complete: a trace that starts in the middle is
\* accepted on this answer alone.
CompleteMeansResolved ==
    MappingComplete(tracer, 0) =
        (\A a \in Addresses : MappedAddress(tracer, 0, a) # Nowhere)

\* The ranges reported as forced RAM are those that addresses resolve to,
\* although the two are computed apart.
ForcedRangesAgree ==
    RangesKnown(tracer) =>
        LET ranges == IF OverlaysActive(tracer) = "off" THEN {}
                      ELSE ForcedRanges(tracer)
        IN  \A a \in Addresses :
                LET p == MappedAddress(tracer, 0, a)
                    over == {r \in ranges : r[1] <= a /\ a <= r[2]}
                IN  \/ over = {} /\ p = MappedPage(tracer, 0, RegionOf(a))
                    \/ \E r \in over : over = {r} /\ p = r[3]

\* Reading the bank ports and writing them back keeps the mapping, on every
\* implementation but Wabbitemu in paired mode, where port 7 answers with
\* the page of bank A.
ReadbackRestores ==
    LET reg == machine.reg
    IN  \/ profile = "Wabbitemu" /\ reg["port4"] % 2 = 1
        \/ \A region \in 1 .. 3 :
               MappedPage(Restored(reg), 0, region)
                   = MappedPage(reg, 0, region)
=============================================================================
