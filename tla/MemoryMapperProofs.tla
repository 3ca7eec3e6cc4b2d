------------------------- MODULE MemoryMapperProofs -------------------------
(***************************************************************************)
(* The tracer against the machine, for every geometry, every set of bytes  *)
(* and every part of the registers it starts with.                         *)
(*                                                                         *)
(* The invariant is Knows: what the tracer believes of a register is       *)
(* either nothing or the truth.  Soundness follows layer by layer, from a  *)
(* Flash page to a selected page, a region and an address.                 *)
(***************************************************************************)
EXTENDS MemoryMapper, TLAPS

\* A register the tracer has a value for has that value.
Knows == \A r \in REGISTERS : tracer[r] \in {UNKNOWN, machine.reg[r]}

\* The boot mapping goes with its latch; the overlays fit a region.
BootMapping == ~machine.boot_latch => machine.fixed_page = 0

OverlaysFit ==
    \A r \in {"port27", "port28"} : GRANULE * machine.reg[r] < REGION

Inv == TypeOK /\ Knows /\ BootMapping /\ OverlaysFit

LEMMA Registers ==
    /\ "port4" \in REGISTERS /\ "bank_a" \in REGISTERS
    /\ "bank_b" \in REGISTERS /\ "bank_c" \in REGISTERS
    /\ "port0e" \in REGISTERS /\ "port0f" \in REGISTERS
    /\ "port27" \in REGISTERS /\ "port28" \in REGISTERS
BY DEF REGISTERS

LEMMA NatModulo == \A n, m \in Nat : m # 0 => n % m \in Nat
OBVIOUS

-----------------------------------------------------------------------------
(* Registers.                                                              *)

LEMMA NormalizedType ==
    ASSUME NEW port \in REGISTERS, NEW v \in Nat
    PROVE  /\ Normalized(port, v) \in Nat
           /\ port \in {"port0e", "port0f"} => Normalized(port, v) \in 0 .. 3
           /\ port \in {"port27", "port28"} => Normalized(port, v) = v
           /\ Normalized(port, UNKNOWN) = UNKNOWN
<1>1. v # UNKNOWN
  BY DEF UNKNOWN
<1>2. 2 * RAM_PAGES \in Nat \ {0}
  BY MapperAssumption
<1>3. /\ v % RAM_PAGES \in Nat /\ v % FLASH_PAGES \in Nat
      /\ v % (2 * RAM_PAGES) \in Nat /\ v % 4 \in 0 .. 3
  BY <1>2, NatModulo, MapperAssumption
<1> QED  BY <1>1, <1>3 DEF Normalized

LEMMA WrittenType ==
    ASSUME NEW reg \in [REGISTERS -> Nat \cup {UNKNOWN}],
           NEW port \in REGISTERS, NEW v
    PROVE  /\ Written(reg, port, v) = reg
              \/ Written(reg, port, v) = [reg EXCEPT ![port] = Normalized(port, v)]
           /\ port \in MappedPorts
                 => Written(reg, port, v)
                      = [reg EXCEPT ![port] = Normalized(port, v)]
           /\ port \notin MappedPorts => Written(reg, port, v) = reg
BY DEF Written

LEMMA ResetType ==
    ASSUME NEW p
    PROVE  /\ ResetRegisters(p) \in [REGISTERS -> Nat]
           /\ \A r \in {"port0e", "port0f", "port27", "port28"} :
                 ResetRegisters(p)[r] = 0
           /\ LastPage \in Nat
<1>1. LastPage \in Nat
  BY MapperAssumption DEF LastPage
<1>2. LastPage % RAM_BIT \in Nat
  BY <1>1, NatModulo, MapperAssumption
<1>3. ResetRegisters(p) \in [REGISTERS -> Nat]
  BY <1>2 DEF ResetRegisters
<1>4. \A r \in {"port0e", "port0f", "port27", "port28"} :
         r \in REGISTERS /\ ResetRegisters(p)[r] = 0
  BY DEF ResetRegisters, REGISTERS
<1> QED  BY <1>1, <1>3, <1>4

LEMMA InitInv == Init => Inv
<1> SUFFICES ASSUME Init PROVE Inv
  OBVIOUS
<1>1. <<profile, topology>> \in Machines /\ machine = ResetMapper(profile)
  BY MapperAssumption DEF Init, Topology
<1>2. /\ machine.reg = ResetRegisters(profile)
      /\ machine.boot_latch \in BOOLEAN
      /\ machine.fixed_page \in Nat
      /\ ~machine.boot_latch => machine.fixed_page = 0
      /\ machine \in [reg : [REGISTERS -> Nat], fixed_page : Nat,
                      boot_latch : BOOLEAN]
  <2> DEFINE latch == profile \in {"Wabbitemu", "MAME"}
             page  == IF latch THEN LastPage ELSE 0
  <2>1. machine = [reg |-> ResetRegisters(profile), boot_latch |-> latch,
                   fixed_page |-> page]
    BY <1>1 DEF ResetMapper
  <2>2. /\ latch \in BOOLEAN /\ page \in Nat /\ (~latch => page = 0)
        /\ ResetRegisters(profile) \in [REGISTERS -> Nat]
    BY <1>1, ResetType
  <2> HIDE DEF latch, page
  <2> QED  BY <2>1, <2>2
<1>3. \A r \in {"port0e", "port0f", "port27", "port28"} : machine.reg[r] = 0
  BY <1>1, <1>2, ResetType
<1>4. machine.reg \in [REGISTERS -> Nat]
  BY <1>1, <1>2, ResetType
<1>5. PICK told \in SUBSET REGISTERS :
         tracer = [r \in REGISTERS |-> IF r \in told THEN machine.reg[r]
                                                    ELSE UNKNOWN]
  BY DEF Init
<1>6. /\ tracer \in [REGISTERS -> Nat \cup {UNKNOWN}]
      /\ Knows
  BY <1>4, <1>5 DEF Knows
<1>7. GRANULE * 0 < REGION
  BY MapperAssumption
<1>8. OverlaysFit
  BY <1>3, <1>7 DEF OverlaysFit
<1> QED  BY <1>1, <1>2, <1>3, <1>6, <1>8 DEF Inv, TypeOK, BootMapping

LEMMA OutInv ==
    ASSUME Inv, NEW port \in REGISTERS, NEW visible \in BOOLEAN,
           NEW v \in Values[port], Out(port, v, visible)
    PROVE  Inv'
<1> DEFINE w == IF visible THEN v ELSE UNKNOWN
<1>1. /\ machine \in [reg : [REGISTERS -> Nat], fixed_page : Nat,
                      boot_latch : BOOLEAN]
      /\ tracer \in [REGISTERS -> Nat \cup {UNKNOWN}]
      /\ <<profile, topology>> \in Machines
      /\ machine.reg \in [REGISTERS -> Nat]
      /\ machine.reg \in [REGISTERS -> Nat \cup {UNKNOWN}]
  BY DEF Inv, TypeOK
<1>2. v \in Nat
  BY MapperAssumption
<1>3. /\ machine' = [machine EXCEPT !.reg = Written(machine.reg, port, v)]
      /\ tracer' = Written(tracer, port, w) /\ profile' = profile
      /\ topology' = topology
  BY DEF Out, Feed
<1>4. Normalized(port, w) \in {UNKNOWN, Normalized(port, v)}
  BY <1>2, NormalizedType
<1> HIDE DEF w
<1>5. /\ machine'.reg = Written(machine.reg, port, v)
      /\ machine'.fixed_page = machine.fixed_page
      /\ machine'.boot_latch = machine.boot_latch
  BY <1>1, <1>3
<1>6. CASE port \notin MappedPorts
  <2>1. machine'.reg = machine.reg /\ tracer' = tracer
    BY <1>1, <1>3, <1>5, <1>6, WrittenType
  <2>2. machine' \in [reg : [REGISTERS -> Nat], fixed_page : Nat,
                      boot_latch : BOOLEAN]
    BY <1>1, <1>3, <1>5, <2>1
  <2> QED  BY <1>1, <1>3, <1>5, <2>1, <2>2
           DEF Inv, TypeOK, Knows, BootMapping, OverlaysFit
<1>7. CASE port \in MappedPorts
  <2>1. /\ machine'.reg = [machine.reg EXCEPT ![port] = Normalized(port, v)]
        /\ tracer' = [tracer EXCEPT ![port] = Normalized(port, w)]
    BY <1>1, <1>3, <1>5, <1>7, WrittenType
  <2>2. /\ Normalized(port, v) \in Nat
        /\ port \in {"port0e", "port0f"} => Normalized(port, v) \in 0 .. 3
        /\ port \in {"port27", "port28"} => Normalized(port, v) = v
    BY <1>2, NormalizedType
  <2>3. /\ machine'.reg \in [REGISTERS -> Nat]
        /\ tracer' \in [REGISTERS -> Nat \cup {UNKNOWN}]
    BY <1>1, <1>4, <2>1, <2>2
  <2>4. machine' \in [reg : [REGISTERS -> Nat], fixed_page : Nat,
                      boot_latch : BOOLEAN]
    BY <1>1, <1>3, <1>5, <2>3
  <2>5. \A r \in REGISTERS :
            /\ machine'.reg[r] = IF r = port THEN Normalized(port, v)
                                             ELSE machine.reg[r]
            /\ tracer'[r] = IF r = port THEN Normalized(port, w) ELSE tracer[r]
    BY <1>1, <2>1
  <2>6. machine'.reg["port0e"] \in 0 .. 3 /\ machine'.reg["port0f"] \in 0 .. 3
    BY <2>2, <2>5, Registers DEF Inv, TypeOK
  <2>7. Knows'
    BY <1>4, <2>5 DEF Inv, Knows
  <2>8. OverlaysFit'
    <3>1. port \in {"port27", "port28"} => GRANULE * v < REGION
      BY OverlayAssumption
    <3> QED  BY <2>2, <2>5, <3>1, Registers DEF Inv, OverlaysFit
  <2> QED  BY <1>1, <1>3, <1>5, <2>3, <2>4, <2>6, <2>7, <2>8
           DEF Inv, TypeOK, BootMapping
<1> QED  BY <1>6, <1>7

LEMMA ReadInv ==
    ASSUME Inv, NEW region, NEW fetch, ReadAddress(region, fetch)
    PROVE  Inv'
<1>1. machine \in [reg : [REGISTERS -> Nat], fixed_page : Nat,
                   boot_latch : BOOLEAN]
  BY DEF Inv, TypeOK
<1>2. /\ machine' = [machine EXCEPT !.fixed_page = 0, !.boot_latch = FALSE]
      /\ tracer' = tracer /\ profile' = profile
      /\ topology' = topology
  BY DEF ReadAddress
<1>3. /\ machine'.reg = machine.reg /\ machine'.fixed_page = 0
      /\ machine' \in [reg : [REGISTERS -> Nat], fixed_page : Nat,
                       boot_latch : BOOLEAN]
  BY <1>1, <1>2
<1> QED  BY <1>2, <1>3 DEF Inv, TypeOK, Knows, BootMapping, OverlaysFit

LEMMA NextInv == Inv /\ [Next]_vars => Inv'
<1> SUFFICES ASSUME Inv, [Next]_vars PROVE Inv'
  OBVIOUS
<1>1. CASE UNCHANGED vars
  BY <1>1 DEF vars, Inv, TypeOK, Knows, BootMapping, OverlaysFit
<1> QED  BY <1>1, OutInv, ReadInv DEF Next

THEOREM Invariance == Spec => []Inv
<1> QED  BY InitInv, NextInv, PTL DEF Spec

\* Registers hold what they have bits for, and only the tracer's are unknown.
THEOREM TypeCorrect == Spec => []TypeOK
<1>1. Inv => TypeOK
  BY DEF Inv
<1> QED  BY <1>1, Invariance, PTL
-----------------------------------------------------------------------------
(* Soundness, layer by layer.  A page is sound when it is the true one or  *)
(* Nowhere.                                                                *)

LEMMA FlashPageSound ==
    ASSUME NEW low \in Nat, NEW h \in 0 .. 3, NEW high \in {UNKNOWN, h}
    PROVE  FlashPage(low, high) \in {UNKNOWN, FlashPage(low, h)}
<1>1. h # UNKNOWN
  BY DEF UNKNOWN
<1>2. CASE profile \in {"TilEm", "MAME"} \/ high = h
  BY <1>2 DEF FlashPage
<1>3. CASE profile \notin {"TilEm", "MAME"} /\ high = UNKNOWN
  <2> DEFINE possible == {(low + RAM_BIT * k) % FLASH_PAGES : k \in 0 .. 3}
             true == (low + RAM_BIT * h) % FLASH_PAGES
  <2>1. FlashPage(low, h) = true
    BY <1>1, <1>3 DEF FlashPage
  <2>2. true \in possible
    OBVIOUS
  <2>3. FlashPage(low, high) = IF \E p \in possible : possible = {p}
                               THEN CHOOSE p \in possible : TRUE ELSE UNKNOWN
    BY <1>3 DEF FlashPage
  <2> HIDE DEF possible, true
  <2>4. ASSUME NEW p \in possible, possible = {p}
        PROVE  (CHOOSE q \in possible : TRUE) = true
    BY <2>2, <2>4
  <2> QED  BY <2>1, <2>3, <2>4
<1> QED  BY <1>2, <1>3

\* What the tracer has, where it has something, is what the machine has.
LEMMA Believed ==
    ASSUME Inv, NEW port \in REGISTERS
    PROVE  /\ tracer[port] \in {UNKNOWN, machine.reg[port]}
           /\ machine.reg[port] \in Nat /\ machine.reg[port] # UNKNOWN
BY DEF Inv, TypeOK, Knows, UNKNOWN

LEMMA SelectedSound ==
    ASSUME Inv, NEW port \in {"bank_a", "bank_b", "bank_c"}
    PROVE  Selected(tracer, port) \in {Nowhere, Selected(machine.reg, port)}
<1> DEFINE v == machine.reg[port]
           ext == IF port = "bank_a" THEN "port0e" ELSE "port0f"
           high == machine.reg[ext]
<1>1. port \in REGISTERS /\ ext \in REGISTERS
  BY Registers
<1>2. high \in 0 .. 3
  BY DEF Inv, TypeOK
<1>3. CASE tracer[port] = UNKNOWN
  BY <1>3 DEF Selected
<1>4. CASE tracer[port] # UNKNOWN
  <2>1. tracer[port] = v /\ v # UNKNOWN /\ v \in Nat
    BY <1>1, <1>4, Believed
  <2>2. CASE port = "bank_c" \/ v >= RAM_BIT
    BY <2>1, <2>2 DEF Selected
  <2>3. CASE ~(port = "bank_c" \/ v >= RAM_BIT)
    <3>1. v % RAM_BIT \in Nat
      BY <2>1, NatModulo, MapperAssumption
    <3>2. tracer[ext] \in {UNKNOWN, high}
      BY <1>1, Believed
    <3>3. FlashPage(v % RAM_BIT, tracer[ext])
              \in {UNKNOWN, FlashPage(v % RAM_BIT, high)}
      BY <1>2, <3>1, <3>2, FlashPageSound
    <3>4. SelectedFlash(v, tracer[ext]) \in {Nowhere, SelectedFlash(v, high)}
      BY <3>3 DEF SelectedFlash
    <3>5. /\ Selected(tracer, port) = SelectedFlash(v, tracer[ext])
          /\ Selected(machine.reg, port) = SelectedFlash(v, high)
      BY <2>1, <2>3 DEF Selected
    <3> QED  BY <3>4, <3>5
  <2> QED  BY <2>2, <2>3
<1> QED  BY <1>3, <1>4

LEMMA NowhereStays ==
    /\ Even(Nowhere) = Nowhere /\ Odd(Nowhere) = Nowhere
    /\ Backed(Nowhere) = Nowhere
BY DEF Even, Odd, Backed, Nowhere

LEMMA MappedPageSound ==
    ASSUME Inv, NEW region, NEW fixed
    PROVE  MappedPage(tracer, fixed, region)
               \in {Nowhere, MappedPage(machine.reg, fixed, region)}
<1>1. CASE region = 0 \/ tracer["port4"] = UNKNOWN
  BY <1>1 DEF MappedPage
<1>2. CASE region # 0 /\ tracer["port4"] # UNKNOWN
  <2>1. /\ tracer["port4"] = machine.reg["port4"]
        /\ machine.reg["port4"] # UNKNOWN
    BY <1>2, Believed, Registers
  <2>2. /\ Selected(tracer, "bank_a")
               \in {Nowhere, Selected(machine.reg, "bank_a")}
        /\ Selected(tracer, "bank_b")
               \in {Nowhere, Selected(machine.reg, "bank_b")}
        /\ Selected(tracer, "bank_c")
               \in {Nowhere, Selected(machine.reg, "bank_c")}
    BY SelectedSound
  <2>3. /\ Even(Selected(tracer, "bank_a"))
               \in {Nowhere, Even(Selected(machine.reg, "bank_a"))}
        /\ Odd(Selected(tracer, "bank_a"))
               \in {Nowhere, Odd(Selected(machine.reg, "bank_a"))}
    BY <2>2, NowhereStays
  <2>4. PagedRegions(tracer, region)
            \in {Nowhere, PagedRegions(machine.reg, region)}
    BY <2>1, <2>2, <2>3 DEF PagedRegions
  <2>5. Backed(PagedRegions(tracer, region))
            \in {Nowhere, Backed(PagedRegions(machine.reg, region))}
    BY <2>4, NowhereStays
  <2> QED  BY <1>2, <2>1, <2>5 DEF MappedPage
<1> QED  BY <1>1, <1>2

LEMMA OverlaysBelieved ==
    ASSUME Inv
    PROVE  OverlaysActive(tracer) \in {"unknown", OverlaysActive(machine.reg)}
           /\ OverlaysActive(machine.reg) \in {"on", "off"}
BY Believed, Registers DEF OverlaysActive

LEMMA AddressSound ==
    ASSUME Inv, NEW a, RegionOf(a) = 0 => ~machine.boot_latch
    PROVE  MappedAddress(tracer, 0, a)
               \in {Nowhere, MappedAddress(machine.reg, machine.fixed_page, a)}
<1> DEFINE region == RegionOf(a)
           page == MappedPage(tracer, 0, region)
           true == MappedPage(machine.reg, machine.fixed_page, region)
<1>1. page \in {Nowhere, true}
  <2>1. CASE region = 0
    BY <2>1, MappedPageSound DEF Inv, BootMapping
  <2>2. CASE region # 0
    <3>1. true = MappedPage(machine.reg, 0, region)
      BY <2>2 DEF MappedPage
    <3> QED  BY <3>1, MappedPageSound
  <2> QED  BY <2>1, <2>2
<1>2. \/ OverlaysActive(tracer) = "unknown"
      \/ OverlaysActive(tracer) = OverlaysActive(machine.reg)
  BY OverlaysBelieved
<1>3. /\ tracer["port27"] \in {UNKNOWN, machine.reg["port27"]}
      /\ tracer["port28"] \in {UNKNOWN, machine.reg["port28"]}
      /\ machine.reg["port27"] # UNKNOWN /\ machine.reg["port28"] # UNKNOWN
  BY Believed, Registers
<1>4. /\ tracer["port28"] # UNKNOWN
             => LowerOverlayEnd(tracer) = LowerOverlayEnd(machine.reg)
      /\ tracer["port27"] # UNKNOWN
             => UpperOverlayStart(tracer) = UpperOverlayStart(machine.reg)
  BY <1>3 DEF LowerOverlayEnd, UpperOverlayStart
<1> HIDE DEF region, page, true
<1>5. CASE region \notin {2, 3}
  <2>1. /\ MappedAddress(tracer, 0, a) = page
        /\ MappedAddress(machine.reg, machine.fixed_page, a) = true
    BY <1>5 DEF MappedAddress, region, page, true
  <2> QED  BY <1>1, <2>1
<1>6. CASE region = 2
  BY <1>1, <1>2, <1>3, <1>4, <1>6 DEF MappedAddress, region, page, true
<1>7. CASE region = 3
  BY <1>1, <1>2, <1>3, <1>4, <1>7 DEF MappedAddress, region, page, true
<1> QED  BY <1>5, <1>6, <1>7

\* A page the tracer names is the page the machine has there.
THEOREM Soundness == Spec => []ResolutionIsSound
<1>1. Inv => ResolutionIsSound
  BY AddressSound DEF ResolutionIsSound
<1> QED  BY <1>1, Invariance, PTL

-----------------------------------------------------------------------------
(* Completeness and the reported ranges: arithmetic of regions.            *)

LEMMA Regions ==
    ASSUME NEW a \in Addresses
    PROVE  /\ a \in Nat /\ RegionOf(a) \in 0 .. 3
           /\ RegionOf(a) = 2 => 2 * REGION <= a /\ a < 3 * REGION
           /\ RegionOf(a) = 3 => 3 * REGION <= a /\ a < 4 * REGION
           /\ RegionOf(a) \notin {2, 3} => a < 2 * REGION
<1>1. REGION \in Nat /\ REGION >= 1 /\ a \in Nat /\ a < 4 * REGION
  BY MapperAssumption DEF Addresses
<1> DEFINE q == a \div REGION
           r == a % REGION
<1>2. q \in Nat /\ r \in Nat /\ r < REGION /\ a = q * REGION + r
  BY <1>1
<1> HIDE DEF q, r
<1>3. q >= 4 => q * REGION >= 4 * REGION
  BY <1>1, <1>2
<1>4. q < 4
  BY <1>1, <1>2, <1>3
<1>5. q = 0 \/ q = 1 \/ q = 2 \/ q = 3
  BY <1>2, <1>4
<1>6. RegionOf(a) = q
  BY DEF RegionOf, q
<1> QED  BY <1>1, <1>2, <1>5, <1>6

LEMMA RegionAt ==
    ASSUME NEW k \in 0 .. 3, NEW r \in Nat, r < REGION
    PROVE  k * REGION + r \in Addresses /\ RegionOf(k * REGION + r) = k
<1>1. REGION \in Nat /\ REGION >= 1
  BY MapperAssumption
<1>2. k = 0 \/ k = 1 \/ k = 2 \/ k = 3
  OBVIOUS
<1>3. k * REGION + r \in Nat /\ k * REGION + r < 4 * REGION
  BY <1>1, <1>2
<1>4. (k * REGION + r) \div REGION = k
  BY <1>1, <1>2
<1> QED  BY <1>1, <1>3, <1>4 DEF Addresses, RegionOf

\* The overlays the tracer knows leave a byte of their region uncovered.
LEMMA OverlayBounds ==
    ASSUME Inv
    PROVE  /\ tracer["port28"] # UNKNOWN
                 => /\ tracer["port28"] \in Nat
                    /\ GRANULE * tracer["port28"] \in Nat
                    /\ GRANULE * tracer["port28"] < REGION
           /\ tracer["port27"] # UNKNOWN
                 => /\ tracer["port27"] \in Nat
                    /\ GRANULE * tracer["port27"] \in Nat
                    /\ GRANULE * tracer["port27"] < REGION
<1>1. /\ tracer["port27"] \in {UNKNOWN, machine.reg["port27"]}
      /\ tracer["port28"] \in {UNKNOWN, machine.reg["port28"]}
      /\ machine.reg["port27"] \in Nat /\ machine.reg["port28"] \in Nat
  BY Believed, Registers
<1>2. \A n \in Nat : GRANULE * n \in Nat
  BY MapperAssumption
<1> QED  BY <1>1, <1>2 DEF Inv, OverlaysFit

LEMMA CompleteIffResolved ==
    ASSUME Inv
    PROVE  MappingComplete(tracer, 0)
               <=> \A a \in Addresses : MappedAddress(tracer, 0, a) # Nowhere
<1> DEFINE active == OverlaysActive(tracer)
           page(k) == MappedPage(tracer, 0, k)
           at(a)   == MappedAddress(tracer, 0, a)
<1>1. REGION \in Nat /\ REGION >= 1 /\ GRANULE \in Nat
  BY MapperAssumption
<1>2. active \in {"unknown", "on", "off"}
  BY DEF OverlaysActive
<1>3. Ram(0) # Nowhere /\ Ram(1) # Nowhere
  BY DEF Ram, Nowhere
<1>4. ASSUME MappingComplete(tracer, 0), NEW a \in Addresses
      PROVE  at(a) # Nowhere
  <2>1. RegionOf(a) \in 0 .. 3
    BY Regions
  <2>2. /\ active # "unknown" /\ page(RegionOf(a)) # Nowhere
        /\ active = "on" => /\ tracer["port27"] # UNKNOWN
                            /\ tracer["port28"] # UNKNOWN
    BY <1>4, <2>1 DEF MappingComplete
  <2> QED  BY <1>3, <2>2 DEF MappedAddress
<1>5. ASSUME \A a \in Addresses : at(a) # Nowhere
      PROVE  MappingComplete(tracer, 0)
  <2> DEFINE low  == 2 * REGION + (REGION - 1)
             high == 3 * REGION + 0
  <2>1. /\ low \in Addresses /\ RegionOf(low) = 2
        /\ high \in Addresses /\ RegionOf(high) = 3
    BY <1>1, RegionAt
  <2>2. at(low) # Nowhere /\ at(high) # Nowhere
    BY <1>5, <2>1
  <2>3. active # "unknown"
    BY <2>1, <2>2 DEF MappedAddress
  <2>4. active = "on" => /\ tracer["port27"] # UNKNOWN
                         /\ tracer["port28"] # UNKNOWN
    BY <2>1, <2>2 DEF MappedAddress
  <2>5. page(0) # Nowhere
    BY DEF MappedPage, Flash, Nowhere
  <2>6. page(1) # Nowhere
    <3>1. REGION + 0 \in Addresses /\ RegionOf(REGION + 0) = 1
      <4>1. 1 * REGION + 0 \in Addresses /\ RegionOf(1 * REGION + 0) = 1
        BY <1>1, RegionAt
      <4> QED  BY <1>1, <4>1
    <3>2. at(REGION + 0) = page(1)
      BY <3>1 DEF MappedAddress
    <3> QED  BY <1>5, <3>1, <3>2
  <2>7. page(2) # Nowhere
    <3>1. active = "on" => ~(low < LowerOverlayEnd(tracer))
      BY <1>1, <2>4, OverlayBounds DEF LowerOverlayEnd
    <3>2. at(low) = page(2)
      BY <2>1, <2>3, <2>4, <3>1 DEF MappedAddress
    <3> QED  BY <2>2, <3>2
  <2>8. page(3) # Nowhere
    <3>1. active = "on" => ~(high >= UpperOverlayStart(tracer))
      BY <1>1, <2>4, OverlayBounds, MapperAssumption
      DEF UpperOverlayStart, AtLeast
    <3>2. at(high) = page(3)
      BY <2>1, <2>3, <2>4, <3>1 DEF MappedAddress
    <3> QED  BY <2>2, <3>2
  <2>9. \A k \in 0 .. 3 : k = 0 \/ k = 1 \/ k = 2 \/ k = 3
    OBVIOUS
  <2> QED  BY <2>3, <2>4, <2>5, <2>6, <2>7, <2>8, <2>9 DEF MappingComplete
<1> QED  BY <1>4, <1>5

\* mapping_complete holds exactly when every address resolves.
THEOREM Completeness == Spec => []CompleteMeansResolved
<1>1. Inv => CompleteMeansResolved
  <2> SUFFICES ASSUME Inv PROVE CompleteMeansResolved
    OBVIOUS
  <2>1. MappingComplete(tracer, 0) \in BOOLEAN
    BY DEF MappingComplete
  <2> QED  BY <2>1, CompleteIffResolved DEF CompleteMeansResolved
<1> QED  BY <1>1, Invariance, PTL

LEMMA RangesAgree == Inv => ForcedRangesAgree
<1> SUFFICES ASSUME Inv, RangesKnown(tracer), NEW a \in Addresses
             PROVE  LET ranges == IF OverlaysActive(tracer) = "off" THEN {}
                                  ELSE ForcedRanges(tracer)
                        p == MappedAddress(tracer, 0, a)
                        over == {r \in ranges : r[1] <= a /\ a <= r[2]}
                    IN  \/ over = {} /\ p = MappedPage(tracer, 0, RegionOf(a))
                        \/ \E r \in over : over = {r} /\ p = r[3]
  BY DEF ForcedRangesAgree
<1> DEFINE p == MappedAddress(tracer, 0, a)
           page == MappedPage(tracer, 0, RegionOf(a))
<1>1. CASE OverlaysActive(tracer) = "off"
  <2>1. p = page
    BY <1>1 DEF MappedAddress
  <2> QED  BY <1>1, <2>1
<1>2. CASE OverlaysActive(tracer) = "on"
  <2>1. tracer["port27"] # UNKNOWN /\ tracer["port28"] # UNKNOWN
    BY <1>2 DEF RangesKnown
  <2> DEFINE n27 == tracer["port27"]
             n28 == tracer["port28"]
             from == UpperOverlayStart(tracer)
             lower == <<2 * REGION, (2 * REGION + GRANULE * n28) - 1, Ram(1)>>
             upper == <<from, 4 * REGION - 1, Ram(0)>>
             over == {r \in ForcedRanges(tracer) : r[1] <= a /\ a <= r[2]}
  <2>2. /\ REGION \in Nat /\ REGION >= 1 /\ a \in Nat /\ a < 4 * REGION
        /\ GRANULE \in Nat /\ GRANULE >= 1
    BY Regions, MapperAssumption DEF Addresses
  <2>3. /\ n28 \in Nat /\ GRANULE * n28 \in Nat /\ GRANULE * n28 < REGION
        /\ n27 \in Nat /\ GRANULE * n27 \in Nat /\ GRANULE * n27 < REGION
    BY <2>1, OverlayBounds
  <2>4. /\ from \in Int /\ from > 3 * REGION
        /\ n27 = 0 => from >= 4 * REGION
    <3>1. n27 = 0 => GRANULE * n27 = 0
      BY <2>2
    <3> QED  BY <2>2, <2>3, <3>1, MapperAssumption
             DEF UpperOverlayStart, AtLeast
  <2>5. ForcedRanges(tracer) = (IF n28 = 0 THEN {} ELSE {lower})
                                   \cup (IF n27 = 0 THEN {} ELSE {upper})
    BY DEF ForcedRanges, LowerRange, UpperRange, UpperOverlayStart
  <2>6. n28 = 0 => GRANULE * n28 = 0
    BY <2>2
  <2> DEFINE inLower == 2 * REGION <= a /\ a <= (2 * REGION + GRANULE * n28) - 1
             inUpper == from <= a /\ a <= 4 * REGION - 1
  <2>7. /\ lower[1] <= a /\ a <= lower[2] <=> inLower
        /\ upper[1] <= a /\ a <= upper[2] <=> inUpper
        /\ lower[3] = Ram(1) /\ upper[3] = Ram(0)
    OBVIOUS
  <2>8. /\ inLower => n28 # 0 /\ ~inUpper
        /\ inUpper => n27 # 0
    BY <2>2, <2>3, <2>4, <2>6
  <2>9. /\ inLower => RegionOf(a) = 2 /\ a < LowerOverlayEnd(tracer)
        /\ inUpper => RegionOf(a) = 3 /\ a >= from
        /\ ~inLower => ~(RegionOf(a) = 2 /\ a < LowerOverlayEnd(tracer))
        /\ ~inUpper => ~(RegionOf(a) = 3 /\ a >= from)
    <3>1. LowerOverlayEnd(tracer) = 2 * REGION + GRANULE * n28
      BY DEF LowerOverlayEnd
    <3>2. /\ RegionOf(a) \in 0 .. 3
          /\ RegionOf(a) = 2 => 2 * REGION <= a /\ a < 3 * REGION
          /\ RegionOf(a) = 3 => 3 * REGION <= a /\ a < 4 * REGION
          /\ RegionOf(a) \notin {2, 3} => a < 2 * REGION
      BY Regions
    <3> HIDE DEF from
    <3> QED  BY <2>2, <2>3, <2>4, <3>1, <3>2
  <2>10. p = IF inLower THEN Ram(1) ELSE IF inUpper THEN Ram(0) ELSE page
    BY <1>2, <2>1, <2>8, <2>9 DEF MappedAddress
  <2> HIDE DEF lower, upper, inLower, inUpper, p, page
  <2>11. over = (IF inLower THEN {lower} ELSE {})
                    \cup (IF inUpper THEN {upper} ELSE {})
    BY <2>5, <2>7, <2>8
  <2>12. \/ over = {} /\ p = page
         \/ \E r \in over : over = {r} /\ p = r[3]
    BY <2>7, <2>8, <2>10, <2>11
  <2> QED  BY <1>2, <2>12 DEF p, page
<1> QED  BY <1>1, <1>2 DEF RangesKnown

\* The forced ranges reported are those that addresses resolve to.
THEOREM RangesReported == Spec => []ForcedRangesAgree
<1> QED  BY RangesAgree, Invariance, PTL

-----------------------------------------------------------------------------
(* Readback.  Where a port answers from its register, writing the answer   *)
(* back changes nothing, because a register holds no bit that a second     *)
(* write would drop.  Wabbitemu answers from the page in force: there the  *)
(* page selects itself again, if whole Flash chips fit the selector or     *)
(* whole selectors fit the chip.                                           *)

BANKS == {"bank_a", "bank_b", "bank_c"}

\* A bank register keeps nothing that a write would not keep.
BanksNormal ==
    \A port \in BANKS : Normalized(port, machine.reg[port]) = machine.reg[port]

Aligned == RAM_BIT % FLASH_PAGES = 0 \/ FLASH_PAGES % RAM_BIT = 0

LEMMA ModuloTwice ==
    \A n, m \in Nat :
        m # 0 => /\ n % m \in Nat /\ n % m < m /\ n % m <= n
                 /\ (n % m) % m = n % m
                 /\ n < m => n % m = n
OBVIOUS

LEMMA Division ==
    \A n, m \in Nat :
        m # 0 => /\ n \div m \in Nat /\ n % m \in Nat /\ n % m < m
                 /\ n = (n \div m) * m + (n % m)
OBVIOUS

LEMMA NormalizedTwice ==
    ASSUME NEW port \in BANKS, NEW v \in Nat
    PROVE  Normalized(port, Normalized(port, v)) = Normalized(port, v)
<1>1. \A n \in Nat : n # UNKNOWN
  BY DEF UNKNOWN
<1>2. 2 * RAM_PAGES \in Nat \ {0} /\ RAM_BIT \in Nat
  BY MapperAssumption
<1>3. /\ v % RAM_PAGES \in Nat /\ v % (2 * RAM_PAGES) \in Nat
      /\ v % FLASH_PAGES \in Nat /\ v % FLASH_PAGES <= v
      /\ (v % RAM_PAGES) % RAM_PAGES = v % RAM_PAGES
      /\ (v % (2 * RAM_PAGES)) % (2 * RAM_PAGES) = v % (2 * RAM_PAGES)
      /\ (v % FLASH_PAGES) % FLASH_PAGES = v % FLASH_PAGES
  <2>1. /\ RAM_PAGES \in Nat \ {0} /\ FLASH_PAGES \in Nat \ {0}
        /\ 2 * RAM_PAGES \in Nat \ {0}
    BY <1>2, MapperAssumption
  <2>2. \A m \in Nat \ {0} : v % m \in Nat /\ v % m <= v
                                /\ (v % m) % m = v % m
    BY ModuloTwice
  <2> QED  BY <2>1, <2>2
<1>4. v < RAM_BIT => v % FLASH_PAGES < RAM_BIT
  BY <1>2, <1>3
<1> QED  BY <1>1, <1>3, <1>4 DEF Normalized, BANKS

LEMMA BanksInit == Init => BanksNormal
<1> SUFFICES ASSUME Init PROVE BanksNormal
  OBVIOUS
<1>1. machine.reg = ResetRegisters(profile)
  BY DEF Init, ResetMapper
<1>2. /\ 0 % RAM_PAGES = 0 /\ 0 % (2 * RAM_PAGES) = 0
      /\ 0 % FLASH_PAGES = 0
  BY MapperAssumption
<1>3. LastPage % RAM_BIT \in Nat
  BY NatModulo, MapperAssumption DEF LastPage
<1>4. \A port \in BANKS :
         machine.reg[port] = IF profile = "TilEm" /\ port # "bank_c"
                             THEN LastPage % RAM_BIT ELSE 0
  BY <1>1 DEF ResetRegisters, BANKS, REGISTERS
<1> QED  BY <1>2, <1>3, <1>4 DEF BanksNormal, Normalized, BANKS

LEMMA BanksNext == Inv /\ BanksNormal /\ [Next]_vars => BanksNormal'
<1> SUFFICES ASSUME Inv, BanksNormal, [Next]_vars PROVE BanksNormal'
  OBVIOUS
<1>1. machine.reg \in [REGISTERS -> Nat]
  BY DEF Inv, TypeOK
<1>2. ASSUME machine'.reg = machine.reg, profile' = profile PROVE BanksNormal'
  BY <1>2 DEF BanksNormal, Normalized
<1>3. CASE UNCHANGED vars
  BY <1>2, <1>3 DEF vars
<1>4. ASSUME NEW region \in 1 .. 2, NEW fetch \in BOOLEAN,
             ReadAddress(region, fetch)
      PROVE  BanksNormal'
  <2>1. machine'.reg = machine.reg /\ profile' = profile
    BY <1>4 DEF ReadAddress, Inv, TypeOK
  <2> QED  BY <1>2, <2>1
<1>5. ASSUME NEW port \in REGISTERS, NEW visible \in BOOLEAN,
             NEW v \in Values[port], Out(port, v, visible)
      PROVE  BanksNormal'
  <2>1. v \in Nat
    BY MapperAssumption
  <2>2. machine'.reg = Written(machine.reg, port, v) /\ profile' = profile
    BY <1>5 DEF Out, Inv, TypeOK
  <2>3. CASE port \notin MappedPorts
    BY <1>2, <2>2, <2>3 DEF Written
  <2>4. CASE port \in MappedPorts
    <3>1. machine'.reg = [machine.reg EXCEPT ![port] = Normalized(port, v)]
      BY <2>2, <2>4 DEF Written
    <3>2. \A b \in BANKS :
             Normalized(b, machine'.reg[b]) = machine'.reg[b]
      <4> SUFFICES ASSUME NEW b \in BANKS
                   PROVE  Normalized(b, machine'.reg[b]) = machine'.reg[b]
        OBVIOUS
      <4>1. b \in REGISTERS
        BY DEF BANKS, REGISTERS
      <4>2. CASE b = port
        BY <1>1, <2>1, <3>1, <4>1, <4>2, NormalizedTwice
      <4>3. CASE b # port
        BY <1>1, <3>1, <4>1, <4>3 DEF BanksNormal
      <4> QED  BY <4>2, <4>3
    <3> QED  BY <2>2, <3>2 DEF BanksNormal, Normalized
  <2> QED  BY <2>3, <2>4
<1> QED  BY <1>3, <1>4, <1>5 DEF Next

THEOREM BanksStayNormal == Spec => [](Inv /\ BanksNormal)
<1> QED  BY InitInv, NextInv, BanksInit, BanksNext, PTL DEF Spec

\* A port that answers from its register gives back what it was given.
LEMMA RegisterReadback ==
    ASSUME Inv, BanksNormal, profile # "Wabbitemu"
    PROVE  Restored(machine.reg) = machine.reg
<1>1. machine.reg \in [REGISTERS -> Nat]
  BY DEF Inv, TypeOK
<1>2. \A port \in BANKS : Written(machine.reg, port, machine.reg[port])
                              = machine.reg
  BY <1>1 DEF Written, BanksNormal, BANKS
<1>3. \A port \in BANKS :
         ReadPort(machine.reg, port) = machine.reg[port]
  BY DEF ReadPort
<1> QED  BY <1>2, <1>3 DEF Restored, BANKS

\* The selector byte of a Flash page selects that page again.
LEMMA FlashAgain ==
    ASSUME NEW low \in Nat, low < RAM_BIT, NEW h \in Nat, Aligned
    PROVE  LET p == (low + RAM_BIT * h) % FLASH_PAGES
           IN  ((p % RAM_BIT) + RAM_BIT * h) % FLASH_PAGES = p
<1> DEFINE n == low + RAM_BIT * h
           p == n % FLASH_PAGES
           q == n \div FLASH_PAGES
<1>1. RAM_BIT \in Nat \ {0} /\ FLASH_PAGES \in Nat \ {0}
  BY MapperAssumption
<1>2. n \in Nat /\ RAM_BIT * h \in Nat
  BY <1>1
<1>3. q \in Nat /\ p \in Nat /\ p < FLASH_PAGES /\ n = q * FLASH_PAGES + p
  <2> HIDE DEF n
  <2> QED  BY <1>1, <1>2, Division DEF p, q
<1>4. CASE FLASH_PAGES % RAM_BIT = 0
  <2>1. PICK m \in Nat : FLASH_PAGES = m * RAM_BIT
    <3>1. /\ FLASH_PAGES = (FLASH_PAGES \div RAM_BIT) * RAM_BIT
          /\ FLASH_PAGES \div RAM_BIT \in Nat
      BY <1>1, <1>4, Division
    <3> QED  BY <1>1, <3>1
  <2>2. p % RAM_BIT = low
    <3> DEFINE k == q * m
    <3>1. k \in Nat /\ q * FLASH_PAGES = k * RAM_BIT
      <4> HIDE DEF q
      <4>1. q * (m * RAM_BIT) = (q * m) * RAM_BIT
        BY <1>1, <1>3, <2>1
      <4> QED  BY <1>3, <2>1, <4>1
    <3> HIDE DEF k
    <3>2. p = low + RAM_BIT * (h - k)
      BY <1>1, <1>3, <3>1
    <3> DEFINE j == h - k
    <3>3. j \in Int /\ p = low + RAM_BIT * j
      BY <3>1, <3>2
    <3> HIDE DEF j, p, n, q
    <3> QED  BY <1>1, <1>3, <3>3
  <2> QED  BY <2>2
<1>5. CASE RAM_BIT % FLASH_PAGES = 0
  <2>1. PICK m \in Nat : RAM_BIT = m * FLASH_PAGES
    <3>1. /\ RAM_BIT = (RAM_BIT \div FLASH_PAGES) * FLASH_PAGES
          /\ RAM_BIT \div FLASH_PAGES \in Nat
      BY <1>1, <1>5, Division
    <3> QED  BY <1>1, <3>1
  <2>2. FLASH_PAGES <= RAM_BIT
    BY <1>1, <2>1
  <2>3. p % RAM_BIT = p
    <3>1. p \in Nat /\ p < RAM_BIT
      BY <1>1, <1>3, <2>2
    <3> HIDE DEF p
    <3> QED  BY <1>1, <3>1, ModuloTwice
  <2> DEFINE k == m * h
  <2>4. k \in Nat /\ RAM_BIT * h = k * FLASH_PAGES
    BY <1>1, <2>1
  <2> HIDE DEF k, p, n, q
  <2>5. (p + k * FLASH_PAGES) % FLASH_PAGES = p
    BY <1>1, <1>3, <2>4
  <2>6. ((p % RAM_BIT) + RAM_BIT * h) % FLASH_PAGES = p
    BY <2>3, <2>4, <2>5
  <2> QED  BY <2>6 DEF p, n
<1> QED  BY <1>4, <1>5 DEF Aligned

\* What Wabbitemu answers in independent mode selects the page in force.
LEMMA SelectedAgain ==
    ASSUME NEW old, NEW new, NEW port \in BANKS, NEW v \in Nat, NEW h \in Nat,
           profile = "Wabbitemu", Aligned, old[port] = v,
           old[IF port = "bank_a" THEN "port0e" ELSE "port0f"] = h,
           new[IF port = "bank_a" THEN "port0e" ELSE "port0f"] = h,
           new[port] = IF port = "bank_c" THEN Selected(old, port).page % RAM_BIT
                       ELSE SelectorByte(Selected(old, port))
    PROVE  Selected(new, port) = Selected(old, port)
<1> DEFINE low == v % RAM_BIT
           r == low % RAM_PAGES
           p == (low + RAM_BIT * h) % FLASH_PAGES
           w == new[port]
<1>1. /\ RAM_BIT \in Nat \ {0} /\ RAM_PAGES \in Nat \ {0}
      /\ FLASH_PAGES \in Nat \ {0}
  BY MapperAssumption
<1>2. /\ low \in Nat /\ low < RAM_BIT
      /\ r \in Nat /\ r <= low /\ r % RAM_PAGES = r
  BY <1>1, ModuloTwice
<1>3. p \in Nat
  <2>1. low + RAM_BIT * h \in Nat
    BY <1>1, <1>2
  <2> QED  BY <1>1, <2>1, NatModulo
<1>4. \A n \in Nat : n # UNKNOWN
  BY DEF UNKNOWN
<1>5. /\ r % RAM_BIT = r
      /\ (RAM_BIT + r) % RAM_BIT = r
  <2> HIDE DEF r, low
  <2> QED  BY <1>1, <1>2
<1> HIDE DEF low, r, p
<1>6. CASE port = "bank_c" \/ v >= RAM_BIT
  <2>1. Selected(old, port) = Ram(r)
    BY <1>4, <1>6 DEF Selected, SelectedRam, r, low
  <2>2. w = IF port = "bank_c" THEN r ELSE RAM_BIT + r
    BY <1>5, <2>1 DEF SelectorByte, Ram
  <2>3. w \in Nat /\ (port # "bank_c" => w >= RAM_BIT) /\ w % RAM_BIT = r
    BY <1>1, <1>2, <1>5, <2>2
  <2>4. Selected(new, port) = SelectedRam(w)
    BY <1>4, <2>3 DEF Selected
  <2>5. SelectedRam(w) = Ram(r)
    BY <1>2, <2>3 DEF SelectedRam
  <2> QED  BY <2>1, <2>4, <2>5
<1>7. CASE ~(port = "bank_c" \/ v >= RAM_BIT)
  <2>1. FlashPage(low, h) = p
    BY <1>4 DEF FlashPage, p
  <2>2. Selected(old, port) = Flash(p)
    BY <1>3, <1>4, <1>7, <2>1 DEF Selected, SelectedFlash, low
  <2>3. w = p % RAM_BIT
    BY <1>7, <2>2 DEF SelectorByte, Flash
  <2>4. w \in Nat /\ w < RAM_BIT /\ w % RAM_BIT = w
    <3>1. /\ p % RAM_BIT \in Nat /\ p % RAM_BIT < RAM_BIT
          /\ (p % RAM_BIT) % RAM_BIT = p % RAM_BIT
      BY <1>1, <1>3, ModuloTwice
    <3> QED  BY <2>3, <3>1
  <2>5. Selected(new, port) = SelectedFlash(w, h)
    <3>1. w # UNKNOWN /\ ~(w >= RAM_BIT)
      BY <1>1, <1>4, <2>4
    <3> QED  BY <1>7, <3>1 DEF Selected
  <2>6. FlashPage(w, h) = (w + RAM_BIT * h) % FLASH_PAGES
    BY <1>4 DEF FlashPage
  <2>7. FlashPage(w, h) = p
    BY <1>2, <2>3, <2>6, FlashAgain DEF p
  <2>8. SelectedFlash(w, h) = Flash(p)
    BY <1>3, <1>4, <2>4, <2>7 DEF SelectedFlash
  <2> QED  BY <2>2, <2>5, <2>8
<1> QED  BY <1>6, <1>7

LEMMA ReadbackKept ==
    ASSUME Inv, BanksNormal, profile = "Wabbitemu" => Aligned
    PROVE  ReadbackRestores
<1> DEFINE reg == machine.reg
<1>1. CASE profile # "Wabbitemu"
  BY <1>1, RegisterReadback DEF ReadbackRestores
<1>2. CASE profile = "Wabbitemu" /\ reg["port4"] % 2 = 1
  BY <1>2 DEF ReadbackRestores
<1>3. CASE profile = "Wabbitemu" /\ reg["port4"] % 2 # 1
  <2> DEFINE new == Restored(reg)
  <2>1. reg \in [REGISTERS -> Nat]
    BY DEF Inv, TypeOK
  <2>2. new = [[[reg EXCEPT !["bank_c"] = Selected(reg, "bank_c").page % RAM_BIT]
                     EXCEPT !["bank_a"] = SelectorByte(Selected(reg, "bank_a"))]
                     EXCEPT !["bank_b"] = SelectorByte(Selected(reg, "bank_b"))]
    <3>1. \A r, x : \A port \in BANKS :
             Written(r, port, x) = [r EXCEPT ![port] = x]
      BY <1>3 DEF Written, MappedPorts, REGISTERS, BANKS, Normalized
    <3>2. /\ ReadPort(reg, "bank_c") = Selected(reg, "bank_c").page % RAM_BIT
          /\ ReadPort(reg, "bank_a") = SelectorByte(Selected(reg, "bank_a"))
          /\ ReadPort(reg, "bank_b") = SelectorByte(Selected(reg, "bank_b"))
      BY <1>3 DEF ReadPort
    <3> HIDE DEF reg
    <3> QED  BY <3>1, <3>2 DEF Restored, BANKS
  <2> HIDE DEF new, reg
  <2>3. /\ new["bank_c"] = Selected(reg, "bank_c").page % RAM_BIT
        /\ new["bank_a"] = SelectorByte(Selected(reg, "bank_a"))
        /\ new["bank_b"] = SelectorByte(Selected(reg, "bank_b"))
        /\ new["port4"] = reg["port4"] /\ new["port0e"] = reg["port0e"]
        /\ new["port0f"] = reg["port0f"]
    BY <2>1, <2>2, Registers
  <2>4. /\ reg["bank_a"] \in Nat /\ reg["bank_b"] \in Nat
        /\ reg["bank_c"] \in Nat /\ reg["port0e"] \in Nat
        /\ reg["port0f"] \in Nat
    BY <2>1, Registers
  <2>5. Selected(new, "bank_a") = Selected(reg, "bank_a")
    BY <1>3, <2>3, <2>4, SelectedAgain DEF BANKS
  <2>6. Selected(new, "bank_b") = Selected(reg, "bank_b")
    BY <1>3, <2>3, <2>4, SelectedAgain DEF BANKS
  <2>7. Selected(new, "bank_c") = Selected(reg, "bank_c")
    BY <1>3, <2>3, <2>4, SelectedAgain DEF BANKS
  <2>8. \A region : MappedPage(new, 0, region) = MappedPage(reg, 0, region)
    BY <1>3, <2>3, <2>5, <2>6, <2>7 DEF MappedPage, PagedRegions
  <2> QED  BY <2>8 DEF ReadbackRestores, reg, new
<1> QED  BY <1>1, <1>2, <1>3

\* Reading the bank ports and writing them back keeps the mapping, on every
\* part whose Flash is a whole number of selectors or divides one.  Without
\* that it fails: six Flash pages behind four selectors are a counterexample.
THEOREM ReadbackKeeps ==
    ASSUME Aligned
    PROVE  Spec => []ReadbackRestores
<1>1. Inv /\ BanksNormal => ReadbackRestores
  BY ReadbackKept
<1> QED  BY <1>1, BanksStayNormal, PTL

\* The implementations that answer from their registers need no such part.
THEOREM ReadbackByRegister ==
    Spec => [](profile # "Wabbitemu" => ReadbackRestores)
<1>1. Inv /\ BanksNormal => (profile # "Wabbitemu" => ReadbackRestores)
  BY ReadbackKept
<1> QED  BY <1>1, BanksStayNormal, PTL
=============================================================================
