---------------------- MODULE InterruptControllerProofs ----------------------
(***************************************************************************)
(* The interrupt controllers and the OS handler: types, the readback, the  *)
(* requests that an acknowledgement may take, and the legacy contract.     *)
(*                                                                         *)
(* Four facts make the properties inductive.  ServedIsFirst: a handler     *)
(* runs for a request, and serves the one its status byte names first.     *)
(* Masked: what the OS has enabled between two of its mask writes, so that *)
(* the later one takes no request that has come since.  StatusIsFresh:     *)
(* what a port 2 write stores back was pending when it was read, and       *)
(* nothing is acknowledged in between.  NoLink: MAME's link enable stays   *)
(* off.                                                                    *)
(***************************************************************************)
EXTENDS InterruptController, TLAPS

ServedIsFirst ==
    /\ cpu = "entry" => ctl.pending # {}
    /\ cpu = "ack" =>
           /\ served \in LEGACY_SOURCE_MASK
           /\ \A s \in status \cap LEGACY_SOURCE_MASK :
                  TestRank(served) <= TestRank(s)

Masked ==
    /\ cpu \in {"mask", "arm"} => Enabled = {}
    /\ cpu = "exit" => Enabled \subseteq {ON, TIMER1}

StatusIsFresh ==
    cpu = "port02" => status \cap LEGACY_SOURCE_MASK \subseteq ctl.pending

NoLink == emulator = "MAME" => ~ctl.link_activity_enabled

Inv ==
    /\ TypeOK /\ ServedIsFirst /\ Masked /\ ReadbackTellsTruth
    /\ StatusIsFresh /\ NoLink /\ ctl.pending \subseteq Enabled

USE DEF ON, TIMER1, TIMER2, RELEASED, POWERED, LINK

\* The bytes of port 3 and the sources, as sets of bit numbers.
LEMMA Bytes ==
    /\ \A v \in {x08, x09, x0A, x0B, x0F, x11} : v \in SUBSET (0 .. 4)
    /\ LEGACY_SOURCE_MASK \in SUBSET (0 .. 4)
    /\ Supported \subseteq LEGACY_SOURCE_MASK
BY DEF x08, x09, x0A, x0B, x0F, x11, LEGACY_SOURCE_MASK, Supported

\* A write to port 3, field by field.
LEMMA Write03Fields ==
    ASSUME TypeOK, NEW v \in SUBSET (0 .. 4), Write03(v)
    PROVE  /\ ctl' \in Controller
           /\ ctl'.pending = ctl.pending \cap v
           /\ ctl'.on_pressed = ctl.on_pressed
           /\ ctl'.on_enabled <=> ON \in v
           /\ emulator = "TilEm" =>
                 /\ ctl'.port03 = v
                 /\ ctl'.link_activity_enabled <=> LINK \in v
                 /\ ctl'.keep_power_during_halt <=> POWERED \in v
                 /\ ctl'.user_timer_no_halt_interrupt
                        <=> v \cap {TIMER1, TIMER2} = {}
           /\ emulator = "MAME" =>
                 /\ ctl'.timer_mask = v \cap {TIMER1, TIMER2}
                 /\ ctl'.link_activity_enabled = ctl.link_activity_enabled
<1>1. ctl \in Controller /\ emulator \in {"MAME", "TilEm"}
  BY DEF TypeOK
<1>2. CASE emulator = "MAME"
  <2>1. ctl' = MameWrite03(v)
    BY <1>2 DEF Write03
  <2>2. /\ ctl'.pending = ctl.pending \cap v
        /\ ctl'.on_pressed = ctl.on_pressed
        /\ ctl'.timer_mask = v \cap {TIMER1, TIMER2}
        /\ ctl'.link_activity_enabled = ctl.link_activity_enabled
    BY <1>1, <2>1 DEF MameWrite03, ClearedByZero, Controller
  <2>3. ctl'.on_enabled <=> ON \in v
    BY <1>1, <2>1 DEF MameWrite03, Controller
  <2>4. ctl' \in Controller
    <3> DEFINE on == ON \in v
               t  == v \cap {TIMER1, TIMER2}
               p  == ClearedByZero(v)
    <3>1. /\ on \in BOOLEAN /\ t \in SUBSET {TIMER1, TIMER2}
          /\ p \in SUBSET LEGACY_SOURCE_MASK
      BY <1>1 DEF ClearedByZero, Controller
    <3>2. ctl' = [ctl EXCEPT !.on_enabled = on, !.timer_mask = t, !.pending = p]
      BY <2>1 DEF MameWrite03
    <3> HIDE DEF on, t, p
    <3> QED  BY <1>1, <3>1, <3>2 DEF Controller
  <2> QED  BY <1>2, <2>2, <2>3, <2>4
<1>3. CASE emulator = "TilEm"
  <2>1. ctl' = TilemWrite03(v)
    BY <1>3 DEF Write03
  <2>2. /\ ctl'.pending = ctl.pending \cap v
        /\ ctl'.on_pressed = ctl.on_pressed
        /\ ctl'.port03 = v
    BY <1>1, <2>1 DEF TilemWrite03, ClearedByZero, Controller
  <2>3. /\ ctl'.on_enabled <=> ON \in v
        /\ ctl'.link_activity_enabled <=> LINK \in v
        /\ ctl'.keep_power_during_halt <=> POWERED \in v
    BY <1>1, <2>1 DEF TilemWrite03, Controller
  <2>4. ctl'.user_timer_no_halt_interrupt <=> v \cap {TIMER1, TIMER2} = {}
    BY <1>1, <2>1 DEF TilemWrite03, Controller
  <2>5. ctl' \in Controller
    <3> DEFINE on   == ON \in v
               keep == POWERED \in v
               link == LINK \in v
               none == v \cap {TIMER1, TIMER2} = {}
               p    == ClearedByZero(v)
    <3>1. /\ on \in BOOLEAN /\ keep \in BOOLEAN /\ link \in BOOLEAN
          /\ none \in BOOLEAN /\ p \in SUBSET LEGACY_SOURCE_MASK
      BY <1>1 DEF ClearedByZero, Controller
    <3>2. ctl' = [ctl EXCEPT !.port03 = v, !.on_enabled = on,
                             !.keep_power_during_halt = keep,
                             !.link_activity_enabled = link, !.pending = p,
                             !.user_timer_no_halt_interrupt = none]
      BY <2>1 DEF TilemWrite03
    <3> HIDE DEF on, keep, link, none, p
    <3> QED  BY <1>1, <3>1, <3>2 DEF Controller
  <2> QED  BY <1>3, <2>2, <2>3, <2>4, <2>5
<1> QED  BY <1>1, <1>2, <1>3

LEMMA SampledFields ==
    ASSUME TypeOK, NEW pressed \in BOOLEAN, NEW c, c = SampledOn(pressed)
    PROVE  /\ c \in Controller
           /\ c.port03 = ctl.port03 /\ c.on_enabled = ctl.on_enabled
           /\ c.timer_mask = ctl.timer_mask
           /\ c.link_activity_enabled = ctl.link_activity_enabled
           /\ c.keep_power_during_halt = ctl.keep_power_during_halt
           /\ c.user_timer_no_halt_interrupt = ctl.user_timer_no_halt_interrupt
           /\ c.on_pressed = pressed
           /\ ctl.pending \subseteq c.pending
           /\ c.pending \subseteq ctl.pending \cup {ON}
           /\ ON \in c.pending \ ctl.pending => ctl.on_enabled
BY DEF SampledOn, TypeOK, Controller, LEGACY_SOURCE_MASK

LEMMA TickedFields ==
    ASSUME NEW c \in Controller, NEW timer \in {TIMER1, TIMER2}
    PROVE  /\ Ticked(c, timer) \in Controller
           /\ Ticked(c, timer).port03 = c.port03
           /\ Ticked(c, timer).on_enabled = c.on_enabled
           /\ Ticked(c, timer).timer_mask = c.timer_mask
           /\ Ticked(c, timer).link_activity_enabled = c.link_activity_enabled
           /\ Ticked(c, timer).keep_power_during_halt = c.keep_power_during_halt
           /\ Ticked(c, timer).user_timer_no_halt_interrupt
                 = c.user_timer_no_halt_interrupt
           /\ Ticked(c, timer).on_pressed = c.on_pressed
           /\ c.pending \subseteq Ticked(c, timer).pending
           /\ Ticked(c, timer).pending \subseteq c.pending \cup {timer}
           /\ timer \in Ticked(c, timer).pending \ c.pending
                 => timer \in TimerMask(c)
BY DEF Ticked, Controller, LEGACY_SOURCE_MASK

\* A step of the world: enables and readback stay, requests come only from
\* enabled sources, and none goes.
Arrivals ==
    /\ ctl' \in Controller /\ emulator' = emulator
    /\ ctl'.port03 = ctl.port03 /\ ctl'.on_enabled = ctl.on_enabled
    /\ ctl'.timer_mask = ctl.timer_mask
    /\ ctl'.link_activity_enabled = ctl.link_activity_enabled
    /\ ctl'.keep_power_during_halt = ctl.keep_power_during_halt
    /\ ctl'.user_timer_no_halt_interrupt = ctl.user_timer_no_halt_interrupt
    /\ ctl.pending \subseteq ctl'.pending
    /\ ctl'.pending \subseteq ctl.pending \cup Enabled

LEMMA KeyArrives == TypeOK /\ KeyMoves => Arrivals
<1> SUFFICES ASSUME TypeOK, KeyMoves PROVE Arrivals
  OBVIOUS
<1>1. key' \in BOOLEAN /\ emulator' = emulator /\ ctl \in Controller
  BY DEF TypeOK, KeyMoves
<1>2. CASE ctl' = ctl
  BY <1>1, <1>2 DEF Arrivals
<1>3. CASE ctl' = SampledOn(key')
  <2>1. ctl.on_enabled => ON \in Enabled
    BY DEF Enabled
  <2> QED  BY <1>1, <1>3, <2>1, SampledFields DEF Arrivals
<1> QED  BY <1>2, <1>3 DEF KeyMoves

LEMMA Timer1Arrives == TypeOK /\ Timer1Fires => Arrivals
<1> SUFFICES ASSUME TypeOK, Timer1Fires PROVE Arrivals
  OBVIOUS
<1>1. key \in BOOLEAN /\ emulator' = emulator /\ ctl \in Controller
  BY DEF TypeOK, Timer1Fires
<1>2. /\ ctl.on_enabled => ON \in Enabled
      /\ TIMER1 \in TimerMask(ctl) => TIMER1 \in Enabled
  BY DEF Enabled
<1>3. CASE emulator = "MAME"
  <2> DEFINE c == SampledOn(key)
  <2>1. ctl' = Ticked(c, TIMER1)
    BY <1>3 DEF Timer1Fires
  <2>2. /\ c \in Controller
        /\ c.port03 = ctl.port03 /\ c.on_enabled = ctl.on_enabled
        /\ c.timer_mask = ctl.timer_mask
        /\ c.link_activity_enabled = ctl.link_activity_enabled
        /\ c.keep_power_during_halt = ctl.keep_power_during_halt
        /\ c.user_timer_no_halt_interrupt = ctl.user_timer_no_halt_interrupt
        /\ ctl.pending \subseteq c.pending
        /\ c.pending \subseteq ctl.pending \cup {ON}
        /\ ON \in c.pending \ ctl.pending => ctl.on_enabled
    BY <1>1, SampledFields
  <2>3. TimerMask(c) = TimerMask(ctl)
    BY <2>2 DEF TimerMask
  <2> HIDE DEF c
  <2> QED  BY <1>1, <1>2, <2>1, <2>2, <2>3, TickedFields DEF Arrivals
<1>4. CASE emulator # "MAME"
  <2>1. ctl' = Ticked(ctl, TIMER1)
    BY <1>4 DEF Timer1Fires
  <2> QED  BY <1>1, <1>2, <2>1, TickedFields DEF Arrivals
<1> QED  BY <1>3, <1>4

LEMMA Timer2Arrives == TypeOK /\ Timer2Fires => Arrivals
<1> SUFFICES ASSUME TypeOK, Timer2Fires PROVE Arrivals
  OBVIOUS
<1>1. /\ emulator' = emulator /\ ctl \in Controller
      /\ ctl' = Ticked(ctl, TIMER2)
  BY DEF TypeOK, Timer2Fires
<1>2. TIMER2 \in TimerMask(ctl) => TIMER2 \in Enabled
  BY DEF Enabled
<1> QED  BY <1>1, <1>2, TickedFields DEF Arrivals

LEMMA LinkArrives == TypeOK /\ LinkMoves => Arrivals
<1> SUFFICES ASSUME TypeOK, LinkMoves PROVE Arrivals
  OBVIOUS
<1>1. /\ ctl \in Controller /\ emulator' = emulator
      /\ ctl.link_activity_enabled
      /\ ctl' = [ctl EXCEPT !.pending = ctl.pending \cup {LINK}]
  BY DEF TypeOK, LinkMoves
<1>2. LINK \in Enabled
  BY <1>1 DEF Enabled
<1>3. /\ ctl'.pending = ctl.pending \cup {LINK}
      /\ ctl' \in Controller
  BY <1>1 DEF Controller, LEGACY_SOURCE_MASK
<1> QED  BY <1>1, <1>2, <1>3 DEF Arrivals, Controller

\* The part of the invariant that is about the controller.
Registers ==
    /\ emulator \in {"MAME", "TilEm"} /\ ctl \in Controller
    /\ ReadbackTellsTruth /\ NoLink /\ ctl.pending \subseteq Enabled

LEMMA SameEnables ==
    ASSUME emulator' = emulator, ctl'.port03 = ctl.port03,
           ctl'.on_enabled = ctl.on_enabled, ctl'.timer_mask = ctl.timer_mask,
           ctl'.link_activity_enabled = ctl.link_activity_enabled
    PROVE  Enabled' = Enabled
BY DEF Enabled, TimerMask

LEMMA ArrivalsKeep ==
    ASSUME Registers, Arrivals, cpu' = cpu
    PROVE  Registers'
<1>1. Enabled' = Enabled
  BY SameEnables DEF Arrivals
<1>2. ReadbackTellsTruth'
  BY <1>1 DEF Registers, Arrivals, ReadbackTellsTruth
<1> QED  BY <1>1, <1>2 DEF Registers, Arrivals, NoLink

LEMMA MaskKeeps ==
    ASSUME Registers, TypeOK, emulator' = emulator,
           NEW v \in SUBSET (0 .. 4), Write03(v)
    PROVE  Registers' /\ Enabled' = v \cap Supported
<1>1. Enabled' = v \cap Supported
  <2>1. CASE emulator = "MAME"
    <3>1. ~ctl'.link_activity_enabled
      BY <2>1, Write03Fields DEF Registers, NoLink
    <3> QED  BY <2>1, <3>1, Write03Fields DEF Enabled, TimerMask, Supported
  <2>2. CASE emulator = "TilEm"
    BY <2>2, Write03Fields
    DEF Enabled, TimerMask, Supported, LEGACY_SOURCE_MASK
  <2> QED  BY <2>1, <2>2 DEF Registers
<1>2. ctl'.pending \subseteq Enabled'
  <2>1. Enabled \subseteq Supported
    BY DEF Registers, Enabled, TimerMask, Supported, LEGACY_SOURCE_MASK,
           Controller, NoLink
  <2> QED  BY <1>1, <2>1, Write03Fields DEF Registers
<1>3. ReadbackTellsTruth'
  <2>1. CASE emulator = "TilEm"
    <3>1. Enabled' \cap {TIMER1, TIMER2} = v \cap {TIMER1, TIMER2}
      BY <1>1, <2>1 DEF Supported, LEGACY_SOURCE_MASK
    <3>2. /\ ctl'.on_enabled \in BOOLEAN
          /\ ctl'.link_activity_enabled \in BOOLEAN
          /\ ctl'.keep_power_during_halt \in BOOLEAN
          /\ ctl'.user_timer_no_halt_interrupt \in BOOLEAN
      BY Write03Fields DEF Controller
    <3>3. ctl'.port03 = v /\ (ctl'.on_enabled <=> ON \in v)
      BY <2>1, Write03Fields
    <3>4. (ON \in ctl'.port03) = ctl'.on_enabled
      BY <3>2, <3>3
    <3>5. (LINK \in ctl'.port03) = ctl'.link_activity_enabled
      BY <2>1, <3>2, <3>3, Write03Fields
    <3>6. (POWERED \in ctl'.port03) = ctl'.keep_power_during_halt
      BY <2>1, <3>2, <3>3, Write03Fields
    <3>7. (Enabled' \cap {TIMER1, TIMER2} = {})
              = ctl'.user_timer_no_halt_interrupt
      BY <2>1, <3>1, <3>2, Write03Fields
    <3> QED  BY <3>4, <3>5, <3>6, <3>7 DEF ReadbackTellsTruth
  <2>2. CASE emulator # "TilEm"
    BY <2>2 DEF ReadbackTellsTruth
  <2> QED  BY <2>1, <2>2
<1>4. NoLink'
  BY Write03Fields DEF NoLink, Registers
<1> QED  BY <1>1, <1>2, <1>3, <1>4, Write03Fields DEF Registers

LEMMA SameRegisters ==
    ASSUME Registers, emulator' = emulator, ctl' = ctl,
           cpu = "boot" => cpu' = "boot"
    PROVE  Registers'
<1>1. Enabled' = Enabled
  BY DEF Enabled, TimerMask
<1> QED  BY <1>1 DEF Registers, ReadbackTellsTruth, NoLink

LEMMA Write02Fields ==
    ASSUME TypeOK, StatusIsFresh, cpu = "port02", NEW v, v \subseteq status,
           Write02(v)
    PROVE  /\ ctl' = [ctl EXCEPT !.pending = ctl'.pending]
           /\ ctl'.pending = ctl.pending \cap v
              \/ ctl'.pending = ctl.pending \cap (v \cap Supported)
           /\ ctl'.pending \in SUBSET LEGACY_SOURCE_MASK
           /\ ctl'.pending \subseteq ctl.pending
           /\ ctl.pending \cap v \cap Supported \subseteq ctl'.pending
<1>1. ctl \in Controller
  BY DEF TypeOK
<1>2. CASE emulator = "MAME"
  <2>1. ctl' = [ctl EXCEPT !.pending = v \cap Supported]
    BY <1>2 DEF Write02
  <2>2. v \cap Supported \subseteq ctl.pending
    BY <1>2, Bytes DEF StatusIsFresh, Supported
  <2> QED  BY <1>1, <2>1, <2>2 DEF Controller
<1>3. CASE emulator # "MAME"
  <2>1. ctl' = [ctl EXCEPT !.pending = ctl.pending \cap v]
    BY <1>3 DEF Write02, ClearedByZero
  <2> QED  BY <1>1, <2>1 DEF Controller
<1> QED  BY <1>2, <1>3

LEMMA Write02Keeps ==
    ASSUME Registers, TypeOK, StatusIsFresh, cpu = "port02", NEW v,
           v \subseteq status, Write02(v), emulator' = emulator, cpu' = "main"
    PROVE  Registers'
<1>1. ctl \in Controller
  BY DEF TypeOK
<1>2. /\ ctl'.port03 = ctl.port03 /\ ctl'.on_enabled = ctl.on_enabled
      /\ ctl'.timer_mask = ctl.timer_mask
      /\ ctl'.link_activity_enabled = ctl.link_activity_enabled
      /\ ctl'.keep_power_during_halt = ctl.keep_power_during_halt
      /\ ctl'.user_timer_no_halt_interrupt = ctl.user_timer_no_halt_interrupt
      /\ ctl' \in Controller
  BY <1>1, Write02Fields DEF Controller
<1>3. Enabled' = Enabled
  BY <1>2, SameEnables
<1>4. ctl'.pending \subseteq ctl.pending
  BY Write02Fields
<1> QED  BY <1>2, <1>3, <1>4 DEF Registers, ReadbackTellsTruth, NoLink

\* The part of the invariant that is about the OS.
Service ==
    /\ key \in BOOLEAN /\ cpu \in Positions
    /\ status \in SUBSET (0 .. 4) /\ served \in 0 .. 4
    /\ second \in BOOLEAN /\ asleep \in BOOLEAN
    /\ ServedIsFirst /\ Masked /\ StatusIsFresh

LEMMA InvParts == Inv <=> Registers /\ Service
BY DEF Inv, Registers, Service, TypeOK

LEMMA InvPartsNext == Registers' /\ Service' => Inv'
BY DEF Inv, Registers, Service, TypeOK

LEMMA WorldKeeps ==
    ASSUME Inv, Arrivals, key' \in BOOLEAN,
           UNCHANGED <<cpu, status, served, second, asleep>>
    PROVE  Inv'
<1>1. Registers /\ Service
  BY InvParts
<1>2. Registers' /\ Enabled' = Enabled
  BY <1>1, ArrivalsKeep, SameEnables DEF Arrivals
<1>3. ctl.pending \subseteq ctl'.pending
  BY DEF Arrivals
<1>4. ServedIsFirst'
  BY <1>1, <1>3 DEF Service, ServedIsFirst
<1>5. Masked'
  BY <1>1, <1>2 DEF Service, Masked
<1>6. StatusIsFresh'
  BY <1>1, <1>3 DEF Service, StatusIsFresh
<1>7. Service'
  BY <1>1, <1>4, <1>5, <1>6 DEF Service
<1> QED  BY <1>2, <1>7, InvPartsNext

LEMMA WorldSteps == Inv /\ World => Inv'
<1> SUFFICES ASSUME Inv, World PROVE Inv'
  OBVIOUS
<1>1. TypeOK /\ key \in BOOLEAN /\ Registers /\ Service
  BY InvParts DEF Inv, TypeOK
<1>2. CASE KeyMoves
  BY <1>1, <1>2, KeyArrives, WorldKeeps DEF KeyMoves
<1>3. CASE Timer1Fires
  BY <1>1, <1>3, Timer1Arrives, WorldKeeps DEF Timer1Fires
<1>4. CASE Timer2Fires
  BY <1>1, <1>4, Timer2Arrives, WorldKeeps DEF Timer2Fires, os
<1>5. CASE LinkMoves
  BY <1>1, <1>5, LinkArrives, WorldKeeps DEF LinkMoves, os
<1>6. CASE SoftReset
  <2>1. Registers'
    <3>1. CASE emulator = "MAME"
      <4>1. emulator' = emulator /\ ctl' = ctl /\ cpu' = "boot"
        BY <1>6, <3>1 DEF SoftReset
      <4> QED  BY <1>1, <4>1, SameRegisters
    <3>2. CASE emulator = "TilEm"
      <4>1. /\ emulator' = "TilEm" /\ cpu' = "boot"
            /\ ctl' = TilemReset(ctl.keep_power_during_halt)
        BY <1>6, <3>2 DEF SoftReset
      <4>2. ctl.keep_power_during_halt \in BOOLEAN
        BY <1>1 DEF Registers, Controller
      <4>3. ctl' \in Controller /\ ctl'.pending = {}
        BY <4>1, <4>2 DEF TilemReset, Controller, x0B
      <4> QED  BY <4>1, <4>3 DEF Registers, ReadbackTellsTruth, NoLink
    <3> QED  BY <1>1, <3>1, <3>2 DEF Registers
  <2>2. /\ cpu' = "boot" /\ asleep' = FALSE /\ status' = {}
        /\ served' = RELEASED /\ second' = second
    BY <1>6 DEF SoftReset
  <2>3. key' \in BOOLEAN
    BY <1>1, <1>6 DEF SoftReset
  <2>4. ServedIsFirst' /\ Masked' /\ StatusIsFresh'
    BY <2>2 DEF ServedIsFirst, Masked, StatusIsFresh
  <2>5. Service'
    <3>1. cpu' \in Positions /\ asleep' \in BOOLEAN
      BY <2>2 DEF Positions
    <3>2. served' \in 0 .. 4 /\ status' \in SUBSET (0 .. 4)
      BY <2>2
    <3>3. second' \in BOOLEAN
      BY <1>1, <2>2 DEF Service
    <3> QED  BY <2>3, <2>4, <3>1, <3>2, <3>3 DEF Service
  <2> QED  BY <2>1, <2>5, InvPartsNext
<1> QED  BY <1>2, <1>3, <1>4, <1>5, <1>6 DEF World

\* RomTest finds the first of the sources that are set.
LEMMA TestOrder ==
    ASSUME NEW s \in SUBSET (0 .. 4)
    PROVE  /\ RomTest(s) \in 0 .. 4
           /\ s \cap LEGACY_SOURCE_MASK # {} =>
                  RomTest(s) \in s \cap LEGACY_SOURCE_MASK
           /\ \A x \in s \cap LEGACY_SOURCE_MASK :
                  TestRank(RomTest(s)) <= TestRank(x)
BY DEF RomTest, TestRank, LEGACY_SOURCE_MASK

\* What the written bytes leave enabled.
LEMMA MaskBits ==
    /\ x08 \cap Supported = {}
    /\ x0A \cap Supported \subseteq {ON, TIMER1}
    /\ x09 \cap Supported \subseteq {ON, TIMER1}
BY DEF x08, x09, x0A, Supported, LEGACY_SOURCE_MASK

LEMMA HandlerSteps == Inv /\ Handler => Inv'
<1> SUFFICES ASSUME Inv, Handler PROVE Inv'
  OBVIOUS
<1>1. TypeOK /\ Registers /\ Service
  BY InvParts DEF Inv
<1>2. CASE ReadStatus
  <2>1. Registers'
    BY <1>1, <1>2, SameRegisters DEF ReadStatus, At
  <2>2. Status \in SUBSET (0 .. 4) /\ ctl.pending \subseteq Status
        /\ ctl.pending \subseteq LEGACY_SOURCE_MASK
    BY <1>1 DEF Status, Registers, Controller, LEGACY_SOURCE_MASK
  <2>3. /\ cpu' = "ack" /\ ctl' = ctl /\ key' = key /\ second' = second
        /\ asleep' = asleep /\ status' = Status /\ served' = RomTest(Status)
        /\ cpu = "entry"
    BY <1>2 DEF ReadStatus, At
  <2>4. Status \cap LEGACY_SOURCE_MASK # {}
    BY <1>1, <2>2, <2>3 DEF Service, ServedIsFirst
  <2>5. served' \in 0 .. 4 /\ served' \in LEGACY_SOURCE_MASK
        /\ \A x \in status' \cap LEGACY_SOURCE_MASK :
               TestRank(served') <= TestRank(x)
    BY <2>2, <2>3, <2>4, TestOrder
  <2>6. ServedIsFirst'
    BY <2>3, <2>5, Zenon DEF ServedIsFirst, TestRank
  <2>7. Masked' /\ StatusIsFresh'
    BY <2>3 DEF Masked, StatusIsFresh
  <2> QED  BY <1>1, <2>1, <2>2, <2>3, <2>5, <2>6, <2>7, InvPartsNext
           DEF Service, Positions
<1>3. CASE AckClears
  <2>1. Write03(x08) /\ cpu' = "mask" /\ cpu = "ack" /\ emulator' = emulator
    BY <1>3 DEF AckClears, At
  <2>2. Registers' /\ Enabled' = {}
    BY <1>1, <2>1, Bytes, MaskKeeps, MaskBits
  <2> QED  BY <1>1, <1>3, <2>1, <2>2, InvPartsNext
           DEF AckClears, Service, Positions, ServedIsFirst, Masked,
               StatusIsFresh
<1>4. CASE AckRestores
  <2> DEFINE v == IF served = ON THEN x0A ELSE x09
  <2>1. Write03(v) /\ cpu' = "exit" /\ cpu = "mask" /\ emulator' = emulator
    BY <1>4 DEF AckRestores, At
  <2>2. v \in {x0A, x09}
    OBVIOUS
  <2> HIDE DEF v
  <2>3. Registers' /\ Enabled' \subseteq {ON, TIMER1}
    BY <1>1, <2>1, <2>2, Bytes, MaskKeeps, MaskBits
  <2> QED  BY <1>1, <1>4, <2>1, <2>3, InvPartsNext
           DEF AckRestores, Service, Positions, ServedIsFirst, Masked,
               StatusIsFresh
<1>5. CASE ExitHandler
  <2>1. /\ \/ cpu' = "main" /\ \E v \in {x0B, x0F} : Write03(v)
           \/ cpu' = "arm" /\ Write03(x08)
        /\ cpu = "exit" /\ emulator' = emulator
        /\ asleep' \in BOOLEAN
    BY <1>1, <1>5 DEF ExitHandler, Service
  <2>2. Registers' /\ (cpu' = "arm" => Enabled' = {})
    BY <1>1, <2>1, Bytes, MaskKeeps, MaskBits
  <2>3. UNCHANGED <<key, status, served, second>>
    BY <1>5 DEF ExitHandler
  <2> QED  BY <1>1, <2>1, <2>2, <2>3, InvPartsNext
           DEF Service, Positions, ServedIsFirst, Masked, StatusIsFresh
<1> QED  BY <1>2, <1>3, <1>4, <1>5 DEF Handler

LEMMA MainSteps ==
    Inv /\ (Boot \/ AskForTimer2 \/ Interrupt \/ ShutDown \/ Arm) => Inv'
<1> SUFFICES ASSUME Inv, Boot \/ AskForTimer2 \/ Interrupt \/ ShutDown \/ Arm
             PROVE  Inv'
  OBVIOUS
<1>1. TypeOK /\ Registers /\ Service
  BY InvParts DEF Inv
<1>2. CASE Boot \/ ShutDown \/ Arm
  <2>1. /\ \/ cpu' \in {"main", "halt"} /\ \E v \in {x0B, x11} : Write03(v)
           \/ cpu' = "arm" /\ Write03(x08)
        /\ cpu \in {"boot", "main", "arm"}
        /\ emulator' = emulator /\ UNCHANGED <<key, status, served, second>>
        /\ asleep' \in BOOLEAN
    BY <1>1, <1>2 DEF Boot, ShutDown, Arm, At, Service
  <2>2. Registers' /\ (cpu' = "arm" => Enabled' = {})
    BY <1>1, <2>1, Bytes, MaskKeeps, MaskBits
  <2> QED  BY <1>1, <2>1, <2>2, InvPartsNext
           DEF Service, Positions, ServedIsFirst, Masked, StatusIsFresh
<1>3. CASE AskForTimer2
  <2>1. Registers'
    BY <1>1, <1>3, SameRegisters DEF AskForTimer2
  <2> QED  BY <1>1, <1>3, <2>1, InvPartsNext
           DEF AskForTimer2, Service, ServedIsFirst, Masked, StatusIsFresh
<1>4. CASE Interrupt
  <2>1. Registers'
    BY <1>1, <1>4, SameRegisters DEF Interrupt
  <2> QED  BY <1>1, <1>4, <2>1, InvPartsNext
           DEF Interrupt, Service, Positions, ServedIsFirst, Masked,
               StatusIsFresh
<1> QED  BY <1>2, <1>3, <1>4

LEMMA Port02Steps ==
    ASSUME Inv,
           ReadForPort02 \/ \E s \in LEGACY_SOURCE_MASK : WriteBackPort02(s)
    PROVE  Inv'
<1>1. TypeOK /\ Registers /\ Service
  BY InvParts DEF Inv
<1>2. CASE ReadForPort02
  <2>1. Registers'
    BY <1>1, <1>2, SameRegisters DEF ReadForPort02, At
  <2>2. Status \in SUBSET (0 .. 4)
        /\ Status \cap LEGACY_SOURCE_MASK \subseteq ctl.pending
    BY <1>1 DEF Status, Registers, Controller, LEGACY_SOURCE_MASK
  <2> QED  BY <1>1, <1>2, <2>1, <2>2, InvPartsNext
           DEF ReadForPort02, At, Service, Positions, ServedIsFirst, Masked,
               StatusIsFresh
<1>3. CASE \E s \in LEGACY_SOURCE_MASK : WriteBackPort02(s)
  <2>1. PICK s \in LEGACY_SOURCE_MASK : WriteBackPort02(s)
    BY <1>3
  <2> DEFINE v == status \ {s}
  <2>2. /\ Write02(v) /\ v \subseteq status /\ cpu = "port02" /\ cpu' = "main"
        /\ emulator' = emulator
        /\ UNCHANGED <<key, status, served, second, asleep>>
    BY <2>1 DEF WriteBackPort02, At
  <2> HIDE DEF v
  <2>3. StatusIsFresh
    BY <1>1 DEF Service
  <2>4. Registers'
    BY <1>1, <2>2, <2>3, Write02Keeps
  <2> QED  BY <1>1, <2>2, <2>4, InvPartsNext
           DEF Service, Positions, ServedIsFirst, Masked, StatusIsFresh
<1> QED  BY <1>2, <1>3

LEMMA InitInv == Init => Inv
<1> SUFFICES ASSUME Init PROVE Inv
  OBVIOUS
<1>1. Registers
  <2>1. CASE emulator = "MAME"
    BY <2>1 DEF Init, MameReset, Registers, Controller, ReadbackTellsTruth,
                NoLink
  <2>2. CASE emulator = "TilEm"
    <3>1. ctl = TilemReset(TRUE) /\ cpu = "boot"
      BY <2>2 DEF Init
    <3>2. ctl \in Controller /\ ctl.pending = {}
      BY <3>1 DEF TilemReset, Controller, x0B
    <3> QED  BY <2>2, <3>1, <3>2 DEF Registers, ReadbackTellsTruth, NoLink
  <2> QED  BY <2>1, <2>2 DEF Init
<1>2. Service
  <2>1. /\ key = FALSE /\ cpu = "boot" /\ status = {} /\ served = RELEASED
        /\ second = FALSE /\ asleep = FALSE
    BY DEF Init
  <2>2. ServedIsFirst /\ Masked /\ StatusIsFresh
    BY <2>1 DEF ServedIsFirst, Masked, StatusIsFresh
  <2>3. cpu \in Positions /\ asleep \in BOOLEAN
    BY <2>1 DEF Positions
  <2>4. served \in 0 .. 4 /\ status \in SUBSET (0 .. 4)
    BY <2>1
  <2>5. second \in BOOLEAN /\ key \in BOOLEAN
    BY <2>1
  <2> QED  BY <2>2, <2>3, <2>4, <2>5 DEF Service
<1> QED  BY <1>1, <1>2, InvParts

LEMMA NextInv == Inv /\ [Next]_vars => Inv'
<1> SUFFICES ASSUME Inv, [Next]_vars PROVE Inv'
  OBVIOUS
<1>1. CASE UNCHANGED vars
  <2>1. Registers'
    BY <1>1, InvParts, SameRegisters DEF vars, os
  <2>2. Enabled' = Enabled
    BY <1>1 DEF vars, Enabled, TimerMask
  <2> QED  BY <1>1, <2>1, <2>2, InvParts, InvPartsNext
           DEF vars, os, Service, ServedIsFirst, Masked, StatusIsFresh
<1> QED  BY <1>1, WorldSteps, HandlerSteps, MainSteps, Port02Steps DEF Next
THEOREM Invariance == Spec => []Inv
<1> QED  BY InitInv, NextInv, PTL DEF Spec

\* Every field keeps its kind and only legacy sources are pending.
THEOREM TypeCorrect == Spec => []TypeOK
<1>1. Inv => TypeOK
  BY DEF Inv
<1> QED  BY <1>1, Invariance, PTL

\* A mask that keeps what is enabled takes no request.
LEMMA MaskTakes ==
    ASSUME Inv, emulator' = emulator, NEW v \in SUBSET (0 .. 4), Write03(v),
           Enabled \cap LEGACY_SOURCE_MASK \subseteq v
    PROVE  ctl.pending \subseteq ctl'.pending
BY Write03Fields DEF Inv, TypeOK, Controller

\* The steps that may take a request are those RequestsAreHeard lists.
LEMMA TakenOnlySo ==
    ASSUME Inv, [Next]_vars, NEW s \in ctl.pending \ ctl'.pending
    PROVE  \/ Answered(s) \/ CameLate(s) \/ WriteBackPort02(s)
           \/ cpu' \in {"arm", "boot"} \/ cpu = "boot"
<1>1. /\ TypeOK /\ Masked /\ ServedIsFirst /\ s \in LEGACY_SOURCE_MASK
      /\ s \in Enabled /\ Enabled \subseteq Supported
  <2>1. Enabled \subseteq Supported
    BY DEF Inv, TypeOK, Enabled, TimerMask, Supported, LEGACY_SOURCE_MASK,
           Controller, NoLink
  <2> QED  BY <2>1 DEF Inv, TypeOK, Controller
<1>2. CASE World
  <2>1. CASE SoftReset
    BY <2>1 DEF SoftReset
  <2>2. CASE KeyMoves \/ Timer1Fires \/ Timer2Fires \/ LinkMoves
    BY <1>1, <2>2, KeyArrives, Timer1Arrives, Timer2Arrives, LinkArrives
    DEF Arrivals
  <2> QED  BY <1>2, <2>1, <2>2 DEF World
<1>3. CASE AckClears
  BY <1>1, <1>3 DEF AckClears, At, ServedIsFirst, Answered, CameLate
<1>4. CASE AckRestores
  BY <1>1, <1>4 DEF AckRestores, At, Masked
<1>5. CASE ExitHandler
  <2>1. CASE cpu' = "arm"
    BY <2>1
  <2>2. CASE cpu' # "arm"
    <3>1. /\ \E v \in {x0B, x0F} : Write03(v)
          /\ cpu = "exit" /\ emulator' = emulator
      BY <1>5, <2>2 DEF ExitHandler
    <3>2. {ON, TIMER1} \subseteq x0B /\ {ON, TIMER1} \subseteq x0F
      BY DEF x0B, x0F
    <3> QED  BY <1>1, <3>1, <3>2, Bytes, MaskTakes DEF Masked
  <2> QED  BY <2>1, <2>2
<1>6. CASE Boot \/ ShutDown
  BY <1>6 DEF Boot, ShutDown, At
<1>7. CASE Arm
  BY <1>1, <1>7 DEF Arm, At, Masked
<1>8. CASE \/ UNCHANGED vars \/ ReadStatus \/ Interrupt \/ AskForTimer2
           \/ ReadForPort02
  BY <1>8 DEF vars, ReadStatus, Interrupt, AskForTimer2, ReadForPort02
<1>9. CASE \E t \in LEGACY_SOURCE_MASK : WriteBackPort02(t)
  <2>1. PICK t \in LEGACY_SOURCE_MASK : WriteBackPort02(t)
    BY <1>9
  <2>2. CASE s = t
    BY <2>1, <2>2
  <2>3. CASE s # t
    <3> DEFINE v == status \ {t}
    <3>1. Write02(v) /\ v \subseteq status /\ cpu = "port02"
          /\ (s \in status => s \in v)
      BY <2>1, <2>3 DEF WriteBackPort02, At
    <3> HIDE DEF v
    <3>2. ctl.pending \cap v \cap Supported \subseteq ctl'.pending
      BY <3>1, Write02Fields DEF Inv
    <3> QED  BY <1>1, <3>1, <3>2 DEF CameLate
  <2> QED  BY <2>2, <2>3
<1> QED  BY <1>2, <1>3, <1>4, <1>5, <1>6, <1>7, <1>8, <1>9 DEF Next, Handler

\* In both emulators a request leaves the latch only when it is served, is
\* behind one that is served in the same status byte, is taken by a program,
\* or falls into one of the two windows between reading the status and
\* acknowledging it; otherwise only a shutdown or a reset takes it.
THEOREM RequestsHeard == Spec => RequestsAreHeard
<1>1. Inv /\ [Next]_vars =>
          [\A s \in ctl.pending \ ctl'.pending :
               \/ Answered(s) \/ CameLate(s) \/ WriteBackPort02(s)
               \/ cpu' \in {"arm", "boot"} \/ cpu = "boot"]_vars
  BY TakenOnlySo
<1> QED  BY <1>1, Invariance, PTL DEF Spec, RequestsAreHeard

\* After the first mask write TilEm's port 3 reads what it does.
THEOREM ReadbackTrue == Spec => []ReadbackTellsTruth
<1>1. Inv => ReadbackTellsTruth
  BY DEF Inv
<1> QED  BY <1>1, Invariance, PTL

-----------------------------------------------------------------------------
(* The refinement: every step is a step of the public contract.            *)

Refined == [Latch!Next]_(Latch!latch)

LEMMA InitRefines == Init => Latch!Init
<1> SUFFICES ASSUME Init PROVE Latch!Init
  OBVIOUS
<1>1. ctl.pending = {} /\ ~ctl.on_enabled /\ ~ctl.link_activity_enabled
  BY DEF Init, MameReset, TilemReset
<1>2. Enabled \subseteq Supported
  BY InitInv DEF Inv, TypeOK, Controller, Enabled, TimerMask, Supported, NoLink,
                 LEGACY_SOURCE_MASK
<1> QED  BY <1>1, <1>2, Bytes DEF Latch!Init

LEMMA ArrivalsRefine == ASSUME Inv, Arrivals PROVE Refined
<1>1. Enabled' = Enabled /\ Supported' = Supported
  BY SameEnables DEF Arrivals, Supported
<1> DEFINE on == ctl'.pending \ ctl.pending
<1>2. on \in SUBSET Enabled /\ ctl'.pending = ctl.pending \cup on
  BY DEF Arrivals
<1> HIDE DEF on
<1>3. Latch!Request
  BY <1>1, <1>2 DEF Latch!Request
<1> QED  BY <1>3 DEF Refined, Latch!Next

LEMMA MaskRefines ==
    ASSUME Inv, emulator' = emulator, NEW v \in SUBSET (0 .. 4), Write03(v)
    PROVE  Refined
<1>1. Registers /\ TypeOK
  BY InvParts DEF Inv
<1>2. Enabled' = v \cap Supported /\ Supported' = Supported
  BY <1>1, MaskKeeps DEF Supported
<1>3. ctl'.pending = ctl.pending \cap v
  BY <1>1, Write03Fields
<1> DEFINE m == v \cap LEGACY_SOURCE_MASK
<1>4. ctl.pending \subseteq LEGACY_SOURCE_MASK
  BY <1>1 DEF TypeOK, Controller
<1>5. m \in SUBSET LEGACY_SOURCE_MASK /\ Enabled' = m \cap Supported
      /\ ctl'.pending = ctl.pending \cap m
  BY <1>2, <1>3, <1>4, Bytes
<1> HIDE DEF m
<1>6. Latch!Mask
  BY <1>2, <1>5 DEF Latch!Mask
<1> QED  BY <1>6 DEF Refined, Latch!Next

LEMMA SameRefines ==
    ASSUME emulator' = emulator, ctl' = ctl
    PROVE  Refined
<1>1. Enabled' = Enabled /\ Supported' = Supported
  BY DEF Enabled, TimerMask, Supported
<1> QED  BY <1>1 DEF Refined, Latch!latch

LEMMA ResetRefines == Inv /\ SoftReset => Refined
<1> SUFFICES ASSUME Inv, SoftReset PROVE Refined
  OBVIOUS
<1>1. CASE emulator = "MAME"
  BY <1>1, SameRefines DEF SoftReset
<1>2. CASE emulator # "MAME"
  <2>1. /\ emulator' = emulator
        /\ ctl' = TilemReset(ctl.keep_power_during_halt)
    BY <1>2 DEF SoftReset
  <2>2. /\ ctl'.pending = {} /\ ctl'.port03 = x0B
        /\ ctl'.on_enabled = FALSE /\ ctl'.link_activity_enabled = FALSE
    BY <2>1 DEF TilemReset
  <2>3. Enabled' = {TIMER1} \cap Supported /\ Supported' = Supported
    BY <1>2, <2>1, <2>2
    DEF Enabled, TimerMask, Supported, LEGACY_SOURCE_MASK, x0B
  <2>4. Latch!Reset
    BY <2>2, <2>3 DEF Latch!Reset
  <2> QED  BY <2>4 DEF Refined, Latch!Next
<1> QED  BY <1>1, <1>2

LEMMA Port02Refines ==
    ASSUME Inv, NEW s \in LEGACY_SOURCE_MASK, WriteBackPort02(s)
    PROVE  Refined
<1> DEFINE v == status \ {s}
<1>1. TypeOK /\ StatusIsFresh /\ cpu = "port02" /\ v \subseteq status
      /\ Write02(v) /\ emulator' = emulator
  BY DEF Inv, WriteBackPort02, At
<1> HIDE DEF v
<1>2. /\ ctl' = [ctl EXCEPT !.pending = ctl'.pending]
      /\ ctl'.pending \in SUBSET LEGACY_SOURCE_MASK
      /\ ctl'.pending \subseteq ctl.pending
  BY <1>1, Write02Fields
<1>3. /\ ctl'.port03 = ctl.port03 /\ ctl'.on_enabled = ctl.on_enabled
      /\ ctl'.timer_mask = ctl.timer_mask
      /\ ctl'.link_activity_enabled = ctl.link_activity_enabled
  BY <1>1, <1>2 DEF TypeOK, Controller
<1>4. Enabled' = Enabled /\ Supported' = Supported
  BY <1>1, <1>3, SameEnables DEF Supported
<1>5. ctl'.pending = ctl.pending \cap ctl'.pending
  BY <1>2
<1>6. Latch!Acknowledge
  BY <1>2, <1>4, <1>5 DEF Latch!Acknowledge
<1> QED  BY <1>6 DEF Refined, Latch!Next

LEMMA NextRefines == Inv /\ [Next]_vars => Refined
<1> SUFFICES ASSUME Inv, [Next]_vars PROVE Refined
  OBVIOUS
<1>1. TypeOK
  BY DEF Inv
<1>2. CASE World
  <2>1. CASE SoftReset
    BY <2>1, ResetRefines
  <2>2. CASE KeyMoves \/ Timer1Fires \/ Timer2Fires \/ LinkMoves
    BY <1>1, <2>2, KeyArrives, Timer1Arrives, Timer2Arrives, LinkArrives,
       ArrivalsRefine
  <2> QED  BY <1>2, <2>1, <2>2 DEF World
<1>3. CASE Boot \/ ShutDown \/ Arm \/ AckClears \/ AckRestores \/ ExitHandler
  <2>1. /\ emulator' = emulator
        /\ \E v \in {x08, x09, x0A, x0B, x0F, x11} : Write03(v)
    BY <1>3 DEF Boot, ShutDown, Arm, AckClears, AckRestores, ExitHandler
  <2> QED  BY <2>1, Bytes, MaskRefines
<1>4. CASE \/ UNCHANGED vars \/ ReadStatus \/ Interrupt \/ AskForTimer2
           \/ ReadForPort02
  BY <1>4, SameRefines DEF vars, ReadStatus, Interrupt, AskForTimer2,
                           ReadForPort02
<1>5. CASE \E s \in LEGACY_SOURCE_MASK : WriteBackPort02(s)
  BY <1>5, Port02Refines
<1> QED  BY <1>2, <1>3, <1>4, <1>5 DEF Next, Handler

\* Both emulators, under the OS's handler and a program's port 2 writes,
\* implement the legacy controller's contract.
THEOREM ContractKept == Spec => KeepsContract
<1>1. Inv /\ [Next]_vars => [Latch!Next]_(Latch!latch)
  BY NextRefines DEF Refined
<1> QED  BY <1>1, InitRefines, Invariance, PTL DEF Spec, KeepsContract, Latch!Spec

-----------------------------------------------------------------------------
(* Progress: the argument behind PressWakes.  While a press that will wake *)
(* the calculator is on its way, nothing the world does puts it back, and  *)
(* every step of the OS brings it closer.                                  *)

\* Where the OS can be between its shutdown and its power-on.
AsleepWhere ==
    asleep => cpu \in {"arm", "halt", "entry", "ack", "mask", "exit"}

\* Before the handler has read the status the request itself carries the
\* press, from there on the level of the key does.
Waking ==
    /\ asleep /\ ctl.on_pressed
    /\ cpu \in {"arm", "halt", "entry"} => ON \in ctl.pending

\* Steps of the OS to its power-on.
Distance ==
    CASE cpu = "arm"  -> 6 [] cpu = "halt" -> 5 [] cpu = "entry" -> 4
      [] cpu = "ack"  -> 3 [] cpu = "mask" -> 2 [] cpu = "exit"  -> 1
      [] OTHER        -> 0

OSStep == Handler \/ Interrupt \/ Arm

\* Awake, released, or still on the way; after a step of the OS, closer.
Closer ==
    Waking => \/ ~asleep' \/ ~ctl'.on_pressed
              \/ /\ Waking' /\ Distance' <= Distance
                 /\ OSStep => Distance' < Distance

LEMMA AsleepInvariance == Spec => []AsleepWhere
<1>1. Init => AsleepWhere
  BY DEF Init, AsleepWhere
<1>2. AsleepWhere /\ [Next]_vars => AsleepWhere'
  BY DEF AsleepWhere, Next, vars, os, World, Handler, At, KeyMoves,
         Timer1Fires, Timer2Fires, LinkMoves, SoftReset, ReadStatus, AckClears,
         AckRestores, ExitHandler, Interrupt, Boot, AskForTimer2, ShutDown,
         Arm, ReadForPort02, WriteBackPort02
<1> QED  BY <1>1, <1>2, PTL DEF Spec

\* The world leaves the OS where it is and takes no request away.
LEMMA WorldWaits ==
    ASSUME Inv, World, ~OSStep
    PROVE  Closer
<1>1. CASE SoftReset
  BY <1>1 DEF SoftReset, Closer
<1>2. CASE KeyMoves \/ Timer1Fires \/ Timer2Fires \/ LinkMoves
  <2>1. Arrivals
    BY <1>2, KeyArrives, Timer1Arrives, Timer2Arrives, LinkArrives DEF Inv
  <2>2. cpu' = cpu /\ asleep' = asleep
    BY <1>2 DEF KeyMoves, Timer1Fires, Timer2Fires, LinkMoves, os
  <2>3. Distance' = Distance /\ Distance \in Int
    BY <2>2 DEF Distance
  <2>4. ctl.pending \subseteq ctl'.pending
    BY <2>1 DEF Arrivals
  <2>5. Waking /\ ctl'.on_pressed => Waking'
    BY <2>2, <2>4 DEF Waking
  <2> QED  BY <2>3, <2>5 DEF Closer
<1> QED  BY <1>1, <1>2 DEF World

\* The handler runs to its exit; with the key still down it powers on there.
LEMMA HandlerComesOut ==
    ASSUME Inv, Handler
    PROVE  Closer
<1>1. TypeOK
  BY DEF Inv
<1>2. CASE ReadStatus
  BY <1>2 DEF ReadStatus, At, Closer, Waking, Distance
<1>3. CASE AckClears
  <2>1. ctl'.on_pressed = ctl.on_pressed
    BY <1>1, <1>3, Bytes, Write03Fields DEF AckClears
  <2> QED  BY <1>3, <2>1 DEF AckClears, At, Closer, Waking, Distance
<1>4. CASE AckRestores
  <2>1. ctl'.on_pressed = ctl.on_pressed
    BY <1>1, <1>4, Bytes, Write03Fields DEF AckRestores
  <2> QED  BY <1>4, <2>1 DEF AckRestores, At, Closer, Waking, Distance
<1>5. CASE ExitHandler
  BY <1>5 DEF ExitHandler, Closer, Waking
<1> QED  BY <1>2, <1>3, <1>4, <1>5 DEF Handler

LEMMA WakeGoesOn ==
    ASSUME Inv, AsleepWhere, [Next]_vars
    PROVE  Closer
<1>1. CASE Handler
  BY <1>1, HandlerComesOut
<1>2. CASE Interrupt
  BY <1>2 DEF Interrupt, AsleepWhere, Closer, Waking, Distance
<1>3. CASE Arm
  <2>1. ctl'.on_pressed = ctl.on_pressed
        /\ ctl'.pending = ctl.pending \cap x11
    BY <1>3, Bytes, Write03Fields DEF Arm, Inv
  <2>2. ON \in x11
    BY DEF x11
  <2> QED  BY <1>3, <2>1, <2>2 DEF Arm, At, Closer, Waking, Distance
<1>4. CASE World /\ ~OSStep
  BY <1>4, WorldWaits
<1>5. CASE \/ Boot \/ AskForTimer2 \/ ShutDown \/ ReadForPort02
           \/ \E s \in LEGACY_SOURCE_MASK : WriteBackPort02(s)
  BY <1>5 DEF Boot, AskForTimer2, ShutDown, ReadForPort02, WriteBackPort02, At,
              AsleepWhere, Closer, Waking
<1>6. CASE UNCHANGED vars /\ ~OSStep
  <2>1. Distance' = Distance /\ Distance \in Int
    BY <1>6 DEF vars, os, Distance
  <2> QED  BY <1>6, <2>1 DEF vars, os, Closer, Waking
<1> QED  BY <1>1, <1>2, <1>3, <1>4, <1>5, <1>6 DEF Next, OSStep

\* The processor is never left in HALT by a press that is on its way.
CanWake == Waking /\ cpu = "halt" => ctl.pending # {}

\* A press that is latched while the calculator sleeps is on its way: no
\* timer, link, second interrupt or acknowledgement turns it back, the
\* interrupt that ends HALT is there, and six steps of the OS are enough.
THEOREM PressGetsCloser ==
    Spec => /\ [](asleep /\ ON \in ctl.pending /\ ctl.on_pressed => Waking)
            /\ [](CanWake /\ (Waking => Distance \in 1 .. 6))
            /\ [][Closer]_vars
<1>1. asleep /\ ON \in ctl.pending /\ ctl.on_pressed => Waking
  BY DEF Waking
<1>2. AsleepWhere => CanWake /\ (Waking => Distance \in 1 .. 6)
  BY DEF AsleepWhere, CanWake, Waking, Distance
<1>3. Inv /\ AsleepWhere /\ [Next]_vars => [Closer]_vars
  BY WakeGoesOn
<1> QED  BY <1>1, <1>2, <1>3, Invariance, AsleepInvariance, PTL DEF Spec

-----------------------------------------------------------------------------
(* What the contract itself implies, and with it both emulators.           *)

\* The contract never leaves a request pending that is not enabled, nor
\* enables a source the controller has not got.
THEOREM ContractIsSound == KeepsContract => []Latch!LatchTypeOK
<1>1. Latch!Init => Latch!LatchTypeOK
  BY DEF Latch!Init, Latch!LatchTypeOK
<1>2. Latch!LatchTypeOK /\ [Latch!Next]_(Latch!latch) => Latch!LatchTypeOK'
  <2> SUFFICES ASSUME Latch!LatchTypeOK, [Latch!Next]_(Latch!latch)
               PROVE  Latch!LatchTypeOK'
    OBVIOUS
  <2>1. CASE Latch!Request
    BY <2>1 DEF Latch!Request, Latch!LatchTypeOK
  <2>2. CASE Latch!Mask
    BY <2>2 DEF Latch!Mask, Latch!LatchTypeOK
  <2>3. CASE Latch!Acknowledge
    BY <2>3 DEF Latch!Acknowledge, Latch!LatchTypeOK
  <2>4. CASE Latch!Reset
    BY <2>4 DEF Latch!Reset, Latch!LatchTypeOK
  <2>5. CASE UNCHANGED Latch!latch
    BY <2>5 DEF Latch!latch, Latch!LatchTypeOK
  <2> QED  BY <2>1, <2>2, <2>3, <2>4, <2>5 DEF Latch!Next
<1> QED  BY <1>1, <1>2, PTL DEF KeepsContract, Latch!Spec

\* In both emulators a request that is pending belongs to a source that the
\* controller implements and that is enabled at this moment: a mask write, a
\* port 2 write or a reset never leaves one behind.
THEOREM PendingIsEnabled ==
    Spec => [](ctl.pending \subseteq Enabled /\ Enabled \subseteq Supported)
<1>1. Latch!LatchTypeOK
          => ctl.pending \subseteq Enabled /\ Enabled \subseteq Supported
  BY DEF Latch!LatchTypeOK
<1> QED  BY <1>1, ContractKept, ContractIsSound, PTL
=============================================================================
