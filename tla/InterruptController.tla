------------------------ MODULE InterruptController ------------------------
(***************************************************************************)
(* The legacy interrupt controller as two emulators implement it, and the  *)
(* interrupt service of the calculator OS running on it.                   *)
(*                                                                         *)
(*   main --> entry --> ack --> mask --> exit --> main                     *)
(*             port 4   08      0A/09    0B/0F                             *)
(*   main --> down --> arm --> halt --> entry ...                          *)
(*             08       11                                                 *)
(*                                                                         *)
(* The key, the timers and the link act between any two steps of the       *)
(* handler; a reset may come at any moment.  A register value is the set   *)
(* of its one bits.                                                        *)
(*                                                                         *)
(* Source: src/tools/ti84re/hardware/interrupt_controller.py               *)
(* (MameLegacyInterruptState, TilemLegacyInterruptState, the test order    *)
(* and the acknowledgement rule).  The handler is calculator ROM.          *)
(***************************************************************************)
EXTENDS Integers

ON == 0
TIMER1 == 1
TIMER2 == 2
RELEASED == 3  \* of port 4: the level of the ON key, not a source
POWERED == 3   \* of port 3: keep the hardware powered during HALT
LINK == 4

LEGACY_SOURCE_MASK == {ON, TIMER1, TIMER2, LINK}

\* Values the handler and the shutdown write to port 3.
x08 == {POWERED}
x09 == {ON, POWERED}
x0A == {TIMER1, POWERED}
x0B == {ON, TIMER1, POWERED}
x0F == {ON, TIMER1, TIMER2, POWERED}
x11 == {ON, LINK}

VARIABLES
    emulator,   \* whose controller this is
    ctl,        \* its fields
    key,        \* the ON key is down
    cpu,        \* position of the OS
    status,     \* the byte the OS last read from port 4
    served,     \* the source whose handler runs
    second,     \* the flag that asks for timer 2 at the next exit
    asleep      \* the OS is between its shutdown and its power-on

os   == <<cpu, status, served, second, asleep>>
vars == <<emulator, ctl, key, os>>

-----------------------------------------------------------------------------
(* Fields.  A field that an emulator lacks keeps its first value: MAME has *)
(* no readable mask, no link source and no power bit; TilEm tests the timer*)
(* bits of port03 itself.                                                  *)

Controller ==
    [port03 : SUBSET (0 .. 4), on_enabled : BOOLEAN,
     timer_mask : SUBSET {TIMER1, TIMER2}, link_activity_enabled : BOOLEAN,
     keep_power_during_halt : BOOLEAN, pending : SUBSET LEGACY_SOURCE_MASK,
     on_pressed : BOOLEAN, user_timer_no_halt_interrupt : BOOLEAN]

MameReset ==
    [port03 |-> {}, on_enabled |-> FALSE, timer_mask |-> {},
     link_activity_enabled |-> FALSE, keep_power_during_halt |-> TRUE,
     pending |-> {}, on_pressed |-> FALSE,
     user_timer_no_halt_interrupt |-> FALSE]

\* The readback says 0B while the internal ON enable is off.
TilemReset(keep) ==
    [port03 |-> x0B, on_enabled |-> FALSE, timer_mask |-> {},
     link_activity_enabled |-> FALSE, keep_power_during_halt |-> keep,
     pending |-> {}, on_pressed |-> FALSE,
     user_timer_no_halt_interrupt |-> FALSE]

Supported == IF emulator = "MAME" THEN {ON, TIMER1, TIMER2}
                                  ELSE LEGACY_SOURCE_MASK

TimerMask(c) == IF emulator = "MAME" THEN c.timer_mask
                ELSE c.port03 \cap {TIMER1, TIMER2}

\* What the controller lets through, whatever its readback says.
Enabled ==
    (IF ctl.on_enabled THEN {ON} ELSE {}) \cup TimerMask(ctl)
        \cup (IF ctl.link_activity_enabled THEN {LINK} ELSE {})

Status == ctl.pending \cup (IF ctl.on_pressed THEN {} ELSE {RELEASED})

-----------------------------------------------------------------------------
(* Port writes.                                                            *)

\* Seeded fault: a write with a one at the bit clears the request.
ClearedByOne(v) == ctl.pending \ v

ClearedByZero(v) == ctl.pending \cap v

\* Seeded fault: the write of a mask leaves the ON enable behind.
TilemWrite03Stale(v) ==
    [ctl EXCEPT !.port03 = v, !.keep_power_during_halt = POWERED \in v,
                !.link_activity_enabled = LINK \in v,
                !.pending = ClearedByZero(v),
                !.user_timer_no_halt_interrupt = v \cap {TIMER1, TIMER2} = {}]

TilemWrite03(v) ==
    [ctl EXCEPT !.port03 = v, !.on_enabled = ON \in v,
                !.keep_power_during_halt = POWERED \in v,
                !.link_activity_enabled = LINK \in v,
                !.pending = ClearedByZero(v),
                !.user_timer_no_halt_interrupt = v \cap {TIMER1, TIMER2} = {}]

MameWrite03(v) ==
    [ctl EXCEPT !.on_enabled = ON \in v,
                !.timer_mask = v \cap {TIMER1, TIMER2},
                !.pending = ClearedByZero(v)]

Write03(v) ==
    ctl' = IF emulator = "MAME" THEN MameWrite03(v) ELSE TilemWrite03(v)

\* Seeded fault: MAME stores the byte with the bits it has no source for.
Write02Raw(v) ==
    ctl' = [ctl EXCEPT !.pending = IF emulator = "MAME" THEN v
                                   ELSE ClearedByZero(v)]

\* TilEm clears what the written byte has a zero for; MAME stores the byte.
Write02(v) ==
    ctl' = [ctl EXCEPT !.pending = IF emulator = "MAME"
                                   THEN v \cap Supported
                                   ELSE ClearedByZero(v)]

-----------------------------------------------------------------------------
(* The world outside: keys, timers, link, reset.                           *)

\* TilEm latches both edges of ON, MAME presses only.
SampledOn(pressed) ==
    LET edge == IF emulator = "MAME" THEN pressed /\ ~ctl.on_pressed
                                     ELSE pressed # ctl.on_pressed
    IN  [ctl EXCEPT !.pending = IF edge /\ ctl.on_enabled
                                THEN @ \cup {ON} ELSE @,
                    !.on_pressed = pressed]

\* A contact lasts until the controller has seen it.
KeyMoves ==
    /\ key = ctl.on_pressed
    /\ key' = ~key
    /\ IF emulator = "MAME" THEN UNCHANGED ctl ELSE ctl' = SampledOn(key')
    /\ UNCHANGED <<emulator, cpu, status, served, second, asleep>>

Ticked(c, timer) ==
    [c EXCEPT !.pending = IF timer \in TimerMask(c)
                          THEN @ \cup {timer} ELSE @]

\* MAME looks at the ON key in the callback of timer 1.
Timer1Fires ==
    /\ ctl' = Ticked(IF emulator = "MAME" THEN SampledOn(key) ELSE ctl,
                     TIMER1)
    /\ UNCHANGED <<emulator, key, cpu, status, served, second, asleep>>

Timer2Fires ==
    /\ ctl' = Ticked(ctl, TIMER2)
    /\ UNCHANGED <<emulator, key, os>>

\* A transition of the peer's line; MAME has no such source.
LinkMoves ==
    /\ emulator = "TilEm" /\ ctl.link_activity_enabled
    /\ ctl' = [ctl EXCEPT !.pending = @ \cup {LINK}]
    /\ UNCHANGED <<emulator, key, os>>

\* MAME keeps its fields, TilEm its power policy.
SoftReset ==
    /\ ctl' = IF emulator = "MAME" THEN ctl
              ELSE TilemReset(ctl.keep_power_during_halt)
    /\ key' = (IF emulator = "MAME" THEN key ELSE FALSE)
    /\ cpu' = "boot" /\ asleep' = FALSE
    /\ status' = {} /\ served' = RELEASED
    /\ UNCHANGED <<emulator, second>>

-----------------------------------------------------------------------------
(* The OS.  Interrupts are off from the entry of the handler to its exit.  *)

At(from, to) == cpu = from /\ cpu' = to

\* The first mask write after a reset.
Boot ==
    /\ At("boot", "main") /\ Write03(x0B)
    /\ UNCHANGED <<emulator, key, status, served, second, asleep>>

\* The flag takes effect at the exit of the next handler.
AskForTimer2 ==
    /\ cpu = "main" /\ second' = ~second
    /\ UNCHANGED <<emulator, ctl, key, cpu, status, served, asleep>>

\* A program acknowledges through port 2, with interrupts off: it reads the
\* status, and writes it back without the source it takes.
ReadForPort02 ==
    /\ At("main", "port02") /\ ctl.pending # {}
    /\ status' = Status
    /\ UNCHANGED <<emulator, ctl, key, served, second, asleep>>

WriteBackPort02(s) ==
    /\ At("port02", "main") /\ s \in status
    /\ Write02(status \ {s})
    /\ UNCHANGED <<emulator, key, status, served, second, asleep>>

\* Seeded fault: a halted processor does not leave HALT.
InterruptAwake ==
    /\ cpu = "main" /\ ctl.pending # {}
    /\ cpu' = "entry"
    /\ UNCHANGED <<emulator, ctl, key, status, served, second, asleep>>

Interrupt ==
    /\ cpu \in {"main", "halt"} /\ ctl.pending # {}
    /\ cpu' = "entry"
    /\ UNCHANGED <<emulator, ctl, key, status, served, second, asleep>>

\* Seeded fault: the handler tests timer 1 before ON.
RomTestTimerFirst(s) ==
    IF TIMER2 \in s THEN TIMER2
    ELSE IF LINK \in s THEN LINK
    ELSE IF TIMER1 \in s THEN TIMER1
    ELSE IF ON \in s THEN ON ELSE RELEASED

\* ROM_STATUS_TEST_BITS: the first set source; RELEASED when there is none.
RomTest(s) ==
    IF TIMER2 \in s THEN TIMER2
    ELSE IF LINK \in s THEN LINK
    ELSE IF ON \in s THEN ON
    ELSE IF TIMER1 \in s THEN TIMER1 ELSE RELEASED

ReadStatus ==
    /\ At("entry", "ack")
    /\ status' = Status /\ served' = RomTest(Status)
    /\ UNCHANGED <<emulator, ctl, key, second, asleep>>

\* The common helper writes 08, and 08 clears every source: a lower one is
\* coalesced with the one that is served, and so is whatever was latched
\* since the status was read.
AckClears ==
    /\ At("ack", "mask") /\ Write03(x08)
    /\ UNCHANGED <<emulator, key, status, served, second, asleep>>

\* ... then the byte the handler left in A.
AckRestores ==
    /\ At("mask", "exit")
    /\ Write03(IF served = ON THEN x0A ELSE x09)
    /\ UNCHANGED <<emulator, key, status, served, second, asleep>>

\* A wake by a stable press or by the link powers the OS on; a stable
\* release may send it back to sleep.
ExitHandler ==
    /\ cpu = "exit"
    /\ \/ /\ cpu' = "main" /\ asleep' = FALSE
          /\ Write03(IF second THEN x0F ELSE x0B)
       \/ /\ asleep /\ served = ON /\ ~ctl.on_pressed
          /\ cpu' = "arm" /\ Write03(x08) /\ UNCHANGED asleep
    /\ UNCHANGED <<emulator, key, status, served, second>>

\* poweroff_shared_tail.
ShutDown ==
    /\ At("main", "arm") /\ Write03(x08) /\ asleep' = TRUE
    /\ UNCHANGED <<emulator, key, status, served, second>>

Arm ==
    /\ At("arm", "halt") /\ Write03(x11)
    /\ UNCHANGED <<emulator, key, status, served, second, asleep>>

-----------------------------------------------------------------------------
Init ==
    /\ emulator \in {"MAME", "TilEm"}
    /\ ctl = IF emulator = "MAME" THEN MameReset ELSE TilemReset(TRUE)
    /\ key = FALSE
    /\ cpu = "boot" /\ status = {} /\ served = RELEASED /\ second = FALSE
    /\ asleep = FALSE

World ==
    KeyMoves \/ Timer1Fires \/ Timer2Fires \/ LinkMoves \/ SoftReset

Handler == ReadStatus \/ AckClears \/ AckRestores \/ ExitHandler

Next ==
    \/ World \/ Handler \/ Interrupt
    \/ Boot \/ AskForTimer2 \/ ShutDown \/ Arm
    \/ ReadForPort02
    \/ \E s \in LEGACY_SOURCE_MASK : WriteBackPort02(s)

Spec == Init /\ [][Next]_vars

\* A processor that is not held in reset gets on; nothing is assumed of keys,
\* timers, links and resets.
LiveSpec ==
    Spec /\ WF_vars(Boot) /\ WF_vars(Interrupt) /\ WF_vars(Handler)
         /\ WF_vars(Arm)

-----------------------------------------------------------------------------
Positions == {"boot", "main", "port02", "entry", "ack", "mask", "exit",
              "arm", "halt"}

\* Every field is of its kind, and every pending request is a legacy source.
TypeOK ==
    /\ emulator \in {"MAME", "TilEm"} /\ ctl \in Controller
    /\ key \in BOOLEAN /\ cpu \in Positions
    /\ status \in SUBSET (0 .. 4) /\ served \in 0 .. 4
    /\ second \in BOOLEAN /\ asleep \in BOOLEAN

\* Under the OS's writes, and under port 2 writes that store back a status
\* read earlier, both emulators keep the public contract: only an enabled
\* source is ever pending, a request leaves by a zero bit or a reset only,
\* and nobody forges one.
Latch == INSTANCE LegacyLatch WITH
             SOURCES <- LEGACY_SOURCE_MASK, ResetMask <- {TIMER1},
             supported <- Supported, enabled <- Enabled,
             pending <- ctl.pending

KeepsContract == Latch!Spec

\* ROM_STATUS_TEST_BITS as an order.
TestRank(s) ==
    CASE s = TIMER2 -> 1 [] s = LINK -> 2 [] s = ON -> 3 [] s = TIMER1 -> 4
      [] OTHER -> 5

\* When a request may leave the latch: the handler serves it, or serves a
\* source that the same status byte names and the tests find first.
Answered(s) ==
    cpu = "ack" /\ s \in status /\ TestRank(served) <= TestRank(s)

\* The request came after the status was read, by a handler that serves
\* another source or by a program that takes one by port 2.
CameLate(s) ==
    \/ cpu = "ack" /\ s \notin status /\ served \in LEGACY_SOURCE_MASK
    \/ cpu = "port02" /\ s \notin status

\* A request is lost in these two windows, by a shutdown and by a reset, and
\* nowhere else: an acknowledgement takes no request that it could have
\* served first, a program takes the one it wants, the byte that restores the
\* mask and the one that leaves the handler take none, whatever keys, timers
\* and link do between any two of these writes.
RequestsAreHeard ==
    [][\A s \in ctl.pending \ ctl'.pending :
           \/ Answered(s) \/ CameLate(s) \/ WriteBackPort02(s)
           \/ cpu' \in {"arm", "boot"} \/ cpu = "boot"]_vars

\* After TilEm's reset port 3 reads 0B with the ON enable off; from the
\* first mask write on, what it reads is what it does, through every
\* interrupted handler, shutdown and reset.
ReadbackTellsTruth ==
    emulator = "TilEm" /\ cpu # "boot" =>
        /\ (ON \in ctl.port03) = ctl.on_enabled
        /\ (LINK \in ctl.port03) = ctl.link_activity_enabled
        /\ (POWERED \in ctl.port03) = ctl.keep_power_during_halt
        /\ (Enabled \cap {TIMER1, TIMER2} = {})
               = ctl.user_timer_no_halt_interrupt

\* A press that is latched while the calculator sleeps wakes it, unless the
\* key is released again first.
PressWakes ==
    asleep /\ ON \in ctl.pending /\ ctl.on_pressed
        ~> ~asleep \/ ~ctl.on_pressed
=============================================================================
