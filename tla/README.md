# TLA+ verification of the ti84re models

The repository documents the TI-84 Plus: its OS in ROM, its Flash, its link port
and its interrupt hardware. The Python package `tools/ti84re` holds the executable
part of that knowledge: pipelines that rebuild Flash images from traces, tables
and signatures that pin down what the ROM does, and state models of the
hardware and its emulators. This directory models the parts of it where order, interruption and
concurrency decide what is right, checks them with TLC and proves their safety
properties with TLAPS.

Paths below are relative to `src/tools/ti84re/` unless they start with `src/`.

## Inventory

| Part | State | Operations | Interacts with | What is hard |
|---|---|---|---|---|
| Write attribution, `trace/hardware.py` | bank mapping, buffer of writes waiting for an instruction record | feed a write or instruction record | reads a TLMT trace; feeds the decoder | a trace cut between the two records; a mapping not yet known |
| Flash trace decoder, `flash/trace.py` | cursor over resolved writes | match erase, program, reset, single write; group into invocations | feeds validator and replay | data equal to command bytes, truncated commands, failed workers |
| Replay, `flash/replay.py`, `flash/replay_trace.py` | image, clock of the last command, clock cutoff, mutation list | validate, apply, snapshot at a GC phase | reads the source ROM, writes an image | the image must be one the part really held; a clock that wraps |
| Flash part and copied workers, `flash/hardware.py` | command state, array | command cycles, poll | environment of the trace | NOR rule, DQ7/DQ5 polling, emulator differences |
| Archive-GC journal, `flash/gc_journal.py` | journal in Flash, phase mirror in RAM, program position | phase writer, phase machine, startup, six recovery branches | certificate rebuild, archive command dispatcher | power loss between any two steps, repeatedly |
| Certificate rebuild, `flash/certificate_rebuild.py` | two halves with an active marker | copy tail blocks, switch halves | publishes and retires the journal | interrupted copy, two or no active halves |
| Flash gate, `flash/gate.py` | protected-port sequence and lock | unlock and lock writes | everything that programs Flash | order of the fetched bytes |
| Raw link, `link/port.py` | two open-collector lines, one latch per endpoint | assert, acknowledge, release, abort pulse; keyboard frames, link assist | staging receiver | two processors in lockstep without a clock |
| Link-to-Flash staging, `link/flash_staging.py` | stored page and address, staging buffer | route, fill, flush, worker byte, save | link receiver, `_WriteFlash` worker | two cursors that must agree over page ends |
| Interrupt controller, `hardware/interrupt_controller.py` | masks, pending flags, ON level | port writes, ticks, ON samples, link transitions, reset | OS handler, shutdown | events between status read and acknowledgement |
| Programmable timers, `hardware/timer.py` | one counter each | port writes, ticks | interrupt controller | periods and zero counts |
| Memory mapper, `hardware/memory_mapper.py` | bank registers, boot latch | port writes, reads that end the boot mapping, address resolution, readback | OS handlers, attribution | four implementations, partly known registers |
| Tracer, `trace/resolve.py` (`Banker`) | its copy of the bank registers | replay OUT instructions | reads a TLMT trace; feeds attribution | block OUTs without their byte |
| LCD replay, `trace/lcd.py` | pointer, word length, row shift, memory, busy interval, mutation log | commands, reads, writes | reads a TLMT trace; feeds the draw-trace analyser | pointer out of range between transfers, six-pixel groups |
| Draw-trace analyser, `mathprint/analyze_draw_trace.py` | list of call frames | advance over one instruction, nearest frame | resolved instructions, LCD mutations | interrupts and unwinding hide stack changes |
| LCD descriptions, MD5, keypad, protection, USB, ASIC | registers | port reads and writes | OS | arithmetic and tables |
| Emulator drivers, ROM, boot, MathPrint, TI-BASIC, file and wiki tools | none, or that of another program | run, compare, print | recorded data | input and output, not state |

`PROJECT.json` lists every part with its status and, under `hazards`, the places
where it can go wrong in ways its tests do not reach.

### What makes each part correct

* **Trace to image.** Until an erase fails, an image that comes out equals the array
  of the part when the recording stopped, or the pipeline refuses; every image on the way is one the
  part went through; a clean trace is refused only beyond the wrap of its clock.
* **Archive journal.** The phase found after any number of power losses
  vouches for the work before it; no work starts over on a half-written area;
  a journal disappears only when its collection is complete; only the
  transitions of the table occur; a published journal is eventually retired.
* **Two-wire link.** Bits arrive in order, once each; at most one bit is ever in
  doubt; nobody waits for ever; the lines come back.
* **Staging.** A payload lies in Flash byte behind byte; it arrives whole when it
  fits; it spills over the permitted range by less than a block; it ends.
* **Interrupt controller.** Only enabled sources request, a request leaves by a
  zero bit or a reset only; the OS's clear-all acknowledgement takes a request that
  it could not have served first, or that came between its status read and its
  write, and no other; what port 3 reads is what it does; a press wakes a sleeping
  calculator.
* **Mapper and tracer.** A page the tracer names for an address is the page the
  machine has there; a mapping called complete resolves every address; the
  forced ranges reported are the ones resolved; saving and restoring the bank
  ports keeps the mapping.
* **LCD replay.** A write paints its own pixels and no others; the initial
  picture and the log explain the final picture.
* **Draw-trace frames.** The frames are the calls whose callee's first push is on
  the stack, and a draw is attributed to the innermost of them on the pages asked
  for. That every active call has a frame is what the analyser's docstring says, and
  is not so (see *Disagreements found*).

## Modules

| Module | Models | Correspondence |
|---|---|---|
| `NorFlash` | bytes, NOR rule, sectors | a byte is the set of its one bits: program is `\cap` (`old & requested`), erase is the full set |
| `FlashTrace` | worker, part, recorder, decoder, validator, replay | one action per bus cycle, record, decoder branch and command |
| `MCFlashTrace` | instance | three addresses, colliding data |
| `FlashTraceProofs` | theorems | see below |
| `PhaseChain` | abstract journal: the edges of `TRANSITIONS` | what an observer of the phase sees across restarts |
| `GcJournal` | phase machine, startup, recovery, power loss | one action per call of the phase machine, with a point inside each call |
| `MCGcJournal` | instance | slots `0 .. SlotCount - 1` |
| `GcJournalProofs` | theorems | see below |
| `BitChannel` | abstract stop-and-wait channel | delivered and confirmed bits, broken flag |
| `TwoWireLink` | both endpoints of one byte | one action per port read or port write |
| `TwoWireLinkProofs` | theorems | see below |
| `LinkStaging` | receive loop and worker byte loop | one action per loop iteration of either |
| `MCLinkStaging` | instance | payloads around page ends and range limits |
| `LinkStagingProofs` | theorems | see below |
| `LegacyLatch` | abstract interrupt latch: request, mask, acknowledge, reset | the contract of `acknowledge_legacy_sources` |
| `InterruptController` | MAME's and TilEm's controller, OS handler and shutdown | one action per port access of the handler, per key edge, tick, link transition and reset |
| `InterruptControllerProofs` | theorems | see below |
| `MemoryMapper` | bank registers of four implementations, and the tracer | one action per OUT instruction and per read that ends the boot mapping |
| `MCMemoryMapper`, `MemoryMapperProofs` | instance; theorems | see below |
| `LcdReplay` | T6A04, panel and mutation log | one action per accepted LCD port access |
| `MCLcdReplay`, `LcdReplayProofs` | instance; theorems | see below |
| `CallFrames` | program stack and the analyser's frames | one action per kind of instruction, with or without an interrupt behind it |
| `CallFramesProofs` | theorems | see below |

Operators introduced by *Seeded fault* are not part of any specification. Each
is a plausible bug in the operator that follows it. Putting one in place of the
original must break the property that `PROJECT.json` pairs it with.

### FlashTrace

The calculator side is the environment. A worker programs a block of bytes or
erases a sector. Each bus write runs through the part's command table
(`FLASH_COMMAND_PROFILES`); the DQ7 poll decides the exit. The recorder emits a
write record at the bus write and an instruction record later; in between, or
anywhere else, the trace may stop (`CutTrace`). Writes are resolved under the
mapping of the moment. From there on the actions are the branches of
`decode_amd_flash_commands`, `validate_replay_stream` and
`apply_accepted_command`, in the order of the code.

An event carries the clock of its instruction record, a 32-bit count of cycles: the
model's `time` goes on while the reading, `time % CLOCK`, wraps. Time may pass by any
amount between two commands; within one it stands still, which is enough, since a
command carries the clock of its last write alone. The replay raises on a clock that
runs back and on a write the decoder could not match (`RefuseCommand`), so a finished,
successful trace of more than 2^32 cycles, some twelve minutes at 6 MHz, is refused
when a command lies on either side of the wrap. `CleanTraceIsReplayed` leaves out just
those, and `ReplayIsExact` covers the ones that go right round and slip through.

`landed` (the arrays the part went through), `failures` and `asked` (the
commands the worker meant to send) are history variables; the first two are
what the properties compare with, the third is for the proofs. Writes to RAM
are dropped when they are resolved, as the streaming loop of
`flash/replay_trace.py` does, so `events` holds Flash writes only.

What is assumed of the environment: the part is unlocked and follows the NOR rule
(TilEm, Wabbitemu and hardware; MAME stores the byte as written, which
`program_byte` records and no model here covers); workers are those of OS 2.55MP.
A cleared bit that was asked to be set puts the part in its error state or leaves
the cleared byte, both of which `program_byte` lists.
The certificate worker's own pair of exits is treated like the block worker's.

### GcJournal

Flash holds `flags`, `phase` and `slot`; RAM holds `mirror` and the position
`pc`. `PowerLoss` is enabled at every position, recovery included, forgets RAM
and keeps Flash. The order of calls is that of the bytes pinned by
`_SIGNATURES` at `3C:7CFB`, the dispatch that of `3C:7C1F` and `PHASE_CASES`.

The source has the calls but not the bodies of `3C:781A`, `7A55`, `7B33`, `7B6D`
and `7C48`. Each is represented by the condition of the area it works on:
*clean*, *torn* while it runs, *done*, and *damaged* when it is started on an
area that is no longer clean. What the recovery branches do to those areas is
taken from the action texts of `PHASE_CASES`: FC and F8 erase, FE and F0 repair.
Consequences:

* byte programs and the half switch in `Commit` and `Cleanup` are atomic. The
  source says nothing of a torn byte program;
* what a repair does is that it finishes the work; whether the ROM's repair
  routines do is not something this source can answer;
* bit 3 of the flags is chosen when the journal is published and stays;
* `SlotAssumption` keeps all slots inside the four that the scan at `3C:7DCE`
  compares with. A TI-84 Plus has nine live slots
  (`ti84_plus_live_sector_state_count`). What `7C48` does with an interrupted
  sector the scan cannot see is not in the source.

### TwoWireLink and BitChannel

`port.py` states the four line states of a bit (`handshake_phases`), how a
line state is read, the acknowledgement it calls for, and the abort pulse. The
loops themselves are ROM code; the actions are the reads and the writes between
those states, one each, so that the other endpoint may move between a read and
the write that follows from it. A waiting endpoint may run out of its counter
at any moment, pull both lines low and release them, unless the transfer is one in
which no counter runs out (`patient`, chosen with the byte).

Checking showed one thing worth knowing. Both lines low means "acknowledged" to
a sender and "error" to everyone, so the pulse of a receiver that gives up is
taken by a waiting sender for its acknowledgement. `BitChannel` allows for it:
after a break one confirmation may come without its delivery. `SentMeansReceived`
and `NoFalseAck` state that this takes a receiver that has left.

### LinkStaging

`receive_data_staging` splits a payload by bit 15 of its destination, collects
blocks and calls `flush_paged_flash_block`. The worker's byte loop
(`_advance_worker_destination`) wraps *before* a byte; the worker's own page is
written out as a variable (`wpage`), since the source only returns the address.
`Save` is the inference `destination >= output_destination`.
A block for an ineligible page is dropped and the page steps all the same;
`lost` counts it, and `Contiguous` and `SpillsOneBlock` are stated for payloads
that lost nothing. A flush of zero bytes, which the receive loop never asks for,
would be the call, the return and `Save` without a byte between.

### InterruptController and LegacyLatch

The two register models of `interrupt_controller.py` differ in what they store:
TilEm keeps the byte of port 3 beside the enables decoded from it, latches both
edges of ON and resets to a readback of 0B with ON disabled; MAME has no readback,
looks at the key in the callback of timer 1 and stores port 2 as written. `emulator`
chooses one in the initial state. `LegacyLatch` says what both promise, and
`KeepsContract` is the refinement.

The environment is the calculator's ROM as `src/docs/interrupts.md` and
`src/docs/keypad-on-hardware.md` describe it: the handler reads port 4, picks one
source (`rom_status_test_order`), writes 08 and then a restoring mask; the
shutdown writes 08 and 11 and halts. Keys, ticks, link transitions and resets
come between any two of these accesses. Assumed:

* a contact of ON lasts until the controller has sampled it;
* no programmable timer runs (status bits 5 to 7 are clear);
* whether the OS goes back to sleep after a stable release is its own choice;

`RequestsAreHeard` says how a request of any source may leave the latch. Several
requests in one status byte are coalesced by the source tested first, as
`src/docs/interrupts.md:166` says; one that comes between the read of port 4 and the
write of 08 (`CameLate`, the position `ack`) is swept away with the source that was
served, and so is one between a program's read of the status and its port-2 write.
These two windows are real losses of the code, a press of ON among them, and the
property names them; what it excludes is any other loss: by the restoring mask write,
by leaving the handler, by serving a source that is tested later, or by a port-2 write
that stores a stale byte. A press that is lost while the key stays down is sampled
again on the next edge only; `PressWakes` is therefore about presses in the latch.

### MemoryMapper

`machine` is a `Ti83PlusMapper` whose registers are all known; `tracer` is a
`Banker`, the same class with `None` for what it has not seen. Every OUT goes to
both, a block OUT to the tracer as unknown. `Machines` pairs an implementation
profile with a *topology*: the page from which RAM is an alias, and whether
paired mode forces the overlays on, off, or follows the profile
(`ram_alias_from`, `overlays_in_paired_mode`). `OverlaysActive` asks in the order of
`_overlays_active`: MAME has none, a topology that forces them is followed, a port 4
not yet known makes the answer unknown even under TilEm's policy *always*, and only
then the profile's policy counts.

The tracer shares its topology with the machine, since `make_banker` builds it
for the machine recorded. It replays no reads, and no caller gives it a profile
with a boot latch, so `ResolutionIsSound` leaves out region 0 while a latch is
on. A reset in the middle of a recording is no record of the trace and not an
action here. The Documented profile asserts no reset values; zero is taken.

`ReadbackRestores` leaves out Wabbitemu in paired mode, where port 7 answers with
the page of bank A (`read_port`); there a save and restore does lose bank B.

### LcdReplay

The pointer moves after a transfer and is normalised before the next, as in the
code. An access inside the busy interval is ignored and is a stuttering step; of
the clock only busy or not busy is kept, which is exact below its wrap at 2^32. A
byte is the set of its one bits. `Record` is `_grid_changes`, applied by a reader
of the log from `from_index` on. Contrast, display on/off, and the refusal of a
block OUT to the panel are not modelled.

### CallFrames

A record of the trace has the registers *after* its instruction
(`trace/resolve.py:294`, `src/docs/sub-resident-programs.md:102`), and
`trace/hardware.py:326` passes its stack pointer on as it is. So the record of a CALL
already counts the return address, and the word more in the next record, by which
`is_taken_call` knows a call, is the one that the callee's first instruction pushed, or
that of an interrupt accepted between the two. `previous` is the last record; each step
runs an instruction, advances the analyser from `previous` to its record, and perhaps
accepts an interrupt behind it. A word on the stack remembers which instruction ran
directly before the one that pushed it (`behind`): that is a history of the program,
and the properties are stated with it. `FramesAreOpenings` says exactly what the frames
are: the calls whose callee pushed at once (`Openings`), for as long as that word lies
on the stack, and the forged frames of interrupts and of pushes behind a CALL that was
not taken. `AttributedToInnermost` is stated for stacks without the latter two.

The list is a set here, since `TypeOK` shows that at most
one frame lies at a depth. The stack below its depth at `from_index`, and
`EX (SP),HL`, are not modelled.

## Runs

| Run | Checks | Bounds |
|---|---|---|
| `flash_trace` | TypeOK, ReplayIsExact, ReplayFollowsChip, CleanTraceIsReplayed | no command starts after 10 writes: an erase and a block, two blocks, a block of two bytes with its reset; data F0, AA, 30, FF; a target equal to an unlock address; programs and erases may fail; a clock with two readings that wraps, or goes right round, once |
| `flash_trace_erase_failure` | FailedWorkIsRefused, **violated** | as above |
| `gc_journal` | TypeOK, PhaseVouchesForWork, NothingDamaged, MirrorNotAhead, RetiredOnlyWhenComplete, FollowsTransitions, CollectionEnds | four slots, all the scan sees; two collections; three losses |
| `gc_journal_cleanup` | CleanupAfterE0, **violated** | as above |
| `two_wire_link` | TypeOK, BitsArriveInOrder, SentMeansReceived, NoFalseAck, ImplementsChannel, LinesComeBack, ByteCompletes | all 256 bytes; timeouts everywhere, or nowhere in the transfer |
| `link_staging` | TypeOK, Contiguous, ArrivesWhole, SpillsOneBlock, ReceiveEnds | real block size and address width; 64 starts, 7 lengths, 3 models |
| `interrupt_controller` | TypeOK, RequestsAreHeard, ReadbackTellsTruth, KeepsContract, PressWakes | none: the state space is finite |
| `memory_mapper` | TypeOK, ResolutionIsSound, CompleteMeansResolved, ForcedRangesAgree, ReadbackRestores | eight Flash and four RAM pages, four units to a region, two to an overlay granule, Wabbitemu's cutoff inside a granule; four implementations as they are, TilEm and Wabbitemu again with an alias and the overlays of paired mode turned round |
| `lcd_replay` | TypeOK, LogExplains, FieldExact | two rows of four bytes, three of them shown; two data writes |
| `lcd_six_bit` | OnlyOwnGroup, **violated** | as above |
| `call_frames` | TypeOK, FramesAreOpenings, AttributedToInnermost | three pages, three words of stack |
| `call_frames_claim` | ActiveCallsHaveFrames, **violated** | as above |

Why the bounds are enough. A command is at most six writes, and the last one starts after ten, so every
pair of neighbours the decoder can confuse is there; decoder and replay look at nothing
else but the two clocks of neighbouring commands. The journal has no memory beyond Flash, so a second loss reaches
everything a recovery branch can leave behind, and a third one a loss during the
recovery from that; the second collection starts on what the first left.
The mapper is checked at a sixteenth of its scale, with a page on each side of
every distinction the code draws: RAM or Flash, even or odd, backed or not, below
or above an overlay's edge. The LCD needs a row that six does not divide, and two
writes for one to overlap the other; three words of stack hold a call, the first
push of its callee and a call or an interrupt on top.
For safety the bounds matter little: the proofs have none. The link is
checked at its real width. Staging is periodic in the page size, so payloads of
up to four blocks around both ends of a page and of each range see each case.

Deadlock is checked in `interrupt_controller`, `memory_mapper` and `call_frames`,
which never stop. Elsewhere stopping is legitimate: a finished transfer, an idle
collector, a finished pipeline, a trace at its last write. `ByteCompletes`,
`LinesComeBack`, `CollectionEnds` and `ReceiveEnds` say where
those may not stop; for the pipeline the theorem `PipelineRunsOut` does.

### Fairness

* `FlashTrace`: none. A recording may go on for ever, and the pipeline is a sequential
  program whose loops run over finite lists.
* `GcJournal`: weak fairness of `Running`: the CPU executes and the power returns.
  No one has to start a collection; power losses are finitely many.
* `TwoWireLink`: weak fairness of each endpoint by itself: two processors, each
  executing its loop at an unknown speed.
* `LinkStaging`: weak fairness of the loop, once the bytes of the payload are there.
* `InterruptController`: weak fairness of boot, interrupt acceptance, handler and
  arming: a processor that is not held in reset executes. Nothing is assumed of
  keys, timers, link and resets.

### Disagreements found

* `flash_trace_erase_failure`. The docstring of `validate_replay_stream`
  (`flash/replay_trace.py:37`) promises to reject streams "whose worker outcomes are
  incomplete or failed". The function looks at program invocations only; the
  reset of a failed erase belongs to none, and the erase is replayed as done.
* `gc_journal_cleanup`. `PHASE_WRITES` has E0 written "always before final
  cleanup", and `src/docs/sub-vat-archive.md:712` joins F0 recovery at `7D25` or
  `7D2B`; `PHASE_CASES` continues F0 at `7D30`, behind the write. After a loss in
  phase F0 the cleanup runs with F0 in the journal. `RetiredOnlyWhenComplete` holds
  all the same, and `PhaseChain` has both ways to retire.
* `lcd_six_bit`. `src/docs/lcd-hardware.md:165` says that in six-bit mode "only bits
  0–5 are significant"; `T6A04.write` masks the shifted byte with 3FC
  (`trace/lcd.py:134`), which keeps bits 6 and 7. Writing 00 and then FF in mode 0
  lights pixels 4 and 5, of the first group, as well. `FieldExact` is therefore
  stated for bytes that fit the word length.
* `call_frames_claim`. `DynamicCallStack` is to "recover the active call frames"
  (`mathprint/analyze_draw_trace.py:71`), but `is_taken_call` compares two stack
  pointers that are both taken after their instructions: a call whose callee starts
  with anything but a push has no frame. The unit tests give the CALL the stack pointer
  from before it (`src/tools/tests/mathprint/test_mathprint_draw_trace.py:37`), as no
  trace does.

## Proofs

### GcJournalProofs

`GcJournalProofs` proves, for every set of slots below 4, those the scan at `3C:7DCE`
can see (`SlotAssumption`), and any number of collections and losses. The nine live
slots of a TI-84 Plus are not covered: none of these theorems says anything of a
collection with an interrupted sector in slot 4 or later.

| Theorem | States |
|---|---|
| `Invariant` | `Spec => []IInv` |
| `TypeCorrect`, `VouchesForWork`, `NeverDamaged`, `MirrorBehind` | the invariants of `gc_journal` |
| `RetiresComplete` | `RetiredOnlyWhenComplete` |
| `Implements` | `Spec => Chain!Spec`: the collector implements `PhaseChain` |
| `PhaseOnlyClears` | `Spec => [][ClearsBits]_vars`: from publication to retirement no write sets a bit of the phase |
| `NeverRests` | `Spec => []NeverAtRest`: beside a live journal the CPU never idles, and dispatch has a branch for every phase it can read |
| `OnlyForward` | `Spec => [][Running /\ Live /\ Live' => Forward]_vars` |

None of the safety properties is inductive: each speaks of Flash alone, and which
step comes next depends on the position in RAM. `IInv` has three layers.
`PositionInv` says which phase is in Flash at each position, for a run that
started fresh or came back through recovery. `AreaInv` says how far each area is
for that phase, and weakens to "anything but damaged" where a run was cut.
`SectorInv` relates a slot to its sector: only the current sector is under
way, unless its run was cut, and then the slot says so. A power loss is the
interesting step: it moves to a position where `PhaseFits` asks for nothing, and what the
other two layers still say of Flash must be enough for the branch that
`Dispatch` takes.

`PhaseOnlyClears` is a consequence of the abstract chain (`EdgesClear`), carried over
by `Implements`. `OnlyForward` is the argument behind `CollectionEnds`: a step of
the CPU goes to a later stage (`Distance`), or leaves fewer slots unfinished, or
advances inside the turn of a sector, or leaves fewer sectors to repair. The order
is well founded for finitely many slots, so between two losses a collection or a
recovery takes finitely many steps, whatever Flash held.

The assumptions are `SlotAssumption` and `BoundAssumption`, evaluated by TLC in
`gc_journal`. The bounds are not used beyond the type of the counters.

### TwoWireLinkProofs

For bytes of any width, in transfers with and without timeouts:

| Theorem | States |
|---|---|
| `Invariant` | `Spec => []IInv` |
| `TypeCorrect`, `InOrder`, `Delivered`, `NoFalse` | the invariants of `two_wire_link` |
| `Implements` | `Spec => ImplementsChannel`: the handshake implements `BitChannel` |
| `StopAndWait` | the two counts of bits stay within one, and a confirmation without delivery is the last event |
| `StepsRunOut` | `Spec => []Bounded /\ [][Work' < Work]_vars`: at most `8 * BITS + 12` steps |
| `NeverStuck` | `Spec => []SomebodyCanMove` |
| `PatientTransfer` | in a patient transfer, two endpoints that have ended have transferred the byte |
| `EndsReleased` | two endpoints that have ended, however, leave both lines high |

What travels is the order of the bits; what an endpoint sees is two levels. `IInv`
therefore ties positions to levels (`SenderDrives`, `ReceiverDrives`), levels to
counters (`Counts`), and says which joint positions exist (`Handshake`). The lemma
`Levels` has the electrical facts and is the only place where the lines are
taken apart. Two steps carry the argument: a sender that sees its acknowledgement
needs to know who pulls the other line, and a receiver that samples needs to know
that the single low line is the bit it has not taken yet. `Counts` is stated for a
receiver that is `Present`: one that has decided to give up but has not pulled both
lines is still bound by the handshake. Assumption: `BitsAssumption`.

`StopAndWait` follows from `BitChannel` alone (`ChannelInStep`). The others are
the safety half of `LinesComeBack` and `ByteCompletes`: every step of either
endpoint leaves less `Work`, and until both have ended one of them is ready
(`SenderReady`, `ReceiverReady` are the guards of the code's steps, written out).
With weak fairness of each endpoint both end; `EndsReleased` and `PatientTransfer`
say how. `PatientTransfer` is about transfers in which `patient` holds; with timeouts its
conclusion is false.

### LinkStagingProofs

For every block size up to a page, every set of payloads and the three page
ranges of `PAGE_RANGE_PROFILES`:

| Theorem | States |
|---|---|
| `Invariant` | `Spec => []IInv` |
| `TypeCorrect`, `InSequence`, `SpillIsBounded`, `Whole` | the invariants of `link_staging` |
| `NothingUnaccounted` | at the end programmed and dropped bytes are the payload; a payload for RAM programs nothing |
| `CursorIsBehindPayload` | a payload programmed whole leaves page and address at the byte behind it |
| `StepsRunOut` | `Spec => []Bounded /\ [][Effort' < Effort]_vars`: at most `6 * length + 5` steps |

`Accounted` conserves the bytes of the payload. `CursorInv` is the heart: while a
block is programmed, the worker is on the receiver's page or the next one, and at
most a block ahead. A block is no longer than a page, so the worker's address has
wrapped exactly when it did not grow, which is what `Save` infers. That is
why `StagingAssumption` bounds `BLOCK` by `BASE`: with longer blocks the inference is
wrong. `DropInv` says that a block is dropped only when the payload leaves the
range. The same assumption types `Starts` and `Lengths`.

### FlashTraceProofs

For every array, geometry, part, data byte and recording of any length:

| Theorem | States |
|---|---|
| `Invariance` | `Spec => []IInv` |
| `TypeCorrect`, `CleanIsReplayed` | `TypeOK`, `CleanTraceIsReplayed` |
| `FollowsChip`, `ReplayExact` | `ReplayFollowsChip`, `ReplayIsExact` |
| `ExactWithoutFailure` | with `~EraseMayFail`: `Spec => [](stage = "done" => image = array)` |
| `FailedProgramRefused` | `Spec => [](stage = "done" => "program" \notin failures)` |
| `FailedWorkRefused` | with `~EraseMayFail`: `Spec => []FailedWorkIsRefused` |
| `PipelineRunsOut` | `Spec => []Bounded /\ [][stage # "record" => Effort' < Effort]_vars` |

`ReplayIsExact` and `ReplayFollowsChip` speak of recordings in which no erase has
failed: behind a failed one the image is wrong, as `flash_trace_erase_failure`
shows. The condition is on the recording, not on the part, so the two hold of a
part whose erases may fail. `FailureStays` makes it inductive: a failure is never
forgotten, so a state without one was reached through states without one, where
`LandedInv` and `ReplayInv` hold.

`FailedWorkRefused` is the docstring of `validate_replay_stream` under the one
assumption without which it is false. `FailedBlock` carries it: a program that
failed is the last byte of a block that its failure exit closed, so the decoder,
which finds every command of `asked` at its place, hands the validator a
block without a success, and `RefusalInv` keeps such a stream out of the replay.
`PipelineRunsOut` says that the pipeline ends: two steps for an event and
three more are all it can take.

The difficulty is that a decoder without any framing has to find commands in a
stream of writes that may contain the same bytes as data. `IInv` ties the two ends
through `asked`. On the calculator's side, `Scripted` says which writes of the
current command are still to come, `Recorded` that the events are those of the
commands asked so far, and `ChipFits` that the part's command state is that of the
command at its present write. On the pipeline's side, `Faithful` says that the
commands decoded so far are a prefix of `asked`, found at its positions, or
`CutShort` that one of them matched nothing, since the recording stopped inside the
last command. The central lemma is
`CommandSeen`: at the place of a command the decoder sees that command, or, when
the recording ends inside it, a write it cannot match.
`ClockInv` adds that before the wrap the clocks of events and commands grow with their
positions, so that `ClockRunsBack` is false of them; beyond it nothing is said, and
nothing of exactness depends on it: a refusal lets no image out.
`LandedInv` then counts the mutations of `asked` against `landed`, and
`ReplayInv` the mutations replayed against both. Assumptions:
`UnlockAssumption`, `ArrayAssumption`, `RequestAssumption`, `ClockAssumption`.

### InterruptControllerProofs

`TypeCorrect`, `RequestsHeard`, `ReadbackTrue`, and `ContractKept`: the controllers
under the OS implement `LegacyLatch`. There are no constants; the proof replaces
an enumeration by four reasons. `ServedIsFirst` says that a handler serves the source
of its status byte that is tested first, so what its 08 takes is that source, one
tested later, or one that came late. `Masked` says what is enabled between two mask
writes of the OS, so that the second takes nothing that came since the first.
`StatusIsFresh` says that what a port 2
write stores back was pending when it was read, so MAME's store of the byte is an
acknowledgement. `NoLink` keeps MAME's absent source off.

`ContractIsSound` proves of `LegacyLatch` alone that requests stay within enabled
and implemented sources, and `PendingIsEnabled` carries that to both emulators.
`PressGetsCloser` is the argument behind `PressWakes`. `Waking` says when a press
will wake the calculator: up to the entry of the handler the request carries it,
afterwards the level of the key. A press latched in sleep is `Waking`; the world
(keys, timers, link) leaves that and the `Distance` alone, a step of the OS takes
one off the distance, and at one the OS powers on, unless the key was released or
a reset came in between. In HALT the interrupt is there (`CanWake`).

### MemoryMapperProofs

`TypeCorrect`, `Soundness`, `Completeness` and `RangesReported`, for every geometry,
every set of bytes and every topology. The invariant is `Knows`: what the tracer
has of a register is nothing or the truth. Soundness follows layer by layer: a Flash page with
unknown extension bits is unique or unknown, then the selected page, the region
and the address. Completeness and ranges are arithmetic of regions and need
`OverlayAssumption`: an overlay leaves a granule of its region free, as a
byte's worth of 64-byte granules does. `MapperAssumption` types the constants.

`ReadbackKeeps` states `ReadbackRestores` for every geometry that is `Aligned`: the
Flash pages are a whole number of selectors of `RAM_BIT` pages, or divide one; the
number of RAM pages does not enter. The parts do (64 and 512 pages), but the constructor takes any positive number, and
then the assumption is needed: with six Flash pages and four to a selector
Wabbitemu answers with a page that the same extension bits do not
select. `BanksStayNormal` is the invariant under it: port writes and
resets leave only values that a second write would not change. So the
profiles that answer from their registers restore them (`ReadbackByRegister`,
without `Aligned`), and for Wabbitemu, which answers with the selected page,
`SelectedAgain` does the division: writing a page's own number selects the page.

### LcdReplayProofs

`TypeCorrect`, `LogIsComplete` and `WritesAreExact`, for every stride, number of rows,
panel and set of data bytes (`LcdAssumption`). `TypeOK` carries the bounds of the
pointer between transfers, so that the normalised pointer lies in the row;
`FieldExact` is then a comparison of byte and bit with group and position, split by
the shift of the group.

### CallFramesProofs

`TypeCorrect`, `FramesSound` and `AttributionSound`, for every stack depth and set of
pages (`FramesAssumption`), with the stack pointers that the records have.
`FramesAreOpenings` is inductive together with the types and `PreviousInv`, which says
that since the last record the stack has got at most an interrupt's word, and that a
taken call's record has the call's word on top. `StackResult` is what of an instruction
matters: the words below stay, and at most one is added, marked with the instruction
before it. `RecordStep` shows that such a step keeps the invariant, with an interrupt
behind it or without; each instruction then only has to be one.

### What is not proved

The five liveness properties: `CollectionEnds`, `ByteCompletes`,
`LinesComeBack`, `ReceiveEnds`, `PressWakes`. Weak fairness is defined by ENABLED,
which is out of the prover's reach, so they stay with TLC. What each rests on is
proved: `OnlyForward` and `NeverRests`; `StepsRunOut` and
`NeverStuck` of the link; `StepsRunOut` of staging; `PressGetsCloser`. They say
that steps run out or lead to the end, and, for the journal, the link and HALT, that
one is always left to take. Every safety property that a passing run checks is
proved.

## Not modelled, and why

`PROJECT.json` gives a reason for each part. In short: the ROM analyses, the
certificate rebuild among them, are pure functions over ROM bytes; the emulator
drivers start other programs and parse their output; MathPrint, TI-BASIC,
graphing and file tools are arithmetic or formats, and most of the repository's
lines are theirs. MD5, keypad and execution protection are registers with pure
functions over them and one caller.
Inside modelled parts: clock cutoff and phase snapshots of the replay
(`ReplayFollowsChip` is what they rely on), the timeline grouping
(`group_byte_program_runs`), autoselect, CFI and suspend commands, keyboard
frames, link-assist ports and emulator port profiles, LCD contrast and the
panel's on/off switch.

## Plan

Done: `NorFlash`, `FlashTrace`, `PhaseChain`, `GcJournal`, `BitChannel`, `TwoWireLink`,
`LinkStaging`, `LegacyLatch`, `InterruptController`, `MemoryMapper`, `LcdReplay` and
`CallFrames`, the detailed ones each with a proof module.

Left, in order of use:

1. Phase snapshots and clock cutoff in `FlashTrace`, on top of `ReplayFollowsChip`.
2. `LinkCollision`: two senders on the lines of `TwoWireLink`; keyboard frames.
3. Programmable timers and automatic power-off beside `InterruptController`.
4. The tracer of `MemoryMapper` in place of `Resolved` in `FlashTrace`.
5. The protected-port sequence of the Flash gate, and the LCD pointer walkers of
   `hardware/lcd_controller.py`.

The certificate halves stay atomic steps of `GcJournal`: `certificate_rebuild.py`
locates the copy and the switch in the ROM but gives their steps no semantics to
translate.
