----------------------------- MODULE FlashTrace -----------------------------
(***************************************************************************)
(* From a calculator writing its Flash to an image rebuilt out of the      *)
(* trace of those writes.                                                  *)
(*                                                                         *)
(*   worker  --writes-->  Flash part          (what really happens)        *)
(*      |                                                                  *)
(*      +--write and instruction records-->  trace, cut off at any point   *)
(*                 resolve -> decode -> validate -> replay  ->  image      *)
(*                                                                         *)
(* The recorder sees CPU writes only.  The pipeline has to produce the     *)
(* array the part really holds, or refuse the trace.                       *)
(*                                                                         *)
(* Source: src/tools/ti84re/flash/trace.py, flash/replay.py,               *)
(* flash/replay_trace.py and trace/hardware.py; the worker and the part    *)
(* are the environment, taken from flash/hardware.py and the copied        *)
(* worker's exits named in flash/trace.py.                                 *)
(***************************************************************************)
EXTENDS NorFlash, Integers, Sequences

CONSTANTS
    Addr,           \* Flash byte addresses
    UNLOCK1,        \* UNLOCK_ADDR_1 and UNLOCK_ADDR_2, the two addresses
    UNLOCK2,        \*   that carry the unlock cycles
    sectorOf,       \* sector geometry of the part
    Source,         \* the image the trace starts from
    Requests,       \* <<address, byte>> pairs the worker may be asked for
    EraseTargets,   \* addresses it may be asked to erase
    EraseMayFail,   \* whether an erase may run into the DQ5 limit
    NoAddress,      \* flat_address of a write whose page is not known
    CLOCK,          \* 2^32: readings of the clock of an instruction record
    MaxTime,        \* time stops passing here
    MaxEvents       \* no command starts after this many recorded writes

ASSUME UnlockAssumption ==
    UNLOCK1 \in Addr /\ UNLOCK2 \in Addr /\ UNLOCK1 # UNLOCK2

ASSUME ArrayAssumption ==
    /\ IsGeometry(sectorOf, Addr)
    /\ Source \in [Addr -> Byte]
    /\ NoAddress \notin Addr

ASSUME RequestAssumption ==
    /\ Requests \subseteq Addr \X Byte
    /\ EraseTargets \subseteq Addr
    /\ EraseMayFail \in BOOLEAN
    /\ MaxEvents \in Nat

ASSUME ClockAssumption == CLOCK \in Nat \ {0} /\ MaxTime \in Nat

VARIABLES
    worker,     \* what the CPU is doing: see Worker below
    script,     \* the bus writes left in its current command
    chip,       \* command state of the part
    array,      \* contents of the part
    landed,     \* array after each mutation the part performed, oldest first
    failures,   \* workers that ended on their failure path
    asked,      \* the commands the worker issued, with where they start
    mapped,     \* whether the trace has established the bank mapping yet
    pending,    \* writes whose instruction record has not arrived
    time,       \* the time since the calculator's clock was zero
    events,     \* Flash writes recovered from the trace
    stage,      \* stage of the pipeline
    index,      \* decoder cursor into events, later the replay cursor
    commands,   \* decoded commands
    image,      \* the image under replay
    mutations   \* mutations replayed so far

calculator == <<worker, script, chip, array, landed, failures, asked>>
recorder   == <<mapped, pending, time, events>>
pipeline   == <<stage, index, commands, image, mutations>>
vars       == <<calculator, recorder, pipeline>>

-----------------------------------------------------------------------------
(* Bus writes and the two command shapes.                                  *)

\* Reset writes carry the exit they were issued from; others carry "body".
Exits  == {"body", "success", "failure"}
Write  == [addr : Addr, val : Byte, pc : Exits]
Event  == [addr : Addr \cup {NoAddress}, val : Byte, pc : Exits, clock : Nat]
Bus(a, v) == [addr |-> a, val |-> v, pc |-> "body"]

ProgramShape(a, v) ==
    <<Bus(UNLOCK1, xAA), Bus(UNLOCK2, x55), Bus(UNLOCK1, xA0), Bus(a, v)>>

EraseShape(a) ==
    <<Bus(UNLOCK1, xAA), Bus(UNLOCK2, x55), Bus(UNLOCK1, x80),
      Bus(UNLOCK1, xAA), Bus(UNLOCK2, x55), Bus(a, x30)>>

Commands == [kind : {"sector_erase", "byte_program", "array_reset",
                     "unmatched_write"},
             addr : Addr, val : Byte, pc : Exits, clock : Nat]

\* What the worker issued, the first event it is recorded as, and the
\* mutations the part had performed before.
Asked == [kind : {"sector_erase", "byte_program", "array_reset"},
          addr : Addr, val : Byte, pc : Exits, from : Nat, before : Nat]

\* The worker is idle, inside a block of bytes, inside an erase, or about
\* to write a reset.  A block remembers the byte it last asked for.
Worker == [at : {"idle", "block", "erase", "reset"}, addr : Addr, val : Byte]

ChipStates == {"read", "unlock1", "unlock2", "program",
               "erase1", "erase2", "erase3", "error"}

TypeOK ==
    /\ worker \in Worker
    /\ script \in Seq(Write) /\ Len(script) <= 6
    /\ chip \in ChipStates
    /\ array \in [Addr -> Byte]
    /\ landed \in Seq([Addr -> Byte])
    /\ failures \subseteq {"program", "erase"}
    /\ asked \in Seq(Asked)
    /\ mapped \in BOOLEAN
    /\ pending \in Seq([kind : {"flash", "ram"}, addr : Addr \cup {NoAddress},
                        val : Byte])
    /\ time \in Nat
    /\ events \in Seq(Event)
    /\ stage \in {"record", "decode", "validate", "replay", "done", "refused"}
    /\ index \in Nat
    /\ commands \in Seq(Commands)
    /\ image \in [Addr -> Byte]
    /\ mutations \in Nat

Init ==
    /\ worker = [at |-> "idle", addr |-> UNLOCK1, val |-> Erased]
    /\ script = << >>
    /\ chip = "read" /\ array = Source /\ landed = << >> /\ failures = {}
    /\ asked = << >>
    /\ mapped \in BOOLEAN
    /\ pending = << >> /\ time = 0 /\ events = << >>
    /\ stage = "record" /\ index = 1 /\ commands = << >>
    /\ image = Source /\ mutations = 0

-----------------------------------------------------------------------------
(* The calculator: copied Flash worker and Flash part.                     *)

\* One write cycle as the part's command table has it.
NextChip(w) ==
    CASE chip = "read" /\ w.addr = UNLOCK1 /\ w.val = xAA    -> "unlock1"
      [] chip = "unlock1" /\ w.addr = UNLOCK2 /\ w.val = x55 -> "unlock2"
      [] chip = "unlock2" /\ w.addr = UNLOCK1 /\ w.val = xA0 -> "program"
      [] chip = "unlock2" /\ w.addr = UNLOCK1 /\ w.val = x80 -> "erase1"
      [] chip = "erase1" /\ w.addr = UNLOCK1 /\ w.val = xAA  -> "erase2"
      [] chip = "erase2" /\ w.addr = UNLOCK2 /\ w.val = x55  -> "erase3"
      [] chip = "error" /\ w.val # xF0                       -> "error"
      [] OTHER                                               -> "read"

\* A program request that needs a zero to become a one may put the part in
\* its error state (TilEm) or end with the cleared byte (Wabbitemu).  An
\* erase that fails leaves the sector as it was.
ChipCycle(w) ==
    \/ /\ chip = "program"
       /\ \/ chip' = "read"
          \/ ZeroToOne(array[w.addr], w.val) /\ chip' = "error"
       /\ array' = AfterProgram(array, w.addr, w.val)
       /\ landed' = Append(landed, array')
    \/ /\ chip = "erase3" /\ w.val = x30
       /\ \/ /\ chip' = "read"
             /\ array' = AfterErase(array, sectorOf[w.addr])
             /\ landed' = Append(landed, array')
          \/ EraseMayFail /\ chip' = "error" /\ UNCHANGED <<array, landed>>
    \/ /\ chip # "program"
       /\ ~(chip = "erase3" /\ w.val = x30)
       /\ chip' = NextChip(w)
       /\ UNCHANGED <<array, landed>>

Recording == stage = "record" /\ pending = << >>
Room == Len(events) + Len(script) < MaxEvents

\* What the DQ7/DQ5 poll concludes about the last byte.  The worker compares
\* nothing but DQ7.
PollSucceeds == chip = "read" /\ SameBit(DQ7, array[worker.addr], worker.val)

Ask(kind, a, v, exit) ==
    asked' = Append(asked, [kind |-> kind, addr |-> a, val |-> v, pc |-> exit,
                            from |-> Len(events) + 1,
                            before |-> Len(landed)])

\* The worker starts a block, or fetches the next byte of one.
StartProgram(a, v) ==
    /\ Recording /\ Room /\ script = << >>
    /\ worker.at = "idle" \/ (worker.at = "block" /\ PollSucceeds)
    /\ worker' = [at |-> "block", addr |-> a, val |-> v]
    /\ script' = ProgramShape(a, v)
    /\ Ask("byte_program", a, v, "body")
    /\ UNCHANGED <<chip, array, landed, failures, recorder, pipeline>>

StartErase(a) ==
    /\ Recording /\ Room /\ script = << >> /\ worker.at = "idle"
    /\ worker' = [at |-> "erase", addr |-> a, val |-> x30]
    /\ script' = EraseShape(a)
    /\ Ask("sector_erase", a, x30, "body")
    /\ UNCHANGED <<chip, array, landed, failures, recorder, pipeline>>

\* A block ends with the reset write of the worker's success or failure
\* exit.
EndBlock(exit) ==
    /\ Recording /\ script = << >> /\ worker.at = "block"
    /\ (exit = "success") <=> PollSucceeds
    /\ worker' = [worker EXCEPT !.at = "reset"]
    /\ script' = <<[addr |-> worker.addr, val |-> xF0, pc |-> exit]>>
    /\ Ask("array_reset", worker.addr, xF0, exit)
    /\ failures' = IF exit = "failure" THEN failures \cup {"program"}
                                       ELSE failures
    /\ UNCHANGED <<chip, array, landed, recorder, pipeline>>

\* An erase that succeeded returns without a reset.  The failure exit
\* writes its reset through whatever DE the caller left.
EndErase ==
    /\ Recording /\ script = << >> /\ worker.at = "erase"
    /\ \/ /\ chip = "read"
          /\ worker' = [worker EXCEPT !.at = "idle"]
          /\ UNCHANGED <<script, failures, asked>>
       \/ /\ chip = "error"
          /\ worker' = [worker EXCEPT !.at = "reset"]
          /\ \E de \in Addr :
                /\ script' = <<[addr |-> de, val |-> xF0, pc |-> "failure"]>>
                /\ Ask("array_reset", de, xF0, "failure")
          /\ failures' = failures \cup {"erase"}
    /\ UNCHANGED <<chip, array, landed, recorder, pipeline>>

EndReset ==
    /\ Recording /\ script = << >> /\ worker.at = "reset"
    /\ worker' = [worker EXCEPT !.at = "idle"]
    /\ UNCHANGED <<script, chip, array, landed, failures, asked, recorder,
                   pipeline>>

-----------------------------------------------------------------------------
(* The recorder: a write record when the bus write happens, resolved under *)
(* the mapping of that moment, and an instruction record afterwards.       *)

\* resolve_memory_target on a Flash window.
Resolved(a) == IF mapped THEN a ELSE NoAddress

BusWrite ==
    /\ Recording /\ script # << >>
    /\ ChipCycle(Head(script))
    /\ pending' = <<[kind |-> "flash", addr |-> Resolved(Head(script).addr),
                     val |-> Head(script).val]>>
    /\ UNCHANGED <<worker, script, failures, asked, mapped, time, events,
                   pipeline>>

\* The pushes and stores of the worker itself land in RAM.
RamWrite(v) ==
    /\ Recording /\ script # << >>
    /\ pending' = <<[kind |-> "ram", addr |-> NoAddress, val |-> v]>>
    /\ UNCHANGED <<calculator, mapped, time, events, pipeline>>

\* MemoryWriteAttributor.feed on an instruction record: the buffered
\* writes become events of that instruction, and main() keeps the Flash ones.
InstructionRecord ==
    /\ stage = "record" /\ pending # << >>
    /\ IF Head(pending).kind = "flash"
       THEN /\ events' = Append(events, [addr |-> Head(pending).addr,
                                        val |-> Head(pending).val,
                                        pc |-> Head(script).pc,
                                        clock |-> time % CLOCK])
            /\ script' = Tail(script)
       ELSE UNCHANGED <<events, script>>
    /\ pending' = << >>
    /\ UNCHANGED <<worker, chip, array, landed, failures, asked, mapped, time,
                   pipeline>>

\* Time passes by any amount; a command carries the clock of its last write,
\* so it is enough that it passes between commands.
TimePasses ==
    /\ Recording /\ script = << >> /\ time < MaxTime
    /\ time' \in time + 1 .. MaxTime
    /\ UNCHANGED <<calculator, mapped, pending, events, pipeline>>

\* The worker selects a page through port 6 between its writes; the trace
\* knows the window from then on.
SelectPage ==
    /\ Recording /\ script # << >> /\ ~mapped
    /\ mapped' = TRUE
    /\ UNCHANGED <<calculator, pending, time, events, pipeline>>

\* Seeded fault: unresolved writes are dropped without being counted.
UnresolvedIgnored(e) == FALSE

\* The recording may stop anywhere.  Writes still waiting for their
\* instruction record are never delivered.  main() counts the unresolved
\* ones and refuses a trace that has any.
Unresolved(e) == e.addr = NoAddress

CutTrace ==
    /\ stage = "record"
    /\ stage' = IF \E i \in 1 .. Len(events) : Unresolved(events[i])
                THEN "refused" ELSE "decode"
    /\ UNCHANGED <<calculator, recorder, index, commands, image, mutations>>

-----------------------------------------------------------------------------
(* decode_amd_flash_commands: greedy, with the longer shape tried first.   *)

At(i, a, v) == events[i].addr = a /\ events[i].val = v

\* Seeded fault: an erase that ends the trace falls out of the bounds test.
EraseShort(i) ==
    /\ i + 5 < Len(events)
    /\ At(i, UNLOCK1, xAA) /\ At(i + 1, UNLOCK2, x55)
    /\ At(i + 2, UNLOCK1, x80)
    /\ At(i + 3, UNLOCK1, xAA) /\ At(i + 4, UNLOCK2, x55)
    /\ events[i + 5].val = x30 /\ events[i + 5].addr # NoAddress

EraseAt(i) ==
    /\ i + 5 <= Len(events)
    /\ At(i, UNLOCK1, xAA) /\ At(i + 1, UNLOCK2, x55)
    /\ At(i + 2, UNLOCK1, x80)
    /\ At(i + 3, UNLOCK1, xAA) /\ At(i + 4, UNLOCK2, x55)
    /\ events[i + 5].val = x30 /\ events[i + 5].addr # NoAddress

ProgramAt(i) ==
    /\ i + 3 <= Len(events)
    /\ At(i, UNLOCK1, xAA) /\ At(i + 1, UNLOCK2, x55)
    /\ At(i + 2, UNLOCK1, xA0)
    /\ events[i + 3].addr # NoAddress

\* The command takes target, value, PC and clock from the last write of its
\* span.
Decode(kind, span) ==
    LET last == events[index + span - 1]
    IN  /\ commands' = Append(commands, [kind |-> kind, addr |-> last.addr,
                                         val |-> last.val, pc |-> last.pc,
                                         clock |-> last.clock])
        /\ index' = index + span

Decoding == stage = "decode" /\ index <= Len(events)

DecodeErase ==
    /\ Decoding /\ EraseAt(index)
    /\ Decode("sector_erase", 6)
    /\ UNCHANGED <<calculator, recorder, stage, image, mutations>>

DecodeProgram ==
    /\ Decoding /\ ~EraseAt(index) /\ ProgramAt(index)
    /\ Decode("byte_program", 4)
    /\ UNCHANGED <<calculator, recorder, stage, image, mutations>>

DecodeSingle ==
    /\ Decoding /\ ~EraseAt(index) /\ ~ProgramAt(index)
    /\ IF events[index].addr = NoAddress
       THEN index' = index + 1 /\ UNCHANGED commands
       ELSE Decode(IF events[index].val = xF0 THEN "array_reset"
                                              ELSE "unmatched_write", 1)
    /\ UNCHANGED <<calculator, recorder, stage, image, mutations>>

EndDecode ==
    /\ stage = "decode" /\ index > Len(events)
    /\ stage' = "validate"
    /\ UNCHANGED <<calculator, recorder, index, commands, image, mutations>>

-----------------------------------------------------------------------------
(* validate_replay_stream: every program belongs to an invocation closed   *)
(* by a reset from a success exit, and nothing was left unmatched.         *)

\* group_byte_program_invocations and worker_outcome, for one program.
ClosedBySuccess(i) ==
    \E j \in i + 1 .. Len(commands) :
        /\ commands[j].kind = "array_reset" /\ commands[j].pc = "success"
        /\ \A k \in i .. j - 1 : commands[k].kind = "byte_program"

ValidStream ==
    /\ commands # << >>
    /\ \A i \in 1 .. Len(commands) :
          /\ commands[i].kind # "unmatched_write"
          /\ commands[i].kind = "byte_program" => ClosedBySuccess(i)

Validate ==
    /\ stage = "validate"
    /\ stage' = IF ValidStream THEN "replay" ELSE "refused"
    /\ index' = 1
    /\ UNCHANGED <<calculator, recorder, commands, image, mutations>>

\* Seeded faults: a program stores the requested byte; an erase cuts the
\* image off behind the sector.
ApplyRequested(img, c) ==
    CASE c.kind = "byte_program" -> [img EXCEPT ![c.addr] = c.val]
      [] c.kind = "sector_erase" -> AfterErase(img, sectorOf[c.addr])
      [] OTHER                   -> img

ApplyTruncated(img, c) ==
    CASE c.kind = "byte_program" -> AfterProgram(img, c.addr, c.val)
      [] c.kind = "sector_erase" -> [a \in sectorOf[c.addr] |-> Erased]
      [] OTHER                   -> img

\* apply_accepted_command: the array after one command; a reset leaves it.
ApplyAccepted(img, c) ==
    CASE c.kind = "byte_program" -> AfterProgram(img, c.addr, c.val)
      [] c.kind = "sector_erase" -> AfterErase(img, sectorOf[c.addr])
      [] OTHER                   -> img

\* The replay raises on a command with an earlier clock than the one before
\* it, and on one that it cannot apply.
ClockRunsBack(i) == i > 1 /\ commands[i].clock < commands[i - 1].clock

Refuses(i) == ClockRunsBack(i) \/ commands[i].kind = "unmatched_write"

\* replay_accepted_commands, one command at a time.
ReplayCommand ==
    /\ stage = "replay" /\ index <= Len(commands) /\ ~Refuses(index)
    /\ LET c == commands[index]
       IN  /\ image' = ApplyAccepted(image, c)
           /\ mutations' = IF c.kind \in {"byte_program", "sector_erase"}
                           THEN mutations + 1 ELSE mutations
    /\ index' = index + 1
    /\ UNCHANGED <<calculator, recorder, stage, commands>>

\* An exception: no image comes out.
RefuseCommand ==
    /\ stage = "replay" /\ index <= Len(commands) /\ Refuses(index)
    /\ stage' = "refused"
    /\ UNCHANGED <<calculator, recorder, index, commands, image, mutations>>

EndReplay ==
    /\ stage = "replay" /\ index > Len(commands)
    /\ stage' = "done"
    /\ UNCHANGED <<calculator, recorder, index, commands, image, mutations>>

-----------------------------------------------------------------------------
Calculator ==
    \/ \E r \in Requests : StartProgram(r[1], r[2])
    \/ \E a \in EraseTargets : StartErase(a)
    \/ \E exit \in {"success", "failure"} : EndBlock(exit)
    \/ EndErase
    \/ EndReset
    \/ BusWrite
    \/ RamWrite(Erased)
    \/ SelectPage
    \/ TimePasses
    \/ InstructionRecord

Pipeline ==
    \/ DecodeErase
    \/ DecodeProgram
    \/ DecodeSingle
    \/ EndDecode
    \/ Validate
    \/ ReplayCommand
    \/ RefuseCommand
    \/ EndReplay

Next == Calculator \/ CutTrace \/ Pipeline

Spec == Init /\ [][Next]_vars

-----------------------------------------------------------------------------
(* Properties.                                                             *)

\* An erase has run into its limit: the trace looks the same.
EraseFailed == "erase" \in failures \/ (worker.at = "erase" /\ chip = "error")

\* An image the pipeline hands out is the array the part held when the
\* recording stopped, wherever it stopped: a command cut in half, a write
\* without its instruction record, a failed program or an unknown mapping
\* must make the pipeline refuse, never drop or invent a mutation.
\* (replay_accepted_commands behind validate_replay_stream)
ReplayIsExact == stage = "done" /\ ~EraseFailed => image = array

\* While it replays, the image passes through the states the part passed
\* through, one per mutation and in order: a cutoff clock or a phase
\* snapshot in the middle of the stream is a state the part was in.
\* (apply_accepted_command, find_gc_phase_snapshots)
ReplayFollowsChip ==
    stage \in {"replay", "done"} /\ ~EraseFailed =>
        /\ mutations <= Len(landed)
        /\ image = IF mutations = 0 THEN Source ELSE landed[mutations]

\* Refusals have a cause: a trace of finished, successful work under a known
\* mapping is replayed, whatever data and addresses the commands carried,
\* those equal to command bytes and unlock addresses included, unless it goes
\* on beyond the wrap of the clock.  (decode_amd_flash_commands,
\* validate_replay_stream, replay_accepted_commands)
CleanTraceIsReplayed ==
    stage = "refused" =>
        \/ worker.at # "idle"
        \/ landed = << >>
        \/ failures # {}
        \/ \E i \in 1 .. Len(events) : events[i].addr = NoAddress
        \/ time >= CLOCK

\* No image comes out of a recording in which a worker failed.
\* (the docstring of validate_replay_stream)
FailedWorkIsRefused == stage = "done" => failures = {}
=============================================================================
