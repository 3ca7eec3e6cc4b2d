-------------------------- MODULE FlashTraceProofs --------------------------
(***************************************************************************)
(* Proofs about the pipeline from trace to image, for every array, every   *)
(* geometry, every data byte and recordings of any length.                 *)
(***************************************************************************)
EXTENDS FlashTrace, SequenceTheorems, TLAPS

USE UnlockAssumption, ArrayAssumption, RequestAssumption

-----------------------------------------------------------------------------
(* Bytes and arrays.                                                       *)

LEMMA CommandBytes ==
    /\ xAA \in Byte /\ x55 \in Byte /\ x80 \in Byte /\ xA0 \in Byte
    /\ x30 \in Byte /\ xF0 \in Byte /\ Erased \in Byte
    /\ xAA # x55 /\ xAA # xF0 /\ xA0 # x80
BY DEF Byte, Bits, Erased, xAA, x55, x80, xA0, x30, xF0

LEMMA ProgramType ==
    ASSUME NEW img \in [Addr -> Byte], NEW a \in Addr, NEW v \in Byte
    PROVE  AfterProgram(img, a, v) \in [Addr -> Byte]
BY DEF AfterProgram, Programmed, Byte

LEMMA EraseType ==
    ASSUME NEW img \in [Addr -> Byte], NEW s
    PROVE  AfterErase(img, s) \in [Addr -> Byte]
BY CommandBytes DEF AfterErase

LEMMA ApplyProgram ==
    ASSUME NEW img, NEW c, c.kind = "byte_program"
    PROVE  ApplyAccepted(img, c) = AfterProgram(img, c.addr, c.val)
BY DEF ApplyAccepted

LEMMA ApplyErase ==
    ASSUME NEW img, NEW c, c.kind = "sector_erase"
    PROVE  ApplyAccepted(img, c) = AfterErase(img, sectorOf[c.addr])
BY DEF ApplyAccepted

LEMMA ApplyReset ==
    ASSUME NEW img, NEW c, c.kind = "array_reset"
    PROVE  ApplyAccepted(img, c) = img
BY DEF ApplyAccepted

LEMMA ApplyUnmatched ==
    ASSUME NEW img, NEW c, c.kind = "unmatched_write"
    PROVE  ApplyAccepted(img, c) = img
BY DEF ApplyAccepted

LEMMA Cycle ==
    ASSUME NEW w
    PROVE  /\ chip = "read" /\ w.addr = UNLOCK1 /\ w.val = xAA
                 => NextChip(w) = "unlock1"
           /\ chip = "unlock1" /\ w.addr = UNLOCK2 /\ w.val = x55
                 => NextChip(w) = "unlock2"
           /\ chip = "unlock2" /\ w.addr = UNLOCK1 /\ w.val = xA0
                 => NextChip(w) = "program"
           /\ chip = "unlock2" /\ w.addr = UNLOCK1 /\ w.val = x80
                 => NextChip(w) = "erase1"
           /\ chip = "erase1" /\ w.addr = UNLOCK1 /\ w.val = xAA
                 => NextChip(w) = "erase2"
           /\ chip = "erase2" /\ w.addr = UNLOCK2 /\ w.val = x55
                 => NextChip(w) = "erase3"
           /\ chip = "error" /\ w.val = xF0 => NextChip(w) = "read"
           /\ chip = "read" /\ w.val = xF0 => NextChip(w) = "read"
           /\ NextChip(w) \in ChipStates
BY CommandBytes DEF NextChip, ChipStates

-----------------------------------------------------------------------------
(* The inductive invariant.                                                *)

\* The bus writes of a command, by position; the last one carries its data.
Span(c) == IF c.kind = "sector_erase" THEN 6
           ELSE IF c.kind = "byte_program" THEN 4 ELSE 1
CycleAddr(c, j) == IF j = Span(c) THEN c.addr
                   ELSE IF j \in {2, 5} THEN UNLOCK2 ELSE UNLOCK1
CycleVal(c, j) == IF j = Span(c) THEN c.val
                  ELSE IF j \in {1, 4} THEN xAA
                  ELSE IF j \in {2, 5} THEN x55
                  ELSE IF c.kind = "sector_erase" THEN x80 ELSE xA0
Mutates(c) == IF c.kind = "array_reset" THEN 0 ELSE 1

\* The command under way, or the last one when nothing is.
Current == asked[Len(asked)]

\* At most one write waits for its instruction record, and a Flash write
\* that waits is the next one of the script.
Buffered ==
    pending # << >> =>
        /\ Len(pending) = 1 /\ script # << >>
        /\ pending[1].kind = "flash" =>
              /\ pending[1].addr \in {script[1].addr, NoAddress}
              /\ pending[1].val = script[1].val

\* Commands have the data of their kind, and follow each other in the
\* recording without a gap.
WellFormed ==
    \A k \in 1 .. Len(asked) :
        /\ asked[k].kind = "sector_erase" => asked[k].val = x30
        /\ asked[k].kind = "array_reset" => asked[k].val = xF0
        /\ asked[k].kind # "array_reset" => asked[k].pc = "body"

Trail ==
    /\ asked = << >> => /\ events = << >> /\ script = << >> /\ landed = << >>
                        /\ worker.at = "idle" /\ chip = "read"
    /\ asked # << >> =>
          /\ asked[1].from = 1
          /\ Len(events) + Len(script) + 1 = Current.from + Span(Current)
          /\ Len(script) <= Span(Current)
    /\ \A k \in 1 .. Len(asked) - 1 :
          asked[k + 1].from = asked[k].from + Span(asked[k])
    /\ \A k, l \in 1 .. Len(asked) :
          k < l => asked[k].from + Span(asked[k]) <= asked[l].from

\* The events are the writes of the commands, in order, but for addresses
\* the recorder could not resolve; the script is the rest of the current one.
IsCycle(e, c, j) ==
    /\ e.addr \in {CycleAddr(c, j), NoAddress}
    /\ e.val = CycleVal(c, j)
    /\ j = Span(c) => e.pc = c.pc

Recorded ==
    \A k \in 1 .. Len(asked) : \A j \in 1 .. Span(asked[k]) :
        asked[k].from + j - 1 <= Len(events) =>
            IsCycle(events[asked[k].from + j - 1], asked[k], j)

Scripted ==
    \A j \in 1 .. Len(script) :
        LET i == Span(Current) - Len(script) + j
        IN  /\ script[j].addr = CycleAddr(Current, i)
            /\ script[j].val = CycleVal(Current, i)
            /\ i = Span(Current) => script[j].pc = Current.pc

\* How far the part is in the current command: a write that waits for its
\* instruction record has already reached it.
Waiting == pending # << >> /\ pending[1].kind = "flash"
Taken == Span(Current) - Len(script) + (IF Waiting THEN 1 ELSE 0)

ChipFits(st, c, d) ==
    /\ d = 0 => st = "read" \/ (c.kind = "array_reset" /\ st = "error")
    /\ d = 1 => st = IF c.kind = "array_reset" THEN "read" ELSE "unlock1"
    /\ d = 2 => st = "unlock2"
    /\ d = 3 => st = IF c.kind = "sector_erase" THEN "erase1" ELSE "program"
    /\ d = 4 => IF c.kind = "sector_erase" THEN st = "erase2"
                                           ELSE st \in {"read", "error"}
    /\ d = 5 => st = "erase3"
    /\ d = 6 => st = "read" \/ (st = "error" /\ EraseMayFail)

ChipInv == asked # << >> => ChipFits(chip, Current, Taken)

\* Where the worker is says which command it issued last.
WorkerInv ==
    /\ worker.at = "idle" => script = << >> /\ chip = "read"
    /\ asked # << >> =>
          /\ worker.at = "block" <=> Current.kind = "byte_program"
          /\ worker.at = "erase" => Current.kind = "sector_erase"
          /\ worker.at = "reset" => Current.kind = "array_reset"

\* Without a failure, every byte belongs to a block that a success exit
\* closed, or to the block under way.
Closed(k) ==
    \E j \in k + 1 .. Len(asked) :
        /\ asked[j].kind = "array_reset" /\ asked[j].pc = "success"
        /\ \A l \in k .. j - 1 : asked[l].kind = "byte_program"

BlockInv ==
    failures = {} =>
        \A k \in 1 .. Len(asked) : asked[k].kind = "byte_program" =>
            \/ Closed(k)
            \/ worker.at = "block"
               /\ \A l \in k .. Len(asked) : asked[l].kind = "byte_program"

CalculatorInv ==
    Buffered /\ WellFormed /\ Trail /\ Recorded /\ Scripted /\ ChipInv
      /\ WorkerInv /\ BlockInv

\* The pipeline: as long as the decoder has met nothing it cannot match, it
\* has found the first commands of the worker and stands behind the last of
\* them; something it cannot match is the start of a command cut short.
AllResolved == \A i \in 1 .. Len(events) : events[i].addr # NoAddress

CursorAt(m) == IF m = 0 THEN 1 ELSE asked[m].from + Span(asked[m])

Faithful ==
    /\ Len(commands) <= Len(asked)
    /\ \A k \in 1 .. Len(commands) :
          /\ commands[k].kind = asked[k].kind
          /\ commands[k].addr = asked[k].addr
          /\ commands[k].val = asked[k].val
          /\ commands[k].pc = asked[k].pc
    /\ CursorAt(Len(commands)) <= Len(events) + 1

CutShort ==
    /\ script # << >>
    /\ \E i \in 1 .. Len(commands) : commands[i].kind = "unmatched_write"

AllDecoded == Faithful /\ CursorAt(Len(commands)) = Len(events) + 1

PipelineInv ==
    /\ index >= 1
    /\ stage = "record" => commands = << >> /\ index = 1
    /\ stage \in {"decode", "validate", "replay", "done"} => AllResolved
    /\ stage = "decode" =>
          CutShort \/ (Faithful /\ index = CursorAt(Len(commands)))
    /\ stage = "validate" => CutShort \/ AllDecoded
    /\ stage \in {"replay", "done"} =>
          AllDecoded /\ index <= Len(commands) + 1
    /\ stage = "done" => index = Len(commands) + 1
    /\ CleanTraceIsReplayed

\* Until the clock wraps, clocks grow along the events, and along the
\* commands, which are behind the events the decoder has not reached.
ClockInv ==
    time < CLOCK =>
        /\ \A i \in 1 .. Len(events) : events[i].clock <= time
        /\ \A i, j \in 1 .. Len(events) :
              i <= j => events[i].clock <= events[j].clock
        /\ stage = "decode" =>
              \A k \in 1 .. Len(commands), i \in index .. Len(events) :
                  commands[k].clock <= events[i].clock
        /\ \A k, l \in 1 .. Len(commands) :
              k <= l => commands[k].clock <= commands[l].clock

-----------------------------------------------------------------------------
(* Types.                                                                  *)

LEMMA ShapeTypes ==
    ASSUME NEW a \in Addr, NEW v \in Byte, NEW exit \in Exits
    PROVE  /\ ProgramShape(a, v) \in Seq(Write) /\ Len(ProgramShape(a, v)) = 4
           /\ EraseShape(a) \in Seq(Write) /\ Len(EraseShape(a)) = 6
           /\ <<[addr |-> a, val |-> xF0, pc |-> exit]>> \in Seq(Write)
           /\ Len(<<[addr |-> a, val |-> xF0, pc |-> exit]>>) = 1
<1>1. \A b \in Addr, u \in Byte : Bus(b, u) \in Write
  BY DEF Bus, Write, Exits
<1>2. [addr |-> a, val |-> xF0, pc |-> exit] \in Write
  BY CommandBytes DEF Write
<1>3. /\ Bus(UNLOCK1, xAA) \in Write /\ Bus(UNLOCK2, x55) \in Write
      /\ Bus(UNLOCK1, xA0) \in Write /\ Bus(UNLOCK1, x80) \in Write
      /\ Bus(a, v) \in Write /\ Bus(a, x30) \in Write
  BY <1>1, CommandBytes
<1> QED
  BY <1>2, <1>3 DEF ProgramShape, EraseShape

LEMMA AskType ==
    ASSUME TypeOK, NEW kind \in {"sector_erase", "byte_program", "array_reset"},
           NEW a \in Addr, NEW v \in Byte, NEW exit \in Exits,
           Ask(kind, a, v, exit)
    PROVE  asked' \in Seq(Asked)
<1>1. Len(events) + 1 \in Nat /\ Len(landed) \in Nat
  BY DEF TypeOK
<1> QED
  BY <1>1 DEF TypeOK, Ask, Asked

LEMMA ChipCycleType ==
    ASSUME TypeOK, NEW w \in Write, ChipCycle(w)
    PROVE  /\ chip' \in ChipStates
           /\ array' \in [Addr -> Byte]
           /\ landed' \in Seq([Addr -> Byte])
<1>1. w.addr \in Addr /\ w.val \in Byte
  BY DEF Write
<1>2. CASE chip = "program" /\ array' = AfterProgram(array, w.addr, w.val)
           /\ landed' = Append(landed, array') /\ chip' \in {"read", "error"}
  <2>1. array' \in [Addr -> Byte]
    BY <1>1, <1>2, ProgramType DEF TypeOK
  <2> QED
    BY <2>1, <1>2 DEF TypeOK, ChipStates
<1>3. CASE array' = AfterErase(array, sectorOf[w.addr])
           /\ landed' = Append(landed, array') /\ chip' = "read"
  <2>1. array' \in [Addr -> Byte]
    BY <1>1, <1>3, EraseType DEF TypeOK
  <2> QED
    BY <2>1, <1>3 DEF TypeOK, ChipStates
<1>4. CASE chip' = "error" /\ UNCHANGED <<array, landed>>
  BY <1>4 DEF TypeOK, ChipStates
<1>5. CASE chip' = NextChip(w) /\ UNCHANGED <<array, landed>>
  BY <1>5, Cycle DEF TypeOK
<1> QED
  BY <1>2, <1>3, <1>4, <1>5 DEF ChipCycle

LEMMA InitType == Init => TypeOK
BY CommandBytes DEF Init, TypeOK, Worker, ChipStates

LEMMA DecodeType ==
    ASSUME TypeOK,
           NEW kind \in {"sector_erase", "byte_program", "array_reset",
                         "unmatched_write"},
           NEW span \in {1, 4, 6}, index + span - 1 <= Len(events), index >= 1,
           events[index + span - 1].addr # NoAddress, Decode(kind, span)
    PROVE  commands' \in Seq(Commands) /\ index' \in Nat
<1> DEFINE e == events[index + span - 1]
<1>1. e \in Event
  BY DEF TypeOK
<1>2. e.addr \in Addr /\ e.val \in Byte /\ e.pc \in Exits /\ e.clock \in Nat
  BY <1>1 DEF Event
<1>3. [kind |-> kind, addr |-> e.addr, val |-> e.val, pc |-> e.pc,
       clock |-> e.clock] \in Commands
  BY <1>2 DEF Commands
<1>4. commands' = Append(commands, [kind |-> kind, addr |-> e.addr,
                                    val |-> e.val, pc |-> e.pc,
                                    clock |-> e.clock])
  BY DEF Decode
<1>5. commands' \in Seq(Commands)
  BY <1>3, <1>4 DEF TypeOK
<1> QED
  BY <1>5 DEF Decode, TypeOK

LEMMA StepType == TypeOK /\ index >= 1 /\ Buffered /\ [Next]_vars => TypeOK'
<1> SUFFICES ASSUME TypeOK, index >= 1, Buffered, [Next]_vars PROVE TypeOK'
  OBVIOUS
<1> USE DEF calculator, recorder, pipeline
<1>1. ASSUME NEW r \in Requests, StartProgram(r[1], r[2]) PROVE TypeOK'
  <2>1. r[1] \in Addr /\ r[2] \in Byte
    OBVIOUS
  <2>2. worker' \in Worker
    BY <1>1, <2>1 DEF StartProgram, Worker
  <2>3. script' \in Seq(Write) /\ Len(script') <= 6
    <3>1. script' = ProgramShape(r[1], r[2]) /\ "body" \in Exits
      BY <1>1 DEF StartProgram, Exits
    <3>2. ProgramShape(r[1], r[2]) \in Seq(Write) /\ Len(ProgramShape(r[1], r[2])) = 4
      BY <3>1, <2>1, ShapeTypes
    <3> QED BY <3>1, <3>2
  <2>4. asked' \in Seq(Asked)
    BY <1>1, <2>1, AskType DEF StartProgram, Exits
  <2> QED
    BY <1>1, <2>2, <2>3, <2>4 DEF StartProgram, TypeOK
<1>2. ASSUME NEW a \in EraseTargets, StartErase(a) PROVE TypeOK'
  <2>1. a \in Addr
    OBVIOUS
  <2>2. worker' \in Worker
    BY <1>2, <2>1, CommandBytes DEF StartErase, Worker
  <2>3. script' \in Seq(Write) /\ Len(script') <= 6
    <3>1. script' = EraseShape(a) /\ "body" \in Exits
      BY <1>2 DEF StartErase, Exits
    <3>2. EraseShape(a) \in Seq(Write) /\ Len(EraseShape(a)) = 6
      BY <3>1, <2>1, ShapeTypes, CommandBytes
    <3> QED BY <3>1, <3>2
  <2>4. asked' \in Seq(Asked)
    BY <1>2, <2>1, AskType, CommandBytes DEF StartErase, Exits
  <2> QED
    BY <1>2, <2>2, <2>3, <2>4 DEF StartErase, TypeOK
<1>3. ASSUME NEW exit \in {"success", "failure"}, EndBlock(exit) PROVE TypeOK'
  <2>1. worker.addr \in Addr /\ exit \in Exits
    BY DEF TypeOK, Worker, Exits
  <2>2. worker' \in Worker
    BY <1>3 DEF EndBlock, Worker, TypeOK
  <2>3. script' \in Seq(Write) /\ Len(script') <= 6
    <3>1. script' = <<[addr |-> worker.addr, val |-> xF0, pc |-> exit]>>
      BY <1>3 DEF EndBlock
    <3> QED BY <3>1, <2>1, ShapeTypes, CommandBytes
  <2>4. asked' \in Seq(Asked)
    BY <1>3, <2>1, AskType, CommandBytes DEF EndBlock
  <2>5. failures' \subseteq {"program", "erase"}
    BY <1>3 DEF EndBlock, TypeOK
  <2> QED
    BY <1>3, <2>2, <2>3, <2>4, <2>5 DEF EndBlock, TypeOK
<1>4. ASSUME EndErase PROVE TypeOK'
  <2>1. worker' \in Worker
    BY <1>4 DEF EndErase, Worker, TypeOK
  <2>2. CASE UNCHANGED <<script, failures, asked>>
    BY <1>4, <2>1, <2>2 DEF EndErase, TypeOK
  <2>3. ASSUME NEW de \in Addr,
               script' = <<[addr |-> de, val |-> xF0, pc |-> "failure"]>>,
               Ask("array_reset", de, xF0, "failure"),
               failures' = failures \cup {"erase"}
        PROVE  TypeOK'
    <3>1. "failure" \in Exits
      BY DEF Exits
    <3>2. script' \in Seq(Write) /\ Len(script') <= 6
      BY <2>3, <3>1, ShapeTypes, CommandBytes
    <3>3. asked' \in Seq(Asked)
      BY <2>3, <3>1, AskType, CommandBytes
    <3>4. failures' \subseteq {"program", "erase"}
      BY <2>3 DEF TypeOK
    <3> QED
      BY <1>4, <2>1, <3>2, <3>3, <3>4 DEF EndErase, TypeOK
  <2> QED
    BY <1>4, <2>2, <2>3 DEF EndErase
<1>5. ASSUME EndReset PROVE TypeOK'
  BY <1>5 DEF EndReset, TypeOK, Worker
<1>6. ASSUME BusWrite PROVE TypeOK'
  <2>1. Head(script) \in Write /\ ChipCycle(Head(script))
    BY <1>6 DEF BusWrite, TypeOK
  <2>2. /\ chip' \in ChipStates
        /\ array' \in [Addr -> Byte]
        /\ landed' \in Seq([Addr -> Byte])
    BY <2>1, ChipCycleType
  <2>3. pending' \in Seq([kind : {"flash", "ram"}, addr : Addr \cup {NoAddress},
                          val : Byte])
    BY <1>6, <2>1 DEF BusWrite, Resolved, Write
  <2> QED
    BY <1>6, <2>2, <2>3 DEF BusWrite, TypeOK
<1>7. ASSUME RamWrite(Erased) PROVE TypeOK'
  BY <1>7, CommandBytes DEF RamWrite, TypeOK
<1>8. ASSUME SelectPage PROVE TypeOK'
  BY <1>8 DEF SelectPage, TypeOK
<1>9. ASSUME TimePasses PROVE TypeOK'
  BY <1>9, ClockAssumption DEF TimePasses, TypeOK
<1>10. ASSUME CutTrace PROVE TypeOK'
  BY <1>10 DEF CutTrace, TypeOK
<1>11. ASSUME DecodeErase PROVE TypeOK'
  <2>1. index + 6 - 1 <= Len(events) /\ events[index + 6 - 1].addr # NoAddress
    BY <1>11 DEF DecodeErase, EraseAt, TypeOK
  <2>2. commands' \in Seq(Commands) /\ index' \in Nat
    BY <1>11, <2>1, DecodeType DEF DecodeErase
  <2> QED
    BY <1>11, <2>2 DEF DecodeErase, TypeOK
<1>12. ASSUME DecodeProgram PROVE TypeOK'
  <2>1. index + 4 - 1 <= Len(events) /\ events[index + 4 - 1].addr # NoAddress
    BY <1>12 DEF DecodeProgram, ProgramAt, TypeOK
  <2>2. commands' \in Seq(Commands) /\ index' \in Nat
    BY <1>12, <2>1, DecodeType DEF DecodeProgram
  <2> QED
    BY <1>12, <2>2 DEF DecodeProgram, TypeOK
<1>13. ASSUME DecodeSingle PROVE TypeOK'
  <2>1. CASE events[index].addr = NoAddress
    BY <1>13, <2>1 DEF DecodeSingle, TypeOK
  <2>2. CASE events[index].addr # NoAddress
    <3>1. index + 1 - 1 <= Len(events) /\ events[index + 1 - 1].addr # NoAddress
      BY <1>13, <2>2 DEF DecodeSingle, Decoding, TypeOK
    <3>2. \E kind \in {"array_reset", "unmatched_write"} : Decode(kind, 1)
      BY <1>13, <2>2 DEF DecodeSingle
    <3>3. commands' \in Seq(Commands) /\ index' \in Nat
      BY <3>1, <3>2, DecodeType
    <3> QED
      BY <1>13, <3>3 DEF DecodeSingle, TypeOK
  <2> QED BY <2>1, <2>2
<1>14. ASSUME EndDecode PROVE TypeOK'
  BY <1>14 DEF EndDecode, TypeOK
<1>15. ASSUME Validate PROVE TypeOK'
  BY <1>15 DEF Validate, TypeOK
<1>16. ASSUME ReplayCommand PROVE TypeOK'
  <2> DEFINE c == commands[index]
  <2>1. c \in Commands
    BY <1>16 DEF ReplayCommand, TypeOK
  <2>2. /\ c.kind \in {"sector_erase", "byte_program", "array_reset",
                       "unmatched_write"}
        /\ c.addr \in Addr /\ c.val \in Byte
    BY <2>1 DEF Commands
  <2>3. ApplyAccepted(image, c) \in [Addr -> Byte]
    <3> HIDE DEF c
    <3>1. image \in [Addr -> Byte]
      BY DEF TypeOK
    <3>2. CASE c.kind = "byte_program"
      <4>1. AfterProgram(image, c.addr, c.val) \in [Addr -> Byte]
        BY <2>2, <3>1, ProgramType
      <4> QED BY <3>2, <4>1, ApplyProgram
    <3>3. CASE c.kind = "sector_erase"
      BY <3>1, <3>3, ApplyErase, EraseType
    <3>4. CASE c.kind = "array_reset"
      BY <3>1, <3>4, ApplyReset
    <3>5. CASE c.kind = "unmatched_write"
      BY <3>1, <3>5, ApplyUnmatched
    <3> QED BY <2>2, <3>2, <3>3, <3>4, <3>5
  <2>4. image' = ApplyAccepted(image, c) /\ mutations' \in Nat /\ index' \in Nat
    BY <1>16 DEF ReplayCommand, TypeOK
  <2>5. stage' \in {"record", "decode", "validate", "replay", "done", "refused"}
    BY <1>16 DEF ReplayCommand, TypeOK
  <2> QED
    BY <1>16, <2>3, <2>4, <2>5 DEF ReplayCommand, TypeOK
<1>20. ASSUME RefuseCommand PROVE TypeOK'
  BY <1>20 DEF RefuseCommand, TypeOK
<1>17. ASSUME EndReplay PROVE TypeOK'
  BY <1>17 DEF EndReplay, TypeOK
<1>18. ASSUME InstructionRecord PROVE TypeOK'
  <2>1. CASE Head(pending).kind # "flash"
    BY <1>18, <2>1 DEF InstructionRecord, TypeOK
  <2>2. CASE Head(pending).kind = "flash"
    <3> DEFINE p == Head(pending)
               w == Head(script)
    <3>0. script # << >> /\ pending # << >>
      BY <1>18 DEF InstructionRecord, Buffered
    <3>1. w \in Write
      BY <3>0 DEF TypeOK
    <3>2. p \in [kind : {"flash", "ram"}, addr : Addr \cup {NoAddress},
                  val : Byte]
      <4> DEFINE S == [kind : {"flash", "ram"}, addr : Addr \cup {NoAddress},
                       val : Byte]
      <4>1. pending \in Seq(S)
        BY DEF TypeOK
      <4> HIDE DEF S
      <4>2. Head(pending) \in S
        BY <3>0, <4>1
      <4> QED BY <4>2 DEF S
    <3>7. time % CLOCK \in Nat
      BY ClockAssumption DEF TypeOK
    <3>3. [addr |-> p.addr, val |-> p.val, pc |-> w.pc,
           clock |-> time % CLOCK] \in Event
      BY <3>1, <3>2, <3>7 DEF Write, Event
    <3>4. events' = Append(events, [addr |-> p.addr, val |-> p.val, pc |-> w.pc,
                                    clock |-> time % CLOCK])
          /\ script' = Tail(script)
      BY <1>18, <2>2 DEF InstructionRecord
    <3>5. events' \in Seq(Event)
      BY <3>3, <3>4 DEF TypeOK
    <3>6. script' \in Seq(Write) /\ Len(script') <= 6
      BY <3>0, <3>4 DEF TypeOK
    <3> QED
      BY <1>18, <3>5, <3>6 DEF InstructionRecord, TypeOK
  <2> QED
    BY <2>1, <2>2
<1>19. CASE UNCHANGED vars
  BY <1>19 DEF vars, TypeOK
<1> QED
  BY <1>1, <1>2, <1>3, <1>4, <1>5, <1>6, <1>7, <1>8, <1>9, <1>10, <1>11, <1>12,
     <1>13, <1>14, <1>15, <1>16, <1>17, <1>18, <1>19, <1>20
  DEF Next, Calculator, Pipeline

-----------------------------------------------------------------------------
(* The calculator.                                                         *)

LEMMA ShapeCycles ==
    ASSUME NEW c, NEW j \in Nat, j >= 1
    PROVE  /\ c.kind = "byte_program" /\ j <= 4 =>
                 /\ Span(c) = 4
                 /\ ProgramShape(c.addr, c.val)[j].addr = CycleAddr(c, j)
                 /\ ProgramShape(c.addr, c.val)[j].val = CycleVal(c, j)
                 /\ ProgramShape(c.addr, c.val)[j].pc = "body"
           /\ c.kind = "sector_erase" /\ c.val = x30 /\ j <= 6 =>
                 /\ Span(c) = 6
                 /\ EraseShape(c.addr)[j].addr = CycleAddr(c, j)
                 /\ EraseShape(c.addr)[j].val = CycleVal(c, j)
                 /\ EraseShape(c.addr)[j].pc = "body"
<1>1. ASSUME c.kind = "byte_program", j <= 4
      PROVE  /\ Span(c) = 4
             /\ ProgramShape(c.addr, c.val)[j].addr = CycleAddr(c, j)
             /\ ProgramShape(c.addr, c.val)[j].val = CycleVal(c, j)
             /\ ProgramShape(c.addr, c.val)[j].pc = "body"
  <2>1. j = 1 \/ j = 2 \/ j = 3 \/ j = 4
    BY <1>1
  <2> QED
    BY <1>1, <2>1 DEF Span, CycleAddr, CycleVal, ProgramShape, Bus
<1>2. ASSUME c.kind = "sector_erase", c.val = x30, j <= 6
      PROVE  /\ Span(c) = 6
             /\ EraseShape(c.addr)[j].addr = CycleAddr(c, j)
             /\ EraseShape(c.addr)[j].val = CycleVal(c, j)
             /\ EraseShape(c.addr)[j].pc = "body"
  <2>1. j = 1 \/ j = 2 \/ j = 3 \/ j = 4 \/ j = 5 \/ j = 6
    BY <1>2
  <2> QED
    BY <1>2, <2>1 DEF Span, CycleAddr, CycleVal, EraseShape, Bus
<1> QED
  BY <1>1, <1>2

LEMMA SpanType ==
    ASSUME NEW c
    PROVE  Span(c) \in {1, 4, 6} /\ (Span(c) = 1 => c.kind # "sector_erase"
                                                    /\ c.kind # "byte_program")
BY DEF Span

\* A command that starts when all earlier ones are recorded.
LEMMA NewCommand ==
    ASSUME TypeOK, CalculatorInv, script = << >>, pending = << >>,
           NEW kind \in {"sector_erase", "byte_program", "array_reset"},
           NEW a \in Addr, NEW v \in Byte, NEW exit \in Exits,
           Ask(kind, a, v, exit), asked' \in Seq(Asked),
           UNCHANGED <<events, pending, chip>>,
           kind = "sector_erase" => v = x30 /\ script' = EraseShape(a),
           kind = "byte_program" => script' = ProgramShape(a, v),
           kind = "array_reset" =>
               v = xF0 /\ script' = <<[addr |-> a, val |-> v, pc |-> exit]>>,
           kind # "array_reset" => exit = "body",
           chip = "read" \/ (chip = "error" /\ kind = "array_reset")
    PROVE  /\ (Buffered /\ WellFormed /\ Trail /\ Recorded /\ Scripted /\ ChipInv)'
           /\ Len(asked') = Len(asked) + 1 /\ asked' # << >>
           /\ \A k \in 1 .. Len(asked) : asked'[k] = asked[k]
           /\ Current'.kind = kind /\ Current'.pc = exit
           /\ script' # << >>
<1> DEFINE c == [kind |-> kind, addr |-> a, val |-> v, pc |-> exit,
                 from |-> Len(events) + 1, before |-> Len(landed)]
           n == Len(asked)
<1>1. /\ asked' = Append(asked, c) /\ n \in Nat /\ Len(asked') = n + 1
      /\ asked'[n + 1] = c
      /\ \A k \in 1 .. n : asked'[k] = asked[k]
  BY DEF Ask, TypeOK
<1>2. Current' = c
  BY <1>1 DEF Current
<1>3. /\ Len(script') = Span(c)
      /\ \A j \in 1 .. Span(c) : /\ script'[j].addr = CycleAddr(c, j)
                                 /\ script'[j].val = CycleVal(c, j)
                                 /\ j = Span(c) => script'[j].pc = c.pc
  <2>1. CASE kind = "array_reset"
    BY <2>1 DEF Span, CycleAddr, CycleVal
  <2>2. CASE kind = "byte_program"
    <3>1. c.kind = "byte_program" /\ c.addr = a /\ c.val = v /\ c.pc = "body"
      BY <2>2
    <3> HIDE DEF c
    <3>2. Len(script') = 4 /\ Span(c) = 4
      BY <2>2, <3>1 DEF ProgramShape, Span
    <3> QED BY <2>2, <3>1, <3>2, ShapeCycles
  <2>3. CASE kind = "sector_erase"
    <3>1. /\ c.kind = "sector_erase" /\ c.addr = a /\ c.val = x30
          /\ c.pc = "body"
      BY <2>3
    <3> HIDE DEF c
    <3>2. Len(script') = 6 /\ Span(c) = 6
      BY <2>3, <3>1 DEF EraseShape, Span
    <3>3. \A j \in 1 .. 6 : /\ EraseShape(c.addr)[j].addr = CycleAddr(c, j)
                            /\ EraseShape(c.addr)[j].val = CycleVal(c, j)
                            /\ EraseShape(c.addr)[j].pc = "body"
      BY <3>1, ShapeCycles
    <3>4. script' = EraseShape(c.addr)
      BY <2>3, <3>1
    <3> QED BY <3>1, <3>2, <3>3, <3>4
  <2> QED BY <2>1, <2>2, <2>3
<1>4. /\ c.kind = kind /\ c.val = v /\ c.pc = exit
      /\ c.from = Len(events) + 1 /\ Len(events) \in Nat
  BY DEF TypeOK
<1>5. Span(c) \in {1, 4, 6}
  BY SpanType
<1>6. /\ \A k \in 1 .. n : asked[k].from \in Nat /\ Span(asked[k]) \in {1, 4, 6}
      /\ n > 0 => asked # << >>
  <2>1. \A k \in 1 .. n : asked[k] \in Asked
    BY DEF TypeOK
  <2>2. \A k \in 1 .. n : asked[k].from \in Nat
    BY <2>1 DEF Asked
  <2>3. \A k \in 1 .. n : Span(asked[k]) \in {1, 4, 6}
    BY SpanType
  <2>4. n > 0 => asked # << >>
    OBVIOUS
  <2> QED BY <2>2, <2>3, <2>4
<1>7. n > 0 => Len(events) + 1 = asked[n].from + Span(asked[n])
  BY <1>1, <1>6 DEF CalculatorInv, Trail, Current
<1>8. n = 0 => Len(events) = 0
  <2>1. n = 0 => asked = << >>
    BY DEF TypeOK
  <2> QED BY <2>1 DEF CalculatorInv, Trail
<1> HIDE DEF c
<1>9. WellFormed'
  BY <1>1, <1>4 DEF CalculatorInv, WellFormed
<1>10. \A k \in 1 .. n : asked[k].from + Span(asked[k]) <= Len(events) + 1
  <2> SUFFICES ASSUME NEW k \in 1 .. n
               PROVE  asked[k].from + Span(asked[k]) <= Len(events) + 1
    OBVIOUS
  <2>1. CASE k = n
    BY <1>1, <1>7, <2>1
  <2>2. CASE k < n
    <3>1. asked[k].from + Span(asked[k]) <= asked[n].from
      BY <1>1, <2>2 DEF CalculatorInv, Trail
    <3>2. /\ asked[n].from \in Nat /\ Span(asked[n]) \in {1, 4, 6}
          /\ asked[k].from \in Nat /\ Span(asked[k]) \in {1, 4, 6}
          /\ Len(events) + 1 = asked[n].from + Span(asked[n])
      BY <1>1, <1>6, <1>7, <2>2
    <3> QED BY <3>1, <3>2
  <2> QED BY <1>1, <2>1, <2>2
<1>11. Trail'
  <2>1. asked' # << >>
    BY <1>1
  <2>2. asked'[1].from = 1
    BY <1>1, <1>4, <1>6, <1>8 DEF CalculatorInv, Trail
  <2>3. /\ Len(events') + Len(script') + 1 = Current'.from + Span(Current)'
        /\ Len(script') <= Span(Current)'
    <3>1. Span(Current)' = Span(c)
      BY <1>2 DEF Span
    <3> QED
      BY <3>1, <1>2, <1>3, <1>4, <1>5
  <2>4. \A k \in 1 .. n : asked'[k + 1].from = asked'[k].from + Span(asked'[k])
    <3> SUFFICES ASSUME NEW k \in 1 .. n
                 PROVE  asked'[k + 1].from = asked'[k].from + Span(asked'[k])
      OBVIOUS
    <3>1. CASE k = n
      BY <1>1, <1>4, <1>7, <3>1
    <3>2. CASE k < n
      BY <1>1, <3>2 DEF CalculatorInv, Trail
    <3> QED BY <1>1, <3>1, <3>2
  <2>5. \A k, l \in 1 .. n + 1 :
            k < l => asked'[k].from + Span(asked'[k]) <= asked'[l].from
    <3> SUFFICES ASSUME NEW k \in 1 .. n + 1, NEW l \in 1 .. n + 1, k < l
                 PROVE  asked'[k].from + Span(asked'[k]) <= asked'[l].from
      OBVIOUS
    <3>1. CASE l = n + 1
      BY <1>1, <1>4, <1>10, <3>1
    <3>2. CASE l <= n
      BY <1>1, <3>2 DEF CalculatorInv, Trail
    <3> QED BY <1>1, <3>1, <3>2
  <2> QED
    BY <1>1, <2>1, <2>2, <2>3, <2>4, <2>5 DEF Trail, Span
<1>12. Recorded'
  <2> SUFFICES ASSUME NEW k \in 1 .. n + 1, NEW j \in 1 .. Span(asked'[k]),
                      asked'[k].from + j - 1 <= Len(events)
               PROVE  IsCycle(events[asked'[k].from + j - 1], asked'[k], j)
    BY <1>1 DEF Recorded, Span, IsCycle, CycleAddr, CycleVal
  <2>1. k # n + 1
    BY <1>1, <1>4, <1>5
  <2>2. k \in 1 .. n /\ asked'[k] = asked[k]
    BY <2>1, <1>1
  <2> QED
    BY <2>2 DEF CalculatorInv, Recorded
<1>13. Scripted'
  <2> SUFFICES ASSUME NEW j \in 1 .. Len(script')
               PROVE  LET i == Span(c) - Len(script') + j
                      IN  /\ script'[j].addr = CycleAddr(c, i)
                          /\ script'[j].val = CycleVal(c, i)
                          /\ i = Span(c) => script'[j].pc = c.pc
    BY <1>2 DEF Scripted, Span, CycleAddr, CycleVal
  <2>1. Span(c) - Len(script') + j = j
    BY <1>3, <1>5
  <2> QED BY <2>1, <1>3
<1>14. ChipInv'
  <2>1. Taken' = 0
    <3>1. Span(Current)' = Span(c)
      BY <1>2 DEF Span
    <3>2. ~Waiting'
      BY DEF Waiting
    <3> QED
      BY <1>3, <1>5, <3>1, <3>2 DEF Taken
  <2>2. chip' = chip /\ Current'.kind = kind
    BY <1>2, <1>4
  <2> QED BY <2>1, <2>2 DEF ChipInv, ChipFits
<1>15. Buffered'
  BY DEF Buffered
<1> QED
  BY <1>1, <1>2, <1>3, <1>4, <1>5, <1>9, <1>11, <1>12, <1>13, <1>14, <1>15

\* One cycle takes the part from where it is in the command to the next
\* position.
LEMMA ChipStep ==
    ASSUME TypeOK, NEW c \in Asked, NEW d \in 0 .. 5, NEW w, d < Span(c),
           c.kind = "sector_erase" => c.val = x30,
           c.kind = "array_reset" => c.val = xF0,
           w.addr = CycleAddr(c, d + 1), w.val = CycleVal(c, d + 1),
           ChipFits(chip, c, d), ChipCycle(w)
    PROVE  ChipFits(chip', c, d + 1)
<1>1. c.kind \in {"sector_erase", "byte_program", "array_reset"}
  BY DEF Asked
<1>2. chip # "program" /\ chip # "erase3" => chip' = NextChip(w)
  BY DEF ChipCycle
<1>3. chip = "program" => chip' \in {"read", "error"}
  BY DEF ChipCycle
<1>4. chip = "erase3" /\ w.val = x30 =>
          chip' = "read" \/ (chip' = "error" /\ EraseMayFail)
  BY DEF ChipCycle
<1>5. CASE c.kind = "array_reset"
  <2>1. d = 0 /\ w.val = xF0
    BY <1>5 DEF Span, CycleVal
  <2>2. chip' = "read"
    BY <1>2, <2>1, Cycle DEF ChipFits
  <2> QED BY <1>5, <2>1, <2>2 DEF ChipFits
<1>6. CASE c.kind = "byte_program"
  <2>1. Span(c) = 4
    BY <1>6 DEF Span
  <2>2. CASE d = 0
    <3>1. chip = "read" /\ w.addr = UNLOCK1 /\ w.val = xAA
      BY <1>6, <2>1, <2>2 DEF ChipFits, CycleAddr, CycleVal
    <3> QED BY <1>2, <1>6, <2>2, <3>1, Cycle DEF ChipFits
  <2>3. CASE d = 1
    <3>1. chip = "unlock1" /\ w.addr = UNLOCK2 /\ w.val = x55
      BY <1>6, <2>1, <2>3 DEF ChipFits, CycleAddr, CycleVal
    <3> QED BY <1>2, <1>6, <2>3, <3>1, Cycle DEF ChipFits
  <2>4. CASE d = 2
    <3>1. chip = "unlock2" /\ w.addr = UNLOCK1 /\ w.val = xA0
      BY <1>6, <2>1, <2>4 DEF ChipFits, CycleAddr, CycleVal
    <3> QED BY <1>2, <1>6, <2>4, <3>1, Cycle DEF ChipFits
  <2>5. CASE d = 3
    <3>1. chip = "program"
      BY <1>6, <2>1, <2>5 DEF ChipFits
    <3> QED BY <1>3, <1>6, <2>5, <3>1 DEF ChipFits
  <2> QED BY <2>1, <2>2, <2>3, <2>4, <2>5
<1>7. CASE c.kind = "sector_erase"
  <2>1. Span(c) = 6
    BY <1>7 DEF Span
  <2>2. CASE d = 0
    <3>1. chip = "read" /\ w.addr = UNLOCK1 /\ w.val = xAA
      BY <1>7, <2>1, <2>2 DEF ChipFits, CycleAddr, CycleVal
    <3> QED BY <1>2, <1>7, <2>2, <3>1, Cycle DEF ChipFits
  <2>3. CASE d = 1
    <3>1. chip = "unlock1" /\ w.addr = UNLOCK2 /\ w.val = x55
      BY <1>7, <2>1, <2>3 DEF ChipFits, CycleAddr, CycleVal
    <3> QED BY <1>2, <1>7, <2>3, <3>1, Cycle DEF ChipFits
  <2>4. CASE d = 2
    <3>1. chip = "unlock2" /\ w.addr = UNLOCK1 /\ w.val = x80
      BY <1>7, <2>1, <2>4 DEF ChipFits, CycleAddr, CycleVal
    <3> QED BY <1>2, <1>7, <2>4, <3>1, Cycle DEF ChipFits
  <2>5. CASE d = 3
    <3>1. chip = "erase1" /\ w.addr = UNLOCK1 /\ w.val = xAA
      BY <1>7, <2>1, <2>5 DEF ChipFits, CycleAddr, CycleVal
    <3> QED BY <1>2, <1>7, <2>5, <3>1, Cycle DEF ChipFits
  <2>6. CASE d = 4
    <3>1. chip = "erase2" /\ w.addr = UNLOCK2 /\ w.val = x55
      BY <1>7, <2>1, <2>6 DEF ChipFits, CycleAddr, CycleVal
    <3> QED BY <1>2, <1>7, <2>6, <3>1, Cycle DEF ChipFits
  <2>7. CASE d = 5
    <3>1. chip = "erase3" /\ w.val = x30
      BY <1>7, <2>1, <2>7 DEF ChipFits, CycleVal
    <3> QED BY <1>4, <1>7, <2>7, <3>1 DEF ChipFits
  <2> QED BY <2>1, <2>2, <2>3, <2>4, <2>5, <2>6, <2>7
<1> QED BY <1>1, <1>5, <1>6, <1>7

\* What is known of the current command while the script is not empty.
LEMMA CurrentFacts ==
    ASSUME TypeOK, CalculatorInv
    PROVE  /\ script # << >> => asked # << >>
           /\ asked # << >> =>
                 /\ Len(asked) \in Nat /\ Len(asked) >= 1
                 /\ Current \in Asked /\ Span(Current) \in {1, 4, 6}
                 /\ Current.from \in Nat
                 /\ Current.kind = "sector_erase" => Current.val = x30
                 /\ Current.kind = "array_reset" => Current.val = xF0
<1>1. script # << >> => asked # << >>
  BY DEF CalculatorInv, Trail
<1>2. ASSUME asked # << >>
      PROVE  /\ Len(asked) \in Nat /\ Len(asked) >= 1
             /\ Current \in Asked
  BY <1>2 DEF TypeOK, Current
<1>3. ASSUME asked # << >>
      PROVE  /\ Current.kind = "sector_erase" => Current.val = x30
             /\ Current.kind = "array_reset" => Current.val = xF0
  BY <1>2, <1>3 DEF CalculatorInv, WellFormed, Current
<1> QED
  BY <1>1, <1>2, <1>3, SpanType DEF Asked

LEMMA BusWriteKeeps ==
    ASSUME TypeOK, CalculatorInv, BusWrite
    PROVE  CalculatorInv'
<1>1. /\ script # << >> /\ pending = << >> /\ asked # << >>
      /\ ChipCycle(Head(script))
      /\ UNCHANGED <<worker, script, failures, asked, mapped, time, events,
                     pipeline>>
      /\ pending' = <<[kind |-> "flash", addr |-> Resolved(Head(script).addr),
                       val |-> Head(script).val]>>
  BY CurrentFacts DEF BusWrite, Recording
<1>2. Head(script) = script[1] /\ Len(script) \in Nat /\ Len(script) >= 1
  BY <1>1 DEF TypeOK
<1> DEFINE c == Current
           d == Span(c) - Len(script)
           w == script[1]
<1>3. c \in Asked /\ Span(c) \in {1, 4, 6} /\ Len(script) <= Span(c)
  BY <1>1, CurrentFacts DEF CalculatorInv, Trail
<1>4. d \in 0 .. 5 /\ d < Span(c)
  BY <1>2, <1>3
<1>5. w.addr = CycleAddr(c, d + 1) /\ w.val = CycleVal(c, d + 1)
  BY <1>2, <1>3 DEF CalculatorInv, Scripted
<1>6. /\ c.kind = "sector_erase" => c.val = x30
      /\ c.kind = "array_reset" => c.val = xF0
  BY <1>1, CurrentFacts
<1>7. Taken = d /\ ChipFits(chip, c, d)
  <2>1. ~Waiting
    BY <1>1 DEF Waiting
  <2>2. Taken = d
    BY <2>1, <1>4 DEF Taken
  <2> QED BY <1>1, <2>2 DEF CalculatorInv, ChipInv
<1>8. Current' = Current /\ Span(Current)' = Span(Current)
  BY <1>1 DEF Current, Span
<1>9. Taken' = d + 1
  <2>1. Waiting'
    BY <1>1 DEF Waiting
  <2> QED BY <1>1, <1>4, <1>8, <2>1 DEF Taken
<1>10. ChipFits(chip', c, d + 1)
  <2>1. ChipCycle(w)
    BY <1>1, <1>2
  <2>2. ChipFits(chip, c, d)
    BY <1>7
  <2> HIDE DEF c, d, w
  <2> QED BY <1>3, <1>4, <1>5, <1>6, <2>1, <2>2, ChipStep
<1>11. ChipInv'
  <2>1. ChipFits(chip', Current', Taken')
    BY <1>8, <1>9, <1>10
  <2> QED BY <2>1 DEF ChipInv
<1>12. Buffered'
  BY <1>1, <1>2 DEF Buffered, Resolved
<1>13. WellFormed' /\ Recorded' /\ Scripted'
  <2>1. WellFormed'
    BY <1>1 DEF CalculatorInv, WellFormed
  <2>2. Recorded'
    BY <1>1 DEF CalculatorInv, Recorded, Span, IsCycle, CycleAddr, CycleVal
  <2>3. Scripted'
    BY <1>1, <1>8 DEF CalculatorInv, Scripted, Span, CycleAddr, CycleVal
  <2> QED BY <2>1, <2>2, <2>3
<1>14. Trail' /\ WorkerInv' /\ BlockInv'
  BY <1>1, <1>8 DEF CalculatorInv, Trail, WorkerInv, BlockInv, Closed, Span
<1> QED
  BY <1>11, <1>12, <1>13, <1>14 DEF CalculatorInv

LEMMA InstructionRecordKeeps ==
    ASSUME TypeOK, CalculatorInv, InstructionRecord
    PROVE  CalculatorInv'
<1>1. /\ pending # << >> /\ pending' = << >> /\ script # << >>
      /\ asked # << >> /\ Len(pending) = 1 /\ Head(pending) = pending[1]
      /\ UNCHANGED <<worker, chip, array, landed, failures, asked, mapped,
                     pipeline>>
  BY CurrentFacts DEF InstructionRecord, CalculatorInv, Buffered, TypeOK
<1>2. Current' = Current /\ Span(Current)' = Span(Current)
  BY <1>1 DEF Current, Span
<1>3. Buffered' /\ WellFormed'
  BY <1>1 DEF Buffered, CalculatorInv, WellFormed
<1>4. worker.at # "idle"
  BY <1>1 DEF CalculatorInv, WorkerInv
<1>5. WorkerInv' /\ BlockInv'
  BY <1>1, <1>2, <1>4 DEF CalculatorInv, WorkerInv, BlockInv, Closed
<1>6. CASE Head(pending).kind # "flash"
  <2>1. UNCHANGED <<events, script>>
    BY <1>6 DEF InstructionRecord
  <2>2. Trail' /\ Recorded' /\ Scripted'
    BY <1>1, <1>2, <2>1 DEF CalculatorInv, Trail, Recorded, Scripted, Span,
       IsCycle, CycleAddr, CycleVal
  <2>3. ~Waiting /\ ~Waiting'
    BY <1>1, <1>6 DEF Waiting
  <2>4. Taken' = Taken
    BY <1>2, <2>1, <2>3 DEF Taken
  <2>5. ChipInv'
    BY <1>1, <1>2, <2>4 DEF CalculatorInv, ChipInv, ChipFits
  <2> QED BY <1>3, <1>5, <2>2, <2>5 DEF CalculatorInv
<1>7. CASE Head(pending).kind = "flash"
  <2> DEFINE e == [addr |-> Head(pending).addr, val |-> Head(pending).val,
                   pc |-> Head(script).pc, clock |-> time % CLOCK]
             c == Current
             d == Span(c) - Len(script) + 1
             m == Len(events)
  <2>1. events' = Append(events, e) /\ script' = Tail(script)
    BY <1>7 DEF InstructionRecord
  <2>2. /\ Len(script) \in Nat /\ Len(script) >= 1 /\ Head(script) = script[1]
        /\ Len(script') = Len(script) - 1
        /\ \A j \in 1 .. Len(script') : script'[j] = script[j + 1]
        /\ m \in Nat /\ Len(events') = m + 1 /\ events'[m + 1] = e
        /\ \A i \in 1 .. m : events'[i] = events[i]
    BY <1>1, <2>1 DEF TypeOK
  <2>3. /\ c \in Asked /\ Span(c) \in {1, 4, 6} /\ Len(script) <= Span(c)
        /\ c.from \in Nat
        /\ m + Len(script) + 1 = c.from + Span(c)
    BY <1>1, CurrentFacts DEF CalculatorInv, Trail
  <2>4. d \in 1 .. Span(c) /\ c.from + d - 1 = m + 1
    BY <2>2, <2>3
  <2>5. /\ script[1].addr = CycleAddr(c, d) /\ script[1].val = CycleVal(c, d)
        /\ d = Span(c) => script[1].pc = c.pc
    BY <2>2, <2>3 DEF CalculatorInv, Scripted
  <2>6. /\ pending[1].addr \in {script[1].addr, NoAddress}
        /\ pending[1].val = script[1].val
    BY <1>1, <1>7 DEF CalculatorInv, Buffered
  <2>7. IsCycle(e, c, d)
    BY <1>1, <2>2, <2>5, <2>6 DEF IsCycle
  <2> HIDE DEF e
  <2>8. Trail'
    <3>1. Len(events') + Len(script') + 1 = Current'.from + Span(Current)'
      BY <1>2, <2>2, <2>3
    <3>2. Len(script') <= Span(Current)'
      BY <1>2, <2>2, <2>3
    <3> QED BY <1>1, <3>1, <3>2 DEF CalculatorInv, Trail, Span
  <2>9. Recorded'
    <3> SUFFICES ASSUME NEW k \in 1 .. Len(asked), NEW j \in 1 .. Span(asked[k]),
                        asked[k].from + j - 1 <= m + 1
                 PROVE  IsCycle(events'[asked[k].from + j - 1], asked[k], j)
      BY <1>1, <2>2 DEF Recorded, Span, IsCycle, CycleAddr, CycleVal
    <3>1. asked[k].from \in Nat /\ asked[k].from >= 1 /\ Span(asked[k]) \in Nat
      <4>1. asked[k] \in Asked /\ asked[1] \in Asked
        BY DEF TypeOK
      <4>2. asked[1].from = 1
        BY <1>1 DEF CalculatorInv, Trail
      <4>3. k > 1 => asked[1].from + Span(asked[1]) <= asked[k].from
        BY DEF CalculatorInv, Trail
      <4>4. Span(asked[1]) \in {1, 4, 6} /\ Span(asked[k]) \in {1, 4, 6}
        BY SpanType
      <4> QED BY <4>1, <4>2, <4>3, <4>4 DEF Asked
    <3>2. CASE asked[k].from + j - 1 <= m
      <4>1. asked[k].from + j - 1 \in 1 .. m
        BY <2>2, <3>1, <3>2
      <4>2. IsCycle(events[asked[k].from + j - 1], asked[k], j)
        BY <3>2 DEF CalculatorInv, Recorded
      <4> QED BY <2>2, <4>1, <4>2
    <3>3. CASE asked[k].from + j - 1 = m + 1
      <4>1. k = Len(asked)
        <5>1. SUFFICES ASSUME k < Len(asked) PROVE FALSE
          BY <1>1 DEF TypeOK
        <5>2. asked[k].from + Span(asked[k]) <= c.from
          BY <5>1, <1>1, CurrentFacts DEF CalculatorInv, Trail, Current
        <5> QED BY <2>3, <2>4, <3>1, <3>3, <5>2
      <4>2. asked[k] = c /\ j = d
        <5>1. asked[k] = c
          BY <4>1 DEF Current
        <5> QED BY <2>3, <2>4, <3>3, <5>1
      <4> QED BY <2>2, <2>7, <3>3, <4>2
    <3> QED BY <2>2, <3>1, <3>2, <3>3
  <2>10. Scripted'
    <3> SUFFICES ASSUME NEW j \in 1 .. Len(script')
                 PROVE  LET i == Span(c) - Len(script') + j
                        IN  /\ script'[j].addr = CycleAddr(c, i)
                            /\ script'[j].val = CycleVal(c, i)
                            /\ i = Span(c) => script'[j].pc = c.pc
      BY <1>2 DEF Scripted, Span, CycleAddr, CycleVal
    <3>1. Span(c) - Len(script') + j = Span(c) - Len(script) + (j + 1)
      BY <2>2, <2>3
    <3>2. script'[j] = script[j + 1] /\ j + 1 \in 1 .. Len(script)
      BY <2>2
    <3> QED BY <3>1, <3>2 DEF CalculatorInv, Scripted
  <2>11. ChipInv'
    <3>1. Waiting /\ ~Waiting'
      BY <1>1, <1>7 DEF Waiting
    <3>2. Taken' = Taken
      BY <1>2, <2>2, <2>3, <3>1 DEF Taken
    <3> QED BY <1>1, <1>2, <3>2 DEF CalculatorInv, ChipInv, ChipFits
  <2> QED BY <1>3, <1>5, <2>8, <2>9, <2>10, <2>11 DEF CalculatorInv
<1> QED BY <1>6, <1>7

\* A block grows, is closed, or nothing is open.
LEMMA BlockStep ==
    ASSUME TypeOK, CalculatorInv, asked' \in Seq(Asked),
           Len(asked') = Len(asked) + 1,
           \A k \in 1 .. Len(asked) : asked'[k] = asked[k],
           failures' = {} => failures = {},
           \/ /\ Current'.kind = "byte_program" /\ worker'.at = "block"
           \/ worker.at # "block" /\ Current'.kind # "byte_program"
           \/ Current'.kind = "array_reset" /\ Current'.pc = "success"
           \/ failures' # {}
    PROVE  BlockInv'
<1> DEFINE n == Len(asked)
<1>1. n \in Nat /\ Current' = asked'[n + 1] /\ Len(asked') = n + 1
  BY DEF TypeOK, Current
<1> SUFFICES ASSUME failures' = {}, NEW k \in 1 .. n + 1,
                    asked'[k].kind = "byte_program"
             PROVE  \/ Closed(k)'
                    \/ worker'.at = "block"
                       /\ \A l \in k .. n + 1 : asked'[l].kind = "byte_program"
  BY <1>1 DEF BlockInv
<1>2. CASE k \in 1 .. n /\ Closed(k)
  <2>1. PICK j \in k + 1 .. n :
            /\ asked[j].kind = "array_reset" /\ asked[j].pc = "success"
            /\ \A l \in k .. j - 1 : asked[l].kind = "byte_program"
    BY <1>2 DEF Closed
  <2>2. j \in k + 1 .. n + 1 /\ asked'[j] = asked[j]
    BY <1>1, <2>1
  <2>3. \A l \in k .. j - 1 : asked'[l] = asked[l]
    BY <1>1, <2>1
  <2> QED BY <1>1, <2>1, <2>2, <2>3 DEF Closed
<1>3. CASE k \in 1 .. n /\ ~Closed(k)
  <2>1. /\ worker.at = "block"
        /\ \A l \in k .. n : asked[l].kind = "byte_program"
    <3>1. asked[k].kind = "byte_program"
      BY <1>3
    <3> QED BY <1>3, <3>1 DEF CalculatorInv, BlockInv
  <2>2. \A l \in k .. n : asked'[l].kind = "byte_program"
    BY <1>1, <1>3, <2>1
  <2>3. CASE Current'.kind = "byte_program" /\ worker'.at = "block"
    BY <1>1, <2>2, <2>3
  <2>4. CASE Current'.kind = "array_reset" /\ Current'.pc = "success"
    <3>1. n + 1 \in k + 1 .. Len(asked') /\ n + 1 - 1 = n
      BY <1>1, <1>3
    <3> QED BY <1>1, <2>2, <2>4, <3>1 DEF Closed
  <2> QED BY <2>1, <2>3, <2>4
<1>4. CASE k = n + 1
  <2>1. Current'.kind = "byte_program"
    BY <1>1, <1>4
  <2>2. worker'.at = "block"
    BY <2>1
  <2> QED BY <1>1, <1>4, <2>1, <2>2
<1> QED BY <1>1, <1>2, <1>3, <1>4

LEMMA CalculatorInit == Init => CalculatorInv
<1> SUFFICES ASSUME Init PROVE CalculatorInv
  OBVIOUS
<1>1. Buffered /\ WellFormed /\ Trail /\ Recorded
  BY DEF Init, Buffered, WellFormed, Trail, Recorded
<1>2. Scripted /\ ChipInv /\ WorkerInv /\ BlockInv
  BY DEF Init, Scripted, ChipInv, WorkerInv, BlockInv
<1> QED BY <1>1, <1>2 DEF CalculatorInv

\* The pipeline leaves the calculator and the recorder alone.
LEMMA CalculatorFrame ==
    ASSUME CalculatorInv, UNCHANGED <<calculator, pending, events>>
    PROVE  CalculatorInv'
<1> USE DEF calculator
<1>1. Current' = Current /\ Span(Current)' = Span(Current)
  BY DEF Current, Span
<1>2. Buffered' /\ WellFormed'
  BY DEF CalculatorInv, Buffered, WellFormed
<1>3. Trail'
  BY <1>1 DEF CalculatorInv, Trail, Span
<1>4. Recorded'
  BY DEF CalculatorInv, Recorded, Span, IsCycle, CycleAddr, CycleVal
<1>5. Scripted'
  BY <1>1 DEF CalculatorInv, Scripted, Span, CycleAddr, CycleVal
<1>6. Taken' = Taken
  BY <1>1 DEF Taken, Waiting
<1>7. ChipInv'
  BY <1>1, <1>6 DEF CalculatorInv, ChipInv
<1>8. WorkerInv' /\ BlockInv'
  BY <1>1 DEF CalculatorInv, WorkerInv, BlockInv, Closed
<1> QED BY <1>2, <1>3, <1>4, <1>5, <1>7, <1>8 DEF CalculatorInv

LEMMA CalculatorStep ==
    ASSUME TypeOK, TypeOK', CalculatorInv, [Next]_vars
    PROVE  CalculatorInv'
<1> USE DEF calculator, recorder, pipeline
<1>0. asked' \in Seq(Asked)
  BY DEF TypeOK
<1>1. ASSUME NEW r \in Requests, StartProgram(r[1], r[2])
      PROVE  CalculatorInv'
  <2>1. r[1] \in Addr /\ r[2] \in Byte /\ "body" \in Exits
    BY DEF Exits
  <2>2. /\ script = << >> /\ pending = << >> /\ chip = "read"
        /\ worker'.at = "block"
        /\ script' = ProgramShape(r[1], r[2])
        /\ Ask("byte_program", r[1], r[2], "body")
        /\ UNCHANGED <<chip, array, landed, failures, recorder, pipeline>>
    BY <1>1 DEF StartProgram, Recording, PollSucceeds, CalculatorInv, WorkerInv
  <2>3. /\ (Buffered /\ WellFormed /\ Trail /\ Recorded /\ Scripted /\ ChipInv)'
        /\ Len(asked') = Len(asked) + 1 /\ asked' # << >>
        /\ \A k \in 1 .. Len(asked) : asked'[k] = asked[k]
        /\ Current'.kind = "byte_program"
    BY <1>0, <2>1, <2>2, NewCommand
  <2>4. WorkerInv'
    BY <2>2, <2>3 DEF WorkerInv
  <2>5. BlockInv'
    BY <1>0, <2>2, <2>3, BlockStep
  <2> QED BY <2>3, <2>4, <2>5 DEF CalculatorInv
<1>2. ASSUME NEW a \in EraseTargets, StartErase(a)
      PROVE  CalculatorInv'
  <2>1. a \in Addr /\ x30 \in Byte /\ "body" \in Exits
    BY CommandBytes DEF Exits
  <2>2. /\ script = << >> /\ pending = << >> /\ chip = "read"
        /\ worker.at = "idle" /\ worker'.at = "erase"
        /\ script' = EraseShape(a)
        /\ Ask("sector_erase", a, x30, "body")
        /\ UNCHANGED <<chip, array, landed, failures, recorder, pipeline>>
    BY <1>2 DEF StartErase, Recording, CalculatorInv, WorkerInv
  <2>3. /\ (Buffered /\ WellFormed /\ Trail /\ Recorded /\ Scripted /\ ChipInv)'
        /\ Len(asked') = Len(asked) + 1 /\ asked' # << >>
        /\ \A k \in 1 .. Len(asked) : asked'[k] = asked[k]
        /\ Current'.kind = "sector_erase"
    BY <1>0, <2>1, <2>2, NewCommand
  <2>4. WorkerInv'
    BY <2>2, <2>3 DEF WorkerInv
  <2>5. BlockInv'
    BY <1>0, <2>2, <2>3, BlockStep
  <2> QED BY <2>3, <2>4, <2>5 DEF CalculatorInv
<1>3. ASSUME NEW exit \in {"success", "failure"}, EndBlock(exit)
      PROVE  CalculatorInv'
  <2>1. worker.addr \in Addr /\ xF0 \in Byte /\ exit \in Exits
    BY CommandBytes DEF Exits, TypeOK, Worker
  <2>2. /\ script = << >> /\ pending = << >>
        /\ worker.at = "block" /\ worker'.at = "reset"
        /\ script' = <<[addr |-> worker.addr, val |-> xF0, pc |-> exit]>>
        /\ Ask("array_reset", worker.addr, xF0, exit)
        /\ UNCHANGED <<chip, array, landed, recorder, pipeline>>
        /\ failures' = IF exit = "failure" THEN failures \cup {"program"}
                                           ELSE failures
    BY <1>3 DEF EndBlock, Recording, TypeOK, Worker
  <2>3. chip \in {"read", "error"}
    <3>1. asked # << >> /\ Current.kind = "byte_program"
      BY <2>2 DEF CalculatorInv, WorkerInv, Trail
    <3>2. Taken = 4
      BY <2>2, <3>1 DEF Taken, Waiting, Span
    <3> QED BY <3>1, <3>2 DEF CalculatorInv, ChipInv, ChipFits
  <2>4. /\ (Buffered /\ WellFormed /\ Trail /\ Recorded /\ Scripted /\ ChipInv)'
        /\ Len(asked') = Len(asked) + 1 /\ asked' # << >>
        /\ \A k \in 1 .. Len(asked) : asked'[k] = asked[k]
        /\ Current'.kind = "array_reset" /\ Current'.pc = exit
    BY <1>0, <2>1, <2>2, <2>3, NewCommand
  <2>5. WorkerInv'
    BY <2>2, <2>4 DEF WorkerInv
  <2>6. BlockInv'
    BY <1>0, <2>2, <2>4, BlockStep
  <2> QED BY <2>4, <2>5, <2>6 DEF CalculatorInv
<1>4. ASSUME EndErase PROVE CalculatorInv'
  <2>1. /\ script = << >> /\ pending = << >> /\ worker.at = "erase"
        /\ asked # << >> /\ Current.kind = "sector_erase"
        /\ UNCHANGED <<chip, array, landed, recorder, pipeline>>
    BY <1>4 DEF EndErase, Recording, CalculatorInv, WorkerInv, Trail
  <2>2. CASE /\ chip = "read" /\ worker' = [worker EXCEPT !.at = "idle"]
             /\ UNCHANGED <<script, failures, asked>>
    <3>1. Current' = Current /\ Span(Current)' = Span(Current)
      BY <2>2 DEF Current, Span
    <3>2. worker'.at = "idle"
      BY <2>2 DEF TypeOK, Worker
    <3>3. Buffered' /\ WellFormed'
      BY <2>1, <2>2 DEF CalculatorInv, Buffered, WellFormed
    <3>4. Trail'
      BY <2>1, <2>2, <3>1 DEF CalculatorInv, Trail, Span
    <3>5. Recorded'
      BY <2>1, <2>2 DEF CalculatorInv, Recorded, Span, IsCycle, CycleAddr,
         CycleVal
    <3>6. Scripted'
      BY <2>1, <2>2 DEF Scripted
    <3>7. Taken' = Taken
      BY <2>1, <2>2, <3>1 DEF Taken, Waiting
    <3>8. ChipInv'
      BY <2>1, <2>2, <3>1, <3>7 DEF CalculatorInv, ChipInv
    <3>9. WorkerInv'
      BY <2>1, <2>2, <3>1, <3>2 DEF WorkerInv
    <3>10. BlockInv'
      BY <2>1, <2>2 DEF CalculatorInv, BlockInv, Closed
    <3> QED BY <3>3, <3>4, <3>5, <3>6, <3>8, <3>9, <3>10 DEF CalculatorInv
  <2>3. ASSUME NEW de \in Addr, chip = "error",
               worker' = [worker EXCEPT !.at = "reset"],
               script' = <<[addr |-> de, val |-> xF0, pc |-> "failure"]>>,
               Ask("array_reset", de, xF0, "failure"),
               failures' = failures \cup {"erase"}
        PROVE  CalculatorInv'
    <3>1. xF0 \in Byte /\ "failure" \in Exits
      BY CommandBytes DEF Exits
    <3>2. /\ (Buffered /\ WellFormed /\ Trail /\ Recorded /\ Scripted
                /\ ChipInv)'
          /\ Len(asked') = Len(asked) + 1 /\ asked' # << >>
          /\ \A k \in 1 .. Len(asked) : asked'[k] = asked[k]
          /\ Current'.kind = "array_reset"
      BY <1>0, <2>1, <2>3, <3>1, NewCommand
    <3>3. worker'.at = "reset"
      BY <2>3 DEF TypeOK, Worker
    <3>4. WorkerInv'
      BY <3>2, <3>3 DEF WorkerInv
    <3>5. BlockInv'
      BY <1>0, <2>3, <3>2, BlockStep
    <3> QED BY <3>2, <3>4, <3>5 DEF CalculatorInv
  <2> QED
    BY <1>4, <2>2, <2>3 DEF EndErase
<1>5. ASSUME EndReset PROVE CalculatorInv'
  <2>1. /\ script = << >> /\ pending = << >> /\ worker.at = "reset"
        /\ worker'.at = "idle" /\ asked # << >>
        /\ Current.kind = "array_reset"
        /\ UNCHANGED <<script, chip, array, landed, failures, asked, recorder,
                       pipeline>>
    BY <1>5 DEF EndReset, Recording, CalculatorInv, WorkerInv, Trail, TypeOK,
       Worker
  <2>2. Current' = Current /\ Span(Current)' = Span(Current)
    BY <2>1 DEF Current, Span
  <2>3. Taken = 1
    BY <2>1 DEF Taken, Waiting, Span
  <2>4. chip = "read"
    BY <2>1, <2>3 DEF CalculatorInv, ChipInv, ChipFits
  <2>5. Taken' = Taken
    BY <2>1, <2>2 DEF Taken, Waiting
  <2>6. Buffered' /\ WellFormed'
    BY <2>1 DEF CalculatorInv, Buffered, WellFormed
  <2>7. Trail'
    BY <2>1, <2>2 DEF CalculatorInv, Trail, Span
  <2>8. Recorded'
    BY <2>1 DEF CalculatorInv, Recorded, Span, IsCycle, CycleAddr, CycleVal
  <2>9. Scripted'
    BY <2>1 DEF Scripted
  <2>10. ChipInv'
    BY <2>1, <2>2, <2>5 DEF CalculatorInv, ChipInv
  <2>11. WorkerInv'
    BY <2>1, <2>2, <2>4 DEF WorkerInv
  <2>12. BlockInv'
    BY <2>1 DEF CalculatorInv, BlockInv, Closed
  <2> QED
    BY <2>6, <2>7, <2>8, <2>9, <2>10, <2>11, <2>12 DEF CalculatorInv
<1>6. CASE BusWrite
  BY <1>6, BusWriteKeeps
<1>7. CASE InstructionRecord
  BY <1>7, InstructionRecordKeeps
<1>8. CASE RamWrite(Erased)
  <2>1. /\ script # << >> /\ pending = << >>
        /\ pending' = <<[kind |-> "ram", addr |-> NoAddress, val |-> Erased]>>
        /\ UNCHANGED <<calculator, mapped, time, events, pipeline>>
    BY <1>8 DEF RamWrite, Recording
  <2>2. Current' = Current /\ Span(Current)' = Span(Current)
    BY <2>1 DEF Current, Span
  <2>3. ~Waiting /\ ~Waiting'
    BY <2>1 DEF Waiting
  <2>4. Taken' = Taken
    BY <2>1, <2>2, <2>3 DEF Taken
  <2>5. Buffered' /\ WellFormed'
    BY <2>1 DEF CalculatorInv, Buffered, WellFormed
  <2>6. Trail'
    BY <2>1, <2>2 DEF CalculatorInv, Trail, Span
  <2>7. Recorded'
    BY <2>1 DEF CalculatorInv, Recorded, Span, IsCycle, CycleAddr, CycleVal
  <2>8. Scripted'
    BY <2>1, <2>2 DEF CalculatorInv, Scripted, Span, CycleAddr, CycleVal
  <2>9. ChipInv'
    BY <2>1, <2>2, <2>4 DEF CalculatorInv, ChipInv
  <2>10. WorkerInv' /\ BlockInv'
    BY <2>1, <2>2 DEF CalculatorInv, WorkerInv, BlockInv, Closed
  <2> QED
    BY <2>5, <2>6, <2>7, <2>8, <2>9, <2>10 DEF CalculatorInv
<1>9. CASE SelectPage \/ TimePasses \/ CutTrace \/ Pipeline \/ UNCHANGED vars
  <2>1. UNCHANGED <<calculator, pending, events>>
    BY <1>9 DEF SelectPage, TimePasses, CutTrace, Pipeline, DecodeErase, DecodeProgram,
       DecodeSingle, EndDecode, Validate, ReplayCommand, RefuseCommand, EndReplay, vars
  <2> QED BY <2>1, CalculatorFrame
<1> QED
  BY <1>1, <1>2, <1>3, <1>4, <1>5, <1>6, <1>7, <1>8, <1>9
  DEF Next, Calculator

-----------------------------------------------------------------------------
(* The pipeline.                                                           *)

LEMMA AskedFacts ==
    ASSUME TypeOK, CalculatorInv, NEW k \in 1 .. Len(asked)
    PROVE  /\ asked[k] \in Asked /\ asked[k].from \in Nat /\ asked[k].from >= 1
           /\ asked[k].before \in Nat
           /\ Span(asked[k]) \in {1, 4, 6}
           /\ asked[k].kind \in {"sector_erase", "byte_program", "array_reset"}
<1>1. asked[k] \in Asked /\ asked[1] \in Asked /\ asked # << >>
  BY DEF TypeOK
<1>2. asked[1].from = 1
  BY <1>1 DEF CalculatorInv, Trail
<1>3. k > 1 => asked[1].from + Span(asked[1]) <= asked[k].from
  <2>1. Len(asked) \in Nat /\ 1 \in 1 .. Len(asked)
    BY DEF TypeOK
  <2> QED BY <2>1 DEF CalculatorInv, Trail
<1>4. Span(asked[1]) \in {1, 4, 6} /\ Span(asked[k]) \in {1, 4, 6}
  BY SpanType
<1> QED BY <1>1, <1>2, <1>3, <1>4 DEF Asked

\* The recorded writes of a command are found at its place in the trace.
Seen(c, i) ==
    \A j \in 1 .. Span(c) : i + j - 1 <= Len(events) =>
        /\ events[i + j - 1].addr # NoAddress
        /\ events[i + j - 1].addr = CycleAddr(c, j)
        /\ events[i + j - 1].val = CycleVal(c, j)
        /\ j = Span(c) => events[i + j - 1].pc = c.pc

\* What the decoder sees at the start of a command, whole or cut short.
LEMMA CommandSeen ==
    ASSUME NEW c, NEW i \in Nat, i >= 1, TypeOK, i <= Len(events),
           c.kind \in {"sector_erase", "byte_program", "array_reset"},
           c.kind = "sector_erase" => c.val = x30,
           c.kind = "array_reset" => c.val = xF0,
           Seen(c, i)
    PROVE  /\ EraseAt(i) <=> c.kind = "sector_erase" /\ i + 5 <= Len(events)
           /\ ProgramAt(i) <=> c.kind = "byte_program" /\ i + 3 <= Len(events)
           /\ events[i].val = xF0 <=> c.kind = "array_reset"
           /\ events[i].addr # NoAddress
<1>0. Len(events) \in Nat
  BY DEF TypeOK
<1> USE DEF Seen
<1>1. CASE c.kind = "array_reset"
  <2>1. events[i].val = xF0 /\ events[i].addr # NoAddress
    <3>1. 1 \in 1 .. Span(c) /\ i + 1 - 1 = i /\ Span(c) = 1
      BY <1>1 DEF Span
    <3> QED BY <1>1, <3>1 DEF CycleVal
  <2> QED
    BY <1>1, <2>1, CommandBytes DEF EraseAt, ProgramAt, At
<1>2. CASE c.kind = "byte_program"
  <2>1. Span(c) = 4
    BY <1>2 DEF Span
  <2>2. /\ events[i].addr = UNLOCK1 /\ events[i].val = xAA
        /\ events[i].addr # NoAddress
    <3>1. 1 \in 1 .. Span(c) /\ i + 1 - 1 = i
      BY <2>1
    <3> QED BY <2>1, <3>1 DEF CycleAddr, CycleVal
  <2>3. i + 1 <= Len(events) =>
            events[i + 1].addr = UNLOCK2 /\ events[i + 1].val = x55
    <3>1. 2 \in 1 .. Span(c) /\ i + 2 - 1 = i + 1
      BY <2>1
    <3> QED BY <2>1, <3>1 DEF CycleAddr, CycleVal
  <2>4. i + 2 <= Len(events) =>
            events[i + 2].addr = UNLOCK1 /\ events[i + 2].val = xA0
    <3>1. 3 \in 1 .. Span(c) /\ i + 3 - 1 = i + 2
      BY <2>1
    <3> QED BY <1>2, <2>1, <3>1 DEF CycleAddr, CycleVal
  <2>5. i + 3 <= Len(events) => events[i + 3].addr # NoAddress
    <3>1. 4 \in 1 .. Span(c) /\ i + 4 - 1 = i + 3
      BY <2>1
    <3> QED BY <3>1
  <2>6. ~EraseAt(i)
    BY <1>0, <2>4, CommandBytes DEF EraseAt, At
  <2>7. ProgramAt(i) <=> i + 3 <= Len(events)
    BY <1>0, <2>2, <2>3, <2>4, <2>5 DEF ProgramAt, At
  <2> QED BY <1>2, <2>2, <2>6, <2>7, CommandBytes
<1>3. CASE c.kind = "sector_erase"
  <2>1. Span(c) = 6
    BY <1>3 DEF Span
  <2>2. /\ events[i].addr = UNLOCK1 /\ events[i].val = xAA
        /\ events[i].addr # NoAddress
    <3>1. 1 \in 1 .. Span(c) /\ i + 1 - 1 = i
      BY <2>1
    <3> QED BY <2>1, <3>1 DEF CycleAddr, CycleVal
  <2>3. i + 1 <= Len(events) =>
            events[i + 1].addr = UNLOCK2 /\ events[i + 1].val = x55
    <3>1. 2 \in 1 .. Span(c) /\ i + 2 - 1 = i + 1
      BY <2>1
    <3> QED BY <2>1, <3>1 DEF CycleAddr, CycleVal
  <2>4. i + 2 <= Len(events) =>
            events[i + 2].addr = UNLOCK1 /\ events[i + 2].val = x80
    <3>1. 3 \in 1 .. Span(c) /\ i + 3 - 1 = i + 2
      BY <2>1
    <3> QED BY <1>3, <2>1, <3>1 DEF CycleAddr, CycleVal
  <2>5. i + 3 <= Len(events) =>
            events[i + 3].addr = UNLOCK1 /\ events[i + 3].val = xAA
    <3>1. 4 \in 1 .. Span(c) /\ i + 4 - 1 = i + 3
      BY <2>1
    <3> QED BY <2>1, <3>1 DEF CycleAddr, CycleVal
  <2>6. i + 4 <= Len(events) =>
            events[i + 4].addr = UNLOCK2 /\ events[i + 4].val = x55
    <3>1. 5 \in 1 .. Span(c) /\ i + 5 - 1 = i + 4
      BY <2>1
    <3> QED BY <2>1, <3>1 DEF CycleAddr, CycleVal
  <2>7. i + 5 <= Len(events) =>
            events[i + 5].addr # NoAddress /\ events[i + 5].val = x30
    <3>1. 6 \in 1 .. Span(c) /\ i + 6 - 1 = i + 5
      BY <2>1
    <3> QED BY <1>3, <2>1, <3>1 DEF CycleVal
  <2>8. EraseAt(i) <=> i + 5 <= Len(events)
    BY <1>0, <2>2, <2>3, <2>4, <2>5, <2>6, <2>7 DEF EraseAt, At
  <2>9. ~ProgramAt(i)
    BY <1>0, <2>4, CommandBytes DEF ProgramAt, At
  <2> QED BY <1>3, <2>2, <2>8, <2>9, CommandBytes
<1> QED BY <1>1, <1>2, <1>3

\* One pass of the decoder finds the worker's next command, or the start of
\* one that was cut short.
LEMMA DecodeStep ==
    ASSUME TypeOK, TypeOK', CalculatorInv, AllResolved, Faithful,
           index = CursorAt(Len(commands)),
           DecodeErase \/ DecodeProgram \/ DecodeSingle
    PROVE  (CutShort \/ (Faithful /\ index = CursorAt(Len(commands))))'
<1> DEFINE m == Len(commands)
           n == Len(asked)
           c == asked[m + 1]
<1>1. /\ index <= Len(events) /\ Len(events) \in Nat /\ m \in Nat /\ n \in Nat
      /\ index \in Nat
      /\ UNCHANGED <<calculator, recorder, stage, image, mutations>>
  <2>1. Len(events) \in Nat /\ m \in Nat /\ n \in Nat /\ index \in Nat
    BY DEF TypeOK
  <2>2. /\ index <= Len(events)
        /\ UNCHANGED <<calculator, recorder, stage, image, mutations>>
    BY DEF DecodeErase, DecodeProgram, DecodeSingle, Decoding
  <2> QED BY <2>1, <2>2
<1>2. n > 0 => Len(events) + Len(script) + 1 = asked[n].from + Span(asked[n])
  <2>1. n > 0 => asked # << >>
    OBVIOUS
  <2> QED BY <2>1 DEF CalculatorInv, Trail, Current
<1>3. m < n
  <2>1. SUFFICES ASSUME m >= n PROVE FALSE
    BY <1>1
  <2>2. m = n
    BY <1>1, <2>1 DEF Faithful
  <2>3. CASE n = 0
    <3>1. asked = << >>
      BY <2>3 DEF TypeOK
    <3>2. Len(events) = 0
      BY <3>1 DEF CalculatorInv, Trail
    <3> QED BY <1>1, <2>2, <2>3, <3>2 DEF CursorAt
  <2>4. CASE n > 0
    <3>1. index = Len(events) + Len(script) + 1
      BY <1>1, <1>2, <2>2, <2>4 DEF CursorAt
    <3> QED BY <1>1, <3>1 DEF TypeOK
  <2> QED BY <1>1, <2>3, <2>4
<1>4. /\ c \in Asked /\ c.from \in Nat /\ c.from >= 1
      /\ Span(c) \in {1, 4, 6}
      /\ c.kind \in {"sector_erase", "byte_program", "array_reset"}
  BY <1>1, <1>3, AskedFacts
<1>5. index = c.from
  <2>1. CASE m = 0
    <3>1. asked # << >>
      BY <1>3, <2>1
    <3> QED BY <2>1, <3>1 DEF CursorAt, CalculatorInv, Trail
  <2>2. CASE m > 0
    <3>1. m \in 1 .. n - 1
      BY <1>1, <1>3, <2>2
    <3> QED BY <2>2, <3>1 DEF CursorAt, CalculatorInv, Trail
  <2> QED BY <1>1, <2>1, <2>2
<1>6. /\ c.kind = "sector_erase" => c.val = x30
      /\ c.kind = "array_reset" => c.val = xF0
  BY <1>1, <1>3 DEF CalculatorInv, WellFormed
<1>7. Seen(c, index)
  <2> SUFFICES ASSUME NEW j \in 1 .. Span(c), index + j - 1 <= Len(events)
               PROVE  /\ events[index + j - 1].addr # NoAddress
                      /\ events[index + j - 1].addr = CycleAddr(c, j)
                      /\ events[index + j - 1].val = CycleVal(c, j)
                      /\ j = Span(c) => events[index + j - 1].pc = c.pc
    BY DEF Seen
  <2>1. m + 1 \in 1 .. n
    BY <1>1, <1>3
  <2>2. IsCycle(events[index + j - 1], c, j)
    BY <1>5, <2>1 DEF CalculatorInv, Recorded
  <2>3. index + j - 1 \in 1 .. Len(events)
    BY <1>1, <1>4, <1>5
  <2> QED BY <2>2, <2>3 DEF AllResolved, IsCycle
<1>8. /\ EraseAt(index) <=> c.kind = "sector_erase" /\ index + 5 <= Len(events)
      /\ ProgramAt(index) <=> c.kind = "byte_program" /\ index + 3 <= Len(events)
      /\ events[index].val = xF0 <=> c.kind = "array_reset"
      /\ events[index].addr # NoAddress
  <2>1. index \in Nat /\ index >= 1 /\ index <= Len(events)
    BY <1>1, <1>4, <1>5
  <2> HIDE DEF c
  <2> QED BY <1>4, <1>6, <1>7, <2>1, CommandSeen
<1> DEFINE e == events[index + Span(c) - 1]
<1>9. CASE index + Span(c) - 1 <= Len(events)
  <2>1. Decode(c.kind, Span(c))
    <3>1. CASE c.kind = "sector_erase"
      <4>1. Span(c) = 6 /\ EraseAt(index)
        BY <1>1, <1>8, <1>9, <3>1 DEF Span
      <4> QED BY <3>1, <4>1 DEF DecodeErase, DecodeProgram, DecodeSingle
    <3>2. CASE c.kind = "byte_program"
      <4>1. Span(c) = 4 /\ ProgramAt(index) /\ ~EraseAt(index)
        BY <1>1, <1>8, <1>9, <3>2 DEF Span
      <4> QED BY <3>2, <4>1 DEF DecodeErase, DecodeProgram, DecodeSingle
    <3>3. CASE c.kind = "array_reset"
      <4>1. Span(c) = 1 /\ ~ProgramAt(index) /\ ~EraseAt(index)
            /\ events[index].val = xF0
        BY <1>8, <3>3 DEF Span
      <4> QED BY <1>8, <3>3, <4>1 DEF DecodeErase, DecodeProgram, DecodeSingle
    <3> QED BY <1>4, <3>1, <3>2, <3>3
  <2>2. /\ Len(commands') = m + 1
        /\ commands'[m + 1] = [kind |-> c.kind, addr |-> e.addr,
                               val |-> e.val, pc |-> e.pc, clock |-> e.clock]
        /\ \A k \in 1 .. m : commands'[k] = commands[k]
        /\ index' = index + Span(c)
    BY <2>1 DEF Decode, TypeOK
  <2>3. /\ e.addr = c.addr /\ e.val = c.val /\ e.pc = c.pc
    <3>1. Span(c) \in 1 .. Span(c)
      BY <1>4
    <3> QED BY <1>7, <1>9, <3>1 DEF Seen, CycleAddr, CycleVal
  <2>4. asked' = asked /\ events' = events
    BY <1>1 DEF calculator, recorder
  <2>5. CursorAt(Len(commands))' = index + Span(c)
    <3>1. Len(commands') = m + 1 /\ m + 1 # 0
      BY <1>1, <2>2
    <3>2. CursorAt(Len(commands))' = asked[m + 1].from + Span(asked[m + 1])
      BY <2>4, <3>1 DEF CursorAt, Span
    <3> QED BY <1>5, <3>2
  <2>6. \A k \in 1 .. m + 1 : /\ commands'[k].kind = asked[k].kind
                             /\ commands'[k].addr = asked[k].addr
                             /\ commands'[k].val = asked[k].val
                             /\ commands'[k].pc = asked[k].pc
    <3> SUFFICES ASSUME NEW k \in 1 .. m + 1
                 PROVE  /\ commands'[k].kind = asked[k].kind
                        /\ commands'[k].addr = asked[k].addr
                        /\ commands'[k].val = asked[k].val
                        /\ commands'[k].pc = asked[k].pc
      OBVIOUS
    <3>1. CASE k = m + 1
      BY <2>2, <2>3, <3>1
    <3>2. CASE k \in 1 .. m
      BY <2>2, <3>2 DEF Faithful
    <3> QED BY <1>1, <3>1, <3>2
  <2>7. index' = CursorAt(Len(commands))' /\ index' <= Len(events) + 1
    BY <1>1, <1>4, <1>9, <2>2, <2>5
  <2>8. Faithful'
    BY <1>1, <1>3, <2>2, <2>4, <2>6, <2>7 DEF Faithful
  <2> QED BY <2>7, <2>8
<1>10. CASE index + Span(c) - 1 > Len(events)
  <2>1. script # << >>
    <3>1. SUFFICES ASSUME script = << >> PROVE FALSE
      OBVIOUS
    <3>2. Len(events) + 1 = asked[n].from + Span(asked[n])
      BY <1>1, <1>2, <1>3, <3>1
    <3>3. CASE m + 1 = n
      BY <1>1, <1>4, <1>5, <1>10, <3>2, <3>3
    <3>4. CASE m + 1 < n
      <4>1. c.from + Span(c) <= asked[n].from
        BY <1>1, <3>4 DEF CalculatorInv, Trail
      <4>2. asked[n].from \in Nat /\ Span(asked[n]) \in {1, 4, 6}
        BY <1>1, <1>3, AskedFacts
      <4>3. asked[n].from <= Len(events)
        BY <1>1, <3>2, <4>2
      <4>4. index + Span(c) <= Len(events)
        BY <1>1, <1>4, <1>5, <4>1, <4>2, <4>3
      <4> QED BY <1>1, <1>4, <1>10, <4>4
    <3> QED BY <1>1, <1>3, <3>3, <3>4
  <2>2. c.kind # "array_reset"
    BY <1>1, <1>10 DEF Span
  <2>3. ~EraseAt(index) /\ ~ProgramAt(index) /\ events[index].val # xF0
    BY <1>1, <1>8, <1>10, <2>2 DEF Span
  <2>4. Decode("unmatched_write", 1)
    BY <1>8, <2>3 DEF DecodeErase, DecodeProgram, DecodeSingle
  <2>5. /\ Len(commands') = m + 1
        /\ commands'[m + 1].kind = "unmatched_write"
    BY <2>4 DEF Decode, TypeOK
  <2>6. script' # << >>
    BY <1>1, <2>1 DEF calculator
  <2>7. m + 1 \in 1 .. Len(commands')
    BY <1>1, <2>5
  <2> QED BY <2>5, <2>6, <2>7 DEF CutShort
<1> QED BY <1>1, <1>4, <1>9, <1>10

\* When the decoder is through, what it found is all the worker issued, but
\* for a last command no write of which was recorded.
LEMMA DecodedAll ==
    ASSUME TypeOK, CalculatorInv, AllDecoded, asked # << >>
    PROVE  \/ Len(commands) = Len(asked) /\ script = << >>
           \/ /\ Len(commands) = Len(asked) - 1
              /\ Len(script) = Span(Current)
<1> DEFINE m == Len(commands)
           n == Len(asked)
<1>1. m \in Nat /\ n \in Nat /\ n >= 1 /\ m <= n
      /\ Len(events) \in Nat /\ Len(script) \in Nat
  BY DEF TypeOK, AllDecoded, Faithful
<1>2. /\ Len(events) + Len(script) + 1 = asked[n].from + Span(asked[n])
      /\ Len(script) <= Span(asked[n]) /\ Current = asked[n]
  BY DEF CalculatorInv, Trail, Current
<1>3. asked[n].from \in Nat /\ Span(asked[n]) \in {1, 4, 6}
  BY <1>1, AskedFacts
<1>4. CASE m = n
  <2>1. asked[n].from + Span(asked[n]) = Len(events) + 1
    BY <1>1, <1>4 DEF AllDecoded, CursorAt
  <2>2. Len(script) = 0
    BY <1>1, <1>2, <2>1
  <2> QED BY <1>4, <2>2 DEF TypeOK
<1>5. CASE m < n
  <2>1. asked[m + 1].from = Len(events) + 1
    <3>1. CASE m = 0
      BY <3>1 DEF AllDecoded, CursorAt, CalculatorInv, Trail
    <3>2. CASE m > 0
      <4>1. m \in 1 .. n - 1
        BY <1>1, <1>5, <3>2
      <4> QED BY <3>2, <4>1 DEF AllDecoded, CursorAt, CalculatorInv, Trail
    <3> QED BY <1>1, <3>1, <3>2
  <2>2. m + 1 = n
    <3>1. SUFFICES ASSUME m + 1 < n PROVE FALSE
      BY <1>1, <1>5
    <3>2. asked[m + 1].from + Span(asked[m + 1]) <= asked[n].from
      BY <1>1, <3>1 DEF CalculatorInv, Trail
    <3>3. Span(asked[m + 1]) \in {1, 4, 6}
      BY SpanType
    <3> QED BY <1>1, <1>2, <1>3, <2>1, <3>2, <3>3
  <2>3. Len(script) = Span(asked[n])
    BY <1>1, <1>2, <1>3, <2>1, <2>2
  <2> QED BY <1>1, <1>2, <2>2, <2>3
<1> QED BY <1>1, <1>4, <1>5

\* The validator accepts what a worker that finished its work issued.
LEMMA CleanIsValid ==
    ASSUME TypeOK, CalculatorInv, AllDecoded,
           worker.at = "idle", landed # << >>, failures = {}
    PROVE  ValidStream
<1>1. script = << >> /\ asked # << >>
  BY DEF CalculatorInv, WorkerInv, Trail
<1>2. Len(asked) \in Nat /\ Len(asked) >= 1
  BY <1>1 DEF TypeOK
<1>3. Len(commands) = Len(asked)
  <2>1. Len(script) = 0 /\ Span(Current) \in {1, 4, 6}
    BY <1>1, SpanType
  <2> QED BY <1>1, <2>1, DecodedAll
<1>4. \A k \in 1 .. Len(commands) : /\ commands[k].kind = asked[k].kind
                                   /\ commands[k].pc = asked[k].pc
  BY DEF AllDecoded, Faithful
<1>5. commands # << >>
  BY <1>2, <1>3
<1>6. ASSUME NEW i \in 1 .. Len(commands)
      PROVE  /\ commands[i].kind # "unmatched_write"
             /\ commands[i].kind = "byte_program" => ClosedBySuccess(i)
  <2>1. commands[i].kind # "unmatched_write"
    <3>1. asked[i].kind \in {"sector_erase", "byte_program", "array_reset"}
      BY <1>3, <1>6, AskedFacts
    <3> QED BY <1>4, <1>6, <3>1
  <2>2. ASSUME commands[i].kind = "byte_program" PROVE ClosedBySuccess(i)
    <3>1. Closed(i)
      BY <1>3, <1>4, <1>6, <2>2 DEF CalculatorInv, BlockInv
    <3>2. PICK j \in i + 1 .. Len(asked) :
              /\ asked[j].kind = "array_reset" /\ asked[j].pc = "success"
              /\ \A l \in i .. j - 1 : asked[l].kind = "byte_program"
      BY <3>1 DEF Closed
    <3>3. \A l \in i .. j : l \in 1 .. Len(commands)
      BY <1>2, <1>3, <3>2
    <3>4. j \in i + 1 .. Len(commands) /\ j \in i .. j
      BY <1>2, <1>3, <3>2
    <3>5. commands[j].kind = "array_reset" /\ commands[j].pc = "success"
      BY <1>4, <3>2, <3>3, <3>4
    <3>6. \A l \in i .. j - 1 : commands[l].kind = "byte_program"
      <4> SUFFICES ASSUME NEW l \in i .. j - 1
                   PROVE  commands[l].kind = "byte_program"
        OBVIOUS
      <4>1. l \in i .. j
        BY <1>2, <3>2
      <4> QED BY <1>4, <3>2, <3>3, <4>1
    <3> QED BY <3>4, <3>5, <3>6 DEF ClosedBySuccess
  <2> QED BY <2>1, <2>2
<1> QED BY <1>5, <1>6 DEF ValidStream

LEMMA CommandClock ==
    ASSUME TypeOK, NEW k \in 1 .. Len(commands)
    PROVE  commands[k].clock \in Nat
<1>1. commands[k] \in Commands
  BY DEF TypeOK
<1> QED BY <1>1 DEF Commands

LEMMA PipelineInit == Init => PipelineInv
BY DEF Init, PipelineInv, CleanTraceIsReplayed

LEMMA PipelineStep ==
    ASSUME TypeOK, TypeOK', CalculatorInv, PipelineInv, ClockInv, [Next]_vars
    PROVE  PipelineInv'
<1> USE DEF calculator, recorder, pipeline
<1>1. CASE Calculator
  <2>1. stage = "record" /\ UNCHANGED pipeline
    BY <1>1 DEF Calculator, StartProgram, StartErase, EndBlock, EndErase,
       EndReset, BusWrite, RamWrite, SelectPage, TimePasses, InstructionRecord, Recording
  <2> QED BY <2>1 DEF PipelineInv, CleanTraceIsReplayed
<1>2. CASE CutTrace
  <2>1. /\ stage = "record" /\ commands = << >> /\ index = 1
        /\ UNCHANGED <<calculator, recorder, index, commands, image, mutations>>
    BY <1>2 DEF CutTrace, PipelineInv
  <2>2. CASE \E i \in 1 .. Len(events) : Unresolved(events[i])
    <3>1. stage' = "refused"
      BY <1>2, <2>2 DEF CutTrace
    <3>2. CleanTraceIsReplayed'
      BY <2>1, <2>2 DEF CleanTraceIsReplayed, Unresolved
    <3> QED BY <2>1, <3>1, <3>2 DEF PipelineInv
  <2>3. CASE ~ \E i \in 1 .. Len(events) : Unresolved(events[i])
    <3>1. stage' = "decode"
      BY <1>2, <2>3 DEF CutTrace
    <3>2. AllResolved'
      BY <2>1, <2>3 DEF AllResolved, Unresolved
    <3>3. Faithful' /\ index' = CursorAt(Len(commands))'
      BY <2>1 DEF Faithful, CursorAt, TypeOK
    <3> QED BY <2>1, <3>1, <3>2, <3>3 DEF PipelineInv, CleanTraceIsReplayed
  <2> QED BY <2>2, <2>3
<1>3. CASE DecodeErase \/ DecodeProgram \/ DecodeSingle
  <2>1. /\ stage = "decode" /\ stage' = "decode" /\ AllResolved
        /\ UNCHANGED <<calculator, recorder, stage, image, mutations>>
    BY <1>3 DEF DecodeErase, DecodeProgram, DecodeSingle, Decoding, PipelineInv
  <2>2. index' >= 1
    <3>1. index' \in {index + 1, index + 4, index + 6}
      BY <1>3 DEF DecodeErase, DecodeProgram, DecodeSingle, Decode
    <3> QED BY <3>1 DEF PipelineInv, TypeOK
  <2>3. (CutShort \/ (Faithful /\ index = CursorAt(Len(commands))))'
    <3>1. CASE CutShort
      <4>0. commands' = commands \/ \E x : commands' = Append(commands, x)
        BY <1>3, Zenon DEF DecodeErase, DecodeProgram, DecodeSingle, Decode
      <4>1. /\ Len(commands') >= Len(commands)
            /\ \A i \in 1 .. Len(commands) : commands'[i] = commands[i]
        <5>1. commands \in Seq(Commands) /\ Len(commands) \in Nat
          BY DEF TypeOK
        <5>2. CASE commands' = commands
          BY <5>1, <5>2
        <5>3. ASSUME NEW x, commands' = Append(commands, x)
              PROVE  /\ Len(commands') = Len(commands) + 1
                     /\ \A i \in 1 .. Len(commands) : commands'[i] = commands[i]
          BY <5>1, <5>3
        <5> QED BY <4>0, <5>1, <5>2, <5>3
      <4>2. PICK i \in 1 .. Len(commands) :
                commands[i].kind = "unmatched_write"
        BY <3>1 DEF CutShort
      <4>3. i \in 1 .. Len(commands')
        BY <4>1, <4>2 DEF TypeOK
      <4> QED BY <2>1, <3>1, <4>1, <4>2, <4>3 DEF CutShort
    <3>2. CASE Faithful /\ index = CursorAt(Len(commands))
      BY <1>3, <2>1, <3>2, DecodeStep
    <3> QED BY <2>1, <3>1, <3>2 DEF PipelineInv
  <2>4. AllResolved'
    BY <2>1 DEF AllResolved
  <2> QED BY <2>1, <2>2, <2>3, <2>4 DEF PipelineInv, CleanTraceIsReplayed
<1>4. CASE EndDecode
  <2>1. /\ stage = "decode" /\ stage' = "validate" /\ index > Len(events)
        /\ UNCHANGED <<calculator, recorder, index, commands, image, mutations>>
    BY <1>4 DEF EndDecode
  <2>2. AllResolved' /\ index' >= 1
    BY <2>1 DEF PipelineInv, AllResolved
  <2>3. CASE CutShort
    BY <2>1, <2>2, <2>3 DEF PipelineInv, CutShort, CleanTraceIsReplayed
  <2>4. CASE Faithful /\ index = CursorAt(Len(commands))
    <3>1. AllDecoded
      BY <2>1, <2>4 DEF AllDecoded, Faithful, TypeOK
    <3>2. AllDecoded'
      BY <2>1, <3>1 DEF AllDecoded, Faithful, CursorAt, Span
    <3> QED BY <2>1, <2>2, <3>2 DEF PipelineInv, CleanTraceIsReplayed
  <2> QED BY <2>1, <2>3, <2>4 DEF PipelineInv
<1>5. CASE Validate
  <2>1. /\ stage = "validate" /\ index' = 1 /\ (CutShort \/ AllDecoded)
        /\ AllResolved
        /\ UNCHANGED <<calculator, recorder, commands, image, mutations>>
        /\ stage' = IF ValidStream THEN "replay" ELSE "refused"
    BY <1>5 DEF Validate, PipelineInv
  <2>2. AllResolved'
    BY <2>1 DEF AllResolved
  <2>3. CASE ValidStream
    <3>1. ~CutShort
      BY <2>3 DEF ValidStream, CutShort
    <3>2. AllDecoded'
      BY <2>1, <3>1 DEF AllDecoded, Faithful, CursorAt, Span
    <3>3. 1 <= Len(commands') + 1
      BY <2>1 DEF TypeOK
    <3> QED BY <2>1, <2>2, <2>3, <3>2, <3>3 DEF PipelineInv, CleanTraceIsReplayed
  <2>4. CASE ~ValidStream
    <3>1. worker.at # "idle" \/ landed = << >> \/ failures # {}
      <4>1. CASE CutShort
        BY <4>1 DEF CutShort, CalculatorInv, WorkerInv
      <4>2. CASE AllDecoded
        BY <2>4, <4>2, CleanIsValid
      <4> QED BY <2>1, <4>1, <4>2
    <3>2. CleanTraceIsReplayed'
      BY <2>1, <3>1 DEF CleanTraceIsReplayed
    <3> QED BY <2>1, <2>4, <3>2 DEF PipelineInv
  <2> QED BY <2>3, <2>4
<1>6. CASE ReplayCommand
  <2>1. /\ stage = "replay" /\ index <= Len(commands) /\ index' = index + 1
        /\ AllDecoded /\ AllResolved
        /\ UNCHANGED <<calculator, recorder, commands>>
        /\ index \in Nat /\ index >= 1
    BY <1>6 DEF ReplayCommand, PipelineInv, TypeOK
  <2>2. stage' = "replay"
    BY <1>6, <2>1 DEF ReplayCommand
  <2>3. AllDecoded' /\ AllResolved'
    BY <2>1 DEF AllDecoded, Faithful, CursorAt, Span, AllResolved
  <2>4. index' >= 1 /\ index' <= Len(commands') + 1
    BY <2>1 DEF TypeOK
  <2> QED BY <2>2, <2>3, <2>4 DEF PipelineInv, CleanTraceIsReplayed
<1>7. CASE EndReplay
  <2>1. /\ stage = "replay" /\ stage' = "done" /\ index > Len(commands)
        /\ AllDecoded /\ AllResolved /\ index <= Len(commands) + 1
        /\ index >= 1 /\ index \in Nat /\ Len(commands) \in Nat
        /\ UNCHANGED <<calculator, recorder, index, commands, image, mutations>>
    BY <1>7 DEF EndReplay, PipelineInv, TypeOK
  <2>2. AllDecoded' /\ AllResolved'
    BY <2>1 DEF AllDecoded, Faithful, CursorAt, Span, AllResolved
  <2>3. index' = Len(commands') + 1 /\ index' >= 1
    BY <2>1
  <2> QED BY <2>1, <2>2, <2>3 DEF PipelineInv, CleanTraceIsReplayed
<1>9. CASE RefuseCommand
  <2>1. /\ stage = "replay" /\ stage' = "refused" /\ Refuses(index)
        /\ AllDecoded /\ index \in 1 .. Len(commands) /\ index \in Nat
        /\ UNCHANGED <<calculator, recorder, index, commands, image, mutations>>
    BY <1>9 DEF RefuseCommand, PipelineInv, TypeOK
  <2>2. index \in 1 .. Len(asked)
    BY <2>1 DEF AllDecoded, Faithful, TypeOK
  <2>3. commands[index].kind # "unmatched_write"
    BY <2>1, <2>2, AskedFacts DEF AllDecoded, Faithful
  <2>4. time >= CLOCK
    <3>1. index - 1 \in 1 .. Len(commands)
          /\ commands[index].clock < commands[index - 1].clock
      BY <2>1, <2>3 DEF Refuses, ClockRunsBack
    <3>2. commands[index].clock \in Nat /\ commands[index - 1].clock \in Nat
      BY <2>1, <3>1, CommandClock
    <3>3. ~(time < CLOCK)
      BY <2>1, <3>1, <3>2 DEF ClockInv
    <3> QED BY <3>3, ClockAssumption DEF TypeOK
  <2>5. CleanTraceIsReplayed'
    BY <2>1, <2>4 DEF CleanTraceIsReplayed
  <2> QED BY <2>1, <2>5 DEF PipelineInv
<1>8. CASE UNCHANGED vars
  <2>1. /\ AllResolved' <=> AllResolved
        /\ AllDecoded' <=> AllDecoded
        /\ Faithful' <=> Faithful
        /\ CursorAt(Len(commands))' = CursorAt(Len(commands))
    BY <1>8 DEF vars, AllResolved, AllDecoded, Faithful, CursorAt, Span
  <2>2. CutShort' <=> CutShort
    BY <1>8 DEF vars, CutShort
  <2>3. CleanTraceIsReplayed' <=> CleanTraceIsReplayed
    BY <1>8 DEF vars, CleanTraceIsReplayed
  <2> QED BY <1>8, <2>1, <2>2, <2>3 DEF vars, PipelineInv
<1> QED
  BY <1>1, <1>2, <1>3, <1>4, <1>5, <1>6, <1>7, <1>8, <1>9 DEF Next, Pipeline

\* Clocks of the recording.
LEMMA ClockInit == Init => ClockInv
BY DEF Init, ClockInv

LEMMA ReadingOfTime == ASSUME TypeOK, time < CLOCK PROVE time % CLOCK = time
<1>1. \A a, b \in Nat : a < b => a % b = a
  OBVIOUS
<1>2. time \in Nat /\ CLOCK \in Nat
  BY ClockAssumption DEF TypeOK
<1> QED BY <1>1, <1>2

LEMMA ClockStep ==
    ASSUME TypeOK, PipelineInv, ClockInv, [Next]_vars, TypeOK'
    PROVE  ClockInv'
<1> USE DEF calculator, recorder, pipeline
<1>1. SUFFICES ASSUME time' < CLOCK PROVE ClockInv'
  BY DEF ClockInv
<1>2. time \in Nat /\ CLOCK \in Nat /\ time <= time'
  <2>1. time' = time \/ TimePasses
    BY DEF Next, Calculator, StartProgram, StartErase, EndBlock, EndErase,
       EndReset, BusWrite, RamWrite, SelectPage, InstructionRecord, CutTrace,
       Pipeline, DecodeErase, DecodeProgram, DecodeSingle, EndDecode, Validate,
       ReplayCommand, RefuseCommand, EndReplay, vars
  <2>2. time \in Nat /\ CLOCK \in Nat /\ MaxTime \in Nat
    BY ClockAssumption DEF TypeOK
  <2> QED BY <2>1, <2>2 DEF TimePasses
<1>3. time < CLOCK
  BY <1>1, <1>2 DEF TypeOK
<1> DEFINE n == Len(events)
           m == Len(commands)
<1>4. /\ n \in Nat /\ m \in Nat /\ index \in Nat
      /\ \A i \in 1 .. n : events[i].clock \in Nat
      /\ \A k \in 1 .. m : commands[k].clock \in Nat
  <2>1. n \in Nat /\ m \in Nat /\ index \in Nat
    BY DEF TypeOK
  <2>2. \A i \in 1 .. n : events[i] \in Event
    BY DEF TypeOK
  <2>3. \A i \in 1 .. n : events[i].clock \in Nat
    BY <2>2 DEF Event
  <2>4. \A k \in 1 .. m : commands[k].clock \in Nat
    BY CommandClock
  <2> QED BY <2>1, <2>3, <2>4
<1>5. CASE InstructionRecord
  <2>1. stage = "record" /\ commands = << >> /\ stage' = stage
        /\ commands' = commands /\ time' = time
    BY <1>5 DEF InstructionRecord, PipelineInv
  <2>2. CASE events' = events
    BY <1>3, <2>1, <2>2 DEF ClockInv
  <2>3. ASSUME NEW e, events' = Append(events, e), e.clock = time
        PROVE  ClockInv'
    <3>1. /\ Len(events') = n + 1 /\ events'[n + 1] = e
          /\ \A i \in 1 .. n : events'[i] = events[i]
      BY <1>4, <2>3 DEF TypeOK
    <3>2. \A i \in 1 .. n : events[i].clock <= time
      BY <1>3 DEF ClockInv
    <3>3. \A i \in 1 .. n + 1 : events'[i].clock <= time
      BY <1>2, <1>4, <2>3, <3>1, <3>2
    <3>4. \A i, j \in 1 .. n + 1 :
             i <= j => events'[i].clock <= events'[j].clock
      <4>1. SUFFICES ASSUME NEW i \in 1 .. n + 1, NEW j \in 1 .. n + 1, i <= j
                     PROVE  events'[i].clock <= events'[j].clock
        OBVIOUS
      <4>2. CASE j = n + 1
        BY <2>3, <3>1, <3>3, <4>2
      <4>3. CASE j # n + 1
        <5>1. i \in 1 .. n /\ j \in 1 .. n
          BY <1>4, <4>1, <4>3
        <5> QED BY <1>3, <3>1, <4>1, <5>1 DEF ClockInv
      <4> QED BY <4>2, <4>3
    <3> QED BY <2>1, <3>1, <3>3, <3>4 DEF ClockInv
  <2> QED
    <3>1. CASE Head(pending).kind = "flash"
      <4> DEFINE e == [addr |-> Head(pending).addr, val |-> Head(pending).val,
                       pc |-> Head(script).pc, clock |-> time % CLOCK]
      <4>1. events' = Append(events, e)
        BY <1>5, <3>1 DEF InstructionRecord
      <4>2. e.clock = time
        BY <1>3, ReadingOfTime
      <4> HIDE DEF e
      <4> QED BY <2>3, <4>1, <4>2
    <3>2. CASE Head(pending).kind # "flash"
      BY <1>5, <2>2, <3>2 DEF InstructionRecord
    <3> QED BY <3>1, <3>2
<1>6. CASE DecodeErase \/ DecodeProgram \/ DecodeSingle
  <2>1. stage = "decode" /\ stage' = stage /\ events' = events /\ time' = time
    BY <1>6 DEF DecodeErase, DecodeProgram, DecodeSingle, Decoding
  <2>2. /\ \A i \in 1 .. n : events[i].clock <= time
        /\ \A i, j \in 1 .. n : i <= j => events[i].clock <= events[j].clock
        /\ \A k \in 1 .. m, i \in index .. n :
              commands[k].clock <= events[i].clock
        /\ \A k, l \in 1 .. m : k <= l => commands[k].clock <= commands[l].clock
    BY <1>3, <2>1 DEF ClockInv
  <2>3. CASE commands' = commands /\ index' = index + 1
    BY <1>4, <2>1, <2>2, <2>3 DEF ClockInv
  <2>4. ASSUME NEW c, NEW last \in index .. n, commands' = Append(commands, c),
               c.clock = events[last].clock, index' = last + 1
        PROVE  ClockInv'
    <3>1. /\ Len(commands') = m + 1 /\ commands'[m + 1] = c
          /\ \A k \in 1 .. m : commands'[k] = commands[k]
      BY <1>4, <2>4 DEF TypeOK
    <3>2. last \in 1 .. n /\ last \in Nat
      BY <1>4 DEF PipelineInv
    <3>3. \A k \in 1 .. m + 1 : commands'[k].clock <= events[last].clock
      <4>1. events[last].clock <= events[last].clock
        BY <2>2, <3>2
      <4>2. \A k \in 1 .. m : commands[k].clock <= events[last].clock
        BY <2>2
      <4>3. \A k \in 1 .. m + 1 : k \in 1 .. m \/ k = m + 1
        BY <1>4
      <4> HIDE DEF m
      <4> QED BY <2>4, <3>1, <4>1, <4>2, <4>3
    <3>4. \A k \in 1 .. m + 1, i \in last + 1 .. n :
             commands'[k].clock <= events[i].clock
      <4>1. SUFFICES ASSUME NEW k \in 1 .. m + 1, NEW i \in last + 1 .. n
                     PROVE  commands'[k].clock <= events[i].clock
        OBVIOUS
      <4>2. i \in 1 .. n /\ last <= i
        BY <1>4, <3>2
      <4>3. events[last].clock <= events[i].clock
        BY <2>2, <3>2, <4>2
      <4>4. commands'[k].clock <= events[last].clock
        BY <3>3
      <4>5. commands'[k].clock \in Nat
        <5>1. c.clock \in Nat
          BY <1>4, <2>4, <3>2
        <5>2. k \in 1 .. m \/ k = m + 1
          BY <1>4
        <5> QED BY <1>4, <3>1, <5>1, <5>2
      <4>6. events[i].clock \in Nat /\ events[last].clock \in Nat
        BY <1>4, <3>2, <4>2
      <4> HIDE DEF m, n
      <4> QED BY <4>3, <4>4, <4>5, <4>6
    <3>5. \A k, l \in 1 .. m + 1 :
             k <= l => commands'[k].clock <= commands'[l].clock
      <4>1. SUFFICES ASSUME NEW k \in 1 .. m + 1, NEW l \in 1 .. m + 1, k <= l
                     PROVE  commands'[k].clock <= commands'[l].clock
        OBVIOUS
      <4>2. CASE l = m + 1
        BY <2>4, <3>1, <3>3, <4>2
      <4>3. CASE l # m + 1
        <5>1. k \in 1 .. m /\ l \in 1 .. m
          BY <1>4, <4>1, <4>3
        <5> QED BY <2>2, <3>1, <4>1, <5>1
      <4> QED BY <4>2, <4>3
    <3> QED BY <2>1, <2>2, <2>4, <3>1, <3>4, <3>5 DEF ClockInv
  <2>5. ASSUME NEW kind, NEW span \in {1, 4, 6}, Decode(kind, span),
               index + span - 1 <= Len(events)
        PROVE  ClockInv'
    <3> DEFINE last == index + span - 1
               c == [kind |-> kind, addr |-> events[last].addr,
                     val |-> events[last].val, pc |-> events[last].pc,
                     clock |-> events[last].clock]
    <3>1. last \in index .. n /\ index' = last + 1
      BY <1>4, <2>5 DEF Decode
    <3>2. commands' = Append(commands, c) /\ c.clock = events[last].clock
      BY <2>5 DEF Decode
    <3> HIDE DEF c, last
    <3> QED BY <2>4, <3>1, <3>2
  <2>6. CASE DecodeErase
    BY <1>4, <2>5, <2>6 DEF DecodeErase, EraseAt
  <2>7. CASE DecodeProgram
    BY <1>4, <2>5, <2>7 DEF DecodeProgram, ProgramAt
  <2>8. CASE DecodeSingle
    <3>1. index + 1 - 1 <= Len(events)
      BY <1>4, <2>8 DEF DecodeSingle, Decoding
    <3> QED BY <2>3, <2>5, <2>8, <3>1 DEF DecodeSingle
  <2> QED BY <1>6, <2>6, <2>7, <2>8
<1>7. CASE CutTrace
  <2>1. commands = << >> /\ commands' = commands /\ events' = events
        /\ time' = time
    BY <1>7 DEF CutTrace, PipelineInv
  <2> QED BY <1>3, <2>1 DEF ClockInv
<1>8. CASE EndDecode \/ Validate \/ ReplayCommand \/ RefuseCommand \/ EndReplay
  <2>1. /\ stage' # "decode" /\ commands' = commands /\ events' = events
        /\ time' = time
    BY <1>8 DEF EndDecode, Validate, ReplayCommand, RefuseCommand, EndReplay
  <2> QED BY <1>3, <2>1 DEF ClockInv
<1>9. CASE UNCHANGED <<pipeline, events>>
  <2>1. \A i \in 1 .. n : events[i].clock <= time'
    <3>1. SUFFICES ASSUME NEW i \in 1 .. n PROVE events[i].clock <= time'
      OBVIOUS
    <3>2. events[i].clock <= time /\ events[i].clock \in Nat
      BY <1>3, <1>4 DEF ClockInv
    <3>3. time' \in Nat
      BY DEF TypeOK
    <3> QED BY <1>2, <3>2, <3>3
  <2> QED BY <1>3, <1>9, <2>1 DEF ClockInv
<1>10. CASE Calculator /\ ~InstructionRecord
  <2>1. UNCHANGED <<pipeline, events>>
    BY <1>10 DEF Calculator, StartProgram, StartErase, EndBlock, EndErase,
       EndReset, BusWrite, RamWrite, SelectPage, TimePasses
  <2> QED BY <1>9, <2>1
<1> QED
  BY <1>5, <1>6, <1>7, <1>8, <1>9, <1>10 DEF Next, Pipeline, vars

-----------------------------------------------------------------------------
(* What holds of every part, failing erases included.                      *)

IInv == TypeOK /\ CalculatorInv /\ PipelineInv /\ ClockInv

\* The parts of the invariant hold in every reachable state.
THEOREM Invariance == Spec => []IInv
<1>1. Init => IInv
  BY InitType, CalculatorInit, PipelineInit, ClockInit DEF IInv
<1>2. IInv /\ [Next]_vars => IInv'
  <2> SUFFICES ASSUME IInv, [Next]_vars PROVE IInv'
    OBVIOUS
  <2>1. TypeOK /\ CalculatorInv /\ PipelineInv /\ ClockInv
    BY DEF IInv
  <2>2. TypeOK'
    BY <2>1, StepType DEF CalculatorInv, PipelineInv
  <2>3. CalculatorInv'
    BY <2>1, <2>2, CalculatorStep
  <2>4. PipelineInv'
    BY <2>1, <2>2, PipelineStep
  <2>5. ClockInv'
    BY <2>1, <2>2, ClockStep
  <2> QED BY <2>2, <2>3, <2>4, <2>5 DEF IInv
<1> QED BY <1>1, <1>2, PTL DEF Spec

\* Every variable keeps its type.
THEOREM TypeCorrect == Spec => []TypeOK
<1>1. IInv => TypeOK
  BY DEF IInv
<1> QED BY <1>1, Invariance, PTL

\* A trace of finished, successful work under a known mapping is never
\* refused before the clock has wrapped.
THEOREM CleanIsReplayed == Spec => []CleanTraceIsReplayed
<1>1. IInv => CleanTraceIsReplayed
  BY DEF IInv, PipelineInv
<1> QED BY <1>1, Invariance, PTL

-----------------------------------------------------------------------------
(* Which array the part held when: true until an erase fails.              *)

StateAt(j) == IF j = 0 THEN Source ELSE landed[j]

\* Whether the current command has had its effect.
Performed == IF Mutates(Current) = 1 /\ Taken = Span(Current) THEN 1 ELSE 0

LandedInv ==
    /\ asked # << >> => /\ asked[1].before = 0
                        /\ Len(landed) = Current.before + Performed
    /\ \A k \in 1 .. Len(asked) - 1 :
          asked[k + 1].before = asked[k].before + Mutates(asked[k])
    /\ \A k \in 1 .. Len(asked) :
          /\ asked[k].before <= Len(landed)
          /\ Mutates(asked[k]) = 1 /\ asked[k].before < Len(landed) =>
                landed[asked[k].before + 1]
                  = ApplyAccepted(StateAt(asked[k].before), asked[k])
    /\ array = StateAt(Len(landed))

MutationsBefore(i) ==
    IF i = 1 THEN 0 ELSE asked[i - 1].before + Mutates(asked[i - 1])

ReplayInv ==
    /\ stage \in {"record", "decode", "validate"} =>
          image = Source /\ mutations = 0
    /\ stage \in {"replay", "done"} =>
          /\ mutations = MutationsBefore(index)
          /\ mutations <= Len(landed)
          /\ image = StateAt(mutations)

LEMMA LandedInit == Init => LandedInv /\ ReplayInv
BY DEF Init, LandedInv, ReplayInv, StateAt

\* A command that is asked for starts from the array its predecessors left.
LEMMA LandedAsk ==
    ASSUME TypeOK, CalculatorInv, LandedInv, script = << >>, pending = << >>,
           NEW kind, NEW a, NEW v, NEW exit, Ask(kind, a, v, exit),
           UNCHANGED <<array, landed, pending>>,
           script' # << >>, TypeOK', Len(script') = Span(Current)'
    PROVE  LandedInv'
<1> DEFINE n == Len(asked)
           L == Len(landed)
<1>1. /\ n \in Nat /\ Len(asked') = n + 1 /\ asked'[n + 1].before = L
      /\ \A k \in 1 .. n : asked'[k] = asked[k]
      /\ Current' = asked'[n + 1] /\ asked' # << >> /\ L \in Nat
      /\ Len(landed') = L
  <2> DEFINE c == [kind |-> kind, addr |-> a, val |-> v, pc |-> exit,
                   from |-> Len(events) + 1, before |-> L]
  <2>1. asked' = Append(asked, c) /\ c.before = L
    BY DEF Ask
  <2> HIDE DEF c
  <2>2. /\ n \in Nat /\ Len(asked') = n + 1 /\ asked'[n + 1] = c
        /\ \A k \in 1 .. n : asked'[k] = asked[k]
    BY <2>1 DEF TypeOK
  <2> QED BY <2>1, <2>2 DEF TypeOK, Current
<1>2. asked # << >> => n \in 1 .. n /\ Current = asked[n]
  BY DEF TypeOK, Current
<1>3. n > 0 => L = asked[n].before + Mutates(asked[n])
  <2>1. SUFFICES ASSUME n > 0 PROVE L = asked[n].before + Mutates(asked[n])
    OBVIOUS
  <2>2. asked # << >>
    BY <2>1
  <2>3. Taken = Span(Current)
    BY <2>2, CurrentFacts DEF Taken, Waiting
  <2>4. Performed = Mutates(Current)
    BY <2>3 DEF Performed, Mutates
  <2> QED BY <1>2, <2>2, <2>4 DEF LandedInv
<1>4. n = 0 => L = 0
  <2>1. n = 0 => asked = << >>
    BY DEF TypeOK
  <2> QED BY <2>1 DEF CalculatorInv, Trail
<1>5. Performed' = 0
  <2>1. Taken' = 0
    <3>1. Span(Current)' \in {1, 4, 6}
      BY SpanType DEF Span
    <3>2. ~Waiting'
      BY DEF Waiting
    <3> QED BY <3>1, <3>2 DEF Taken
  <2>2. Span(Current)' # 0
    BY DEF Span
  <2> QED BY <2>1, <2>2 DEF Performed
<1>6. asked'[1].before = 0 /\ Len(landed') = Current'.before + Performed'
  <2>1. asked'[1].before = 0
    <3>1. CASE n = 0
      BY <1>1, <1>4, <3>1
    <3>2. CASE n > 0
      BY <1>1, <3>2 DEF LandedInv
    <3> QED BY <1>1, <3>1, <3>2
  <2> QED BY <1>1, <1>5, <2>1
<1>7. \A k \in 1 .. n :
          asked'[k + 1].before = asked'[k].before + Mutates(asked'[k])
  <2> SUFFICES ASSUME NEW k \in 1 .. n
               PROVE  asked'[k + 1].before = asked'[k].before + Mutates(asked'[k])
    OBVIOUS
  <2>1. CASE k = n
    BY <1>1, <1>3, <2>1
  <2>2. CASE k < n
    BY <1>1, <2>2 DEF LandedInv
  <2> QED BY <1>1, <2>1, <2>2
<1>8. \A k \in 1 .. n + 1 :
          /\ asked'[k].before <= L
          /\ Mutates(asked'[k]) = 1 /\ asked'[k].before < L =>
                landed[asked'[k].before + 1]
                  = ApplyAccepted(StateAt(asked'[k].before), asked'[k])
  <2> SUFFICES ASSUME NEW k \in 1 .. n + 1
               PROVE  /\ asked'[k].before <= L
                      /\ Mutates(asked'[k]) = 1 /\ asked'[k].before < L =>
                            landed[asked'[k].before + 1]
                              = ApplyAccepted(StateAt(asked'[k].before), asked'[k])
    OBVIOUS
  <2>1. CASE k = n + 1
    BY <1>1, <2>1
  <2>2. CASE k \in 1 .. n
    BY <1>1, <2>2 DEF LandedInv
  <2> QED BY <1>1, <2>1, <2>2
<1>9. array' = StateAt(Len(landed))'
  BY DEF LandedInv, StateAt
<1>10. \A k \in 1 .. Len(asked') - 1 :
           asked'[k + 1].before = asked'[k].before + Mutates(asked'[k])
  BY <1>1, <1>7
<1>11. \A k \in 1 .. Len(asked') :
           /\ asked'[k].before <= Len(landed')
           /\ Mutates(asked'[k]) = 1 /\ asked'[k].before < Len(landed') =>
                 landed'[asked'[k].before + 1]
                   = ApplyAccepted(StateAt(asked[k].before), asked[k])'
  BY <1>1, <1>8 DEF StateAt, ApplyAccepted, AfterProgram, AfterErase
<1> QED BY <1>6, <1>9, <1>10, <1>11 DEF LandedInv, Mutates

\* A step that neither mutates nor starts a command.
LEMMA LandedFrame ==
    ASSUME LandedInv, UNCHANGED <<array, landed, asked>>,
           asked # << >> => Performed' = Performed
    PROVE  LandedInv'
<1>1. Current' = Current
  BY DEF Current
<1>2. asked' # << >> => /\ asked'[1].before = 0
                        /\ Len(landed') = Current'.before + Performed'
  BY <1>1 DEF LandedInv
<1>3. \A k \in 1 .. Len(asked') - 1 :
           asked'[k + 1].before = asked'[k].before + Mutates(asked[k])'
  BY DEF LandedInv, Mutates
<1>4. \A k \in 1 .. Len(asked') :
           /\ asked'[k].before <= Len(landed')
           /\ Mutates(asked[k])' = 1 /\ asked'[k].before < Len(landed') =>
                 landed'[asked'[k].before + 1]
                   = ApplyAccepted(StateAt(asked[k].before), asked[k])'
  <2>1. \A j : StateAt(j)' = StateAt(j)
    BY DEF StateAt
  <2> SUFFICES ASSUME NEW k \in 1 .. Len(asked)
               PROVE  /\ asked[k].before <= Len(landed)
                      /\ Mutates(asked[k]) = 1 /\ asked[k].before < Len(landed)
                           => landed[asked[k].before + 1]
                                = ApplyAccepted(StateAt(asked[k].before), asked[k])
    BY <2>1 DEF Mutates, ApplyAccepted, AfterProgram, AfterErase
  <2> QED BY DEF LandedInv
<1>5. array' = StateAt(Len(landed))'
  BY DEF LandedInv, StateAt
<1> QED BY <1>2, <1>3, <1>4, <1>5 DEF LandedInv

\* The cycle that performs a command makes the array its effect.
LEMMA CycleEffect ==
    ASSUME NEW c \in Asked, NEW d \in 0 .. 5, NEW w, d < Span(c),
           c.kind = "sector_erase" => c.val = x30 /\ chip' # "error",
           w.addr = CycleAddr(c, d + 1), w.val = CycleVal(c, d + 1),
           ChipFits(chip, c, d), ChipCycle(w)
    PROVE  /\ d + 1 = Span(c) /\ Mutates(c) = 1 =>
                 /\ array' = ApplyAccepted(array, c)
                 /\ landed' = Append(landed, array')
           /\ ~(d + 1 = Span(c) /\ Mutates(c) = 1) =>
                 UNCHANGED <<array, landed>>
<1>1. c.kind \in {"sector_erase", "byte_program", "array_reset"}
  BY DEF Asked
<1>2. CASE c.kind = "array_reset"
  <2>1. d = 0 /\ Mutates(c) = 0
    BY <1>2 DEF Span, Mutates
  <2>2. chip # "program" /\ chip # "erase3"
    BY <1>2, <2>1 DEF ChipFits
  <2> QED BY <2>1, <2>2 DEF ChipCycle
<1>3. CASE c.kind = "byte_program"
  <2>1. Span(c) = 4 /\ Mutates(c) = 1
    BY <1>3 DEF Span, Mutates
  <2>2. CASE d = 3
    <3>1. chip = "program" /\ w.addr = c.addr /\ w.val = c.val
      BY <1>3, <2>1, <2>2 DEF ChipFits, CycleAddr, CycleVal
    <3>2. /\ array' = AfterProgram(array, w.addr, w.val)
          /\ landed' = Append(landed, array')
      BY <3>1 DEF ChipCycle
    <3> QED BY <1>3, <2>1, <2>2, <3>1, <3>2, ApplyProgram
  <2>3. CASE d # 3
    <3>1. d = 0 \/ d = 1 \/ d = 2
      BY <2>1, <2>3
    <3>2. chip # "program" /\ chip # "erase3"
      BY <1>3, <3>1 DEF ChipFits
    <3> QED BY <2>1, <3>1, <3>2 DEF ChipCycle
  <2> QED BY <2>2, <2>3
<1>4. CASE c.kind = "sector_erase"
  <2>1. Span(c) = 6 /\ Mutates(c) = 1 /\ c.val = x30
    BY <1>4 DEF Span, Mutates
  <2>2. CASE d = 5
    <3>1. chip = "erase3" /\ w.addr = c.addr /\ w.val = x30
      BY <1>4, <2>1, <2>2 DEF ChipFits, CycleAddr, CycleVal
    <3>2. /\ array' = AfterErase(array, sectorOf[w.addr])
          /\ landed' = Append(landed, array')
      BY <1>4, <3>1 DEF ChipCycle
    <3> QED BY <1>4, <2>1, <2>2, <3>1, <3>2, ApplyErase
  <2>3. CASE d # 5
    <3>1. d = 0 \/ d = 1 \/ d = 2 \/ d = 3 \/ d = 4
      BY <2>1, <2>3
    <3>2. chip # "program" /\ chip # "erase3"
      BY <1>4, <3>1 DEF ChipFits
    <3> QED BY <2>1, <3>1, <3>2 DEF ChipCycle
  <2> QED BY <2>2, <2>3
<1> QED BY <1>1, <1>2, <1>3, <1>4

LEMMA LandedBusWrite ==
    ASSUME TypeOK, TypeOK', CalculatorInv, LandedInv, ~EraseFailed', BusWrite
    PROVE  LandedInv'
<1> DEFINE c == Current
           d == Span(c) - Len(script)
           w == script[1]
           n == Len(asked)
           L == Len(landed)
<1>1. /\ script # << >> /\ pending = << >> /\ asked # << >>
      /\ ChipCycle(w) /\ pending'[1].kind = "flash" /\ pending' # << >>
      /\ UNCHANGED <<script, asked>>
      /\ Len(script) \in Nat /\ Len(script) >= 1
      /\ n \in Nat /\ n >= 1 /\ L \in Nat /\ c = asked[n]
  BY CurrentFacts DEF BusWrite, Recording, TypeOK, Current
<1>2. /\ c \in Asked /\ Span(c) \in {1, 4, 6} /\ Len(script) <= Span(c)
      /\ c.kind = "sector_erase" => c.val = x30
  BY <1>1, CurrentFacts DEF CalculatorInv, Trail
<1>3. d \in 0 .. 5 /\ d < Span(c)
  BY <1>1, <1>2
<1>4. w.addr = CycleAddr(c, d + 1) /\ w.val = CycleVal(c, d + 1)
  BY <1>1, <1>2 DEF CalculatorInv, Scripted
<1>5. Taken = d /\ Taken' = d + 1 /\ ChipFits(chip, c, d)
  <2>1. ~Waiting /\ Waiting'
    BY <1>1 DEF Waiting
  <2>2. Current' = Current /\ Span(Current)' = Span(Current)
    BY <1>1 DEF Current, Span
  <2>3. Taken = d /\ Taken' = d + 1
    BY <1>1, <1>3, <2>1, <2>2 DEF Taken
  <2> QED BY <1>1, <2>3 DEF CalculatorInv, ChipInv
<1>6. Performed = 0 /\ L = c.before
  <2>1. Performed = 0
    BY <1>3, <1>5 DEF Performed
  <2>2. c.before \in Nat
    BY <1>1, AskedFacts
  <2> QED BY <1>1, <2>1, <2>2 DEF LandedInv
<1>7. Current' = c /\ (Performed' = IF Mutates(c) = 1 /\ d + 1 = Span(c)
                                   THEN 1 ELSE 0)
  <2>1. Current' = Current /\ Span(Current)' = Span(Current)
        /\ Mutates(Current)' = Mutates(Current)
    BY <1>1 DEF Current, Span, Mutates
  <2> QED BY <1>5, <2>1 DEF Performed
<1>8. /\ d + 1 = Span(c) /\ Mutates(c) = 1 =>
            /\ array' = ApplyAccepted(array, c)
            /\ landed' = Append(landed, array')
      /\ ~(d + 1 = Span(c) /\ Mutates(c) = 1) =>
            UNCHANGED <<array, landed>>
  <2>1. ChipFits(chip, c, d) /\ ChipCycle(w)
    BY <1>1, <1>5
  <2>2. c.kind = "sector_erase" => chip' # "error"
    <3>1. c.kind = "sector_erase" => worker.at = "erase"
      BY <1>1 DEF CalculatorInv, WorkerInv, TypeOK, Worker
    <3>2. worker' = worker
      BY DEF BusWrite
    <3> QED BY <3>1, <3>2 DEF EraseFailed
  <2> HIDE DEF c, d, w
  <2> QED BY <1>2, <1>3, <1>4, <2>1, <2>2, CycleEffect
<1>9. CASE ~(d + 1 = Span(c) /\ Mutates(c) = 1)
  <2>1. UNCHANGED <<array, landed, asked>> /\ Performed' = Performed
    BY <1>1, <1>6, <1>7, <1>8, <1>9
  <2> QED BY <2>1, LandedFrame
<1>10. CASE d + 1 = Span(c) /\ Mutates(c) = 1
  <2> DEFINE After(j) == IF j = 0 THEN Source ELSE landed'[j]
  <2>1. /\ array' = ApplyAccepted(array, c) /\ Performed' = 1
        /\ landed' = Append(landed, array')
    BY <1>7, <1>8, <1>10
  <2>2. /\ Len(landed') = L + 1 /\ landed'[L + 1] = array'
        /\ \A j \in 1 .. L : landed'[j] = landed[j]
    BY <2>1 DEF TypeOK
  <2>3. \A j \in 0 .. L : After(j) = StateAt(j)
    BY <1>1, <2>2 DEF StateAt
  <2>4. /\ asked'[1].before = 0
        /\ Len(landed') = Current'.before + Performed'
    BY <1>1, <1>6, <1>7, <2>1, <2>2 DEF LandedInv
  <2>5. \A k \in 1 .. n - 1 :
            /\ asked[k].before \in Nat
            /\ asked[k].before + Mutates(asked[k]) <= L
    <3> SUFFICES ASSUME NEW k \in 1 .. n - 1
                 PROVE  /\ asked[k].before \in Nat
                        /\ asked[k].before + Mutates(asked[k]) <= L
      OBVIOUS
    <3>1. k \in 1 .. n /\ k + 1 \in 1 .. n
      BY <1>1
    <3>2. asked[k + 1].before <= L
      BY <3>1 DEF LandedInv
    <3>3. asked[k + 1].before = asked[k].before + Mutates(asked[k])
      BY DEF LandedInv
    <3> QED BY <3>1, <3>2, <3>3, AskedFacts
  <2>6. \A k \in 1 .. n :
            /\ asked[k].before <= L + 1
            /\ Mutates(asked[k]) = 1 /\ asked[k].before < L + 1 =>
                  landed'[asked[k].before + 1]
                    = ApplyAccepted(After(asked[k].before), asked[k])
    <3> SUFFICES ASSUME NEW k \in 1 .. n
                 PROVE  /\ asked[k].before <= L + 1
                        /\ Mutates(asked[k]) = 1 /\ asked[k].before < L + 1 =>
                              landed'[asked[k].before + 1]
                                = ApplyAccepted(After(asked[k].before), asked[k])
      OBVIOUS
    <3>1. CASE k = n
      <4>1. asked[k] = c /\ asked[k].before = L
        BY <1>1, <1>6, <3>1
      <4>2. After(L) = array
        BY <1>1, <2>3 DEF LandedInv
      <4>3. After(asked[k].before) = array
        BY <4>1, <4>2
      <4> QED BY <1>1, <2>1, <2>2, <4>1, <4>3
    <3>2. CASE k < n
      <4>1. k \in 1 .. n - 1
        BY <1>1, <3>2
      <4>2. asked[k].before \in Nat /\ asked[k].before + Mutates(asked[k]) <= L
        BY <2>5, <4>1
      <4>3. ASSUME Mutates(asked[k]) = 1
            PROVE  landed'[asked[k].before + 1]
                     = ApplyAccepted(After(asked[k].before), asked[k])
        <5>1. asked[k].before + 1 \in 1 .. L /\ asked[k].before \in 0 .. L
              /\ asked[k].before < L
          BY <1>1, <4>2, <4>3
        <5>2. landed[asked[k].before + 1]
                = ApplyAccepted(StateAt(asked[k].before), asked[k])
          BY <4>3, <5>1 DEF LandedInv
        <5>3. After(asked[k].before) = StateAt(asked[k].before)
          BY <2>3, <5>1
        <5> QED BY <2>2, <5>1, <5>2, <5>3
      <4>4. asked[k].before <= L + 1
        BY <1>1, <4>2 DEF Mutates
      <4> QED BY <4>3, <4>4
    <3> QED BY <1>1, <3>1, <3>2
  <2>7. array' = StateAt(Len(landed))'
    BY <1>1, <2>2 DEF StateAt
  <2>8. \A k \in 1 .. Len(asked') - 1 :
            asked'[k + 1].before = asked'[k].before + Mutates(asked[k])'
    BY <1>1 DEF LandedInv, Mutates
  <2>9. \A k \in 1 .. Len(asked') :
            /\ asked'[k].before <= Len(landed')
            /\ Mutates(asked[k])' = 1 /\ asked'[k].before < Len(landed') =>
                  landed'[asked'[k].before + 1]
                    = ApplyAccepted(StateAt(asked[k].before), asked[k])'
    <3>1. \A k \in 1 .. n : StateAt(asked[k].before)' = After(asked[k].before)
      BY <1>1 DEF StateAt
    <3>2. \A k \in 1 .. n : Mutates(asked[k])' = Mutates(asked[k])
      BY <1>1 DEF Mutates
    <3>3. \A k \in 1 .. n : ApplyAccepted(StateAt(asked[k].before), asked[k])'
              = ApplyAccepted(After(asked[k].before), asked[k])
      BY <1>1, <3>1 DEF ApplyAccepted
    <3>4. Len(asked') = n /\ Len(landed') = L + 1
          /\ \A k \in 1 .. n : asked'[k].before = asked[k].before
      BY <1>1, <2>2
    <3> QED BY <2>6, <3>2, <3>3, <3>4
  <2> QED BY <2>4, <2>7, <2>8, <2>9 DEF LandedInv
<1> QED BY <1>9, <1>10

LEMMA LandedStep ==
    ASSUME TypeOK, TypeOK', CalculatorInv, CalculatorInv', LandedInv,
           ~EraseFailed', [Next]_vars
    PROVE  LandedInv'
<1> USE DEF calculator, recorder, pipeline
<1>1. ASSUME NEW kind, NEW a, NEW v, NEW exit, Ask(kind, a, v, exit),
             Recording, script = << >>,
             UNCHANGED <<array, landed, recorder>>
      PROVE  LandedInv'
  <2> DEFINE c == [kind |-> kind, addr |-> a, val |-> v, pc |-> exit,
                   from |-> Len(events) + 1, before |-> Len(landed)]
  <2>1. asked' = Append(asked, c) /\ c.from = Len(events) + 1
    BY <1>1 DEF Ask
  <2> HIDE DEF c
  <2>2. asked' # << >> /\ Current' = c
    <3>1. /\ Len(asked) \in Nat /\ Len(asked') = Len(asked) + 1
          /\ asked'[Len(asked) + 1] = c
      BY <2>1 DEF TypeOK
    <3> QED BY <3>1 DEF Current
  <2>3. Len(events') + Len(script') + 1 = Current'.from + Span(Current)'
    BY <2>2 DEF CalculatorInv, Trail
  <2>4. Len(script') = Span(Current)'
    <3>1. Span(Current)' \in {1, 4, 6}
      BY SpanType DEF Span
    <3>2. Len(events') = Len(events) /\ Len(events) \in Nat
          /\ Len(script') \in Nat
      BY <1>1 DEF TypeOK
    <3> QED BY <2>1, <2>2, <2>3, <3>1, <3>2
  <2>5. script' # << >>
    <3>1. Span(Current)' \in {1, 4, 6}
      BY SpanType DEF Span
    <3> QED BY <2>4, <3>1
  <2> QED BY <1>1, <2>4, <2>5, LandedAsk DEF Recording
<1>2. ASSUME UNCHANGED <<array, landed, asked>>, Taken' = Taken
      PROVE  LandedInv'
  <2>1. Performed' = Performed
    BY <1>2 DEF Performed, Current, Mutates, Span
  <2> QED BY <1>2, <2>1, LandedFrame
<1>3. ASSUME UNCHANGED <<array, landed, asked, script, pending>>
      PROVE  LandedInv'
  <2>1. Taken' = Taken
    BY <1>3 DEF Taken, Waiting, Current, Span
  <2> QED BY <1>2, <1>3, <2>1
<1>4. ASSUME NEW r \in Requests, StartProgram(r[1], r[2]) PROVE LandedInv'
  BY <1>1, <1>4 DEF StartProgram
<1>5. ASSUME NEW a \in EraseTargets, StartErase(a) PROVE LandedInv'
  BY <1>1, <1>5 DEF StartErase
<1>6. ASSUME NEW exit \in {"success", "failure"}, EndBlock(exit)
      PROVE  LandedInv'
  BY <1>1, <1>6 DEF EndBlock
<1>7. CASE EndErase
  <2>1. ASSUME NEW de \in Addr, Ask("array_reset", de, xF0, "failure")
        PROVE  LandedInv'
    BY <1>1, <1>7, <2>1 DEF EndErase
  <2>2. CASE UNCHANGED <<script, failures, asked>>
    BY <1>3, <1>7, <2>2 DEF EndErase
  <2> QED BY <1>7, <2>1, <2>2 DEF EndErase
<1>8. CASE EndReset
  BY <1>3, <1>8 DEF EndReset
<1>9. CASE BusWrite
  BY <1>9, LandedBusWrite
<1>10. CASE RamWrite(Erased)
  <2>1. ~Waiting /\ ~Waiting'
    BY <1>10 DEF RamWrite, Recording, Waiting
  <2>2. UNCHANGED <<array, landed, asked, script>>
    BY <1>10 DEF RamWrite
  <2>3. Taken' = Taken
    BY <2>1, <2>2 DEF Taken, Current, Span
  <2> QED BY <1>2, <2>2, <2>3
<1>11. CASE InstructionRecord
  <2>1. /\ pending # << >> /\ pending' = << >> /\ script # << >>
        /\ Head(pending) = pending[1] /\ asked # << >>
        /\ UNCHANGED <<array, landed, asked>>
    BY <1>11, CurrentFacts DEF InstructionRecord, CalculatorInv, Buffered,
       TypeOK
  <2>2. Current' = Current /\ Span(Current)' = Span(Current)
        /\ Span(Current) \in {1, 4, 6}
    BY <2>1, SpanType DEF Current, Span
  <2>3. ~Waiting'
    BY <2>1 DEF Waiting
  <2>4. CASE Head(pending).kind = "flash"
    <3>1. Waiting
      BY <2>1, <2>4 DEF Waiting
    <3>2. script' = Tail(script)
      BY <1>11, <2>4 DEF InstructionRecord
    <3>3. Len(script') = Len(script) - 1 /\ Len(script) \in Nat
      BY <2>1, <3>2 DEF TypeOK
    <3>4. Taken' = Taken
      BY <2>2, <2>3, <3>1, <3>3 DEF Taken
    <3> QED BY <1>2, <2>1, <3>4
  <2>5. CASE Head(pending).kind # "flash"
    <3>1. ~Waiting
      BY <2>1, <2>5 DEF Waiting
    <3>2. script' = script
      BY <1>11, <2>5 DEF InstructionRecord
    <3>3. Taken' = Taken
      BY <2>2, <2>3, <3>1, <3>2 DEF Taken
    <3> QED BY <1>2, <2>1, <3>3
  <2> QED BY <2>4, <2>5
<1>12. CASE SelectPage \/ TimePasses \/ CutTrace \/ Pipeline \/ UNCHANGED vars
  <2>1. UNCHANGED <<calculator, pending, events>>
    BY <1>12 DEF SelectPage, TimePasses, CutTrace, Pipeline, DecodeErase, DecodeProgram,
       DecodeSingle, EndDecode, Validate, ReplayCommand, RefuseCommand, EndReplay, vars
  <2> QED BY <1>3, <2>1
<1> QED
  BY <1>4, <1>5, <1>6, <1>7, <1>8, <1>9, <1>10, <1>11, <1>12
  DEF Next, Calculator

\* Whatever is not half way through the script has had its effect.
LEMMA Finished ==
    ASSUME TypeOK, CalculatorInv, LandedInv, asked # << >>, script = << >>
    PROVE  Len(landed) = Current.before + Mutates(Current)
<1>1. ~Waiting
  BY DEF CalculatorInv, Buffered, Waiting
<1>2. Span(Current) \in {1, 4, 6}
  BY SpanType
<1>3. Taken = Span(Current)
  BY <1>1, <1>2 DEF Taken
<1>4. Performed = Mutates(Current)
  BY <1>3 DEF Performed, Mutates
<1> QED BY <1>4 DEF LandedInv

\* Each command starts from the mutations of those before it.
LEMMA BeforeCommand ==
    ASSUME TypeOK, CalculatorInv, LandedInv, NEW k \in 1 .. Len(asked)
    PROVE  MutationsBefore(k) = asked[k].before
<1>1. Len(asked) \in Nat /\ asked # << >>
  BY DEF TypeOK
<1>2. CASE k = 1
  BY <1>1, <1>2 DEF MutationsBefore, LandedInv
<1>3. CASE k > 1
  <2>1. k - 1 \in 1 .. Len(asked) - 1 /\ k - 1 + 1 = k /\ k # 1
    BY <1>1, <1>3
  <2>2. asked[k - 1 + 1].before = asked[k - 1].before + Mutates(asked[k - 1])
    BY <2>1 DEF LandedInv
  <2> QED BY <2>1, <2>2 DEF MutationsBefore
<1> QED BY <1>1, <1>2, <1>3

\* The part has performed what the decoder found.
LEMMA DecodedLanded ==
    ASSUME TypeOK, CalculatorInv, LandedInv, AllDecoded,
           NEW k \in 1 .. Len(commands)
    PROVE  /\ k \in 1 .. Len(asked)
           /\ asked[k].before + Mutates(asked[k]) <= Len(landed)
<1>1. /\ Len(asked) \in Nat /\ Len(commands) \in Nat
      /\ Len(commands) <= Len(asked) /\ Len(landed) \in Nat
  BY DEF TypeOK, AllDecoded, Faithful
<1>2. k \in 1 .. Len(asked) /\ asked # << >>
  BY <1>1
<1>3. CASE k < Len(asked)
  <2>1. k \in 1 .. Len(asked) - 1 /\ k + 1 \in 1 .. Len(asked)
    BY <1>1, <1>3
  <2>2. asked[k + 1].before = asked[k].before + Mutates(asked[k])
    BY <2>1 DEF LandedInv
  <2>3. asked[k + 1].before <= Len(landed)
    BY <2>1 DEF LandedInv
  <2> QED BY <1>2, <2>2, <2>3
<1>4. CASE k = Len(asked)
  <2>1. script = << >>
    BY <1>1, <1>2, <1>4, DecodedAll
  <2>2. Len(landed) = Current.before + Mutates(Current) /\ Current = asked[k]
    BY <1>2, <1>4, <2>1, Finished DEF Current
  <2> QED BY <1>1, <1>2, <2>2
<1> QED BY <1>1, <1>2, <1>3, <1>4

LEMMA ReplayStep ==
    ASSUME TypeOK, CalculatorInv, PipelineInv, LandedInv, ReplayInv,
           [Next]_vars
    PROVE  ReplayInv'
<1> USE DEF calculator, recorder, pipeline
<1>1. CASE Calculator
  <2>1. stage = "record" /\ UNCHANGED pipeline
    BY <1>1 DEF Calculator, StartProgram, StartErase, EndBlock, EndErase,
       EndReset, BusWrite, RamWrite, SelectPage, TimePasses, InstructionRecord, Recording
  <2> QED BY <2>1 DEF ReplayInv
<1>2. CASE CutTrace
  BY <1>2 DEF CutTrace, ReplayInv
<1>3. CASE DecodeErase \/ DecodeProgram \/ DecodeSingle
  <2>1. stage = "decode" /\ UNCHANGED <<stage, image, mutations>>
    BY <1>3 DEF DecodeErase, DecodeProgram, DecodeSingle, Decoding
  <2> QED BY <2>1 DEF ReplayInv
<1>4. CASE EndDecode
  BY <1>4 DEF EndDecode, ReplayInv
<1>5. CASE Validate
  <2>1. /\ image = Source /\ mutations = 0 /\ index' = 1
        /\ stage' \in {"replay", "refused"} /\ Len(landed) \in Nat
        /\ UNCHANGED <<landed, image, mutations>>
    BY <1>5 DEF Validate, ReplayInv, TypeOK
  <2> QED BY <2>1 DEF ReplayInv, MutationsBefore, StateAt
<1>6. CASE ReplayCommand
  <2> DEFINE a == asked[index]
             c == commands[index]
  <2>1. /\ stage = "replay" /\ index <= Len(commands) /\ index' = index + 1
        /\ AllDecoded /\ index \in 1 .. Len(commands) /\ index \in Nat
        /\ UNCHANGED <<asked, landed>> /\ Len(landed) \in Nat
        /\ mutations \in Nat
        /\ image' = ApplyAccepted(image, c)
        /\ mutations' = IF c.kind \in {"byte_program", "sector_erase"}
                        THEN mutations + 1 ELSE mutations
    BY <1>6 DEF ReplayCommand, PipelineInv, TypeOK
  <2>2. /\ index \in 1 .. Len(asked)
        /\ a.before + Mutates(a) <= Len(landed)
    BY <2>1, DecodedLanded
  <2>3. a.kind \in {"sector_erase", "byte_program", "array_reset"}
        /\ a.before \in Nat
    BY <2>2, AskedFacts
  <2>4. c.kind = a.kind /\ c.addr = a.addr /\ c.val = a.val
    BY <2>1 DEF AllDecoded, Faithful
  <2>5. mutations = a.before /\ image = StateAt(a.before)
    <3>1. MutationsBefore(index) = a.before
      BY <2>2, BeforeCommand
    <3> QED BY <2>1, <3>1 DEF ReplayInv
  <2>6. mutations' = a.before + Mutates(a)
    BY <2>1, <2>3, <2>4, <2>5 DEF Mutates
  <2>7. ApplyAccepted(image, c) = ApplyAccepted(image, a)
    <3> HIDE DEF a, c
    <3>1. CASE a.kind = "byte_program"
      BY <2>4, <3>1, ApplyProgram
    <3>2. CASE a.kind = "sector_erase"
      BY <2>4, <3>2, ApplyErase
    <3>3. CASE a.kind = "array_reset"
      BY <2>4, <3>3, ApplyReset
    <3> QED BY <2>3, <3>1, <3>2, <3>3
  <2>8. image' = StateAt(a.before + Mutates(a))
    <3>1. CASE Mutates(a) = 1
      <4>1. a.before < Len(landed)
        BY <2>1, <2>2, <2>3, <3>1
      <4>2. landed[a.before + 1] = ApplyAccepted(StateAt(a.before), a)
        BY <2>2, <3>1, <4>1 DEF LandedInv
      <4>3. StateAt(a.before + 1) = landed[a.before + 1]
        BY <2>3 DEF StateAt
      <4> QED BY <2>1, <2>5, <2>7, <3>1, <4>2, <4>3
    <3>2. CASE Mutates(a) # 1
      <4>1. a.kind = "array_reset" /\ Mutates(a) = 0
        BY <3>2 DEF Mutates
      <4>2. ApplyAccepted(image, a) = image
        BY <4>1, ApplyReset
      <4> QED BY <2>1, <2>3, <2>5, <2>7, <4>1, <4>2
    <3> QED BY <3>1, <3>2
  <2>9. MutationsBefore(index)' = a.before + Mutates(a)
    <3>1. index' # 1 /\ index' - 1 = index
      BY <2>1
    <3> QED BY <2>1, <3>1 DEF MutationsBefore, Mutates
  <2>10. StateAt(mutations)' = StateAt(a.before + Mutates(a))
    BY <2>1, <2>6 DEF StateAt
  <2>11. /\ mutations' = MutationsBefore(index)'
         /\ mutations' <= Len(landed')
         /\ image' = StateAt(mutations)'
    BY <2>1, <2>2, <2>6, <2>8, <2>9, <2>10
  <2>12. stage' = "replay"
    BY <1>6, <2>1 DEF ReplayCommand
  <2> QED BY <2>11, <2>12 DEF ReplayInv
<1>9. CASE RefuseCommand
  BY <1>9 DEF RefuseCommand, ReplayInv
<1>7. CASE EndReplay
  BY <1>7 DEF EndReplay, ReplayInv, MutationsBefore, Mutates, StateAt
<1>8. CASE UNCHANGED vars
  BY <1>8 DEF vars, ReplayInv, MutationsBefore, Mutates, StateAt
<1> QED
  BY <1>1, <1>2, <1>3, <1>4, <1>5, <1>6, <1>7, <1>8, <1>9 DEF Next, Pipeline

\* At the end of the replay no mutation is missing.
LEMMA AllReplayed ==
    ASSUME TypeOK, CalculatorInv, PipelineInv, LandedInv, ReplayInv,
           stage = "done"
    PROVE  mutations = Len(landed)
<1>1. /\ AllDecoded /\ index = Len(commands) + 1
      /\ Len(commands) \in Nat /\ Len(asked) \in Nat
      /\ Len(commands) <= Len(asked)
      /\ mutations = MutationsBefore(Len(commands) + 1)
  BY DEF PipelineInv, ReplayInv, TypeOK, AllDecoded, Faithful
<1>2. CASE asked = << >>
  <2>1. Len(commands) = 0 /\ Len(landed) = 0
    BY <1>1, <1>2 DEF CalculatorInv, Trail
  <2> QED BY <1>1, <2>1 DEF MutationsBefore
<1>3. CASE asked # << >> /\ Len(commands) = Len(asked) /\ script = << >>
  <2>1. Len(landed) = Current.before + Mutates(Current)
    BY <1>3, Finished
  <2>2. Len(commands) + 1 # 1 /\ Len(commands) + 1 - 1 = Len(asked)
    BY <1>1, <1>3
  <2> QED BY <1>1, <2>1, <2>2 DEF MutationsBefore, Current
<1>4. CASE /\ asked # << >> /\ Len(commands) = Len(asked) - 1
           /\ Len(script) = Span(Current)
  <2>1. Len(commands) + 1 = Len(asked) /\ Len(asked) \in 1 .. Len(asked)
    BY <1>1, <1>4
  <2>2. mutations = Current.before /\ Current.before \in Nat
    BY <1>1, <2>1, BeforeCommand, AskedFacts DEF Current
  <2>3. Performed = 0
    <3>1. Taken \in {0, 1}
      BY <1>4, SpanType DEF Taken
    <3>2. Mutates(Current) = 1 => Span(Current) # 1
      <4>1. Current.kind \in {"sector_erase", "byte_program", "array_reset"}
        BY <2>1, AskedFacts DEF Current
      <4> QED BY <4>1 DEF Mutates, Span
    <3>3. Span(Current) \in {1, 4, 6}
      BY SpanType
    <3> QED BY <3>1, <3>2, <3>3 DEF Performed
  <2> QED BY <1>4, <2>2, <2>3 DEF LandedInv
<1> QED BY <1>1, <1>2, <1>3, <1>4, DecodedAll

-----------------------------------------------------------------------------
(* From the first erase that fails, the trace no longer tells what the     *)
(* part holds; until then every state satisfies both halves.               *)

LEMMA FailureStays ==
    ASSUME TypeOK, CalculatorInv, [Next]_vars, EraseFailed
    PROVE  EraseFailed'
<1> USE DEF calculator, recorder, pipeline
<1>1. CASE "erase" \in failures
  <2>1. failures \subseteq failures'
    BY DEF Next, Calculator, StartProgram, StartErase, EndBlock, EndErase,
       EndReset, BusWrite, RamWrite, SelectPage, TimePasses, InstructionRecord, CutTrace,
       Pipeline, DecodeErase, DecodeProgram, DecodeSingle, EndDecode, Validate,
       ReplayCommand, RefuseCommand, EndReplay, vars
  <2> QED BY <1>1, <2>1 DEF EraseFailed
<1>2. CASE worker.at = "erase" /\ chip = "error"
  <2>1. ~BusWrite
    <3>1. SUFFICES ASSUME BusWrite PROVE FALSE
      OBVIOUS
    <3>2. /\ script # << >> /\ pending = << >> /\ asked # << >>
          /\ Len(script) \in Nat /\ Len(script) >= 1
          /\ Len(script) <= Span(Current)
      BY <3>1, CurrentFacts DEF BusWrite, Recording, TypeOK, CalculatorInv,
         Trail
    <3>3. Current.kind = "sector_erase" /\ Span(Current) = 6
      BY <1>2, <3>2 DEF CalculatorInv, WorkerInv, Span
    <3>4. Taken \in 0 .. 5
      <4>1. ~Waiting
        BY <3>2 DEF Waiting
      <4> DEFINE m == Len(script)
      <4>2. Taken = 6 - m
        BY <3>2, <3>3, <4>1 DEF Taken
      <4>3. m \in Nat /\ m >= 1 /\ m <= 6
        BY <3>2, <3>3
      <4> HIDE DEF m
      <4> QED BY <4>2, <4>3
    <3> QED BY <1>2, <3>2, <3>3, <3>4 DEF CalculatorInv, ChipInv, ChipFits
  <2>2. CASE EndErase
    BY <1>2, <2>2 DEF EndErase, EraseFailed
  <2>3. CASE \/ RamWrite(Erased) \/ SelectPage \/ TimePasses \/ InstructionRecord \/ CutTrace
             \/ Pipeline \/ UNCHANGED vars
    <3>1. UNCHANGED <<worker, chip>>
      BY <2>3 DEF RamWrite, SelectPage, TimePasses, InstructionRecord, CutTrace,
         Pipeline, DecodeErase, DecodeProgram, DecodeSingle, EndDecode,
         Validate, ReplayCommand, RefuseCommand, EndReplay, vars
    <3> QED BY <1>2, <3>1 DEF EraseFailed
  <2>4. /\ \A r \in Requests : ~StartProgram(r[1], r[2])
        /\ \A a \in EraseTargets : ~StartErase(a)
        /\ \A exit \in {"success", "failure"} : ~EndBlock(exit)
        /\ ~EndReset
    BY <1>2 DEF StartProgram, StartErase, EndBlock, EndReset
  <2> QED BY <2>1, <2>2, <2>3, <2>4 DEF Next, Calculator
<1> QED BY <1>1, <1>2 DEF EraseFailed

\* Only a part whose erases may fail gets there.
LEMMA NeverFails ==
    ASSUME ~EraseMayFail
    PROVE  Spec => []~EraseFailed
<1> DEFINE Erases == "erase" \notin failures
<1>1. IInv /\ worker.at = "erase" => chip # "error" \/ script # << >>
  <2> SUFFICES ASSUME IInv, worker.at = "erase", script = << >>
               PROVE  chip # "error"
    OBVIOUS
  <2>1. /\ asked # << >> /\ Current.kind = "sector_erase"
        /\ Span(Current) = 6
    BY DEF IInv, CalculatorInv, WorkerInv, Trail, Span
  <2>2. Taken = 6
    BY <2>1 DEF Taken, Waiting, IInv, CalculatorInv, Buffered
  <2> QED BY <2>1, <2>2 DEF IInv, CalculatorInv, ChipInv, ChipFits
<1>2. Init => Erases
  BY DEF Init
<1>3. IInv /\ Erases /\ [Next]_vars => Erases'
  <2> SUFFICES ASSUME IInv, Erases, [Next]_vars PROVE Erases'
    OBVIOUS
  <2>1. CASE EndErase
    BY <1>1, <2>1 DEF EndErase
  <2>2. ASSUME NEW exit, EndBlock(exit) PROVE Erases'
    BY <2>2 DEF EndBlock
  <2>3. CASE failures' = failures
    BY <2>3
  <2> QED
    BY <2>1, <2>2, <2>3 DEF Next, Calculator, StartProgram, StartErase,
       EndReset, BusWrite, RamWrite, SelectPage, TimePasses, InstructionRecord, CutTrace,
       Pipeline, DecodeErase, DecodeProgram, DecodeSingle, EndDecode, Validate,
       ReplayCommand, RefuseCommand, EndReplay, vars, calculator, recorder, pipeline
<1>4. IInv /\ Erases => ~EraseFailed
  <2> SUFFICES ASSUME IInv, Erases, worker.at = "erase", chip = "error"
               PROVE  FALSE
    BY DEF EraseFailed
  <2>1. /\ asked # << >> /\ Current.kind = "sector_erase"
        /\ Span(Current) = 6 /\ Len(script) \in Nat /\ Len(script) <= 6
    BY DEF IInv, CalculatorInv, WorkerInv, Trail, Span, TypeOK
  <2>2. Taken = 6 - Len(script) \/ Taken = 7 - Len(script)
    BY <2>1 DEF Taken
  <2>3. Taken # 7
    BY <2>1 DEF Taken, Waiting, IInv, CalculatorInv, Buffered, TypeOK
  <2> QED
    BY <2>1, <2>2, <2>3 DEF IInv, CalculatorInv, ChipInv, ChipFits
<1> QED BY <1>2, <1>3, <1>4, Invariance, PTL DEF Spec

ExactInv == IInv /\ (~EraseFailed => LandedInv /\ ReplayInv)

LEMMA ExactInvariance == Spec => []ExactInv
<1>1. Init => ExactInv
  BY InitType, CalculatorInit, PipelineInit, ClockInit, LandedInit
  DEF IInv, ExactInv
<1>2. ExactInv /\ [Next]_vars => ExactInv'
  <2> SUFFICES ASSUME ExactInv, [Next]_vars PROVE ExactInv'
    OBVIOUS
  <2>1. TypeOK /\ CalculatorInv /\ PipelineInv /\ ClockInv
    BY DEF ExactInv, IInv
  <2>2. TypeOK'
    BY <2>1, StepType DEF CalculatorInv, PipelineInv
  <2>3. CalculatorInv'
    BY <2>1, <2>2, CalculatorStep
  <2>4. PipelineInv'
    BY <2>1, <2>2, PipelineStep
  <2>6. ClockInv'
    BY <2>1, <2>2, ClockStep
  <2>5. ASSUME ~EraseFailed' PROVE LandedInv' /\ ReplayInv'
    <3>1. LandedInv /\ ReplayInv
      BY <2>1, <2>5, FailureStays DEF ExactInv
    <3>2. LandedInv'
      BY <2>1, <2>2, <2>3, <2>5, <3>1, LandedStep
    <3>3. ReplayInv'
      BY <2>1, <3>1, ReplayStep
    <3> QED BY <3>2, <3>3
  <2> QED BY <2>2, <2>3, <2>4, <2>5, <2>6 DEF ExactInv, IInv
<1> QED BY <1>1, <1>2, PTL DEF Spec

\* While it replays, the image is the array the part held after the same
\* number of mutations.
THEOREM FollowsChip == Spec => []ReplayFollowsChip
<1>1. ExactInv => ReplayFollowsChip
  BY DEF ExactInv, ReplayInv, ReplayFollowsChip, StateAt
<1> QED BY <1>1, ExactInvariance, PTL

\* An image the pipeline hands out is the array the part held when the
\* recording stopped, wherever it stopped.
THEOREM ReplayExact == Spec => []ReplayIsExact
<1>1. ExactInv => ReplayIsExact
  <2> SUFFICES ASSUME ExactInv, stage = "done", ~EraseFailed
               PROVE  image = array
    BY DEF ReplayIsExact
  <2>1. mutations = Len(landed)
    BY AllReplayed DEF ExactInv, IInv
  <2> QED BY <2>1 DEF ExactInv, ReplayInv, LandedInv
<1> QED BY <1>1, ExactInvariance, PTL

\* On a part whose erases end, every image handed out is exact.
THEOREM ExactWithoutFailure ==
    ASSUME ~EraseMayFail
    PROVE  Spec => [](stage = "done" => image = array)
<1>1. ReplayIsExact /\ ~EraseFailed => (stage = "done" => image = array)
  BY DEF ReplayIsExact
<1> QED BY <1>1, ReplayExact, NeverFails, PTL

-----------------------------------------------------------------------------
(* What validate_replay_stream promises: no image out of failed work.      *)

\* A program that failed leaves a byte whose block a failure exit closed.
FailedBlock ==
    "program" \in failures =>
        \E k \in 1 .. Len(asked) - 1 :
            /\ asked[k].kind = "byte_program"
            /\ asked[k + 1].kind = "array_reset"
            /\ asked[k + 1].pc = "failure"

RefusalInv ==
    /\ FailedBlock
    /\ stage \in {"replay", "done"} => ValidStream

\* The decoder finds that block, or stops before its reset: either way the
\* byte is not closed by success.
LEMMA FailedIsInvalid ==
    ASSUME TypeOK, CalculatorInv, AllDecoded, FailedBlock,
           "program" \in failures
    PROVE  ~ValidStream
<1>1. PICK k \in 1 .. Len(asked) - 1 :
          /\ asked[k].kind = "byte_program"
          /\ asked[k + 1].kind = "array_reset" /\ asked[k + 1].pc = "failure"
  BY DEF FailedBlock
<1>2. /\ Len(asked) \in Nat /\ Len(commands) \in Nat
      /\ Len(commands) <= Len(asked) /\ Len(commands) >= Len(asked) - 1
      /\ k \in Nat /\ k >= 1
  <2>1. Len(asked) \in Nat /\ Len(commands) \in Nat /\ asked # << >>
    BY <1>1 DEF TypeOK
  <2> QED BY <2>1, DecodedAll DEF AllDecoded, Faithful
<1>3. k \in 1 .. Len(commands)
  BY <1>1, <1>2
<1>4. commands[k].kind = "byte_program"
  BY <1>1, <1>3 DEF AllDecoded, Faithful
<1>5. k + 1 \in 1 .. Len(commands) =>
          commands[k + 1].kind = "array_reset" /\ commands[k + 1].pc = "failure"
  BY <1>1, <1>2 DEF AllDecoded, Faithful
<1>6. ~ClosedBySuccess(k)
  <2> SUFFICES ASSUME NEW j \in k + 1 .. Len(commands),
                      commands[j].kind = "array_reset",
                      commands[j].pc = "success",
                      \A l \in k .. j - 1 : commands[l].kind = "byte_program"
               PROVE  FALSE
    BY DEF ClosedBySuccess
  <2>1. k + 1 \in 1 .. Len(commands)
    BY <1>2
  <2>2. CASE j = k + 1
    BY <1>5, <2>1, <2>2
  <2>3. CASE j > k + 1
    <3>1. k + 1 \in k .. j - 1
      BY <1>2, <2>3
    <3> QED BY <1>5, <2>1, <3>1
  <2> QED BY <1>2, <2>2, <2>3
<1> QED BY <1>3, <1>4, <1>6 DEF ValidStream

LEMMA FailedBlockStep ==
    ASSUME TypeOK, TypeOK', CalculatorInv, FailedBlock, [Next]_vars
    PROVE  FailedBlock'
<1> USE DEF calculator, recorder, pipeline
<1>1. ASSUME NEW c, asked' = Append(asked, c)
      PROVE  /\ Len(asked) \in Nat /\ Len(asked') = Len(asked) + 1
             /\ asked'[Len(asked) + 1] = c
             /\ \A k \in 1 .. Len(asked) : asked'[k] = asked[k]
  BY <1>1 DEF TypeOK
<1>2. ASSUME NEW c, asked' = Append(asked, c), failures' \subseteq failures \cup {"erase"}
      PROVE  FailedBlock'
  <2> SUFFICES ASSUME "program" \in failures'
               PROVE  \E k \in 1 .. Len(asked') - 1 :
                          /\ asked'[k].kind = "byte_program"
                          /\ asked'[k + 1].kind = "array_reset"
                          /\ asked'[k + 1].pc = "failure"
    BY DEF FailedBlock
  <2>1. PICK k \in 1 .. Len(asked) - 1 :
            /\ asked[k].kind = "byte_program"
            /\ asked[k + 1].kind = "array_reset"
            /\ asked[k + 1].pc = "failure"
    BY <1>2 DEF FailedBlock
  <2>2. /\ k \in 1 .. Len(asked') - 1
        /\ asked'[k] = asked[k] /\ asked'[k + 1] = asked[k + 1]
    BY <1>1, <1>2, <2>1
  <2> QED BY <2>1, <2>2
<1>3. ASSUME asked' = asked, failures' = failures
      PROVE  FailedBlock'
  BY <1>3 DEF FailedBlock
<1>4. ASSUME NEW r \in Requests, StartProgram(r[1], r[2]) PROVE FailedBlock'
  BY <1>2, <1>4 DEF StartProgram, Ask
<1>5. ASSUME NEW a \in EraseTargets, StartErase(a) PROVE FailedBlock'
  BY <1>2, <1>5 DEF StartErase, Ask
<1>6. ASSUME NEW exit \in {"success", "failure"}, EndBlock(exit)
      PROVE  FailedBlock'
  <2> DEFINE c == [kind |-> "array_reset", addr |-> worker.addr, val |-> xF0,
                   pc |-> exit, from |-> Len(events) + 1,
                   before |-> Len(landed)]
             n == Len(asked)
  <2>1. /\ asked' = Append(asked, c) /\ worker.at = "block"
        /\ c.kind = "array_reset" /\ c.pc = exit
    BY <1>6 DEF EndBlock, Ask
  <2>2. CASE exit = "success"
    BY <1>2, <1>6, <2>1, <2>2 DEF EndBlock
  <2>3. CASE exit = "failure"
    <3>1. asked # << >> /\ Current.kind = "byte_program"
      BY <2>1 DEF CalculatorInv, WorkerInv, Trail
    <3>2. n \in Nat /\ n >= 1 /\ asked[n].kind = "byte_program"
      BY <3>1 DEF TypeOK, Current
    <3> HIDE DEF c
    <3>3. /\ Len(asked') = n + 1 /\ asked'[n + 1] = c
          /\ asked'[n] = asked[n] /\ n \in 1 .. Len(asked') - 1
      BY <1>1, <2>1, <3>2
    <3> QED BY <2>1, <2>3, <3>2, <3>3 DEF FailedBlock
  <2> QED BY <2>2, <2>3
<1>7. CASE EndErase
  <2>1. CASE UNCHANGED <<script, failures, asked>>
    BY <1>3, <2>1
  <2>2. ASSUME NEW de \in Addr, Ask("array_reset", de, xF0, "failure"),
               failures' = failures \cup {"erase"}
        PROVE  FailedBlock'
    BY <1>2, <2>2 DEF Ask
  <2> QED BY <1>7, <2>1, <2>2 DEF EndErase
<1>8. CASE \/ EndReset \/ BusWrite \/ RamWrite(Erased) \/ SelectPage
           \/ TimePasses \/ InstructionRecord \/ CutTrace \/ Pipeline \/ UNCHANGED vars
  <2>1. asked' = asked /\ failures' = failures
    BY <1>8 DEF EndReset, BusWrite, RamWrite, SelectPage, TimePasses, InstructionRecord,
       CutTrace, Pipeline, DecodeErase, DecodeProgram, DecodeSingle,
       EndDecode, Validate, ReplayCommand, RefuseCommand, EndReplay, vars
  <2> QED BY <1>3, <2>1
<1> QED
  BY <1>4, <1>5, <1>6, <1>7, <1>8 DEF Next, Calculator

LEMMA ReplayedIsValid ==
    ASSUME stage \in {"replay", "done"} => ValidStream, [Next]_vars
    PROVE  stage' \in {"replay", "done"} => ValidStream'
<1> USE DEF calculator, recorder, pipeline
<1>1. CASE Validate
  BY <1>1 DEF Validate, ValidStream, ClosedBySuccess
<1>2. CASE ReplayCommand \/ RefuseCommand \/ EndReplay \/ UNCHANGED vars
  <2>1. commands' = commands /\ (stage' \in {"replay", "done"}
                                   => stage \in {"replay", "done"})
    BY <1>2 DEF ReplayCommand, RefuseCommand, EndReplay, vars
  <2> QED BY <2>1 DEF ValidStream, ClosedBySuccess
<1>3. CASE \/ Calculator \/ CutTrace \/ DecodeErase \/ DecodeProgram
           \/ DecodeSingle \/ EndDecode
  <2>1. stage' \notin {"replay", "done"}
    BY <1>3 DEF Calculator, StartProgram, StartErase, EndBlock, EndErase,
       EndReset, BusWrite, RamWrite, SelectPage, TimePasses, InstructionRecord, Recording,
       CutTrace, DecodeErase, DecodeProgram, DecodeSingle, Decoding, EndDecode
  <2> QED BY <2>1
<1> QED BY <1>1, <1>2, <1>3 DEF Next, Pipeline

THEOREM RefusalInvariance == Spec => [](IInv /\ RefusalInv)
<1>1. Init => RefusalInv
  BY DEF Init, RefusalInv, FailedBlock
<1>2. IInv /\ IInv' /\ RefusalInv /\ [Next]_vars => RefusalInv'
  BY FailedBlockStep, ReplayedIsValid DEF IInv, RefusalInv
<1> QED BY <1>1, <1>2, Invariance, PTL DEF Spec

\* No image comes out of a recording in which a program failed, whatever
\* came before or after it and wherever the recording stopped.
THEOREM FailedProgramRefused ==
    Spec => [](stage = "done" => "program" \notin failures)
<1>1. IInv /\ RefusalInv => (stage = "done" => "program" \notin failures)
  BY FailedIsInvalid DEF IInv, PipelineInv, RefusalInv
<1> QED BY <1>1, RefusalInvariance, PTL

\* On a part whose erases end that is all of validate_replay_stream's
\* promise, which fails on a part whose erases may not.
THEOREM FailedWorkRefused ==
    ASSUME ~EraseMayFail
    PROVE  Spec => []FailedWorkIsRefused
<1>1. TypeOK /\ ~EraseFailed /\ (stage = "done" => "program" \notin failures)
          => FailedWorkIsRefused
  BY DEF TypeOK, EraseFailed, FailedWorkIsRefused
<1> QED BY <1>1, TypeCorrect, NeverFails, FailedProgramRefused, PTL

-----------------------------------------------------------------------------
(* Progress: the pipeline cannot go round in circles.                      *)

\* Steps the pipeline has at most before it ends: two for an event, one to
\* decode it and one to replay its command, and one for each stage.
Effort ==
    CASE stage = "decode"   -> 2 * (Len(events) + 1 - index) + Len(commands) + 3
      [] stage = "validate" -> Len(commands) + 2
      [] stage = "replay"   -> Len(commands) + 2 - index
      [] OTHER              -> 0

\* A command takes at least one event, and no cursor runs past its end.
CursorInv ==
    /\ stage = "decode" =>
          index <= Len(events) + 1 /\ Len(commands) <= index - 1
    /\ stage \in {"validate", "replay"} => Len(commands) <= Len(events)
    /\ stage = "replay" => index <= Len(commands) + 1

Bounded == stage # "record" => Effort \in Nat /\ Effort <= 2 * Len(events) + 3

\* What one step of the decoder does to the cursors, whatever it finds.
LEMMA DecoderMoves ==
    ASSUME TypeOK, PipelineInv, DecodeErase \/ DecodeProgram \/ DecodeSingle
    PROVE  /\ stage = "decode" /\ stage' = "decode" /\ events' = events
           /\ index' \in Nat /\ index < index' /\ index' <= Len(events) + 1
           /\ Len(commands') \in Nat /\ Len(commands') <= Len(commands) + 1
<1> USE DEF calculator, recorder, pipeline
<1> DEFINE n == Len(events)
           c == Len(commands)
<1>1. n \in Nat /\ c \in Nat /\ index \in Nat /\ commands \in Seq(Commands)
  BY DEF TypeOK
<1>2. \A e : Len(Append(commands, e)) = c + 1
  BY <1>1
<1>3. CASE DecodeErase
  <2>1. /\ stage = "decode" /\ stage' = "decode" /\ events' = events
        /\ index + 5 <= n /\ index' = index + 6
        /\ \E e : commands' = Append(commands, e)
    BY <1>3 DEF DecodeErase, Decoding, EraseAt, Decode
  <2> HIDE DEF n, c
  <2>2. index' \in Nat /\ index < index' /\ index' <= n + 1
    BY <1>1, <2>1
  <2> QED BY <1>1, <1>2, <2>1, <2>2 DEF n, c
<1>4. CASE DecodeProgram
  <2>1. /\ stage = "decode" /\ stage' = "decode" /\ events' = events
        /\ index + 3 <= n /\ index' = index + 4
        /\ \E e : commands' = Append(commands, e)
    BY <1>4 DEF DecodeProgram, Decoding, ProgramAt, Decode
  <2> HIDE DEF n, c
  <2>2. index' \in Nat /\ index < index' /\ index' <= n + 1
    BY <1>1, <2>1
  <2> QED BY <1>1, <1>2, <2>1, <2>2 DEF n, c
<1>5. CASE DecodeSingle
  <2>1. /\ stage = "decode" /\ stage' = "decode" /\ events' = events
        /\ index <= n /\ index' = index + 1
        /\ commands' = commands \/ \E e : commands' = Append(commands, e)
    BY <1>5 DEF DecodeSingle, Decoding, Decode
  <2> HIDE DEF n, c
  <2>2. index' \in Nat /\ index < index' /\ index' <= n + 1
    BY <1>1, <2>1
  <2>3. Len(commands') \in Nat /\ Len(commands') <= c + 1
    BY <1>1, <1>2, <2>1 DEF c
  <2> QED BY <2>1, <2>2, <2>3 DEF n, c
<1> QED BY <1>3, <1>4, <1>5

\* The cursors stay inside what they walk over.
LEMMA CursorStep ==
    ASSUME TypeOK, PipelineInv, CursorInv, [Next]_vars PROVE CursorInv'
<1> USE DEF calculator, recorder, pipeline
<1>1. /\ Len(events) \in Nat /\ Len(commands) \in Nat /\ index \in Nat
      /\ index >= 1
  BY DEF TypeOK, PipelineInv
<1>2. CASE DecodeErase \/ DecodeProgram \/ DecodeSingle
  BY <1>1, <1>2, DecoderMoves DEF CursorInv
<1>3. CASE EndDecode
  <2>1. /\ stage = "decode" /\ stage' = "validate"
        /\ events' = events /\ commands' = commands /\ index' = index
    BY <1>3 DEF EndDecode
  <2> QED BY <1>1, <2>1 DEF CursorInv
<1>4. CASE Validate
  <2>1. /\ stage = "validate" /\ stage' \in {"replay", "refused"}
        /\ events' = events /\ commands' = commands /\ index' = 1
    BY <1>4 DEF Validate
  <2> QED BY <1>1, <2>1 DEF CursorInv
<1>5. CASE ReplayCommand
  <2>1. /\ stage = "replay" /\ stage' = "replay"
        /\ events' = events /\ commands' = commands /\ index' = index + 1
        /\ index <= Len(commands)
    BY <1>5 DEF ReplayCommand
  <2> QED BY <1>1, <2>1 DEF CursorInv
<1>10. CASE RefuseCommand
  BY <1>10 DEF RefuseCommand, CursorInv
<1>6. CASE EndReplay
  BY <1>6 DEF EndReplay, CursorInv
<1>7. CASE CutTrace
  <2>1. /\ commands = << >> /\ index = 1 /\ commands' = commands
        /\ index' = index /\ events' = events
        /\ stage' \in {"refused", "decode"}
    BY <1>7 DEF CutTrace, PipelineInv
  <2>2. Len(commands) = 0
    BY <2>1
  <2> QED BY <1>1, <2>1, <2>2 DEF CursorInv
<1>8. CASE Calculator
  <2>1. stage = "record" /\ stage' = stage
    BY <1>8 DEF Calculator, StartProgram, StartErase, EndBlock, EndErase,
       EndReset, BusWrite, RamWrite, SelectPage, TimePasses, InstructionRecord, Recording
  <2> QED BY <2>1 DEF CursorInv
<1>9. CASE UNCHANGED vars
  BY <1>9 DEF vars, CursorInv
<1> QED
  BY <1>2, <1>3, <1>4, <1>5, <1>6, <1>7, <1>8, <1>9, <1>10
  DEF Next, Pipeline

\* Once the trace is cut, every step leaves less to do.
LEMMA EffortStep ==
    ASSUME TypeOK, PipelineInv, CursorInv, CursorInv', Next, stage # "record"
    PROVE  Effort' < Effort
<1> USE DEF calculator, recorder, pipeline
<1>1. /\ Len(events) \in Nat /\ Len(commands) \in Nat /\ index \in Nat
      /\ index >= 1
  BY DEF TypeOK, PipelineInv
<1>2. Pipeline
  BY DEF Next, CutTrace, Calculator, StartProgram, StartErase, EndBlock,
     EndErase, EndReset, BusWrite, RamWrite, SelectPage, TimePasses, InstructionRecord,
     Recording
<1>3. CASE DecodeErase \/ DecodeProgram \/ DecodeSingle
  <2>1. /\ stage = "decode" /\ stage' = "decode" /\ events' = events
        /\ index' \in Nat /\ index < index' /\ index' <= Len(events) + 1
        /\ Len(commands') \in Nat /\ Len(commands') <= Len(commands) + 1
    BY <1>3, DecoderMoves
  <2>2. /\ Effort = 2 * (Len(events) + 1 - index) + Len(commands) + 3
        /\ Effort' = 2 * (Len(events) + 1 - index') + Len(commands') + 3
    BY <2>1 DEF Effort
  <2> QED BY <1>1, <2>1, <2>2
<1>4. CASE EndDecode
  <2>1. /\ stage = "decode" /\ stage' = "validate" /\ index > Len(events)
        /\ commands' = commands
    BY <1>4 DEF EndDecode
  <2>2. index = Len(events) + 1
    BY <1>1, <2>1 DEF CursorInv
  <2>3. Effort = Len(commands) + 3 /\ Effort' = Len(commands) + 2
    BY <1>1, <2>1, <2>2 DEF Effort
  <2> QED BY <1>1, <2>3
<1>5. CASE Validate
  <2>1. /\ stage = "validate" /\ stage' \in {"replay", "refused"}
        /\ commands' = commands /\ index' = 1
    BY <1>5 DEF Validate
  <2> QED BY <1>1, <2>1 DEF Effort
<1>6. CASE ReplayCommand
  <2>1. /\ stage = "replay" /\ stage' = "replay"
        /\ commands' = commands /\ index' = index + 1
        /\ index <= Len(commands)
    BY <1>6 DEF ReplayCommand
  <2> QED BY <1>1, <2>1 DEF Effort
<1>8. CASE RefuseCommand
  <2>1. /\ stage = "replay" /\ stage' = "refused" /\ index <= Len(commands)
    BY <1>8 DEF RefuseCommand
  <2> QED BY <1>1, <2>1 DEF Effort
<1>7. CASE EndReplay
  <2>1. stage = "replay" /\ stage' = "done" /\ index <= Len(commands) + 1
    BY <1>7 DEF EndReplay, CursorInv
  <2> QED BY <1>1, <2>1 DEF Effort
<1> QED BY <1>2, <1>3, <1>4, <1>5, <1>6, <1>7, <1>8 DEF Pipeline

\* Effort is a number of steps, bounded by the length of the trace.
LEMMA EffortBound == ASSUME TypeOK, PipelineInv, CursorInv PROVE Bounded
<1>1. /\ Len(events) \in Nat /\ Len(commands) \in Nat /\ index \in Nat
      /\ index >= 1
  BY DEF TypeOK, PipelineInv
<1>2. CASE stage = "decode"
  BY <1>1, <1>2 DEF Bounded, Effort, CursorInv
<1>3. CASE stage \in {"validate", "replay"}
  BY <1>1, <1>3 DEF Bounded, Effort, CursorInv
<1>4. CASE stage \in {"done", "refused"}
  BY <1>1, <1>4 DEF Bounded, Effort
<1> QED BY <1>2, <1>3, <1>4 DEF Bounded, TypeOK

\* Once the trace is cut, every step of the pipeline leaves less to do, so it
\* ends after at most two steps for each event and three more, on a trace
\* cut in the middle of a command as on any other.
\* (the cursor of decode_amd_flash_commands, the loop of
\* replay_accepted_commands)
THEOREM PipelineRunsOut ==
    Spec => []Bounded /\ [][stage # "record" => Effort' < Effort]_vars
<1>1. Init => CursorInv
  BY DEF Init, CursorInv
<1>2. IInv /\ CursorInv /\ [Next]_vars => CursorInv'
  BY CursorStep DEF IInv
<1>3. IInv /\ CursorInv => Bounded
  BY EffortBound DEF IInv
<1>4. IInv /\ CursorInv /\ CursorInv' /\ [Next]_vars =>
        [stage # "record" => Effort' < Effort]_vars
  BY EffortStep DEF IInv
<1> QED BY <1>1, <1>2, <1>3, <1>4, Invariance, PTL DEF Spec
=============================================================================
