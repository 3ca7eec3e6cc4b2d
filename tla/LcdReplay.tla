----------------------------- MODULE LcdReplay -----------------------------
(***************************************************************************)
(* Replay of the LCD port accesses in a trace: the T6A04 of TilEm, its     *)
(* picture, and the log of picture changes from an instruction on.         *)
(*                                                                         *)
(* The pointer moves after a transfer and is brought back into range       *)
(* before the next one, so between two transfers it may stand one beyond   *)
(* either edge, and a change of word length may leave it far beyond.       *)
(*                                                                         *)
(* A byte is the set of its one bits.  Of the clock only this is kept:     *)
(* whether BUSY_CLOCKS have passed since the last accepted access.  An     *)
(* access within them is ignored, which is a stuttering step.              *)
(*                                                                         *)
(* Source: src/tools/ti84re/trace/lcd.py (T6A04, replay_mutations).        *)
(***************************************************************************)
EXTENDS Integers

CONSTANTS
    STRIDE,     \* bytes in a row of the memory
    ROWS,
    VISIBLE,    \* bytes of a row that the panel shows
    Values,     \* data bytes that are written
    MaxWrites   \* bound: the trace ends at this data write

ASSUME LcdAssumption ==
    /\ STRIDE \in Nat \ {0} /\ ROWS \in Nat \ {0}
    /\ VISIBLE \in 1 .. STRIDE
    /\ Values \subseteq SUBSET (0 .. 7)
    /\ MaxWrites \in Nat

VARIABLES
    x, y,       \* pointer
    inc,        \* movement command, 4 to 7
    mode,       \* 1: transfers of eight pixels, 0: of six
    rowshift,   \* memory row in the top line of the panel
    mem,        \* the bytes
    busy,       \* BUSY_CLOCKS have not passed since the last access
    writes,     \* accepted data writes
    logging,    \* the replay has passed from_index
    picture     \* the initial picture with the logged changes applied to it

pointer == <<x, y>>
log     == <<logging, picture>>
vars    == <<pointer, inc, mode, rowshift, mem, busy, writes, log>>

Bits == 0 .. 7

\* Number of transfers that cross a row.
XLimit == IF mode = 1 THEN STRIDE ELSE (8 * STRIDE + 5) \div 6

\* What the panel shows: the lit pixels.
GridOf(m, shift) ==
    {p \in (0 .. 8 * VISIBLE - 1) \X (0 .. ROWS - 1) :
        7 - (p[1] % 8) \in m[((p[2] + shift) % ROWS) * STRIDE + p[1] \div 8]}

Grid == GridOf(mem, rowshift)

Init ==
    /\ x = 0 /\ y = 0 /\ inc = 7 /\ mode = 1 /\ rowshift = 0
    /\ mem = [i \in 0 .. ROWS * STRIDE - 1 |-> {}]
    /\ busy = FALSE /\ writes = 0
    /\ logging = FALSE /\ picture = {}

-----------------------------------------------------------------------------
(* Pointer.                                                                *)

\* Seeded fault: only the right edge is brought back.
NormalXRightOnly == IF x >= XLimit THEN 0 ELSE x

NormalX == IF x >= XLimit THEN 0 ELSE IF x < 0 THEN XLimit - 1 ELSE x

NormalY == IF y >= ROWS THEN 0 ELSE IF y < 0 THEN ROWS - 1 ELSE y

MovePointer ==
    /\ x' = NormalX + (CASE inc = 6 -> -1 [] inc = 7 -> 1 [] inc \in {4, 5} -> 0)
    /\ y' = NormalY + (CASE inc = 4 -> -1 [] inc = 5 -> 1 [] inc \in {6, 7} -> 0)

-----------------------------------------------------------------------------
(* Log of the picture.                                                     *)

\* The changed pixels of an access, applied by the reader of the log.
Record ==
    /\ UNCHANGED logging
    /\ picture' = IF logging THEN (picture \ (Grid \ Grid')) \cup (Grid' \ Grid)
                             ELSE picture

\* The replay reaches from_index.
StartLog ==
    /\ ~logging
    /\ logging' = TRUE
    /\ picture' = Grid
    /\ UNCHANGED <<pointer, inc, mode, rowshift, mem, busy, writes>>

-----------------------------------------------------------------------------
(* Accesses.                                                               *)

Accept == writes < MaxWrites /\ ~busy /\ busy' = TRUE

Elapse ==
    /\ busy
    /\ busy' = FALSE
    /\ UNCHANGED <<pointer, inc, mode, rowshift, mem, writes, log>>

\* Seeded fault: only data writes are logged.
ControlUnlogged ==
    /\ Accept
    /\ \/ \E m \in {0, 1} : mode' = m /\ UNCHANGED <<pointer, inc, rowshift>>
       \/ \E i \in 4 .. 7 : inc' = i /\ UNCHANGED <<pointer, mode, rowshift>>
       \/ \E c \in 0 .. 2 * STRIDE - 1 :
              x' = c /\ UNCHANGED <<y, inc, mode, rowshift>>
       \/ \E r \in 0 .. ROWS - 1 : y' = r /\ UNCHANGED <<x, inc, mode, rowshift>>
       \/ \E s \in 0 .. ROWS - 1 :
              rowshift' = s /\ UNCHANGED <<pointer, inc, mode>>
    /\ UNCHANGED <<mem, writes, log>>

Control ==
    /\ Accept
    /\ \/ \E m \in {0, 1} : mode' = m /\ UNCHANGED <<pointer, inc, rowshift>>
       \/ \E i \in 4 .. 7 : inc' = i /\ UNCHANGED <<pointer, mode, rowshift>>
       \/ \E c \in 0 .. 2 * STRIDE - 1 :
              x' = c /\ UNCHANGED <<y, inc, mode, rowshift>>
       \/ \E r \in 0 .. ROWS - 1 : y' = r /\ UNCHANGED <<x, inc, mode, rowshift>>
       \/ \E s \in 0 .. ROWS - 1 :
              rowshift' = s /\ UNCHANGED <<pointer, inc, mode>>
    /\ UNCHANGED <<mem, writes>>
    /\ Record

Read ==
    /\ Accept
    /\ MovePointer
    /\ UNCHANGED <<inc, mode, rowshift, mem, writes, log>>

\* Six pixels from pixel 6x on: the byte they start in and, when they do not
\* fit into it, the next one of the row.  The byte written is moved left by
\* two with all its bits and then to its place.
FirstByte(old, v, shift) ==
    {j \in old : j + shift \notin 2 .. 7} \cup {j \in Bits : j + shift - 2 \in v}

SecondByte(old, v, shift) ==
    {j \in old : j + shift < 10} \cup {j \in Bits : j + shift - 10 \in v}

\* Seeded fault: the second byte of the last group is the next row's first.
SpillsUnguarded(shift, column) == shift > 2

Spills(shift, column) == shift > 2 /\ column < STRIDE - 1

SixPixels(v) ==
    LET col   == 6 * NormalX
        ofs   == NormalY * STRIDE + col \div 8
        shift == col % 8
        first == [mem EXCEPT ![ofs] = FirstByte(@, v, shift)]
    IN  IF Spills(shift, col \div 8)
        THEN [first EXCEPT ![ofs + 1] = SecondByte(@, v, shift)]
        ELSE first

Write(v) ==
    /\ Accept
    /\ mem' = IF mode = 1 THEN [mem EXCEPT ![NormalX + STRIDE * NormalY] = v]
                          ELSE SixPixels(v)
    /\ MovePointer
    /\ writes' = writes + 1
    /\ UNCHANGED <<inc, mode, rowshift>>
    /\ Record

Next ==
    \/ Control \/ Read \/ Elapse \/ StartLog
    \/ \E v \in Values : Write(v)

Spec == Init /\ [][Next]_vars

-----------------------------------------------------------------------------
(* Properties.                                                             *)

\* Types; the pointer leaves the memory by at most one step, or to where a
\* column command or the wider row of six-pixel transfers left it.
TypeOK ==
    /\ x \in -1 .. 2 * STRIDE /\ y \in -1 .. ROWS
    /\ inc \in 4 .. 7 /\ mode \in {0, 1} /\ rowshift \in 0 .. ROWS - 1
    /\ mem \in [0 .. ROWS * STRIDE - 1 -> SUBSET Bits]
    /\ busy \in BOOLEAN /\ writes \in 0 .. MaxWrites /\ logging \in BOOLEAN
    /\ picture \subseteq (0 .. 8 * VISIBLE - 1) \X (0 .. ROWS - 1)

\* The initial picture and the logged changes explain the picture at the end
\* of the trace (replay_mutations: initial, events, final): nothing the panel
\* shows changes without an event, a row shift included.
LogExplains == logging => picture = Grid

\* Pixels of the memory, and those of the transfer at the pointer.
Lit(m) == {p \in (0 .. 8 * STRIDE - 1) \X (0 .. ROWS - 1) :
               7 - (p[1] % 8) \in m[p[2] * STRIDE + p[1] \div 8]}

Width == IF mode = 1 THEN 8 ELSE 6

Field == {p \in (0 .. 8 * STRIDE - 1) \X {NormalY} : p[1] \div Width = NormalX}

Painted(v) == {p \in Field : Width - 1 - (p[1] % Width) \in v}

\* A data byte that fits the word length paints its pixels from the pointer
\* on, up to the end of the row, and changes no other pixel.
FieldExact ==
    [][\A v \in Values :
          Write(v) /\ v \subseteq 0 .. Width - 1
              => Lit(mem') = (Lit(mem) \ Field) \cup Painted(v)]_vars

\* "In 6-bit mode, only bits 0-5 are significant" (docs/lcd-hardware.md:165):
\* no transfer changes a pixel outside its own group.
OnlyOwnGroup ==
    [][\A v \in Values : Write(v) => Lit(mem') \ Field = Lit(mem) \ Field]_vars
=============================================================================
