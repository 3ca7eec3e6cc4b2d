--------------------------- MODULE LcdReplayProofs ---------------------------
(***************************************************************************)
(* The LCD replay, for every memory size, panel and set of data bytes.     *)
(*                                                                         *)
(* TypeOK bounds the pointer, so that the normalised pointer of a transfer *)
(* is a byte or a group of the row.  LogExplains is inductive with it: an  *)
(* access either leaves the picture alone or records all it changes.       *)
(* FieldExact is arithmetic: a pixel's byte and bit against its group.     *)
(***************************************************************************)
EXTENDS LcdReplay, TLAPS

Inv == TypeOK /\ LogExplains

Panel == (0 .. 8 * VISIBLE - 1) \X (0 .. ROWS - 1)

LEMMA GridTyped == Grid \subseteq Panel
BY DEF Grid, GridOf, Panel

\* Where a transfer goes.
LEMMA PointerNormal ==
    ASSUME TypeOK
    PROVE  /\ XLimit \in Nat /\ XLimit >= 1 /\ XLimit <= 2 * STRIDE
           /\ mode = 1 => XLimit = STRIDE
           /\ mode = 0 => 6 * XLimit <= 8 * STRIDE + 5
           /\ NormalX \in Int /\ 0 <= NormalX /\ NormalX < XLimit
           /\ NormalY \in Int /\ 0 <= NormalY /\ NormalY < ROWS
<1>1. /\ STRIDE \in Nat /\ STRIDE >= 1 /\ ROWS \in Nat /\ ROWS >= 1
      /\ x \in Int /\ y \in Int /\ mode \in {0, 1}
  BY LcdAssumption DEF TypeOK
<1>2. /\ XLimit \in Nat /\ XLimit >= 1 /\ XLimit <= 2 * STRIDE
      /\ mode = 1 => XLimit = STRIDE
      /\ mode = 0 => 6 * XLimit <= 8 * STRIDE + 5
  BY <1>1 DEF XLimit
<1> QED  BY <1>1, <1>2 DEF NormalX, NormalY

LEMMA MoveTyped ==
    ASSUME TypeOK, MovePointer
    PROVE  x' \in -1 .. 2 * STRIDE /\ y' \in -1 .. ROWS
<1>1. /\ STRIDE \in Nat /\ ROWS \in Nat
      /\ inc \in Int /\ inc >= 4 /\ inc <= 7
  BY LcdAssumption DEF TypeOK
<1>2. CASE inc = 4
  BY <1>1, <1>2, PointerNormal DEF MovePointer
<1>3. CASE inc = 5
  BY <1>1, <1>3, PointerNormal DEF MovePointer
<1>4. CASE inc = 6
  BY <1>1, <1>4, PointerNormal DEF MovePointer
<1>5. CASE inc = 7
  BY <1>1, <1>5, PointerNormal DEF MovePointer
<1> QED  BY <1>1, <1>2, <1>3, <1>4, <1>5

LEMMA MemTyped ==
    ASSUME TypeOK, NEW v \in Values
    PROVE  /\ SixPixels(v) \in [0 .. ROWS * STRIDE - 1 -> SUBSET Bits]
           /\ [mem EXCEPT ![NormalX + STRIDE * NormalY] = v]
                 \in [0 .. ROWS * STRIDE - 1 -> SUBSET Bits]
<1>1. mem \in [0 .. ROWS * STRIDE - 1 -> SUBSET Bits] /\ v \in SUBSET Bits
  BY LcdAssumption DEF TypeOK, Bits
<1>2. \A old \in SUBSET Bits, s \in Int :
          /\ FirstByte(old, v, s) \in SUBSET Bits
          /\ SecondByte(old, v, s) \in SUBSET Bits
  BY DEF FirstByte, SecondByte
<1>3. ((6 * NormalX) % 8) \in Int
  BY PointerNormal
<1> DEFINE ofs == NormalY * STRIDE + (6 * NormalX) \div 8
           s == (6 * NormalX) % 8
           first == [mem EXCEPT ![ofs] = FirstByte(@, v, s)]
<1> HIDE DEF ofs, s
<1>4. first \in [0 .. ROWS * STRIDE - 1 -> SUBSET Bits]
  BY <1>1, <1>2, <1>3 DEF s
<1> HIDE DEF first
<1>5. [first EXCEPT ![ofs + 1] = SecondByte(@, v, s)]
          \in [0 .. ROWS * STRIDE - 1 -> SUBSET Bits]
  BY <1>2, <1>3, <1>4 DEF s
<1>6. SixPixels(v) \in {first, [first EXCEPT ![ofs + 1] = SecondByte(@, v, s)]}
  BY DEF SixPixels, first, ofs, s
<1> QED  BY <1>1, <1>4, <1>5, <1>6

\* Any accepted access: the reader of the log keeps up with the picture.
LEMMA RecordKeepsUp ==
    ASSUME Inv, Record
    PROVE  /\ logging' \in BOOLEAN /\ picture' \subseteq Panel
           /\ logging' => picture' = Grid'
<1>1. Grid' \subseteq Panel
  BY DEF Grid, GridOf, Panel
<1>2. picture \subseteq Panel /\ logging \in BOOLEAN /\ (logging => picture = Grid)
  BY DEF Inv, TypeOK, LogExplains, Panel
<1> QED  BY <1>1, <1>2 DEF Record

LEMMA InitReplay == Init => Inv
<1> SUFFICES ASSUME Init PROVE Inv
  OBVIOUS
<1>1. STRIDE \in Nat /\ STRIDE >= 1 /\ ROWS \in Nat /\ ROWS >= 1 /\ MaxWrites \in Nat
  BY LcdAssumption
<1>2. /\ x \in -1 .. 2 * STRIDE /\ y \in -1 .. ROWS /\ rowshift \in 0 .. ROWS - 1
      /\ inc \in 4 .. 7 /\ mode \in {0, 1} /\ writes \in 0 .. MaxWrites
  BY <1>1 DEF Init
<1>3. mem \in [0 .. ROWS * STRIDE - 1 -> SUBSET Bits]
  BY DEF Init
<1> QED  BY <1>2, <1>3 DEF Init, Inv, TypeOK, LogExplains

LEMMA NextReplay == Inv /\ [Next]_vars => Inv'
<1> SUFFICES ASSUME Inv, [Next]_vars PROVE Inv'
  OBVIOUS
<1>1. TypeOK /\ STRIDE \in Nat /\ STRIDE >= 1 /\ ROWS \in Nat /\ ROWS >= 1
      /\ MaxWrites \in Nat
  BY LcdAssumption DEF Inv
<1>2. CASE Control
  <2>1. x' \in -1 .. 2 * STRIDE /\ y' \in -1 .. ROWS
    BY <1>1, <1>2 DEF Control, TypeOK, pointer
  <2>2. inc' \in 4 .. 7 /\ mode' \in {0, 1} /\ rowshift' \in 0 .. ROWS - 1
    BY <1>1, <1>2 DEF Control, TypeOK, pointer
  <2>3. Record /\ UNCHANGED <<mem, writes>> /\ busy' \in BOOLEAN
    BY <1>2 DEF Control, Accept
  <2> QED  BY <1>1, <2>1, <2>2, <2>3, RecordKeepsUp
           DEF Inv, TypeOK, LogExplains, Panel
<1>3. CASE Read
  <2>1. /\ MovePointer /\ busy' \in BOOLEAN
        /\ UNCHANGED <<inc, mode, rowshift, mem, writes, log>>
    BY <1>3 DEF Read, Accept
  <2>2. Grid' = Grid
    BY <2>1 DEF Grid
  <2> QED  BY <1>1, <2>1, <2>2, MoveTyped DEF Inv, TypeOK, LogExplains, log
<1>4. CASE Elapse
  BY <1>1, <1>4 DEF Elapse, Inv, TypeOK, LogExplains, Grid, pointer, log
<1>5. CASE StartLog
  <2>1. Grid' = Grid /\ Grid \subseteq Panel
    BY <1>5, GridTyped DEF StartLog, Grid
  <2> QED  BY <1>1, <1>5, <2>1
           DEF StartLog, Inv, TypeOK, LogExplains, pointer, Panel
<1>6. CASE \E v \in Values : Write(v)
  <2>1. PICK v \in Values : Write(v)
    BY <1>6
  <2>2. mem' \in [0 .. ROWS * STRIDE - 1 -> SUBSET Bits]
    BY <1>1, <2>1, MemTyped DEF Write
  <2>3. /\ MovePointer /\ busy' \in BOOLEAN /\ Record
        /\ UNCHANGED <<inc, mode, rowshift>>
        /\ writes < MaxWrites /\ writes' = writes + 1
    BY <2>1 DEF Write, Accept
  <2>4. writes' \in 0 .. MaxWrites
    BY <1>1, <2>3 DEF TypeOK
  <2> QED  BY <1>1, <2>2, <2>3, <2>4, MoveTyped, RecordKeepsUp
           DEF Inv, TypeOK, LogExplains, Panel
<1>7. CASE UNCHANGED vars
  BY <1>1, <1>7 DEF vars, pointer, log, Inv, TypeOK, LogExplains, Grid
<1> QED  BY <1>2, <1>3, <1>4, <1>5, <1>6, <1>7 DEF Next

\* A byte's place in the memory determines its row and its column.
LEMMA RowMajor ==
    ASSUME NEW S \in Nat, S >= 1, NEW r \in Int, NEW q \in Int,
           NEW b \in Int, 0 <= b, b < S, NEW d \in Int, 0 <= d, d < S,
           r * S + b = q * S + d
    PROVE  r = q /\ b = d
<1>1. \A k \in Int : k >= 1 => k * S >= S
  OBVIOUS
<1>2. CASE r > q
  <2>1. r - q \in Int /\ r - q >= 1
    BY <1>2
  <2>2. (r - q) * S >= S
    BY <1>1, <2>1
  <2>3. (r - q) * S = r * S - q * S
    OBVIOUS
  <2> QED  BY <2>2, <2>3
<1>3. CASE q > r
  <2>1. q - r \in Int /\ q - r >= 1
    BY <1>3
  <2>2. (q - r) * S >= S
    BY <1>1, <2>1
  <2>3. (q - r) * S = q * S - r * S
    OBVIOUS
  <2> QED  BY <2>2, <2>3
<1>4. CASE r = q
  BY <1>4
<1> QED  BY <1>2, <1>3, <1>4

\* A place within the rows is within the memory.
LEMMA InMemory ==
    ASSUME NEW r \in Int, 0 <= r, r < ROWS, NEW b \in Int, 0 <= b, b < STRIDE
    PROVE  r * STRIDE + b \in 0 .. ROWS * STRIDE - 1
<1>1. STRIDE \in Nat /\ STRIDE >= 1 /\ ROWS \in Nat
  BY LcdAssumption
<1>2. r * STRIDE >= 0
  BY <1>1
<1>3. ROWS - 1 - r \in Nat
  BY <1>1
<1>4. (ROWS - 1 - r) * STRIDE >= 0
  BY <1>1, <1>3
<1>5. (ROWS - 1 - r) * STRIDE = ROWS * STRIDE - STRIDE - r * STRIDE
  BY <1>1
<1>6. /\ r * STRIDE \in Int /\ ROWS * STRIDE \in Int
  BY <1>1
<1> QED  BY <1>1, <1>2, <1>4, <1>5, <1>6

\* Byte and bit of pixel c, against the group of six that starts at 6 * X.
LEMMA GroupArithmetic ==
    ASSUME NEW c \in Nat, NEW X \in Nat
    PROVE  LET b  == c \div 8
               j  == 7 - (c % 8)
               b0 == (6 * X) \div 8
               s  == (6 * X) % 8
           IN  /\ b \in Nat /\ j \in Int /\ 0 <= j /\ j <= 7 /\ c = 8 * b + 7 - j
               /\ b0 \in Nat /\ s \in Int /\ 0 <= s /\ s <= 7
               /\ 6 * X = 8 * b0 + s
               /\ c \div 6 = X <=> 6 * X <= c /\ c <= 6 * X + 5
               /\ c \div 6 = X => c % 6 = c - 6 * X
OBVIOUS

\* Whether pixel c of row r is lit in m.
LitAt(m, c, r) == 7 - (c % 8) \in m[r * STRIDE + c \div 8]

LEMMA EightPixels ==
    ASSUME TypeOK, mode = 1, NEW v \in Values, Write(v),
           NEW c \in 0 .. 8 * STRIDE - 1, NEW r \in 0 .. ROWS - 1
    PROVE  LitAt(mem', c, r)
             <=> \/ LitAt(mem, c, r) /\ <<c, r>> \notin Field
                 \/ <<c, r>> \in Painted(v)
<1> DEFINE b == c \div 8
           t == NormalX + STRIDE * NormalY
<1>1. /\ STRIDE \in Nat /\ STRIDE >= 1 /\ ROWS \in Nat /\ r \in Int
      /\ c \in Nat /\ c < 8 * STRIDE /\ 0 <= r /\ r < ROWS
      /\ mem \in [0 .. ROWS * STRIDE - 1 -> SUBSET Bits]
  BY LcdAssumption DEF TypeOK
<1>2. b \in Int /\ 0 <= b /\ b < STRIDE
  BY <1>1
<1>3. /\ NormalX \in Int /\ 0 <= NormalX /\ NormalX < STRIDE
      /\ NormalY \in Int /\ 0 <= NormalY /\ NormalY < ROWS
  BY PointerNormal
<1>4. mem' = [mem EXCEPT ![t] = v] /\ Width = 8
  BY DEF Write, Width
<1>5. t = NormalY * STRIDE + NormalX
  BY <1>1, <1>3
<1>6. r * STRIDE + b \in 0 .. ROWS * STRIDE - 1
  BY <1>1, <1>2, InMemory
<1> HIDE DEF b, t
<1>6a. <<c, r>> \in Field <=> (r = NormalY /\ b = NormalX)
  BY <1>4 DEF Field, b
<1>6b. <<c, r>> \in Painted(v) <=> (<<c, r>> \in Field /\ 7 - (c % 8) \in v)
  BY <1>4 DEF Painted
<1>7. CASE r = NormalY /\ b = NormalX
  <2>1. mem'[r * STRIDE + b] = v
    BY <1>1, <1>4, <1>5, <1>6, <1>7
  <2>2. /\ <<c, r>> \in Field
        /\ <<c, r>> \in Painted(v) <=> 7 - (c % 8) \in v
    BY <1>1, <1>2, <1>3, <1>7, <1>6a, <1>6b
  <2> QED  BY <2>1, <2>2 DEF LitAt, b
<1>8. CASE ~(r = NormalY /\ b = NormalX)
  <2>1. r * STRIDE + b # t
    BY <1>1, <1>2, <1>3, <1>5, <1>8, RowMajor
  <2>2. mem'[r * STRIDE + b] = mem[r * STRIDE + b]
    BY <1>1, <1>4, <1>6, <2>1
  <2>3. <<c, r>> \notin Field /\ <<c, r>> \notin Painted(v)
    BY <1>1, <1>2, <1>3, <1>8, <1>6a, <1>6b
  <2> QED  BY <2>2, <2>3 DEF LitAt, b
<1> QED  BY <1>7, <1>8

LEMMA SixPixelsPainted ==
    ASSUME TypeOK, mode = 0, NEW v \in Values, Write(v), v \subseteq 0 .. 5,
           NEW c \in 0 .. 8 * STRIDE - 1, NEW r \in 0 .. ROWS - 1
    PROVE  LitAt(mem', c, r)
             <=> \/ LitAt(mem, c, r) /\ <<c, r>> \notin Field
                 \/ <<c, r>> \in Painted(v)
<1> DEFINE b == c \div 8
           j == 7 - (c % 8)
           b0 == (6 * NormalX) \div 8
           s == (6 * NormalX) % 8
           ofs == NormalY * STRIDE + b0
           at == r * STRIDE + b
           first == [mem EXCEPT ![ofs] = FirstByte(@, v, s)]
<1>1. /\ STRIDE \in Nat /\ STRIDE >= 1 /\ ROWS \in Nat /\ r \in Int
      /\ c \in Nat /\ c < 8 * STRIDE /\ 0 <= r /\ r < ROWS
      /\ mem \in [0 .. ROWS * STRIDE - 1 -> SUBSET Bits]
  BY LcdAssumption DEF TypeOK
<1>2. /\ NormalX \in Nat /\ 6 * NormalX <= 8 * STRIDE - 1
      /\ NormalY \in Int /\ 0 <= NormalY /\ NormalY < ROWS
  BY <1>1, PointerNormal
<1>3. /\ b \in Nat /\ j \in Int /\ 0 <= j /\ j <= 7 /\ c = 8 * b + 7 - j
      /\ b0 \in Nat /\ s \in Int /\ 0 <= s /\ s <= 7
      /\ 6 * NormalX = 8 * b0 + s
      /\ c \div 6 = NormalX <=> 6 * NormalX <= c /\ c <= 6 * NormalX + 5
      /\ c \div 6 = NormalX => c % 6 = c - 6 * NormalX
  BY <1>1, <1>2, GroupArithmetic
<1>4. Width = 6 /\ mem' = SixPixels(v)
  BY DEF Width, Write
<1>5. mem' = IF Spills(s, b0) THEN [first EXCEPT ![ofs + 1] = SecondByte(@, v, s)]
                              ELSE first
  BY <1>4 DEF SixPixels
<1>6. j \in Bits
  BY <1>3 DEF Bits
<1> HIDE DEF b, j, b0, s
<1>7. b < STRIDE /\ b0 < STRIDE
  BY <1>1, <1>2, <1>3
<1>8. at \in 0 .. ROWS * STRIDE - 1 /\ at \in Int /\ ofs \in Int
  <2>1. at \in 0 .. ROWS * STRIDE - 1
    BY <1>1, <1>3, <1>7, InMemory
  <2> QED  BY <1>1, <1>2, <1>3, <2>1
<1>9. /\ at = ofs <=> r = NormalY /\ b = b0
      /\ Spills(s, b0) => (at = ofs + 1 <=> r = NormalY /\ b = b0 + 1)
  <2>1. at = ofs => r = NormalY /\ b = b0
    BY <1>1, <1>2, <1>3, <1>7, RowMajor
  <2>2. ASSUME Spills(s, b0), at = ofs + 1 PROVE r = NormalY /\ b = b0 + 1
    <3>1. b0 + 1 \in Int /\ 0 <= b0 + 1 /\ b0 + 1 < STRIDE
      BY <1>1, <1>3, <2>2 DEF Spills
    <3>2. r * STRIDE + b = NormalY * STRIDE + (b0 + 1)
      BY <1>1, <1>2, <1>3, <2>2
    <3> QED  BY <1>1, <1>2, <1>3, <1>7, <3>1, <3>2, RowMajor
  <2>3. r = NormalY /\ b = b0 => at = ofs
    OBVIOUS
  <2>4. r = NormalY /\ b = b0 + 1 => at = ofs + 1
    BY <1>1, <1>2, <1>3
  <2> QED  BY <2>1, <2>2, <2>3, <2>4
<1>10. /\ <<c, r>> \in Field <=> r = NormalY /\ c \div 6 = NormalX
       /\ <<c, r>> \in Painted(v)
            <=> r = NormalY /\ c \div 6 = NormalX /\ 5 - (c % 6) \in v
  BY <1>4 DEF Field, Painted
<1>11. \A i \in v : i \in Int /\ 0 <= i /\ i <= 5
  OBVIOUS
<1> HIDE DEF at, ofs, first
<1>12. CASE r = NormalY /\ b = b0
  <2>1. mem'[at] = FirstByte(mem[at], v, s)
    BY <1>1, <1>5, <1>8, <1>9, <1>12 DEF first
  <2>2. c \div 6 = NormalX <=> 2 <= j + s /\ j + s <= 7
    BY <1>1, <1>2, <1>3, <1>12
  <2>3. c \div 6 = NormalX => 5 - (c % 6) = j + s - 2
    BY <1>1, <1>2, <1>3, <1>12
  <2>4. j \in FirstByte(mem[at], v, s)
          <=> \/ j \in mem[at] /\ ~(2 <= j + s /\ j + s <= 7)
              \/ j + s - 2 \in v
    BY <1>3, <1>6 DEF FirstByte
  <2>5. j + s - 2 \in v => 2 <= j + s /\ j + s <= 7
    BY <1>3, <1>11
  <2> QED  BY <1>10, <1>12, <2>1, <2>2, <2>3, <2>4, <2>5 DEF LitAt, at, b, j
<1>13. CASE r = NormalY /\ b = b0 + 1 /\ Spills(s, b0)
  <2>1. at = ofs + 1 /\ at # ofs
    BY <1>8, <1>9, <1>13
  <2>2. first[at] = mem[at] /\ first \in [0 .. ROWS * STRIDE - 1 -> {first[q] : q \in 0 .. ROWS * STRIDE - 1}]
    BY <1>1, <1>8, <2>1 DEF first
  <2>3. mem'[at] = SecondByte(mem[at], v, s)
    BY <1>5, <1>8, <1>13, <2>1, <2>2
  <2>4. c \div 6 = NormalX <=> 10 <= j + s
    BY <1>1, <1>2, <1>3, <1>13
  <2>5. c \div 6 = NormalX => 5 - (c % 6) = j + s - 10
    BY <1>1, <1>2, <1>3, <1>13
  <2>6. j \in SecondByte(mem[at], v, s)
          <=> (j \in mem[at] /\ ~(10 <= j + s)) \/ j + s - 10 \in v
    BY <1>3, <1>6 DEF SecondByte
  <2>7. j + s - 10 \in v => 10 <= j + s
    BY <1>3, <1>11
  <2> QED  BY <1>10, <1>13, <2>3, <2>4, <2>5, <2>6, <2>7 DEF LitAt, at, b, j
<1>14. CASE /\ ~(r = NormalY /\ b = b0)
            /\ ~(r = NormalY /\ b = b0 + 1 /\ Spills(s, b0))
  <2>1. mem'[at] = mem[at]
    BY <1>1, <1>5, <1>8, <1>9, <1>14 DEF first
  <2>2. r = NormalY => c \div 6 # NormalX
    BY <1>1, <1>2, <1>3, <1>7, <1>14 DEF Spills
  <2> QED  BY <1>10, <2>1, <2>2 DEF LitAt, at, b, j
<1> QED  BY <1>12, <1>13, <1>14

LEMMA WritePaints ==
    ASSUME TypeOK, NEW v \in Values, Write(v), v \subseteq 0 .. Width - 1
    PROVE  Lit(mem') = (Lit(mem) \ Field) \cup Painted(v)
<1>1. mode = 1 \/ (mode = 0 /\ v \subseteq 0 .. 5)
  BY DEF TypeOK, Width
<1>2. \A c \in 0 .. 8 * STRIDE - 1, r \in 0 .. ROWS - 1 :
          LitAt(mem', c, r)
             <=> \/ LitAt(mem, c, r) /\ <<c, r>> \notin Field
                 \/ <<c, r>> \in Painted(v)
  BY <1>1, EightPixels, SixPixelsPainted
<1>3. NormalY \in 0 .. ROWS - 1
  BY PointerNormal, LcdAssumption
<1> DEFINE P == (0 .. 8 * STRIDE - 1) \X (0 .. ROWS - 1)
<1>4. Painted(v) \subseteq P
  BY <1>3 DEF Painted, Field
<1>5. \A m : Lit(m) = {p \in P : LitAt(m, p[1], p[2])}
  BY DEF Lit, LitAt
<1>6. ASSUME NEW p \in P
      PROVE  p \in Lit(mem') <=> p \in (Lit(mem) \ Field) \cup Painted(v)
  <2>1. /\ p[1] \in 0 .. 8 * STRIDE - 1 /\ p[2] \in 0 .. ROWS - 1
        /\ p = <<p[1], p[2]>>
    OBVIOUS
  <2>2. p \in Lit(mem') <=> LitAt(mem', p[1], p[2])
    BY <1>5
  <2>3. p \in Lit(mem) <=> LitAt(mem, p[1], p[2])
    BY <1>5
  <2>4. LitAt(mem', p[1], p[2])
          <=> \/ LitAt(mem, p[1], p[2]) /\ p \notin Field
              \/ p \in Painted(v)
    BY <1>2, <2>1
  <2> QED  BY <2>2, <2>3, <2>4
<1>7. Lit(mem') \subseteq P /\ Lit(mem) \subseteq P
  BY <1>5
<1> HIDE DEF P
<1> QED  BY <1>4, <1>6, <1>7

\* Types; the pointer stays where the next transfer can bring it back.
THEOREM TypeCorrect == Spec => []TypeOK
<1>1. Inv => TypeOK
  BY DEF Inv
<1> QED  BY InitReplay, NextReplay, <1>1, PTL DEF Spec

\* The initial picture and the events explain the final picture.
THEOREM LogIsComplete == Spec => []LogExplains
<1>1. Inv => LogExplains
  BY DEF Inv
<1> QED  BY InitReplay, NextReplay, <1>1, PTL DEF Spec

\* A data byte that fits paints its pixels and no other, in any memory size.
THEOREM WritesAreExact == Spec => FieldExact
<1>1. Inv /\ [Next]_vars =>
        [\A v \in Values :
            Write(v) /\ v \subseteq 0 .. Width - 1
                => Lit(mem') = (Lit(mem) \ Field) \cup Painted(v)]_vars
  BY WritePaints DEF Inv
<1> QED  BY InitReplay, NextReplay, <1>1, PTL DEF Spec, FieldExact
=============================================================================
