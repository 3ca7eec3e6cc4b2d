------------------------- MODULE LinkStagingProofs -------------------------
(***************************************************************************)
(* Proofs about the receive loop, for every block size up to a page and    *)
(* every payload.                                                          *)
(***************************************************************************)
EXTENDS LinkStaging, TLAPS

-----------------------------------------------------------------------------
(* The inductive invariant.                                                *)

\* Every byte of the payload is programmed, dropped, in the buffer or still
\* to come; a payload for RAM is none of these.
Accounted ==
    /\ step = "route" => /\ page = start[1] /\ dest = start[2]
                         /\ written = 0 /\ lost = 0 /\ count = 0
                         /\ left = length
    /\ step \in {"fill", "flush", "worker", "save"} => start[2] <= TOP
    /\ step \in {"fill", "save", "done"} => count = 0
    /\ step = "flush" => count > 0
    /\ step = "done" => left = 0
    /\ IF start[2] <= TOP
       THEN written + lost + count + left = length
       ELSE written = 0

\* Payload bytes for Flash go to addresses of the bank window.
InWindow ==
    /\ step \in {"route", "fill", "flush", "worker", "save"} => BASE <= dest
    /\ step \in {"worker", "save"} => BASE <= de

\* Where the receiver's cursor and the worker's stand in Flash.
ReceiverAt == Linear(Normalized(page), dest)
WorkerAt   == Linear(wpage, de)

\* As long as no block was dropped, both cursors follow the payload.  While
\* a block is programmed, the worker is ahead of the receiver by what it
\* has written of the block, and at most on the next page.
Following == lost = 0 /\ start[2] <= TOP

CursorInv ==
    Following =>
        /\ BASE <= dest /\ dest <= TOP + 1
        /\ Normalized(page) >= Normalized(start[1])
        /\ step \in {"route", "fill", "flush", "done"} =>
              ReceiverAt = Origin + written
        /\ step \in {"worker", "save"} =>
              /\ Eligible(page)
              /\ WorkerAt = Origin + written
              /\ ReceiverAt <= WorkerAt
              /\ WorkerAt + count <= ReceiverAt + BLOCK
              /\ ReceiverAt < WorkerAt \/ count > 0
              /\ de <= TOP + 1
              /\ \/ wpage = Normalized(page) /\ BASE <= de
                 \/ wpage = Normalized(page) + 1 /\ BASE < de

\* A block is dropped only when the payload has left the range.
DropInv ==
    lost > 0 => ~(Eligible(start[1]) /\ Origin + length <= Limit)

IInv ==
    /\ TypeOK
    /\ Accounted
    /\ InWindow
    /\ CursorInv
    /\ DropInv
    /\ Contiguous
    /\ SpillsOneBlock

-----------------------------------------------------------------------------
(* Widths and pages.                                                       *)

\* The constants of the bank window and of the registers.
LEMMA Numbers ==
    /\ BASE \in Nat /\ BASE <= 16384 /\ 16384 <= BASE
    /\ TOP \in Nat /\ TOP <= 32767 /\ 32767 <= TOP
    /\ BYTES \in Nat /\ BYTES <= 256 /\ 256 <= BYTES
    /\ WORDS \in Nat /\ WORDS <= 65536 /\ 65536 <= WORDS
  BY DEF BASE, TOP, BYTES, WORDS

\* A register keeps what fits into it.
LEMMA Registers ==
    ASSUME NEW n \in Nat
    PROVE  n % BYTES \in 0 .. BYTES - 1 /\ n % WORDS \in 0 .. WORDS - 1
  BY Numbers

\* What the types say of the numbers of a state.
LEMMA Widths ==
    ASSUME TypeOK
    PROVE  /\ start[1] \in Nat /\ start[1] <= 255
           /\ start[2] \in Nat /\ 16384 <= start[2] /\ start[2] <= 65535
           /\ length \in Nat /\ length <= 65535
           /\ BLOCK \in Nat /\ 1 <= BLOCK /\ BLOCK <= 16384
           /\ page \in Nat /\ page <= 255
           /\ dest \in Nat /\ dest <= 65535
           /\ wpage \in Nat /\ wpage <= 255
           /\ de \in Nat /\ de <= 65535
           /\ left \in Nat /\ count \in Nat /\ count <= BLOCK
           /\ written \in Nat /\ lost \in Nat /\ last \in Nat
<1>1. start \in (0 .. BYTES - 1) \X (BASE .. WORDS - 1)
  BY StagingAssumption DEF TypeOK
<1>2. start[1] \in 0 .. BYTES - 1 /\ start[2] \in BASE .. WORDS - 1
  BY <1>1
<1>3. /\ length \in 0 .. WORDS - 1 /\ BLOCK \in 1 .. BASE
      /\ page \in 0 .. BYTES - 1 /\ dest \in 0 .. WORDS - 1
      /\ wpage \in 0 .. BYTES - 1 /\ de \in 0 .. WORDS - 1
  BY StagingAssumption DEF TypeOK
<1>4. /\ left \in 0 .. length /\ count \in 0 .. BLOCK
      /\ written \in 0 .. length /\ lost \in 0 .. length /\ last \in Nat
  BY DEF TypeOK
<1> QED
  BY <1>2, <1>3, <1>4, Numbers

\* The next byte of the worker fits into its registers.
LEMMA WorkerFits ==
    ASSUME TypeOK
    PROVE  /\ (wpage + 1) % BYTES \in 0 .. BYTES - 1
           /\ (de + 1) % WORDS \in 0 .. WORDS - 1
           /\ (BASE + 1) % WORDS \in 0 .. WORDS - 1
<1>1. wpage + 1 \in Nat /\ de + 1 \in Nat /\ BASE + 1 \in Nat
  BY Widths, Numbers
<1> QED
  BY <1>1, Registers

\* The worker's byte: on the next page when the address has left the window,
\* and on the same page otherwise.
LEMMA WorkerMoves ==
    ASSUME TypeOK, WorkerByte
    PROVE  \/ /\ TOP < de /\ wpage' = (wpage + 1) % BYTES /\ de' = BASE + 1
              /\ last' = Linear(wpage', BASE)
           \/ /\ de <= TOP /\ wpage' = wpage /\ de' = de + 1
              /\ last' = Linear(wpage, de)
<1>1. CASE de > TOP
  <2>1. (BASE + 1) % WORDS = BASE + 1
    BY DEF BASE, WORDS
  <2> QED
    BY <1>1, <2>1 DEF WorkerByte, Wraps, worker
<1>2. CASE ~(de > TOP)
  <2>1. de <= TOP /\ de \in Nat
    BY <1>2, Widths, Numbers
  <2>2. (de + 1) % WORDS = de + 1
    BY <2>1 DEF TOP, WORDS
  <2> QED
    BY <1>2, <2>1, <2>2 DEF WorkerByte, Wraps, worker
<1> QED
  BY <1>1, <1>2

\* A masked page is a page of the part; behind one that may be programmed
\* there is another page, and the stored page finds it.
LEMMA Pages ==
    ASSUME profile \in PAGE_RANGE_PROFILES, NEW q \in Nat, q <= 255
    PROVE  /\ Normalized(q) \in Nat /\ Normalized(q) <= 127
           /\ profile.lower \in Nat /\ profile.upper \in Nat
           /\ Eligible(q) => Normalized((q + 1) % 256) = Normalized(q) + 1
<1>1. CASE profile = [pages |-> 64, lower |-> 8, upper |-> 42]
  BY <1>1 DEF Normalized, Eligible
<1>2. CASE profile = [pages |-> 32, lower |-> 8, upper |-> 22]
  BY <1>2 DEF Normalized, Eligible
<1>3. CASE profile = [pages |-> 128, lower |-> 8, upper |-> 106]
  BY <1>3 DEF Normalized, Eligible
<1> QED
  BY <1>1, <1>2, <1>3 DEF PAGE_RANGE_PROFILES

\* The masks of the stored page and of the page the payload was sent to.
LEMMA Masks ==
    ASSUME TypeOK
    PROVE  /\ Normalized(page) \in Nat /\ Normalized(page) <= 127
           /\ Normalized(start[1]) \in Nat
           /\ profile.lower \in Nat /\ profile.upper \in Nat
           /\ Eligible(page) =>
                 Normalized((page + 1) % BYTES) = Normalized(page) + 1
           /\ Origin \in Nat
<1>1. profile \in PAGE_RANGE_PROFILES
  BY DEF TypeOK
<1>2. Normalized(start[1]) \in Nat
  BY <1>1, Pages, Widths
<1>3. Origin \in Nat
  BY <1>2, Widths DEF Origin, Linear, BASE
<1> QED
  BY <1>1, <1>2, <1>3, Pages, Widths DEF BYTES

\* A payload keeps its origin, its range and the masks of its part.
LEMMA PayloadKept ==
    ASSUME UNCHANGED payload
    PROVE  /\ profile' = profile /\ start' = start /\ length' = length
           /\ Origin' = Origin /\ Limit' = Limit
           /\ Normalized(page)' = Normalized(page')
           /\ Normalized(start[1])' = Normalized(start[1])
           /\ Eligible(page)' <=> Eligible(page')
           /\ Eligible(start[1])' <=> Eligible(start[1])
  BY DEF payload, Origin, Limit, Linear, Normalized, Eligible

\* No step changes the payload.
LEMMA NextKeepsPayload == ASSUME Next PROVE UNCHANGED payload
  BY DEF Next, RouteToRam, RouteToFlash, Fill, Finish, CallWorker, SkipWorker,
         WorkerByte, WorkerReturns, Save

\* Steps that move neither cursor leave both where they belong.
LEMMA StandStill ==
    ASSUME CursorInv, UNCHANGED <<payload, cursor, worker, written, lost>>,
           \/ /\ step \in {"route", "fill", "flush", "done"}
              /\ step' \in {"route", "fill", "flush", "done"}
           \/ step = "worker" /\ step' = "save" /\ UNCHANGED count
    PROVE  CursorInv'
<1>1. /\ dest' = dest /\ de' = de /\ wpage' = wpage /\ page' = page
      /\ written' = written /\ lost' = lost
  BY DEF cursor, worker
<1>2. ReceiverAt' = ReceiverAt /\ WorkerAt' = WorkerAt
  BY <1>1, PayloadKept DEF ReceiverAt, WorkerAt, Linear
<1>3. (Following' <=> Following) /\ Origin' = Origin
  BY <1>1, PayloadKept DEF Following
<1>4. /\ Normalized(page)' = Normalized(page)
      /\ Normalized(start[1])' = Normalized(start[1])
      /\ Eligible(page)' <=> Eligible(page)
  BY <1>1, PayloadKept
<1> QED
  BY <1>1, <1>2, <1>3, <1>4 DEF CursorInv

-----------------------------------------------------------------------------
(* The invariant holds initially, and each step preserves each layer.      *)

\* A payload that is about to be routed satisfies every layer.
LEMMA InvInit == Init => IInv
<1> SUFFICES ASSUME Init PROVE IInv
  OBVIOUS
<1>1. TypeOK
  <2>1. start \in (0 .. BYTES - 1) \X (BASE .. WORDS - 1)
    BY StagingAssumption DEF Init
  <2>2. start[1] \in 0 .. BYTES - 1 /\ start[2] \in BASE .. WORDS - 1
    BY <2>1
  <2>3. length \in 0 .. WORDS - 1 /\ BLOCK \in 1 .. BASE
    BY StagingAssumption DEF Init
  <2> QED
    BY <2>2, <2>3, Numbers DEF Init, TypeOK
<1>2. Accounted
  BY <1>1, Widths DEF Init, Accounted, TOP
<1>3. InWindow
  BY <1>1, Widths DEF Init, InWindow, BASE
<1>4. CursorInv /\ DropInv /\ Contiguous /\ SpillsOneBlock
  BY <1>1, Widths, Pages
  DEF Init, CursorInv, Following, DropInv, Contiguous, SpillsOneBlock,
      ReceiverAt, Origin, Linear, BASE, TOP
<1> QED
  BY <1>1, <1>2, <1>3, <1>4 DEF IInv

\* Types: no cursor outgrows its register.
LEMMA TypeStep ==
    ASSUME IInv, Next PROVE TypeOK'
<1> USE DEF payload, cursor, worker, effects, IInv, TypeOK
<1>1. CASE RouteToRam
  <2>1. dest + length \in Nat /\ 0 <= length
    BY Widths
  <2>2. (dest + length) % WORDS \in 0 .. WORDS - 1
    BY <2>1, Registers
  <2>3. 0 \in 0 .. length /\ length \in 0 .. length
    BY Widths
  <2> QED
    BY <1>1, <2>2, <2>3 DEF RouteToRam
<1>2. CASE RouteToFlash
  BY <1>2 DEF RouteToFlash
<1>3. CASE Fill
  <2>1. count' \in 0 .. BLOCK /\ left' \in 0 .. length
    BY <1>3, Widths DEF Fill
  <2> QED
    BY <1>3, <2>1 DEF Fill
<1>4. CASE Finish
  BY <1>4 DEF Finish
<1>5. CASE CallWorker
  <2>1. Normalized(page) \in 0 .. BYTES - 1
    BY Pages, Widths, Numbers
  <2> QED
    BY <1>5, <2>1 DEF CallWorker
<1>6. CASE SkipWorker
  <2>1. lost' \in 0 .. length /\ 0 \in 0 .. BLOCK
    BY <1>6, Widths DEF SkipWorker, Accounted
  <2> QED
    BY <1>6, <2>1 DEF SkipWorker
<1>7. CASE WorkerByte
  <2>1. written' \in 0 .. length /\ count' \in 0 .. BLOCK
    <3>1. count > 0 /\ count' = count - 1 /\ written' = written + 1
      BY <1>7 DEF WorkerByte
    <3>2. written + lost + count + left = length
      BY <1>7 DEF WorkerByte, Accounted
    <3> QED
      BY <3>1, <3>2, Widths
  <2>3. wpage' \in 0 .. BYTES - 1 /\ de' \in 0 .. WORDS - 1
    BY <1>7, WorkerFits DEF WorkerByte
  <2>4. last' \in Nat
    <3>1. BASE <= de
      BY <1>7 DEF WorkerByte, InWindow
    <3>2. wpage' \in Nat
      BY <2>3, Numbers
    <3>3. \/ last' = wpage' * 16384
          \/ last' = wpage' * 16384 + (de - 16384)
      BY <1>7, <3>2, WorkerMoves DEF Linear, BASE
    <3> QED
      BY <3>1, <3>2, <3>3, Numbers, Widths
  <2> QED
    BY <1>7, <2>1, <2>3, <2>4 DEF WorkerByte
<1>8. CASE WorkerReturns
  BY <1>8 DEF WorkerReturns
<1>9. CASE Save
  <2>1. (page + 1) % BYTES \in 0 .. BYTES - 1
    BY Widths, Registers
  <2> QED
    BY <1>9, <2>1 DEF Save
<1> QED
  BY <1>1, <1>2, <1>3, <1>4, <1>5, <1>6, <1>7, <1>8, <1>9 DEF Next

\* No byte is counted twice and none disappears.
LEMMA AccountStep ==
    ASSUME IInv, Next PROVE Accounted'
<1> USE Widths
    DEF payload, cursor, worker, effects, IInv, Accounted, TOP
<1>1. CASE RouteToRam
  BY <1>1 DEF RouteToRam
<1>2. CASE RouteToFlash
  BY <1>2 DEF RouteToFlash
<1>3. CASE Fill
  BY <1>3 DEF Fill
<1>4. CASE Finish
  BY <1>4 DEF Finish
<1>5. CASE CallWorker
  BY <1>5 DEF CallWorker
<1>6. CASE SkipWorker
  BY <1>6 DEF SkipWorker
<1>7. CASE WorkerByte
  BY <1>7 DEF WorkerByte
<1>8. CASE WorkerReturns
  BY <1>8 DEF WorkerReturns
<1>9. CASE Save
  BY <1>9 DEF Save
<1> QED
  BY <1>1, <1>2, <1>3, <1>4, <1>5, <1>6, <1>7, <1>8, <1>9 DEF Next

\* The bank window is never left downwards.
LEMMA WindowStep ==
    ASSUME IInv, Next PROVE InWindow'
<1> USE Widths
    DEF payload, cursor, worker, effects, IInv, Accounted, InWindow, BASE,
        TOP, Wraps
<1>1. CASE RouteToRam
  BY <1>1 DEF RouteToRam
<1>2. CASE RouteToFlash
  BY <1>2 DEF RouteToFlash
<1>3. CASE Fill
  BY <1>3 DEF Fill
<1>4. CASE Finish
  BY <1>4 DEF Finish
<1>5. CASE CallWorker
  BY <1>5 DEF CallWorker
<1>6. CASE SkipWorker
  BY <1>6 DEF SkipWorker
<1>7. CASE WorkerByte
  <2>1. BASE <= de' /\ BASE <= dest
    BY <1>7, WorkerMoves DEF WorkerByte
  <2> QED
    BY <1>7, <2>1 DEF WorkerByte
<1>8. CASE WorkerReturns
  BY <1>8 DEF WorkerReturns
<1>9. CASE Save
  BY <1>9 DEF Save
<1> QED
  BY <1>1, <1>2, <1>3, <1>4, <1>5, <1>6, <1>7, <1>8, <1>9 DEF Next

\* The receiver's inference finds the worker's page.
LEMMA CursorStep ==
    ASSUME IInv, Next PROVE CursorInv'
<1> USE NextKeepsPayload, PayloadKept
    DEF cursor, worker, effects, IInv, Accounted
<1>1. CASE RouteToRam
  <2>1. start' = start /\ start[2] > TOP
    BY <1>1 DEF RouteToRam
  <2>2. ~(start[2] <= TOP)
    BY <2>1, Widths, Numbers
  <2> QED
    BY <2>1, <2>2 DEF CursorInv, Following
<1>2. CASE RouteToFlash
  BY <1>2, StandStill DEF RouteToFlash
<1>3. CASE Fill
  BY <1>3, StandStill DEF Fill
<1>4. CASE Finish
  BY <1>4, StandStill DEF Finish
<1>5. CASE CallWorker
  <2>1. step = "flush" /\ step' = "worker" /\ wpage' = Normalized(page)
        /\ de' = dest /\ Eligible(page)
        /\ page' = page /\ dest' = dest /\ count' = count
        /\ written' = written /\ lost' = lost /\ start' = start
    BY <1>5 DEF CallWorker
  <2> SUFFICES ASSUME Following PROVE CursorInv'
    BY <2>1 DEF CursorInv, Following
  <2>2. BASE <= dest /\ dest <= TOP + 1 /\ ReceiverAt = Origin + written
        /\ Normalized(page) >= Normalized(start[1])
    BY <2>1 DEF CursorInv
  <2>3. WorkerAt' = ReceiverAt /\ ReceiverAt' = ReceiverAt
    BY <2>1 DEF WorkerAt, ReceiverAt, Linear
  <2>4. ReceiverAt \in Nat
    BY <2>2, Widths, Masks
  <2>5. ReceiverAt + count <= ReceiverAt + BLOCK /\ count > 0
    BY <2>1, <2>4, Widths
  <2>6. /\ Normalized(page)' = Normalized(page)
        /\ Normalized(start[1])' = Normalized(start[1])
        /\ Eligible(page)' /\ Origin' = Origin
    BY <2>1
  <2>7. ReceiverAt' <= WorkerAt' /\ WorkerAt' + count' <= ReceiverAt' + BLOCK
    BY <2>1, <2>3, <2>4, <2>5
  <2>8. WorkerAt' = Origin' + written' /\ count' > 0
    BY <2>1, <2>2, <2>3, <2>5, <2>6
  <2>9. wpage' = Normalized(page)' /\ BASE <= de' /\ de' <= TOP + 1
    BY <2>1, <2>2, <2>6
  <2>10. /\ BASE <= dest' /\ dest' <= TOP + 1
         /\ Normalized(page)' >= Normalized(start[1])'
    BY <2>1, <2>2, <2>6
  <2> HIDE NextKeepsPayload, PayloadKept DEF IInv, Accounted
  <2> QED
    BY <2>1, <2>6, <2>7, <2>8, <2>9, <2>10 DEF CursorInv
<1>6. CASE SkipWorker
  <2>1. lost' = lost + count /\ count > 0
    BY <1>6 DEF SkipWorker
  <2>2. lost' # 0
    BY <2>1, Widths
  <2> QED
    BY <2>2 DEF CursorInv, Following
<1>7. CASE WorkerByte
  <2>1. step = "worker" /\ step' = "worker" /\ count > 0
        /\ page' = page /\ dest' = dest /\ count' = count - 1
        /\ written' = written + 1 /\ lost' = lost /\ start' = start
    BY <1>7 DEF WorkerByte
  <2> SUFFICES ASSUME Following PROVE CursorInv'
    BY <2>1 DEF CursorInv, Following
  <2>2. /\ BASE <= dest /\ dest <= TOP + 1
        /\ Normalized(page) >= Normalized(start[1])
        /\ Eligible(page)
        /\ WorkerAt = Origin + written
        /\ ReceiverAt <= WorkerAt /\ WorkerAt + count <= ReceiverAt + BLOCK
        /\ de <= TOP + 1
        /\ \/ wpage = Normalized(page) /\ BASE <= de
           \/ wpage = Normalized(page) + 1 /\ BASE < de
    BY <2>1 DEF CursorInv
  <2>3. /\ Normalized(page)' = Normalized(page)
        /\ Normalized(start[1])' = Normalized(start[1])
        /\ Eligible(page)' /\ Origin' = Origin
    BY <2>1, <2>2
  <2>4. ReceiverAt' = ReceiverAt
    BY <2>1, <2>3 DEF ReceiverAt, Linear
  <2>5. ReceiverAt \in Nat /\ WorkerAt \in Nat
    BY <2>2, Widths, Masks DEF ReceiverAt, Linear, BASE
  <2>6. WorkerAt' = WorkerAt + 1 /\ de' <= TOP + 1
        /\ \/ wpage' = Normalized(page) /\ BASE <= de'
           \/ wpage' = Normalized(page) + 1 /\ BASE < de'
    <3>1. CASE TOP < de /\ wpage' = (wpage + 1) % BYTES /\ de' = BASE + 1
      <4>0. WorkerAt < ReceiverAt + 16384
        BY <2>1, <2>2, <2>5, Widths
      <4>1. de = TOP + 1 /\ wpage = Normalized(page)
        <5>1. de = 32768
          BY <3>1, <2>2, Widths DEF TOP
        <5>2. wpage # Normalized(page) + 1
          <6> SUFFICES ASSUME wpage = Normalized(page) + 1 PROVE FALSE
            OBVIOUS
          <6>1. WorkerAt = (Normalized(page) + 1) * 16384 + 16384
            BY <5>1, Masks DEF WorkerAt, Linear, BASE
          <6>2. ReceiverAt <= Normalized(page) * 16384 + 16384
            BY <2>2, Widths, Masks DEF ReceiverAt, Linear, BASE, TOP
          <6> QED
            BY <4>0, <6>1, <6>2, <2>5, Masks
        <5> QED
          BY <5>1, <5>2, <2>2 DEF TOP
      <4>2. wpage' = wpage + 1
        BY <3>1, <4>1, Masks, Widths DEF BYTES
      <4> QED
        BY <3>1, <4>1, <4>2, Widths, Masks DEF WorkerAt, Linear, BASE, TOP
    <3>2. CASE de <= TOP /\ wpage' = wpage /\ de' = de + 1
      BY <3>2, <2>2, Widths, Masks DEF WorkerAt, Linear, BASE, TOP
    <3> QED
      BY <1>7, <3>1, <3>2, WorkerMoves
  <2>7. ReceiverAt' <= WorkerAt' /\ ReceiverAt' < WorkerAt'
        /\ WorkerAt' + count' <= ReceiverAt' + BLOCK
    BY <2>1, <2>2, <2>4, <2>5, <2>6, Widths
  <2>8. WorkerAt' = Origin' + written'
    BY <2>1, <2>2, <2>3, <2>5, <2>6, Widths, Masks
  <2> HIDE NextKeepsPayload, PayloadKept DEF IInv, Accounted
  <2> QED
    BY <2>1, <2>2, <2>3, <2>6, <2>7, <2>8 DEF CursorInv
<1>8. CASE WorkerReturns
  BY <1>8, StandStill DEF WorkerReturns
<1>9. CASE Save
  <2>1. step = "save" /\ step' = "fill" /\ dest' = de
        /\ page' = (IF dest >= de THEN (page + 1) % BYTES ELSE page)
        /\ written' = written /\ lost' = lost /\ start' = start
    BY <1>9 DEF Save
  <2> SUFFICES ASSUME Following PROVE CursorInv'
    BY <2>1 DEF CursorInv, Following
  <2>2. /\ BASE <= dest /\ dest <= TOP + 1
        /\ Normalized(page) >= Normalized(start[1])
        /\ Eligible(page)
        /\ WorkerAt = Origin + written
        /\ ReceiverAt <= WorkerAt /\ WorkerAt + count <= ReceiverAt + BLOCK
        /\ ReceiverAt < WorkerAt \/ count > 0
        /\ de <= TOP + 1
        /\ \/ wpage = Normalized(page) /\ BASE <= de
           \/ wpage = Normalized(page) + 1 /\ BASE < de
    BY <2>1 DEF CursorInv
  <2>8. ReceiverAt \in Nat /\ WorkerAt \in Nat
    BY <2>2, Widths, Masks DEF ReceiverAt, Linear, BASE
  <2>9. count = 0
    BY <2>1
  <2>10. ReceiverAt < WorkerAt /\ WorkerAt <= ReceiverAt + BLOCK
    BY <2>2, <2>8, <2>9
  <2>3. BLOCK <= BASE
    BY Widths DEF BASE
  <2>4. Normalized(page') = wpage /\ BASE <= de
    <3>1. CASE wpage = Normalized(page) /\ BASE <= de
      <4>1. dest < de
        BY <3>1, <2>10, Widths, Masks DEF ReceiverAt, WorkerAt, Linear, BASE
      <4> QED
        BY <4>1, <3>1, <2>1, Widths
    <3>2. CASE wpage = Normalized(page) + 1 /\ BASE < de
      <4>1. de <= dest
        BY <3>2, <2>10, <2>3, Widths, Masks
        DEF ReceiverAt, WorkerAt, Linear, BASE
      <4>2. page' = (page + 1) % BYTES
        BY <4>1, <2>1, Widths
      <4> QED
        BY <4>2, <3>2, <2>2, Masks, Widths DEF BASE
    <3> QED
      BY <3>1, <3>2, <2>2
  <2>5. /\ Normalized(page)' = wpage
        /\ Normalized(start[1])' = Normalized(start[1]) /\ Origin' = Origin
    BY <2>1, <2>4
  <2>6. ReceiverAt' = Origin' + written'
    BY <2>1, <2>2, <2>5 DEF ReceiverAt, WorkerAt, Linear
  <2>7. Normalized(page)' >= Normalized(start[1])'
    BY <2>2, <2>5, Masks
  <2> HIDE NextKeepsPayload, PayloadKept DEF IInv, Accounted
  <2> QED
    BY <2>1, <2>2, <2>4, <2>6, <2>7 DEF CursorInv
<1> QED
  BY <1>1, <1>2, <1>3, <1>4, <1>5, <1>6, <1>7, <1>8, <1>9 DEF Next

\* A block is dropped only behind the last page of the range.
LEMMA DropStep == ASSUME IInv, Next PROVE DropInv'
<1> USE NextKeepsPayload, PayloadKept
<1>1. CASE SkipWorker
  <2> SUFFICES ASSUME Eligible(start[1]), Origin + length <= Limit PROVE FALSE
    BY DEF DropInv
  <2>1. TypeOK /\ lost = 0
    BY Widths DEF IInv, DropInv
  <2>2. step = "flush" /\ ~Eligible(page)
    BY <1>1 DEF SkipWorker
  <2>3. count > 0 /\ start[2] <= TOP
    BY <2>2 DEF IInv, Accounted
  <2>4. written + count + left = length
    BY <2>1, <2>3, Widths DEF IInv, Accounted
  <2>5. /\ ReceiverAt = Origin + written /\ BASE <= dest
        /\ Normalized(page) >= Normalized(start[1])
    BY <2>1, <2>2, <2>3 DEF IInv, CursorInv, Following
  <2>6. ReceiverAt < Limit
    BY <2>1, <2>3, <2>4, <2>5, Widths, Masks DEF Limit, Linear, BASE
  <2>7. Normalized(page) < profile.upper
    BY <2>1, <2>5, <2>6, Widths, Masks DEF ReceiverAt, Limit, Linear, BASE
  <2>8. Normalized(page) >= profile.lower
    BY <2>1, <2>5, Masks DEF Eligible
  <2> QED
    BY <2>2, <2>7, <2>8 DEF Eligible
<1>2. CASE ~SkipWorker
  <2>1. lost' = lost
    BY <1>2 DEF Next, RouteToRam, RouteToFlash, Fill, Finish, CallWorker,
       WorkerByte, WorkerReturns, Save, effects
  <2> QED
    BY <2>1 DEF IInv, DropInv
<1> QED
  BY <1>1, <1>2

\* A byte lands where the worker stands, less than a block behind a start
\* inside the range.
LEMMA PlaceStep ==
    ASSUME IInv, Next, TypeOK', Accounted', CursorInv'
    PROVE  Contiguous' /\ SpillsOneBlock'
<1>1. CASE WorkerByte
  <2> SUFFICES ASSUME lost' = 0
               PROVE  /\ last' = Origin' + written' - 1
                      /\ last' < Limit' + BLOCK
    BY DEF Contiguous, SpillsOneBlock
  <2>1. TypeOK /\ step' = "worker"
    BY <1>1 DEF WorkerByte, IInv
  <2>2. start'[2] <= TOP
    BY <2>1 DEF Accounted
  <2>3. /\ Eligible(page)' /\ WorkerAt' = Origin' + written'
        /\ WorkerAt' + count' <= ReceiverAt' + BLOCK /\ dest' <= TOP + 1
    BY <2>1, <2>2 DEF CursorInv, Following
  <2>4. /\ wpage' \in Nat /\ dest' \in Nat /\ count' \in Nat
        /\ written' \in Nat /\ BLOCK \in Nat
    <3>1. /\ wpage' \in 0 .. BYTES - 1 /\ dest' \in 0 .. WORDS - 1
          /\ count' \in 0 .. BLOCK /\ written' \in 0 .. length'
      BY DEF TypeOK
    <3>2. BLOCK \in Nat /\ length' \in Nat
      BY <2>1, Widths, NextKeepsPayload, PayloadKept
    <3> QED
      BY <3>1, <3>2, Numbers
  <2>5. /\ Normalized(page)' \in Nat /\ Origin' \in Nat
        /\ profile'.upper \in Nat
    <3>1. page' = page
      BY <1>1 DEF WorkerByte, cursor
    <3> QED
      BY <2>1, <3>1, Masks, NextKeepsPayload, PayloadKept
  <2>6. last' = WorkerAt' - 1
    BY <1>1, <2>1, <2>4, Widths, WorkerMoves DEF WorkerAt, Linear, BASE
  <2>7. ReceiverAt' <= Limit'
    BY <2>3, <2>4, <2>5
    DEF Eligible, ReceiverAt, Limit, Linear, BASE, TOP
  <2>8. ReceiverAt' \in Int /\ Limit' \in Int
    BY <2>4, <2>5 DEF ReceiverAt, Limit, Linear, BASE
  <2>9. WorkerAt' \in Int /\ count' >= 0
    BY <2>3, <2>4, <2>5
  <2>10. last' < Limit' + BLOCK
    BY <2>3, <2>4, <2>6, <2>7, <2>8, <2>9
  <2> QED
    BY <2>3, <2>4, <2>5, <2>6, <2>9, <2>10
<1>2. CASE SkipWorker
  <2>1. lost' # 0
    BY <1>2, Widths DEF SkipWorker, IInv, Accounted
  <2> QED
    BY <2>1 DEF Contiguous, SpillsOneBlock
<1>3. CASE ~WorkerByte /\ ~SkipWorker
  <2>1. written' = written /\ lost' = lost /\ last' = last
    BY <1>3 DEF Next, RouteToRam, RouteToFlash, Fill, Finish, CallWorker,
       WorkerReturns, Save, effects
  <2> QED
    BY <2>1, NextKeepsPayload, PayloadKept
    DEF IInv, Contiguous, SpillsOneBlock
<1> QED
  BY <1>1, <1>2, <1>3

\* A step that changes nothing preserves the invariant.
LEMMA InvStutter == ASSUME IInv, UNCHANGED vars PROVE IInv'
<1>1. UNCHANGED <<payload, step, cursor, left, count, worker, effects>>
  BY DEF vars
<1> QED
  BY <1>1
  DEF payload, cursor, worker, effects, IInv, TypeOK, Accounted, InWindow,
      CursorInv, Following, ReceiverAt, WorkerAt, DropInv, Contiguous,
      SpillsOneBlock, Origin, Limit, Linear, Normalized, Eligible

\* Every step preserves the invariant.
LEMMA InvNext == ASSUME IInv, [Next]_vars PROVE IInv'
<1>1. CASE Next
  <2>1. TypeOK' /\ Accounted' /\ InWindow' /\ CursorInv' /\ DropInv'
    BY <1>1, TypeStep, AccountStep, WindowStep, CursorStep, DropStep
  <2>2. Contiguous' /\ SpillsOneBlock'
    BY <1>1, <2>1, PlaceStep
  <2> QED
    BY <2>1, <2>2 DEF IInv
<1>2. CASE UNCHANGED vars
  BY <1>2, InvStutter
<1> QED
  BY <1>1, <1>2

-----------------------------------------------------------------------------
(* Safety.                                                                 *)

\* All layers hold in every reachable state, for every block size up to a
\* page and every set of payloads.
THEOREM Invariant == Spec => []IInv
<1>1. Init => IInv
  BY InvInit
<1>2. IInv /\ [Next]_vars => IInv'
  BY InvNext
<1> QED
  BY <1>1, <1>2, PTL DEF Spec

\* Every reachable state of the receive loop is well typed.
THEOREM TypeCorrect == Spec => []TypeOK
<1>1. IInv => TypeOK
  BY DEF IInv
<1> QED
  BY <1>1, Invariant, PTL

\* The bytes of a payload lie in Flash one behind the other.
THEOREM InSequence == Spec => []Contiguous
<1>1. IInv => Contiguous
  BY DEF IInv
<1> QED
  BY <1>1, Invariant, PTL

\* A payload that runs out of the range spills over by less than a block.
THEOREM SpillIsBounded == Spec => []SpillsOneBlock
<1>1. IInv => SpillsOneBlock
  BY DEF IInv
<1> QED
  BY <1>1, Invariant, PTL

\* A payload that fits into the range arrives whole.
THEOREM Whole == Spec => []ArrivesWhole
<1>1. IInv => ArrivesWhole
  <2> SUFFICES ASSUME IInv, step = "done", start[2] <= TOP,
                      Eligible(start[1]), Origin + length <= Limit
               PROVE  written = length
    BY DEF ArrivesWhole
  <2>1. lost = 0
    BY Widths DEF IInv, DropInv
  <2>2. written + lost + count + left = length /\ count = 0 /\ left = 0
    BY DEF IInv, Accounted
  <2> QED
    BY <2>1, <2>2, Widths DEF IInv
<1> QED
  BY <1>1, Invariant, PTL

\* The bytes of a payload that have left it are in Flash or in a dropped
\* block, and none is counted twice; a payload for RAM programs nothing.
\* (the block loop of receive_data_staging against the worker's byte count)
AllAccounted ==
    step = "done" =>
        IF start[2] <= TOP THEN written + lost = length
                           ELSE written = 0

THEOREM NothingUnaccounted == Spec => []AllAccounted
<1>1. IInv => AllAccounted
  BY Widths DEF IInv, Accounted, AllAccounted
<1> QED
  BY <1>1, Invariant, PTL

\* When a payload has been programmed whole, the page and the address the
\* receiver has stored are those of the byte behind it.
\* (the page the receiver infers from the address the worker returns)
CursorArrives ==
    step = "done" /\ start[2] <= TOP /\ lost = 0 => ReceiverAt = Origin + length

THEOREM CursorIsBehindPayload == Spec => []CursorArrives
<1>1. IInv => CursorArrives
  <2> SUFFICES ASSUME IInv, step = "done", start[2] <= TOP, lost = 0
               PROVE  ReceiverAt = Origin + length
    BY DEF CursorArrives
  <2>1. written = length
    BY Widths DEF IInv, Accounted
  <2> QED
    BY <2>1 DEF IInv, CursorInv, Following
<1> QED
  BY <1>1, Invariant, PTL

-----------------------------------------------------------------------------
(* Progress.  That a payload is received to its end needs fairness and     *)
(* stays with TLC; that the loop cannot go on for ever needs none.         *)

StepsToFill ==
    CASE step = "route" -> 5 [] step = "flush" -> 4 [] step = "worker" -> 3
      [] step = "save" -> 2  [] step = "fill" -> 1  [] step = "done" -> 0

\* Steps the loop has at most before it ends: four for a block, at most as
\* many blocks as bytes, and one for a byte of the worker.
Effort == 6 * left + 2 * count + StepsToFill

\* Effort is a number of steps.
LEMMA EffortIsNatural == ASSUME TypeOK PROVE Effort \in Nat
<1>1. left \in Nat /\ count \in Nat
  BY Widths
<1>2. StepsToFill \in Nat
  BY DEF TypeOK, StepsToFill
<1>3. \A i, j, k \in Nat : 6 * i + 2 * j + k \in Nat
  OBVIOUS
<1> QED
  BY <1>1, <1>2, <1>3 DEF Effort

\* Every step leaves less to do.
LEMMA EffortStep == ASSUME IInv, Next PROVE Effort' < Effort
<1>1. left \in Nat /\ count \in Nat /\ BLOCK \in Nat /\ BLOCK >= 1
  BY Widths DEF IInv
<1> USE <1>1 DEF Effort, StepsToFill
<1>2. CASE RouteToRam
  <2>1. step = "route" /\ step' = "done" /\ left' = 0 /\ count' = count
    BY <1>2 DEF RouteToRam
  <2> QED
    BY <2>1
<1>3. CASE RouteToFlash
  <2>1. step = "route" /\ step' = "fill" /\ left' = left /\ count' = count
    BY <1>3 DEF RouteToFlash
  <2> QED
    BY <2>1
<1>4. CASE Fill
  <2>1. /\ step = "fill" /\ step' = "flush"
        /\ count' \in Nat /\ count' >= 1 /\ left' = left - count'
    BY <1>4 DEF Fill
  <2> QED
    BY <2>1
<1>5. CASE Finish
  <2>1. step = "fill" /\ step' = "done" /\ left' = left /\ count' = count
    BY <1>5 DEF Finish
  <2> QED
    BY <2>1
<1>6. CASE CallWorker
  <2>1. step = "flush" /\ step' = "worker" /\ left' = left /\ count' = count
    BY <1>6 DEF CallWorker
  <2> QED
    BY <2>1
<1>7. CASE SkipWorker
  <2>1. step = "flush" /\ step' = "save" /\ left' = left /\ count' = 0
    BY <1>7 DEF SkipWorker
  <2> QED
    BY <2>1
<1>8. CASE WorkerByte
  <2>1. step' = step /\ left' = left /\ count' = count - 1
    BY <1>8 DEF WorkerByte
  <2>2. step = "worker"
    BY <1>8 DEF WorkerByte
  <2> QED
    BY <2>1, <2>2
<1>9. CASE WorkerReturns
  <2>1. step = "worker" /\ step' = "save" /\ left' = left /\ count' = count
    BY <1>9 DEF WorkerReturns
  <2> QED
    BY <2>1
<1>10. CASE Save
  <2>1. step = "save" /\ step' = "fill" /\ left' = left /\ count' = count
    BY <1>10 DEF Save
  <2> QED
    BY <2>1
<1> QED
  BY <1>2, <1>3, <1>4, <1>5, <1>6, <1>7, <1>8, <1>9, <1>10 DEF Next

\* What the loop may cost a payload.
Bounded == Effort \in Nat /\ Effort <= 6 * length + 5

\* Every step of the loop leaves less to do, so it takes at most six steps
\* for each byte of the payload and five more, wherever the payload goes.
\* (the block loop and the worker's byte loop)
THEOREM StepsRunOut == Spec => []Bounded /\ [][Effort' < Effort]_vars
<1>1. Init => Bounded
  <2> SUFFICES ASSUME Init PROVE Bounded
    OBVIOUS
  <2>1. TypeOK
    BY InvInit DEF IInv
  <2>2. left = length /\ count = 0 /\ StepsToFill = 5 /\ length \in Nat
    BY <2>1, Widths DEF Init, StepsToFill
  <2> QED
    BY <2>2 DEF Bounded, Effort
<1> DEFINE Natural == Effort \in Nat
<1>2. IInv => Natural
  BY EffortIsNatural DEF IInv
<1>3. IInv /\ Natural' /\ Bounded /\ [Next]_vars => Bounded'
  <2> SUFFICES ASSUME IInv, Natural', Bounded, [Next]_vars PROVE Bounded'
    OBVIOUS
  <2>1. Effort' \in Nat
    OBVIOUS
  <2>2. CASE Next
    <3>1. Effort' < Effort /\ length' = length /\ length \in Nat
      BY <2>2, EffortStep, NextKeepsPayload, PayloadKept, Widths DEF IInv
    <3>2. \A i, j, k \in Nat : i < j /\ j <= k => i <= k
      OBVIOUS
    <3>3. 6 * length + 5 \in Nat
      BY <3>1
    <3>4. Effort' <= 6 * length + 5
      BY <2>1, <3>1, <3>2, <3>3 DEF Bounded
    <3> QED
      BY <2>1, <3>1, <3>4 DEF Bounded
  <2>3. CASE UNCHANGED vars
    <3>1. Effort' = Effort /\ length' = length
      BY <2>3 DEF vars, payload, Effort, StepsToFill
    <3> QED
      BY <3>1 DEF Bounded
  <2> QED
    BY <2>2, <2>3
<1>4. IInv /\ [Next]_vars => [Effort' < Effort]_vars
  BY EffortStep
<1> HIDE DEF Natural
<1> QED
  BY <1>1, <1>2, <1>3, <1>4, Invariant, PTL DEF Spec
=============================================================================
