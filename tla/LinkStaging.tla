---------------------------- MODULE LinkStaging ----------------------------
(***************************************************************************)
(* Receiving a DATA payload into memory.  A payload for RAM is stored      *)
(* byte by byte; one for the Flash window is collected in blocks, and each *)
(* block is handed to a copied worker that programs it.                    *)
(*                                                                         *)
(* Worker and receiver keep separate cursors.  The worker steps a page and *)
(* an address and wraps before a byte; the receiver gets only the address  *)
(* back and infers from it whether a page was left.  The bytes are in      *)
(* order only as long as the inference agrees with the worker.             *)
(*                                                                         *)
(* Source: src/tools/ti84re/link/flash_staging.py.                         *)
(***************************************************************************)
EXTENDS Integers

CONSTANTS
    BLOCK,      \* size of the staging buffer
    Starts,     \* <<page, destination>> pairs a payload may be sent to
    Lengths     \* payload lengths

\* The bank window of the CPU and the widths of its registers.
BASE == 16384
TOP  == 32767
BYTES == 256
WORDS == 65536

ASSUME StagingAssumption ==
    /\ BLOCK \in 1 .. BASE
    /\ Starts \subseteq (0 .. BYTES - 1) \X (BASE .. WORDS - 1)
    /\ Lengths \subseteq 0 .. WORDS - 1

\* PAGE_RANGE_PROFILES: page & mask is page % pages, and pages from "lower"
\* up to "upper" may be programmed.
PAGE_RANGE_PROFILES ==
    {[pages |-> 64,  lower |-> 8, upper |-> 42],
     [pages |-> 32,  lower |-> 8, upper |-> 22],
     [pages |-> 128, lower |-> 8, upper |-> 106]}

VARIABLES
    profile,    \* model branch of the calculator
    start,      \* page and destination the payload was sent to
    length,     \* its length
    step,       \* position in the receive loop
    page,       \* stored page
    dest,       \* stored destination
    left,       \* payload bytes not received yet
    count,      \* bytes in the staging buffer
    wpage,      \* page the worker has selected
    de,         \* address the worker programs next
    last,       \* linear address of the byte programmed last
    written,    \* bytes programmed
    lost,       \* bytes in blocks that were never handed to the worker
    direct      \* bytes stored in RAM

payload == <<profile, start, length>>
cursor  == <<page, dest>>
worker  == <<wpage, de>>
effects == <<last, written, lost, direct>>
vars    == <<payload, step, cursor, left, count, worker, effects>>

Linear(p, a) == p * BASE + (a - BASE)

\* classify_page.
Normalized(p) == p % profile.pages
Eligible(p) == Normalized(p) < profile.upper /\ Normalized(p) >= profile.lower

TypeOK ==
    /\ profile \in PAGE_RANGE_PROFILES
    /\ start \in Starts /\ length \in Lengths
    /\ step \in {"route", "fill", "flush", "worker", "save", "done"}
    /\ page \in 0 .. BYTES - 1 /\ dest \in 0 .. WORDS - 1
    /\ left \in 0 .. length /\ count \in 0 .. BLOCK
    /\ wpage \in 0 .. BYTES - 1 /\ de \in 0 .. WORDS - 1
    /\ last \in Nat /\ written \in 0 .. length /\ lost \in 0 .. length
    /\ direct \in 0 .. length

Init ==
    /\ profile \in PAGE_RANGE_PROFILES
    /\ start \in Starts /\ length \in Lengths
    /\ step = "route"
    /\ page = start[1] /\ dest = start[2]
    /\ left = length /\ count = 0
    /\ wpage = 0 /\ de = 0
    /\ last = 0 /\ written = 0 /\ lost = 0 /\ direct = 0

-----------------------------------------------------------------------------
(* receive_data_staging: bit 15 of the destination chooses the storage.    *)

\* Seeded fault: the destination is not kept to sixteen bits.
RouteToRamUnwrapped ==
    /\ step = "route" /\ step' = "done"
    /\ dest > TOP
    /\ dest' = dest + length
    /\ left' = 0 /\ direct' = length
    /\ UNCHANGED <<payload, page, count, worker, last, written, lost>>

RouteToRam ==
    /\ step = "route" /\ step' = "done"
    /\ dest > TOP
    /\ dest' = (dest + length) % WORDS
    /\ left' = 0 /\ direct' = length
    /\ UNCHANGED <<payload, page, count, worker, last, written, lost>>

RouteToFlash ==
    /\ step = "route" /\ step' = "fill"
    /\ dest <= TOP
    /\ UNCHANGED <<payload, cursor, left, count, worker, effects>>

\* Seeded fault: a remainder shorter than a block stays in the buffer.
FillWholeBlocks ==
    /\ step = "fill" /\ left >= BLOCK
    /\ step' = "flush"
    /\ count' = BLOCK
    /\ left' = left - count'
    /\ UNCHANGED <<payload, cursor, worker, effects>>

\* A full block, or what is left of the payload.
Fill ==
    /\ step = "fill" /\ left > 0
    /\ step' = "flush"
    /\ count' = IF left >= BLOCK THEN BLOCK ELSE left
    /\ left' = left - count'
    /\ UNCHANGED <<payload, cursor, worker, effects>>

\* Seeded fault: the remainder is dropped.
FinishWithoutRemainder ==
    /\ step = "fill" /\ left < BLOCK
    /\ step' = "done"
    /\ UNCHANGED <<payload, cursor, left, count, worker, effects>>

Finish ==
    /\ step = "fill" /\ left = 0
    /\ step' = "done"
    /\ UNCHANGED <<payload, cursor, left, count, worker, effects>>

-----------------------------------------------------------------------------
(* flush_paged_flash_block and the worker's byte loop.                     *)

\* Seeded fault: the classifier forgets the upper bound.
CallWorkerUnbounded ==
    /\ step = "flush" /\ step' = "worker"
    /\ Normalized(page) >= profile.lower
    /\ wpage' = Normalized(page) /\ de' = dest
    /\ UNCHANGED <<payload, cursor, left, count, effects>>

\* The worker gets the masked page.
CallWorker ==
    /\ step = "flush" /\ step' = "worker"
    /\ Eligible(page)
    /\ wpage' = Normalized(page) /\ de' = dest
    /\ UNCHANGED <<payload, cursor, left, count, effects>>

\* The bcall is skipped: the block is dropped and the address stays.
SkipWorker ==
    /\ step = "flush" /\ step' = "save"
    /\ ~Eligible(page)
    /\ de' = dest
    /\ lost' = lost + count /\ count' = 0
    /\ UNCHANGED <<payload, cursor, left, wpage, last, written, direct>>

\* _advance_worker_destination: the wrap is checked before each byte.
Wraps == de > TOP

WorkerByte ==
    /\ step = "worker" /\ count > 0
    /\ LET p == IF Wraps THEN (wpage + 1) % BYTES ELSE wpage
           a == IF Wraps THEN BASE ELSE de
       IN  /\ wpage' = p
           /\ de' = (a + 1) % WORDS
           /\ last' = Linear(p, a)
    /\ count' = count - 1
    /\ written' = written + 1
    /\ UNCHANGED <<payload, step, cursor, left, lost, direct>>

WorkerReturns ==
    /\ step = "worker" /\ count = 0
    /\ step' = "save"
    /\ UNCHANGED <<payload, cursor, left, count, worker, effects>>

\* Seeded fault: the page follows the address as soon as it leaves the
\* window, which the worker has yet to do.
SaveEagerly ==
    /\ step = "save" /\ step' = "fill"
    /\ page' = IF dest >= de \/ de > TOP THEN (page + 1) % BYTES ELSE page
    /\ dest' = de
    /\ UNCHANGED <<payload, left, count, worker, effects>>

\* An address that did not grow stands for a page that was left.
Save ==
    /\ step = "save" /\ step' = "fill"
    /\ page' = IF dest >= de THEN (page + 1) % BYTES ELSE page
    /\ dest' = de
    /\ UNCHANGED <<payload, left, count, worker, effects>>

-----------------------------------------------------------------------------
Next ==
    \/ RouteToRam \/ RouteToFlash
    \/ Fill \/ Finish
    \/ CallWorker \/ SkipWorker
    \/ WorkerByte \/ WorkerReturns
    \/ Save

\* The receive loop runs by itself once the payload bytes arrive.
Spec == Init /\ [][Next]_vars /\ WF_vars(Next)

-----------------------------------------------------------------------------
(* Properties.                                                             *)

Origin == Linear(Normalized(start[1]), start[2])
Limit  == Linear(profile.upper, BASE)

\* The bytes of a payload lie in Flash one behind the other, across block
\* and page boundaries, a block that ends exactly on a page included.
\* (the page inference against the worker's own wrap)
Contiguous == written > 0 /\ lost = 0 => last = Origin + written - 1

\* A payload that fits into the pages that may be programmed arrives whole.
\* (receive_data_staging)
ArrivesWhole ==
    /\ step = "done" /\ start[2] <= TOP
    /\ Eligible(start[1]) /\ Origin + length <= Limit
    => written = length

\* The range is checked once per block, so a payload that runs out of the
\* range spills over by less than what fits into one block.
\* (classify_page before _WriteFlash, and nothing inside the worker)
SpillsOneBlock == written > 0 /\ lost = 0 => last < Limit + BLOCK

\* Every payload is received to its end.
ReceiveEnds == <>(step = "done")
=============================================================================
