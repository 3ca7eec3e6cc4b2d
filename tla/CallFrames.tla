----------------------------- MODULE CallFrames -----------------------------
(***************************************************************************)
(* The call frames that the draw-trace analyser recovers from a stream of  *)
(* instruction records, next to the stack of the program it comes from.    *)
(*                                                                         *)
(* A record has the page and the opcode of an instruction, and the stack   *)
(* pointer AFTER it: the record of a CALL already counts the return        *)
(* address.  One more word on the stack in the next record, which is what  *)
(* the analyser takes a call to be, is therefore pushed by the instruction *)
(* behind the CALL, or by an interrupt accepted between the two; records   *)
(* do not show interrupts.                                                 *)
(*                                                                         *)
(* A stack pointer is the number of words on the stack, a location the     *)
(* page it lies on.  Every step runs one instruction, lets the analyser    *)
(* advance to its record, and perhaps accepts an interrupt behind it.      *)
(*                                                                         *)
(* Source: src/tools/ti84re/mathprint/analyze_draw_trace.py                *)
(* (is_taken_call, DynamicCallStack, nearest_frame) on the records of      *)
(* trace/hardware.py, whose registers trace/resolve.py says are captured   *)
(* after the instruction.  The program is calculator code.                 *)
(***************************************************************************)
EXTENDS Integers, Sequences

CONSTANTS
    Pages,      \* code pages
    IsrPage,    \* the page that holds the interrupt entry
    MaxDepth    \* bound on the stack

ASSUME FramesAssumption == IsrPage \in Pages /\ MaxDepth \in Nat

VARIABLES
    at,         \* page of the next instruction
    words,      \* the program's stack, the innermost word last
    enabled,    \* interrupts are enabled
    previous,   \* the last record: opcode, page and stack depth
    frames      \* the analyser's frames, as of that record

vars == <<at, words, enabled, previous, frames>>

\* What the analyser takes for a CALL or RST opcode does not tell whether it
\* was taken.
Op == {"taken", "untaken", "other"}
Record == [op : Op, page : Pages, depth : 0 .. MaxDepth]

\* A word is pushed by a call, as data, or by an interrupt.  "behind" is the
\* instruction that ran directly before the one that pushed it.
CallWord(page, behind) ==
    [kind |-> "call", caller |-> at, callee |-> page, behind |-> behind]
DataWord(behind) == [kind |-> "data", behind |-> behind]
InterruptWord == [kind |-> "interrupt", behind |-> "other"]

Word == [kind : {"call"}, caller : Pages, callee : Pages, behind : Op]
          \cup [kind : {"data", "interrupt"}, behind : Op]

Depth == Len(words)

Dropped(n) == SubSeq(words, 1, Depth - n)

\* The trace starts anywhere in a program, with words on its stack.
Init ==
    /\ at \in Pages
    /\ \E n \in 0 .. MaxDepth : words = [d \in 1 .. n |-> DataWord("other")]
    /\ enabled \in BOOLEAN
    /\ previous = [op |-> "other", page |-> at, depth |-> Depth]
    /\ frames = {}

-----------------------------------------------------------------------------
(* The analyser.  Its list of frames is in the order of their depths.      *)

\* Seeded fault: the frames are never popped.
KeptAll(depth) == frames

\* The frames whose stack pointer is not below the current one.
Kept(depth) == {f \in frames : f.depth <= depth}

\* Seeded fault: a CALL that is not taken counts.
IsAnyCall(depth) == previous.op # "other"

\* A CALL or RST opcode, and one more word on the stack in the record behind.
IsTakenCall(depth) == previous.op # "other" /\ depth = previous.depth + 1

\* From the last record to one at the current page with depth words.
Advance(depth) ==
    frames' = Kept(depth) \cup
              (IF IsTakenCall(depth)
               THEN {[caller |-> previous.page, callee |-> at,
                      depth |-> depth]}
               ELSE {})

-----------------------------------------------------------------------------
(* The program.                                                            *)

\* The instruction has left w on the stack, is recorded, and goes on at page.
Runs(op, w, page) ==
    /\ Advance(Len(w))
    /\ previous' = [op |-> op, page |-> at, depth |-> Len(w)]
    /\ words' = w /\ at' = page

\* The same, and an interrupt is accepted behind the record.
RunsInterrupted(op, w) ==
    /\ enabled /\ Len(w) < MaxDepth
    /\ Advance(Len(w))
    /\ previous' = [op |-> op, page |-> at, depth |-> Len(w)]
    /\ words' = Append(w, InterruptWord) /\ at' = IsrPage
    /\ enabled' = FALSE

Goes(op, w, page) ==
    \/ Runs(op, w, page) /\ UNCHANGED enabled
    \/ RunsInterrupted(op, w)

\* The record directly before the current instruction, if no interrupt was
\* accepted between the two.
Behind == IF previous.depth = Depth THEN previous.op ELSE "other"

\* CALL taken, or RST.
Call(page) ==
    /\ Depth < MaxDepth
    /\ Goes("taken", Append(words, CallWord(page, Behind)), page)

\* A conditional CALL that is not taken.
CallNotTaken == Goes("untaken", words, at)

\* RET, RETI: to wherever the word on top says, whatever pushed it.
Return(page) == Depth > 0 /\ Goes("other", Dropped(1), page)

Push == Depth < MaxDepth /\ Goes("other", Append(words, DataWord(Behind)), at)

\* POP, of data or of a return address the routine discards.
Pop == Depth > 0 /\ Goes("other", Dropped(1), at)

\* An instruction that leaves the stack alone, or JP; a tail call keeps the
\* frame of the routine it leaves.
Jump(page) == Goes("other", words, page)

\* LD SP: an error handler unwinds any number of words.
Unwind(n, page) == n \in 2 .. Depth /\ Goes("other", Dropped(n), page)

\* EI takes effect after the instruction that follows it, DI at once.
EnableInterrupts ==
    /\ ~enabled /\ enabled' = TRUE
    /\ Runs("other", words, at)

DisableInterrupts ==
    /\ enabled /\ enabled' = FALSE
    /\ Runs("other", words, at)

Next ==
    \/ \E p \in Pages :
          Call(p) \/ Jump(p) \/ Return(p) \/ \E n \in 2 .. Depth : Unwind(n, p)
    \/ CallNotTaken \/ Push \/ Pop
    \/ EnableInterrupts \/ DisableInterrupts

Spec == Init /\ [][Next]_vars

-----------------------------------------------------------------------------
(* Attribution of an LCD write at the last record.                         *)

\* Seeded fault: the list is searched from its outer end.
OutermostFrames(pages) ==
    {f \in frames : {f.caller, f.callee} \cap pages # {}
        /\ \A g \in frames :
               {g.caller, g.callee} \cap pages # {} => g.depth >= f.depth}

\* nearest_frame: the innermost frame that touches one of the pages, or none.
NearestFrame(pages) ==
    {f \in frames : {f.caller, f.callee} \cap pages # {}
        /\ \A g \in frames :
               {g.caller, g.callee} \cap pages # {} => g.depth <= f.depth}

-----------------------------------------------------------------------------
(* Properties.                                                             *)

\* Types; at most one frame at a depth, and none above the stack: the list is
\* ordered, as the pop loop takes for granted.
TypeOK ==
    /\ at \in Pages /\ words \in Seq(Word) /\ Depth <= MaxDepth
    /\ enabled \in BOOLEAN
    /\ previous \in Record /\ previous.depth <= Depth
    /\ frames \subseteq [caller : Pages, callee : Pages, depth : 1 .. MaxDepth]
    /\ \A f \in frames : f.depth <= previous.depth
    /\ \A f, g \in frames : f.depth = g.depth => f = g

\* The words that a callee pushed with its first instruction, and the call
\* whose return address lies under such a word.
Openings == {d \in 2 .. Depth : words[d].behind = "taken"}

IsFrameOf(f, d) ==
    /\ f.depth = d
    /\ words[d - 1].kind = "call"
    /\ f.caller = words[d - 1].caller /\ f.callee = words[d - 1].callee

\* What the frames are.  A call has a frame as long as the word lies on the
\* stack that its callee pushed first of all, through every call, jump,
\* unwinding and interrupt on top of it.  A frame that is no such call sits on
\* the word of an interrupt or on one pushed behind a CALL that was not taken;
\* none outlives its word.  (DynamicCallStack.advance)
FramesAreOpenings ==
    /\ \A d \in Openings : \E f \in frames : IsFrameOf(f, d)
    /\ \A f \in frames :
           \/ f.depth \in Openings /\ IsFrameOf(f, f.depth)
           \/ words[f.depth].kind = "interrupt"
           \/ words[f.depth].behind = "untaken"

\* Nothing on the stack of the record that misleads the analyser.
NothingMisleads ==
    \A d \in 1 .. previous.depth :
        words[d].kind # "interrupt" /\ words[d].behind # "untaken"

\* Then an LCD write is attributed to the innermost call that touches the
\* pages asked for, of those whose callee's first push is on the stack, and
\* to none only if there is none.  (nearest_frame, attribute_mutations)
AttributedToInnermost ==
    NothingMisleads =>
        \A pages \in SUBSET Pages :
            LET touching ==
                    {d \in Openings :
                        {words[d - 1].caller, words[d - 1].callee} \cap pages
                            # {}}
                innermost == {d \in touching : \A c \in touching : c <= d}
            IN  /\ \A d \in innermost :
                       \E f \in NearestFrame(pages) : IsFrameOf(f, d)
                /\ \A f \in NearestFrame(pages) :
                       f.depth \in innermost /\ IsFrameOf(f, f.depth)

\* The active call frames are recovered: outside interrupt service, a call
\* whose callee has started has a frame until it returns.  (the docstring of
\* DynamicCallStack)
ActiveCallsHaveFrames ==
    (\A d \in 1 .. Depth : words[d].kind # "interrupt")
        => \A d \in 1 .. Depth :
             words[d].kind = "call" =>
                 \/ previous.op = "taken" /\ previous.depth = d
                 \/ \E f \in frames : /\ f.caller = words[d].caller
                                      /\ f.callee = words[d].callee
=============================================================================
