-------------------------- MODULE CallFramesProofs --------------------------
(***************************************************************************)
(* The analyser's frames, for every stack depth and every set of pages.    *)
(*                                                                         *)
(* FramesAreOpenings is inductive together with TypeOK and PreviousInv,    *)
(* which ties the last record to the stack.  StackResult says what of an   *)
(* instruction matters: the words below stay, and at most one is added,    *)
(* marked with the instruction that ran before.  RecordStep shows that     *)
(* such an instruction keeps the invariant, an interrupt behind it or not; *)
(* each instruction then only has to show that it is one.                  *)
(***************************************************************************)
EXTENDS CallFrames, TLAPS

\* Since the last record the stack has got one interrupt's word at most; if
\* the record is a taken call's, that call's word is where it says.
PreviousInv ==
    /\ \/ previous.depth = Depth
       \/ Depth = previous.depth + 1 /\ words[Depth].kind = "interrupt"
    /\ previous.op = "taken" =>
          /\ previous.depth >= 1
          /\ words[previous.depth].kind = "call"
          /\ words[previous.depth].caller = previous.page
          /\ previous.depth = Depth => words[previous.depth].callee = at

Inv == TypeOK /\ FramesAreOpenings /\ PreviousInv

LEMMA WordTypes ==
    /\ \A b \in Op, p \in Pages : at \in Pages => CallWord(p, b) \in Word
    /\ \A b \in Op : DataWord(b) \in Word
    /\ InterruptWord \in Word /\ InterruptWord.kind = "interrupt"
    /\ InterruptWord.behind = "other"
BY DEF CallWord, DataWord, InterruptWord, Word, Op

LEMMA BehindType == Inv => Behind \in Op
BY DEF Inv, TypeOK, Record, Behind, Op

\* What an instruction leaves on the stack.
StackResult(op, w, page) ==
    /\ w \in Seq(Word) /\ Len(w) <= MaxDepth /\ Len(w) <= Depth + 1
    /\ \A d \in 1 .. Len(w) : d <= Depth => w[d] = words[d]
    /\ Len(w) = Depth + 1 => /\ w[Len(w)].behind = Behind
                             /\ w[Len(w)].kind # "interrupt"
    /\ op = "taken" => /\ Len(w) = Depth + 1 /\ w[Len(w)].kind = "call"
                       /\ w[Len(w)].caller = at /\ w[Len(w)].callee = page

\* How the stack continues behind the record.
Continues(w, page) ==
    \/ words' = w /\ at' = page
    \/ words' = Append(w, InterruptWord) /\ at' = IsrPage /\ Len(w) < MaxDepth

LEMMA RecordStep ==
    ASSUME Inv, NEW op \in Op, NEW w, NEW page \in Pages,
           StackResult(op, w, page), Advance(Len(w)), Continues(w, page),
           previous' = [op |-> op, page |-> at, depth |-> Len(w)],
           enabled' \in BOOLEAN
    PROVE  Inv'
<1> DEFINE n == Len(w)
           new == [caller |-> previous.page, callee |-> at, depth |-> n]
<1>1. /\ Depth \in Nat /\ n \in 0 .. MaxDepth /\ MaxDepth \in Nat
      /\ n <= Depth + 1
      /\ previous.depth \in 0 .. MaxDepth /\ previous.depth <= Depth
      /\ at \in Pages /\ previous.page \in Pages /\ previous.op \in Op
  BY FramesAssumption DEF Inv, TypeOK, Depth, Record, StackResult
<1>2. /\ previous'.op = op /\ previous'.page = at /\ previous'.depth = n
      /\ previous' \in Record
  BY <1>1 DEF Record
<1>3. /\ words' \in Seq(Word) /\ Len(words') \in Nat /\ Len(words') <= MaxDepth
      /\ \A d \in 1 .. n : words'[d] = w[d]
      /\ \/ Len(words') = n /\ at' = page
         \/ /\ Len(words') = n + 1 /\ at' = IsrPage
            /\ words'[n + 1].kind = "interrupt"
            /\ words'[n + 1].behind = "other"
  <2>1. w \in Seq(Word) /\ n \in Nat /\ n <= MaxDepth
    BY DEF StackResult
  <2>2. CASE words' = w /\ at' = page
    BY <2>1, <2>2
  <2>3. CASE words' = Append(w, InterruptWord) /\ at' = IsrPage /\ n < MaxDepth
    <3> DEFINE i == InterruptWord
    <3>1. i \in Word /\ i.kind = "interrupt" /\ i.behind = "other"
      BY WordTypes
    <3> HIDE DEF i
    <3>2. words' = Append(w, i)
      BY <2>3 DEF i
    <3>3. /\ words' \in Seq(Word) /\ Len(words') = n + 1
          /\ words'[n + 1] = i /\ \A d \in 1 .. n : words'[d] = w[d]
      BY <2>1, <3>1, <3>2
    <3> QED BY <1>1, <2>3, <3>1, <3>3
  <2> QED BY <2>2, <2>3 DEF Continues
<1>4. \A d \in 1 .. n : d <= Depth => words'[d] = words[d]
  BY <1>3 DEF StackResult
<1>5. /\ \A f \in frames' : \/ f \in frames /\ f.depth <= n
                            \/ f = new /\ IsTakenCall(n)
      /\ \A f \in frames : f.depth <= n => f \in frames'
      /\ IsTakenCall(n) => new \in frames'
  BY DEF Advance, Kept
<1>6. IsTakenCall(n) => previous.op # "other" /\ n = previous.depth + 1
  BY DEF IsTakenCall
<1>7. \A f \in frames : f.depth \in 1 .. MaxDepth /\ f.depth <= previous.depth
  BY DEF Inv, TypeOK
\* A word that is new at the top carries a frame, or the word that an
\* interrupt left there does.
<1>8. ASSUME IsTakenCall(n)
      PROVE  \/ /\ n \in 2 .. n /\ words'[n].behind = "taken"
                /\ words'[n - 1].kind = "call"
                /\ words'[n - 1].caller = previous.page
                /\ words'[n - 1].callee = at
             \/ words'[n].kind = "interrupt"
             \/ words'[n].behind = "untaken"
  <2>1. n \in 1 .. n /\ n = previous.depth + 1
    BY <1>1, <1>6, <1>8
  <2>2. CASE previous.depth = Depth
    <3>1. n = Depth + 1 /\ words'[n].behind = previous.op
      BY <1>1, <1>3, <2>1, <2>2 DEF StackResult, Behind
    <3>2. CASE previous.op = "taken"
      <4>1. previous.depth >= 1 /\ words[Depth].kind = "call"
            /\ words[Depth].caller = previous.page
            /\ words[Depth].callee = at
        BY <2>2, <3>2 DEF Inv, PreviousInv
      <4>2. n - 1 = Depth /\ n - 1 \in 1 .. n /\ n \in 2 .. n
        BY <1>1, <2>2, <3>1, <4>1
      <4>3. words'[n - 1] = words[Depth]
        BY <1>1, <1>4, <4>2
      <4> QED BY <3>1, <3>2, <4>1, <4>2, <4>3
    <3>3. CASE previous.op = "untaken"
      BY <3>1, <3>3
    <3> QED BY <1>1, <1>6, <1>8, <3>2, <3>3 DEF Op
  <2>3. CASE Depth = previous.depth + 1 /\ words[Depth].kind = "interrupt"
    <3>1. words'[n] = words[Depth]
      BY <1>1, <1>4, <2>1, <2>3
    <3> QED BY <2>3, <3>1
  <2> QED BY <2>2, <2>3 DEF Inv, PreviousInv
<1>9. TypeOK'
  <2>1. frames' \subseteq [caller : Pages, callee : Pages, depth : 1 .. MaxDepth]
    <3>1. frames \subseteq [caller : Pages, callee : Pages, depth : 1 .. MaxDepth]
      BY DEF Inv, TypeOK
    <3>2. IsTakenCall(n) =>
              new \in [caller : Pages, callee : Pages, depth : 1 .. MaxDepth]
      BY <1>1, <1>6
    <3> QED BY <1>5, <3>1, <3>2
  <2>2. \A f \in frames' : f.depth <= n
    BY <1>1, <1>5
  <2>3. \A f, g \in frames' : f.depth = g.depth => f = g
    <3>1. \A f, g \in frames : f.depth = g.depth => f = g
      BY DEF Inv, TypeOK
    <3>2. IsTakenCall(n) => \A f \in frames : f.depth # n
      BY <1>1, <1>6, <1>7
    <3> QED BY <1>5, <3>1, <3>2
  <2>4. at' \in Pages /\ n <= Len(words')
    BY <1>1, <1>3, FramesAssumption
  <2> QED BY <1>2, <1>3, <2>1, <2>2, <2>3, <2>4 DEF TypeOK, Depth
<1>10. PreviousInv'
  <2>1. \/ previous'.depth = Len(words')
        \/ Len(words') = previous'.depth + 1
           /\ words'[Len(words')].kind = "interrupt"
    BY <1>2, <1>3
  <2>2. ASSUME op = "taken"
        PROVE  /\ n >= 1 /\ words'[n].kind = "call"
               /\ words'[n].caller = at
               /\ n = Len(words') => words'[n].callee = at'
    <3>1. /\ n = Depth + 1 /\ w[n].kind = "call"
          /\ w[n].caller = at /\ w[n].callee = page
      BY <2>2 DEF StackResult
    <3>2. n \in 1 .. n
      BY <1>1, <3>1
    <3>3. words'[n] = w[n]
      BY <1>3, <3>2
    <3>4. n = Len(words') => at' = page
      BY <1>1, <1>3
    <3> QED BY <3>1, <3>2, <3>3, <3>4
  <2> QED BY <1>2, <2>1, <2>2 DEF PreviousInv, Depth
<1>11. ASSUME NEW d \in Openings'
       PROVE  (\E f \in frames : IsFrameOf(f, d))'
  <2>1. d \in 2 .. Len(words') /\ words'[d].behind = "taken"
    BY DEF Openings, Depth
  <2>2. d \in 2 .. n /\ d \in 1 .. n /\ d - 1 \in 1 .. n
    BY <1>1, <1>3, <2>1
  <2>3. CASE d <= Depth
    <3>1. words'[d] = words[d] /\ words'[d - 1] = words[d - 1]
      BY <1>1, <1>4, <2>2, <2>3
    <3>2. d \in Openings
      BY <1>1, <2>1, <2>2, <2>3, <3>1 DEF Openings
    <3>3. PICK f \in frames : IsFrameOf(f, d)
      BY <3>2 DEF Inv, FramesAreOpenings
    <3>4. f \in frames'
      BY <1>1, <1>5, <2>2, <3>3 DEF IsFrameOf
    <3> QED BY <3>1, <3>3, <3>4 DEF IsFrameOf
  <2>4. CASE d > Depth
    <3>1. d = n /\ n = Depth + 1 /\ Behind = "taken"
      BY <1>1, <1>3, <2>1, <2>2, <2>4 DEF StackResult
    <3>2. previous.depth = Depth /\ previous.op = "taken"
      BY <3>1 DEF Behind
    <3>3. IsTakenCall(n)
      BY <3>1, <3>2 DEF IsTakenCall
    <3>4. /\ words[Depth].kind = "call" /\ words[Depth].caller = previous.page
          /\ words[Depth].callee = at /\ Depth >= 1
      BY <3>2 DEF Inv, PreviousInv
    <3>5. words'[d - 1] = words[Depth]
      BY <1>1, <1>4, <2>2, <3>1, <3>4
    <3>6. PICK g \in frames' : g = new
      BY <1>5, <3>3
    <3>7. IsFrameOf(g, d)'
      BY <3>1, <3>4, <3>5, <3>6 DEF IsFrameOf
    <3> QED BY <3>6, <3>7
  <2> QED BY <1>1, <2>2, <2>3, <2>4
<1>12. ASSUME NEW f \in frames'
       PROVE  \/ f.depth \in Openings' /\ IsFrameOf(f, f.depth)'
              \/ words'[f.depth].kind = "interrupt"
              \/ words'[f.depth].behind = "untaken"
  <2>1. CASE f \in frames /\ f.depth <= n
    <3>1. \/ f.depth \in Openings /\ IsFrameOf(f, f.depth)
          \/ words[f.depth].kind = "interrupt"
          \/ words[f.depth].behind = "untaken"
      BY <2>1 DEF Inv, FramesAreOpenings
    <3>2. f.depth \in 1 .. n /\ f.depth <= Depth
      BY <1>1, <1>7, <2>1
    <3>3. words'[f.depth] = words[f.depth]
      BY <1>4, <3>2
    <3>4. CASE f.depth \in Openings /\ IsFrameOf(f, f.depth)
      <4>1. f.depth \in 2 .. Depth /\ words[f.depth].behind = "taken"
        BY <3>4 DEF Openings
      <4>2. f.depth \in Openings'
        BY <1>1, <1>3, <3>2, <3>3, <4>1 DEF Openings, Depth
      <4>3. f.depth - 1 \in 1 .. n /\ f.depth - 1 <= Depth
        BY <1>1, <3>2, <4>1
      <4>4. words'[f.depth - 1] = words[f.depth - 1]
        BY <1>4, <4>3
      <4> QED BY <3>4, <4>2, <4>4 DEF IsFrameOf
    <3> QED BY <3>1, <3>3, <3>4
  <2>2. CASE f = new /\ IsTakenCall(n)
    <3>1. f.depth = n /\ f.caller = previous.page /\ f.callee = at
      BY <2>2
    <3>2. n \in 2 .. n => n \in 2 .. Len(words')
      BY <1>1, <1>3
    <3> QED BY <1>8, <2>2, <3>1, <3>2 DEF Openings, Depth, IsFrameOf
  <2> QED BY <1>5, <2>1, <2>2
<1>13. FramesAreOpenings'
  BY <1>11, <1>12 DEF FramesAreOpenings
<1> QED BY <1>9, <1>10, <1>13 DEF Inv

LEMMA GoesSteps ==
    ASSUME Inv, NEW op \in Op, NEW w, NEW page \in Pages,
           StackResult(op, w, page), Goes(op, w, page)
    PROVE  Inv'
<1>1. CASE Runs(op, w, page) /\ UNCHANGED enabled
  <2>1. enabled' \in BOOLEAN
    BY <1>1 DEF Inv, TypeOK
  <2> QED BY <1>1, <2>1, RecordStep DEF Runs, Continues
<1>2. CASE RunsInterrupted(op, w)
  <2>1. enabled' \in BOOLEAN
    BY <1>2 DEF RunsInterrupted
  <2> QED BY <1>2, <2>1, RecordStep DEF RunsInterrupted, Continues
<1> QED BY <1>1, <1>2 DEF Goes

\* The instructions leave such stacks.
LEMMA SameStack ==
    ASSUME Inv, NEW op \in {"untaken", "other"}, NEW page
    PROVE  StackResult(op, words, page)
<1>1. words \in Seq(Word) /\ Depth \in Nat /\ Depth <= MaxDepth
  BY DEF Inv, TypeOK, Depth
<1> QED BY <1>1 DEF StackResult, Depth

LEMMA SmallerStack ==
    ASSUME Inv, NEW n \in 1 .. Depth, NEW page
    PROVE  StackResult("other", Dropped(n), page)
<1>1. words \in Seq(Word) /\ Depth \in Nat /\ Depth <= MaxDepth /\ MaxDepth \in Nat
  BY FramesAssumption DEF Inv, TypeOK, Depth
<1>2. Depth - n \in 0 .. Depth
  BY <1>1
<1>3. /\ Dropped(n) \in Seq(Word) /\ Len(Dropped(n)) = Depth - n
      /\ \A d \in 1 .. Depth - n : Dropped(n)[d] = words[d]
  BY <1>1, <1>2 DEF Dropped, Depth
<1> HIDE DEF Dropped
<1> QED BY <1>1, <1>2, <1>3 DEF StackResult

LEMMA LargerStack ==
    ASSUME Inv, Depth < MaxDepth, NEW op \in Op, NEW page,
           NEW c \in Word, c.behind = Behind, c.kind # "interrupt",
           op = "taken" => c.kind = "call" /\ c.caller = at /\ c.callee = page
    PROVE  StackResult(op, Append(words, c), page)
<1>1. words \in Seq(Word) /\ Depth \in Nat /\ Depth <= MaxDepth /\ MaxDepth \in Nat
  BY FramesAssumption DEF Inv, TypeOK, Depth
<1> DEFINE w == Append(words, c)
<1>2. /\ w \in Seq(Word) /\ Len(w) = Depth + 1 /\ w[Depth + 1] = c
      /\ \A d \in 1 .. Depth : w[d] = words[d]
  BY <1>1 DEF Depth
<1> HIDE DEF w
<1>3. StackResult(op, w, page)
  BY <1>1, <1>2 DEF StackResult
<1> QED BY <1>3 DEF w

LEMMA InitFrames == Init => Inv
<1> SUFFICES ASSUME Init PROVE Inv
  OBVIOUS
<1>1. PICK n \in 0 .. MaxDepth : words = [d \in 1 .. n |-> DataWord("other")]
  BY DEF Init
<1> DEFINE c == DataWord("other")
<1>2. c \in Word /\ c.behind = "other" /\ n \in Nat /\ MaxDepth \in Nat
  BY FramesAssumption, WordTypes DEF Op, DataWord
<1> HIDE DEF c
<1>3. words = [d \in 1 .. n |-> c]
  BY <1>1 DEF c
<1>4. /\ words \in Seq(Word) /\ Depth = n
      /\ \A d \in 1 .. n : words[d].behind = "other"
  BY <1>2, <1>3 DEF Depth
<1>5. at \in Pages /\ enabled \in BOOLEAN /\ frames = {}
      /\ previous = [op |-> "other", page |-> at, depth |-> Depth]
  BY DEF Init
<1>6. previous \in Record /\ previous.depth = Depth /\ previous.op = "other"
  BY <1>2, <1>4, <1>5 DEF Record, Op
<1>7. TypeOK
  BY <1>2, <1>4, <1>5, <1>6 DEF TypeOK
<1>8. Openings = {}
  BY <1>4, <1>2 DEF Openings
<1> QED BY <1>5, <1>6, <1>7, <1>8 DEF Inv, FramesAreOpenings, PreviousInv

LEMMA NextFrames == Inv /\ [Next]_vars => Inv'
<1> SUFFICES ASSUME Inv, [Next]_vars PROVE Inv'
  OBVIOUS
<1>1. /\ at \in Pages /\ Depth \in Nat /\ enabled \in BOOLEAN
      /\ "taken" \in Op /\ "untaken" \in Op /\ "other" \in Op
  BY DEF Inv, TypeOK, Depth, Op
<1>2. ASSUME NEW p \in Pages, Call(p) PROVE Inv'
  <2> DEFINE c == CallWord(p, Behind)
  <2>1. /\ c \in Word /\ c.behind = Behind /\ c.kind = "call"
        /\ c.caller = at /\ c.callee = p
    BY <1>1, BehindType, WordTypes DEF CallWord
  <2>2. Depth < MaxDepth /\ Goes("taken", Append(words, c), p)
    BY <1>2 DEF Call
  <2> HIDE DEF c
  <2>3. StackResult("taken", Append(words, c), p)
    BY <1>1, <2>1, <2>2, LargerStack
  <2> QED BY <1>1, <2>2, <2>3, GoesSteps
<1>3. ASSUME NEW p \in Pages, Jump(p) PROVE Inv'
  BY <1>1, <1>3, SameStack, GoesSteps DEF Jump
<1>4. ASSUME NEW p \in Pages, Return(p) PROVE Inv'
  <2>1. Depth > 0 /\ Goes("other", Dropped(1), p)
    BY <1>4 DEF Return
  <2>2. 1 \in 1 .. Depth
    BY <1>1, <2>1
  <2> QED BY <1>1, <2>1, <2>2, SmallerStack, GoesSteps
<1>5. ASSUME NEW p \in Pages, NEW n \in 2 .. Depth, Unwind(n, p) PROVE Inv'
  <2>1. n \in 1 .. Depth /\ Goes("other", Dropped(n), p)
    BY <1>1, <1>5 DEF Unwind
  <2> QED BY <1>1, <2>1, SmallerStack, GoesSteps
<1>6. CASE CallNotTaken
  BY <1>1, <1>6, SameStack, GoesSteps DEF CallNotTaken
<1>7. CASE Push
  <2> DEFINE c == DataWord(Behind)
  <2>1. c \in Word /\ c.behind = Behind /\ c.kind = "data"
    BY BehindType, WordTypes DEF DataWord
  <2>2. Depth < MaxDepth /\ Goes("other", Append(words, c), at)
    BY <1>7 DEF Push
  <2> HIDE DEF c
  <2>3. StackResult("other", Append(words, c), at)
    BY <1>1, <2>1, <2>2, LargerStack
  <2> QED BY <1>1, <2>2, <2>3, GoesSteps
<1>8. CASE Pop
  <2>1. Depth > 0 /\ Goes("other", Dropped(1), at)
    BY <1>8 DEF Pop
  <2>2. 1 \in 1 .. Depth
    BY <1>1, <2>1
  <2> QED BY <1>1, <2>1, <2>2, SmallerStack, GoesSteps
<1>9. CASE EnableInterrupts \/ DisableInterrupts
  <2>1. Runs("other", words, at) /\ enabled' \in BOOLEAN
    BY <1>9 DEF EnableInterrupts, DisableInterrupts
  <2>2. StackResult("other", words, at)
    BY SameStack
  <2> QED BY <1>1, <2>1, <2>2, RecordStep DEF Runs, Continues
<1>10. CASE UNCHANGED vars
  BY <1>10 DEF vars, Inv, TypeOK, FramesAreOpenings, PreviousInv, Openings,
     IsFrameOf, Depth
<1> QED
  BY <1>2, <1>3, <1>4, <1>5, <1>6, <1>7, <1>8, <1>9, <1>10 DEF Next

\* The attribution follows: where nothing misleads the analyser the frames
\* are exactly those of the openings.
LEMMA Attribution == Inv => AttributedToInnermost
<1> SUFFICES ASSUME Inv, NothingMisleads, NEW pages \in SUBSET Pages
             PROVE  LET touching ==
                            {d \in Openings :
                                {words[d - 1].caller, words[d - 1].callee}
                                    \cap pages # {}}
                        innermost ==
                            {d \in touching : \A c \in touching : c <= d}
                    IN  /\ \A d \in innermost :
                               \E f \in NearestFrame(pages) : IsFrameOf(f, d)
                        /\ \A f \in NearestFrame(pages) :
                               f.depth \in innermost /\ IsFrameOf(f, f.depth)
  BY DEF AttributedToInnermost
<1> DEFINE touching == {d \in Openings :
                          {words[d - 1].caller, words[d - 1].callee}
                              \cap pages # {}}
           Touches(f) == {f.caller, f.callee} \cap pages # {}
<1>1. \A f \in frames : f.depth \in Openings /\ IsFrameOf(f, f.depth)
  <2>1. \A f \in frames : f.depth \in 1 .. previous.depth
    BY DEF Inv, TypeOK, Record
  <2> QED BY <2>1 DEF Inv, FramesAreOpenings, NothingMisleads
<1>2. \A d \in Openings : \E f \in frames : IsFrameOf(f, d)
  BY DEF Inv, FramesAreOpenings
<1>3. \A f \in frames : Touches(f) <=> f.depth \in touching
  BY <1>1 DEF IsFrameOf
<1>4. \A d \in touching : \E f \in frames :
          IsFrameOf(f, d) /\ f.depth = d /\ Touches(f)
  BY <1>2 DEF IsFrameOf
<1>5. NearestFrame(pages) =
          {f \in frames : Touches(f) /\ \A g \in frames : Touches(g)
                                                => g.depth <= f.depth}
  BY DEF NearestFrame
<1> HIDE DEF touching, Touches
<1>6. ASSUME NEW f \in NearestFrame(pages)
      PROVE  f.depth \in touching /\ (\A c \in touching : c <= f.depth)
             /\ IsFrameOf(f, f.depth)
  BY <1>1, <1>3, <1>4, <1>5
<1>7. ASSUME NEW d \in touching, \A c \in touching : c <= d
      PROVE  \E f \in NearestFrame(pages) : IsFrameOf(f, d)
  <2>1. PICK f \in frames : IsFrameOf(f, d) /\ f.depth = d /\ Touches(f)
    BY <1>4
  <2>2. f \in NearestFrame(pages)
    BY <1>3, <1>5, <1>7, <2>1
  <2> QED BY <2>1, <2>2
<1> QED BY <1>6, <1>7 DEF touching

\* Types; the list of frames is ordered by stack pointer.
THEOREM TypeCorrect == Spec => []TypeOK
<1>1. Inv => TypeOK
  BY DEF Inv
<1> QED BY InitFrames, NextFrames, <1>1, PTL DEF Spec

\* The recovered frames are those of the calls whose callee's first push is
\* on the stack, but for interrupts and calls that were not taken.
THEOREM FramesSound == Spec => []FramesAreOpenings
<1>1. Inv => FramesAreOpenings
  BY DEF Inv
<1> QED BY InitFrames, NextFrames, <1>1, PTL DEF Spec

\* Where neither is on the stack, an LCD write goes to the innermost of them.
THEOREM AttributionSound == Spec => []AttributedToInnermost
BY InitFrames, NextFrames, Attribution, PTL DEF Spec
=============================================================================
