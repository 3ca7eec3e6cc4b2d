------------------------- MODULE TwoWireLinkProofs -------------------------
(***************************************************************************)
(* Proofs about the two-wire handshake, for bytes of any width and with or *)
(* without timeouts.                                                       *)
(***************************************************************************)
EXTENDS TwoWireLink, TLAPS

-----------------------------------------------------------------------------
(* The inductive invariant.  "Present" is a receiver whose lines still are *)
(* its part of the handshake: an abort it has decided on shows only when   *)
(* it pulls both.                                                          *)

Present == receiver \notin {"pulse", "failed"}

\* The line of the bit under way, and of the bit rotated in last.
Line     == BitOf(byte, sent)
LastLine == BitOf(byte, received - 1)

\* What each endpoint pulls low follows from its position and the byte.
SenderDrives ==
    /\ sender \in {"assert", "awaitIdle", "done", "failed"} => sdrive = {}
    /\ sender \in {"awaitAck", "release"} => sdrive = {Line}
    /\ sender = "abort" => sdrive = {} \/ sdrive = {Line}
    /\ sender = "pulse" => sdrive = LINE_MASK
    /\ IF sender = "done" THEN sent = BITS ELSE sent < BITS

ReceiverDrives ==
    /\ receiver \in {"awaitBit", "ack", "done", "failed"} => rdrive = {}
    /\ receiver \in {"awaitRelease", "release"} => rdrive = {1 - LastLine}
    /\ receiver = "abort" => rdrive = {} \/ rdrive = {1 - LastLine}
    /\ receiver = "pulse" => rdrive = LINE_MASK
    /\ receiver \in {"awaitRelease", "release"} => received > 0
    /\ rdrive # {} /\ rdrive # LINE_MASK => received > 0
    /\ receiver \in {"awaitBit", "ack"} => received < BITS
    /\ receiver = "done" => received = BITS

\* How far the receiver is ahead.  Only a receiver that has left can fall
\* behind, by the one bit whose acknowledgement was its pulse.
Counts ==
    /\ sent <= received + 1
    /\ receiver # "failed" => sent <= received
    /\ Present => received <= sent + 1
    /\ sender \in {"release", "awaitIdle"} => sent <= received
    /\ Present /\ sender \in {"release", "awaitIdle"} => received = sent + 1
    /\ Present /\ sender \in {"assert", "done"} => received = sent

\* What the receiver can be doing with the bit on the line.
Handshake ==
    /\ receiver = "awaitBit" /\ sdrive = {Line} => received = sent
    /\ receiver = "ack" =>
          /\ received = sent /\ seen = {1 - Line}
          /\ sender \in {"awaitAck", "abort", "pulse", "failed"}
    /\ receiver = "awaitRelease" \/ (receiver = "abort" /\ rdrive # {}) =>
          /\ received = sent + 1
          /\ sender \notin {"assert", "done"}
    /\ receiver = "release" =>
          /\ sdrive = {} \/ sdrive = LINE_MASK
          /\ sender \in {"awaitIdle", "abort", "pulse", "failed"}
          /\ received = sent + 1

IInv ==
    /\ TypeOK
    /\ SenderDrives
    /\ ReceiverDrives
    /\ Counts
    /\ Handshake
    /\ BitsArriveInOrder

-----------------------------------------------------------------------------
(* The lines.                                                              *)

\* A bit is zero or one.
LEMMA BitIsBinary == ASSUME NEW b, NEW k PROVE BitOf(b, k) \in {0, 1}
  BY DEF BitOf

\* What an endpoint can conclude from the lines it reads: idle lines mean
\* that nobody pulls, the acknowledgement of bit b that somebody else pulls
\* the other line, and a single low line which bit is on it.
LEMMA Levels ==
    ASSUME sdrive \in SUBSET LINE_MASK, rdrive \in SUBSET LINE_MASK
    PROVE  /\ High = LINE_MASK => sdrive = {} /\ rdrive = {}
           /\ \A b \in {0, 1} :
                 sdrive = {b} /\ High = {} => rdrive # {} /\ rdrive # {b}
           /\ \A b \in {0, 1} :
                 sdrive = {b} /\ rdrive = {} => High = {1 - b}
           /\ \A b \in {0, 1} :
                 sdrive = {b} /\ High = LINE_MASK \ rdrive => b \in rdrive
           /\ (sdrive = {} \/ sdrive = LINE_MASK) /\ rdrive = {} => ~SingleLow(High)
  BY DEF High, LINE_MASK, SingleLow

\* The line that is still high when bit b is on the lines names b, and is
\* the line to pull.
LEMMA Observed ==
    ASSUME NEW b \in {0, 1}
    PROVE  ObservedBit({1 - b}) = b /\ AckDrive({1 - b}) = {1 - b}
  BY DEF ObservedBit, AckDrive

-----------------------------------------------------------------------------
(* The invariant holds initially, and each step preserves each layer.      *)

\* Two idle endpoints satisfy every layer.
LEMMA InvInit == Init => IInv
<1> SUFFICES ASSUME Init PROVE IInv
  OBVIOUS
<1>1. 0 < BITS /\ 0 .. 0 - 1 = {}
  BY BitsAssumption
<1>2. TypeOK
  BY <1>1, BitsAssumption DEF Init, TypeOK, SenderAt, ReceiverAt, LINE_MASK
<1>3. SenderDrives /\ ReceiverDrives /\ Counts /\ Handshake
  BY <1>1, BitsAssumption
  DEF Init, SenderDrives, ReceiverDrives, Counts, Handshake, Present
<1>4. BitsArriveInOrder
  BY <1>1 DEF Init, BitsArriveInOrder
<1> QED
  BY <1>2, <1>3, <1>4 DEF IInv

\* Types: no endpoint counts past the byte.
LEMMA TypeStep ==
    ASSUME IInv, Next PROVE TypeOK'
<1> USE BitsAssumption, BitIsBinary
    DEF given, senderVars, receiverVars, IInv, TypeOK, SenderDrives,
        ReceiverDrives, Counts, Handshake, SenderAt, ReceiverAt, LINE_MASK
<1>1. CASE SenderAsserts
  <2>1. SenderDrive(BitOf(byte, sent)) \in SUBSET LINE_MASK
    BY BitIsBinary DEF SenderDrive
  <2> QED
    BY <1>1, <2>1 DEF SenderAsserts
<1>2. CASE SenderSeesAck
  BY <1>2 DEF SenderSeesAck
<1>3. CASE SenderReleases
  BY <1>3 DEF SenderReleases
<1>4. CASE SenderSeesIdle
  <2>1. sent' \in 0 .. BITS
    BY <1>4 DEF SenderSeesIdle
  <2>2. sender' \in SenderAt
    BY <1>4 DEF SenderSeesIdle
  <2> QED
    BY <1>4, <2>1, <2>2 DEF SenderSeesIdle
<1>5. CASE SenderTimesOut
  BY <1>5 DEF SenderTimesOut
<1>6. CASE SenderAborts
  BY <1>6 DEF SenderAborts
<1>7. CASE SenderGivesUp
  BY <1>7 DEF SenderGivesUp
<1>8. CASE ReceiverSamples
  BY <1>8 DEF ReceiverSamples, High
<1>9. CASE ReceiverRejects
  BY <1>9 DEF ReceiverRejects
<1>10. CASE ReceiverAcks
  <2>1. received \in 0 .. BITS - 1 /\ received' = received + 1
    BY <1>10 DEF ReceiverAcks
  <2>2. received' \in 0 .. BITS
    BY <2>1
  <2>3. got' \in SUBSET (0 .. BITS - 1)
    BY <1>10, <2>1 DEF ReceiverAcks
  <2>4. rdrive' \in SUBSET LINE_MASK
    BY <1>10 DEF ReceiverAcks, AckDrive
  <2> QED
    BY <1>10, <2>2, <2>3, <2>4 DEF ReceiverAcks
<1>11. CASE ReceiverSeesRelease
  BY <1>11 DEF ReceiverSeesRelease
<1>12. CASE ReceiverReleases
  BY <1>12 DEF ReceiverReleases
<1>13. CASE ReceiverTimesOut
  BY <1>13 DEF ReceiverTimesOut
<1>14. CASE ReceiverAborts
  BY <1>14 DEF ReceiverAborts
<1>15. CASE ReceiverGivesUp
  BY <1>15 DEF ReceiverGivesUp
<1> QED
  BY <1>1, <1>2, <1>3, <1>4, <1>5, <1>6, <1>7,
     <1>8, <1>9, <1>10, <1>11, <1>12, <1>13, <1>14, <1>15
  DEF Next, Sender, Receiver

\* The sender's latch follows its position.
LEMMA SenderStep ==
    ASSUME IInv, Next PROVE SenderDrives'
<1> USE BitsAssumption
    DEF given, senderVars, receiverVars, IInv, TypeOK, SenderDrives, Line, SenderDrive
<1>1. CASE SenderAsserts
  BY <1>1 DEF SenderAsserts
<1>2. CASE SenderSeesAck
  BY <1>2 DEF SenderSeesAck
<1>3. CASE SenderReleases
  BY <1>3 DEF SenderReleases
<1>4. CASE SenderSeesIdle
  <2>1. sent' = sent + 1 /\ sent < BITS /\ sdrive' = {}
    BY <1>4 DEF SenderSeesIdle
  <2>2. sent' = BITS \/ sent' < BITS
    BY <2>1
  <2> QED
    BY <1>4, <2>1, <2>2 DEF SenderSeesIdle
<1>5. CASE SenderTimesOut
  BY <1>5 DEF SenderTimesOut
<1>6. CASE SenderAborts
  BY <1>6 DEF SenderAborts
<1>7. CASE SenderGivesUp
  BY <1>7 DEF SenderGivesUp
<1>8. CASE ReceiverSamples
  BY <1>8 DEF ReceiverSamples
<1>9. CASE ReceiverRejects
  BY <1>9 DEF ReceiverRejects
<1>10. CASE ReceiverAcks
  BY <1>10 DEF ReceiverAcks
<1>11. CASE ReceiverSeesRelease
  BY <1>11 DEF ReceiverSeesRelease
<1>12. CASE ReceiverReleases
  BY <1>12 DEF ReceiverReleases
<1>13. CASE ReceiverTimesOut
  BY <1>13 DEF ReceiverTimesOut
<1>14. CASE ReceiverAborts
  BY <1>14 DEF ReceiverAborts
<1>15. CASE ReceiverGivesUp
  BY <1>15 DEF ReceiverGivesUp
<1> QED
  BY <1>1, <1>2, <1>3, <1>4, <1>5, <1>6, <1>7,
     <1>8, <1>9, <1>10, <1>11, <1>12, <1>13, <1>14, <1>15
  DEF Next, Sender, Receiver

\* The receiver's latch follows its position.
LEMMA ReceiverStep ==
    ASSUME IInv, Next PROVE ReceiverDrives'
<1> USE BitsAssumption
    DEF given, senderVars, receiverVars, IInv, TypeOK, ReceiverDrives, Handshake, LastLine
<1>1. CASE SenderAsserts
  BY <1>1 DEF SenderAsserts
<1>2. CASE SenderSeesAck
  BY <1>2 DEF SenderSeesAck
<1>3. CASE SenderReleases
  BY <1>3 DEF SenderReleases
<1>4. CASE SenderSeesIdle
  BY <1>4 DEF SenderSeesIdle
<1>5. CASE SenderTimesOut
  BY <1>5 DEF SenderTimesOut
<1>6. CASE SenderAborts
  BY <1>6 DEF SenderAborts
<1>7. CASE SenderGivesUp
  BY <1>7 DEF SenderGivesUp
<1>8. CASE ReceiverSamples
  BY <1>8 DEF ReceiverSamples
<1>9. CASE ReceiverRejects
  BY <1>9 DEF ReceiverRejects
<1>10. CASE ReceiverAcks
  <2>1. received' = received + 1 /\ received = sent /\ received < BITS
    BY <1>10 DEF ReceiverAcks
  <2>2. LastLine' = Line
    BY <1>10, <2>1 DEF ReceiverAcks, Line
  <2>3. rdrive' = {1 - LastLine'}
    BY <1>10, <2>2 DEF ReceiverAcks, AckDrive
  <2>4. received' \in 1 .. BITS /\ receiver' = "awaitRelease"
    BY <1>10, <2>1 DEF ReceiverAcks
  <2> QED
    BY <2>3, <2>4
<1>11. CASE ReceiverSeesRelease
  BY <1>11 DEF ReceiverSeesRelease
<1>12. CASE ReceiverReleases
  BY <1>12 DEF ReceiverReleases
<1>13. CASE ReceiverTimesOut
  BY <1>13 DEF ReceiverTimesOut
<1>14. CASE ReceiverAborts
  BY <1>14 DEF ReceiverAborts
<1>15. CASE ReceiverGivesUp
  BY <1>15 DEF ReceiverGivesUp
<1> QED
  BY <1>1, <1>2, <1>3, <1>4, <1>5, <1>6, <1>7,
     <1>8, <1>9, <1>10, <1>11, <1>12, <1>13, <1>14, <1>15
  DEF Next, Sender, Receiver

\* Neither endpoint gets ahead of what the other has shown it.
LEMMA CountStep ==
    ASSUME IInv, Next PROVE Counts'
<1> USE BitsAssumption, Levels, BitIsBinary
    DEF given, senderVars, receiverVars, IInv, TypeOK, SenderDrives, ReceiverDrives, Counts,
        Handshake, Present, Line
<1>1. CASE SenderAsserts
  BY <1>1 DEF SenderAsserts
<1>2. CASE SenderSeesAck
  <2>1. sdrive = {Line} /\ Line \in {0, 1}
    BY <1>2 DEF SenderSeesAck
  <2>2. rdrive # {}
    BY <1>2, <2>1 DEF SenderSeesAck
  <2>3. Present => received = sent + 1
    BY <1>2, <2>2 DEF SenderSeesAck, ReceiverAt
  <2> QED
    BY <1>2, <2>3 DEF SenderSeesAck
<1>3. CASE SenderReleases
  BY <1>3 DEF SenderReleases
<1>4. CASE SenderSeesIdle
  <2>1. sdrive = {} /\ rdrive = {}
    BY <1>4 DEF SenderSeesIdle
  <2>2. receiver # "failed" => received = sent + 1
    <3>1. LINE_MASK # {}
      BY DEF LINE_MASK
    <3> QED
      BY <1>4, <2>1, <3>1 DEF SenderSeesIdle
  <2>3. sent <= received /\ sent' = sent + 1
    BY <1>4 DEF SenderSeesIdle
  <2> QED
    BY <1>4, <2>2, <2>3 DEF SenderSeesIdle
<1>5. CASE SenderTimesOut
  BY <1>5 DEF SenderTimesOut
<1>6. CASE SenderAborts
  BY <1>6 DEF SenderAborts
<1>7. CASE SenderGivesUp
  BY <1>7 DEF SenderGivesUp
<1>8. CASE ReceiverSamples
  BY <1>8 DEF ReceiverSamples
<1>9. CASE ReceiverRejects
  BY <1>9 DEF ReceiverRejects
<1>10. CASE ReceiverAcks
  BY <1>10 DEF ReceiverAcks
<1>11. CASE ReceiverSeesRelease
  BY <1>11 DEF ReceiverSeesRelease
<1>12. CASE ReceiverReleases
  BY <1>12 DEF ReceiverReleases
<1>13. CASE ReceiverTimesOut
  BY <1>13 DEF ReceiverTimesOut
<1>14. CASE ReceiverAborts
  BY <1>14 DEF ReceiverAborts
<1>15. CASE ReceiverGivesUp
  BY <1>15 DEF ReceiverGivesUp
<1> QED
  BY <1>1, <1>2, <1>3, <1>4, <1>5, <1>6, <1>7,
     <1>8, <1>9, <1>10, <1>11, <1>12, <1>13, <1>14, <1>15
  DEF Next, Sender, Receiver

\* The bit that is sampled is the bit under way.
LEMMA HandshakeStep ==
    ASSUME IInv, Next PROVE Handshake'
<1> USE BitsAssumption, Levels, BitIsBinary
    DEF given, senderVars, receiverVars, IInv, TypeOK, SenderDrives, ReceiverDrives, Counts,
        Handshake, Present, Line, LastLine
<1>1. CASE SenderAsserts
  BY <1>1 DEF SenderAsserts
<1>2. CASE SenderSeesAck
  BY <1>2 DEF SenderSeesAck
<1>3. CASE SenderReleases
  BY <1>3 DEF SenderReleases
<1>4. CASE SenderSeesIdle
  BY <1>4 DEF SenderSeesIdle
<1>5. CASE SenderTimesOut
  BY <1>5 DEF SenderTimesOut
<1>6. CASE SenderAborts
  <2>1. sdrive' # {Line'}
    BY <1>6 DEF SenderAborts, LINE_MASK
  <2> QED
    BY <1>6, <2>1 DEF SenderAborts
<1>7. CASE SenderGivesUp
  BY <1>7 DEF SenderGivesUp
<1>8. CASE ReceiverSamples
  <2>1. rdrive = {} /\ SingleLow(High)
    BY <1>8 DEF ReceiverSamples
  <2>2. sdrive = {Line}
    BY <2>1 DEF SenderAt
  <2>3. High = {1 - Line} /\ received = sent
    BY <1>8, <2>1, <2>2 DEF ReceiverSamples
  <2>4. sender \in {"awaitAck", "abort", "pulse", "failed"}
    BY <1>8, <2>2, <2>3 DEF ReceiverSamples, SenderAt
  <2> QED
    BY <1>8, <2>3, <2>4 DEF ReceiverSamples
<1>9. CASE ReceiverRejects
  BY <1>9 DEF ReceiverRejects
<1>10. CASE ReceiverAcks
  BY <1>10 DEF ReceiverAcks
<1>11. CASE ReceiverSeesRelease
  <2>1. rdrive = {1 - LastLine} /\ received = sent + 1
    BY <1>11 DEF ReceiverSeesRelease
  <2>2. LastLine = Line
    BY <2>1
  <2>3. sdrive # {Line}
    BY <1>11, <2>1, <2>2 DEF ReceiverSeesRelease
  <2> QED
    BY <1>11, <2>1, <2>3 DEF ReceiverSeesRelease, SenderAt
<1>12. CASE ReceiverReleases
  BY <1>12 DEF ReceiverReleases
<1>13. CASE ReceiverTimesOut
  BY <1>13 DEF ReceiverTimesOut
<1>14. CASE ReceiverAborts
  BY <1>14 DEF ReceiverAborts
<1>15. CASE ReceiverGivesUp
  BY <1>15 DEF ReceiverGivesUp
<1> QED
  BY <1>1, <1>2, <1>3, <1>4, <1>5, <1>6, <1>7,
     <1>8, <1>9, <1>10, <1>11, <1>12, <1>13, <1>14, <1>15
  DEF Next, Sender, Receiver

\* The bit that is rotated in is the bit that was sampled.
LEMMA BitStep ==
    ASSUME IInv, Next PROVE BitsArriveInOrder'
<1> USE BitsAssumption
    DEF given, senderVars, receiverVars, IInv, TypeOK, BitsArriveInOrder, Line
<1>1. CASE SenderAsserts
  BY <1>1 DEF SenderAsserts
<1>2. CASE SenderSeesAck
  BY <1>2 DEF SenderSeesAck
<1>3. CASE SenderReleases
  BY <1>3 DEF SenderReleases
<1>4. CASE SenderSeesIdle
  BY <1>4 DEF SenderSeesIdle
<1>5. CASE SenderTimesOut
  BY <1>5 DEF SenderTimesOut
<1>6. CASE SenderAborts
  BY <1>6 DEF SenderAborts
<1>7. CASE SenderGivesUp
  BY <1>7 DEF SenderGivesUp
<1>8. CASE ReceiverSamples
  BY <1>8 DEF ReceiverSamples
<1>9. CASE ReceiverRejects
  BY <1>9 DEF ReceiverRejects
<1>10. CASE ReceiverAcks
  <2>1. received = sent /\ received' = received + 1 /\ received \in 0 .. BITS
    BY <1>10 DEF ReceiverAcks, Handshake
  <2>2. ObservedBit(seen) = Line
    BY <1>10, BitIsBinary, Observed DEF ReceiverAcks, Handshake
  <2>3. got' = IF received \in byte THEN got \cup {received} ELSE got
    BY <1>10, <2>1, <2>2 DEF ReceiverAcks, BitOf
  <2>4. 0 .. received' - 1 = (0 .. received - 1) \cup {received}
    BY <2>1
  <2>5. byte' = byte
    BY <1>10 DEF ReceiverAcks
  <2> QED
    BY <2>3, <2>4, <2>5
<1>11. CASE ReceiverSeesRelease
  BY <1>11 DEF ReceiverSeesRelease
<1>12. CASE ReceiverReleases
  BY <1>12 DEF ReceiverReleases
<1>13. CASE ReceiverTimesOut
  BY <1>13 DEF ReceiverTimesOut
<1>14. CASE ReceiverAborts
  BY <1>14 DEF ReceiverAborts
<1>15. CASE ReceiverGivesUp
  BY <1>15 DEF ReceiverGivesUp
<1> QED
  BY <1>1, <1>2, <1>3, <1>4, <1>5, <1>6, <1>7,
     <1>8, <1>9, <1>10, <1>11, <1>12, <1>13, <1>14, <1>15
  DEF Next, Sender, Receiver

\* A step that changes nothing preserves the invariant.
LEMMA InvStutter == ASSUME IInv, UNCHANGED vars PROVE IInv'
  BY DEF vars, given, senderVars, receiverVars, IInv, TypeOK, SenderDrives,
         ReceiverDrives, Counts, Handshake, BitsArriveInOrder, Present, Line,
         LastLine

\* Every step preserves the invariant.
LEMMA InvNext == ASSUME IInv, [Next]_vars PROVE IInv'
<1>1. CASE Next
  <2>1. TypeOK' /\ SenderDrives' /\ ReceiverDrives'
    BY <1>1, TypeStep, SenderStep, ReceiverStep
  <2>2. Counts' /\ Handshake' /\ BitsArriveInOrder'
    BY <1>1, CountStep, HandshakeStep, BitStep
  <2> QED
    BY <2>1, <2>2 DEF IInv
<1>2. CASE UNCHANGED vars
  BY <1>2, InvStutter
<1> QED
  BY <1>1, <1>2

-----------------------------------------------------------------------------
(* Safety.                                                                 *)

\* All layers hold in every reachable state, for every width of a byte and
\* whether or not an endpoint may give up.
THEOREM Invariant == Spec => []IInv
<1>1. Init => IInv
  BY InvInit
<1>2. IInv /\ [Next]_vars => IInv'
  BY InvNext
<1> QED
  BY <1>1, <1>2, PTL DEF Spec

\* Every reachable state of the two endpoints is well typed.
THEOREM TypeCorrect == Spec => []TypeOK
<1>1. IInv => TypeOK
  BY DEF IInv
<1> QED
  BY <1>1, Invariant, PTL

\* The bits rotated in are the first bits of the byte, in order.
THEOREM InOrder == Spec => []BitsArriveInOrder
<1>1. IInv => BitsArriveInOrder
  BY DEF IInv
<1> QED
  BY <1>1, Invariant, PTL

\* A byte the sender believes delivered has arrived, or the receiver gave up.
THEOREM Delivered == Spec => []SentMeansReceived
<1>1. IInv => SentMeansReceived
  <2> SUFFICES ASSUME IInv, sender = "done", receiver \notin Aborting
               PROVE  received = BITS /\ got = byte
    BY DEF SentMeansReceived
  <2>1. received = BITS
    BY DEF IInv, Counts, SenderDrives, Present, Aborting
  <2>2. got = byte \cap (0 .. BITS - 1) /\ byte \in SUBSET (0 .. BITS - 1)
    BY <2>1 DEF IInv, TypeOK, BitsArriveInOrder
  <2> QED
    BY <2>1, <2>2
<1> QED
  BY <1>1, Invariant, PTL

\* A receiver that still listens is never behind what the sender counts.
THEOREM NoFalse == Spec => []NoFalseAck
<1>1. IInv => NoFalseAck
  BY DEF IInv, Counts, NoFalseAck, Aborting
<1> QED
  BY <1>1, Invariant, PTL

-----------------------------------------------------------------------------
(* Refinement.                                                             *)

\* The endpoints start where the channel starts.
LEMMA ChannelInit == Init => Channel!Init
  BY DEF Init, Channel!Init, Aborting

\* A step of the handshake is a step of the channel or none: the sender
\* confirms on idle lines, the receiver delivers with its acknowledgement,
\* and a timeout or a rejected line breaks the channel.
LEMMA ChannelStep ==
    ASSUME IInv, Next PROVE Channel!Next \/ UNCHANGED Channel!channel
<1> USE DEF Channel!Next, Channel!channel, given, senderVars, receiverVars, Aborting
<1>1. CASE SenderAsserts
  BY <1>1 DEF SenderAsserts
<1>2. CASE SenderSeesAck
  BY <1>2 DEF SenderSeesAck
<1>3. CASE SenderReleases
  BY <1>3 DEF SenderReleases
<1>4. CASE SenderSeesIdle
  <2>1. sent < BITS /\ sent' = sent + 1 /\ received' = received
    BY <1>4 DEF SenderSeesIdle, IInv, SenderDrives
  <2>2. sent < received \/ (receiver = "failed" /\ sent = received)
    BY <1>4, Levels
    DEF SenderSeesIdle, IInv, TypeOK, Counts, ReceiverDrives, Present,
        LINE_MASK
  <2>3. sender' \notin Aborting /\ sender \notin Aborting /\ receiver' = receiver
    BY <1>4 DEF SenderSeesIdle
  <2> QED
    BY <2>1, <2>2, <2>3 DEF Channel!Confirm
<1>5. CASE SenderTimesOut
  BY <1>5 DEF SenderTimesOut, Channel!Break
<1>6. CASE SenderAborts
  BY <1>6 DEF SenderAborts
<1>7. CASE SenderGivesUp
  BY <1>7 DEF SenderGivesUp
<1>8. CASE ReceiverSamples
  BY <1>8 DEF ReceiverSamples
<1>9. CASE ReceiverRejects
  BY <1>9 DEF ReceiverRejects, Channel!Break
<1>10. CASE ReceiverAcks
  <2>1. received = sent /\ received < BITS
    BY <1>10 DEF ReceiverAcks, IInv, Handshake, ReceiverDrives
  <2>2. received' = received + 1 /\ sent' = sent /\ sender' = sender
    BY <1>10 DEF ReceiverAcks
  <2>3. receiver' \notin Aborting /\ receiver \notin Aborting
    BY <1>10 DEF ReceiverAcks
  <2> QED
    BY <2>1, <2>2, <2>3 DEF Channel!Deliver
<1>11. CASE ReceiverSeesRelease
  BY <1>11 DEF ReceiverSeesRelease
<1>12. CASE ReceiverReleases
  BY <1>12 DEF ReceiverReleases
<1>13. CASE ReceiverTimesOut
  BY <1>13 DEF ReceiverTimesOut, Channel!Break
<1>14. CASE ReceiverAborts
  BY <1>14 DEF ReceiverAborts
<1>15. CASE ReceiverGivesUp
  BY <1>15 DEF ReceiverGivesUp
<1> QED
  BY <1>1, <1>2, <1>3, <1>4, <1>5, <1>6, <1>7,
     <1>8, <1>9, <1>10, <1>11, <1>12, <1>13, <1>14, <1>15
  DEF Next, Sender, Receiver

\* The handshake implements the stop-and-wait channel.
THEOREM Implements == Spec => ImplementsChannel
<1>1. Init => Channel!Init
  BY ChannelInit
<1>2. IInv /\ [Next]_vars => [Channel!Next]_(Channel!channel)
  <2> SUFFICES ASSUME IInv, [Next]_vars
               PROVE  Channel!Next \/ UNCHANGED Channel!channel
    OBVIOUS
  <2>1. CASE Next
    BY <2>1, ChannelStep
  <2>2. CASE UNCHANGED vars
    BY <2>2 DEF vars, given, senderVars, receiverVars, Channel!channel
  <2> QED
    BY <2>1, <2>2
<1> QED
  BY <1>1, <1>2, Invariant, PTL DEF Spec, ImplementsChannel, Channel!Spec

-----------------------------------------------------------------------------
(* Progress.  That both endpoints come to an end needs fairness and stays  *)
(* with TLC; what it rests on needs none: somebody can always move, and    *)
(* no step ever leaves more to do than it found.                           *)

SenderEnded   == sender \in {"done", "failed"}
ReceiverEnded == receiver \in {"done", "failed"}

\* The guards of the endpoints' steps.
SenderReady ==
    \/ sender \in {"assert", "release", "abort", "pulse"}
    \/ sender = "awaitAck" /\ High = {}
    \/ sender = "awaitIdle" /\ High = LINE_MASK
    \/ sender \in {"awaitAck", "awaitIdle"} /\ ~patient

ReceiverReady ==
    \/ receiver \in {"ack", "release", "abort", "pulse"}
    \/ receiver = "awaitBit" /\ (SingleLow(High) \/ High = {})
    \/ receiver = "awaitRelease" /\ High = LINE_MASK \ rdrive
    \/ receiver \in {"awaitBit", "awaitRelease"} /\ ~patient

SomebodyCanMove == (SenderEnded /\ ReceiverEnded) \/ SenderReady \/ ReceiverReady

\* The byte is over and the lines are free for the next one.
Transferred ==
    sender = "done" /\ receiver = "done" /\ got = byte /\ High = LINE_MASK

\* Endpoints that do not give up on their own see no reason to.
StaysPatient == patient => (sender \notin Aborting /\ receiver \notin Aborting)

\* A receiver that has its byte is never waited for with a bit on the lines.
LastBitSeen ==
    receiver = "done" => sender \in {"awaitIdle", "done"} \cup Aborting

\* Steps an endpoint has at most before it ends: four for a bit, and the
\* cleanup.
SenderWork ==
    CASE SenderEnded          -> 0
      [] sender = "pulse"     -> 1
      [] sender = "abort"     -> 2
      [] sender = "awaitIdle" -> 3 + 4 * (BITS - sent)
      [] sender = "release"   -> 4 + 4 * (BITS - sent)
      [] sender = "awaitAck"  -> 5 + 4 * (BITS - sent)
      [] sender = "assert"    -> 6 + 4 * (BITS - sent)

ReceiverWork ==
    CASE ReceiverEnded             -> 0
      [] receiver = "pulse"        -> 1
      [] receiver = "abort"        -> 2
      [] receiver = "ack"          -> 5 + 4 * (BITS - received)
      [] receiver = "awaitBit"     -> 6 + 4 * (BITS - received)
      [] receiver = "release"      -> 7 + 4 * (BITS - received)
      [] receiver = "awaitRelease" -> 8 + 4 * (BITS - received)

\* Work is a number of steps, and there is some while an endpoint has not
\* ended.
LEMMA WorkIsNatural ==
    ASSUME TypeOK
    PROVE  /\ SenderWork \in Nat /\ (SenderEnded \/ SenderWork > 0)
           /\ ReceiverWork \in Nat /\ (ReceiverEnded \/ ReceiverWork > 0)
<1>1. BITS - sent \in Nat /\ BITS - received \in Nat
  BY BitsAssumption DEF TypeOK
<1> HIDE <1>1
<1>2. \A n \in Nat : 4 * n \in Nat
  OBVIOUS
<1>3. SenderWork \in Nat /\ (SenderEnded \/ SenderWork > 0)
  BY <1>1, <1>2 DEF TypeOK, SenderAt, SenderWork, SenderEnded
<1>4. ReceiverWork \in Nat /\ (ReceiverEnded \/ ReceiverWork > 0)
  BY <1>1, <1>2 DEF TypeOK, ReceiverAt, ReceiverWork, ReceiverEnded
<1> QED
  BY <1>3, <1>4

\* A step of the sender takes from its own work and leaves the receiver's.
LEMMA SenderWorkStep ==
    ASSUME IInv, Sender
    PROVE  SenderWork' < SenderWork /\ ReceiverWork' = ReceiverWork
<1>1. UNCHANGED receiverVars
  BY DEF Sender, SenderAsserts, SenderSeesAck, SenderReleases,
         SenderSeesIdle, SenderTimesOut, SenderAborts, SenderGivesUp
<1>2. ReceiverWork' = ReceiverWork
  BY <1>1 DEF receiverVars, ReceiverWork, ReceiverEnded
<1>3. BITS \in Nat /\ sent \in Nat /\ sent <= BITS
  BY BitsAssumption DEF IInv, TypeOK
<1> USE <1>2, <1>3 DEF SenderWork, SenderEnded
<1>4. CASE SenderAsserts
  BY <1>4 DEF SenderAsserts
<1>5. CASE SenderSeesAck
  BY <1>5 DEF SenderSeesAck
<1>6. CASE SenderReleases
  BY <1>6 DEF SenderReleases
<1>7. CASE SenderSeesIdle
  BY <1>7 DEF SenderSeesIdle
<1>8. CASE SenderTimesOut
  BY <1>8 DEF SenderTimesOut
<1>9. CASE SenderAborts \/ SenderGivesUp
  BY <1>9 DEF SenderAborts, SenderGivesUp
<1> QED
  BY <1>2, <1>4, <1>5, <1>6, <1>7, <1>8, <1>9 DEF Sender

\* A step of the receiver takes from its own work and leaves the sender's.
LEMMA ReceiverWorkStep ==
    ASSUME IInv, Receiver
    PROVE  ReceiverWork' < ReceiverWork /\ SenderWork' = SenderWork
<1>1. UNCHANGED senderVars
  BY DEF Receiver, ReceiverSamples, ReceiverRejects, ReceiverAcks,
         ReceiverSeesRelease, ReceiverReleases, ReceiverTimesOut,
         ReceiverAborts, ReceiverGivesUp
<1>2. SenderWork' = SenderWork
  BY <1>1 DEF senderVars, SenderWork, SenderEnded
<1>3. BITS \in Nat /\ received \in Nat /\ received <= BITS
  BY BitsAssumption DEF IInv, TypeOK
<1> USE <1>2, <1>3 DEF ReceiverWork, ReceiverEnded
<1>4. CASE ReceiverSamples
  BY <1>4 DEF ReceiverSamples
<1>5. CASE ReceiverRejects
  BY <1>5 DEF ReceiverRejects
<1>6. CASE ReceiverAcks
  BY <1>6 DEF ReceiverAcks
<1>7. CASE ReceiverSeesRelease
  BY <1>7 DEF ReceiverSeesRelease
<1>8. CASE ReceiverReleases
  BY <1>8 DEF ReceiverReleases
<1>9. CASE ReceiverTimesOut
  BY <1>9 DEF ReceiverTimesOut
<1>10. CASE ReceiverAborts \/ ReceiverGivesUp
  BY <1>10 DEF ReceiverAborts, ReceiverGivesUp
<1> QED
  BY <1>2, <1>4, <1>5, <1>6, <1>7, <1>8, <1>9, <1>10 DEF Receiver

\* What is left to do, and what there can be at most.
Work    == SenderWork + ReceiverWork
Bounded == Work \in Nat /\ Work <= 8 * BITS + 12

\* Every step of either endpoint leaves less to do, so a transfer is over
\* after at most eight steps for each bit and twelve more, whatever the
\* delays and whoever gives up.
\* (the polling loops take a bit or count down to the error cleanup)
THEOREM StepsRunOut == Spec => []Bounded /\ [][Work' < Work]_vars
<1> DEFINE Natural == SenderWork \in Nat /\ ReceiverWork \in Nat
<1>1. IInv => Natural
  BY WorkIsNatural DEF IInv
<1>2. Init => Bounded
  <2> SUFFICES ASSUME Init PROVE Bounded
    OBVIOUS
  <2>1. SenderWork = 6 + 4 * BITS /\ ReceiverWork = 6 + 4 * BITS /\ BITS \in Nat
    BY BitsAssumption
    DEF Init, SenderWork, ReceiverWork, SenderEnded, ReceiverEnded
  <2> QED
    BY <2>1 DEF Bounded, Work
<1>3. ASSUME IInv, Natural, Natural', Next PROVE Work' < Work
  <2>1. \A s, t, r \in Nat : s < t => s + r < t + r /\ r + s < r + t
    OBVIOUS
  <2>2. CASE Sender
    <3>1. SenderWork' < SenderWork /\ ReceiverWork' = ReceiverWork
      BY <1>3, <2>2, SenderWorkStep
    <3>2. SenderWork' + ReceiverWork < SenderWork + ReceiverWork
      BY <1>3, <2>1, <3>1
    <3> QED
      BY <3>1, <3>2 DEF Work
  <2>3. CASE Receiver
    <3>1. ReceiverWork' < ReceiverWork /\ SenderWork' = SenderWork
      BY <1>3, <2>3, ReceiverWorkStep
    <3>2. SenderWork + ReceiverWork' < SenderWork + ReceiverWork
      BY <1>3, <2>1, <3>1
    <3> QED
      BY <3>1, <3>2 DEF Work
  <2> QED
    BY <1>3, <2>2, <2>3 DEF Next
<1>4. IInv /\ Natural /\ Natural' /\ Bounded /\ [Next]_vars => Bounded'
  <2> SUFFICES ASSUME IInv, Natural, Natural', Bounded, [Next]_vars
               PROVE  Bounded'
    OBVIOUS
  <2>1. Work' \in Nat
    <3>1. \A s, t \in Nat : s + t \in Nat
      OBVIOUS
    <3>2. SenderWork' + ReceiverWork' \in Nat
      BY <3>1
    <3> QED
      BY <3>2 DEF Work
  <2>2. CASE Next
    <3>1. Work' < Work /\ 8 * BITS + 12 \in Nat
      BY <1>3, <2>2, BitsAssumption
    <3>2. \A i, j, k \in Nat : i < j /\ j <= k => i <= k
      OBVIOUS
    <3> QED
      BY <2>1, <3>1, <3>2 DEF Bounded
  <2>3. CASE UNCHANGED vars
    <3>1. Work' = Work
      BY <2>3 DEF vars, given, senderVars, receiverVars, Work, SenderWork,
                  ReceiverWork, SenderEnded, ReceiverEnded
    <3> QED
      BY <3>1 DEF Bounded
  <2> QED
    BY <2>2, <2>3
<1>5. IInv /\ Natural /\ Natural' /\ [Next]_vars => [Work' < Work]_vars
  BY <1>3
<1> HIDE DEF Natural
<1> QED
  BY <1>1, <1>2, <1>4, <1>5, Invariant, PTL DEF Spec

\* Without timeouts nobody aborts: a receiver that waits for a bit never
\* finds both lines low.
LEMMA PatientStep ==
    ASSUME IInv, StaysPatient, LastBitSeen, [Next]_vars PROVE StaysPatient' /\ LastBitSeen'
<1> USE DEF StaysPatient, LastBitSeen, Aborting, given, senderVars, receiverVars
<1>1. CASE UNCHANGED vars
  BY <1>1 DEF vars
<1>2. CASE SenderAsserts
  BY <1>2 DEF SenderAsserts, IInv, TypeOK, SenderDrives, ReceiverDrives, Counts, Present
<1>3. CASE SenderSeesAck \/ SenderReleases \/ SenderSeesIdle
  BY <1>3 DEF SenderSeesAck, SenderReleases, SenderSeesIdle, IInv, TypeOK,
              SenderDrives, ReceiverDrives, Counts, Present
<1>4. CASE SenderTimesOut \/ SenderAborts \/ SenderGivesUp
  BY <1>4 DEF SenderTimesOut, SenderAborts, SenderGivesUp
<1>5. CASE ReceiverRejects
  <2>1. ~patient
    <3> SUFFICES ASSUME sender \notin Aborting PROVE FALSE
      BY <1>5
    <3>1. rdrive = {} /\ (sdrive = {} \/ sdrive = {Line}) /\ Line \in {0, 1}
      BY <1>5, BitIsBinary
      DEF ReceiverRejects, IInv, TypeOK, SenderAt, SenderDrives,
          ReceiverDrives, Line
    <3> QED
      BY <1>5, <3>1 DEF ReceiverRejects, High, LINE_MASK
  <2> QED
    BY <1>5, <2>1 DEF ReceiverRejects
<1>6. CASE ReceiverReleases
  BY <1>6 DEF ReceiverReleases, IInv, Handshake
<1>7. CASE \/ ReceiverSamples \/ ReceiverAcks \/ ReceiverSeesRelease
           \/ ReceiverTimesOut \/ ReceiverAborts \/ ReceiverGivesUp
  BY <1>7 DEF ReceiverSamples, ReceiverAcks, ReceiverSeesRelease,
              ReceiverTimesOut, ReceiverAborts, ReceiverGivesUp
<1> QED
  BY <1>1, <1>2, <1>3, <1>4, <1>5, <1>6, <1>7 DEF Next, Sender, Receiver

\* Two endpoints that wait for each other both have what they wait for.
LEMMA NoDeadlock ==
    ASSUME IInv, StaysPatient, LastBitSeen PROVE SomebodyCanMove
<1> USE DEF SomebodyCanMove, SenderReady, ReceiverReady, SenderEnded,
            ReceiverEnded, Aborting
<1>1. CASE ~patient
  BY <1>1 DEF IInv, TypeOK, SenderAt, ReceiverAt
<1>2. CASE patient
  <2>1. /\ sender \in {"assert", "awaitAck", "release", "awaitIdle", "done"}
        /\ receiver \in {"awaitBit", "ack", "awaitRelease", "release", "done"}
    BY <1>2 DEF StaysPatient, IInv, TypeOK, SenderAt, ReceiverAt
  <2>2. CASE sender = "awaitAck" /\ receiver = "awaitBit"
    <3>1. Line \in {0, 1} /\ sdrive = {Line} /\ rdrive = {}
      BY <2>2, BitIsBinary DEF IInv, SenderDrives, ReceiverDrives, Line
    <3> QED
      BY <2>2, <3>1 DEF High, LINE_MASK, SingleLow
  <2>3. CASE sender = "awaitAck" /\ receiver = "awaitRelease"
    <3>1. received = sent + 1 /\ sent \in Nat
      BY <2>3 DEF IInv, TypeOK, Handshake
    <3>2. LastLine = Line
      BY <3>1 DEF LastLine, Line
    <3>3. Line \in {0, 1} /\ sdrive = {Line} /\ rdrive = {1 - Line}
      BY <2>3, <3>2, BitIsBinary DEF IInv, SenderDrives, ReceiverDrives, Line
    <3> QED
      BY <2>3, <3>3 DEF High, LINE_MASK
  <2>4. CASE sender = "awaitAck" /\ receiver = "done"
    BY <2>4 DEF LastBitSeen
  <2>5. CASE sender = "awaitIdle" /\ receiver \in {"awaitBit", "awaitRelease", "done"}
    BY <2>5 DEF IInv, SenderDrives, ReceiverDrives, High
  <2>6. CASE sender = "done" /\ receiver \in {"awaitBit", "awaitRelease", "done"}
    BY <2>6 DEF IInv, TypeOK, SenderDrives, ReceiverDrives, Counts, Handshake, Present
  <2> QED
    BY <2>1, <2>2, <2>3, <2>4, <2>5, <2>6
<1> QED
  BY <1>1, <1>2

\* The two endpoints never wait for each other: until both have ended, one
\* of them finds the lines it polls for, or may give up.
\* (the two polling loops of a bit)
THEOREM NeverStuck == Spec => []SomebodyCanMove
<1>1. Init => StaysPatient /\ LastBitSeen
  BY DEF Init, StaysPatient, LastBitSeen, Aborting
<1>2. IInv /\ (StaysPatient /\ LastBitSeen) /\ [Next]_vars => (StaysPatient /\ LastBitSeen)'
  BY PatientStep
<1>3. IInv /\ (StaysPatient /\ LastBitSeen) => SomebodyCanMove
  BY NoDeadlock
<1> QED
  BY <1>1, <1>2, <1>3, Invariant, PTL DEF Spec

\* Endpoints that do not give up end with the byte transferred and the lines
\* released.  (handshake_phases, one bit after the other)
THEOREM PatientTransfer ==
    Spec => [](patient /\ SenderEnded /\ ReceiverEnded => Transferred)
<1>1. Init => StaysPatient /\ LastBitSeen
  BY DEF Init, StaysPatient, LastBitSeen, Aborting
<1>2. IInv /\ (StaysPatient /\ LastBitSeen) /\ [Next]_vars => (StaysPatient /\ LastBitSeen)'
  BY PatientStep
<1>3. IInv /\ (StaysPatient /\ LastBitSeen) =>
        (patient /\ SenderEnded /\ ReceiverEnded => Transferred)
  <2> SUFFICES ASSUME IInv, StaysPatient, patient, SenderEnded, ReceiverEnded PROVE Transferred
    OBVIOUS
  <2>1. sender = "done" /\ receiver = "done"
    BY DEF StaysPatient, SenderEnded, ReceiverEnded, Aborting
  <2>2. received = BITS /\ sdrive = {} /\ rdrive = {}
    BY <2>1 DEF IInv, SenderDrives, ReceiverDrives
  <2>3. got = byte
    BY <2>2 DEF IInv, TypeOK, BitsArriveInOrder
  <2> QED
    BY <2>1, <2>2, <2>3 DEF Transferred, High
<1> QED
  BY <1>1, <1>2, <1>3, Invariant, PTL DEF Spec

\* Whoever gave up: once both endpoints have ended the lines are released.
THEOREM EndsReleased == Spec => [](SenderEnded /\ ReceiverEnded => High = LINE_MASK)
<1>1. IInv => (SenderEnded /\ ReceiverEnded => High = LINE_MASK)
  BY DEF IInv, SenderDrives, ReceiverDrives, SenderEnded, ReceiverEnded, High
<1> QED
  BY <1>1, Invariant, PTL

-----------------------------------------------------------------------------
(* What the channel itself implies, and with it the handshake.             *)

\* Sender and receiver are never more than a bit apart.
InStep ==
    /\ sent \in Nat /\ received \in Nat
    /\ sent <= received + 1 /\ received <= sent + 1

\* A confirmation without its delivery is the last thing that happens.
Frozen == sent > received => sent' = sent /\ received' = received

LEMMA ChannelInStep ==
    ImplementsChannel => []InStep /\ [][Frozen]_<<sent, received>>
<1>1. Channel!Init => InStep
  BY DEF Channel!Init, InStep
<1>2. InStep /\ [Channel!Next]_(Channel!channel) => InStep' /\ Frozen
  BY DEF InStep, Frozen, Channel!Next, Channel!channel, Channel!Deliver,
         Channel!Confirm, Channel!Break
<1>3. InStep /\ [Channel!Next]_(Channel!channel)
          => InStep' /\ [Frozen]_<<sent, received>>
  BY <1>2
<1> QED
  BY <1>1, <1>3, PTL DEF ImplementsChannel, Channel!Spec

\* Whatever times out and when, the two counts of bits stay within one of
\* each other, and if an abort is taken for an acknowledgement, which leaves
\* the sender ahead, no further bit is sent or received.
THEOREM StopAndWait == Spec => []InStep /\ [][Frozen]_<<sent, received>>
<1> QED
  BY Implements, ChannelInStep, PTL
=============================================================================
