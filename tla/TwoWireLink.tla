---------------------------- MODULE TwoWireLink ----------------------------
(***************************************************************************)
(* One byte over the raw two-wire link: two endpoints that share           *)
(* nothing but two open-collector lines, each polling, waiting and giving  *)
(* up at its own pace.                                                     *)
(*                                                                         *)
(*   sender      assert b ----------> release ----------> assert next      *)
(*   receiver        acknowledge on the other line -> release              *)
(*                                                                         *)
(* A read of the port and the write that follows from it are separate      *)
(* steps: the lines may change in between.  A loop counter that runs out   *)
(* sends its endpoint to the error cleanup, which pulls both lines low for *)
(* a while and releases them.                                              *)
(*                                                                         *)
(* Source: src/tools/ti84re/link/port.py.  The polling loops belong to the *)
(* calculator ROM; port.py has their line states (handshake_phases), the   *)
(* states they reject (observed_state_to_bit) and the abort pulse.         *)
(***************************************************************************)
EXTENDS Integers

CONSTANT
    BITS        \* bits in a byte

ASSUME BitsAssumption == BITS \in Nat \ {0}

VARIABLES
    byte,       \* the byte to send, as the set of its one bits
    patient,    \* no loop counter runs out in this transfer
    sender,     \* position of the sending endpoint
    sdrive,     \* lines its port latch pulls low
    sent,       \* bits it has seen acknowledged and released
    receiver,   \* position of the receiving endpoint
    rdrive,     \* lines its port latch pulls low
    seen,       \* high lines it last sampled
    got,        \* one bits it has rotated in
    received    \* bits it has rotated in

given        == <<byte, patient>>
senderVars   == <<sender, sdrive, sent>>
receiverVars == <<receiver, rdrive, seen, got, received>>
vars         == <<given, senderVars, receiverVars>>

-----------------------------------------------------------------------------
(* The lines.  A mask of port 0 is the set of the lines it names.          *)

LINE_MASK == {0, 1}

\* physical_high_mask: a line is high when nobody pulls it low.
High == LINE_MASK \ (sdrive \cup rdrive)

\* sender_drive: bit b pulls line b low.
SenderDrive(b) == {b}

\* observed_state_to_bit, on exactly one high line.
SingleLow(high) == high # LINE_MASK /\ high # {}
ObservedBit(high) == IF high = {1} THEN 0 ELSE 1

\* receiver_ack_drive: pull the line that is still high.
AckDrive(high) == high

\* byte_drive_sequence: least significant bit first.
BitOf(b, k) == IF k \in b THEN 1 ELSE 0

SenderAt == {"assert", "awaitAck", "release", "awaitIdle", "done",
             "abort", "pulse", "failed"}
ReceiverAt == {"awaitBit", "ack", "awaitRelease", "release", "done",
               "abort", "pulse", "failed"}

TypeOK ==
    /\ byte \in SUBSET (0 .. BITS - 1) /\ patient \in BOOLEAN
    /\ sender \in SenderAt /\ sdrive \in SUBSET LINE_MASK
    /\ sent \in 0 .. BITS
    /\ receiver \in ReceiverAt /\ rdrive \in SUBSET LINE_MASK
    /\ seen \in SUBSET LINE_MASK
    /\ got \in SUBSET (0 .. BITS - 1) /\ received \in 0 .. BITS

Init ==
    /\ byte \in SUBSET (0 .. BITS - 1) /\ patient \in BOOLEAN
    /\ sender = "assert" /\ sdrive = {} /\ sent = 0
    /\ receiver = "awaitBit" /\ rdrive = {} /\ seen = LINE_MASK
    /\ got = {} /\ received = 0

-----------------------------------------------------------------------------
(* The sending endpoint.                                                   *)

SenderAsserts ==
    /\ sender = "assert" /\ sender' = "awaitAck"
    /\ sdrive' = SenderDrive(BitOf(byte, sent))
    /\ UNCHANGED <<given, sent, receiverVars>>

\* Seeded fault: the sender takes its own line for the acknowledgement.
SenderSeesAckEarly ==
    /\ sender = "awaitAck" /\ sender' = "release"
    /\ High # LINE_MASK
    /\ UNCHANGED <<given, sdrive, sent, receiverVars>>

SenderSeesAck ==
    /\ sender = "awaitAck" /\ sender' = "release"
    /\ High = {}
    /\ UNCHANGED <<given, sdrive, sent, receiverVars>>

SenderReleases ==
    /\ sender = "release" /\ sender' = "awaitIdle"
    /\ sdrive' = {}
    /\ UNCHANGED <<given, sent, receiverVars>>

\* Seeded fault: the next bit does not wait for idle lines.
SenderSkipsIdle ==
    /\ sender = "awaitIdle"
    /\ sent' = sent + 1
    /\ sender' = IF sent' = BITS THEN "done" ELSE "assert"
    /\ UNCHANGED <<given, sdrive, receiverVars>>

SenderSeesIdle ==
    /\ sender = "awaitIdle" /\ High = LINE_MASK
    /\ sent' = sent + 1
    /\ sender' = IF sent' = BITS THEN "done" ELSE "assert"
    /\ UNCHANGED <<given, sdrive, receiverVars>>

SenderTimesOut ==
    /\ ~patient
    /\ sender \in {"awaitAck", "awaitIdle"} /\ sender' = "abort"
    /\ UNCHANGED <<given, sdrive, sent, receiverVars>>

SenderAborts ==
    /\ sender = "abort" /\ sender' = "pulse"
    /\ sdrive' = LINE_MASK
    /\ UNCHANGED <<given, sent, receiverVars>>

\* Seeded fault: the cleanup forgets to release the lines.
SenderHoldsLines ==
    /\ sender = "pulse" /\ sender' = "failed"
    /\ UNCHANGED <<given, sdrive, sent, receiverVars>>

SenderGivesUp ==
    /\ sender = "pulse" /\ sender' = "failed"
    /\ sdrive' = {}
    /\ UNCHANGED <<given, sent, receiverVars>>

Sender ==
    \/ SenderAsserts \/ SenderSeesAck \/ SenderReleases \/ SenderSeesIdle
    \/ SenderTimesOut \/ SenderAborts \/ SenderGivesUp

-----------------------------------------------------------------------------
(* The receiving endpoint.                                                 *)

ReceiverSamples ==
    /\ receiver = "awaitBit" /\ receiver' = "ack"
    /\ SingleLow(High)
    /\ seen' = High
    /\ UNCHANGED <<given, senderVars, rdrive, got, received>>

\* Both lines low before a bit was chosen is a link error.
ReceiverRejects ==
    /\ receiver = "awaitBit" /\ receiver' = "abort"
    /\ High = {}
    /\ UNCHANGED <<given, senderVars, rdrive, seen, got, received>>

\* Seeded faults: the bit counter counts edges, not bits; bits are rotated
\* in most significant first.
ReceiverAcksEdges ==
    /\ receiver = "ack" /\ receiver' = "awaitRelease"
    /\ rdrive' = AckDrive(seen)
    /\ got' = IF ObservedBit(seen) = 1 THEN got \cup {received} ELSE got
    /\ received' = received + (IF ObservedBit(seen) = 1 THEN 2 ELSE 1)
    /\ UNCHANGED <<given, senderVars, seen>>

ReceiverAcksMsbFirst ==
    /\ receiver = "ack" /\ receiver' = "awaitRelease"
    /\ rdrive' = AckDrive(seen)
    /\ got' = IF ObservedBit(seen) = 1 THEN got \cup {BITS - 1 - received}
                                      ELSE got
    /\ received' = received + 1
    /\ UNCHANGED <<given, senderVars, seen>>

\* The acknowledgement goes out and the bit is rotated in.
\* (assemble_observed_byte)
ReceiverAcks ==
    /\ receiver = "ack" /\ receiver' = "awaitRelease"
    /\ rdrive' = AckDrive(seen)
    /\ got' = IF ObservedBit(seen) = 1 THEN got \cup {received} ELSE got
    /\ received' = received + 1
    /\ UNCHANGED <<given, senderVars, seen>>

\* Seeded fault: the receiver releases without waiting for the sender.
ReceiverReleasesEarly ==
    /\ receiver = "awaitRelease" /\ receiver' = "release"
    /\ UNCHANGED <<given, senderVars, rdrive, seen, got, received>>

ReceiverSeesRelease ==
    /\ receiver = "awaitRelease" /\ receiver' = "release"
    /\ High = LINE_MASK \ rdrive
    /\ UNCHANGED <<given, senderVars, rdrive, seen, got, received>>

\* Seeded fault: the acknowledgement stays on the line.
ReceiverHoldsLine ==
    /\ receiver = "release"
    /\ receiver' = IF received = BITS THEN "done" ELSE "awaitBit"
    /\ UNCHANGED <<given, senderVars, rdrive, seen, got, received>>

ReceiverReleases ==
    /\ receiver = "release"
    /\ receiver' = IF received = BITS THEN "done" ELSE "awaitBit"
    /\ rdrive' = {}
    /\ UNCHANGED <<given, senderVars, seen, got, received>>

ReceiverTimesOut ==
    /\ ~patient
    /\ receiver \in {"awaitBit", "awaitRelease"} /\ receiver' = "abort"
    /\ UNCHANGED <<given, senderVars, rdrive, seen, got, received>>

ReceiverAborts ==
    /\ receiver = "abort" /\ receiver' = "pulse"
    /\ rdrive' = LINE_MASK
    /\ UNCHANGED <<given, senderVars, seen, got, received>>

ReceiverGivesUp ==
    /\ receiver = "pulse" /\ receiver' = "failed"
    /\ rdrive' = {}
    /\ UNCHANGED <<given, senderVars, seen, got, received>>

Receiver ==
    \/ ReceiverSamples \/ ReceiverRejects \/ ReceiverAcks
    \/ ReceiverSeesRelease \/ ReceiverReleases
    \/ ReceiverTimesOut \/ ReceiverAborts \/ ReceiverGivesUp

-----------------------------------------------------------------------------
Next == Sender \/ Receiver

\* Each processor keeps executing its own loop, however slowly.
Spec == Init /\ [][Next]_vars /\ WF_vars(Sender) /\ WF_vars(Receiver)

-----------------------------------------------------------------------------
(* Properties.                                                             *)

Aborting == {"abort", "pulse", "failed"}

\* Whatever either endpoint does and whoever gives up when, the bits rotated
\* in are the first bits of the byte, in order: none is lost, doubled or
\* read off an acknowledgement or an abort pulse.
\* (observed_state_to_bit and assemble_observed_byte on a live line)
BitsArriveInOrder == got = byte \cap (0 .. received - 1)

\* A byte the sender believes delivered has arrived, unless the receiver
\* gave up: its abort pulse looks like the last acknowledgement.
\* (both lines low is the acknowledgement and the error state)
SentMeansReceived ==
    sender = "done" =>
        \/ received = BITS /\ got = byte
        \/ receiver \in Aborting

\* A receiver that still listens is never behind what the sender counts: an
\* acknowledgement is taken from a pulse only when the receiver has left.
NoFalseAck == sent <= received \/ receiver \in Aborting

\* The handshake is a stop-and-wait channel.
Channel == INSTANCE BitChannel WITH
    Total     <- BITS,
    delivered <- received,
    confirmed <- sent,
    broken    <- sender \in Aborting \/ receiver \in Aborting
ImplementsChannel == Channel!Spec

\* However the delays fall, both endpoints come to an end and leave the
\* lines released for the next transfer.
LinesComeBack ==
    <>[](/\ sender \in {"done", "failed"} /\ receiver \in {"done", "failed"}
         /\ High = LINE_MASK)

\* Endpoints that wait long enough transfer the whole byte.
ByteCompletes ==
    patient => <>(sender = "done" /\ receiver = "done" /\ got = byte)
=============================================================================
