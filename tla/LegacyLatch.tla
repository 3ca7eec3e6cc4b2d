---------------------------- MODULE LegacyLatch ----------------------------
(***************************************************************************)
(* What the legacy interrupt controller promises: a source that is enabled *)
(* may request, a request stays until a write has a zero at its bit, and   *)
(* nothing that is not enabled is ever pending.  This is the public        *)
(* contract (acknowledge_legacy_sources and the port 3 mask bits), free of *)
(* how an emulator stores masks, levels and latches.                       *)
(*                                                                         *)
(* Source: src/tools/ti84re/hardware/interrupt_controller.py               *)
(***************************************************************************)
EXTENDS Integers

CONSTANTS
    SOURCES,   \* bits of the latched sources
    ResetMask  \* sources a reset leaves enabled

VARIABLES
    supported,  \* sources this controller implements
    enabled,    \* sources that may request
    pending     \* requests not yet acknowledged

latch == <<supported, enabled, pending>>

LatchTypeOK ==
    /\ supported \in SUBSET SOURCES
    /\ enabled \in SUBSET supported
    /\ pending \in SUBSET enabled

Init ==
    /\ supported \in SUBSET SOURCES
    /\ enabled \in SUBSET supported
    /\ pending = {}

\* One callback may latch several sources, but enabled ones only.
Request ==
    \E on \in SUBSET enabled :
        /\ pending' = pending \cup on
        /\ UNCHANGED <<supported, enabled>>

\* A port 3 write: zero disables and acknowledges, one leaves a request.
Mask ==
    \E m \in SUBSET SOURCES :
        /\ enabled' = m \cap supported
        /\ pending' = pending \cap m
        /\ UNCHANGED supported

\* A port 2 write acknowledges and leaves the mask alone.
Acknowledge ==
    \E v \in SUBSET SOURCES :
        /\ pending' = pending \cap v
        /\ UNCHANGED <<supported, enabled>>

Reset ==
    /\ enabled' = ResetMask \cap supported
    /\ pending' = {}
    /\ UNCHANGED supported

Next == Request \/ Mask \/ Acknowledge \/ Reset

Spec == Init /\ [][Next]_latch
=============================================================================
