----------------------------- MODULE BitChannel -----------------------------
(***************************************************************************)
(* What the two-wire handshake promises its caller: a stop-and-wait        *)
(* channel.  A bit is delivered only when every earlier one is confirmed,  *)
(* and confirmed after it was delivered.  Once an endpoint has given up,   *)
(* one confirmation may come without its delivery, and no bit is           *)
(* delivered after that.                                                   *)
(*                                                                         *)
(* Source: handshake_phases and byte_drive_sequence of                     *)
(* src/tools/ti84re/link/port.py.                                          *)
(***************************************************************************)
EXTENDS Naturals

CONSTANT Total   \* bits in a transfer

VARIABLES delivered, confirmed, broken

channel == <<delivered, confirmed, broken>>

Init == delivered = 0 /\ confirmed = 0 /\ broken = FALSE

Deliver ==
    /\ delivered < Total
    /\ delivered = confirmed
    /\ delivered' = delivered + 1
    /\ UNCHANGED <<confirmed, broken>>

Confirm ==
    /\ confirmed < Total
    /\ confirmed < delivered \/ (broken /\ confirmed = delivered)
    /\ confirmed' = confirmed + 1
    /\ UNCHANGED <<delivered, broken>>

Break ==
    /\ broken' = TRUE
    /\ UNCHANGED <<delivered, confirmed>>

Next == Deliver \/ Confirm \/ Break

Spec == Init /\ [][Next]_channel
=============================================================================
