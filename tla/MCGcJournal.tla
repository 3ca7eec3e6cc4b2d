----------------------------- MODULE MCGcJournal -----------------------------
(* The collector on a few archive sectors, the last one at the edge of the *)
(* pending-slot scan.                                                      *)
EXTENDS GcJournal

CONSTANT SlotCount

MCSlots == 0 .. SlotCount - 1
=============================================================================
