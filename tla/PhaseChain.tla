----------------------------- MODULE PhaseChain -----------------------------
(***************************************************************************)
(* What the master phase of the archive garbage collector promises,        *)
(* whatever interrupts it: seen across power losses and restarts, the      *)
(* journaled phase only ever takes the edges of the transition table.      *)
(* A collection starts by publishing a journal in phase FF and ends by     *)
(* retiring the journal.                                                   *)
(*                                                                         *)
(* Source: TRANSITIONS and PHASE_CASES of                                  *)
(* src/tools/ti84re/flash/gc_journal.py.                                   *)
(***************************************************************************)
EXTENDS NorFlash

CONSTANT Retiring   \* phases whose recovery case may retire the journal

NoJournal == {}   \* no phase byte is zero
Phases == {xFF, xFE, xFC, xF8, xF0, xE0}

\* TRANSITIONS, as pairs of source and destination.
Transitions ==
    {<<xFF, xFE>>, <<xFE, xFC>>, <<xFE, xF0>>, <<xFE, xE0>>,
     <<xFC, xF8>>, <<xF8, xF0>>, <<xF8, xE0>>, <<xF0, xE0>>}

VARIABLE phase

Init == phase = NoJournal

Publish == phase = NoJournal /\ phase' = xFF
Advance == \E t \in Transitions : phase = t[1] /\ phase' = t[2]
Retire  == phase \in Retiring /\ phase' = NoJournal

Next == Publish \/ Advance \/ Retire

Spec == Init /\ [][Next]_phase
=============================================================================
