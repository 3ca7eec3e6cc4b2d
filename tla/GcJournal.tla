------------------------------ MODULE GcJournal ------------------------------
(***************************************************************************)
(* The journaled phase machine of the archive garbage collector, with the  *)
(* power failing between any two steps.                                    *)
(*                                                                         *)
(* Flash keeps the journal (flags, master phase, one state per archive     *)
(* sector); RAM keeps a mirror of the phase and the program position, and  *)
(* loses both with the power.  At startup the journal is loaded and        *)
(* dispatched on, and each phase resumes through a branch of its own.      *)
(*                                                                         *)
(* What the ROM routines do to archive data is not in the source.  Each is *)
(* represented by the state of the Flash area it works on: "clean" before  *)
(* it ran, "torn" once it has started, "done" afterwards, and "damaged"    *)
(* when it was started on an area that was no longer clean.                *)
(*                                                                         *)
(* Source: src/tools/ti84re/flash/gc_journal.py, its tables and the        *)
(* machine code its signatures pin down.                                   *)
(***************************************************************************)
EXTENDS NorFlash

CONSTANTS
    Slots,      \* sector-state slots in use: 0 .. count - 1
    NoSlot,     \* "no sector under way"
    ScanWindow, \* slots the pending-sector scan at 3C:7DCE looks at
    MaxCuts,    \* power losses considered
    MaxRuns     \* collections considered

ASSUME SlotAssumption ==
    /\ Slots \subseteq Nat
    /\ NoSlot \notin Slots
    /\ ScanWindow \in Nat
    /\ \A s \in Slots : s < ScanWindow

ASSUME BoundAssumption == MaxCuts \in Nat /\ MaxRuns \in Nat

VARIABLES
    flags,      \* Flash: control flags of the journal block
    phase,      \* Flash: master phase
    slot,       \* Flash: sector-state array
    mirror,     \* RAM: mirror of the master phase
    pc,         \* CPU: position in the collector, or "off"
    area,       \* Flash: state of the area behind each piece of work
    sector,     \* Flash: state of each archive sector
    current,    \* CPU: sector the phase machine is working on
    cuts, runs  \* history counters that implement the bounds

journal == <<flags, phase, slot>>
archive == <<area, sector>>
bounds  == <<cuts, runs>>
vars    == <<journal, mirror, pc, current, archive, bounds>>

-----------------------------------------------------------------------------
(* Journal flags.  Startup looks at bits 0 and 2, the phase machine at     *)
(* bit 3.  The initializer stores FB; a collection that has selected a     *)
(* scratch sector runs with bit 3 clear as well.                           *)

xFB == Bits \ {2}
xF3 == Bits \ {2, 3}

Live == 0 \in flags /\ 2 \notin flags
SkipsScratch == 3 \in flags

Phases == {xFF, xFE, xFC, xF8, xF0, xE0}
SlotStates == {xFF, xFE, xFC}
Unknown == {}   \* RAM content after a power loss
NoPhase == {}   \* the phase of a journal that is not live


\* The pieces of work beside the sector loop: programming the header of the
\* scratch sector, filling the recovery page, disposing of it, and repairing
\* the sector headers.
Work == {"header", "page", "disposal", "headers"}
Condition == {"clean", "torn", "done", "damaged"}

\* Positions.  "commit" publishes the journal; "put FC" programs the phase
\* in Flash and "mirror FC" then updates RAM.  The positions from "page" on
\* are the calls of the phase machine, each with a position inside the call.
Positions ==
    {"off", "startup", "idle", "commit", "dispatch",
     "recover FE", "recover FC", "recover F8", "recover F0",
     "put FE", "put FC", "put F8", "put F0", "put E0",
     "mirror FE", "mirror FC", "mirror F8", "mirror F0", "mirror E0",
     "header", "bit 3", "check", "cleanup",
     "sectors", "sector", "in sector", "end sector",
     "page", "disposal", "headers", "in page", "in disposal", "in headers"}

TypeOK ==
    /\ flags \in {xFF, xFB, xF3}
    /\ phase \in Phases
    /\ slot \in [Slots -> SlotStates]
    /\ mirror \in Phases \cup {Unknown}
    /\ pc \in Positions
    /\ current \in Slots \cup {NoSlot}
    /\ area \in [Work -> Condition]
    /\ sector \in [Slots -> Condition]
    /\ cuts \in 0 .. MaxCuts /\ runs \in 0 .. MaxRuns

Init ==
    /\ flags = xFF /\ phase = xFF /\ slot = [s \in Slots |-> xFF]
    /\ mirror = Unknown
    /\ pc = "startup" /\ current = NoSlot
    /\ area = [w \in Work |-> "clean"]
    /\ sector = [s \in Slots |-> "clean"]
    /\ cuts = 0 /\ runs = 0

\* Starting work on an area, and finishing it.
Started(c)  == IF c = "clean" THEN "torn" ELSE "damaged"
Finished(c) == IF c = "torn" THEN "done" ELSE c

Goto(from, to) == pc = from /\ pc' = to

-----------------------------------------------------------------------------
(* Starting a collection.                                                  *)

\* The initializer at 3C:77B5 loads the journal and prepares the RAM copy.
\* The areas of the collection to come are clean.
Begin ==
    /\ Goto("idle", "commit")
    /\ ~Live /\ runs < MaxRuns
    /\ runs' = runs + 1
    /\ mirror' = xFF
    /\ area' = [w \in Work |-> "clean"]
    /\ sector' = [s \in Slots |-> "clean"]
    /\ UNCHANGED <<journal, current, cuts>>

\* The certificate rebuild makes the prepared block the active one.
Commit ==
    /\ Goto("commit", "header")
    /\ flags' \in {xFB, xF3}
    /\ phase' = xFF /\ slot' = [s \in Slots |-> xFF]
    /\ UNCHANGED <<mirror, current, archive, bounds>>

-----------------------------------------------------------------------------
(* The phase writer and the calls of gc_run_phase_machine, 3C:7CFB.        *)

\* Seeded faults: the mask and the value of the phase are confused; the mirror
\* is updated in place of Flash.
PutMask(v, here, there) ==
    /\ Goto(here, there)
    /\ phase' = phase \ v
    /\ UNCHANGED <<flags, slot, mirror, current, archive, bounds>>

PutInRam(v, here, there) ==
    /\ Goto(here, there)
    /\ mirror' = v
    /\ UNCHANGED <<journal, current, archive, bounds>>

\* 3C:7AA6: program the master byte in Flash, then update the RAM mirror.
Put(v, here, there) ==
    /\ Goto(here, there)
    /\ phase' = Programmed(phase, v)
    /\ UNCHANGED <<flags, slot, mirror, current, archive, bounds>>

Mirror(v, here, there) ==
    /\ Goto(here, there)
    /\ mirror' = v
    /\ UNCHANGED <<journal, current, archive, bounds>>

\* 3C:7ABC programs the scratch header only while bit 3 is clear.  A byte
\* program repeated over its own result changes nothing.
Header ==
    /\ Goto("header", "put FE")
    /\ area' = IF SkipsScratch THEN area ELSE [area EXCEPT !.header = "done"]
    /\ UNCHANGED <<journal, mirror, current, sector, bounds>>

\* 3C:781A works through the archive sectors: FE into the sector's slot,
\* the operation on the sector, FC into the slot.
BeginSector(s) ==
    /\ Goto("sectors", "sector")
    /\ slot[s] # xFC
    /\ current' = s
    /\ slot' = [slot EXCEPT ![s] = Programmed(slot[s], xFE)]
    /\ UNCHANGED <<flags, phase, mirror, archive, bounds>>

StartSector ==
    /\ Goto("sector", "in sector")
    /\ sector' = [sector EXCEPT ![current] = Started(sector[current])]
    /\ UNCHANGED <<journal, mirror, current, area, bounds>>

FinishSector ==
    /\ Goto("in sector", "end sector")
    /\ sector' = [sector EXCEPT ![current] = Finished(sector[current])]
    /\ UNCHANGED <<journal, mirror, current, area, bounds>>

EndSector ==
    /\ Goto("end sector", "sectors")
    /\ slot' = [slot EXCEPT ![current] = Programmed(slot[current], xFC)]
    /\ current' = NoSlot
    /\ UNCHANGED <<flags, phase, mirror, archive, bounds>>

\* Seeded fault: the sector loop ends before every slot reads FC.
EndSectorsEarly ==
    /\ Goto("sectors", "bit 3")
    /\ \E s \in Slots : slot[s] = xFC
    /\ UNCHANGED <<journal, mirror, current, archive, bounds>>

EndSectors ==
    /\ Goto("sectors", "bit 3")
    /\ \A s \in Slots : slot[s] = xFC
    /\ UNCHANGED <<journal, mirror, current, archive, bounds>>

\* The two pairs of calls between the phase writes.  The second of each pair
\* (3C:7B2A) keeps no state of its own.
StartWork(w, here, there) ==
    /\ Goto(here, there)
    /\ area' = [area EXCEPT ![w] = Started(area[w])]
    /\ UNCHANGED <<journal, mirror, current, sector, bounds>>

FinishWork(w, here, there) ==
    /\ Goto(here, there)
    /\ area' = [area EXCEPT ![w] = Finished(area[w])]
    /\ UNCHANGED <<journal, mirror, current, sector, bounds>>

TestBit3 ==
    /\ Goto("bit 3", IF SkipsScratch THEN "check" ELSE "put FC")
    /\ UNCHANGED <<journal, mirror, current, archive, bounds>>

\* The consistency check at 3C:7B3C decides on the archive as it is; carry
\* sends the machine through phase F0.
Check ==
    /\ Goto("check", "put F0") \/ Goto("check", "put E0")
    /\ UNCHANGED <<journal, mirror, current, archive, bounds>>

\* 3C:7B90 retires the journal: the certificate halves switch to a tail
\* whose GC block is erased.
Cleanup ==
    /\ Goto("cleanup", "idle")
    /\ flags' = xFF /\ phase' = xFF /\ slot' = [s \in Slots |-> xFF]
    /\ UNCHANGED <<mirror, current, archive, bounds>>

PhaseMachine ==
    \/ Header
    \/ Put(xFE, "put FE", "mirror FE")
    \/ Mirror(xFE, "mirror FE", "sectors")
    \/ \E s \in Slots : BeginSector(s)
    \/ StartSector \/ FinishSector \/ EndSector
    \/ EndSectors
    \/ TestBit3
    \/ Put(xFC, "put FC", "mirror FC")
    \/ Mirror(xFC, "mirror FC", "page")
    \/ StartWork("page", "page", "in page")
    \/ FinishWork("page", "in page", "put F8")
    \/ Put(xF8, "put F8", "mirror F8")
    \/ Mirror(xF8, "mirror F8", "disposal")
    \/ StartWork("disposal", "disposal", "in disposal")
    \/ FinishWork("disposal", "in disposal", "check")
    \/ Check
    \/ Put(xF0, "put F0", "mirror F0")
    \/ Mirror(xF0, "mirror F0", "headers")
    \/ StartWork("headers", "headers", "in headers")
    \/ FinishWork("headers", "in headers", "put E0")
    \/ Put(xE0, "put E0", "mirror E0")
    \/ Mirror(xE0, "mirror E0", "cleanup")
    \/ Cleanup

-----------------------------------------------------------------------------
(* Startup and recovery.                                                   *)

\* Seeded fault: a live journal in phase FF is taken for an erased one.
StartupSkipsFF ==
    /\ Goto("startup", IF Live /\ phase # xFF THEN "dispatch" ELSE "idle")
    /\ mirror' = IF Live THEN phase ELSE mirror
    /\ UNCHANGED <<journal, current, archive, bounds>>

\* gc_check_interrupted, 3C:7BC7.
Startup ==
    /\ Goto("startup", IF Live THEN "dispatch" ELSE "idle")
    /\ mirror' = IF Live THEN phase ELSE mirror
    /\ UNCHANGED <<journal, current, archive, bounds>>

\* Seeded fault: the comparison chain lets F8 fall through to the cleanup.
DispatchF8ToCleanup ==
    /\ \/ mirror = xFF /\ Goto("dispatch", "header")
       \/ mirror = xFE /\ Goto("dispatch", "recover FE")
       \/ mirror = xFC /\ Goto("dispatch", "recover FC")
       \/ mirror = xF0 /\ Goto("dispatch", "recover F0")
       \/ mirror \in {xF8, xE0} /\ Goto("dispatch", "cleanup")
    /\ UNCHANGED <<journal, mirror, current, archive, bounds>>

\* gc_recover_by_phase, 3C:7C1F, on the mirror just loaded.  Phase FF needs
\* no repair: its branch runs the initializer that writes FE.  E0 only has
\* its cleanup left.
Dispatch ==
    /\ \/ mirror = xFF /\ Goto("dispatch", "header")
       \/ mirror = xFE /\ Goto("dispatch", "recover FE")
       \/ mirror = xFC /\ Goto("dispatch", "recover FC")
       \/ mirror = xF8 /\ Goto("dispatch", "recover F8")
       \/ mirror = xF0 /\ Goto("dispatch", "recover F0")
       \/ mirror = xE0 /\ Goto("dispatch", "cleanup")
    /\ UNCHANGED <<journal, mirror, current, archive, bounds>>

\* 3C:7C48 looks for a sector that was under way (3C:7DCE scans the first
\* ScanWindow slots only), repairs it, and writes FC to its slot from 7C54.
Found == {s \in Slots : s < ScanWindow /\ slot[s] = xFE}

RepairSector(s) ==
    /\ pc = "recover FE" /\ s \in Found /\ sector[s] # "done"
    /\ sector' = [sector EXCEPT ![s] = "done"]
    /\ UNCHANGED <<journal, mirror, pc, current, area, bounds>>

RecoverSector(s) ==
    /\ pc = "recover FE" /\ s \in Found /\ sector[s] = "done"
    /\ slot' = [slot EXCEPT ![s] = Programmed(slot[s], xFC)]
    /\ UNCHANGED <<flags, phase, mirror, pc, current, archive, bounds>>

RecoverFE ==
    /\ Found = {} /\ Goto("recover FE", "sectors")
    /\ UNCHANGED <<journal, mirror, current, archive, bounds>>

\* Seeded fault: the recovery page is filled again without being erased.
RecoverFCUnerased ==
    /\ Goto("recover FC", "page")
    /\ UNCHANGED <<journal, mirror, current, archive, bounds>>

\* 3C:7CC6 erases the recovery page or pages and rejoins at 7D0A, behind
\* the write of FC, so the page is filled again from the start.
RecoverFC ==
    /\ Goto("recover FC", "page")
    /\ area' = [area EXCEPT !.page = "clean"]
    /\ UNCHANGED <<journal, mirror, current, sector, bounds>>

\* 3C:7CDA erases the recovery page itself and rejoins at 7D1B.
RecoverF8 ==
    /\ Goto("recover F8", "check")
    /\ area' = [area EXCEPT !.disposal = "done"]
    /\ UNCHANGED <<journal, mirror, current, sector, bounds>>

\* Seeded fault: phase F0 goes to the cleanup with the headers as they are.
RecoverF0Unrepaired ==
    /\ Goto("recover F0", "cleanup")
    /\ UNCHANGED <<journal, mirror, current, archive, bounds>>

\* 3C:7CE3 repairs the sector headers and joins the cleanup at 7D30.
RecoverF0 ==
    /\ Goto("recover F0", "cleanup")
    /\ area' = [area EXCEPT !.headers = "done"]
    /\ UNCHANGED <<journal, mirror, current, sector, bounds>>

Recovery ==
    \/ Startup
    \/ Dispatch
    \/ \E s \in Slots : RepairSector(s) \/ RecoverSector(s)
    \/ RecoverFE \/ RecoverFC \/ RecoverF8 \/ RecoverF0

\* The power fails: RAM and the program position are gone, Flash stays.
\* Byte programs and the half switch of Commit and Cleanup are atomic here.
PowerLoss ==
    /\ pc # "off" /\ cuts < MaxCuts
    /\ cuts' = cuts + 1
    /\ pc' = "off" /\ mirror' = Unknown /\ current' = NoSlot
    /\ UNCHANGED <<journal, archive, runs>>

PowerOn ==
    /\ Goto("off", "startup")
    /\ UNCHANGED <<journal, mirror, current, archive, bounds>>

-----------------------------------------------------------------------------
Running == Commit \/ PhaseMachine \/ Recovery \/ PowerOn

Next == Begin \/ Running \/ PowerLoss

\* The CPU keeps executing and the power comes back.  Nothing obliges
\* anyone to start a collection, and cuts are limited by MaxCuts.
Spec == Init /\ [][Next]_vars /\ WF_vars(Running)

-----------------------------------------------------------------------------
(* Properties.                                                             *)

Scratch(w) == SkipsScratch \/ area[w] = "done"
SectorsDone == \A s \in Slots : slot[s] = xFC /\ sector[s] = "done"

\* A phase in Flash vouches for everything that comes before it: by the time
\* it can be read back after a power loss, the work of the earlier phases is
\* complete, whether it was done in one go or finished by a recovery branch.
\* (PHASE_CASES: each continuation skips the work before its join)
PhaseVouchesForWork ==
    Live =>
        /\ phase # xFF => Scratch("header")
        /\ phase \in {xFC, xF8, xF0, xE0} => SectorsDone
        /\ phase \in {xF8, xF0, xE0} => Scratch("page")
        /\ phase \in {xF0, xE0} => Scratch("disposal")
        /\ phase = xE0 => area.headers \in {"clean", "done"}

\* No recovery starts a piece of work over on what an interrupted attempt
\* left behind: the page is erased before it is filled again, and a sector
\* that was under way is repaired, not begun a second time.
\* (the FC and FE branches, 3C:7CC6 and 3C:7C48)
NothingDamaged ==
    /\ \A w \in Work : area[w] # "damaged"
    /\ \A s \in Slots : sector[s] # "damaged"

\* When a journal disappears its collection is finished: a retired journal
\* never hides a sector, a recovery page or a header repair left half done.
\* (3C:7D30 and the two ways into it)
Complete ==
    /\ SectorsDone
    /\ \A w \in {"header", "page", "disposal"} : Scratch(w)
    /\ area.headers \in {"clean", "done"}
RetiredOnlyWhenComplete == [][Live /\ ~Live' => Complete]_vars

\* The RAM mirror is never ahead of Flash: what the collector believes it
\* has journaled is journaled.  (3C:7AA6 writes Flash first)
MirrorNotAhead ==
    Live /\ mirror # Unknown => phase \subseteq mirror

\* Across power losses the phase takes the edges of TRANSITIONS only.
Chain == INSTANCE PhaseChain WITH
    Retiring <- {xF0, xE0},
    phase    <- IF Live THEN phase ELSE NoPhase
FollowsTransitions == Chain!Spec

\* A published journal is eventually retired if the power stops failing.
\* (every PHASE_CASES continuation leads to 3C:7D30)
CollectionEnds == Live ~> ~Live

\* Phase E0 is written "always before final cleanup" (PHASE_WRITES).
CleanupAfterE0 == pc = "cleanup" => phase = xE0
=============================================================================
