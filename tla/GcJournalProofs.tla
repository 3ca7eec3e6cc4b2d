--------------------------- MODULE GcJournalProofs ---------------------------
(***************************************************************************)
(* Proofs about the journaled phase machine, for every set of sectors the  *)
(* pending-slot scan covers and any number of power losses.                *)
(***************************************************************************)
EXTENDS GcJournal, TLAPS

-----------------------------------------------------------------------------
(* The inductive invariant behind PhaseVouchesForWork and NothingDamaged.  *)
(* In three layers: which phase is in Flash at each program position, how  *)
(* far each area is for that phase, and what a sector's slot says of it.   *)

\* Positions from which the phase machine has not set out yet: everything
\* the interrupted run knew is gone and only Flash speaks.
Restarting == {"off", "startup", "dispatch"}

\* The phase in Flash at a position reached with a live journal.
PhaseFits ==
    /\ pc \in {"header", "put FE"} => phase = xFF
    /\ pc \in {"mirror FE", "recover FE", "sectors", "sector", "in sector",
              "end sector", "bit 3", "put FC"} => phase = xFE
    /\ pc \in {"mirror FC", "recover FC", "page", "in page", "put F8"} =>
          phase = xFC
    /\ pc \in {"mirror F8", "recover F8", "disposal", "in disposal"} =>
          phase = xF8
    /\ pc \in {"check", "put F0"} => phase \in {xFE, xF8}
    /\ pc \in {"mirror F0", "recover F0", "headers", "in headers"} =>
          phase = xF0
    /\ pc = "put E0" => phase \in {xFE, xF8, xF0}
    /\ pc = "mirror E0" => phase = xE0
    /\ pc = "cleanup" => phase \in {xF0, xE0}

PositionInv ==
    /\ pc \in {"idle", "commit"} => ~Live
    /\ ~Live => pc \in {"off", "startup", "idle", "commit"} /\ flags = xFF
    /\ Live =>
        /\ PhaseFits
        /\ SkipsScratch => phase \notin {xFC, xF8} /\ pc # "put FC"
        /\ ~SkipsScratch /\ pc \in {"check", "put F0", "put E0"} =>
               phase # xFE
    /\ mirror # Unknown /\ Live => phase \subseteq mirror
    /\ pc = "dispatch" => mirror = phase
    /\ pc = "commit" => mirror = xFF

\* How far an area may be while its phase is in Flash: "before" its work
\* starts, "inside" the call, "after" it, or anything short of damaged when
\* the run that worked on it was cut off.
AreaFits(w, before, inside, after) ==
    /\ pc \in before => area[w] = "clean"
    /\ pc = inside => area[w] = "torn"
    /\ pc \in after => area[w] = "done"
    /\ area[w] # "damaged"

AreaInv ==
    /\ pc = "commit" => \A w \in Work : area[w] = "clean"
    /\ \A w \in Work : area[w] # "damaged"
    /\ Live =>
        /\ phase # xFF \/ pc = "put FE" => Scratch("header")
        /\ phase \in {xFF, xFE} => area.page = "clean"
        /\ phase = xFC => AreaFits("page", {"mirror FC", "page"}, "in page",
                                   {"put F8"})
        /\ phase \in {xF8, xF0, xE0} => Scratch("page")
        /\ phase \in {xFF, xFE, xFC} => area.disposal = "clean"
        /\ phase = xF8 => AreaFits("disposal", {"mirror F8", "disposal"},
                                   "in disposal",
                                   {"check", "put F0", "put E0"})
        /\ phase \in {xF0, xE0} => Scratch("disposal")
        /\ phase \notin {xF0, xE0} => area.headers = "clean"
        /\ phase = xF0 => AreaFits("headers", {"mirror F0", "headers"},
                                   "in headers", {"put E0", "cleanup"})
        /\ phase = xE0 => area.headers \in {"clean", "done"}

\* At most the current sector is under way, unless its run was cut off.
SectorInv ==
    /\ pc = "commit" => \A s \in Slots : sector[s] = "clean"
    /\ current \in Slots <=> pc \in {"sector", "in sector", "end sector"}
    /\ \A s \in Slots : sector[s] # "damaged"
    /\ Live => \A s \in Slots :
        /\ slot[s] = xFF => sector[s] = "clean"
        /\ slot[s] = xFC => sector[s] = "done"
        /\ slot[s] = xFE => pc \in Restarting \cup {"recover FE"} \/ s = current
        /\ phase = xFF => slot[s] = xFF
        /\ phase \in {xFC, xF8, xF0, xE0} \/ pc \in {"bit 3", "put FC",
              "check", "put F0", "put E0"} => slot[s] = xFC
        /\ s = current =>
            /\ slot[s] = xFE
            /\ pc = "sector" => sector[s] = "clean"
            /\ pc = "in sector" => sector[s] = "torn"
            /\ pc = "end sector" => sector[s] = "done"

IInv == TypeOK /\ PositionInv /\ AreaInv /\ SectorInv

-----------------------------------------------------------------------------
(* The bytes of the journal.                                               *)

\* The six phases, the two live flag bytes and the unknown byte are distinct
\* sets of bits.
LEMMA PhasesDistinct ==
    /\ xFF # xFE /\ xFF # xFC /\ xFF # xF8 /\ xFF # xF0 /\ xFF # xE0
    /\ xFE # xFC /\ xFE # xF8 /\ xFE # xF0 /\ xFE # xE0
    /\ xFC # xF8 /\ xFC # xF0 /\ xFC # xE0
    /\ xF8 # xF0 /\ xF8 # xE0 /\ xF0 # xE0
    /\ {} \notin Phases
<1>1. 0 \in xFF /\ 0 \notin xFE /\ 0 \notin xFC /\ 0 \notin xF8
      /\ 0 \notin xF0 /\ 0 \notin xE0
  BY DEF xFF, xFE, xFC, xF8, xF0, xE0, Bits
<1>2. 1 \in xFE /\ 1 \notin xFC /\ 1 \notin xF8 /\ 1 \notin xF0
      /\ 1 \notin xE0
  BY DEF xFE, xFC, xF8, xF0, xE0
<1>3. 2 \in xFC /\ 2 \notin xF8 /\ 2 \notin xF0 /\ 2 \notin xE0
  BY DEF xFC, xF8, xF0, xE0
<1>4. 3 \in xF8 /\ 3 \notin xF0 /\ 3 \notin xE0
  BY DEF xF8, xF0, xE0
<1>5. 4 \in xF0 /\ 4 \notin xE0 /\ 5 \in xE0
  BY DEF xF0, xE0
<1> QED
  BY <1>1, <1>2, <1>3, <1>4, <1>5 DEF Phases

\* Each phase the machine writes only clears bits of the phases it is
\* written over, so the byte that results is the one requested.
LEMMA PhaseWritesOnlyClear ==
    /\ xFE \subseteq xFF /\ xFC \subseteq xFE /\ xF8 \subseteq xFC
    /\ xF0 \subseteq xF8 /\ xE0 \subseteq xF0
    /\ Programmed(xFF, xFE) = xFE
    /\ Programmed(xFE, xFE) = xFE
    /\ Programmed(xFE, xFC) = xFC
    /\ Programmed(xFC, xFC) = xFC
    /\ Programmed(xFF, xFC) = xFC
    /\ Programmed(xFC, xF8) = xF8
    /\ Programmed(xFE, xF0) = xF0
    /\ Programmed(xF8, xF0) = xF0
    /\ Programmed(xFE, xE0) = xE0
    /\ Programmed(xF8, xE0) = xE0
    /\ Programmed(xF0, xE0) = xE0
<1>1. /\ xFE \subseteq xFF /\ xFC \subseteq xFE /\ xF8 \subseteq xFC
      /\ xF0 \subseteq xF8 /\ xE0 \subseteq xF0
  BY DEF xFF, xFE, xFC, xF8, xF0, xE0, Bits
<1> QED
  BY <1>1 DEF Programmed

\* Startup takes FB and F3 for a live journal and FF for none.
LEMMA FlagBytes ==
    /\ 0 \in xFB /\ 2 \notin xFB /\ 3 \in xFB
    /\ 0 \in xF3 /\ 2 \notin xF3 /\ 3 \notin xF3
    /\ 2 \in xFF
  BY DEF xFB, xF3, xFF, Bits

\* A bounded counter that is below its bound can be incremented.
LEMMA CountsUp ==
    ASSUME NEW m \in Nat, NEW c \in 0 .. m, c < m PROVE c + 1 \in 0 .. m
  OBVIOUS

-----------------------------------------------------------------------------
(* The inductive invariant, layer by layer; each layer has one step per    *)
(* action of the collector.                                                *)

\* An erased journal and a CPU at startup satisfy every layer.
LEMMA InvInit == Init => IInv
  BY PhasesDistinct, FlagBytes, SlotAssumption, BoundAssumption
  DEF Init, IInv, TypeOK, PositionInv, PhaseFits, AreaInv, SectorInv, Live,
      SkipsScratch, Positions, Phases, SlotStates, Condition, Work, Unknown,
      AreaFits, Scratch, Restarting

\* Types: every byte written is a phase or a slot state, and the counters stay
\* below their bounds.
LEMMA TypeStep ==
    ASSUME TypeOK, PositionInv, AreaInv, SectorInv, Next PROVE TypeOK'
<1> USE SlotAssumption, BoundAssumption, PhaseWritesOnlyClear
    DEF journal, archive, bounds, Goto, TypeOK, Positions, Phases,
        SlotStates, Condition, Work
<1>1. CASE Begin
  <2>1. runs' \in 0 .. MaxRuns
    BY <1>1, CountsUp DEF Begin
  <2> QED
    BY <1>1, <2>1 DEF Begin
<1>2. CASE Commit
  BY <1>2 DEF Commit
<1>3. CASE PowerLoss
  <2>1. cuts' \in 0 .. MaxCuts
    BY <1>3, CountsUp DEF PowerLoss
  <2> QED
    BY <1>3, <2>1 DEF PowerLoss
<1>4. CASE PowerOn
  BY <1>4 DEF PowerOn
<1>5. CASE Header
  BY <1>5 DEF Header
<1>6. CASE Put(xFE, "put FE", "mirror FE")
  BY <1>6 DEF Put, PositionInv, PhaseFits, Live
<1>7. CASE Mirror(xFE, "mirror FE", "sectors")
  BY <1>7 DEF Mirror
<1>8. ASSUME NEW s \in Slots, BeginSector(s) PROVE TypeOK'
  BY <1>8 DEF BeginSector, SectorInv
<1>9. CASE StartSector
  BY <1>9 DEF StartSector, Started, SectorInv
<1>10. CASE FinishSector
  BY <1>10 DEF FinishSector, Finished, SectorInv
<1>11. CASE EndSector
  BY <1>11 DEF EndSector, SectorInv
<1>12. CASE EndSectors
  BY <1>12 DEF EndSectors, SectorInv
<1>13. CASE TestBit3
  BY <1>13 DEF TestBit3
<1>14. CASE Put(xFC, "put FC", "mirror FC")
  BY <1>14 DEF Put, PositionInv, PhaseFits, Live
<1>15. CASE Mirror(xFC, "mirror FC", "page")
  BY <1>15 DEF Mirror
<1>16. CASE StartWork("page", "page", "in page")
  BY <1>16 DEF StartWork, Started
<1>17. CASE FinishWork("page", "in page", "put F8")
  BY <1>17 DEF FinishWork, Finished
<1>18. CASE Put(xF8, "put F8", "mirror F8")
  BY <1>18 DEF Put, PositionInv, PhaseFits, Live
<1>19. CASE Mirror(xF8, "mirror F8", "disposal")
  BY <1>19 DEF Mirror
<1>20. CASE StartWork("disposal", "disposal", "in disposal")
  BY <1>20 DEF StartWork, Started
<1>21. CASE FinishWork("disposal", "in disposal", "check")
  BY <1>21 DEF FinishWork, Finished
<1>22. CASE Check
  <2>1. pc' \in Positions
    BY <1>22 DEF Check
  <2>2. UNCHANGED <<journal, mirror, current, archive, bounds>>
    BY <1>22 DEF Check
  <2> QED
    BY <2>1, <2>2
<1>23. CASE Put(xF0, "put F0", "mirror F0")
  BY <1>23 DEF Put, PositionInv, PhaseFits, Live
<1>24. CASE Mirror(xF0, "mirror F0", "headers")
  BY <1>24 DEF Mirror
<1>25. CASE StartWork("headers", "headers", "in headers")
  BY <1>25 DEF StartWork, Started
<1>26. CASE FinishWork("headers", "in headers", "put E0")
  BY <1>26 DEF FinishWork, Finished
<1>27. CASE Put(xE0, "put E0", "mirror E0")
  BY <1>27 DEF Put, PositionInv, PhaseFits, Live
<1>28. CASE Mirror(xE0, "mirror E0", "cleanup")
  BY <1>28 DEF Mirror
<1>29. CASE Cleanup
  BY <1>29 DEF Cleanup
<1>30. CASE Startup
  BY <1>30 DEF Startup
<1>31. CASE Dispatch
  <2>1. pc' \in Positions
    BY <1>31 DEF Dispatch
  <2>2. UNCHANGED <<journal, mirror, current, archive, bounds>>
    BY <1>31 DEF Dispatch
  <2> QED
    BY <2>1, <2>2
<1>32. ASSUME NEW s \in Slots, RepairSector(s) PROVE TypeOK'
  <2>1. sector' \in [Slots -> Condition]
    BY <1>32 DEF RepairSector
  <2>2. UNCHANGED <<flags, phase, slot, mirror, pc, current, area, cuts, runs>>
    BY <1>32 DEF RepairSector
  <2> HIDE DEF Positions, Phases, SlotStates, Condition, Work
  <2> QED
    BY <2>1, <2>2
<1>33. ASSUME NEW s \in Slots, RecoverSector(s) PROVE TypeOK'
  <2>1. slot[s] = xFE /\ Programmed(xFE, xFC) \in SlotStates
    BY <1>33 DEF RecoverSector, Found
  <2>2. slot' \in [Slots -> SlotStates]
    BY <1>33, <2>1 DEF RecoverSector
  <2>3. UNCHANGED <<flags, phase, mirror, pc, current, area, sector, cuts, runs>>
    BY <1>33 DEF RecoverSector
  <2> HIDE DEF Positions, Phases, SlotStates, Condition, Work
  <2> QED
    BY <2>2, <2>3
<1>34. CASE RecoverFE
  BY <1>34 DEF RecoverFE, Found
<1>35. CASE RecoverFC
  BY <1>35 DEF RecoverFC
<1>36. CASE RecoverF8
  BY <1>36 DEF RecoverF8
<1>37. CASE RecoverF0
  BY <1>37 DEF RecoverF0
<1> HIDE SlotAssumption, BoundAssumption, PhaseWritesOnlyClear
    DEF TypeOK
<1> QED
  BY <1>1, <1>2, <1>3, <1>4, <1>5, <1>6, <1>7, <1>8, <1>9, <1>10, <1>11,
     <1>12, <1>13, <1>14, <1>15, <1>16, <1>17, <1>18, <1>19, <1>20, <1>21,
     <1>22, <1>23, <1>24, <1>25, <1>26, <1>27, <1>28, <1>29, <1>30, <1>31,
     <1>32, <1>33, <1>34, <1>35, <1>36, <1>37
  DEF Next, Running, PhaseMachine, Recovery

\* Positions: each jump lands where the phase in Flash belongs.
LEMMA PositionStep ==
    ASSUME TypeOK, PositionInv, AreaInv, SectorInv, Next PROVE PositionInv'
<1> USE PhasesDistinct, PhaseWritesOnlyClear, FlagBytes
    DEF journal, archive, bounds, Goto, TypeOK, Phases, PositionInv, PhaseFits,
        Live, SkipsScratch, Unknown
<1>1. CASE Begin
  BY <1>1 DEF Begin
<1>2. CASE Commit
  BY <1>2 DEF Commit
<1>3. CASE PowerLoss
  BY <1>3 DEF PowerLoss
<1>4. CASE PowerOn
  BY <1>4 DEF PowerOn
<1>5. CASE Header
  BY <1>5 DEF Header
<1>6. CASE Put(xFE, "put FE", "mirror FE")
  BY <1>6 DEF Put
<1>7. CASE Mirror(xFE, "mirror FE", "sectors")
  BY <1>7 DEF Mirror
<1>8. ASSUME NEW s \in Slots, BeginSector(s) PROVE PositionInv'
  BY <1>8 DEF BeginSector
<1>9. CASE StartSector
  BY <1>9 DEF StartSector, Started
<1>10. CASE FinishSector
  BY <1>10 DEF FinishSector, Finished
<1>11. CASE EndSector
  BY <1>11 DEF EndSector
<1>12. CASE EndSectors
  BY <1>12 DEF EndSectors
<1>13. CASE TestBit3
  BY <1>13 DEF TestBit3
<1>14. CASE Put(xFC, "put FC", "mirror FC")
  BY <1>14 DEF Put
<1>15. CASE Mirror(xFC, "mirror FC", "page")
  BY <1>15 DEF Mirror
<1>16. CASE StartWork("page", "page", "in page")
  BY <1>16 DEF StartWork, Started
<1>17. CASE FinishWork("page", "in page", "put F8")
  BY <1>17 DEF FinishWork, Finished
<1>18. CASE Put(xF8, "put F8", "mirror F8")
  BY <1>18 DEF Put
<1>19. CASE Mirror(xF8, "mirror F8", "disposal")
  BY <1>19 DEF Mirror
<1>20. CASE StartWork("disposal", "disposal", "in disposal")
  BY <1>20 DEF StartWork, Started
<1>21. CASE FinishWork("disposal", "in disposal", "check")
  BY <1>21 DEF FinishWork, Finished
<1>22. CASE Check
  BY <1>22 DEF Check
<1>23. CASE Put(xF0, "put F0", "mirror F0")
  BY <1>23 DEF Put
<1>24. CASE Mirror(xF0, "mirror F0", "headers")
  BY <1>24 DEF Mirror
<1>25. CASE StartWork("headers", "headers", "in headers")
  BY <1>25 DEF StartWork, Started
<1>26. CASE FinishWork("headers", "in headers", "put E0")
  BY <1>26 DEF FinishWork, Finished
<1>27. CASE Put(xE0, "put E0", "mirror E0")
  BY <1>27 DEF Put
<1>28. CASE Mirror(xE0, "mirror E0", "cleanup")
  BY <1>28 DEF Mirror
<1>29. CASE Cleanup
  BY <1>29 DEF Cleanup
<1>30. CASE Startup
  BY <1>30 DEF Startup
<1>31. CASE Dispatch
  BY <1>31 DEF Dispatch
<1>32. ASSUME NEW s \in Slots, RepairSector(s) PROVE PositionInv'
  BY <1>32 DEF RepairSector, Found
<1>33. ASSUME NEW s \in Slots, RecoverSector(s) PROVE PositionInv'
  BY <1>33 DEF RecoverSector, Found
<1>34. CASE RecoverFE
  BY <1>34 DEF RecoverFE, Found
<1>35. CASE RecoverFC
  BY <1>35 DEF RecoverFC
<1>36. CASE RecoverF8
  BY <1>36 DEF RecoverF8
<1>37. CASE RecoverF0
  BY <1>37 DEF RecoverF0
<1> HIDE PhasesDistinct, PhaseWritesOnlyClear, FlagBytes
    DEF PositionInv
<1> QED
  BY <1>1, <1>2, <1>3, <1>4, <1>5, <1>6, <1>7, <1>8, <1>9, <1>10, <1>11,
     <1>12, <1>13, <1>14, <1>15, <1>16, <1>17, <1>18, <1>19, <1>20, <1>21,
     <1>22, <1>23, <1>24, <1>25, <1>26, <1>27, <1>28, <1>29, <1>30, <1>31,
     <1>32, <1>33, <1>34, <1>35, <1>36, <1>37
  DEF Next, Running, PhaseMachine, Recovery

\* Areas: work starts on clean areas only, and a phase is written behind the
\* work it vouches for.
LEMMA AreaStep ==
    ASSUME TypeOK, PositionInv, AreaInv, SectorInv, Next PROVE AreaInv'
<1> USE PhasesDistinct, PhaseWritesOnlyClear, FlagBytes
    DEF journal, archive, bounds, Goto, TypeOK, Phases, Condition, Work,
        PositionInv, PhaseFits, AreaInv, AreaFits, Scratch, Live, SkipsScratch
<1>1. CASE Begin
  BY <1>1 DEF Begin
<1>2. CASE Commit
  BY <1>2 DEF Commit
<1>3. CASE PowerLoss
  BY <1>3 DEF PowerLoss
<1>4. CASE PowerOn
  BY <1>4 DEF PowerOn
<1>5. CASE Header
  BY <1>5 DEF Header
<1>6. CASE Put(xFE, "put FE", "mirror FE")
  BY <1>6 DEF Put
<1>7. CASE Mirror(xFE, "mirror FE", "sectors")
  BY <1>7 DEF Mirror
<1>8. ASSUME NEW s \in Slots, BeginSector(s) PROVE AreaInv'
  BY <1>8 DEF BeginSector
<1>9. CASE StartSector
  BY <1>9 DEF StartSector, Started
<1>10. CASE FinishSector
  BY <1>10 DEF FinishSector, Finished
<1>11. CASE EndSector
  BY <1>11 DEF EndSector
<1>12. CASE EndSectors
  BY <1>12 DEF EndSectors
<1>13. CASE TestBit3
  BY <1>13 DEF TestBit3
<1>14. CASE Put(xFC, "put FC", "mirror FC")
  BY <1>14 DEF Put
<1>15. CASE Mirror(xFC, "mirror FC", "page")
  BY <1>15 DEF Mirror
<1>16. CASE StartWork("page", "page", "in page")
  BY <1>16 DEF StartWork, Started
<1>17. CASE FinishWork("page", "in page", "put F8")
  BY <1>17 DEF FinishWork, Finished
<1>18. CASE Put(xF8, "put F8", "mirror F8")
  BY <1>18 DEF Put
<1>19. CASE Mirror(xF8, "mirror F8", "disposal")
  BY <1>19 DEF Mirror
<1>20. CASE StartWork("disposal", "disposal", "in disposal")
  BY <1>20 DEF StartWork, Started
<1>21. CASE FinishWork("disposal", "in disposal", "check")
  BY <1>21 DEF FinishWork, Finished
<1>22. CASE Check
  BY <1>22 DEF Check
<1>23. CASE Put(xF0, "put F0", "mirror F0")
  BY <1>23 DEF Put
<1>24. CASE Mirror(xF0, "mirror F0", "headers")
  BY <1>24 DEF Mirror
<1>25. CASE StartWork("headers", "headers", "in headers")
  BY <1>25 DEF StartWork, Started
<1>26. CASE FinishWork("headers", "in headers", "put E0")
  BY <1>26 DEF FinishWork, Finished
<1>27. CASE Put(xE0, "put E0", "mirror E0")
  BY <1>27 DEF Put
<1>28. CASE Mirror(xE0, "mirror E0", "cleanup")
  BY <1>28 DEF Mirror
<1>29. CASE Cleanup
  BY <1>29 DEF Cleanup
<1>30. CASE Startup
  BY <1>30 DEF Startup
<1>31. CASE Dispatch
  BY <1>31 DEF Dispatch
<1>32. ASSUME NEW s \in Slots, RepairSector(s) PROVE AreaInv'
  BY <1>32 DEF RepairSector, Found
<1>33. ASSUME NEW s \in Slots, RecoverSector(s) PROVE AreaInv'
  BY <1>33 DEF RecoverSector, Found
<1>34. CASE RecoverFE
  BY <1>34 DEF RecoverFE, Found
<1>35. CASE RecoverFC
  BY <1>35 DEF RecoverFC
<1>36. CASE RecoverF8
  BY <1>36 DEF RecoverF8
<1>37. CASE RecoverF0
  BY <1>37 DEF RecoverF0
<1> HIDE PhasesDistinct, PhaseWritesOnlyClear, FlagBytes
    DEF AreaInv
<1> QED
  BY <1>1, <1>2, <1>3, <1>4, <1>5, <1>6, <1>7, <1>8, <1>9, <1>10, <1>11,
     <1>12, <1>13, <1>14, <1>15, <1>16, <1>17, <1>18, <1>19, <1>20, <1>21,
     <1>22, <1>23, <1>24, <1>25, <1>26, <1>27, <1>28, <1>29, <1>30, <1>31,
     <1>32, <1>33, <1>34, <1>35, <1>36, <1>37
  DEF Next, Running, PhaseMachine, Recovery

\* Sectors: a slot says of its sector what a recovery has to know.
LEMMA SectorStep ==
    ASSUME TypeOK, PositionInv, AreaInv, SectorInv, Next PROVE SectorInv'
<1> USE PhasesDistinct, PhaseWritesOnlyClear, FlagBytes, SlotAssumption
    DEF journal, archive, bounds, Goto, TypeOK, Phases, SlotStates, PositionInv,
        PhaseFits, SectorInv, Restarting, Live
<1>1. CASE Begin
  BY <1>1 DEF Begin
<1>2. CASE Commit
  BY <1>2 DEF Commit
<1>3. CASE PowerLoss
  BY <1>3 DEF PowerLoss
<1>4. CASE PowerOn
  BY <1>4 DEF PowerOn
<1>5. CASE Header
  BY <1>5 DEF Header
<1>6. CASE Put(xFE, "put FE", "mirror FE")
  BY <1>6 DEF Put
<1>7. CASE Mirror(xFE, "mirror FE", "sectors")
  BY <1>7 DEF Mirror
<1>8. ASSUME NEW s \in Slots, BeginSector(s) PROVE SectorInv'
  BY <1>8 DEF BeginSector
<1>9. CASE StartSector
  BY <1>9 DEF StartSector, Started
<1>10. CASE FinishSector
  BY <1>10 DEF FinishSector, Finished
<1>11. CASE EndSector
  BY <1>11 DEF EndSector
<1>12. CASE EndSectors
  BY <1>12 DEF EndSectors
<1>13. CASE TestBit3
  BY <1>13 DEF TestBit3
<1>14. CASE Put(xFC, "put FC", "mirror FC")
  BY <1>14 DEF Put
<1>15. CASE Mirror(xFC, "mirror FC", "page")
  BY <1>15 DEF Mirror
<1>16. CASE StartWork("page", "page", "in page")
  BY <1>16 DEF StartWork, Started
<1>17. CASE FinishWork("page", "in page", "put F8")
  BY <1>17 DEF FinishWork, Finished
<1>18. CASE Put(xF8, "put F8", "mirror F8")
  BY <1>18 DEF Put
<1>19. CASE Mirror(xF8, "mirror F8", "disposal")
  BY <1>19 DEF Mirror
<1>20. CASE StartWork("disposal", "disposal", "in disposal")
  BY <1>20 DEF StartWork, Started
<1>21. CASE FinishWork("disposal", "in disposal", "check")
  BY <1>21 DEF FinishWork, Finished
<1>22. CASE Check
  BY <1>22 DEF Check
<1>23. CASE Put(xF0, "put F0", "mirror F0")
  BY <1>23 DEF Put
<1>24. CASE Mirror(xF0, "mirror F0", "headers")
  BY <1>24 DEF Mirror
<1>25. CASE StartWork("headers", "headers", "in headers")
  BY <1>25 DEF StartWork, Started
<1>26. CASE FinishWork("headers", "in headers", "put E0")
  BY <1>26 DEF FinishWork, Finished
<1>27. CASE Put(xE0, "put E0", "mirror E0")
  BY <1>27 DEF Put
<1>28. CASE Mirror(xE0, "mirror E0", "cleanup")
  BY <1>28 DEF Mirror
<1>29. CASE Cleanup
  BY <1>29 DEF Cleanup
<1>30. CASE Startup
  BY <1>30 DEF Startup
<1>31. CASE Dispatch
  BY <1>31 DEF Dispatch
<1>32. ASSUME NEW s \in Slots, RepairSector(s) PROVE SectorInv'
  BY <1>32 DEF RepairSector, Found
<1>33. ASSUME NEW s \in Slots, RecoverSector(s) PROVE SectorInv'
  BY <1>33 DEF RecoverSector, Found
<1>34. CASE RecoverFE
  BY <1>34 DEF RecoverFE, Found
<1>35. CASE RecoverFC
  BY <1>35 DEF RecoverFC
<1>36. CASE RecoverF8
  BY <1>36 DEF RecoverF8
<1>37. CASE RecoverF0
  BY <1>37 DEF RecoverF0
<1> HIDE PhasesDistinct, PhaseWritesOnlyClear, FlagBytes, SlotAssumption
    DEF SectorInv
<1> QED
  BY <1>1, <1>2, <1>3, <1>4, <1>5, <1>6, <1>7, <1>8, <1>9, <1>10, <1>11,
     <1>12, <1>13, <1>14, <1>15, <1>16, <1>17, <1>18, <1>19, <1>20, <1>21,
     <1>22, <1>23, <1>24, <1>25, <1>26, <1>27, <1>28, <1>29, <1>30, <1>31,
     <1>32, <1>33, <1>34, <1>35, <1>36, <1>37
  DEF Next, Running, PhaseMachine, Recovery

\* A stuttering step.
LEMMA InvStutter == ASSUME IInv, UNCHANGED vars PROVE IInv'
<1>1. UNCHANGED <<flags, phase, slot, mirror, pc, current, area, sector,
                  cuts, runs>>
  BY DEF vars, journal, archive, bounds
<1>2. TypeOK'
  BY <1>1 DEF IInv, TypeOK
<1>3. PositionInv'
  BY <1>1 DEF IInv, PositionInv, PhaseFits, Live, SkipsScratch
<1>4. AreaInv'
  BY <1>1 DEF IInv, AreaInv, AreaFits, Scratch, Live, SkipsScratch
<1>5. SectorInv'
  BY <1>1 DEF IInv, SectorInv, Live
<1> QED
  BY <1>2, <1>3, <1>4, <1>5 DEF IInv

\* Every step of the collector keeps every layer.
LEMMA InvNext == IInv /\ [Next]_vars => IInv'
<1>1. CASE IInv /\ Next
  <2>1. TypeOK' BY <1>1, TypeStep DEF IInv
  <2>2. PositionInv' BY <1>1, PositionStep DEF IInv
  <2>3. AreaInv' BY <1>1, AreaStep DEF IInv
  <2>4. SectorInv' BY <1>1, SectorStep DEF IInv
  <2> QED
    BY <2>1, <2>2, <2>3, <2>4 DEF IInv
<1>2. CASE IInv /\ UNCHANGED vars
  BY <1>2, InvStutter
<1> QED
  BY <1>1, <1>2

\* The strengthened invariant holds throughout, for any sectors the scan
\* covers and any number of collections and power losses.
THEOREM Invariant == Spec => []IInv
<1>1. Init => IInv
  BY InvInit
<1>2. IInv /\ [Next]_vars => IInv'
  BY InvNext
<1> QED
  BY <1>1, <1>2, PTL DEF Spec

\* Every variable stays in its range.
THEOREM TypeCorrect == Spec => []TypeOK
<1>1. IInv => TypeOK
  BY DEF IInv
<1> QED
  BY <1>1, Invariant, PTL

\* A phase that can be read back from Flash vouches for the work before it.
THEOREM VouchesForWork == Spec => []PhaseVouchesForWork
<1>1. IInv => PhaseVouchesForWork
  BY PhasesDistinct
  DEF IInv, TypeOK, AreaInv, SectorInv, PhaseVouchesForWork, SectorsDone,
      Phases
<1> QED
  BY <1>1, Invariant, PTL

\* No area and no sector is worked on twice without repair.
THEOREM NeverDamaged == Spec => []NothingDamaged
<1>1. IInv => NothingDamaged
  BY DEF IInv, AreaInv, SectorInv, NothingDamaged
<1> QED
  BY <1>1, Invariant, PTL

\* What RAM takes for journaled is in Flash.
THEOREM MirrorBehind == Spec => []MirrorNotAhead
<1>1. IInv => MirrorNotAhead
  BY DEF IInv, PositionInv, MirrorNotAhead
<1> QED
  BY <1>1, Invariant, PTL

\* A journal is retired by nothing but the cleanup, and then only when the
\* work of its collection is complete.
THEOREM RetiresComplete == Spec => RetiredOnlyWhenComplete
<1>1. ASSUME IInv, [Next]_vars, Live, ~Live' PROVE Complete
  <2>1. Cleanup
    <3>1. CASE UNCHANGED vars
      BY <3>1, <1>1 DEF vars, journal, Live
    <3>2. CASE Begin \/ Commit \/ PowerLoss \/ PowerOn
      BY <3>2, <1>1, FlagBytes
      DEF Begin, Commit, PowerLoss, PowerOn, Goto, journal, Live, IInv,
          PositionInv
    <3>3. CASE Recovery
      BY <3>3, <1>1
      DEF Recovery, Startup, Dispatch, RepairSector, RecoverSector, RecoverFE,
          RecoverFC, RecoverF8, RecoverF0, journal, Live
    <3>4. CASE PhaseMachine /\ ~Cleanup
      BY <3>4, <1>1
      DEF PhaseMachine, Header, Put, Mirror, BeginSector, StartSector,
          FinishSector, EndSector, EndSectors, TestBit3, StartWork,
          FinishWork, Check, journal, Live
    <3> QED
      BY <3>1, <3>2, <3>3, <3>4, <1>1 DEF Next, Running
  <2>2. pc = "cleanup" /\ phase \in {xF0, xE0}
    BY <2>1, <1>1 DEF Cleanup, Goto, IInv, PositionInv, PhaseFits
  <2>3. SectorsDone
    BY <2>2, <1>1 DEF SectorsDone, IInv, SectorInv
  <2>4. Scratch("header") /\ Scratch("page") /\ Scratch("disposal")
    BY <2>2, <1>1, PhasesDistinct DEF IInv, AreaInv
  <2>5. area.headers \in {"clean", "done"}
    BY <2>2, <1>1, PhasesDistinct DEF IInv, AreaInv, AreaFits
  <2> QED
    BY <2>3, <2>4, <2>5 DEF Complete
<1>2. IInv /\ [Next]_vars => [Live /\ ~Live' => Complete]_vars
  BY <1>1
<1> QED
  BY <1>2, Invariant, PTL DEF Spec, RetiredOnlyWhenComplete

-----------------------------------------------------------------------------
(* The phase machine implements PhaseChain.                                *)

\* The chain's bytes are the journal's.
LEMMA ChainBytes ==
    /\ Chain!xFF = xFF /\ Chain!xFE = xFE /\ Chain!xFC = xFC
    /\ Chain!xF8 = xF8 /\ Chain!xF0 = xF0 /\ Chain!xE0 = xE0
  BY DEF Chain!xFF, Chain!xFE, Chain!xFC, Chain!xF8, Chain!xF0, Chain!xE0,
         Chain!Bits, xFF, xFE, xFC, xF8, xF0, xE0, Bits

\* No journal is live at the start.
LEMMA ChainInit == Init => Chain!Init
  BY FlagBytes
  DEF Init, Chain!Init, Chain!NoJournal, Live, NoPhase

\* A phase write is an edge of the table, or rewrites the phase it finds.
LEMMA PutAdvances ==
    ASSUME IInv, NEW v, NEW here, NEW there, Put(v, here, there),
           <<v, here>> \in {<<xFE, "put FE">>, <<xFC, "put FC">>,
                            <<xF8, "put F8">>, <<xF0, "put F0">>,
                            <<xE0, "put E0">>}
    PROVE  Chain!Advance
<1>1. Live /\ Live' /\ phase' = Programmed(phase, v) /\ pc = here
  BY DEF Put, Goto, IInv, PositionInv, Live
<1>2. <<phase, phase'>> \in Chain!Transitions
  BY <1>1, PhaseWritesOnlyClear, ChainBytes
  DEF IInv, PositionInv, PhaseFits, Chain!Transitions
<1> QED
  BY <1>1, <1>2 DEF Chain!Advance

\* A step of the collector is an edge of the table, a publication, a
\* retirement, or leaves the phase alone.
LEMMA ChainStep ==
    ASSUME IInv, [Next]_vars
    PROVE  Chain!Next \/ UNCHANGED (IF Live THEN phase ELSE NoPhase)
<1>1. CASE UNCHANGED vars
  BY <1>1 DEF vars, journal, Live
<1>2. CASE Commit
  <2>1. ~Live /\ Live' /\ phase' = xFF
    BY <1>2, FlagBytes DEF Commit, Goto, IInv, PositionInv, Live
  <2> QED
    BY <2>1, ChainBytes DEF Chain!Next, Chain!Publish, Chain!NoJournal, NoPhase
<1>3. CASE Cleanup
  <2>1. ~Live' /\ phase \in {xF0, xE0} /\ Live
    BY <1>3, FlagBytes
    DEF Cleanup, Goto, IInv, PositionInv, PhaseFits, Live
  <2> QED
    BY <2>1 DEF Chain!Next, Chain!Retire, Chain!NoJournal, NoPhase
<1>4. CASE Put(xFE, "put FE", "mirror FE") \/ Put(xFC, "put FC", "mirror FC")
           \/ Put(xF8, "put F8", "mirror F8")
           \/ Put(xF0, "put F0", "mirror F0")
           \/ Put(xE0, "put E0", "mirror E0")
  BY <1>4, PutAdvances DEF Chain!Next
<1>5. CASE Begin \/ PowerLoss \/ PowerOn \/ Recovery
  BY <1>5
  DEF Begin, PowerLoss, PowerOn, Recovery, Startup, Dispatch, RepairSector,
      RecoverSector, RecoverFE, RecoverFC, RecoverF8, RecoverF0, journal, Live
<1>6. CASE \/ Header \/ StartSector \/ FinishSector \/ EndSector
           \/ EndSectors \/ TestBit3 \/ Check
           \/ \E s \in Slots : BeginSector(s)
  BY <1>6
  DEF Header, StartSector, FinishSector, EndSector, EndSectors, TestBit3,
      Check, BeginSector, journal, Live
<1>7. CASE \E v, w, here, there : Mirror(v, here, there)
           \/ StartWork(w, here, there) \/ FinishWork(w, here, there)
  BY <1>7 DEF Mirror, StartWork, FinishWork, journal, Live
<1> QED
  BY <1>1, <1>2, <1>3, <1>4, <1>5, <1>6, <1>7 DEF Next, Running, PhaseMachine

\* Whatever the power does, the journaled phase moves along the transition
\* table, from a published journal to a retired one.
THEOREM Implements == Spec => FollowsTransitions
<1>1. IInv /\ [Next]_vars =>
        [Chain!Next]_(IF Live THEN phase ELSE NoPhase)
  BY ChainStep
<1> QED
  BY <1>1, ChainInit, Invariant, PTL
  DEF Spec, FollowsTransitions, Chain!Spec

-----------------------------------------------------------------------------
(* What the chain itself implies, and with it the collector.               *)

\* The phase of the journal, none when no journal is live.
JournalPhase == IF Live THEN phase ELSE NoPhase

EdgeClears ==
    JournalPhase # {} /\ JournalPhase' # {} => JournalPhase' \subseteq JournalPhase

\* Every change of the phase of one journal is a byte program that the NOR
\* rule allows: it clears bits and sets none.
ClearsBits == Live /\ Live' => phase' \subseteq phase

\* Every edge of the table clears bits of the phase byte.
LEMMA EdgesClear ==
    \A t \in Chain!Transitions : t[2] \subseteq t[1] /\ t[1] # t[2]
  BY DEF Chain!Transitions, Chain!xFF, Chain!xFE, Chain!xFC, Chain!xF8,
         Chain!xF0, Chain!xE0, Chain!Bits

LEMMA ChainClears == FollowsTransitions => [][EdgeClears]_JournalPhase
<1>1. ASSUME [Chain!Next]_(IF Live THEN phase ELSE NoPhase)
      PROVE  EdgeClears
  <2>1. CASE Chain!Publish
    BY <2>1 DEF Chain!Publish, Chain!NoJournal, JournalPhase, EdgeClears
  <2>2. CASE Chain!Advance
    <3>1. PICK t \in Chain!Transitions : JournalPhase = t[1]
                                         /\ JournalPhase' = t[2]
      BY <2>2 DEF Chain!Advance, JournalPhase
    <3> QED
      BY <3>1, EdgesClear DEF EdgeClears
  <2>3. CASE Chain!Retire
    BY <2>3 DEF Chain!Retire, Chain!NoJournal, JournalPhase, EdgeClears
  <2>4. CASE JournalPhase' = JournalPhase
    BY <2>4 DEF EdgeClears
  <2> QED
    BY <1>1, <2>1, <2>2, <2>3, <2>4 DEF Chain!Next, JournalPhase
<1>2. [Chain!Next]_(IF Live THEN phase ELSE NoPhase)
          => [EdgeClears]_JournalPhase
  BY <1>1
<1> QED
  BY <1>2, PTL DEF FollowsTransitions, Chain!Spec

\* From its publication to its retirement, across losses and recoveries, no
\* step of a journal needs a bit of the phase byte to be set again.
THEOREM PhaseOnlyClears == Spec => [][ClearsBits]_vars
<1>1. TypeOK => phase # {}
  BY DEF TypeOK, Phases, xFF, xFE, xFC, xF8, xF0, xE0, Bits
<1>2. TypeOK /\ TypeOK' /\ [EdgeClears]_JournalPhase => [ClearsBits]_vars
  <2>1. ASSUME TypeOK, TypeOK', [EdgeClears]_JournalPhase, Live, Live'
        PROVE  phase' \subseteq phase
    <3>1. JournalPhase = phase /\ JournalPhase' = phase'
      BY <2>1 DEF JournalPhase
    <3>2. phase # {} /\ phase' # {}
      BY <1>1, <2>1 DEF TypeOK, Phases, xFF, xFE, xFC, xF8, xF0, xE0, Bits
    <3> QED
      BY <2>1, <3>1, <3>2 DEF EdgeClears
  <2> QED
    BY <2>1 DEF ClearsBits
<1> QED
  BY <1>2, Implements, ChainClears, TypeCorrect, PTL

-----------------------------------------------------------------------------
(* Progress.  That a published journal is retired needs fairness and stays *)
(* with TLC; here is what it rests on: the collector never comes to rest   *)
(* beside a live journal, and between two power losses it never goes back. *)

\* The collector does not idle over a live journal, and the comparison chain
\* of gc_recover_by_phase has a branch for what Flash holds.
NeverAtRest ==
    Live => /\ pc \notin {"idle", "commit"}
            /\ pc = "dispatch" => mirror \in Phases
            /\ pc \in {"sector", "in sector", "end sector"} => current \in Slots

THEOREM NeverRests == Spec => []NeverAtRest
<1>1. IInv => NeverAtRest
  BY DEF IInv, TypeOK, PositionInv, SectorInv, NeverAtRest
<1> QED
  BY <1>1, Invariant, PTL

\* How far a position is from the retired journal.  The loop over the
\* sectors is one stage, with a turn of its own.
Loop == {"sectors", "sector", "in sector", "end sector"}

Distance(p) ==
    CASE p = "off"         -> 28 [] p = "startup"     -> 27
      [] p = "dispatch"    -> 26 [] p = "header"      -> 25
      [] p = "put FE"      -> 24 [] p = "mirror FE"   -> 23
      [] p = "recover FE"  -> 22 [] p \in Loop        -> 21
      [] p = "bit 3"       -> 20 [] p = "put FC"      -> 19
      [] p = "mirror FC"   -> 18 [] p = "recover FC"  -> 17
      [] p = "page"        -> 16 [] p = "in page"     -> 15
      [] p = "put F8"      -> 14 [] p = "mirror F8"   -> 13
      [] p = "disposal"    -> 12 [] p = "in disposal" -> 11
      [] p = "recover F8"  -> 10 [] p = "check"       -> 9
      [] p = "put F0"      -> 8  [] p = "mirror F0"   -> 7
      [] p = "headers"     -> 6  [] p = "in headers"  -> 5
      [] p = "put E0"      -> 4  [] p = "mirror E0"   -> 3
      [] p = "recover F0"  -> 2  [] p = "cleanup"     -> 1
      [] OTHER              -> 0

TurnsLeft(p) ==
    CASE p = "sectors"   -> 3 [] p = "sector" -> 2
      [] p = "in sector" -> 1 [] OTHER         -> 0

Stage == Distance(pc)
Turn  == TurnsLeft(pc)

Unfinished == {s \in Slots : slot[s] # xFC}
Unrepaired == {s \in Slots : sector[s] # "done"}

Fewer(s, t) == s \subseteq t /\ s # t

\* A stage further, or in the same stage with fewer sectors to finish, or
\* further inside the turn, or with fewer sectors to repair.
Forward ==
    \/ Stage' < Stage
    \/ /\ Stage' = Stage
       /\ \/ Fewer(Unfinished', Unfinished)
          \/ /\ Unfinished' = Unfinished
             /\ Turn' < Turn \/ (Turn' = Turn /\ Fewer(Unrepaired', Unrepaired))

\* The distances that the steps compare.
LEMMA Distances ==
    /\ Distance("off") = 28         /\ Distance("startup") = 27
    /\ Distance("dispatch") = 26    /\ Distance("header") = 25
    /\ Distance("put FE") = 24      /\ Distance("mirror FE") = 23
    /\ Distance("recover FE") = 22  /\ \A p \in Loop : Distance(p) = 21
    /\ Distance("bit 3") = 20       /\ Distance("put FC") = 19
    /\ Distance("mirror FC") = 18   /\ Distance("recover FC") = 17
    /\ Distance("page") = 16        /\ Distance("in page") = 15
    /\ Distance("put F8") = 14      /\ Distance("mirror F8") = 13
    /\ Distance("disposal") = 12    /\ Distance("in disposal") = 11
    /\ Distance("recover F8") = 10  /\ Distance("check") = 9
    /\ Distance("put F0") = 8       /\ Distance("mirror F0") = 7
    /\ Distance("headers") = 6      /\ Distance("in headers") = 5
    /\ Distance("put E0") = 4       /\ Distance("mirror E0") = 3
    /\ Distance("recover F0") = 2   /\ Distance("cleanup") = 1
    /\ TurnsLeft("sectors") = 3     /\ TurnsLeft("sector") = 2
    /\ TurnsLeft("in sector") = 1   /\ TurnsLeft("end sector") = 0
  BY DEF Distance, TurnsLeft, Loop

\* Writing FC into a slot that reads FE finishes that sector and no other.
LEMMA SlotFinished ==
    ASSUME TypeOK, NEW s \in Slots, slot[s] = xFE,
           slot' = [slot EXCEPT ![s] = Programmed(slot[s], xFC)]
    PROVE  Fewer(Unfinished', Unfinished)
<1>1. slot' = [slot EXCEPT ![s] = xFC] /\ xFE # xFC
  BY PhaseWritesOnlyClear, PhasesDistinct
<1>2. slot'[s] = xFC /\ \A t \in Slots : t # s => slot'[t] = slot[t]
  BY <1>1 DEF TypeOK
<1>3. s \in Unfinished /\ s \notin Unfinished'
  BY <1>1, <1>2 DEF Unfinished
<1>4. Unfinished' \subseteq Unfinished
  BY <1>1, <1>2 DEF Unfinished
<1> QED
  BY <1>3, <1>4 DEF Fewer

\* The steps inside the sector loop.
LEMMA LoopForward ==
    ASSUME IInv, Live,
           (\E s \in Slots : BeginSector(s)) \/ StartSector \/ FinishSector
             \/ EndSector
    PROVE  Forward
<1>1. pc \in Loop /\ pc' \in Loop
  BY DEF BeginSector, StartSector, FinishSector, EndSector, Goto, Loop
<1>2. Stage' = Stage
  BY <1>1, Distances, Zenon DEF Stage
<1>3. ASSUME NEW s \in Slots, BeginSector(s) PROVE Forward
  <2>1. slot[s] \in {xFF, xFE} /\ xFE # xFC /\ xFF # xFC
    BY <1>3, PhasesDistinct DEF BeginSector, IInv, TypeOK, SlotStates
  <2>2. Programmed(slot[s], xFE) = xFE
    BY <2>1, PhaseWritesOnlyClear
  <2>3. slot' = [slot EXCEPT ![s] = xFE]
    BY <1>3, <2>2 DEF BeginSector
  <2>4. Unfinished' = Unfinished
    BY <2>1, <2>3 DEF Unfinished, IInv, TypeOK
  <2>5. Turn = 3 /\ Turn' = 2
    BY <1>3, Distances, Zenon DEF BeginSector, Goto, Turn
  <2> QED
    BY <1>2, <2>4, <2>5 DEF Forward
<1>4. CASE StartSector \/ FinishSector
  <2>1. Unfinished' = Unfinished
    BY <1>4 DEF StartSector, FinishSector, journal, Unfinished
  <2>2. (Turn = 2 /\ Turn' = 1) \/ (Turn = 1 /\ Turn' = 0)
    BY <1>4, Distances, Zenon DEF StartSector, FinishSector, Goto, Turn
  <2> QED
    BY <1>2, <2>1, <2>2 DEF Forward
<1>5. CASE EndSector
  <2>1. current \in Slots /\ slot[current] = xFE
    BY <1>5 DEF EndSector, Goto, IInv, SectorInv
  <2>2. Fewer(Unfinished', Unfinished)
    BY <1>5, <2>1, SlotFinished DEF EndSector, IInv
  <2> QED
    BY <1>2, <2>2 DEF Forward
<1> QED
  BY <1>3, <1>4, <1>5

\* The steps of the repair loop.
LEMMA RepairForward ==
    ASSUME IInv, NEW s \in Slots, RepairSector(s) \/ RecoverSector(s)
    PROVE  Forward
<1>1. pc' = pc
  BY DEF RepairSector, RecoverSector
<1>2. Stage' = Stage /\ Turn' = Turn
  BY <1>1 DEF Stage, Turn
<1>3. CASE RepairSector(s)
  <2>1. sector[s] # "done" /\ sector' = [sector EXCEPT ![s] = "done"]
    BY <1>3 DEF RepairSector
  <2>2. Unfinished' = Unfinished
    BY <1>3 DEF RepairSector, journal, Unfinished
  <2>3. Fewer(Unrepaired', Unrepaired)
    BY <2>1 DEF Unrepaired, Fewer, IInv, TypeOK
  <2> QED
    BY <1>2, <2>2, <2>3 DEF Forward
<1>4. CASE RecoverSector(s)
  <2>1. slot[s] = xFE
    BY <1>4 DEF RecoverSector, Found
  <2>2. Fewer(Unfinished', Unfinished)
    BY <1>4, <2>1, SlotFinished DEF RecoverSector, IInv
  <2> QED
    BY <1>2, <2>2 DEF Forward
<1> QED
  BY <1>3, <1>4

\* Every other step of the collector ends its stage.
LEMMA StageForward ==
    ASSUME IInv, Live, Live', Running,
           ~(\E s \in Slots : BeginSector(s)), ~StartSector, ~FinishSector,
           ~EndSector,
           ~(\E s \in Slots : RepairSector(s) \/ RecoverSector(s))
    PROVE  Stage' < Stage
<1> USE DEF Goto
<1>1. CASE Header
  <2>1. Stage = 25 /\ Stage' = 24
    BY <1>1, Distances, Zenon DEF Header, Stage, Loop
  <2> QED
    BY <2>1
<1>2. CASE EndSectors
  <2>1. Stage = 21 /\ Stage' = 20
    BY <1>2, Distances, Zenon DEF EndSectors, Stage, Loop
  <2> QED
    BY <2>1
<1>3. CASE TestBit3
  <2>1. Stage = 20 /\ Stage' \in {9, 19}
    BY <1>3, Distances, Zenon DEF TestBit3, Stage, Loop
  <2> QED
    BY <2>1
<1>4. CASE Check
  <2>1. Stage = 9 /\ Stage' \in {8, 4}
    BY <1>4, Distances, Zenon DEF Check, Stage, Loop
  <2> QED
    BY <2>1
<1>5. CASE Put(xFE, "put FE", "mirror FE") \/ Mirror(xFE, "mirror FE", "sectors")
  <2>1. (Stage = 24 /\ Stage' = 23) \/ (Stage = 23 /\ Stage' = 21)
    BY <1>5, Distances, Zenon DEF Put, Mirror, Stage, Loop
  <2> QED
    BY <2>1
<1>6. CASE Put(xFC, "put FC", "mirror FC") \/ Mirror(xFC, "mirror FC", "page")
  <2>1. (Stage = 19 /\ Stage' = 18) \/ (Stage = 18 /\ Stage' = 16)
    BY <1>6, Distances, Zenon DEF Put, Mirror, Stage, Loop
  <2> QED
    BY <2>1
<1>7. CASE Put(xF8, "put F8", "mirror F8") \/ Mirror(xF8, "mirror F8", "disposal")
  <2>1. (Stage = 14 /\ Stage' = 13) \/ (Stage = 13 /\ Stage' = 12)
    BY <1>7, Distances, Zenon DEF Put, Mirror, Stage, Loop
  <2> QED
    BY <2>1
<1>8. CASE Put(xF0, "put F0", "mirror F0") \/ Mirror(xF0, "mirror F0", "headers")
  <2>1. (Stage = 8 /\ Stage' = 7) \/ (Stage = 7 /\ Stage' = 6)
    BY <1>8, Distances, Zenon DEF Put, Mirror, Stage, Loop
  <2> QED
    BY <2>1
<1>9. CASE Put(xE0, "put E0", "mirror E0") \/ Mirror(xE0, "mirror E0", "cleanup")
  <2>1. (Stage = 4 /\ Stage' = 3) \/ (Stage = 3 /\ Stage' = 1)
    BY <1>9, Distances, Zenon DEF Put, Mirror, Stage, Loop
  <2> QED
    BY <2>1
<1>10. CASE \/ StartWork("page", "page", "in page")
           \/ FinishWork("page", "in page", "put F8")
  <2>1. (Stage = 16 /\ Stage' = 15) \/ (Stage = 15 /\ Stage' = 14)
    BY <1>10, Distances, Zenon DEF StartWork, FinishWork, Stage, Loop
  <2> QED
    BY <2>1
<1>11. CASE \/ StartWork("disposal", "disposal", "in disposal")
           \/ FinishWork("disposal", "in disposal", "check")
  <2>1. (Stage = 12 /\ Stage' = 11) \/ (Stage = 11 /\ Stage' = 9)
    BY <1>11, Distances, Zenon DEF StartWork, FinishWork, Stage, Loop
  <2> QED
    BY <2>1
<1>12. CASE \/ StartWork("headers", "headers", "in headers")
           \/ FinishWork("headers", "in headers", "put E0")
  <2>1. (Stage = 6 /\ Stage' = 5) \/ (Stage = 5 /\ Stage' = 4)
    BY <1>12, Distances, Zenon DEF StartWork, FinishWork, Stage, Loop
  <2> QED
    BY <2>1
<1>13. CASE PowerOn
  <2>1. Stage = 28 /\ Stage' = 27
    BY <1>13, Distances, Zenon DEF PowerOn, Stage, Loop
  <2> QED
    BY <2>1
<1>14. CASE Startup
  <2>1. Stage = 27 /\ Stage' = 26
    BY <1>14, Distances, Zenon DEF Startup, Stage, Loop
  <2> QED
    BY <2>1
<1>15. CASE Dispatch
  <2>1. Stage = 26 /\ Stage' \in {25, 22, 17, 10, 2, 1}
    BY <1>15, Distances, Zenon DEF Dispatch, Stage, Loop
  <2> QED
    BY <2>1
<1>16. CASE RecoverFE \/ RecoverFC
  <2>1. (Stage = 22 /\ Stage' = 21) \/ (Stage = 17 /\ Stage' = 16)
    BY <1>16, Distances, Zenon DEF RecoverFE, RecoverFC, Stage, Loop
  <2> QED
    BY <2>1
<1>17. CASE RecoverF8 \/ RecoverF0
  <2>1. (Stage = 10 /\ Stage' = 9) \/ (Stage = 2 /\ Stage' = 1)
    BY <1>17, Distances, Zenon DEF RecoverF8, RecoverF0, Stage, Loop
  <2> QED
    BY <2>1
<1>18. CASE Commit
  BY <1>18 DEF Commit, IInv, PositionInv
<1>19. CASE Cleanup
  BY <1>19, FlagBytes DEF Cleanup, Live
<1> QED
  BY <1>1, <1>2, <1>3, <1>4, <1>5, <1>6, <1>7, <1>8, <1>9, <1>10, <1>11,
     <1>12, <1>13, <1>14, <1>15, <1>16, <1>17, <1>18, <1>19
  DEF Running, PhaseMachine, Recovery

\* Between two power losses the collector only goes forward: every step with
\* a live journal ends a stage, finishes a sector or repairs one, whether the
\* collection runs through or was picked up by a recovery branch.  Only
\* finitely many such steps fit between two power losses.
\* (the continuations of PHASE_CASES)
THEOREM OnlyForward ==
    Spec => [][Running /\ Live /\ Live' => Forward]_vars
<1>1. ASSUME IInv, Running, Live, Live' PROVE Forward
  <2>1. CASE (\E s \in Slots : BeginSector(s)) \/ StartSector \/ FinishSector
               \/ EndSector
    BY <1>1, <2>1, LoopForward
  <2>2. CASE \E s \in Slots : RepairSector(s) \/ RecoverSector(s)
    BY <1>1, <2>2, RepairForward
  <2> QED
    BY <1>1, <2>1, <2>2, StageForward DEF Forward
<1>2. IInv /\ [Next]_vars => [Running /\ Live /\ Live' => Forward]_vars
  BY <1>1
<1> QED
  BY <1>2, Invariant, PTL DEF Spec
=============================================================================
