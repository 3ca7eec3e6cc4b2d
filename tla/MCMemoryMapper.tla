--------------------------- MODULE MCMemoryMapper ---------------------------
(***************************************************************************)
(* MemoryMapper at one sixteenth of its scale: four selectors to a kind,   *)
(* eight Flash and four RAM pages, three granules of two units to a        *)
(* region, and Wabbitemu's cutoff in the middle of a granule.              *)
(***************************************************************************)
EXTENDS MemoryMapper

\* Flash pages 0 and 3, RAM pages 2 and 3, the latter not backed by MAME;
\* of 5 the extension registers keep 1.
MCValues ==
    [r \in REGISTERS |->
        IF r = "port4" THEN {0, 1}
        ELSE IF r = "bank_a" THEN {3, 7}
        ELSE IF r = "bank_b" THEN {6}
        ELSE IF r = "bank_c" THEN {0, 3}
        ELSE IF r = "port0e" THEN {0, 5}
        ELSE IF r = "port0f" THEN {5}
        ELSE {0, 1}]

\* Every implementation as it is, and two with an alias from page 2 on and
\* the overlays of paired mode turned round.
Plain(p) == <<p, [alias |-> 4, paired |-> "profile"]>>

MCMachines ==
    {Plain("Documented"), Plain("TilEm"), Plain("Wabbitemu"), Plain("MAME"),
     <<"TilEm", [alias |-> 2, paired |-> "never"]>>,
     <<"Wabbitemu", [alias |-> 2, paired |-> "always"]>>}
=============================================================================
