---------------------------- MODULE MCFlashTrace ----------------------------
(***************************************************************************)
(* A part with the two unlock addresses in one sector and a journal byte   *)
(* in a sector of its own.  The bytes programmed collide with the command  *)
(* bytes, and the unlock address itself is a target.                       *)
(***************************************************************************)
EXTENDS FlashTrace

CONSTANTS u1, u2, journal

MCAddr == {u1, u2, journal}
MCSectorOf == [a \in MCAddr |-> IF a = journal THEN {journal} ELSE {u1, u2}]
MCSource == [a \in MCAddr |-> IF a = journal THEN xFE ELSE Erased]
MCRequests == {<<journal, xF0>>, <<journal, xFF>>, <<u1, xAA>>, <<u1, x30>>}
MCEraseTargets == {journal, u1}
=============================================================================
