----------------------------- MODULE MCLcdReplay -----------------------------
(***************************************************************************)
(* A memory of four bytes a row, as the sixteen of the chip a row that six *)
(* does not divide: the last group holds two pixels.                       *)
(***************************************************************************)
EXTENDS LcdReplay

\* 3F and 15 fit six pixels, A9 needs eight.
MCValues == {0 .. 5, {0, 2, 4}, {0, 3, 5, 7}}
=============================================================================
