---------------------------- MODULE MCLinkStaging ----------------------------
(* Payloads of up to four blocks, around both ends of a page and of each   *)
(* model's page range.                                                     *)
EXTENDS LinkStaging

MCStarts ==
    {7, 8, 20, 21, 40, 41, 105, 200}
        \X {BASE, 20480, TOP - 24, TOP - 15, TOP - 14, TOP, TOP + 1, 65535}
MCLengths == {0, 1, 15, 16, 17, 33, 64}
=============================================================================
