----------------------------- MODULE MCD2DLink -----------------------------
(* One direction of a link with rings of four slots (two-bit pointers).     *)
EXTENDS D2DLink

MCToGray == bin2gray(2)
MCFromGray == gray2bin(2)
=============================================================================
