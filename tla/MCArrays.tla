------------------------------ MODULE MCArrays ------------------------------
(* Two arrays of up to two elements, in every way they can contain each     *)
(* other, and doubles of two bits against integers of five: 15 and 31 are   *)
(* not among them, 16 and 32 are.  Of one digit, 1.5 and 24 are left as 1   *)
(* or 2 and as 20.                                                          *)
EXTENDS Arrays
MCStored == {Finite(1)}
=============================================================================
