----------------------------- MODULE MCL1Cache -----------------------------
(***************************************************************************)
(* An instance of L1Cache: two sets of two ways, one of which three blocks *)
(* share, and accesses of one and two bytes on lines of two.               *)
(***************************************************************************)
EXTENDS L1Cache

ShortLens == {1, 2}
Bits      == {0, 1}
SomeBytes == {0, 1, 2, 5, 6, 9}
=============================================================================
