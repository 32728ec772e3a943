------------------------------ MODULE SeqArith ------------------------------
(***************************************************************************)
(* Packet sequence numbers of the reliable trace transport                 *)
(* (syn/artix7/bringup/scripts/nack_rx.py).  The wire carries a big-endian *)
(* uint32; the receiver compares two numbers by their forward distance     *)
(* modulo 2^32, taking the half circle ahead as "greater".                 *)
(*                                                                         *)
(* The width is a parameter: the source has SeqHalf = 2^31.                *)
(***************************************************************************)
EXTENDS Integers

CONSTANT SeqHalf

ASSUME SeqHalfAssumption == SeqHalf \in Nat \ {0}

SeqModulus == 2 * SeqHalf

SeqNums == 0 .. SeqModulus - 1

\* The number the header of the packet with absolute index i carries.
WireSeq(i) == i % SeqModulus

\* (s + 1) & 0xFFFFFFFF
NextSeq(s) == (s + 1) % SeqModulus

SeqDiff(a, b) == (a - b) % SeqModulus

\* Mutant of SeqGt: the order of the integers instead of the half circle.
SeqGtPlain(a, b) == a > b

SeqGt(a, b) == SeqDiff(a, b) < SeqHalf /\ a # b

SeqLt(a, b) == SeqGt(b, a)
=============================================================================
