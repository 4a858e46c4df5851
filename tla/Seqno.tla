------------------------------- MODULE Seqno -------------------------------
(***************************************************************************)
(* Sequence number arithmetic of util.h.  The code computes on unsigned    *)
(* shorts; SeqMod is the size of the circle (65536 in the code) and the    *)
(* sign bit 0x8000 of a difference is its upper half.                      *)
(***************************************************************************)
EXTENDS Integers

CONSTANT SeqMod

ASSUME SeqModAssumption == SeqMod \in Nat /\ SeqMod >= 4 /\ SeqMod % 2 = 0

Seqnos == 0 .. SeqMod - 1

seqno_plus(s, plus) == (s + plus) % SeqMod

\* The signed difference, in -SeqMod/2 .. SeqMod/2 - 1.
seqno_minus(s1, s2) ==
  LET d == (s1 - s2) % SeqMod
  IN  IF d >= SeqMod \div 2 THEN d - SeqMod ELSE d

\* 1 when s1 is newer than s2, -1 when it is older, 0 when they are equal.
seqno_compare(s1, s2) ==
  IF s1 = s2 THEN 0
  ELSE IF (s2 - s1) % SeqMod >= SeqMod \div 2 THEN 1 ELSE -1

=============================================================================
