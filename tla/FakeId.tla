------------------------------- MODULE FakeId -------------------------------
(***************************************************************************)
(* The ids in the links that messages carry (utils/yl_hash_id.go).  A      *)
(* uint64 is the set of the positions of its one bits; the numbers that    *)
(* the code adds have no bit in common.  Base 36 keeps the number as long  *)
(* as it is not negative.                                                  *)
(***************************************************************************)
EXTENDS Integers, FiniteSets

Bits == 0..63

Shl(s, k) == {b + k : b \in s} \cap Bits
Shr(s, k) == {b - k : b \in {c \in s : c >= k}}
Low(s, k) == {b \in s : b < k}   \* s & ((1 << k) - 1)

\* The number of digits of three bits, and of groups of five digits (md)
Digits(s) == IF s = {} THEN 0 ELSE (CHOOSE b \in s : \A c \in s : c <= b) \div 3 + 1
Groups(s) == IF s = {} THEN 0 ELSE (Digits(s) - 1) \div 5 + 1

\* Mutant: the check digit goes where the last data digit is.
MixGroupTight(s, j) ==
  LET md == Groups(s) - 1 - j
  IN  Shl(Low(Shr(s, 15 * j), 15) \cup Shl(Low(Shr(s, 3 * md), 3), 12), 18 * j)

\* Group j: five digits of the number and a sixth, digit md of the number
MixGroup(s, j) ==
  LET md == Groups(s) - 1 - j
  IN  Shl(Low(Shr(s, 15 * j), 15) \cup Shl(Low(Shr(s, 3 * md), 3), 15), 18 * j)

mix(s) == UNION {MixGroup(s, j) : j \in 0..(Groups(s) - 1)}

\* Version 1 goes into the four bits above the low eight.
setVersion(s) == Shl(Shr(s, 8), 12) \cup {8} \cup Low(s, 8)

getVersion(s) == Low(Shr(s, 8), 4)

Unversioned(s) == Shl(Shr(s, 12), 8) \cup Low(s, 8)

\* The sixth digit of every group is dropped.
demix(s) == IF getVersion(s) = {0}
            THEN UNION {Shl(Low(Shr(Unversioned(s), 18 * j), 15), 15 * j) : j \in 0..3}
            ELSE Unversioned(s)

Empty == [empty |-> TRUE, bits |-> {}]

\* FormatInt of the int64: a negative number is written with a sign.
FakeIdEncode(s) == IF s = {} THEN Empty ELSE [empty |-> FALSE, bits |-> setVersion(mix(s))]

\* ParseUint fails on a sign, and its error is dropped: the number is 0.
FakeIdDecode(code) ==
  IF code.empty \/ 63 \in code.bits \/ code.bits = {8} THEN {} ELSE demix(code.bits)
=============================================================================
