------------------------------ MODULE MCProfile ------------------------------
(* A small instance of Profile for TLC. *)
EXTENDS Profile, TLC

CONSTANTS n1, m1, m2, m3, f1, f2

\* n1 is new; the others are complete.
MCInitGender ==
  [v \in User |-> IF v = n1 THEN "U" ELSE IF v \in {f1, f2} THEN "F" ELSE "M"]
MCInitCode == [v \in User |-> CASE v = n1 -> None [] v = m3 -> 3 [] OTHER -> 1]

\* Part of the seeded map: two men's categories share one of MX.
MCMxOf == [M |-> <<1, 1, 2>>, F |-> <<1, 2, 3>>]

\* n1 in a ladder of his own, and in MX with either gender.
MCLineup == {{n1, m1, m2, m3}, {n1, m1, f1, f2}, {n1, f1, m1, m3}}

\* The median as the code computes it: sort the four, take the mean of the two in
\* the middle and round it up.
SortedMedian(c) ==
  LET s == SortSeq(c, LAMBDA a, b : a < b)
      Ceil2(x) == x \div 2 + (x % 2)
  IN  Ceil2(s[2] + s[3])
ASSUME MedianChecked == \A c \in [1..4 -> 1..5] : Median(c) = SortedMedian(c)

SlotSymmetry == Permutations(Tx)
MatchSymmetry == Permutations(Match)
MCSymmetry == SlotSymmetry \cup MatchSymmetry
==============================================================================
