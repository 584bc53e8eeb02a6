---------------------------- MODULE Slices ------------------------------
(***************************************************************************)
(* What loops over slices compute: what is left of one when some of its    *)
(* elements are copied, in order, and the sum of one.                      *)
(***************************************************************************)
EXTENDS Integers, FiniteSets, SequencesExt

\* The place of i among the numbers of I.
Place(I, i) == Cardinality({j \in I : j <= i})

\* The elements of seq at the places in I.
Picked(seq, I) == [n \in 1..Cardinality(I) |-> seq[CHOOSE i \in I : Place(I, i) = n]]

\* The elements of seq that are not in `gone`.
Keeping(seq, gone) == Picked(seq, {i \in DOMAIN seq : seq[i] \notin gone})

\* The sum of a sequence of numbers.
Sum(seq) ==
  LET upTo[n \in 0..Len(seq)] == IF n = 0 THEN 0 ELSE upTo[n - 1] + seq[n]
  IN  upTo[Len(seq)]
=============================================================================
