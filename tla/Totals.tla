------------------------------- MODULE Totals --------------------------------
(* Sums of sequences of numbers, as a recursive function.                  *)
EXTENDS Sequences, Integers

TotalAt(numbers, n, total) == IF n = 1 THEN 0 ELSE total[n - 1] + numbers[n - 1]

(* At n: the sum of those before the n-th.                                 *)
TotalBefore(numbers) ==
  LET total[n \in 1..Len(numbers) + 1] == TotalAt(numbers, n, total) IN total

Total(numbers) == TotalBefore(numbers)[Len(numbers) + 1]
=============================================================================
