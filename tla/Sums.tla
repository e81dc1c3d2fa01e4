-------------------------------- MODULE Sums --------------------------------
(***************************************************************************)
(* The sum of a sequence of numbers, as a recursive function so that it    *)
(* can be reasoned about.                                                  *)
(***************************************************************************)
EXTENDS Integers, Sequences

Sum(numbers) ==
    LET sum[i \in 0..Len(numbers)] == IF i = 0 THEN 0 ELSE sum[i - 1] + numbers[i]
    IN  sum[Len(numbers)]
=============================================================================
