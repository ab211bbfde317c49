-------------------------------- MODULE Sums --------------------------------
(***************************************************************************)
(* The total of a sequence of numbers, as the code's loops and iterators   *)
(* sum them up: from the front, one after the other.                       *)
(***************************************************************************)
EXTENDS Integers, Sequences

\* The sum of the first k amounts, for every k.
Sums(amounts) ==
    LET sum[k \in 0 .. Len(amounts)] ==
            IF k = 0 THEN 0 ELSE sum[k - 1] + amounts[k]
    IN  sum

Total(amounts) == Sums(amounts)[Len(amounts)]
=============================================================================
