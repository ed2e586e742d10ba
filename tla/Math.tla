-------------------------------- MODULE Math --------------------------------
(***************************************************************************)
(* The integer functions of kernel/src/Math.cpp that the heap uses, for    *)
(* arguments below 2^16, on which the first two masks of CeilLog2 are zero.*)
(***************************************************************************)
EXTENDS Naturals, Sequences

LOCAL INSTANCE SequencesExt

Pow(base, exponent) == base ^ exponent

PowerOfTwoNever(value) ==    \* mutant: every logarithm is rounded up
  FALSE

(* value & (value - 1) is 0.                                               *)
PowerOfTwo(value) == \E n \in 0..15 : value = Pow(2, n)

(* value & mask, for the mask of the j bits above the lowest j.            *)
Masked(value, j) == (value \div Pow(2, j)) % Pow(2, j)

(* The loop: add up the shifts that bring the highest bit down to bit 0.   *)
CeilLog2(value) ==
  LET Shift(acc, j) ==
        IF Masked(acc.value, j) = 0 THEN acc
        ELSE [value |-> acc.value \div Pow(2, j), output |-> acc.output + j]
  IN FoldLeft(Shift, [value |-> value, output |-> IF PowerOfTwo(value) THEN 0 ELSE 1],
              <<8, 4, 2, 1>>).output
=============================================================================
