------------------------------ MODULE Numerals ------------------------------
(***************************************************************************)
(* Numbers as sequences of digits of w bits, the first digit being the     *)
(* most significant one.                                                   *)
(***************************************************************************)
EXTENDS Integers, Sequences

\* The last k digits of n, which are those of its two's complement if n is
\* negative.
DigitsOf(n, w, k) == [i \in 1 .. k |-> (n \div (2 ^ (w * (k - i)))) % (2 ^ w)]

\* A loop that shifts the number by a digit and adds the next one.
FromDigits(ds, w) ==
  LET u[i \in 0 .. Len(ds)] == IF i = 0 THEN 0 ELSE u[i - 1] * 2 ^ w + ds[i]
  IN  u[Len(ds)]
=============================================================================
