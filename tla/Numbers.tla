------------------------------- MODULE Numbers -------------------------------
(***************************************************************************)
(* What the components need of numbers: the lesser and the larger of two,  *)
(* the least and the greatest of a set, and the sum of a sequence.  They   *)
(* are written so that theorems can be proved about them.                  *)
(***************************************************************************)
EXTENDS Integers, Sequences

Lesser(m, n) == IF m <= n THEN m ELSE n

Larger(m, n) == IF m <= n THEN n ELSE m

Least(S) == CHOOSE n \in S : \A m \in S : n <= m

Greatest(S) == CHOOSE n \in S : \A m \in S : m <= n

\* The sums of the first numbers of a sequence, and of them all.
Sums(f) == LET s[n \in 0 .. Len(f)] == IF n = 0 THEN 0 ELSE s[n - 1] + f[n] IN s

Sum(f) == Sums(f)[Len(f)]
=============================================================================
