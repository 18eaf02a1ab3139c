-------------------------------- MODULE Sums --------------------------------
(***************************************************************************)
(* Sums of sequences of numbers (the built-in `sum`), as a recursive       *)
(* function: sums can be reasoned about, which the folds cannot.           *)
(***************************************************************************)
EXTENDS Integers, Sequences

\* The sums of the first n numbers, for every n.
SumsTo(s) == LET sum[n \in 0..Len(s)] == IF n = 0 THEN 0 ELSE sum[n - 1] + s[n] IN sum

Total(s) == SumsTo(s)[Len(s)]

\* The sum of f[from], ..., f[to].
SumOver(f, from, to) == Total([i \in 1..(to - from + 1) |-> f[from + i - 1]])
=============================================================================
