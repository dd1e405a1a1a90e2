------------------------------ MODULE KeyedLists ------------------------------
(***************************************************************************)
(* The OrderedDicts of the caches (lib/cache.py, lib/advanced_cache.py) as *)
(* sequences of entries with a key, the order of the dictionary.  The      *)
(* operators are recursive functions, so that theorems can be proved of    *)
(* them by looking at a shortest counterexample.                           *)
(***************************************************************************)
EXTENDS Integers, Sequences

\* The entries that are left when those with a key in K are deleted,
Without(entries, K) ==
    LET left[n \in 0..Len(entries)] ==
            IF n = 0 THEN <<>>
            ELSE IF entries[n].key \in K THEN left[n - 1] ELSE Append(left[n - 1], entries[n])
    IN left[Len(entries)]

\* and the sum of some numbers.
Total(numbers) ==
    LET sum[n \in 0..Len(numbers)] == IF n = 0 THEN 0 ELSE sum[n - 1] + numbers[n]
    IN sum[Len(numbers)]
===============================================================================
