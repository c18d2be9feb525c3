---------------------------- MODULE MCSuffixSort ----------------------------
(***************************************************************************)
(* A suffix array by definition, the value of Sort in the small instances. *)
(***************************************************************************)
EXTENDS Integers, FiniteSetsExt

\* A suffix is less than another if it is its prefix or has a smaller byte
\* where they first differ.
MCSort(f, lo, hi) ==
  LET offsets == 0 .. hi - lo - 1
      Less(a, b) ==
        LET most == hi - lo - Max({a, b})
            diff == {k \in 0 .. most - 1 : f[lo + a + k] # f[lo + b + k]}
        IN  IF diff = {} THEN a > b
            ELSE f[lo + a + Min(diff)] < f[lo + b + Min(diff)]
      rankOf == [a \in offsets |-> Cardinality({b \in offsets : Less(b, a)})]
  IN  [r \in offsets |-> CHOOSE a \in offsets : rankOf[a] = r]
=============================================================================
