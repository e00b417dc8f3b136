------------------------------- MODULE Search -------------------------------
(***************************************************************************)
(* bsearch of the C library (mlibc-salernos/stdlib.patched.cpp) on an      *)
(* array that qsort has sorted with the same comparison.                   *)
(***************************************************************************)
EXTENDS Sort

CONSTANT MaxCount   \* the longest array

ASSUME SearchAssumption == MaxCount \in Nat

VARIABLES
  key,
  lo, hi,    \* bsearch's i and j
  element    \* the index that bsearch returned, -1 for NULL

vars == <<pc, base, count, input, arg, i, j, key, lo, hi, element>>

SearchTypeOK ==
  /\ pc \in {"sort", "sorted", "search", "returned"}
  /\ count \in 0..MaxCount
  /\ base \in [Indices -> Elements] /\ input \in [Indices -> Elements]
  /\ arg \in Args /\ key \in Elements
  /\ i \in 0..count /\ j \in Nat
  /\ lo \in 0..count /\ hi \in 0..count
  /\ element \in -1..(count - 1)

\* A call of qsort: any array, any comparison.
Init ==
  /\ pc = "sort"
  /\ count \in 0..MaxCount
  /\ input \in [Indices -> Elements] /\ base = input
  /\ arg \in Args
  /\ i = 0 /\ j = 1
  /\ key \in Elements
  /\ lo = 0 /\ hi = 0 /\ element = -1

bsearch ==
  /\ pc \in {"sorted", "returned"}
  /\ key' \in Elements
  /\ lo' = 0 /\ hi' = count
  /\ element' = -1
  /\ pc' = "search"
  /\ UNCHANGED sortvars

\* Mutation: the half below the middle leaves out one element too many.
below_drops_one(mid) == hi' = mid - 1 /\ UNCHANGED <<lo, element, pc>>

\* Mutation: a match returns the index in the half.
match_is_relative(mid) == element' = mid - lo /\ pc' = "returned" /\ UNCHANGED <<lo, hi>>

below(mid) == hi' = mid /\ UNCHANGED <<lo, element, pc>>
above(mid) == lo' = mid + 1 /\ UNCHANGED <<hi, element, pc>>
match(mid) == element' = mid /\ pc' = "returned" /\ UNCHANGED <<lo, hi>>

bsearch_step ==
  /\ pc = "search" /\ lo < hi
  /\ LET mid == lo + (hi - lo) \div 2
         res == compare(key, base[mid], arg)
     IN \/ res < 0 /\ below(mid)
        \/ res > 0 /\ above(mid)
        \/ res = 0 /\ match(mid)
  /\ UNCHANGED <<sortvars, key>>

bsearch_return ==
  /\ pc = "search" /\ lo >= hi
  /\ pc' = "returned"
  /\ UNCHANGED <<sortvars, key, lo, hi, element>>

Next ==
  \/ qsort_r /\ UNCHANGED <<key, lo, hi, element>>
  \/ bsearch \/ bsearch_step \/ bsearch_return

Spec == Init /\ [][Next]_vars

-----------------------------------------------------------------------------
(* Properties *)

matches(m) == compare(key, base[m], arg) = 0

\* qsort has left the array in order, with the elements that it was given.
SortedPermutation == pc # "sort" => Sorted /\ Permutes

\* The comment in bsearch, "Element is in the interval [i, j)", and the __ensure before
\* its last return: the bounds never cross, and whatever matches the key is in the part
\* of the array that the search still looks at.
ElementInInterval ==
  pc = "search" => lo <= hi /\ \A m \in Indices : matches(m) => lo <= m /\ m < hi

\* bsearch returns an element that matches the key, and NULL only if none does.
FoundIffPresent ==
  pc = "returned" =>
    IF element = -1 THEN \A m \in Indices : ~matches(m)
                    ELSE element \in Indices /\ matches(element)

=============================================================================
