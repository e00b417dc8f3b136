-------------------------------- MODULE Sort --------------------------------
(***************************************************************************)
(* qsort_r of the C library (mlibc-salernos/stdlib.patched.cpp): two loops *)
(* that exchange an element with every later one that belongs before it.   *)
(* An element is a value; the exchange byte by byte is one assignment.     *)
(* What calls qsort decides what base, count and arg are.                  *)
(***************************************************************************)
EXTENDS Integers

CONSTANTS
  Elements,          \* what an array may hold
  Args,              \* what the caller may pass as arg
  compare(_, _, _)   \* the caller's comparison of two elements under arg

le(u, v, a) == compare(u, v, a) <= 0

\* compare is what a caller owes to qsort: a sign that orders the elements.
ASSUME CompareAssumption ==
  \A a \in Args : \A u, v \in Elements :
    /\ compare(u, v, a) \in Int
    /\ compare(u, v, a) > 0 <=> compare(v, u, a) < 0
    /\ \A w \in Elements : le(u, v, a) /\ le(v, w, a) => le(u, w, a)

VARIABLES
  pc,
  base, count,  \* the array and its length
  input,        \* the array when qsort was called
  arg,
  i, j          \* the two loops' counters

sortvars == <<base, count, input, arg, i, j>>

Indices == 0..(count - 1)

swap(b, m, n) == [b EXCEPT ![m] = b[n], ![n] = b[m]]

\* Mutation: the inner loop skips the element after u.
qsort_starts_late ==
  /\ pc = "sort" /\ i < count /\ j >= count
  /\ i' = i + 1 /\ j' = i + 3
  /\ UNCHANGED <<pc, base, count, input, arg>>

qsort_outer ==
  /\ pc = "sort" /\ i < count /\ j >= count
  /\ i' = i + 1 /\ j' = i + 2
  /\ UNCHANGED <<pc, base, count, input, arg>>

qsort_inner ==
  /\ pc = "sort" /\ i < count /\ j < count
  /\ base' = IF le(base[i], base[j], arg) THEN base ELSE swap(base, i, j)
  /\ j' = j + 1
  /\ UNCHANGED <<pc, count, input, arg, i>>

qsort_return ==
  /\ pc = "sort" /\ i >= count
  /\ pc' = "sorted"
  /\ UNCHANGED sortvars

qsort_r == qsort_inner \/ qsort_outer \/ qsort_return

Sorted == \A m, n \in Indices : m <= n => le(base[m], base[n], arg)

\* base holds the elements of input, each as often as input does.
Permutes ==
  \E f \in [Indices -> Indices] :
    /\ \A m, n \in Indices : f[m] = f[n] => m = n
    /\ \A m \in Indices : base[m] = input[f[m]]

=============================================================================
