---------------------------- MODULE SearchProofs ----------------------------
(***************************************************************************)
(* qsort sorts and bsearch finds, for arrays of every length, every set of *)
(* elements and every comparison that orders them; kprofile, whose own     *)
(* comparisons are shown to be such, prints whole tables in order.         *)
(*                                                                         *)
(* What the loops of qsort do to an array is proved first, as lemmas about *)
(* arrays and relations.  The steps of the two specifications, Search's    *)
(* and Kprofile's, follow from them.                                       *)
(***************************************************************************)
EXTENDS Search, Kprofile, Sequences, TLAPS

-----------------------------------------------------------------------------
(* Sorting an array of n elements with a relation that orders them *)

Array(n, E) == [0..(n - 1) -> E]

\* R holds one way or the other, and from one to the next.
Orders(R, E) ==
  \A u, v \in E : /\ <<u, v>> \in R \/ <<v, u>> \in R
                  /\ \A w \in E : <<u, v>> \in R /\ <<v, w>> \in R => <<u, w>> \in R

\* What is before x is in order and below all the rest, and the element at x is below
\* those that the inner loop has passed.
Selected(b, n, R, x, y) ==
  /\ \A k, l \in 0..(n - 1) : k < x /\ k <= l => <<b[k], b[l]>> \in R
  /\ \A l \in 0..(n - 1) : x <= l /\ l < y => <<b[x], b[l]>> \in R

InOrderBy(b, n, R) == \A k, l \in 0..(n - 1) : k <= l => <<b[k], b[l]>> \in R

\* b holds the elements of a, each as often as a does.
Rearranged(b, a, n) ==
  \E f \in [0..(n - 1) -> 0..(n - 1)] :
    /\ \A k, l \in 0..(n - 1) : f[k] = f[l] => k = l
    /\ \A k \in 0..(n - 1) : b[k] = a[f[k]]

\* The loops begin with nothing in order.
LEMMA SortBegins ==
  ASSUME NEW E, NEW R, Orders(R, E), NEW n \in Nat, NEW b \in Array(n, E)
  PROVE  Selected(b, n, R, 0, 1) /\ Rearranged(b, b, n)
<1>1. Selected(b, n, R, 0, 1)
  <2>1. \A l \in 0..(n - 1) : 0 <= l /\ l < 1 => l = 0 /\ b[0] \in E
    BY DEF Array
  <2>2. \A u \in E : <<u, u>> \in R
    BY DEF Orders
  <2>3. \A k \in 0..(n - 1) : ~(k < 0)
    OBVIOUS
  <2> QED
    BY <2>1, <2>2, <2>3 DEF Selected
<1>2. Rearranged(b, b, n)
  <2> DEFINE f == [k \in 0..(n - 1) |-> k]
  <2>1. /\ f \in [0..(n - 1) -> 0..(n - 1)]
        /\ \A k, l \in 0..(n - 1) : f[k] = f[l] => k = l
        /\ \A k \in 0..(n - 1) : b[k] = b[f[k]]
    OBVIOUS
  <2> HIDE DEF f
  <2> QED
    BY <2>1 DEF Rearranged
<1> QED
  BY <1>1, <1>2

\* The inner loop leaves the lesser of two elements at x (the swap of qsort_r).
LEMMA InnerSorts ==
  ASSUME NEW E, NEW R, Orders(R, E), NEW n \in Nat, NEW b \in Array(n, E),
         NEW x \in 0..(n - 1), NEW y \in 0..(n - 1), x < y,
         Selected(b, n, R, x, y),
         NEW c, c = IF <<b[x], b[y]>> \in R THEN b ELSE swap(b, x, y)
  PROVE  c \in Array(n, E) /\ Selected(c, n, R, x, y + 1)
<1>1. /\ b[x] \in E /\ b[y] \in E
      /\ \A l \in 0..(n - 1) : x <= l /\ l < y => <<b[x], b[l]>> \in R
  BY DEF Array, Selected
<1>2. CASE <<b[x], b[y]>> \in R
  <2>1. \A l \in 0..(n - 1) : x <= l /\ l < y + 1 => <<b[x], b[l]>> \in R
    BY <1>1, <1>2
  <2> QED
    BY <1>2, <2>1 DEF Selected
<1>3. CASE <<b[x], b[y]>> \notin R
  <2>1. /\ c \in Array(n, E) /\ c[x] = b[y] /\ c[y] = b[x]
        /\ \A l \in 0..(n - 1) : l # x /\ l # y => c[l] = b[l]
    BY <1>1, <1>3 DEF swap, Array
  <2>2. <<b[y], b[x]>> \in R /\ <<b[y], b[y]>> \in R
    BY <1>1, <1>3 DEF Orders
  <2>3. ASSUME NEW k \in 0..(n - 1), NEW l \in 0..(n - 1), k < x, k <= l
        PROVE  <<c[k], c[l]>> \in R
    <3>1. c[k] = b[k]
      BY <2>1, <2>3
    <3>2. <<b[k], b[x]>> \in R /\ <<b[k], b[y]>> \in R /\ <<b[k], b[l]>> \in R
      BY <2>3 DEF Selected
    <3> QED
      BY <2>1, <3>1, <3>2
  <2>4. ASSUME NEW l \in 0..(n - 1), x <= l, l < y + 1
        PROVE  <<c[x], c[l]>> \in R
    <3>1. CASE l = x \/ l = y
      BY <2>1, <2>2, <3>1
    <3>2. CASE l # x /\ l # y
      <4>1. <<b[x], b[l]>> \in R /\ b[l] \in E
        BY <1>1, <2>4, <3>2 DEF Array
      <4>2. <<b[y], b[l]>> \in R
        BY <1>1, <2>2, <4>1 DEF Orders
      <4> QED
        BY <2>1, <3>2, <4>2
    <3> QED
      BY <3>1, <3>2
  <2> QED
    BY <2>1, <2>3, <2>4 DEF Selected
<1> QED
  BY <1>2, <1>3

\* A swap keeps the array a rearrangement.
LEMMA SwapRearranges ==
  ASSUME NEW n \in Nat, NEW E, NEW b \in Array(n, E), NEW a, Rearranged(b, a, n),
         NEW x \in 0..(n - 1), NEW y \in 0..(n - 1), x # y
  PROVE  Rearranged(swap(b, x, y), a, n)
<1> DEFINE D == 0..(n - 1)
<1>0. x \in D /\ y \in D /\ b \in [D -> E]
  BY DEF Array
<1>1. PICK f \in [D -> D] :
        /\ \A k, l \in D : f[k] = f[l] => k = l
        /\ \A k \in D : b[k] = a[f[k]]
  BY DEF Rearranged
<1> DEFINE g == [f EXCEPT ![x] = f[y], ![y] = f[x]]
<1>q. Rearranged(swap(b, x, y), a, n) <=>
        \E h \in [D -> D] : /\ \A k, l \in D : h[k] = h[l] => k = l
                            /\ \A k \in D : swap(b, x, y)[k] = a[h[k]]
  BY DEF Rearranged
<1> HIDE DEF D
<1>2. g \in [D -> D]
  BY <1>0, <1>1
<1>3. \A k, l \in D : g[k] = g[l] => k = l
  BY <1>0, <1>1
<1>4. \A k \in D : swap(b, x, y)[k] = a[g[k]]
  BY <1>0, <1>1 DEF swap
<1> HIDE DEF g
<1> QED
  BY <1>2, <1>3, <1>4, <1>q

\* The outer loop goes on when the element at x has met all the others.
LEMMA OuterSorts ==
  ASSUME NEW E, NEW R, Orders(R, E), NEW n \in Nat, NEW b \in Array(n, E),
         NEW x \in 0..(n - 1), NEW y \in Nat, y >= n, Selected(b, n, R, x, y)
  PROVE  Selected(b, n, R, x + 1, x + 2)
<1>1. /\ \A k, l \in 0..(n - 1) : k < x /\ k <= l => <<b[k], b[l]>> \in R
      /\ \A l \in 0..(n - 1) : x <= l => <<b[x], b[l]>> \in R
  BY DEF Selected
<1>2. \A k, l \in 0..(n - 1) : k < x + 1 /\ k <= l => <<b[k], b[l]>> \in R
  BY <1>1
<1>3. \A l \in 0..(n - 1) : x + 1 <= l /\ l < x + 2 => l = x + 1 /\ b[l] \in E
  BY DEF Array
<1>4. \A l \in 0..(n - 1) : x + 1 <= l /\ l < x + 2 => <<b[x + 1], b[l]>> \in R
  BY <1>3 DEF Orders
<1> QED
  BY <1>2, <1>4 DEF Selected

\* When it ends, everything is in order.
LEMMA SortEnds ==
  ASSUME NEW n \in Nat, NEW b, NEW R, NEW x \in Nat, x >= n, NEW y, Selected(b, n, R, x, y)
  PROVE  InOrderBy(b, n, R)
BY DEF Selected, InOrderBy

-----------------------------------------------------------------------------
(* bsearch after qsort *)

\* The pairs that the comparison has in order.
order == {q \in Elements \X Elements : le(q[1], q[2], arg)}

\* While qsort runs, its loops are where Selected says.
PrefixSorted == pc = "sort" => j >= i + 1 /\ Selected(base, count, order, i, j)

InOrder == pc # "sort" => Sorted

\* Until bsearch returns a match, it has NULL to return.
SearchNull == pc # "returned" => element = -1

\* The inductive invariant.
SearchInv ==
  /\ SearchTypeOK
  /\ Permutes
  /\ PrefixSorted
  /\ InOrder
  /\ SearchNull
  /\ ElementInInterval
  /\ FoundIffPresent

-----------------------------------------------------------------------------
(* The comparison *)

\* What CompareAssumption says of three elements.
LEMMA Ordered ==
  ASSUME NEW a \in Args, NEW u \in Elements, NEW v \in Elements, NEW w \in Elements
  PROVE  /\ compare(u, v, a) \in Int
         /\ compare(u, v, a) > 0 <=> compare(v, u, a) < 0
         /\ le(u, v, a) /\ le(v, w, a) => le(u, w, a)
BY CompareAssumption

\* An element is not above itself; of two that are out of order the other way round is
\* in order (the swap of qsort_r).
LEMMA Total ==
  ASSUME NEW a \in Args, NEW u \in Elements, NEW v \in Elements
  PROVE  /\ le(u, u, a)
         /\ ~le(u, v, a) => le(v, u, a)
<1>1. /\ compare(u, v, a) \in Int /\ compare(v, u, a) \in Int /\ compare(u, u, a) \in Int
      /\ compare(u, v, a) > 0 <=> compare(v, u, a) < 0
      /\ compare(u, u, a) > 0 <=> compare(u, u, a) < 0
  BY CompareAssumption
<1> QED
  BY <1>1 DEF le

\* So the relation is one that the loops can sort by.
LEMMA CompareOrders ==
  ASSUME arg \in Args
  PROVE  /\ Orders(order, Elements)
         /\ \A u, v \in Elements : <<u, v>> \in order <=> le(u, v, arg)
<1>1. \A u, v \in Elements : <<u, v>> \in order <=> le(u, v, arg)
  BY DEF order
<1>2. \A u, v \in Elements : le(u, v, arg) \/ le(v, u, arg)
  BY Total
<1>3. \A u, v, w \in Elements : le(u, v, arg) /\ le(v, w, arg) => le(u, w, arg)
  BY Ordered
<1> QED
  BY <1>1, <1>2, <1>3 DEF Orders

\* What matches the key is not above anything that is above the key, nor below anything
\* that is below it: the half that bsearch leaves out holds no match.
LEMMA HalfHasNoMatch ==
  ASSUME NEW a \in Args, NEW k \in Elements, NEW u \in Elements, NEW v \in Elements,
         compare(k, v, a) = 0
  PROVE  /\ compare(k, u, a) < 0 => ~le(u, v, a)
         /\ compare(k, u, a) > 0 => ~le(v, u, a)
<1>1. /\ compare(k, u, a) \in Int /\ compare(u, k, a) \in Int
      /\ compare(k, v, a) \in Int /\ compare(v, k, a) \in Int
  BY CompareAssumption
<1>2. /\ compare(u, k, a) > 0 <=> compare(k, u, a) < 0
      /\ compare(k, u, a) > 0 <=> compare(u, k, a) < 0
      /\ compare(v, k, a) > 0 <=> compare(k, v, a) < 0
      /\ compare(k, v, a) > 0 <=> compare(v, k, a) < 0
  BY CompareAssumption
<1>3. le(k, v, a) /\ le(v, k, a)
  BY <1>1, <1>2 DEF le
<1>4. /\ le(u, v, a) /\ le(v, k, a) => le(u, k, a)
      /\ le(k, v, a) /\ le(v, u, a) => le(k, u, a)
  BY CompareAssumption
<1> QED
  BY <1>1, <1>2, <1>3, <1>4 DEF le

-----------------------------------------------------------------------------
(* Each action keeps the invariant *)

LEMMA InitHolds == Init => SearchInv
<1> SUFFICES ASSUME Init PROVE SearchInv
  OBVIOUS
<1>1. SearchTypeOK
  BY SearchAssumption DEF Init, SearchTypeOK, Indices
<1>2. /\ count \in Nat /\ base \in Array(count, Elements) /\ input = base /\ arg \in Args
      /\ pc = "sort" /\ i = 0 /\ j = 1
  BY <1>1 DEF Init, SearchTypeOK, Indices, Array
<1>3. Selected(base, count, order, 0, 1) /\ Rearranged(base, base, count)
  BY <1>2, CompareOrders, SortBegins
<1>4. PrefixSorted /\ Permutes
  BY <1>2, <1>3 DEF PrefixSorted, Permutes, Rearranged, Indices
<1> QED
  BY <1>1, <1>4 DEF Init, SearchInv, InOrder, SearchNull, ElementInInterval, FoundIffPresent

\* The inner loop of qsort_r: the one step that changes the array.
LEMMA InnerKeeps ==
  ASSUME SearchInv, qsort_inner, UNCHANGED <<key, lo, hi, element>>
  PROVE  SearchInv'
<1>1. /\ pc = "sort" /\ pc' = "sort" /\ i < count /\ j < count /\ j' = j + 1
      /\ i' = i /\ count' = count /\ input' = input /\ arg' = arg
      /\ base' = IF le(base[i], base[j], arg) THEN base ELSE swap(base, i, j)
  BY DEF qsort_inner
<1>2. /\ count \in Nat /\ i \in Nat /\ j \in Nat /\ arg \in Args
      /\ base \in Array(count, Elements) /\ j >= i + 1 /\ Indices' = Indices
      /\ Selected(base, count, order, i, j)
  BY <1>1 DEF SearchInv, SearchTypeOK, PrefixSorted, Indices, Array
<1>3. i \in 0..(count - 1) /\ j \in 0..(count - 1) /\ i < j /\ i # j
  BY <1>1, <1>2
<1>4. base[i] \in Elements /\ base[j] \in Elements
  BY <1>2, <1>3 DEF Array
<1>5. Orders(order, Elements) /\ (<<base[i], base[j]>> \in order <=> le(base[i], base[j], arg))
  BY <1>2, <1>4, CompareOrders
<1>6. base' \in Array(count, Elements) /\ Selected(base', count, order, i, j + 1)
  BY <1>1, <1>2, <1>3, <1>5, InnerSorts
<1>7. Permutes'
  <2>1. Rearranged(base, input, count)
    BY DEF SearchInv, Permutes, Rearranged, Indices
  <2>2. Rearranged(base', input, count)
    BY <1>1, <1>2, <1>3, <2>1, SwapRearranges
  <2> QED
    BY <1>1, <2>2 DEF Permutes, Rearranged, Indices
<1>8. SearchTypeOK'
  BY <1>1, <1>2, <1>6 DEF SearchInv, SearchTypeOK, Array, Indices
<1>9. PrefixSorted'
  BY <1>1, <1>2, <1>6 DEF PrefixSorted, order
<1> QED
  BY <1>1, <1>7, <1>8, <1>9 DEF SearchInv, InOrder, SearchNull, ElementInInterval, FoundIffPresent

\* The outer loop of qsort_r: the element at i has met all the others.
LEMMA OuterKeeps ==
  ASSUME SearchInv, qsort_outer, UNCHANGED <<key, lo, hi, element>>
  PROVE  SearchInv'
<1>1. /\ pc = "sort" /\ pc' = "sort" /\ i < count /\ j >= count /\ i' = i + 1 /\ j' = i + 2
      /\ UNCHANGED <<base, count, input, arg>>
  BY DEF qsort_outer
<1>2. /\ count \in Nat /\ i \in Nat /\ j \in Nat /\ arg \in Args
      /\ base \in Array(count, Elements) /\ Indices' = Indices
      /\ Selected(base, count, order, i, j)
  BY <1>1 DEF SearchInv, SearchTypeOK, PrefixSorted, Indices, Array
<1>3. SearchTypeOK' /\ Permutes'
  BY <1>1, <1>2 DEF SearchInv, SearchTypeOK, Permutes
<1>4. Selected(base, count, order, i + 1, i + 2)
  <2>1. i \in 0..(count - 1) /\ Orders(order, Elements)
    BY <1>1, <1>2, CompareOrders
  <2> QED
    BY <1>1, <1>2, <2>1, OuterSorts
<1>5. PrefixSorted'
  BY <1>1, <1>2, <1>4 DEF PrefixSorted, order
<1> QED
  BY <1>1, <1>3, <1>5 DEF SearchInv, InOrder, SearchNull, ElementInInterval, FoundIffPresent

LEMMA ReturnKeeps ==
  ASSUME SearchInv, qsort_return, UNCHANGED <<key, lo, hi, element>>
  PROVE  SearchInv'
<1>1. /\ pc = "sort" /\ pc' = "sorted" /\ i >= count
      /\ UNCHANGED <<base, count, input, arg, i, j, key, lo, hi, element>>
  BY DEF qsort_return, sortvars
<1>2. /\ count \in Nat /\ i \in Nat /\ Indices' = Indices /\ arg \in Args
      /\ base \in Array(count, Elements) /\ Selected(base, count, order, i, j)
  BY <1>1 DEF SearchInv, SearchTypeOK, PrefixSorted, Indices, Array
<1>3. Sorted'
  <2>1. InOrderBy(base, count, order)
    BY <1>1, <1>2, SortEnds
  <2>2. \A m \in Indices : base[m] \in Elements
    BY <1>2 DEF Array, Indices
  <2> QED
    BY <1>1, <1>2, <2>1, <2>2, CompareOrders DEF InOrderBy, Sorted, Indices
<1> QED
  BY <1>1, <1>2, <1>3
     DEF SearchInv, SearchTypeOK, Permutes, PrefixSorted, InOrder, SearchNull, ElementInInterval, FoundIffPresent

\* A step of bsearch leaves out a half without a match, or returns a match.
LEMMA StepKeeps ==
  ASSUME SearchInv, bsearch_step
  PROVE  SearchInv'
<1> DEFINE mid == lo + (hi - lo) \div 2
           res == compare(key, base[mid], arg)
<1>1. /\ pc = "search" /\ lo < hi /\ UNCHANGED <<base, count, input, arg, i, j, key>>
      /\ \/ res < 0 /\ below(mid)
         \/ res > 0 /\ above(mid)
         \/ res = 0 /\ match(mid)
  BY DEF bsearch_step, sortvars
<1>2. /\ count \in Nat /\ lo \in 0..count /\ hi \in 0..count /\ arg \in Args /\ key \in Elements
      /\ base \in [Indices -> Elements] /\ Indices' = Indices
  BY <1>1 DEF SearchInv, SearchTypeOK, Indices
<1>3. mid \in Indices /\ lo <= mid /\ mid < hi
  BY <1>1, <1>2 DEF Indices
<1>4. base[mid] \in Elements
  BY <1>2, <1>3
<1>5. /\ \A m, n \in Indices : m <= n => le(base[m], base[n], arg)
      /\ \A m \in Indices : compare(key, base[m], arg) = 0 => lo <= m /\ m < hi
  BY <1>1 DEF SearchInv, InOrder, Sorted, ElementInInterval, matches
<1>6. Permutes' /\ Sorted'
  BY <1>1, <1>2 DEF SearchInv, Permutes, InOrder, Sorted
<1>7. res \in Int
  BY <1>2, <1>4, Ordered
<1> HIDE DEF mid
<1>8. CASE res < 0 /\ below(mid)
  <2>1. pc' = "search" /\ lo' = lo /\ hi' = mid /\ element' = element
    BY <1>1, <1>8 DEF below
  <2>2. ASSUME NEW m \in Indices, compare(key, base[m], arg) = 0
        PROVE  lo <= m /\ m < mid
    <3>1. base[m] \in Elements
      BY <1>2
    <3>2. ~le(base[mid], base[m], arg)
      BY <1>2, <1>4, <1>8, <2>2, <3>1, HalfHasNoMatch
    <3> QED
      BY <1>2, <1>3, <1>5, <2>2, <3>2 DEF Indices
  <2>3. ElementInInterval'
    BY <1>1, <1>2, <1>3, <2>1, <2>2 DEF ElementInInterval, matches
  <2>4. SearchTypeOK'
    BY <1>1, <1>2, <1>3, <2>1 DEF SearchInv, SearchTypeOK, Indices
  <2> QED
    BY <1>1, <1>6, <2>1, <2>3, <2>4 DEF SearchInv, PrefixSorted, InOrder, SearchNull, FoundIffPresent
<1>9. CASE res > 0 /\ above(mid)
  <2>1. pc' = "search" /\ lo' = mid + 1 /\ hi' = hi /\ element' = element
    BY <1>1, <1>9 DEF above
  <2>2. ASSUME NEW m \in Indices, compare(key, base[m], arg) = 0
        PROVE  mid + 1 <= m /\ m < hi
    <3>1. base[m] \in Elements
      BY <1>2
    <3>2. ~le(base[m], base[mid], arg)
      BY <1>2, <1>4, <1>9, <2>2, <3>1, HalfHasNoMatch
    <3> QED
      BY <1>2, <1>3, <1>5, <2>2, <3>2 DEF Indices
  <2>3. mid + 1 \in 0..count /\ mid + 1 <= hi
    BY <1>2, <1>3 DEF Indices
  <2>4. ElementInInterval'
    BY <1>1, <1>2, <2>1, <2>2, <2>3 DEF ElementInInterval, matches
  <2>5. SearchTypeOK'
    BY <1>1, <1>2, <2>1, <2>3 DEF SearchInv, SearchTypeOK
  <2> QED
    BY <1>1, <1>6, <2>1, <2>4, <2>5 DEF SearchInv, PrefixSorted, InOrder, SearchNull, FoundIffPresent
<1>10. CASE res = 0 /\ match(mid)
  <2>1. pc' = "returned" /\ lo' = lo /\ hi' = hi /\ element' = mid
    BY <1>10 DEF match
  <2>2. FoundIffPresent'
    BY <1>1, <1>2, <1>3, <1>10, <2>1 DEF FoundIffPresent, matches, Indices
  <2>3. SearchTypeOK'
    BY <1>1, <1>2, <1>3, <2>1 DEF SearchInv, SearchTypeOK, Indices
  <2> QED
    BY <1>6, <2>1, <2>2, <2>3 DEF SearchInv, PrefixSorted, InOrder, SearchNull, ElementInInterval
<1> QED
  BY <1>1, <1>8, <1>9, <1>10

\* bsearch begins with the whole array and ends with an empty part of it.
LEMMA SearchBoundsKeep ==
  ASSUME SearchInv, bsearch \/ bsearch_return
  PROVE  SearchInv'
<1>1. UNCHANGED <<base, count, input, arg, i, j>> /\ pc # "sort" /\ pc' # "sort"
  BY DEF bsearch, bsearch_return, sortvars
<1>2. /\ count \in Nat /\ base \in [Indices -> Elements] /\ Indices' = Indices
      /\ lo \in 0..count /\ hi \in 0..count
  BY <1>1 DEF SearchInv, SearchTypeOK, Indices
<1>3. Permutes' /\ InOrder' /\ PrefixSorted'
  BY <1>1, <1>2 DEF SearchInv, Permutes, InOrder, Sorted, PrefixSorted
<1>4. CASE bsearch
  <2>1. SearchTypeOK'
    BY <1>1, <1>2, <1>4 DEF SearchInv, SearchTypeOK, bsearch
  <2>2. lo' = 0 /\ hi' = count /\ element' = -1 /\ pc' = "search"
    BY <1>4 DEF bsearch
  <2>3. \A m \in Indices : 0 <= m /\ m < count
    BY <1>2 DEF Indices
  <2>4. ElementInInterval'
    BY <1>2, <2>2, <2>3 DEF ElementInInterval
  <2> QED
    BY <1>3, <2>1, <2>2, <2>4 DEF SearchInv, SearchNull, FoundIffPresent
<1>5. CASE bsearch_return
  <2>1. SearchTypeOK'
    BY <1>1, <1>2, <1>5 DEF SearchInv, SearchTypeOK, bsearch_return
  <2>2. \A m \in Indices : ~matches(m)
    BY <1>2, <1>5 DEF SearchInv, ElementInInterval, bsearch_return, Indices
  <2>3. element = -1
    BY <1>5 DEF SearchInv, SearchNull, bsearch_return
  <2> QED
    BY <1>1, <1>2, <1>3, <1>5, <2>1, <2>2, <2>3
       DEF SearchInv, bsearch_return, SearchNull, ElementInInterval, FoundIffPresent, matches
<1> QED
  BY <1>4, <1>5

-----------------------------------------------------------------------------
(* The theorems about the library *)

LEMMA SearchInvariant == Spec => []SearchInv
<1>1. SearchInv /\ [Next]_vars => SearchInv'
  <2> SUFFICES ASSUME SearchInv, [Next]_vars PROVE SearchInv'
    OBVIOUS
  <2>1. CASE qsort_r /\ UNCHANGED <<key, lo, hi, element>>
    BY <2>1, InnerKeeps, OuterKeeps, ReturnKeeps DEF qsort_r
  <2>2. CASE bsearch \/ bsearch_return
    BY <2>2, SearchBoundsKeep
  <2>3. CASE bsearch_step
    BY <2>3, StepKeeps
  <2>4. CASE UNCHANGED vars
    BY <2>4 DEF vars, SearchInv, SearchNull, SearchTypeOK, Permutes, PrefixSorted, InOrder, Sorted,
                order, ElementInInterval, FoundIffPresent, matches, Indices
  <2> QED
    BY <2>1, <2>2, <2>3, <2>4 DEF Next
<1> QED
  BY InitHolds, <1>1, PTL DEF Spec

\* The indices, counters and bounds of qsort_r and bsearch stay in the array.
THEOREM SearchTypeCorrect == Spec => []SearchTypeOK
<1>1. SearchInv => SearchTypeOK
  BY DEF SearchInv
<1> QED
  BY SearchInvariant, <1>1, PTL

\* qsort leaves an ordered permutation of what it was given, for every comparison that
\* orders the elements (qsort_r).
THEOREM QsortSorts == Spec => []SortedPermutation
<1>1. SearchInv => SortedPermutation
  BY DEF SearchInv, InOrder, SortedPermutation
<1> QED
  BY SearchInvariant, <1>1, PTL

\* The invariant that the comment in bsearch states.
THEOREM BsearchInterval == Spec => []ElementInInterval
<1>1. SearchInv => ElementInInterval
  BY DEF SearchInv
<1> QED
  BY SearchInvariant, <1>1, PTL

\* bsearch returns a match if there is one, and NULL only if there is none.
THEOREM BsearchFinds == Spec => []FoundIffPresent
<1>1. SearchInv => FoundIffPresent
  BY DEF SearchInv
<1> QED
  BY SearchInvariant, <1>1, PTL

-----------------------------------------------------------------------------
(* kprofile *)

\* The column that an option sorts by.
value(row, o) ==
  [by_real |-> row.real_time_ns, by_cpu |-> row.cpu_time_ns, by_calls |-> row.num_calls,
   by_ratio |-> shown_ratio(row)][o]

\* For all but the ratio, the comparison is that of the column.
LEMMA ColumnCompared ==
  ASSUME ProfileOK, NEW a \in Options, a # "by_ratio", NEW u \in Rows, NEW v \in Rows
  PROVE  /\ qsort_callback(u, v, a) = descending(value(u, a), value(v, a))
         /\ value(u, a) \in Nat /\ value(v, a) \in Nat
<1>1. CASE a = "by_real"
  BY <1>1 DEF qsort_callback, comparator_real, value, ProfileOK
<1>2. CASE a = "by_cpu"
  BY <1>2 DEF qsort_callback, comparator_cpu, value, ProfileOK
<1>3. CASE a = "by_calls"
  BY <1>3 DEF qsort_callback, comparator_calls, value, ProfileOK
<1> QED
  BY <1>1, <1>2, <1>3 DEF Options

\* comparator_ratio: rows that have calls are in the order of what is shown, and come
\* before those that have none.
LEMMA RatioCompared ==
  ASSUME ProfileOK, NEW u \in Rows, NEW v \in Rows
  PROVE  /\ comparator_ratio(u, v) \in Int
         /\ comparator_ratio(u, v) > 0 <=> comparator_ratio(v, u) < 0
         /\ comparator_ratio(u, v) <= 0 <=>
              \/ v.num_calls = 0
              \/ u.num_calls # 0 /\ shown_ratio(u) >= shown_ratio(v)
         /\ shown_ratio(u) \in Nat
         /\ u.num_calls = 0 => shown_ratio(u) = 0
<1>1. /\ u.num_calls \in Nat /\ v.num_calls \in Nat
      /\ u.num_calls # 0 => p(u) \in Nat
      /\ v.num_calls # 0 => p(v) \in Nat
  BY DEF ProfileOK, p
<1>2. shown_ratio(u) \in Nat /\ (u.num_calls = 0 => shown_ratio(u) = 0)
  BY <1>1 DEF shown_ratio
<1>3. CASE u.num_calls = 0 \/ v.num_calls = 0
  <2>1. /\ comparator_ratio(u, v) = descending(u.num_calls, v.num_calls)
        /\ comparator_ratio(v, u) = descending(v.num_calls, u.num_calls)
    BY <1>3 DEF comparator_ratio
  <2>2. v.num_calls = 0 \/ (u.num_calls # 0 /\ shown_ratio(u) >= shown_ratio(v))
           <=> u.num_calls >= v.num_calls
    BY <1>1, <1>3
  <2>3. /\ descending(u.num_calls, v.num_calls) \in Int
        /\ (descending(u.num_calls, v.num_calls) > 0)
              <=> (descending(v.num_calls, u.num_calls) < 0)
        /\ (descending(u.num_calls, v.num_calls) <= 0) <=> (u.num_calls >= v.num_calls)
    BY <1>1 DEF descending
  <2>4. comparator_ratio(u, v) \in Int
    BY <2>1, <2>3
  <2>5. (comparator_ratio(u, v) > 0) <=> (comparator_ratio(v, u) < 0)
    BY <2>1, <2>3
  <2>6. (comparator_ratio(u, v) <= 0) <=> (u.num_calls >= v.num_calls)
    BY <2>1, <2>3
  <2> QED
    BY <1>2, <2>2, <2>4, <2>5, <2>6
<1>4. CASE u.num_calls # 0 /\ v.num_calls # 0
  <2>1. /\ comparator_ratio(u, v) = descending(p(u), p(v))
        /\ comparator_ratio(v, u) = descending(p(v), p(u))
        /\ shown_ratio(u) = p(u) /\ shown_ratio(v) = p(v)
    BY <1>4 DEF comparator_ratio, shown_ratio
  <2>2. /\ descending(p(u), p(v)) \in Int
        /\ (descending(p(u), p(v)) > 0) <=> (descending(p(v), p(u)) < 0)
        /\ (descending(p(u), p(v)) <= 0) <=> (p(u) >= p(v))
    BY <1>1, <1>4 DEF descending
  <2> QED
    BY <1>2, <1>4, <2>1, <2>2
<1> QED
  BY <1>3, <1>4

\* What le says of two rows: the column does not rise, and for the ratio a row with calls
\* is not below one without.
LEMMA RowsCompared ==
  ASSUME ProfileOK, NEW a \in Options, NEW u \in Rows, NEW v \in Rows
  PROVE  /\ qsort_callback(u, v, a) \in Int
         /\ (qsort_callback(u, v, a) > 0) <=> (qsort_callback(v, u, a) < 0)
         /\ value(u, a) \in Nat
         /\ Q!le(u, v, a) <=>
              /\ value(u, a) >= value(v, a)
              /\ a = "by_ratio" => v.num_calls = 0 \/ u.num_calls # 0
<1>1. CASE a # "by_ratio"
  <2>1. /\ qsort_callback(u, v, a) = descending(value(u, a), value(v, a))
        /\ qsort_callback(v, u, a) = descending(value(v, a), value(u, a))
        /\ value(u, a) \in Nat /\ value(v, a) \in Nat
    BY <1>1, ColumnCompared
  <2>2. /\ descending(value(u, a), value(v, a)) \in Int
        /\ (descending(value(u, a), value(v, a)) > 0) <=> (descending(value(v, a), value(u, a)) < 0)
        /\ (descending(value(u, a), value(v, a)) <= 0) <=> (value(u, a) >= value(v, a))
    BY <2>1 DEF descending
  <2>3. Q!le(u, v, a) <=> (value(u, a) >= value(v, a))
    BY <2>1, <2>2 DEF Q!le
  <2> QED
    BY <1>1, <2>1, <2>2, <2>3
<1>2. CASE a = "by_ratio"
  <2>1. /\ qsort_callback(u, v, a) = comparator_ratio(u, v)
        /\ qsort_callback(v, u, a) = comparator_ratio(v, u)
        /\ value(u, a) = shown_ratio(u) /\ value(v, a) = shown_ratio(v)
    BY <1>2 DEF qsort_callback, value
  <2>2. /\ comparator_ratio(u, v) \in Int
        /\ (comparator_ratio(u, v) > 0) <=> (comparator_ratio(v, u) < 0)
        /\ shown_ratio(u) \in Nat /\ shown_ratio(v) \in Nat
        /\ v.num_calls = 0 => shown_ratio(v) = 0
    BY RatioCompared
  <2>3. (comparator_ratio(u, v) <= 0) <=>
           (v.num_calls = 0 \/ (u.num_calls # 0 /\ shown_ratio(u) >= shown_ratio(v)))
    BY RatioCompared
  <2>4. Q!le(u, v, a) <=>
          (v.num_calls = 0 \/ (u.num_calls # 0 /\ shown_ratio(u) >= shown_ratio(v)))
    BY <2>1, <2>3 DEF Q!le
  <2>5. v.num_calls = 0 => shown_ratio(u) >= shown_ratio(v)
    BY <2>2
  <2>6. Q!le(u, v, a) <=>
          (value(u, a) >= value(v, a) /\ (v.num_calls = 0 \/ u.num_calls # 0))
    BY <2>1, <2>4, <2>5
  <2> QED
    BY <1>2, <2>1, <2>2, <2>6
<1> QED
  BY <1>1, <1>2

\* The rows that the comparison has in order.
row_order == {q \in Rows \X Rows : Q!le(q[1], q[2], g_comparator)}

\* The comparisons of kprofile are what qsort asks for (CompareAssumption of Sort, which
\* kprofile owes): in particular the one by ratio, which treats rows without calls apart.
LEMMA ComparatorsOrder ==
  ASSUME ProfileOK, g_comparator \in Options
  PROVE  /\ Orders(row_order, Rows)
         /\ \A u, v \in Rows : <<u, v>> \in row_order <=> Q!le(u, v, g_comparator)
<1>1. \A u, v \in Rows : <<u, v>> \in row_order <=> Q!le(u, v, g_comparator)
  BY DEF row_order
<1>2. ASSUME NEW u \in Rows, NEW v \in Rows
      PROVE  Q!le(u, v, g_comparator) \/ Q!le(v, u, g_comparator)
  <2>1. /\ value(u, g_comparator) \in Nat /\ value(v, g_comparator) \in Nat
        /\ Q!le(u, v, g_comparator) <=>
             /\ value(u, g_comparator) >= value(v, g_comparator)
             /\ g_comparator = "by_ratio" => v.num_calls = 0 \/ u.num_calls # 0
        /\ Q!le(v, u, g_comparator) <=>
             /\ value(v, g_comparator) >= value(u, g_comparator)
             /\ g_comparator = "by_ratio" => u.num_calls = 0 \/ v.num_calls # 0
    BY RowsCompared
  <2>2. /\ g_comparator = "by_ratio" /\ u.num_calls = 0 => value(u, g_comparator) = 0
        /\ g_comparator = "by_ratio" /\ v.num_calls = 0 => value(v, g_comparator) = 0
    BY DEF value, shown_ratio
  <2> QED
    BY <2>1, <2>2
<1>3. ASSUME NEW u \in Rows, NEW v \in Rows, NEW w \in Rows,
             Q!le(u, v, g_comparator), Q!le(v, w, g_comparator)
      PROVE  Q!le(u, w, g_comparator)
  <2>1. /\ value(u, g_comparator) \in Nat /\ value(v, g_comparator) \in Nat
        /\ value(w, g_comparator) \in Nat
        /\ value(u, g_comparator) >= value(v, g_comparator)
        /\ value(v, g_comparator) >= value(w, g_comparator)
        /\ g_comparator = "by_ratio" => v.num_calls = 0 \/ u.num_calls # 0
        /\ g_comparator = "by_ratio" => w.num_calls = 0 \/ v.num_calls # 0
    BY <1>3, RowsCompared
  <2>2. value(u, g_comparator) >= value(w, g_comparator)
    BY <2>1
  <2> QED
    BY <2>1, <2>2, RowsCompared
<1> QED
  BY <1>1, <1>2, <1>3 DEF Orders

\* The table as the device gives it.
loaded == [n \in 0..(num - 1) |-> profile[n + 1]]

Words == Options \cup Commands \cup {"other"}
Working == {"open", "number", "malloc", "get", "sort", "sorted"}

\* g_comparator is what the last option looked at asks for, and the options have all
\* been looked at when the device is opened.
OptionsInv ==
  /\ device \in Tables /\ argv \in Seq(Words) /\ g_comparator \in Options /\ next \in Nat
  /\ next = 2 \/ next \in 3..(Len(argv) + 1)
  /\ g_comparator = IF next > 2 THEN argv[next - 1] ELSE "by_ratio"
  /\ stage \in Working =>
       /\ Len(argv) > 0 /\ next > Len(argv)
       /\ argv[1] \in {"functions", "syscalls"}

\* The array is the table, as far as it has been filled and sorted.
ArrayInv ==
  /\ stage \in {"options", "open", "number", "malloc", "get"} => ki = 0 /\ kj = 1
  /\ stage \in {"malloc", "get", "sort", "sorted"} => num = Len(profile)
  /\ stage \in {"sort", "sorted"} => data \in Array(num, Rows) /\ Rearranged(data, loaded, num)
  /\ stage = "sort" =>
       /\ ki \in Nat /\ kj \in Nat /\ kj >= ki + 1
       /\ Selected(data, num, row_order, ki, kj)
  /\ stage = "sorted" => InOrderBy(data, num, row_order)

\* The inductive invariant: nothing is printed before the end.
KprofileInv ==
  /\ stage \in Working \cup {"options", "exited"}
  /\ stage # "exited" => out = <<>>
  /\ OptionsInv /\ ArrayInv /\ PrintsWholeInOrder

\* The device's table is a sequence of rows, of which the last option is known.
LEMMA TableOf ==
  ASSUME ProfileOK, OptionsInv, stage \in Working
  PROVE  /\ profile \in Seq(Rows) /\ Len(profile) \in Nat
         /\ loaded \in Array(Len(profile), Rows) \/ num # Len(profile)
         /\ g_comparator = wanted
<1>1. profile \in Seq(Rows)
  BY DEF OptionsInv, profile, ProfileOK
<1>2. num = Len(profile) => loaded \in Array(Len(profile), Rows)
  BY <1>1 DEF loaded, Array
<1>3. g_comparator = wanted
  BY DEF OptionsInv, wanted
<1> QED
  BY <1>1, <1>2, <1>3

LEMMA KprofileBegins == ProfileOK /\ KprofileInit => KprofileInv
<1> SUFFICES ASSUME ProfileOK, KprofileInit PROVE KprofileInv
  OBVIOUS
<1>1. argv \in Seq(Words)
  BY DEF KprofileInit, BoundedSeq, SeqOf, Words
<1> QED
  BY <1>1 DEF KprofileInit, KprofileInv, OptionsInv, ArrayInv, PrintsWholeInOrder, Working, Options

\* The steps before the array is filled, and those that end the program without a table.
LEMMA OptionsKeep ==
  ASSUME ProfileOK, KprofileInv, usage \/ option \/ command
  PROVE  KprofileInv'
<1>1. /\ stage = "options" /\ UNCHANGED <<device, argv, out, data, num, ki, kj>>
      /\ out = <<>> /\ out' = <<>> /\ ki = 0 /\ kj = 1
  BY DEF usage, option, command, unchanged_array, KprofileInv, ArrayInv
<1>2. /\ stage' \in {"options", "open", "exited"}
      /\ stage' = "exited" => status' = "failure" \/ argv[1] = "help"
  BY <1>1 DEF usage, option, command, exit
<1>3. OptionsInv'
  <2>1. CASE usage \/ command
    <3>1. /\ UNCHANGED <<next, g_comparator>>
          /\ stage' = "open" =>
               Len(argv) > 0 /\ next > Len(argv) /\ argv[1] \in {"functions", "syscalls"}
      BY <2>1 DEF usage, command, exit
    <3> QED
      BY <1>1, <1>2, <3>1 DEF KprofileInv, OptionsInv, Working
  <2>2. CASE option
    <3>1. next \in 2..Len(argv) /\ next \in Nat /\ Len(argv) \in Nat /\ stage' \notin Working
      BY <1>1, <2>2 DEF KprofileInv, OptionsInv, option, exit, Working
    <3>2. CASE argv[next] \in Options
      <4>1. next' = next + 1 /\ g_comparator' = argv[next]
        BY <2>2, <3>2 DEF option
      <4> QED
        BY <1>1, <3>1, <3>2, <4>1 DEF KprofileInv, OptionsInv
    <3>3. CASE argv[next] \notin Options
      <4>1. next' = next /\ g_comparator' = g_comparator
        BY <2>2, <3>3 DEF option
      <4> QED
        BY <1>1, <3>1, <4>1 DEF KprofileInv, OptionsInv
    <3> QED
      BY <3>2, <3>3
  <2> QED
    BY <2>1, <2>2
<1>4. ArrayInv'
  BY <1>1, <1>2 DEF ArrayInv
<1>5. PrintsWholeInOrder'
  BY <1>1, <1>2 DEF PrintsWholeInOrder
<1> QED
  BY <1>1, <1>2, <1>3, <1>4, <1>5 DEF KprofileInv, Working

\* A call that fails ends the program before anything is printed (open_devprofile,
\* checked_malloc, the ioctls).
LEMMA FailureKeeps ==
  ASSUME KprofileInv, checked_fails
  PROVE  KprofileInv'
<1>1. /\ stage \in {"open", "number", "malloc", "get"} /\ stage' = "exited" /\ status' = "failure"
      /\ UNCHANGED <<device, argv, next, out, g_comparator, data, num, ki, kj>> /\ out = <<>>
  BY DEF checked_fails, exit, unchanged_array, KprofileInv
<1> QED
  BY <1>1 DEF KprofileInv, OptionsInv, ArrayInv, PrintsWholeInOrder, Working

LEMMA LoadKeeps ==
  ASSUME ProfileOK, KprofileInv,
         open_devprofile \/ get_number \/ checked_malloc \/ get_profile
  PROVE  KprofileInv'
<1>1. /\ UNCHANGED <<device, argv, next, out, g_comparator, status>>
      /\ stage # "exited" /\ stage' # "exited"
      /\ out = <<>> /\ stage \in Working /\ stage' \in Working
      /\ ki = 0 /\ kj = 1 /\ ki' = 0 /\ kj' = 1
  BY DEF open_devprofile, get_number, checked_malloc, get_profile, succeeds,
         unchanged_array, KprofileInv, ArrayInv, Working
<1>2. /\ OptionsInv /\ OptionsInv' /\ profile' = profile /\ PrintsWholeInOrder'
  BY <1>1 DEF KprofileInv, OptionsInv, profile, PrintsWholeInOrder
<1>3. profile \in Seq(Rows) /\ Len(profile) \in Nat
  BY <1>1, <1>2, TableOf
<1>4. CASE open_devprofile \/ get_number \/ checked_malloc
  <2>1. /\ stage' \in {"number", "malloc", "get"}
        /\ stage' \in {"malloc", "get"} => num' = Len(profile)
    BY <1>4 DEF open_devprofile, get_number, checked_malloc, succeeds, unchanged_array,
                KprofileInv, ArrayInv
  <2>2. ArrayInv'
    BY <1>1, <1>2, <2>1 DEF ArrayInv
  <2> QED
    BY <1>1, <1>2, <2>2 DEF KprofileInv
<1>5. CASE get_profile
  <2>1. /\ stage' = "sort" /\ num = Len(profile) /\ num' = num
        /\ data' = loaded
    BY <1>5 DEF get_profile, succeeds, KprofileInv, ArrayInv, Q!Indices, loaded
  <2>2. loaded \in Array(num, Rows) /\ loaded' = loaded
    BY <1>1, <1>2, <2>1, TableOf DEF loaded
  <2>3. Orders(row_order, Rows) /\ row_order' = row_order
    BY <1>1, <1>2, ComparatorsOrder DEF OptionsInv, row_order
  <2>4. Selected(loaded, num, row_order, 0, 1) /\ Rearranged(loaded, loaded, num)
    BY <1>3, <2>1, <2>2, <2>3, SortBegins
  <2>5. ArrayInv'
    BY <1>1, <1>2, <2>1, <2>2, <2>3, <2>4 DEF ArrayInv
  <2> QED
    BY <1>1, <1>2, <2>5 DEF KprofileInv
<1> QED
  BY <1>4, <1>5

\* qsort, called by kprofile: the lemmas about its loops, for rows.
LEMMA QsortKeeps ==
  ASSUME ProfileOK, KprofileInv, Q!qsort_r, UNCHANGED <<device, argv, next, out, status>>
  PROVE  KprofileInv'
<1>1. /\ stage = "sort" /\ stage' \in {"sort", "sorted"} /\ UNCHANGED <<num, g_comparator>>
      /\ out = <<>> /\ out' = <<>>
  BY DEF Q!qsort_r, Q!qsort_inner, Q!qsort_outer, Q!qsort_return, Q!sortvars, KprofileInv
<1>2. /\ OptionsInv /\ OptionsInv' /\ profile' = profile /\ PrintsWholeInOrder'
      /\ g_comparator \in Options
  BY <1>1 DEF KprofileInv, OptionsInv, profile, PrintsWholeInOrder, Working
<1>3. /\ num = Len(profile) /\ num \in Nat /\ ki \in Nat /\ kj \in Nat /\ kj >= ki + 1
      /\ data \in Array(num, Rows) /\ Rearranged(data, loaded, num)
      /\ Selected(data, num, row_order, ki, kj)
  BY <1>1, <1>2, TableOf DEF KprofileInv, ArrayInv, Working
<1>4. /\ Orders(row_order, Rows) /\ row_order' = row_order /\ loaded' = loaded
      /\ \A u, v \in Rows : <<u, v>> \in row_order <=> Q!le(u, v, g_comparator)
  BY <1>1, <1>2, ComparatorsOrder DEF row_order, loaded
<1>5. CASE Q!qsort_inner
  <2>1. /\ stage' = "sort" /\ ki < num /\ kj < num /\ ki' = ki /\ kj' = kj + 1
        /\ data' = IF Q!le(data[ki], data[kj], g_comparator) THEN data ELSE Q!swap(data, ki, kj)
    BY <1>5 DEF Q!qsort_inner
  <2>2. ki \in 0..(num - 1) /\ kj \in 0..(num - 1) /\ ki < kj /\ ki # kj
    BY <1>3, <2>1
  <2>3. data[ki] \in Rows /\ data[kj] \in Rows
    BY <1>3, <2>2 DEF Array
  <2>4. data' = IF <<data[ki], data[kj]>> \in row_order THEN data ELSE swap(data, ki, kj)
    BY <1>4, <2>1, <2>3 DEF swap, Q!swap
  <2>5. data' \in Array(num, Rows) /\ Selected(data', num, row_order, ki, kj + 1)
    BY <1>3, <1>4, <2>2, <2>4, InnerSorts
  <2>6. Rearranged(data', loaded, num)
    BY <1>3, <2>2, <2>4, SwapRearranges
  <2>7. ArrayInv'
    BY <1>1, <1>2, <1>3, <1>4, <2>1, <2>5, <2>6 DEF ArrayInv
  <2> QED
    BY <1>1, <1>2, <2>1, <2>7 DEF KprofileInv, Working
<1>6. CASE Q!qsort_outer
  <2>1. stage' = "sort" /\ ki < num /\ kj >= num /\ ki' = ki + 1 /\ kj' = ki + 2 /\ data' = data
    BY <1>6 DEF Q!qsort_outer
  <2>2. ki \in 0..(num - 1)
    BY <1>3, <2>1
  <2>3. Selected(data, num, row_order, ki + 1, ki + 2)
    BY <1>3, <1>4, <2>1, <2>2, OuterSorts
  <2>4. ArrayInv'
    BY <1>1, <1>2, <1>3, <1>4, <2>1, <2>3 DEF ArrayInv
  <2> QED
    BY <1>1, <1>2, <2>1, <2>4 DEF KprofileInv, Working
<1>7. CASE Q!qsort_return
  <2>1. stage' = "sorted" /\ ki >= num /\ data' = data
    BY <1>7 DEF Q!qsort_return, Q!sortvars
  <2>2. InOrderBy(data, num, row_order)
    BY <1>3, <2>1, SortEnds
  <2>3. ArrayInv'
    BY <1>1, <1>2, <1>3, <1>4, <2>1, <2>2 DEF ArrayInv
  <2> QED
    BY <1>1, <1>2, <2>1, <2>3 DEF KprofileInv, Working
<1> QED
  BY <1>5, <1>6, <1>7 DEF Q!qsort_r

\* What is printed: all rows, in the order of the comparison, which is that of the
\* column that the last option names (print_function_table).
LEMMA PrintKeeps ==
  ASSUME ProfileOK, KprofileInv, print_function_table
  PROVE  KprofileInv'
<1>1. /\ stage = "sorted" /\ stage' = "exited" /\ status' = "success"
      /\ UNCHANGED <<device, argv, next, g_comparator, data, num, ki, kj>>
      /\ out' = [n \in 1..num |-> [row |-> data[n - 1], ratio |-> shown_ratio(data[n - 1])]]
  BY DEF print_function_table, exit, unchanged_array
<1>2. /\ OptionsInv /\ OptionsInv' /\ profile' = profile /\ g_comparator \in Options
      /\ wanted' = wanted /\ g_comparator = wanted /\ profile \in Seq(Rows)
      /\ argv[1] \in {"functions", "syscalls"}
  BY <1>1, TableOf DEF KprofileInv, OptionsInv, profile, wanted, Working
<1>3. /\ num = Len(profile) /\ num \in Nat
      /\ data \in Array(num, Rows) /\ Rearranged(data, loaded, num)
      /\ InOrderBy(data, num, row_order)
  BY <1>1, <1>2 DEF KprofileInv, ArrayInv
<1>4. /\ DOMAIN out' = 1..num /\ Len(out') = num
      /\ \A n \in 1..num :
           /\ n - 1 \in 0..(num - 1) /\ data[n - 1] \in Rows
           /\ out'[n].row = data[n - 1] /\ out'[n].ratio = shown_ratio(data[n - 1])
  <2>1. \A n \in 1..num : n - 1 \in 0..(num - 1)
    BY <1>3
  <2>2. \A n \in 1..num : data[n - 1] \in Rows
    BY <1>3, <2>1 DEF Array
  <2>3. DOMAIN out' = 1..num
    BY <1>1
  <2>4. Len(out') = num
    BY <1>1, <1>3
  <2>5. \A n \in 1..num :
          /\ out'[n].row = data[n - 1] /\ out'[n].ratio = shown_ratio(data[n - 1])
    BY <1>1
  <2> QED
    BY <2>1, <2>2, <2>3, <2>4, <2>5
<1>5. in_order'
  <2>1. ASSUME NEW m \in 1..num, NEW n \in 1..num, m < n
        PROVE  value(data[m - 1], g_comparator) >= value(data[n - 1], g_comparator)
    <3>1. <<data[m - 1], data[n - 1]>> \in row_order
      BY <1>3, <2>1 DEF InOrderBy
    <3>2. data[m - 1] \in Rows /\ data[n - 1] \in Rows
      BY <1>4
    <3>3. Q!le(data[m - 1], data[n - 1], g_comparator)
      BY <1>2, <3>1, <3>2, ComparatorsOrder
    <3> QED
      BY <1>2, <3>2, <3>3, RowsCompared
  <2>2. ASSUME NEW m \in 1..num, NEW n \in 1..num, m < n
        PROVE  LET a == out'[m].row  b == out'[n].row IN
               /\ g_comparator = "by_real"  => a.real_time_ns >= b.real_time_ns
               /\ g_comparator = "by_cpu"   => a.cpu_time_ns >= b.cpu_time_ns
               /\ g_comparator = "by_calls" => a.num_calls >= b.num_calls
               /\ g_comparator = "by_ratio" => out'[m].ratio >= out'[n].ratio
    <3>1. /\ out'[m].row = data[m - 1] /\ out'[m].ratio = shown_ratio(data[m - 1])
          /\ out'[n].row = data[n - 1] /\ out'[n].ratio = shown_ratio(data[n - 1])
          /\ value(data[m - 1], g_comparator) >= value(data[n - 1], g_comparator)
      BY <1>4, <2>1, <2>2
    <3>2. /\ g_comparator = "by_real"  => data[m - 1].real_time_ns >= data[n - 1].real_time_ns
          /\ g_comparator = "by_cpu"   => data[m - 1].cpu_time_ns >= data[n - 1].cpu_time_ns
          /\ g_comparator = "by_calls" => data[m - 1].num_calls >= data[n - 1].num_calls
          /\ g_comparator = "by_ratio" => shown_ratio(data[m - 1]) >= shown_ratio(data[n - 1])
      BY <3>1 DEF value
    <3> QED
      BY <3>1, <3>2
  <2> QED
    BY <1>2, <1>4, <2>2 DEF in_order
<1>6. \E f \in Injection(1..num, 1..num) : \A n \in 1..num : out'[n].row = profile[f[n]]
  <2> DEFINE D == 0..(num - 1)
  <2>1. PICK f \in [D -> D] : /\ \A k, l \in D : f[k] = f[l] => k = l
                              /\ \A k \in D : data[k] = loaded[f[k]]
    BY <1>3 DEF Rearranged
  <2> DEFINE g == [n \in 1..num |-> f[n - 1] + 1]
  <2>2. g \in [1..num -> 1..num]
    BY <1>3, <1>4, <2>1
  <2>3. \A m, n \in 1..num : g[m] = g[n] => m = n
    <3> SUFFICES ASSUME NEW m \in 1..num, NEW n \in 1..num, g[m] = g[n] PROVE m = n
      OBVIOUS
    <3>1. m - 1 \in D /\ n - 1 \in D
      BY <1>4
    <3>2. f[m - 1] = f[n - 1]
      <4>1. f[m - 1] \in Int /\ f[n - 1] \in Int
        BY <1>3, <2>1, <3>1
      <4>2. f[m - 1] + 1 = f[n - 1] + 1
        OBVIOUS
      <4> QED
        BY <4>1, <4>2
    <3>3. m - 1 = n - 1
      BY <2>1, <3>1, <3>2
    <3> QED
      BY <1>3, <3>3
  <2>4. g \in Injection(1..num, 1..num)
    BY <2>2, <2>3 DEF Injection, IsInjective
  <2>5. \A n \in 1..num : out'[n].row = profile[g[n]]
    BY <1>3, <1>4, <2>1 DEF loaded
  <2> QED
    BY <2>4, <2>5
<1>7. PrintsWholeInOrder'
  <2>1. DOMAIN profile = 1..num
    BY <1>2, <1>3
  <2> QED
    BY <1>1, <1>2, <1>3, <1>4, <1>5, <1>6, <2>1 DEF PrintsWholeInOrder
<1> QED
  BY <1>1, <1>2, <1>7 DEF KprofileInv, ArrayInv

LEMMA KprofileInvariant == ProfileOK => (KprofileSpec => []KprofileInv)
<1> SUFFICES ASSUME ProfileOK PROVE KprofileSpec => []KprofileInv
  OBVIOUS
<1>1. KprofileInv /\ [KprofileNext]_kprofile_vars => KprofileInv'
  <2> SUFFICES ASSUME KprofileInv, [KprofileNext]_kprofile_vars PROVE KprofileInv'
    OBVIOUS
  <2>1. CASE UNCHANGED kprofile_vars
    BY <2>1 DEF kprofile_vars, KprofileInv, OptionsInv, ArrayInv, PrintsWholeInOrder, in_order,
                wanted, profile, loaded, row_order
  <2> QED
    BY <2>1, OptionsKeep, FailureKeeps, LoadKeeps, QsortKeeps, PrintKeeps DEF KprofileNext
<1> QED
  BY KprofileBegins, <1>1, PTL DEF KprofileSpec

\* kprofile prints every row of the table once and in the order of its last option, or
\* nothing, for tables and command lines of every length and however the quotient of two
\* numbers is rounded (main, profile_functions, profile_syscalls, print_function_table).
THEOREM KprofilePrintsWhole == KprofileSpec => []PrintsWholeInOrder
<1>1. KprofileInv => PrintsWholeInOrder
  BY DEF KprofileInv
<1> QED
  BY ProfileAssumption, KprofileInvariant, <1>1, PTL

=============================================================================
