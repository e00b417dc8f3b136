--------------------------- MODULE LibcCallsProofs --------------------------
(***************************************************************************)
(* Proofs about LibcCalls, for every width of int and of size_t, every     *)
(* number of descriptors, every mount table and texts of every length over *)
(* every set of characters.                                                *)
(*                                                                         *)
(* All but the reader of mount tables answer in one step, so that what is  *)
(* to be proved of them is a fact about the operator that computes the     *)
(* answer.  The overflow of size_t and of int and the alignment of blocks  *)
(* rest on facts about powers of two, which are proved by induction: the   *)
(* least element of a set of naturals, from the library, gives induction   *)
(* in a form whose parameter is a set, and that the existence of functions *)
(* that are defined by recursion.  The reader of mount tables takes a step *)
(* for each line; its inductive invariant says what has been passed over.  *)
(* wides and FlattenSeq, over which the texts go, are recursive functions: *)
(* they are shown to exist, and by induction over the characters wides is  *)
(* shown to give back what FlattenSeq has joined.                          *)
(***************************************************************************)
EXTENDS LibcCalls, SequenceTheorems, WellFoundedInduction, TLAPS

-----------------------------------------------------------------------------
(* Induction and recursion *)

\* A set of natural numbers that has an element has a least one.
LEMMA LeastOf ==
  ASSUME NEW T, T \subseteq Nat, T # {}
  PROVE  \E x \in T : \A y \in T : x <= y
<1> DEFINE R == OpToRel(<, Nat)
<1>1. IsWellFoundedOn(R, Nat)
  BY NatLessThanWellFounded
<1>2. \A y, x \in Nat : y < x => <<y, x>> \in R
  BY DEF OpToRel
<1> HIDE DEF R
<1>3. PICK x \in T : \A y \in T : <<y, x>> \notin R
  BY <1>1, WFMin
<1>4. \A y \in T : x <= y
  <2>1. TAKE y \in T
  <2>2. x \in Nat /\ y \in Nat
    OBVIOUS
  <2>3. ~(y < x)
    BY <1>2, <1>3, <2>2
  <2> QED
    BY <2>2, <2>3
<1> QED
  BY <1>4

\* A set that has 0, and with every natural number the next one, has them all.
LEMMA Induction ==
  ASSUME NEW G, 0 \in G, \A n \in Nat : n \in G => n + 1 \in G
  PROVE  \A n \in Nat : n \in G
<1>1. SUFFICES ASSUME Nat \ G # {} PROVE FALSE
  OBVIOUS
<1>2. PICK x \in Nat \ G : \A y \in Nat \ G : x <= y
  BY <1>1, LeastOf
<1>3. x \in Nat /\ x # 0 /\ x \notin G
  OBVIOUS
<1>4. x - 1 \in Nat /\ ~(x <= x - 1) /\ (x - 1) + 1 = x
  BY <1>3
<1>5. x - 1 \in G
  BY <1>2, <1>4
<1> QED
  BY <1>3, <1>4, <1>5

\* The first n + 1 values of the function that begins with c and continues with step.
Begins(g, n, c, step) == g[0] = c /\ \A k \in 1..n : g[k] = step[k][g[k - 1]]

\* Two such beginnings agree as far as both go.
LEMMA BeginningsAgree ==
  ASSUME NEW c, NEW step, NEW g, NEW h, NEW m \in Nat, NEW n \in Nat,
         Begins(g, m, c, step), Begins(h, n, c, step)
  PROVE  \A k \in Nat : k <= m /\ k <= n => g[k] = h[k]
<1> DEFINE G == {k \in Nat : k <= m /\ k <= n => g[k] = h[k]}
<1>1. 0 \in G
  BY DEF Begins
<1>2. ASSUME NEW k \in Nat, k \in G PROVE k + 1 \in G
  <2>1. SUFFICES ASSUME k + 1 <= m, k + 1 <= n PROVE g[k + 1] = h[k + 1]
    OBVIOUS
  <2>2. k + 1 \in 1..m /\ k + 1 \in 1..n /\ (k + 1) - 1 = k /\ k <= m /\ k <= n
    BY <2>1
  <2>3. g[k] = h[k]
    BY <1>2, <2>2
  <2> QED
    BY <2>2, <2>3 DEF Begins
<1> HIDE DEF G
<1>3. \A k \in Nat : k \in G
  BY <1>1, <1>2, Induction
<1> QED
  BY <1>3 DEF G

\* A function of all naturals that begins with c and continues with step.
Follows(f, S, c, step) ==
  /\ f \in [Nat -> S] /\ f[0] = c
  /\ \A n \in Nat \ {0} : f[n] = step[n][f[n - 1]]

Steps(S) == [Nat -> [S -> S]]

\* There is such a function.
LEMMA Recursion ==
  ASSUME NEW S, NEW c \in S, NEW step \in Steps(S)
  PROVE  \E f : Follows(f, S, c, step)
<1> USE DEF Steps
<1> DEFINE P(g, n) == g \in [0..n -> S] /\ Begins(g, n, c, step)
           G == {n \in Nat : \E g : P(g, n)}
<1>1. 0 \in G
  <2>1. P([k \in 0..0 |-> c], 0)
    BY DEF Begins
  <2> QED
    BY <2>1
<1>2. ASSUME NEW n \in Nat, n \in G PROVE n + 1 \in G
  <2>1. PICK g : P(g, n)
    BY <1>2
  <2> DEFINE h == [k \in 0..n+1 |-> IF k <= n THEN g[k] ELSE step[n + 1][g[n]]]
  <2>2. h \in [0..n+1 -> S]
    BY <2>1
  <2>3. h[0] = c
    BY <2>1 DEF Begins
  <2>4. ASSUME NEW k \in 1..n+1 PROVE h[k] = step[k][h[k - 1]]
    <3>1. CASE k <= n
      BY <2>1, <3>1 DEF Begins
    <3>2. CASE k = n + 1
      BY <2>1, <3>2
    <3> QED
      BY <3>1, <3>2
  <2> HIDE DEF h
  <2>5. P(h, n + 1)
    BY <2>2, <2>3, <2>4 DEF Begins
  <2> HIDE DEF P
  <2> QED
    BY <2>5
<1> HIDE DEF G
<1>3. \A n \in Nat : n \in G
  BY <1>1, <1>2, Induction
<1> DEFINE b(n) == CHOOSE g : P(g, n)
           f == [n \in Nat |-> b(n)[n]]
<1>4. ASSUME NEW n \in Nat PROVE P(b(n), n)
  BY <1>3 DEF G
<1>5. f \in [Nat -> S]
  <2>1. ASSUME NEW n \in Nat PROVE b(n)[n] \in S
    BY <1>4
  <2> HIDE DEF b
  <2> QED
    BY <2>1
<1>6. f[0] = c
  BY <1>4 DEF Begins
<1>7. ASSUME NEW n \in Nat \ {0} PROVE f[n] = step[n][f[n - 1]]
  <2>1. n \in Nat /\ n - 1 \in Nat /\ n - 1 <= n
    OBVIOUS
  <2>2. P(b(n), n) /\ P(b(n - 1), n - 1)
    BY <1>4, <2>1
  <2> HIDE DEF b
  <2>3. b(n)[n - 1] = b(n - 1)[n - 1]
    BY <2>1, <2>2, BeginningsAgree
  <2>4. b(n)[n] = step[n][b(n)[n - 1]]
    BY <2>1, <2>2 DEF Begins
  <2> QED
    BY <2>1, <2>3, <2>4
<1> HIDE DEF f
<1>8. Follows(f, S, c, step)
  BY <1>5, <1>6, <1>7 DEF Follows
<1> QED
  BY <1>8

-----------------------------------------------------------------------------
(* Powers of two *)

\* pow2 doubles with every step, and is a positive number.
LEMMA Pow2Def ==
  /\ pow2 \in [Nat -> Nat]
  /\ pow2[0] = 1
  /\ \A n \in Nat : pow2[n + 1] = 2 * pow2[n]
<1> DEFINE F(f) == [n \in Nat |-> IF n = 0 THEN 1 ELSE 2 * f[n - 1]]
           dbl == [n \in Nat |-> [v \in Nat |-> 2 * v]]
<1>1. \E f \in [Nat -> Nat] : f = F(f)
  <2>1. dbl \in [Nat -> [Nat -> Nat]] /\ 1 \in Nat
    OBVIOUS
  <2>a. \A n, v \in Nat : dbl[n][v] = 2 * v
    OBVIOUS
  <2> HIDE DEF dbl
  <2>2. PICK f \in [Nat -> Nat] :
          f[0] = 1 /\ \A n \in Nat \ {0} : f[n] = dbl[n][f[n - 1]]
    <3>1. dbl \in Steps(Nat)
      BY <2>1 DEF Steps
    <3>2. \E f : Follows(f, Nat, 1, dbl)
      BY <2>1, <3>1, Recursion
    <3> QED
      BY <3>2 DEF Follows
  <2>3. ASSUME NEW n \in Nat \ {0} PROVE f[n] = 2 * f[n - 1]
    <3>1. n \in Nat /\ n - 1 \in Nat
      OBVIOUS
    <3>2. f[n - 1] \in Nat
      BY <3>1
    <3> QED
      BY <2>2, <2>a, <3>1, <3>2
  <2>4. \A n \in Nat : f[n] = IF n = 0 THEN 1 ELSE 2 * f[n - 1]
    BY <2>2, <2>3
  <2> DEFINE g == F(f)
  <2>5. DOMAIN g = Nat /\ g = [n \in DOMAIN g |-> g[n]]
    OBVIOUS
  <2>6. \A n \in Nat : g[n] = IF n = 0 THEN 1 ELSE 2 * f[n - 1]
    OBVIOUS
  <2> HIDE DEF g
  <2>7. f = g
    <3>1. \A n \in Nat : f[n] = g[n]
      BY <2>4, <2>6
    <3> QED
      BY <2>5, <3>1
  <2> QED
    BY <2>7 DEF g
<1>2. pow2 = F(pow2)
  <2>1. pow2 = CHOOSE f : f = F(f)
    BY DEF pow2
  <2> QED
    BY <1>1, <2>1
<1>3. pow2[0] = 1 /\ \A n \in Nat : pow2[n + 1] = 2 * pow2[n]
  BY <1>2
<1> DEFINE G == {n \in Nat : pow2[n] \in Nat}
<1>4. 0 \in G /\ \A n \in Nat : n \in G => n + 1 \in G
  BY <1>3
<1> HIDE DEF G
<1>5. \A n \in Nat : n \in G
  BY <1>4, Induction
<1>6. \A n \in Nat : pow2[n] \in Nat
  BY <1>5 DEF G
<1>7. pow2 \in [Nat -> Nat]
  BY <1>2, <1>6
<1> QED
  BY <1>3, <1>7

\* A multiple leaves no remainder.
LEMMA MultipleMod ==
  ASSUME NEW m \in Nat \ {0}, NEW q \in Nat
  PROVE  (q * m) % m = 0
OBVIOUS

\* Every power of two is positive, and a multiple of every smaller one.
LEMMA Pow2Positive == \A n \in Nat : pow2[n] \in Nat /\ pow2[n] > 0
<1> DEFINE G == {n \in Nat : pow2[n] > 0}
<1>1. 0 \in G /\ \A n \in Nat : n \in G => n + 1 \in G
  BY Pow2Def
<1> HIDE DEF G
<1>2. \A n \in Nat : n \in G
  BY <1>1, Induction
<1> QED
  BY <1>2, Pow2Def DEF G

LEMMA Pow2Multiple ==
  ASSUME NEW i \in Nat, NEW j \in Nat, i <= j
  PROVE  \E q \in Nat \ {0} : pow2[j] = q * pow2[i]
<1> DEFINE P(n) == \E q \in Nat \ {0} : pow2[i + n] = q * pow2[i]
           G == {n \in Nat : P(n)}
<1>1. 0 \in G
  <2>1. pow2[i + 0] = 1 * pow2[i]
    BY Pow2Positive
  <2> QED
    BY <2>1
<1>2. ASSUME NEW n \in Nat, n \in G PROVE n + 1 \in G
  <2>1. PICK q \in Nat \ {0} : pow2[i + n] = q * pow2[i]
    BY <1>2
  <2>2. pow2[i + (n + 1)] = 2 * pow2[i + n]
    BY Pow2Def
  <2>3. pow2[i + (n + 1)] = (2 * q) * pow2[i]
    BY <2>1, <2>2, Pow2Positive
  <2>4. 2 * q \in Nat \ {0}
    OBVIOUS
  <2>5. P(n + 1)
    BY <2>3, <2>4
  <2> QED
    BY <2>5
<1> HIDE DEF G
<1>3. \A n \in Nat : n \in G
  BY <1>1, <1>2, Induction
<1>4. j - i \in Nat /\ i + (j - i) = j
  OBVIOUS
<1>5. P(j - i)
  BY <1>3, <1>4 DEF G
<1> QED
  BY <1>4, <1>5

LEMMA Pow2Monotone ==
  ASSUME NEW i \in Nat, NEW j \in Nat, i <= j
  PROVE  pow2[i] <= pow2[j]
<1>1. PICK q \in Nat \ {0} : pow2[j] = q * pow2[i]
  BY Pow2Multiple
<1>2. pow2[i] \in Nat /\ pow2[j] \in Nat
  BY Pow2Positive
<1>3. \A m \in Nat : m <= q * m
  OBVIOUS
<1> QED
  BY <1>1, <1>2, <1>3

\* Of two alignments the smaller divides the larger.
LEMMA PowersDivide ==
  ASSUME NEW p \in Powers, NEW q \in Powers, p <= q
  PROVE  p \in Nat \ {0} /\ q \in Nat \ {0} /\ q % p = 0
<1>1. PICK i \in 0..SizeBits : p = pow2[i]
  BY DEF Powers
<1>2. PICK j \in 0..SizeBits : q = pow2[j]
  BY DEF Powers
<1>3. i \in Nat /\ j \in Nat
  BY MemoryAssumption
<1>4. p \in Nat \ {0} /\ q \in Nat \ {0}
  BY <1>1, <1>2, <1>3, Pow2Positive
<1>5. CASE i <= j
  <2>1. PICK n \in Nat \ {0} : q = n * p
    BY <1>1, <1>2, <1>3, <1>5, Pow2Multiple
  <2> QED
    BY <1>4, <2>1, MultipleMod
<1>6. CASE j <= i
  <2>1. q <= p
    BY <1>1, <1>2, <1>3, <1>6, Pow2Monotone
  <2>2. q = 1 * p
    BY <1>4, <2>1
  <2> QED
    BY <1>4, <2>2, MultipleMod
<1> QED
  BY <1>3, <1>5, <1>6

-----------------------------------------------------------------------------
(* Allocation *)

\* The sizes that size_t counts are those below a power of two.
LEMMA Sizes ==
  /\ SIZE_MAX \in Nat /\ pow2[SizeBits] = SIZE_MAX + 1
  /\ pow2[SizeBits] \in Powers /\ PointerSize \in Powers /\ Page \in Powers
  /\ PointerSize <= Page
  /\ Powers \subseteq Nat \ {0}
  /\ \A p \in Powers : p <= pow2[SizeBits]
<1>1. SizeBits \in Nat /\ pow2[SizeBits] \in Nat /\ pow2[SizeBits] > 0
  BY MemoryAssumption, Pow2Positive
<1>2. SIZE_MAX \in Nat /\ pow2[SizeBits] = SIZE_MAX + 1
  BY <1>1 DEF SIZE_MAX
<1>3. PICK i \in 0..SizeBits, j \in 0..SizeBits :
        i <= j /\ PointerSize = pow2[i] /\ Page = pow2[j]
  BY MemoryAssumption
<1>4. pow2[SizeBits] \in Powers /\ PointerSize \in Powers /\ Page \in Powers
  BY <1>1, <1>3 DEF Powers
<1>5. PointerSize <= Page
  BY <1>1, <1>3, Pow2Monotone
<1>6. ASSUME NEW p \in Powers PROVE p \in Nat \ {0} /\ p <= pow2[SizeBits]
  <2>1. PICK k \in 0..SizeBits : p = pow2[k]
    BY DEF Powers
  <2>2. k \in Nat /\ k <= SizeBits
    BY <1>1
  <2> QED
    BY <1>1, <2>1, <2>2, Pow2Monotone, Pow2Positive
<1> QED
  BY <1>2, <1>4, <1>5, <1>6

\* The allocator has a class for every size that is asked of it.
LEMMA ClassOf ==
  ASSUME NEW n \in Nat, n <= pow2[SizeBits]
  PROVE  Class(n) \in Powers /\ Class(n) \in Nat /\ Class(n) >= n
<1> DEFINE T == {p \in Powers : p >= n}
<1>1. \E p \in T : \A q \in T : p <= q
  <2>1. T \subseteq Nat /\ pow2[SizeBits] \in T
    BY Sizes
  <2> HIDE DEF T
  <2>2. T # {}
    BY <2>1
  <2> QED
    BY <2>1, <2>2, LeastOf
<1>2. Class(n) \in Powers /\ Class(n) >= n
  BY <1>1 DEF Class
<1> QED
  BY <1>2, Sizes

\* The allocator's blocks are aligned to every power of two that their size fills, up
\* to a page.
LEMMA BlocksAligned ==
  ASSUME NEW align \in Powers, align <= Page,
         NEW n \in Nat, align <= n, n <= pow2[SizeBits]
  PROVE  Min2(Class(n), Page) % align = 0
<1>1. align \in Nat /\ Page \in Powers /\ Class(n) \in Nat /\ Class(n) \in Powers
      /\ align <= Class(n)
  BY ClassOf, Sizes
<1>2. Class(n) % align = 0 /\ Page % align = 0
  BY <1>1, PowersDivide
<1> QED
  BY <1>2 DEF Min2

\* calloc's division tells exactly when the product does not fit.
LEMMA OverflowTest ==
  ASSUME NEW m \in Nat, NEW n \in Nat \ {0}, NEW max \in Nat
  PROVE  m > max \div n <=> m * n > max
OBVIOUS

LEMMA CallocEnough ==
  ASSUME NEW m \in 0..SIZE_MAX, NEW n \in 0..SIZE_MAX, NEW room
  PROVE  LET r == calloc(m, n, room)
         IN /\ r.err = EINVAL <=> m * n > SIZE_MAX
            /\ r.out # Unset => r.out.bytes >= m * n
<1>1. m \in Nat /\ n \in Nat /\ SIZE_MAX \in Nat /\ m * n \in Nat
  BY Sizes
<1>2. CASE n # 0 /\ m > SIZE_MAX \div n
  <2>1. m * n > SIZE_MAX
    BY <1>1, <1>2, OverflowTest
  <2>2. calloc(m, n, room) = [err |-> EINVAL, out |-> Unset]
    BY <1>2 DEF calloc, result
  <2> QED
    BY <2>1, <2>2
<1>3. CASE ~(n # 0 /\ m > SIZE_MAX \div n)
  <2>1. m * n <= SIZE_MAX
    <3>1. CASE n = 0
      BY <1>1, <3>1
    <3>2. CASE n # 0
      BY <1>1, <1>3, <3>2, OverflowTest
    <3> QED
      BY <3>1, <3>2
  <2>2. (m * n) % pow2[SizeBits] = m * n
    BY <1>1, <2>1, Sizes
  <2>3. calloc(m, n, room) = [err |-> 0, out |-> allocate(m * n, room)]
    BY <1>3, <2>2 DEF calloc, malloc, result
  <2>4. 0 # EINVAL
    BY DEF EINVAL
  <2>5. allocate(m * n, room) # Unset => allocate(m * n, room).bytes = m * n
    BY DEF allocate
  <2>6. ~(m * n > SIZE_MAX) /\ m * n >= m * n
    BY <1>1, <2>1
  <2> QED
    BY <2>3, <2>4, <2>5, <2>6
<1> QED
  BY <1>2, <1>3

\* What AllocatesEnough says of an aligned block, for an alignment that passes the test.
LEMMA MemalignEnough ==
  ASSUME NEW m \in Nat, m <= pow2[SizeBits], NEW n \in 0..SIZE_MAX, NEW room
  PROVE  LET r == posix_memalign(m, n, room)
         IN /\ r.out # Unset => m \in Powers /\ r.out.bytes >= n /\ r.out.aligned \in Nat
                                /\ r.out.aligned % m = 0
            /\ r.err = -1 => m \in Powers /\ m > Page
            /\ r.err = EINVAL => m < PointerSize \/ m \notin Powers
<1> DEFINE r == posix_memalign(m, n, room)
           size == IF m < n THEN n ELSE m
           p == allocate(size, room)
<1>1. n \in Nat /\ SIZE_MAX \in Nat /\ PointerSize \in Nat \ {0} /\ Page \in Nat
      /\ pow2[SizeBits] = SIZE_MAX + 1
  BY Sizes
<1>2. CASE m < PointerSize \/ ~one_bit(m)
  <2>1. r = [err |-> EINVAL, out |-> Unset]
    BY <1>2 DEF posix_memalign, result
  <2>2. EINVAL # -1
    BY DEF EINVAL
  <2>3. m < PointerSize \/ m \notin Powers
    BY <1>2 DEF one_bit
  <2> QED
    BY <2>1, <2>2, <2>3
<1>3. CASE ~(m < PointerSize \/ ~one_bit(m))
  <2>1. m \in Powers
    BY <1>1, <1>3 DEF one_bit
  <2>2. size \in Nat /\ m <= size /\ n <= size /\ size <= pow2[SizeBits]
    BY <1>1
  <2>3. p # Unset => p.bytes = size /\ p.aligned = Min2(Class(size), Page)
    BY DEF allocate
  <2>4. r = IF p = Unset THEN [err |-> ENOMEM, out |-> Unset]
            ELSE IF p.aligned % m # 0 THEN [err |-> -1, out |-> Unset]
            ELSE [err |-> 0, out |-> p]
    BY <1>3 DEF posix_memalign, result, panics
  <2>5. m <= Page => Min2(Class(size), Page) % m = 0
    BY <2>1, <2>2, BlocksAligned
  <2>6. Min2(Class(size), Page) \in Nat
    BY <1>1, <2>2, ClassOf DEF Min2
  <2> HIDE DEF r, p, size
  <2>7. EINVAL # -1 /\ ENOMEM # -1 /\ ENOMEM # EINVAL /\ EINVAL # 0 /\ 0 # -1
    BY DEF EINVAL, ENOMEM
  <2>8. CASE p = Unset
    BY <2>4, <2>7, <2>8 DEF r
  <2>9. CASE p # Unset /\ p.aligned % m # 0
    <3>1. m > Page
      BY <1>1, <2>3, <2>5, <2>9
    <3> QED
      BY <2>1, <2>4, <2>7, <2>9, <3>1 DEF r
  <2>10. CASE p # Unset /\ p.aligned % m = 0
    <3>1. p.bytes >= n /\ p.aligned \in Nat
      BY <1>1, <2>2, <2>3, <2>6, <2>10
    <3> QED
      BY <2>1, <2>4, <2>7, <2>10, <3>1 DEF r
  <2> QED
    BY <2>8, <2>9, <2>10
<1> QED
  BY <1>2, <1>3

\* What divides a divisor divides.
LEMMA ModTransitive ==
  ASSUME NEW a \in Nat, NEW b \in Nat \ {0}, NEW c \in Nat \ {0}, a % b = 0, b % c = 0
  PROVE  a % c = 0
<1> DEFINE q == a \div b  t == b \div c
<1>1. q \in Nat /\ a = q * b
  OBVIOUS
<1>2. t \in Nat /\ b = t * c
  OBVIOUS
<1> HIDE DEF q, t
<1>3. a = (q * t) * c /\ q * t \in Nat
  BY <1>1, <1>2
<1> QED
  BY <1>3, MultipleMod

LEMMA AlignedAllocEnough ==
  ASSUME NEW m \in 0..SIZE_MAX, NEW n \in 0..SIZE_MAX, NEW room
  PROVE  LET r == aligned_alloc(m, n, room)
         IN /\ r.out # Unset => r.out.bytes >= n /\ (m # 0 => r.out.aligned % m = 0)
            /\ r.err = -1 => m > Page
            /\ r.err = EINVAL => m \notin Powers \/ n % m # 0
<1> DEFINE r == aligned_alloc(m, n, room)
           rest == IF m = 0 THEN n ELSE n % m
           a == IF m < PointerSize THEN PointerSize ELSE m
<1>1. m \in Nat /\ n \in Nat /\ SIZE_MAX \in Nat /\ PointerSize \in Nat \ {0} /\ Page \in Nat
      /\ pow2[SizeBits] = SIZE_MAX + 1
  BY Sizes
<1>2. CASE ~one_bit(m) \/ rest # 0
  <2>1. r = [err |-> EINVAL, out |-> Unset]
    BY <1>2 DEF aligned_alloc, result
  <2>2. EINVAL # -1
    BY DEF EINVAL
  <2>3. m \notin Powers \/ n % m # 0
    <3>1. CASE m = 0
      BY <3>1, Sizes
    <3>2. CASE m # 0
      BY <1>2, <3>2 DEF one_bit
    <3> QED
      BY <3>1, <3>2
  <2> QED
    BY <2>1, <2>2, <2>3
<1>3. CASE ~(~one_bit(m) \/ rest # 0)
  <2>1. r = posix_memalign(a, n, room)
    BY <1>3 DEF aligned_alloc
  <2>2. a \in Powers /\ a \in Nat \ {0} /\ a <= pow2[SizeBits] /\ PointerSize <= a
    BY <1>1, <1>3, Sizes DEF one_bit
  <2>3. a > Page => m > Page
    BY <1>1, Sizes
  <2>4. ~(a < PointerSize)
    BY <1>1, <2>2
  <2>5. m # 0 => m \in Powers /\ m \in Nat \ {0} /\ m <= a
    BY <1>1, <1>3 DEF one_bit
  <2>6. m # 0 => a % m = 0
    BY <2>2, <2>5, PowersDivide
  <2> HIDE DEF r, a
  <2>7. /\ r.out # Unset => r.out.bytes >= n /\ r.out.aligned \in Nat /\ r.out.aligned % a = 0
        /\ r.err = -1 => a > Page
        /\ r.err # EINVAL
    BY <2>1, <2>2, <2>4, MemalignEnough
  <2>8. r.out # Unset /\ m # 0 => r.out.aligned % m = 0
    BY <2>2, <2>5, <2>6, <2>7, ModTransitive
  <2> QED
    BY <2>3, <2>7, <2>8 DEF r
<1> QED
  BY <1>2, <1>3

-----------------------------------------------------------------------------
(* Time limits *)

\* The conversion to int keeps what fits and never gives more than the largest int.
LEMMA ToInt ==
  ASSUME NEW n \in Nat
  PROVE  /\ INT_MAX \in Nat
         /\ to_int(n) \in Int /\ to_int(n) <= INT_MAX
         /\ n <= INT_MAX => to_int(n) = n
<1> DEFINE half == pow2[IntBits - 1]  all == pow2[IntBits]
<1>1. IntBits - 1 \in Nat /\ (IntBits - 1) + 1 = IntBits
  BY IntBitsAssumption
<1>2. all = 2 * half /\ half \in Nat /\ half > 0
  BY <1>1, Pow2Def, Pow2Positive
<1>3. INT_MAX = half - 1
  BY DEF INT_MAX
<1>4. to_int(n) = IF n % all < half THEN n % all ELSE (n % all) - all
  BY DEF to_int
<1> HIDE DEF half, all
<1>5. n % all \in Nat /\ n % all < all
  BY <1>2
<1>6. n < all => n % all = n
  BY <1>2
<1> QED
  BY <1>2, <1>3, <1>4, <1>5, <1>6

\* poll's limit is the number of milliseconds it is given.
LEMMA PollLimit ==
  ASSUME NEW t \in Int
  PROVE  IF t < 0 THEN poll_limit(t) = NULL
         ELSE /\ poll_limit(t) # NULL
              /\ Millis(poll_limit(t)) = t /\ poll_limit(t).nsec < 1000000000
<1>1. CASE t < 0
  BY <1>1 DEF poll_limit
<1>2. CASE ~(t < 0)
  <2>1. poll_limit(t) = [sec |-> t \div 1000, nsec |-> (t % 1000) * 1000000]
    BY <1>2 DEF poll_limit
  <2>2. t \div 1000 \in Nat /\ (t % 1000) * 1000000 \in Nat
    BY <1>2
  <2>3. poll_limit(t) \in [sec : Nat, nsec : Nat]
    BY <2>1, <2>2
  <2>4. poll_limit(t) # NULL
    BY <2>3, NullAssumption
  <2>5. Millis(poll_limit(t)) = (t \div 1000) * 1000 + ((t % 1000) * 1000000) \div 1000000
    BY <2>1 DEF Millis
  <2>6. (t \div 1000) * 1000 + ((t % 1000) * 1000000) \div 1000000 = t
    BY <1>2
  <2>7. poll_limit(t).nsec < 1000000000
    BY <1>2, <2>1
  <2> QED
    BY <1>2, <2>4, <2>5, <2>6, <2>7
<1> QED
  BY <1>1, <1>2

LEMMA PollExact ==
  ASSUME NEW t \in Int, NEW fds, NEW k
  PROVE  sys_poll(fds, t, k).limit = poll_limit(t)
BY DEF sys_poll, sys_ppoll

LEMMA SleepExact ==
  ASSUME NEW s \in Nat, NEW n \in Nat, NEW k
  PROVE  LET ms == s * 1000 + n \div 1000000
             limit == sys_sleep(s, n, k).limit
         IN IF ms <= INT_MAX THEN limit # NULL /\ Millis(limit) = ms
            ELSE limit # NULL => Millis(limit) < ms
<1> DEFINE ms == s * 1000 + n \div 1000000  t == to_int(ms)
           limit == sys_sleep(s, n, k).limit
<1>1. ms \in Nat
  OBVIOUS
<1>2. limit = poll_limit(t)
  <2>1. limit = sys_poll(<<>>, t, k).limit
    BY DEF sys_sleep
  <2>2. t \in Int
    BY <1>1, ToInt
  <2> HIDE DEF limit, t
  <2> QED
    BY <2>1, <2>2, PollExact
<1> HIDE DEF ms, limit
<1>3. INT_MAX \in Nat /\ t \in Int /\ t <= INT_MAX /\ (ms <= INT_MAX => t = ms)
  BY <1>1, ToInt
<1> HIDE DEF t
<1>4. CASE ms <= INT_MAX
  <2>1. t = ms /\ ~(t < 0)
    BY <1>1, <1>3, <1>4
  <2>2. limit # NULL /\ Millis(limit) = ms
    BY <1>2, <1>3, <2>1, PollLimit
  <2> QED
    BY <1>4, <2>2 DEF ms, limit
<1>5. CASE ~(ms <= INT_MAX)
  <2>1. t < ms
    BY <1>1, <1>3, <1>5
  <2>2. limit # NULL => Millis(limit) = t
    BY <1>2, <1>3, PollLimit
  <2>3. limit # NULL => Millis(limit) < ms
    BY <2>1, <2>2
  <2> QED
    BY <1>5, <2>3 DEF ms, limit
<1> QED
  BY <1>4, <1>5

-----------------------------------------------------------------------------
(* pselect *)

\* What the kernel may report, for every descriptor, of a poll for sets.
Reported(sets, revents) ==
  /\ DOMAIN revents = 0..Nfds-1
  /\ \A i \in 0..Nfds-1 : revents[i] \in Reports(entries(Nfds, sets)[i])

\* A descriptor has a report of what it was asked for in some set, and of errors only if
\* it was asked about at all.
LEMMA ReportsAre ==
  ASSUME NEW sets \in Sets, NEW revents, Reported(sets, revents), NEW i \in 0..Nfds-1,
         NEW e \in revents[i]
  PROVE  /\ \E s \in DOMAIN sets : i \in sets[s]
         /\ \/ e \in {"POLLERR", "POLLHUP", "POLLNVAL"}
            \/ \E s \in DOMAIN sets : i \in sets[s] /\ e = Event[s]
<1>1. i \in Int /\ i >= 0
  BY CallsAssumption
<1>2. entries(Nfds, sets)[i] = [fd     |-> IF events(sets, i) = {} THEN -1 ELSE i,
                                events |-> events(sets, i)]
  BY DEF entries
<1>3. revents[i] \in Reports(entries(Nfds, sets)[i])
  BY DEF Reported
<1>4. events(sets, i) # {}
  <2>1. SUFFICES ASSUME events(sets, i) = {} PROVE FALSE
    OBVIOUS
  <2>2. entries(Nfds, sets)[i].fd = -1
    BY <1>2, <2>1
  <2>3. revents[i] = {}
    BY <1>3, <2>2 DEF Reports
  <2> QED
    BY <2>3
<1>5. entries(Nfds, sets)[i].fd = i /\ entries(Nfds, sets)[i].events = events(sets, i)
  BY <1>2, <1>4
<1>6. e \in events(sets, i) \cup {"POLLERR", "POLLHUP", "POLLNVAL"}
  BY <1>1, <1>3, <1>5 DEF Reports
<1>7. \A x \in events(sets, i) : \E s \in DOMAIN sets : i \in sets[s] /\ x = Event[s]
  BY DEF events
<1> QED
  BY <1>4, <1>6, <1>7

LEMMA SetsAre ==
  ASSUME NEW sets \in Sets
  PROVE  DOMAIN sets \subseteq {"read", "write", "except"}
         /\ \A s \in DOMAIN sets : sets[s] \subseteq 0..Nfds-1
<1>1. PICK given \in SUBSET DOMAIN Event : sets \in [given -> SUBSET (0..Nfds-1)]
  BY DEF Sets
<1>2. DOMAIN Event = {"read", "write", "except"}
  BY DEF Event
<1> QED
  BY <1>1, <1>2

\* A set keeps the descriptors that were in it and are ready for it.
LEMMA ReadyIs ==
  ASSUME NEW sets \in Sets, NEW revents, NEW s \in DOMAIN sets, NEW i \in 0..Nfds-1
  PROVE  i \in ready(Nfds, sets, revents)[s] <=>
           /\ i \in sets[s]
           /\ \/ Event[s] \in revents[i]
              \/ s # "except" /\ {"POLLERR", "POLLHUP"} \cap revents[i] # {}
<1>1. ready(Nfds, sets, revents)[s]
        = {n \in sets[s] \cap 0..Nfds-1 : revents[n] \cap Counted[s] # {}}
  BY DEF ready
<1>2. i \in ready(Nfds, sets, revents)[s] <=> i \in sets[s] /\ revents[i] \cap Counted[s] # {}
  BY <1>1
<1>3. s \in {"read", "write", "except"}
  BY SetsAre
<1>4. revents[i] \cap Counted[s] # {} <=>
        \/ Event[s] \in revents[i]
        \/ s # "except" /\ {"POLLERR", "POLLHUP"} \cap revents[i] # {}
  <2>1. CASE s = "read"
    BY <2>1 DEF Counted, Event
  <2>2. CASE s = "write"
    BY <2>2 DEF Counted, Event
  <2>3. CASE s = "except"
    BY <2>3 DEF Counted, Event
  <2> QED
    BY <1>3, <2>1, <2>2, <2>3
<1> QED
  BY <1>2, <1>4

\* What SelectExact says of a call that succeeds.
LEMMA ReadyExact ==
  ASSUME NEW sets \in Sets, NEW revents, Reported(sets, revents)
  PROVE  LET left     == UNION {ready(Nfds, sets, revents)[s] :
                                  s \in DOMAIN ready(Nfds, sets, revents)}
             asked    == UNION {sets[s] : s \in DOMAIN sets}
             reported == {i \in 0..Nfds-1 : revents[i] # {}}
         IN /\ DOMAIN ready(Nfds, sets, revents) = DOMAIN sets
            /\ left \subseteq reported /\ reported \subseteq asked
            /\ polled(revents).ret = Cardinality(reported)
            /\ \A i \in reported \ left :
                 \/ revents[i] = {"POLLNVAL"}
                 \/ \A s \in DOMAIN sets : i \in sets[s] => s = "except"
<1> DEFINE res_sets == ready(Nfds, sets, revents)
           left     == UNION {res_sets[s] : s \in DOMAIN res_sets}
           asked    == UNION {sets[s] : s \in DOMAIN sets}
           reported == {i \in 0..Nfds-1 : revents[i] # {}}
<1>1. DOMAIN res_sets = DOMAIN sets
  BY DEF ready
<1>2. polled(revents).ret = Cardinality(reported)
  BY DEF polled, Reported
<1>3. \A s \in DOMAIN sets : res_sets[s] \subseteq 0..Nfds-1
  BY DEF ready
<1>4. \A s \in DOMAIN sets : \A i \in 0..Nfds-1 :
        i \in res_sets[s] <=>
          /\ i \in sets[s]
          /\ \/ Event[s] \in revents[i]
             \/ s # "except" /\ {"POLLERR", "POLLHUP"} \cap revents[i] # {}
  BY ReadyIs
<1> HIDE DEF res_sets
<1>5. left \subseteq reported
  BY <1>1, <1>3, <1>4
<1>6. reported \subseteq asked
  BY ReportsAre
<1>7. ASSUME NEW i \in reported \ left, NEW s \in DOMAIN sets, i \in sets[s], s # "except"
      PROVE  revents[i] = {"POLLNVAL"}
  <2>1. i \in 0..Nfds-1 /\ revents[i] # {}
    OBVIOUS
  <2>2. \A t \in DOMAIN sets : i \notin res_sets[t]
    BY <1>1
  <2>3. {"POLLERR", "POLLHUP"} \cap revents[i] = {}
    BY <1>4, <1>7, <2>1, <2>2
  <2>4. \A t \in DOMAIN sets : i \in sets[t] => Event[t] \notin revents[i]
    BY <1>4, <2>1, <2>2
  <2>5. ASSUME NEW e \in revents[i] PROVE e = "POLLNVAL"
    BY <2>1, <2>3, <2>4, ReportsAre
  <2> QED
    BY <2>1, <2>5
<1>8. \A i \in reported \ left :
        \/ revents[i] = {"POLLNVAL"}
        \/ \A s \in DOMAIN sets : i \in sets[s] => s = "except"
  BY <1>7
<1> QED
  BY <1>1, <1>2, <1>5, <1>6, <1>8 DEF res_sets

-----------------------------------------------------------------------------
(* The reader of mount tables *)

\* Mount tables: only the last line may lack its newline.
AnyLine == [kind : {"entry", "comment", "blank"}, nums : Seq(Nat), nl : BOOLEAN, long : BOOLEAN]
Files   == {file \in Seq(AnyLine) : \A n \in 1..Len(file)-1 : file[n].nl}

\* Calls of getmntent_r, under way or returned.
Readings == [file : Files, start : Nat, pos : Nat, internal : BOOLEAN, mnt : [1..2 -> Nat]]

\* The lines up to top, from where the call began, that give number c.
Giving(r, c, top) == {n \in (r.start + 1)..top : Len(r.file[n].nums) >= c}

\* Number c is 0, or what the last of these lines gives.
LastGiven(r, c, top) ==
  \/ Giving(r, c, top) = {} /\ r.mnt[c] = 0
  \/ \E n \in Giving(r, c, top) : /\ r.mnt[c] = r.file[n].nums[c]
                                  /\ \A k \in Giving(r, c, top) : k <= n

\* A call under way has passed over no entry, and its numbers are those of the lines
\* that it has passed over.
ReadOK(r) ==
  /\ r \in Readings
  /\ r.start <= r.pos /\ r.pos <= Len(r.file)
  /\ \A n \in (r.start + 1)..r.pos : r.file[n].kind # "entry"
  /\ \A c \in 1..2 : LastGiven(r, c, r.pos)

\* The inductive invariant: a call of getmntent is one, and satisfies ReadOK until it
\* has a result.
MntInv ==
  call # Unset /\ call.f = "getmntent" =>
    call \in [f : {"getmntent"}, r : Readings] /\ (res = Unset => ReadOK(call.r))

\* A table that the model reads is one.
LEMMA MountsAreFiles ==
  ASSUME NEW file \in Mounts, NEW end \in BOOLEAN
  PROVE  /\ file \in Seq(Lines)
         /\ (IF end \/ file = <<>> THEN file ELSE [file EXCEPT ![Len(file)].nl = FALSE]) \in Files
         /\ Len(IF end \/ file = <<>> THEN file ELSE [file EXCEPT ![Len(file)].nl = FALSE])
              = Len(file)
<1>1. PICK m \in 0..MaxLines : file \in [1..m -> Lines]
  BY DEF Mounts
<1>2. m \in Nat
  BY CallsAssumption
<1>3. file \in Seq(Lines) /\ Len(file) = m
  BY <1>1, <1>2, SeqDef, LenProperties
<1>4. ASSUME NEW line \in Lines PROVE line \in AnyLine /\ line.nl
  <2> DEFINE three == {<<>>, <<1>>, <<2, 3>>}  none == <<>>
  <2>1. three \subseteq Seq(Nat) /\ none \in Seq(Nat)
    OBVIOUS
  <2>2. \/ line \in [kind : {"entry", "comment"}, nums : three, nl : {TRUE}, long : BOOLEAN]
        \/ line = [kind |-> "blank", nums |-> none, nl |-> TRUE, long |-> FALSE]
    BY DEF Lines
  <2> HIDE DEF three, none
  <2>3. CASE line \in [kind : {"entry", "comment"}, nums : three, nl : {TRUE}, long : BOOLEAN]
    BY <2>1, <2>3 DEF AnyLine
  <2>4. CASE line = [kind |-> "blank", nums |-> none, nl |-> TRUE, long |-> FALSE]
    BY <2>1, <2>4 DEF AnyLine
  <2> QED
    BY <2>2, <2>3, <2>4
<1>5. file \in Seq(AnyLine) /\ \A n \in 1..Len(file) : file[n].nl
  <2>1. file \in [1..m -> AnyLine]
    BY <1>1, <1>4
  <2>2. file \in Seq(AnyLine)
    BY <1>2, <2>1, SeqDef
  <2> QED
    BY <1>1, <1>3, <1>4, <2>2
<1>6. file \in Files
  BY <1>3, <1>5 DEF Files
<1>7. CASE end \/ file = <<>>
  BY <1>3, <1>6, <1>7
<1>8. CASE ~(end \/ file = <<>>)
  <2> DEFINE g == [file EXCEPT ![Len(file)].nl = FALSE]
  <2>1. m # 0
    BY <1>1, <1>2, <1>3, <1>8, EmptySeq
  <2>2. file[m] \in AnyLine
    BY <1>1, <1>2, <1>4, <2>1
  <2>3. [file[m] EXCEPT !.nl = FALSE] \in AnyLine
    BY <2>2 DEF AnyLine
  <2> DEFINE last == [file[m] EXCEPT !.nl = FALSE]
  <2>4. g = [file EXCEPT ![m] = last]
    BY <1>3
  <2> HIDE DEF last, g
  <2>5. g \in [1..m -> AnyLine] /\ \A n \in 1..m-1 : g[n] = file[n]
    <3>1. last \in AnyLine
      BY <2>3 DEF last
    <3>2. file \in [1..m -> AnyLine]
      BY <1>1, <1>4
    <3>3. g \in [1..m -> AnyLine]
      BY ONLY <2>4, <3>1, <3>2
    <3>4. ASSUME NEW n \in 1..m-1 PROVE g[n] = file[n]
      <4>1. n \in 1..m /\ n # m
        BY <1>2
      <4> QED
        BY ONLY <2>4, <3>2, <4>1
    <3> QED
      BY <3>3, <3>4
  <2>6. g \in Seq(AnyLine) /\ Len(g) = m
    BY <1>2, <2>5, SeqDef, LenProperties
  <2>7. g \in Files
    <3>1. \A n \in 1..m-1 : file[n].nl
      BY <1>2, <1>3, <1>5
    <3>2. \A n \in 1..m-1 : g[n].nl
      BY <2>5, <3>1
    <3> QED
      BY <2>6, <3>2 DEF Files
  <2> QED
    BY <1>3, <1>8, <2>6, <2>7 DEF g
<1> QED
  BY <1>7, <1>8

\* A call begins with nothing passed over.
LEMMA ReadingBegins ==
  ASSUME NEW file \in Files, NEW pos \in 0..Len(file),
         NEW r \in {getmntent(file, pos), getmntent_r(file, pos)}
  PROVE  ReadOK(r)
<1>1. file \in Seq(AnyLine) /\ Len(file) \in Nat /\ pos \in Nat /\ pos <= Len(file)
  BY DEF Files
<1>2. <<0, 0>> \in [1..2 -> Nat] /\ <<0, 0>>[1] = 0 /\ <<0, 0>>[2] = 0
  OBVIOUS
<1>3. /\ r.file = file /\ r.start = pos /\ r.pos = pos /\ r.mnt = <<0, 0>>
      /\ r = [file |-> file, start |-> pos, pos |-> pos, internal |-> r.internal,
              mnt |-> <<0, 0>>]
      /\ r.internal \in BOOLEAN
  <2>1. CASE r = getmntent(file, pos)
    BY <2>1 DEF getmntent
  <2>2. CASE r = getmntent_r(file, pos)
    BY <2>2 DEF getmntent, getmntent_r
  <2> QED
    BY <2>1, <2>2
<1>4. r \in Readings
  <2> DEFINE z == <<0, 0>>  b == r.internal
  <2>1. z \in [1..2 -> Nat] /\ b \in BOOLEAN
        /\ r = [file |-> file, start |-> pos, pos |-> pos, internal |-> b, mnt |-> z]
    BY <1>2, <1>3
  <2> HIDE DEF z, b
  <2> QED
    BY <1>1, <2>1 DEF Readings
<1>5. (r.start + 1)..r.pos = {}
  BY <1>1, <1>3
<1>6. \A c \in 1..2 : Giving(r, c, r.pos) = {} /\ r.mnt[c] = 0
  BY <1>2, <1>3, <1>5 DEF Giving
<1> QED
  BY <1>1, <1>3, <1>4, <1>5, <1>6 DEF ReadOK, LastGiven

\* What NextEntryRead says of a call that has returned out.
EntryRead(r, out) ==
  /\ \A n \in Passed(r) : r.file[n].kind # "entry"
  /\ IF out.entry # 0
     THEN /\ out.entry = r.pos /\ r.file[r.pos].kind = "entry"
          /\ \A c \in 1..2 :
               \/ c <= Len(r.file[r.pos].nums) /\ r.mnt[c] = r.file[r.pos].nums[c]
               \/ c > Len(r.file[r.pos].nums) /\ LastGiven(r, c, r.pos - 1)
     ELSE \/ r.pos = Len(r.file)
             /\ (r.pos > r.start => r.file[r.pos].kind # "entry" \/ ~r.file[r.pos].nl)
          \/ r.file[r.pos].long /\ ~r.internal

\* A round of the loop at the end of the table.
LEMMA ReadAtEnd ==
  ASSUME NEW r, ReadOK(r), r.pos = Len(r.file)
  PROVE  /\ read_line(r) = <<r, [entry |-> 0, errno |-> "eof"]>>
         /\ \A out : out.entry = 0 => EntryRead(r, out)
<1>1. r.start \in Nat /\ r.pos \in Nat /\ r.start <= r.pos
  BY DEF ReadOK, Readings
<1>2. \A n \in (r.start + 1)..r.pos : r.file[n].kind # "entry"
  BY DEF ReadOK
<1>3. \A n \in Passed(r) : n \in (r.start + 1)..r.pos
  BY <1>1 DEF Passed
<1>4. r.pos > r.start => r.pos \in (r.start + 1)..r.pos
  BY <1>1
<1> QED
  BY <1>2, <1>3, <1>4 DEF read_line, EntryRead

\* The call after a line that is not scanned, and after one that is.
At(r)       == [r EXCEPT !.pos = @ + 1]
Scanned(r)  == [At(r) EXCEPT !.mnt = scanned(@, r.file[r.pos + 1].nums)]

LEMMA LineFacts ==
  ASSUME NEW r, ReadOK(r), r.pos # Len(r.file)
  PROVE  /\ r.start \in Nat /\ r.pos \in Nat /\ r.start <= r.pos
         /\ Len(r.file) \in Nat /\ r.pos + 1 \in 1..Len(r.file)
         /\ r.file[r.pos + 1] \in AnyLine /\ Len(r.file[r.pos + 1].nums) \in Nat
         /\ ~r.file[r.pos + 1].nl => r.pos + 1 = Len(r.file)
         /\ At(r) \in Readings /\ Scanned(r) \in Readings
         /\ At(r).file = r.file /\ At(r).start = r.start /\ At(r).pos = r.pos + 1
         /\ At(r).internal = r.internal
         /\ Scanned(r).file = r.file /\ Scanned(r).start = r.start
         /\ Scanned(r).pos = r.pos + 1 /\ Scanned(r).internal = r.internal
         /\ Scanned(r).mnt = scanned(r.mnt, r.file[r.pos + 1].nums)
<1>1. /\ r \in Readings
      /\ r.start \in Nat /\ r.pos \in Nat /\ r.start <= r.pos /\ r.pos <= Len(r.file)
      /\ r.file \in Files /\ r.mnt \in [1..2 -> Nat]
  BY DEF ReadOK, Readings
<1>2. r.file \in Seq(AnyLine) /\ \A n \in 1..Len(r.file)-1 : r.file[n].nl
  BY <1>1 DEF Files
<1>3. Len(r.file) \in Nat
  BY <1>2
<1>4. r.pos + 1 \in 1..Len(r.file)
  BY <1>1, <1>3
<1>5. r.file[r.pos + 1] \in AnyLine
  BY <1>2, <1>4
<1>a. Len(r.file[r.pos + 1].nums) \in Nat
  <2>1. r.file[r.pos + 1].nums \in Seq(Nat)
    BY <1>5 DEF AnyLine
  <2> QED
    BY <2>1
<1>6. ~r.file[r.pos + 1].nl => r.pos + 1 = Len(r.file)
  BY <1>2, <1>3, <1>4
<1>7. scanned(r.mnt, r.file[r.pos + 1].nums) \in [1..2 -> Nat]
  <2> DEFINE nums == r.file[r.pos + 1].nums
  <2>1. nums \in Seq(Nat)
    BY <1>5 DEF AnyLine
  <2> HIDE DEF nums
  <2>2. ASSUME NEW c \in 1..2 PROVE (IF c <= Len(nums) THEN nums[c] ELSE r.mnt[c]) \in Nat
    <3>1. CASE c <= Len(nums)
      BY <2>1, <3>1
    <3>2. CASE ~(c <= Len(nums))
      BY <1>1, <3>2
    <3> QED
      BY <3>1, <3>2
  <2>3. scanned(r.mnt, nums) \in [1..2 -> Nat]
    BY <2>2 DEF scanned
  <2> QED
    BY <2>3 DEF nums
<1>8. At(r) \in Readings
      /\ At(r).file = r.file /\ At(r).start = r.start /\ At(r).pos = r.pos + 1
      /\ At(r).internal = r.internal /\ At(r).mnt = r.mnt
  BY <1>1 DEF At, Readings
<1>9. /\ Scanned(r) \in Readings
      /\ Scanned(r).file = r.file /\ Scanned(r).start = r.start
      /\ Scanned(r).pos = r.pos + 1 /\ Scanned(r).internal = r.internal
      /\ Scanned(r).mnt = scanned(r.mnt, r.file[r.pos + 1].nums)
  <2> DEFINE m == scanned(r.mnt, r.file[r.pos + 1].nums)
  <2>1. Scanned(r) = [At(r) EXCEPT !.mnt = m]
    BY <1>8 DEF Scanned
  <2> HIDE DEF m
  <2>2. m \in [1..2 -> Nat]
    BY <1>7 DEF m
  <2>3. /\ Scanned(r) \in Readings
        /\ Scanned(r).file = r.file /\ Scanned(r).start = r.start
        /\ Scanned(r).pos = r.pos + 1 /\ Scanned(r).internal = r.internal
        /\ Scanned(r).mnt = m
    BY <1>8, <2>1, <2>2 DEF Readings
  <2> QED
    BY <2>3 DEF m
<1> QED
  BY <1>1, <1>3, <1>4, <1>5, <1>a, <1>6, <1>8, <1>9

\* A number that a line does not give keeps its value, and its line.
LEMMA KeepsGiven ==
  ASSUME NEW r, ReadOK(r), r.pos # Len(r.file), NEW c \in 1..2,
         ~(c <= Len(r.file[r.pos + 1].nums))
  PROVE  /\ LastGiven(Scanned(r), c, r.pos)
         /\ LastGiven(Scanned(r), c, r.pos + 1)
<1> DEFINE s == Scanned(r)  p == r.pos + 1
<1>1. s.file = r.file /\ s.start = r.start /\ s.mnt = scanned(r.mnt, r.file[p].nums)
      /\ r.pos \in Nat /\ r.start \in Nat
  BY LineFacts
<1>2. s.mnt[c] = r.mnt[c]
  BY <1>1 DEF scanned
<1> HIDE DEF s
<1>3. Giving(s, c, r.pos) = Giving(r, c, r.pos)
  BY <1>1 DEF Giving
<1>4. Len(r.file[p].nums) \in Nat
  BY LineFacts
<1>5. Giving(s, c, p) = Giving(r, c, r.pos)
  <2>1. ASSUME NEW n \in (r.start + 1)..p, Len(r.file[n].nums) >= c
        PROVE  n \in (r.start + 1)..r.pos
    <3>1. n # p
      BY <1>4, <2>1
    <3> QED
      BY <1>1, <3>1
  <2>2. \A n \in (r.start + 1)..r.pos : n \in (r.start + 1)..p
    BY <1>1
  <2> QED
    BY <1>1, <2>1, <2>2 DEF Giving
<1>6. LastGiven(r, c, r.pos)
  BY DEF ReadOK
<1>7. LastGiven(s, c, r.pos) /\ LastGiven(s, c, p)
  BY <1>1, <1>2, <1>3, <1>5, <1>6 DEF LastGiven
<1> QED
  BY <1>7 DEF s

\* A line that is passed over leaves the call as it should be.
LEMMA ReadOver ==
  ASSUME NEW r, ReadOK(r), r.pos # Len(r.file), r.file[r.pos + 1].kind # "entry"
  PROVE  ReadOK(Scanned(r))
<1> DEFINE s == Scanned(r)  p == r.pos + 1  nums == r.file[p].nums
<1>1. /\ s \in Readings /\ s.file = r.file /\ s.start = r.start /\ s.pos = p
      /\ s.mnt = scanned(r.mnt, nums)
      /\ r.pos \in Nat /\ r.start \in Nat /\ r.start <= r.pos
      /\ Len(r.file) \in Nat /\ p \in 1..Len(r.file)
  BY LineFacts
<1>2. ASSUME NEW n \in (r.start + 1)..p PROVE r.file[n].kind # "entry"
  <2>1. CASE n = p
    BY <2>1
  <2>2. CASE n # p
    <3>1. n \in (r.start + 1)..r.pos
      BY <1>1, <2>2
    <3> QED
      BY <3>1 DEF ReadOK
  <2> QED
    BY <2>1, <2>2
<1>3. ASSUME NEW c \in 1..2 PROVE LastGiven(s, c, p)
  <2>1. CASE c <= Len(nums)
    <3>1. s.mnt[c] = r.file[p].nums[c]
      BY <1>1, <2>1 DEF scanned
    <3> HIDE DEF s
    <3>2. \A n \in Giving(s, c, p) : n <= p
      BY <1>1 DEF Giving
    <3>3. p \in Giving(s, c, p)
      <4>1. Len(nums) \in Nat
        BY LineFacts
      <4>2. Len(r.file[p].nums) >= c
        BY <2>1, <4>1
      <4>3. p \in (r.start + 1)..p
        BY <1>1
      <4> QED
        BY <1>1, <4>2, <4>3 DEF Giving
    <3> QED
      BY <1>1, <3>1, <3>2, <3>3 DEF LastGiven
  <2>2. CASE ~(c <= Len(nums))
    BY <2>2, KeepsGiven
  <2> QED
    BY <2>1, <2>2
<1> HIDE DEF s
<1>4. s.start <= s.pos /\ s.pos <= Len(s.file)
  BY <1>1
<1>5. ReadOK(s)
  BY <1>1, <1>2, <1>3, <1>4 DEF ReadOK
<1> QED
  BY <1>5 DEF s

\* What has been read when a call ends at the next line.
LEMMA ReadTo ==
  ASSUME NEW r, ReadOK(r), r.pos # Len(r.file),
         NEW s \in {At(r), Scanned(r)}, NEW n \in Passed(s)
  PROVE  s.file[n].kind # "entry"
<1>1. s.file = r.file /\ s.start = r.start /\ s.pos = r.pos + 1 /\ r.pos \in Nat
      /\ r.start \in Nat
  BY LineFacts
<1>2. n \in (r.start + 1)..r.pos
  BY <1>1 DEF Passed
<1> QED
  BY <1>1, <1>2 DEF ReadOK

LEMMA ReadEntry ==
  ASSUME NEW r, ReadOK(r), r.pos # Len(r.file), r.file[r.pos + 1].kind = "entry",
         NEW out, out.entry = r.pos + 1
  PROVE  EntryRead(Scanned(r), out)
<1> DEFINE s == Scanned(r)  p == r.pos + 1  nums == r.file[p].nums
<1>1. /\ s.file = r.file /\ s.pos = p /\ s.mnt = scanned(r.mnt, nums) /\ r.pos \in Nat
      /\ p - 1 = r.pos /\ p # 0
  BY LineFacts
<1>2. Len(nums) \in Nat
  BY LineFacts
<1>3. ASSUME NEW c \in 1..2
      PROVE  \/ c <= Len(nums) /\ s.mnt[c] = nums[c]
             \/ c > Len(nums) /\ LastGiven(s, c, r.pos)
  <2>1. CASE c <= Len(nums)
    BY <1>1, <2>1 DEF scanned
  <2>2. CASE ~(c <= Len(nums))
    <3>1. c > Len(nums)
      BY <1>2, <2>2
    <3>2. LastGiven(s, c, r.pos)
      BY <2>2, KeepsGiven
    <3> QED
      BY <3>1, <3>2
  <2> QED
    BY <2>1, <2>2
<1>4. \A n \in Passed(s) : s.file[n].kind # "entry"
  BY ReadTo
<1> HIDE DEF s
<1>5. EntryRead(s, out)
  BY <1>1, <1>3, <1>4 DEF EntryRead
<1> QED
  BY <1>5 DEF s

\* One round of the loop: the call goes on as it should be, or returns what it should.
LEMMA ReadLine ==
  ASSUME NEW r, ReadOK(r)
  PROVE  LET next == read_line(r)
         IN /\ next[1] \in Readings
            /\ IF next[2].errno = "again" THEN ReadOK(next[1])
               ELSE EntryRead(next[1], next[2]) /\ next[2] # Unset
<1> DEFINE next == read_line(r)  line == r.file[r.pos + 1]
           null(errno) == [entry |-> 0, errno |-> errno]
<1>0. /\ null("eof") # Unset /\ null("ERANGE") # Unset
      /\ \A n \in Nat : [entry |-> n, errno |-> "none"] # Unset
  BY CallsAssumption
<1>1. CASE r.pos = Len(r.file)
  <2>1. next = <<r, null("eof")>> /\ EntryRead(r, null("eof"))
    BY <1>1, ReadAtEnd
  <2>2. r \in Readings
    BY DEF ReadOK
  <2> QED
    BY <1>0, <2>1, <2>2
<1>2. CASE r.pos # Len(r.file)
  <2> DEFINE s == Scanned(r)  a == At(r)
  <2>1. next = IF line.long /\ ~r.internal THEN <<a, null("ERANGE")>>
               ELSE IF ~line.nl THEN <<a, null("eof")>>
               ELSE IF passes_over(line) THEN <<s, [entry |-> 0, errno |-> "again"]>>
               ELSE <<s, [entry |-> s.pos, errno |-> "none"]>>
    <3>1. r.pos \in Nat
      BY LineFacts
    <3>2. s = [[r EXCEPT !.pos = @ + 1] EXCEPT !.mnt = scanned(@, line.nums)]
      BY DEF Scanned, At
    <3> QED
      BY <1>2, <3>2 DEF read_line, At
  <2>2. /\ a \in Readings /\ s \in Readings
        /\ a.file = r.file /\ a.start = r.start /\ a.pos = r.pos + 1 /\ a.internal = r.internal
        /\ s.pos = r.pos + 1
        /\ line.kind \in {"entry", "comment", "blank"}
        /\ ~line.nl => r.pos + 1 = Len(r.file)
    BY <1>2, LineFacts DEF AnyLine
  <2>3. \A n \in Passed(a) : a.file[n].kind # "entry"
    BY <1>2, ReadTo
  <2>4. CASE ~line.nl /\ ~(line.long /\ ~r.internal)
    <3>1. next = <<a, null("eof")>>
      BY <2>1, <2>4
    <3> HIDE DEF a, s
    <3>2. \A out : out.entry = 0 => EntryRead(a, out)
      BY <2>2, <2>3, <2>4 DEF EntryRead
    <3> QED
      BY <1>0, <2>2, <3>1, <3>2
  <2>5. CASE line.long /\ ~r.internal
    <3>1. next = <<a, null("ERANGE")>>
      BY <2>1, <2>5
    <3> HIDE DEF a, s
    <3>2. \A out : out.entry = 0 => EntryRead(a, out)
      BY <2>2, <2>3, <2>5 DEF EntryRead
    <3> QED
      BY <1>0, <2>2, <3>1, <3>2
  <2>6. CASE line.nl /\ ~(line.long /\ ~r.internal) /\ passes_over(line)
    <3>1. next = <<s, [entry |-> 0, errno |-> "again"]>>
      BY <2>1, <2>6
    <3>2. ReadOK(s)
      BY <1>2, <2>6, ReadOver DEF passes_over
    <3> HIDE DEF a, s
    <3> QED
      BY <2>2, <3>1, <3>2
  <2>7. CASE line.nl /\ ~(line.long /\ ~r.internal) /\ ~passes_over(line)
    <3>1. next = <<s, [entry |-> r.pos + 1, errno |-> "none"]>>
      BY <2>1, <2>2, <2>7
    <3>2. line.kind = "entry"
      BY <2>2, <2>7 DEF passes_over
    <3>3. \A out : out.entry = r.pos + 1 => EntryRead(s, out)
      BY <1>2, <3>2, ReadEntry
    <3>4. r.pos + 1 \in Nat
      BY <1>2, LineFacts
    <3> HIDE DEF a, s
    <3> QED
      BY <1>0, <2>2, <3>1, <3>3, <3>4
  <2> QED
    BY <2>4, <2>5, <2>6, <2>7
<1> QED
  BY <1>1, <1>2

-----------------------------------------------------------------------------
(* Flattened sequences *)

\* f[n] is what the first n members of t make when they are joined.
Joins(f, t, S) ==
  /\ f \in [Nat -> Seq(S)] /\ f[0] = <<>>
  /\ \A n \in 1..Len(t) : f[n] = f[n - 1] \o t[n]

\* The empty sequence adds nothing.
LEMMA EmptyAdds ==
  ASSUME NEW S, NEW s \in Seq(S), NEW e, e = <<>>
  PROVE  e \o s = s /\ s \o e = s
BY ConcatEmptySeq, Zenon

LEMMA JoinsExist ==
  ASSUME NEW S, NEW t \in Seq(Seq(S))
  PROVE  \E f : Joins(f, t, S)
<1> DEFINE step == [n \in Nat |-> [v \in Seq(S) |-> IF n \in 1..Len(t) THEN v \o t[n] ELSE v]]
<1>1. ASSUME NEW n \in Nat, NEW v \in Seq(S)
      PROVE  (IF n \in 1..Len(t) THEN v \o t[n] ELSE v) \in Seq(S)
  BY ConcatProperties
<1>2. step \in Steps(Seq(S))
  BY <1>1 DEF Steps
<1>3. \A n \in 1..Len(t) : \A v \in Seq(S) : step[n][v] = v \o t[n]
  OBVIOUS
<1> HIDE DEF step
<1>4. <<>> \in Seq(S)
  OBVIOUS
<1>5. PICK f : Follows(f, Seq(S), <<>>, step)
  BY <1>2, <1>4, Recursion
<1>6. \A n \in 1..Len(t) : f[n] = f[n - 1] \o t[n]
  <2> TAKE n \in 1..Len(t)
  <2>1. n \in Nat \ {0} /\ n - 1 \in Nat
    OBVIOUS
  <2>2. f[n - 1] \in Seq(S) /\ f[n] = step[n][f[n - 1]]
    BY <1>5, <2>1 DEF Follows
  <2> QED
    BY <1>3, <2>2
<1> QED
  BY <1>5, <1>6 DEF Follows, Joins

\* FlattenSeq joins all of them.
LEMMA FlattenIs ==
  ASSUME NEW S, NEW t \in Seq(Seq(S)), NEW f, Joins(f, t, S)
  PROVE  FlattenSeq(t) = f[Len(t)]
<1> DEFINE L == Len(t)
           F(g) == [i \in 1..L |-> IF i = 1 THEN t[i] ELSE g[i - 1] \o t[i]]
           fl == CHOOSE g : g = F(g)
<1>0. L \in Nat
  OBVIOUS
<1>1. CASE L = 0
  <2>1. t = <<>>
    BY <1>1
  <2> QED
    BY <1>1, <2>1 DEF FlattenSeq, Joins
<1>2. CASE L # 0
  <2>1. FlattenSeq(t) = fl[L]
    BY <1>2 DEF FlattenSeq
  <2>2. fl = F(fl)
    <3> DEFINE h == [i \in 1..L |-> f[i]]
    <3>1. ASSUME NEW i \in 1..L
          PROVE  f[i] = IF i = 1 THEN t[i] ELSE h[i - 1] \o t[i]
      <4>1. f[i] = f[i - 1] \o t[i]
        BY DEF Joins
      <4>2. CASE i = 1
        <5>1. f[0] = <<>>
          BY DEF Joins
        <5>2. t[1] \in Seq(S)
          BY <4>2
        <5>3. f[0] \o t[1] = t[1]
          BY <5>1, <5>2, EmptyAdds, Zenon
        <5>4. i - 1 = 0
          BY <4>2
        <5> QED
          BY <4>1, <4>2, <5>3, <5>4
      <4>3. CASE i # 1
        <5>1. i - 1 \in 1..L
          BY <1>0, <4>3
        <5> QED
          BY <4>1, <4>3, <5>1
      <4> QED
        BY <4>2, <4>3
    <3>2. h = F(h)
      BY <3>1
    <3> HIDE DEF h, F
    <3> QED
      BY <3>2
  <2> HIDE DEF fl
  <2>3. \A i \in 1..L : fl[i] = IF i = 1 THEN t[i] ELSE fl[i - 1] \o t[i]
    BY <2>2
  <2> DEFINE G == {n \in Nat : n + 1 <= L => fl[n + 1] = f[n + 1]}
  <2>4. 0 \in G
    <3>1. 1 \in 1..L
      BY <1>0, <1>2
    <3>2. fl[1] = t[1] /\ t[1] \in Seq(S)
      BY <2>3, <3>1
    <3>3. \A n \in 1..L : f[n] = f[n - 1] \o t[n]
      BY DEF Joins
    <3>4. f[1] = f[0] \o t[1]
      <4>1. 1 - 1 = 0
        OBVIOUS
      <4> HIDE DEF L
      <4> QED
        BY <3>1, <3>3, <4>1
    <3>5. f[0] \o t[1] = t[1]
      <4>1. f[0] = <<>>
        BY DEF Joins
      <4> QED
        BY <3>2, <4>1, EmptyAdds, Zenon
    <3>6. fl[0 + 1] = f[0 + 1]
      BY <3>2, <3>4, <3>5
    <3> QED
      BY <3>6
  <2>5. ASSUME NEW n \in Nat, n \in G PROVE n + 1 \in G
    <3>1. SUFFICES ASSUME n + 2 <= L PROVE fl[n + 2] = f[n + 2]
      OBVIOUS
    <3>2. n + 2 \in 1..L /\ n + 2 # 1 /\ (n + 2) - 1 = n + 1 /\ n + 1 <= L
      BY <1>0, <3>1
    <3>3. fl[n + 1] = f[n + 1]
      BY <2>5, <3>2
    <3>4. fl[n + 2] = fl[n + 1] \o t[n + 2]
      BY <2>3, <3>2
    <3>5. f[n + 2] = f[n + 1] \o t[n + 2]
      BY <3>2 DEF Joins
    <3> QED
      BY <3>3, <3>4, <3>5
  <2> HIDE DEF G
  <2>6. \A n \in Nat : n \in G
    BY <2>4, <2>5, Induction
  <2>7. L - 1 \in Nat /\ (L - 1) + 1 = L
    BY <1>0, <1>2
  <2>8. fl[L] = f[L]
    <3>1. \A n \in Nat : n + 1 <= L => fl[n + 1] = f[n + 1]
      BY <2>6 DEF G
    <3> HIDE DEF L
    <3>2. L <= L
      BY <1>0
    <3> QED
      BY <2>7, <3>1, <3>2
  <2> QED
    BY <2>1, <2>8
<1> QED
  BY <1>1, <1>2

-----------------------------------------------------------------------------
(* The decoder *)

\* decode without a state, and what it does with a text that begins with a character.
LEMMA DecodeIs ==
  ASSUME NEW s \in Seq(Nat)
  PROVE  decode(<<>>, s) =
           LET k == lead(s[1])
               m == IF Len(s) < k THEN Len(s) ELSE k
           IN IF k = 0 \/ \E i \in 2..m : ~between(s[i], 128, 191)
              THEN [e |-> "illegal_input", it |-> 0, wc |-> Unset, st |-> <<>>]
              ELSE IF Len(s) < k
              THEN [e |-> "input_underflow", it |-> Len(s), wc |-> Unset, st |-> s]
              ELSE [e |-> "null", it |-> k - Len(<<>>), wc |-> bits(s, k), st |-> <<>>]
<1> DEFINE none == <<>>
<1>1. none \o s = s
  BY EmptyAdds, Zenon
<1> QED
  BY <1>1 DEF decode

LEMMA LeadIs == \A b \in Nat : lead(b) \in 0..4
BY DEF lead, between

\* The text s begins with the bytes of a character, n of them.
Begun(s, n) == /\ n \in 1..4 /\ Len(s) >= n /\ lead(s[1]) = n
               /\ \A i \in 2..n : between(s[i], 128, 191)

LEMMA DecodeBegun ==
  ASSUME NEW s \in Seq(Nat), NEW n, Begun(s, n)
  PROVE  /\ decode(<<>>, s).e = "null" /\ decode(<<>>, s).it = n
         /\ decode(<<>>, s).wc = bits(s, n) /\ decode(<<>>, s).st = <<>>
<1> DEFINE none == <<>>
<1>1. /\ ~(Len(s) < n) /\ n # 0 /\ ~(\E i \in 2..n : ~between(s[i], 128, 191))
      /\ lead(s[1]) = n
  BY DEF Begun
<1>2. decode(none, s) = [e |-> "null", it |-> n - Len(none), wc |-> bits(s, n), st |-> none]
  BY <1>1, DecodeIs, Zenon
<1>3. n - Len(none) = n
  BY DEF Begun
<1> QED
  BY <1>2, <1>3

\* The converse.
LEMMA NullBegun ==
  ASSUME NEW s \in Seq(Nat), s # <<>>, decode(<<>>, s).e = "null"
  PROVE  \E n : Begun(s, n) /\ decode(<<>>, s).it = n
<1> DEFINE none == <<>>
           n == lead(s[1])
           m == IF Len(s) < n THEN Len(s) ELSE n
<1>0. n \in 0..4 /\ Len(s) \in Nat
  <2>1. s[1] \in Nat
    OBVIOUS
  <2> QED
    BY <2>1, LeadIs
<1>1. decode(none, s) =
         IF n = 0 \/ \E i \in 2..m : ~between(s[i], 128, 191)
         THEN [e |-> "illegal_input", it |-> 0, wc |-> Unset, st |-> none]
         ELSE IF Len(s) < n
         THEN [e |-> "input_underflow", it |-> Len(s), wc |-> Unset, st |-> s]
         ELSE [e |-> "null", it |-> n - Len(none), wc |-> bits(s, n), st |-> none]
  BY DecodeIs
<1> HIDE DEF m
<1>2. n # 0 /\ ~(\E i \in 2..m : ~between(s[i], 128, 191)) /\ ~(Len(s) < n)
  BY <1>1
<1>3. m = n
  BY <1>2 DEF m
<1>4. Begun(s, n)
  BY <1>0, <1>2, <1>3 DEF Begun
<1> QED
  BY <1>4, DecodeBegun

-----------------------------------------------------------------------------
(* Every character *)

\* Digits of a number to the base 64.
LEMMA Digits ==
  ASSUME NEW n \in Nat
  PROVE  /\ n \div 64 \in Nat /\ n % 64 \in 0..63 /\ n = (n \div 64) * 64 + (n % 64)
         /\ n \div 4096 = (n \div 64) \div 64
         /\ n \div 262144 = (n \div 4096) \div 64
OBVIOUS

\* A mark above the bits of a byte does not change them.
LEMMA Marks ==
  /\ \A q \in 0..31 : (192 + q) % 32 = q
  /\ \A q \in 0..15 : (224 + q) % 16 = q
  /\ \A q \in 0..7 : (240 + q) % 8 = q
  /\ \A q \in 0..63 : (128 + q) % 64 = q
OBVIOUS

\* The first characters of two, three and four bytes.
Bounds == <<\h80, \h800, \h10000>>

\* The call that writes a character in a locale of several bytes.
encode(wc) == wcrtomb(TRUE, wc, 4)

\* s is the bytes of the character wc.
Spells(s, wc) == s \in Seq(Nat) /\ Begun(s, Len(s)) /\ bits(s, Len(s)) = wc

\* What TextRoundTrip says of a character that wcrtomb encodes, and why.
Encoded(wc) ==
  LET e == encode(wc)
  IN /\ e.ret = Len(e.out) /\ decode(<<>>, e.out).wc = wc
     /\ \A n \in 1..e.ret-1 : wc >= Bounds[n]
     /\ Spells(e.out, wc)

\* It is enough that the bytes are well formed and hold the bits.
LEMMA EncodedBy ==
  ASSUME NEW wc \in Nat, NEW s \in Seq(Nat), NEW n \in 1..4, Len(s) = n,
         encode(wc) = answer(n, 0, s),
         lead(s[1]) = n, \A i \in 2..n : between(s[i], 128, 191), bits(s, n) = wc,
         \A i \in 1..n-1 : wc >= Bounds[i]
  PROVE  Encoded(wc)
<1>1. Begun(s, n) /\ Spells(s, wc)
  BY DEF Begun, Spells
<1>2. decode(<<>>, s).wc = wc
  BY <1>1, DecodeBegun
<1>3. encode(wc).ret = n /\ encode(wc).out = s
  BY DEF answer
<1> QED
  BY <1>1, <1>2, <1>3 DEF Encoded

LEMMA OneByte ==
  ASSUME NEW wc \in Nat, wc < 128, encode(wc) = answer(1, 0, <<wc>>)
  PROVE  Encoded(wc)
<1> DEFINE s == <<wc>>
<1>1. encode(wc) = answer(1, 0, s)
  OBVIOUS
<1>2. s \in Seq(Nat) /\ Len(s) = 1 /\ s[1] = wc
  OBVIOUS
<1> HIDE DEF s
<1>3. lead(s[1]) = 1
  BY <1>2 DEF lead
<1>4. bits(s, 1) = wc
  BY <1>2 DEF bits, First, Weight
<1> QED
  BY <1>1, <1>2, <1>3, <1>4, EncodedBy

LEMMA TwoBytes ==
  ASSUME NEW wc \in Nat, wc \div 64 < 32, wc >= Bounds[1],
         encode(wc) = answer(2, 0, <<192 + wc \div 64, 128 + (wc % 64)>>)
  PROVE  Encoded(wc)
<1> DEFINE a == wc \div 64  b == wc % 64  s == <<192 + a, 128 + b>>
<1>1. encode(wc) = answer(2, 0, s)
  OBVIOUS
<1>2. a \in 0..31 /\ b \in 0..63 /\ wc = a * 64 + b
  BY Digits
<1> HIDE DEF a, b
<1>3. s \in Seq(Nat) /\ Len(s) = 2 /\ s[1] = 192 + a /\ s[2] = 128 + b
  BY <1>2
<1> HIDE DEF s
<1>4. lead(s[1]) = 2 /\ \A i \in 2..2 : between(s[i], 128, 191)
  BY <1>2, <1>3 DEF lead, between
<1>5. bits(s, 2) = wc
  <2>1. (192 + a) % 32 = a /\ (128 + b) % 64 = b
    BY ONLY <1>2, Marks
  <2>2. s[1] % 32 = a /\ s[2] % 64 = b
    BY ONLY <1>3, <2>1
  <2> QED
    BY ONLY <1>2, <2>2, SMT DEF bits, First, Weight
<1>6. \A i \in 1..2-1 : wc >= Bounds[i]
  OBVIOUS
<1> QED
  BY ONLY <1>1, <1>3, <1>4, <1>5, <1>6, EncodedBy, wc \in Nat, SMT

LEMMA ThreeBytes ==
  ASSUME NEW wc \in Nat, wc \div 4096 < 16, wc >= Bounds[1], wc >= Bounds[2],
         encode(wc)
           = answer(3, 0, <<224 + wc \div 4096, 128 + ((wc \div 64) % 64), 128 + (wc % 64)>>)
  PROVE  Encoded(wc)
<1> DEFINE q == wc \div 64  a == wc \div 4096  b == q % 64  c == wc % 64
           s == <<224 + a, 128 + b, 128 + c>>
<1>1. encode(wc) = answer(3, 0, s)
  OBVIOUS
<1>2. q \in Nat /\ c \in 0..63 /\ wc = q * 64 + c /\ a = q \div 64
  BY Digits
<1>3. a \in 0..15 /\ b \in 0..63 /\ q = a * 64 + b
  BY <1>2, Digits
<1> HIDE DEF q, a, b, c
<1>4. s \in Seq(Nat) /\ Len(s) = 3 /\ s[1] = 224 + a /\ s[2] = 128 + b /\ s[3] = 128 + c
  BY <1>2, <1>3
<1> HIDE DEF s
<1>5. lead(s[1]) = 3 /\ \A i \in 2..3 : between(s[i], 128, 191)
  BY <1>2, <1>3, <1>4 DEF lead, between
<1>6. bits(s, 3) = wc
  <2>1. (224 + a) % 16 = a /\ (128 + b) % 64 = b /\ (128 + c) % 64 = c
    BY ONLY <1>2, <1>3, Marks
  <2>2. s[1] % 16 = a /\ s[2] % 64 = b /\ s[3] % 64 = c
    BY ONLY <1>4, <2>1
  <2>3. bits(s, 3) = a * 4096 + b * 64 + c
    BY ONLY <1>2, <1>3, <2>2, SMT DEF bits, First, Weight
  <2>4. wc = a * 4096 + b * 64 + c
    BY ONLY <1>2, <1>3, SMT
  <2> QED
    BY <2>3, <2>4
<1>7. \A i \in 1..3-1 : wc >= Bounds[i]
  OBVIOUS
<1> QED
  BY ONLY <1>1, <1>4, <1>5, <1>6, <1>7, EncodedBy, wc \in Nat, SMT

LEMMA FourBytes ==
  ASSUME NEW wc \in Nat, wc \div 262144 < 8,
         wc >= Bounds[1], wc >= Bounds[2], wc >= Bounds[3],
         encode(wc)
           = answer(4, 0, <<240 + wc \div 262144, 128 + ((wc \div 4096) % 64),
                            128 + ((wc \div 64) % 64), 128 + (wc % 64)>>)
  PROVE  Encoded(wc)
<1> DEFINE q == wc \div 64  p == wc \div 4096  a == wc \div 262144
           b == p % 64  c == q % 64  d == wc % 64
           s == <<240 + a, 128 + b, 128 + c, 128 + d>>
<1>1. encode(wc) = answer(4, 0, s)
  BY SMT
<1>2. q \in Nat /\ d \in 0..63 /\ wc = q * 64 + d /\ p = q \div 64 /\ a = p \div 64
  BY Digits, SMT
<1>3. p \in Nat /\ c \in 0..63 /\ q = p * 64 + c
  BY <1>2, Digits, SMT
<1>4. a \in 0..7 /\ b \in 0..63 /\ p = a * 64 + b
  BY <1>2, <1>3, Digits, SMT
<1> HIDE DEF q, p, a, b, c, d
<1>5. s \in Seq(Nat) /\ Len(s) = 4
      /\ s[1] = 240 + a /\ s[2] = 128 + b /\ s[3] = 128 + c /\ s[4] = 128 + d
  BY <1>2, <1>3, <1>4, SMT
<1> HIDE DEF s
<1>6. lead(s[1]) = 4 /\ \A i \in 2..4 : between(s[i], 128, 191)
  BY ONLY <1>2, <1>3, <1>4, <1>5, SMT DEF lead, between
<1>7. bits(s, 4) = wc
  <2>1. (240 + a) % 8 = a /\ (128 + b) % 64 = b /\ (128 + c) % 64 = c /\ (128 + d) % 64 = d
    BY ONLY <1>2, <1>3, <1>4, Marks, SMT
  <2>2. s[1] % 8 = a /\ s[2] % 64 = b /\ s[3] % 64 = c /\ s[4] % 64 = d
    BY ONLY <1>5, <2>1, SMT
  <2> QED
    BY ONLY <1>2, <1>3, <1>4, <2>2, SMT DEF bits, First, Weight
<1>8. \A i \in 1..4-1 : wc >= Bounds[i]
  BY SMT
<1> QED
  BY ONLY <1>1, <1>5, <1>6, <1>7, <1>8, EncodedBy, wc \in Nat, SMT

\* wcrtomb encodes every Unicode scalar value as the bytes that decode to it and as few
\* as hold it, and nothing else: the part of TextRoundTrip that is about one character,
\* for all of them (wcrtomb).
THEOREM EveryCharacterRoundTrips ==
  \A wc \in Int :
    IF (0 <= wc /\ wc <= \hd7ff) \/ (\he000 <= wc /\ wc <= \h10ffff)
    THEN Encoded(wc) ELSE encode(wc).ret = -1
<1>1. ASSUME NEW wc \in Int, (0 <= wc /\ wc <= \hd7ff) \/ (\he000 <= wc /\ wc <= \h10ffff)
      PROVE  Encoded(wc)
  <2>1. wc \in Nat
    BY <1>1, SMT
  <2>2. \/ wc <= \h7f \/ (\h80 <= wc /\ wc <= \h7ff) \/ three_bytes(wc)
        \/ (\h10000 <= wc /\ wc <= \h10ffff)
    BY <1>1, SMT DEF three_bytes, between
  <2>3. CASE wc <= \h7f
    <3>1. encode(wc) = answer(1, 0, <<wc>>) /\ wc < 128
      BY ONLY <2>1, <2>3, SMT DEF encode, wcrtomb, between, tail, three_bytes, Bounds
    <3> QED
      BY ONLY <2>1, <3>1, OneByte, SMT
  <2>4. CASE \h80 <= wc /\ wc <= \h7ff
    <3>1. /\ encode(wc) = answer(2, 0, <<192 + wc \div 64, 128 + (wc % 64)>>)
          /\ wc \div 64 < 32 /\ wc >= Bounds[1]
      BY ONLY <2>1, <2>4, SMT DEF encode, wcrtomb, between, tail, three_bytes, Bounds
    <3> QED
      BY ONLY <2>1, <3>1, TwoBytes, SMT
  <2>5. CASE three_bytes(wc)
    <3>1. /\ encode(wc)
               = answer(3, 0, <<224 + wc \div 4096, 128 + ((wc \div 64) % 64),
                                128 + (wc % 64)>>)
          /\ wc \div 4096 < 16 /\ wc >= Bounds[1] /\ wc >= Bounds[2]
      BY ONLY <2>1, <2>5, SMT DEF encode, wcrtomb, between, tail, three_bytes, Bounds
    <3> QED
      BY ONLY <2>1, <3>1, ThreeBytes, SMT
  <2>6. CASE \h10000 <= wc /\ wc <= \h10ffff
    <3>1. /\ encode(wc)
               = answer(4, 0, <<240 + wc \div 262144, 128 + ((wc \div 4096) % 64),
                                128 + ((wc \div 64) % 64), 128 + (wc % 64)>>)
          /\ wc \div 262144 < 8 /\ wc >= Bounds[1] /\ wc >= Bounds[2] /\ wc >= Bounds[3]
      BY ONLY <2>1, <2>6, SMT DEF encode, wcrtomb, between, tail, three_bytes, Bounds
    <3> QED
      BY ONLY <2>1, <3>1, FourBytes, SMT
  <2> QED
    BY <2>2, <2>3, <2>4, <2>5, <2>6, SMT
<1>2. ASSUME NEW wc \in Int, ~((0 <= wc /\ wc <= \hd7ff) \/ (\he000 <= wc /\ wc <= \h10ffff))
      PROVE  encode(wc).ret = -1
  <2>1. encode(wc) = answer(-1, EILSEQ, <<>>)
    BY <1>2, SMT DEF encode, wcrtomb, between, three_bytes
  <2> QED
    BY <2>1, SMT DEF answer
<1> QED
  BY <1>1, <1>2, SMT

-----------------------------------------------------------------------------
(* Strings *)

\* A function that is defined from its end: at each p it stops, or puts pre[p] before its
\* value at a later place.
Builds(g, n, cont, to, pre, last, stop) ==
  \A p \in 1..(n + 1) :
    g[p] = IF p > n THEN last ELSE IF p \in cont THEN pre[p] \o g[to[p]] ELSE stop

LEMMA Backward ==
  ASSUME NEW n \in Nat, NEW cont, NEW to, NEW pre, NEW last, NEW stop,
         \A p \in 1..n : p \in cont => to[p] \in (p + 1)..(n + 1)
  PROVE  \E g : Builds(g, n, cont, to, pre, last, stop)
<1> DEFINE rhs(g, p) == IF p > n THEN last ELSE IF p \in cont THEN pre[p] \o g[to[p]] ELSE stop
           G == {k \in Nat : k <= n => \E g : \A p \in (n + 1 - k)..(n + 1) : g[p] = rhs(g, p)}
<1>1. 0 \in G
  <2> DEFINE g == [p \in 1..(n + 1) |-> last]
  <2>1. \A p \in (n + 1 - 0)..(n + 1) : p > n /\ p \in 1..(n + 1)
    OBVIOUS
  <2>2. \A p \in (n + 1 - 0)..(n + 1) : g[p] = rhs(g, p)
    BY <2>1
  <2> HIDE DEF g, rhs
  <2> QED
    BY <2>2
<1>2. ASSUME NEW k \in Nat, k \in G PROVE k + 1 \in G
  <2>1. SUFFICES ASSUME k + 1 <= n
                 PROVE  \E h : \A p \in (n - k)..(n + 1) : h[p] = rhs(h, p)
    <3>1. n + 1 - (k + 1) = n - k
      OBVIOUS
    <3> QED
      BY <3>1
  <2>2. k <= n
    BY <2>1
  <2>3. PICK g : \A p \in (n + 1 - k)..(n + 1) : g[p] = rhs(g, p)
    BY <1>2, <2>2
  <2> DEFINE h == [p \in 1..(n + 1) |-> IF p = n - k THEN rhs(g, p) ELSE g[p]]
  <2>4. ASSUME NEW p \in (n - k)..(n + 1) PROVE h[p] = rhs(h, p)
    <3>1. /\ p \in 1..(n + 1)
          /\ p # n - k => p \in (n + 1 - k)..(n + 1)
      BY <2>1
    <3>2. h[p] = rhs(g, p)
      BY <2>3, <3>1
    <3>3. ~(p > n) /\ p \in cont => h[to[p]] = g[to[p]]
      <4> SUFFICES ASSUME ~(p > n), p \in cont PROVE h[to[p]] = g[to[p]]
        OBVIOUS
      <4>1. p \in 1..n
        BY <3>1
      <4>2. to[p] \in (p + 1)..(n + 1)
        BY <4>1
      <4>3. to[p] \in 1..(n + 1) /\ to[p] # n - k
        BY <2>1, <3>1, <4>2
      <4> QED
        BY <4>3
    <3> HIDE DEF h
    <3> QED
      BY <3>2, <3>3
  <2> HIDE DEF h, rhs
  <2> QED
    BY <2>4
<1> HIDE DEF G
<1>3. \A k \in Nat : k \in G
  BY <1>1, <1>2, Induction
<1>4. \E g : \A p \in (n + 1 - n)..(n + 1) : g[p] = rhs(g, p)
  <2> HIDE DEF rhs
  <2>1. n <= n
    OBVIOUS
  <2> QED
    BY <1>3, <2>1 DEF G
<1>5. n + 1 - n = 1
  OBVIOUS
<1> QED
  BY <1>4, <1>5 DEF Builds

\* wides takes one character after another.
Takes(from, mb) ==
  \A p \in 1..(Len(mb) + 1) :
    from[p] = IF p > Len(mb) THEN <<>>
              ELSE LET d == decode(<<>>, SubSeq(mb, p, Len(mb)))
                   IN IF d.e = "null" THEN <<d.wc>> \o from[p + d.it] ELSE <<Unset>>

LEMMA WidesTakes ==
  ASSUME NEW mb \in Seq(Nat)
  PROVE  \E from : Takes(from, mb) /\ wides(mb) = from[1]
<1> DEFINE n == Len(mb)
           d(p) == decode(<<>>, SubSeq(mb, p, n))
           cont == {p \in 1..n : d(p).e = "null"}
           to == [p \in 1..n |-> p + d(p).it]
           pre == [p \in 1..n |-> <<d(p).wc>>]
           F(g) == [p \in 1..(n + 1) |-> IF p > n THEN <<>>
                                         ELSE IF d(p).e = "null" THEN <<d(p).wc>> \o g[p + d(p).it]
                                         ELSE <<Unset>>]
<1>0. n \in Nat
  OBVIOUS
<1>1. wides(mb) = (CHOOSE g : g = F(g))[1]
  BY DEF wides
<1>2. ASSUME NEW p \in 1..n, p \in cont PROVE to[p] \in (p + 1)..(n + 1)
  <2> DEFINE s == SubSeq(mb, p, n)
  <2>1. s \in Seq(Nat) /\ Len(s) = n - p + 1 /\ Len(s) \in Nat \ {0}
    OBVIOUS
  <2> HIDE DEF s
  <2>2. s # <<>>
    BY <2>1
  <2>5. decode(<<>>, s).e = "null"
    BY <1>2, Zenon DEF s
  <2>3. PICK k : Begun(s, k) /\ decode(<<>>, s).it = k
    BY <2>1, <2>2, <2>5, NullBegun
  <2>4. k \in 1..4 /\ k <= n - p + 1 /\ to[p] = p + k
    BY <2>1, <2>3 DEF Begun, s
  <2> HIDE DEF to
  <2> QED
    BY <1>0, <2>4
<1>3. \E f : f = F(f)
  <2> HIDE DEF d
  <2>1. PICK g : \A p \in 1..(n + 1) :
                   g[p] = IF p > n THEN <<>> ELSE IF p \in cont THEN pre[p] \o g[to[p]] ELSE <<Unset>>
    <3> DEFINE last == <<>>
               stop == <<Unset>>
    <3> HIDE DEF cont, to, pre, n, last, stop
    <3>1. \E g : Builds(g, n, cont, to, pre, last, stop)
      BY <1>0, <1>2, Backward
    <3> QED
      BY <3>1 DEF Builds, last, stop
  <2> DEFINE h == [p \in 1..(n + 1) |-> g[p]]
  <2>2. ASSUME NEW p \in 1..(n + 1)
        PROVE  h[p] = IF p > n THEN <<>>
                      ELSE IF d(p).e = "null" THEN <<d(p).wc>> \o h[p + d(p).it] ELSE <<Unset>>
    <3>1. CASE p > n
      BY <2>1, <3>1
    <3>2. CASE ~(p > n)
      <4>1. p \in 1..n
        BY <1>0, <3>2
      <4>2. CASE d(p).e = "null"
        <5>1. p \in cont /\ to[p] = p + d(p).it /\ pre[p] = <<d(p).wc>>
          BY <4>1, <4>2
        <5>2. to[p] \in 1..(n + 1)
          BY <1>0, <1>2, <4>1, <5>1
        <5>3. g[p] = pre[p] \o g[to[p]]
          BY <2>1, <3>2, <5>1
        <5>4. h[p] = g[p] /\ h[to[p]] = g[to[p]]
          BY <5>2
        <5> HIDE DEF h, to, pre, cont
        <5> QED
          BY <3>2, <4>2, <5>1, <5>3, <5>4
      <4>3. CASE d(p).e # "null"
        <5>1. p \notin cont
          BY <4>3
        <5> QED
          BY <2>1, <3>2, <4>3, <5>1
      <4> QED
        BY <4>2, <4>3
    <3> QED
      BY <3>1, <3>2
  <2>3. h = F(h)
    BY <2>2
  <2> HIDE DEF h, F
  <2> QED
    BY <2>3
<1> DEFINE from == CHOOSE g : g = F(g)
<1>4. from = F(from)
  <2> HIDE DEF F
  <2> QED
    BY <1>3
<1> HIDE DEF from
<1>5. Takes(from, mb)
  BY <1>4 DEF Takes
<1> QED
  BY <1>1, <1>5 DEF from

\* The bits are those of the first n bytes.
LEMMA BitsAgree ==
  ASSUME NEW n \in 1..4, NEW s, NEW t, \A i \in 1..n : s[i] = t[i]
  PROVE  bits(s, n) = bits(t, n)
<1>1. s[1] = t[1] /\ (n >= 2 => s[2] = t[2]) /\ (n >= 3 => s[3] = t[3]) /\ (n >= 4 => s[4] = t[4])
  OBVIOUS
<1>2. n = 1 \/ n = 2 \/ n = 3 \/ n = 4
  OBVIOUS
<1> QED
  BY <1>1, <1>2 DEF bits

\* A text that begins with a character decodes to it, whatever follows.
LEMMA SpelledFirst ==
  ASSUME NEW s, NEW wc, Spells(s, wc), NEW g \in Seq(Nat)
  PROVE  /\ decode(<<>>, s \o g).e = "null" /\ decode(<<>>, s \o g).it = Len(s)
         /\ decode(<<>>, s \o g).wc = wc /\ decode(<<>>, s \o g).st = <<>>
<1> DEFINE n == Len(s)  x == s \o g
<1>1. s \in Seq(Nat) /\ Begun(s, n) /\ n \in 1..4 /\ bits(s, n) = wc
  BY DEF Spells, Begun
<1>2. x \in Seq(Nat) /\ Len(x) >= n /\ \A i \in 1..n : s[i] = x[i]
  BY <1>1, ConcatProperties
<1> HIDE DEF n, x
<1>3. Begun(x, n)
  <2>1. s[1] = x[1] /\ \A i \in 2..n : s[i] = x[i]
    BY <1>1, <1>2
  <2> QED
    BY <1>1, <1>2, <2>1 DEF Begun
<1>4. bits(x, n) = wc
  BY <1>1, <1>2, BitsAgree
<1> QED
  BY <1>2, <1>3, <1>4, DecodeBegun DEF x, n

LEMMA SubSeqAfter ==
  ASSUME NEW b \in Seq(Nat), NEW x \in Seq(Nat), x # <<>>
  PROVE  SubSeq(b \o x, Len(b) + 1, Len(b \o x)) = x
<1> DEFINE m == Len(b)  n == Len(x)
<1>1. m \in Nat /\ n \in Nat /\ n >= 1 /\ Len(b \o x) = m + n
  BY ConcatProperties
<1>2. m + 1 \in (m + 1)..(m + n) /\ m + n \in (m + 1)..(m + n)
  BY <1>1
<1>3. SubSeq(b \o x, m + 1, m + n) = SubSeq(x, (m + 1) - m, (m + n) - m)
  BY <1>2, SubSeqOfConcat2
<1>4. (m + 1) - m = 1 /\ (m + n) - m = n
  BY <1>1
<1>5. SubSeq(x, 1, n) = x
  BY SubSeqFull
<1> QED
  BY <1>1, <1>3, <1>4, <1>5

\* In mb, s is between b and g, and c ends with s.
Between(mb, b, s, g, c) == c = b \o s /\ mb = c \o g

\* One step of wides, over the bytes s of a character.
LEMMA TakesOne ==
  ASSUME NEW b \in Seq(Nat), NEW s, NEW wc, Spells(s, wc), NEW g \in Seq(Nat),
         NEW c, NEW mb, Between(mb, b, s, g, c), NEW from, Takes(from, mb)
  PROVE  /\ s \o g \in Seq(Nat) /\ mb = b \o (s \o g)
         /\ from[Len(b) + 1] = <<wc>> \o from[Len(c) + 1]
<1> DEFINE x == s \o g
           p == Len(b) + 1
<1>1. s \in Seq(Nat) /\ Len(s) \in 1..4
  BY DEF Spells, Begun
<1>2. x \in Seq(Nat) /\ Len(x) = Len(s) + Len(g) /\ Len(g) \in Nat
  BY <1>1, ConcatProperties
<1>3. mb = b \o x
  <2>1. (b \o s) \o g = b \o (s \o g)
    BY <1>1, ConcatAssociative
  <2> QED
    BY <2>1, Zenon DEF Between
<1>4. /\ decode(<<>>, x).e = "null" /\ decode(<<>>, x).it = Len(s)
      /\ decode(<<>>, x).wc = wc
  BY SpelledFirst
<1> HIDE DEF x
<1>5. Len(c) = Len(b) + Len(s) /\ Len(b) \in Nat /\ Len(mb) = Len(b) + Len(x)
  <2>1. Len(b \o s) = Len(b) + Len(s) /\ Len(b \o x) = Len(b) + Len(x)
    BY <1>1, <1>2, ConcatProperties
  <2>2. Len(b) \in Nat
    OBVIOUS
  <2> QED
    BY <1>3, <2>1, <2>2 DEF Between
<1>6. p \in 1..(Len(mb) + 1) /\ ~(p > Len(mb)) /\ x # <<>> /\ p + Len(s) = Len(c) + 1
  <2>1. Len(x) >= 1
    <3>1. \A m, n \in Nat : m \in 1..4 => m + n >= 1
      OBVIOUS
    <3>2. Len(s) \in Nat
      BY <1>1
    <3> QED
      BY <1>1, <1>2, <3>1, <3>2
  <2>2. x # <<>>
    BY <2>1
  <2> QED
    BY <1>1, <1>2, <1>5, <2>1, <2>2
<1>7. SubSeq(mb, p, Len(mb)) = x
  BY <1>2, <1>3, <1>6, SubSeqAfter
<1>8. from[p] = LET d == decode(<<>>, SubSeq(mb, p, Len(mb)))
                IN IF d.e = "null" THEN <<d.wc>> \o from[p + d.it] ELSE <<Unset>>
  BY <1>6 DEF Takes
<1>9. from[p] = <<wc>> \o from[Len(c) + 1]
  BY <1>4, <1>6, <1>7, <1>8
<1> QED
  BY <1>2, <1>3, <1>9 DEF x

\* What a decoder adds for a rest that is not a whole character.
rest(r) == IF r = <<>> THEN <<>> ELSE <<Unset>>

\* wides gives back the characters that a string is made of, and Unset for what follows.
LEMMA WidesOf ==
  ASSUME NEW t \in Seq(Seq(Nat)), NEW ws \in Seq(Nat), Len(ws) = Len(t),
         \A i \in 1..Len(t) : Spells(t[i], ws[i]),
         NEW r \in Seq(Nat), r # <<>> => decode(<<>>, r).e # "null"
  PROVE  wides(FlattenSeq(t) \o r) = ws \o rest(r)
<1> DEFINE S == Nat \cup {Unset}
           k == Len(t)
<1>0. k \in Nat /\ ws \in Seq(S) /\ rest(r) \in Seq(S)
  <2>1. ws \in Seq(S)
    BY SeqMonotonic
  <2>2. <<>> \in Seq(S) /\ <<Unset>> \in Seq(S)
    OBVIOUS
  <2>3. rest(r) = <<>> \/ rest(r) = <<Unset>>
    BY DEF rest
  <2>4. rest(r) \in Seq(S)
    <3> HIDE DEF S
    <3> QED
      BY <2>2, <2>3
  <2> QED
    BY <2>1, <2>4
<1>1. PICK f : Joins(f, t, Nat)
  BY JoinsExist
<1>2. /\ f \in [Nat -> Seq(Nat)] /\ f[0] = <<>>
      /\ \A n \in 1..k : f[n] = f[n - 1] \o t[n]
  BY <1>1 DEF Joins
<1>3. FlattenSeq(t) = f[k] /\ f[k] \in Seq(Nat)
  BY <1>0, <1>1, <1>2, FlattenIs
<1> DEFINE mb == f[k] \o r
           a(i) == Len(f[i])
<1>4. mb \in Seq(Nat) /\ Len(mb) = a(k) + Len(r) /\ Len(r) \in Nat
  BY <1>3, ConcatProperties
<1>5. PICK from : Takes(from, mb) /\ wides(mb) = from[1]
  BY <1>4, WidesTakes
\* Downwards over the characters.
<1> DEFINE Q(i) == \E g \in Seq(Nat) : /\ mb = f[i] \o g
                                       /\ from[a(i) + 1] = SubSeq(ws, i + 1, k) \o rest(r)
           G == {n \in Nat : n <= k => Q(k - n)}
<1> HIDE DEF mb, k
<1>6. Q(k)
  <2>1. SubSeq(ws, k + 1, k) = <<>>
    BY <1>0, SubSeqEmpty
  <2>2. SubSeq(ws, k + 1, k) \o rest(r) = rest(r)
    BY <1>0, <2>1, EmptyAdds, Zenon
  <2>3. a(k) \in Nat /\ a(k) + 1 \in 1..(Len(mb) + 1)
    BY <1>3, <1>4
  <2>4. CASE r = <<>>
    <3>1. a(k) + 1 > Len(mb)
      BY <1>4, <2>3, <2>4
    <3>2. from[a(k) + 1] = <<>>
      BY <1>5, <2>3, <3>1 DEF Takes
    <3>3. from[a(k) + 1] = SubSeq(ws, k + 1, k) \o rest(r)
      BY <2>2, <2>4, <3>2 DEF rest
    <3> QED
      BY <3>3, Zenon DEF mb
  <2>5. CASE r # <<>>
    <3>1. ~(a(k) + 1 > Len(mb)) /\ Len(r) >= 1
      BY <1>4, <2>3, <2>5
    <3>2. SubSeq(mb, a(k) + 1, Len(mb)) = r
      BY <1>3, <2>5, SubSeqAfter DEF mb
    <3>3. from[a(k) + 1] = <<Unset>>
      <4>1. from[a(k) + 1] =
              LET d == decode(<<>>, SubSeq(mb, a(k) + 1, Len(mb)))
              IN IF d.e = "null" THEN <<d.wc>> \o from[a(k) + 1 + d.it] ELSE <<Unset>>
        BY <1>5, <2>3, <3>1 DEF Takes
      <4> QED
        BY <2>5, <3>2, <4>1
    <3>4. from[a(k) + 1] = SubSeq(ws, k + 1, k) \o rest(r)
      BY <2>2, <2>5, <3>3 DEF rest
    <3> QED
      BY <3>4, Zenon DEF mb
  <2> QED
    BY <2>4, <2>5
<1>7. ASSUME NEW i \in 1..k, Q(i) PROVE Q(i - 1)
  <2>0. i \in Nat /\ i - 1 \in Nat /\ i \in 1..Len(t) /\ (i - 1) + 1 = i /\ k = Len(t)
    BY <1>0 DEF k
  <2>1. PICK g \in Seq(Nat) : /\ mb = f[i] \o g
                              /\ from[a(i) + 1] = SubSeq(ws, i + 1, k) \o rest(r)
    BY <1>7
  <2> DEFINE b == f[i - 1]  s == t[i]  c == f[i]  w == ws[i]
  <2>2. b \in Seq(Nat) /\ c = b \o s
    BY <1>2, <2>0
  <2>3. Spells(s, w) /\ w \in Nat
    <3>1. Spells(s, w)
      BY <2>0, Zenon
    <3>2. i \in 1..Len(ws)
      BY <2>0
    <3> QED
      BY <3>1, <3>2
  <2>4. a(i) = Len(c) /\ a(i - 1) = Len(b)
    OBVIOUS
  <2> HIDE DEF b, s, c, w
  <2>5. /\ s \o g \in Seq(Nat) /\ mb = b \o (s \o g)
        /\ from[Len(b) + 1] = <<w>> \o from[Len(c) + 1]
    <3>1. Between(mb, b, s, g, c)
      BY <2>1, <2>2 DEF c, Between
    <3>2. /\ b \in Seq(Nat) /\ Spells(s, w) /\ g \in Seq(Nat) /\ Between(mb, b, s, g, c)
          /\ Takes(from, mb)
      BY <1>5, <2>2, <2>3, <3>1
    <3> QED
      BY ONLY <3>2, TakesOne
  <2>6. SubSeq(ws, i, k) = <<w>> \o SubSeq(ws, i + 1, k)
    <3>1. i \in 1..Len(ws) /\ k \in i..Len(ws)
      BY <1>0, <2>0
    <3> QED
      BY <3>1, SubSeqRecursiveFirst DEF w
  <2>7. <<w>> \o (SubSeq(ws, i + 1, k) \o rest(r)) = SubSeq(ws, i, k) \o rest(r)
    <3> DEFINE u == <<w>>  v == SubSeq(ws, i + 1, k)  y == rest(r)
    <3>1. u \in Seq(S) /\ v \in Seq(S) /\ y \in Seq(S)
      <4>1. \A m \in (i + 1)..k : ws[m] \in S
        BY <1>0, <2>0
      <4>2. v \in Seq(S)
        BY <1>0, <2>0, <4>1, SubSeqProperties
      <4> QED
        BY <1>0, <2>3, <4>2
    <3> HIDE DEF u, v, y, S
    <3>2. (u \o v) \o y = u \o (v \o y)
      BY <3>1, ConcatAssociative
    <3> QED
      BY <2>6, <3>2 DEF u, v, y
  <2>8. from[a(i - 1) + 1] = SubSeq(ws, (i - 1) + 1, k) \o rest(r)
    <3>1. from[Len(c) + 1] = SubSeq(ws, i + 1, k) \o rest(r)
      BY <2>1, <2>4
    <3>2. from[Len(b) + 1] = SubSeq(ws, i, k) \o rest(r)
      BY <2>5, <2>7, <3>1
    <3> QED
      BY <2>0, <2>4, <3>2
  <2>9. mb = f[i - 1] \o (s \o g) /\ s \o g \in Seq(Nat)
    BY <2>5 DEF b
  <2> QED
    BY <2>8, <2>9
<1> HIDE DEF Q
<1>8. 0 \in G
  BY <1>0, <1>6
<1>9. ASSUME NEW n \in Nat, n \in G PROVE n + 1 \in G
  <2> SUFFICES ASSUME n + 1 <= k PROVE Q(k - (n + 1))
    OBVIOUS
  <2>1. k - n \in 1..k /\ (k - n) - 1 = k - (n + 1) /\ n <= k
    BY <1>0
  <2>2. Q(k - n)
    BY <1>9, <2>1
  <2>3. Q((k - n) - 1)
    BY <1>7, <2>1, <2>2
  <2> QED
    BY <2>1, <2>3
<1> HIDE DEF G
<1>10. \A n \in Nat : n \in G
  BY <1>8, <1>9, Induction
<1>11. Q(0)
  <2>1. k <= k /\ k - k = 0
    BY <1>0
  <2>2. Q(k - k)
    BY <1>0, <1>10, <2>1 DEF G
  <2> QED
    BY <2>1, <2>2
<1>12. from[1] = SubSeq(ws, 1, k) \o rest(r)
  <2>1. a(0) + 1 = 1 /\ 0 + 1 = 1
    BY <1>2
  <2>2. from[a(0) + 1] = SubSeq(ws, 0 + 1, k) \o rest(r)
    BY <1>11 DEF Q
  <2> QED
    BY <2>1, <2>2
<1>13. SubSeq(ws, 1, k) = ws
  BY SubSeqFull DEF k
<1> QED
  BY <1>3, <1>5, <1>12, <1>13 DEF mb, k

\* The sequence b and more make s.
Opens(b, s, S) == \E g \in Seq(S) : s = b \o g

\* A joined sequence begins with what its first n members make.
LEMMA JoinsBegin ==
  ASSUME NEW S, NEW t \in Seq(Seq(S)), NEW f, Joins(f, t, S), NEW n \in 0..Len(t)
  PROVE  Opens(f[n], f[Len(t)], S)
<1> DEFINE k == Len(t)
           Q(i) == \E g \in Seq(S) : f[k] = f[i] \o g
           G == {m \in Nat : m <= k => Q(k - m)}
<1>0. k \in Nat /\ f \in [Nat -> Seq(S)] /\ \A i \in 1..k : f[i] = f[i - 1] \o t[i]
  <2>1. k \in Nat
    BY LenProperties
  <2> QED
    BY <2>1, Zenon DEF Joins
<1>1. Q(k)
  <2> DEFINE e == <<>>
  <2>1. e \in Seq(S) /\ f[k] \in Seq(S)
    BY <1>0
  <2>2. f[k] \o e = f[k]
    BY <2>1, EmptyAdds, Zenon
  <2> QED
    BY <2>1, <2>2
<1>2. ASSUME NEW i \in 1..k, Q(i) PROVE Q(i - 1)
  <2>1. PICK g \in Seq(S) : f[k] = f[i] \o g
    BY <1>2
  <2> DEFINE b == f[i - 1]  s == t[i]
  <2>2. b \in Seq(S) /\ s \in Seq(S) /\ f[i] = b \o s
    <3>1. i - 1 \in Nat
      BY <1>0
    <3>2. t[i] \in Seq(S)
      BY ElementOfSeq
    <3> QED
      BY <1>0, <3>1, <3>2
  <2> HIDE DEF b, s
  <2>3. (b \o s) \o g = b \o (s \o g) /\ s \o g \in Seq(S)
    BY <2>2, ConcatAssociative, ConcatProperties
  <2>4. f[k] = b \o (s \o g)
    BY <2>1, <2>2, <2>3
  <2> QED
    BY <2>3, <2>4 DEF b
<1> HIDE DEF Q, k
<1>3. 0 \in G
  BY <1>0, <1>1
<1>4. ASSUME NEW m \in Nat, m \in G PROVE m + 1 \in G
  <2> SUFFICES ASSUME m + 1 <= k PROVE Q(k - (m + 1))
    OBVIOUS
  <2>1. k - m \in 1..k /\ (k - m) - 1 = k - (m + 1) /\ m <= k
    BY <1>0
  <2>2. Q(k - m)
    BY <1>4, <2>1
  <2>3. Q((k - m) - 1)
    BY <1>2, <2>1, <2>2
  <2> QED
    BY <2>1, <2>3
<1> HIDE DEF G
<1>5. \A m \in Nat : m \in G
  BY <1>3, <1>4, Induction
<1>6. k - n \in Nat /\ k - n <= k /\ k - (k - n) = n
  BY <1>0 DEF k
<1>7. Q(k - (k - n))
  BY <1>5, <1>6 DEF G
<1> QED
  BY <1>6, <1>7 DEF Q, k, Opens

\* prefix keeps the first n elements.
LEMMA PrefixIs ==
  ASSUME NEW S, NEW s \in Seq(S), NEW n \in Nat
  PROVE  /\ prefix(s, n) \in Seq(S)
         /\ Len(prefix(s, n)) = IF n < Len(s) THEN n ELSE Len(s)
         /\ \A i \in 1..Len(prefix(s, n)) : prefix(s, n)[i] = s[i]
<1>1. CASE n < Len(s)
  <2>1. \A i \in 1..n : s[i] \in S
    BY <1>1
  <2>2. /\ SubSeq(s, 1, n) \in Seq(S) /\ Len(SubSeq(s, 1, n)) = n
        /\ \A i \in 1..n : SubSeq(s, 1, n)[i] = s[i]
    BY <1>1, <2>1, SubSeqProperties
  <2>3. prefix(s, n) = SubSeq(s, 1, n)
    BY <1>1 DEF prefix
  <2> QED
    BY <1>1, <2>2, <2>3
<1>2. CASE ~(n < Len(s))
  BY <1>2 DEF prefix
<1> QED
  BY <1>1, <1>2

\* A sequence is a beginning of what is joined to it.
LEMMA BeginsConcat ==
  ASSUME NEW S, NEW s \in Seq(S), NEW h \in Seq(S)
  PROVE  IsPrefix(s, s \o h) /\ prefix(s \o h, Len(s)) = s
<1> DEFINE x == s \o h  n == Len(s)
<1>1. /\ n \in Nat /\ x \in Seq(S) /\ Len(x) = n + Len(h) /\ Len(h) \in Nat
      /\ \A i \in 1..n : x[i] = s[i]
  BY ConcatProperties
<1> HIDE DEF x
<1>2. SubSeq(x, 1, n) = s /\ SubSeq(s, 1, n) = s
  <2>1. \A i \in 1..n : x[i] \in S
    BY <1>1
  <2>2. /\ SubSeq(x, 1, n) \in Seq(S) /\ Len(SubSeq(x, 1, n)) = n
        /\ \A i \in 1..n : SubSeq(x, 1, n)[i] = x[i]
    BY <1>1, <2>1, SubSeqProperties
  <2>3. SubSeq(x, 1, n) = s
    <3> DEFINE y == SubSeq(x, 1, n)
    <3> HIDE DEF y
    <3>1. y \in Seq(S) /\ Len(y) = Len(s) /\ \A i \in 1..Len(y) : y[i] = s[i]
      BY <1>1, <2>2 DEF y
    <3>2. y = s
      BY <3>1, SeqEqual
    <3> QED
      BY <3>2 DEF y
  <2> QED
    BY <2>3, SubSeqFull
<1>3. IsPrefix(s, x)
  BY <1>1, <1>2 DEF IsPrefix
<1>4. prefix(x, n) = s
  <2>1. CASE n < Len(x)
    BY <1>2, <2>1 DEF prefix
  <2>2. CASE ~(n < Len(x))
    <3>1. Len(x) = n
      BY <1>1, <2>2
    <3>2. SubSeq(x, 1, Len(x)) = x
      BY <1>1, SubSeqFull
    <3> QED
      BY <1>2, <2>2, <3>1, <3>2 DEF prefix
  <2> QED
    BY <2>1, <2>2
<1> QED
  BY <1>3, <1>4 DEF x

-----------------------------------------------------------------------------
(* What the texts are made of *)

\* The characters of texts, none of them NUL, have the bytes that wcrtomb gives them.
LEMMA CharsSpelled ==
  ASSUME NEW wc \in Chars
  PROVE  wc \in Nat /\ wc # 0 /\ Spells(encode(wc).out, wc) /\ encode(wc).out \in Bytes
<1>1. /\ wc \in Int /\ wc \in Nat /\ wc # 0
      /\ (0 <= wc /\ wc <= \hd7ff) \/ (\he000 <= wc /\ wc <= \h10ffff)
  BY CharsAssumption DEF between
<1>2. Encoded(wc)
  BY <1>1, EveryCharacterRoundTrips
<1>3. encode(wc).out \in Bytes
  BY DEF encode, Bytes
<1> QED
  BY <1>1, <1>2, <1>3 DEF Encoded

\* t is the bytes of the characters ws.
Made(t, ws) ==
  /\ t \in Seq(Seq(Nat)) /\ ws \in Seq(Nat) /\ Len(ws) = Len(t)
  /\ \A i \in 1..Len(t) : Spells(t[i], ws[i]) /\ t[i] = encode(ws[i]).out

\* Whole strings are the bytes of characters, joined.
LEMMA WholeMade ==
  ASSUME NEW w \in Whole
  PROVE  \E t, ws : Made(t, ws) /\ w = FlattenSeq(t)
<1>1. PICK t \in BoundedSeq(Bytes, MaxChars) : w = FlattenSeq(t)
  BY DEF Whole
<1>2. PICK m \in 0..MaxChars : t \in [1..m -> Bytes]
  BY <1>1 DEF BoundedSeq, SeqOf
<1>3. m \in Nat
  BY CharsAssumption
<1> DEFINE char(i) == CHOOSE wc \in Chars : t[i] = encode(wc).out
           ws == [i \in 1..m |-> char(i)]
<1>4. ASSUME NEW i \in 1..m PROVE char(i) \in Chars /\ t[i] = encode(char(i)).out
  <2>1. t[i] \in Bytes
    BY <1>2
  <2>2. \E wc \in Chars : t[i] = encode(wc).out
    BY <2>1 DEF Bytes, encode
  <2> QED
    BY <2>2
<1> HIDE DEF char
<1>5. ASSUME NEW i \in 1..m
      PROVE  ws[i] \in Nat /\ Spells(t[i], ws[i]) /\ t[i] = encode(ws[i]).out /\ t[i] \in Seq(Nat)
  <2>1. char(i) \in Chars /\ t[i] = encode(char(i)).out
    BY <1>4
  <2>2. char(i) \in Nat /\ Spells(t[i], char(i))
    BY <2>1, CharsSpelled
  <2>3. t[i] \in Seq(Nat)
    BY <2>2 DEF Spells
  <2> QED
    BY <2>1, <2>2, <2>3
<1>6. ws \in Seq(Nat) /\ Len(ws) = m
  BY <1>3, <1>5
<1> HIDE DEF ws
<1>7. t \in Seq(Seq(Nat)) /\ Len(t) = m
  <2>1. DOMAIN t = 1..m /\ t = [i \in 1..m |-> t[i]]
    BY <1>2
  <2>2. t \in [1..m -> Seq(Nat)]
    BY <1>5, <2>1
  <2> QED
    BY <1>3, <2>2
<1>8. Made(t, ws)
  BY <1>5, <1>6, <1>7 DEF Made
<1> QED
  BY <1>1, <1>8

\* The first n characters of o are those of ws.
SameFirst(o, ws, n) == \A i \in 1..n : o[i] = ws[i]

\* The bytes of any characters of ws, from the first on, are what t has joined so far.
LEMMA EncodedAgain ==
  ASSUME NEW t, NEW ws, NEW f, NEW o, NEW n \in 0..Len(t), Made(t, ws), Joins(f, t, Nat),
         SameFirst(o, ws, n)
  PROVE  encoded(o, n) = f[n]
<1> DEFINE u == [i \in 1..n |-> wcrtomb(TRUE, o[i], 4).out]
<1>0. t \in Seq(Seq(Nat)) /\ Len(t) \in Nat /\ n \in Nat /\ \A i \in 1..n : i \in 1..Len(t)
  BY DEF Made
<1>1. \A i \in 1..n : u[i] = t[i] /\ u[i] \in Seq(Nat)
  <2> TAKE i \in 1..n
  <2>1. i \in 1..Len(t)
    BY <1>0
  <2>2. t[i] = encode(ws[i]).out /\ t[i] \in Seq(Nat)
    BY <1>0, <2>1 DEF Made
  <2> QED
    BY <2>2 DEF encode, SameFirst
<1>2. u \in Seq(Seq(Nat)) /\ Len(u) = n
  <2>1. u \in [1..n -> Seq(Nat)]
    <3>1. DOMAIN u = 1..n /\ u = [i \in 1..n |-> u[i]]
      OBVIOUS
    <3> HIDE DEF u
    <3> QED
      BY <1>1, <3>1
  <2> HIDE DEF u
  <2>2. u \in Seq(Seq(Nat)) /\ Len(u) = n
    BY ONLY <1>0, <2>1
  <2> QED
    BY <1>0, <2>2
<1> HIDE DEF u
<1>3. Joins(f, u, Nat)
  <2>1. \A i \in 1..n : f[i] = f[i - 1] \o u[i]
    BY <1>0, <1>1 DEF Joins
  <2> QED
    BY <1>2, <2>1 DEF Joins
<1>4. FlattenSeq(u) = f[n]
  BY <1>2, <1>3, FlattenIs
<1> QED
  BY <1>4 DEF u, encoded

\* What follows the whole characters does not begin with one.
LEMMA RestIs ==
  ASSUME NEW r \in Rests
  PROVE  r \in Seq(Nat) /\ (r # <<>> => decode(<<>>, r).e # "null")
<1>1. r \in Seq(Nat \ {0}) /\ (r # <<>> => decode(<<>>, r).e # "null")
  BY RestsAssumption, Zenon
<1>2. r \in Seq(Nat)
  BY <1>1, SeqMonotonic
<1> QED
  BY <1>1, <1>2

\* The characters of a whole string, none of which is Unset.
LEMMA WholeHasNone ==
  ASSUME NEW mb \in Whole
  PROVE  wides(mb) \in Seq(Nat)
<1>1. PICK t, ws : Made(t, ws) /\ mb = FlattenSeq(t)
  BY WholeMade
<1>2. /\ t \in Seq(Seq(Nat)) /\ ws \in Seq(Nat) /\ Len(ws) = Len(t)
      /\ \A i \in 1..Len(t) : Spells(t[i], ws[i])
  BY <1>1 DEF Made
<1> DEFINE e == <<>>
<1>3. e \in Seq(Nat) /\ rest(e) = <<>> /\ (e # <<>> => decode(<<>>, e).e # "null")
  BY DEF rest
<1> HIDE DEF e
<1>4. wides(FlattenSeq(t) \o e) = ws \o rest(e)
  BY <1>2, <1>3, WidesOf
<1>5. PICK f : Joins(f, t, Nat)
  BY <1>2, JoinsExist
<1>6. mb \in Seq(Nat)
  <2>1. FlattenSeq(t) = f[Len(t)] /\ Len(t) \in Nat
    BY <1>2, <1>5, FlattenIs
  <2> QED
    BY <1>1, <1>5, <2>1 DEF Joins
<1>7. mb \o e = mb
  BY <1>6, EmptyAdds, Zenon DEF e
<1>8. ws \o rest(e) = ws
  BY <1>2, <1>3, EmptyAdds, Zenon
<1> QED
  BY <1>1, <1>2, <1>4, <1>7, <1>8

\* An answer is not the end of the program.
LEMMA AnswerIs ==
  ASSUME NEW ret, NEW errno, NEW out
  PROVE  /\ answer(ret, errno, out) # panics
         /\ answer(ret, errno, out).ret = ret /\ answer(ret, errno, out).out = out
<1>1. DOMAIN answer(ret, errno, out) = {"ret", "errno", "out"} /\ DOMAIN panics = {"err", "out"}
  BY DEF answer, panics, result
<1>2. "ret" \notin {"err", "out"}
  OBVIOUS
<1>3. answer(ret, errno, out) # panics
  BY <1>1, <1>2
<1> QED
  BY <1>3 DEF answer

\* mbstowcs stops at the limit, at the end, or at what follows the whole characters.
LEMMA MbstowcsExact ==
  ASSUME NEW wcs \in BOOLEAN, NEW mb \in Strings, NEW limit \in Nat
  PROVE  Returned(wcs, mb, limit, mbstowcs(wcs, mb, limit))
<1>1. PICK w \in Whole, r \in Rests : mb = w \o r
  BY DEF Strings
<1>2. PICK t, ws : Made(t, ws) /\ w = FlattenSeq(t)
  BY WholeMade
<1>3. /\ t \in Seq(Seq(Nat)) /\ ws \in Seq(Nat) /\ Len(ws) = Len(t)
      /\ \A i \in 1..Len(t) : Spells(t[i], ws[i])
  BY <1>2 DEF Made
<1>4. r \in Seq(Nat) /\ (r # <<>> => decode(<<>>, r).e # "null")
  BY RestIs
<1> DEFINE S == Nat \cup {Unset}
           k == Len(t)
           W == wides(mb)
           y == IF wcs THEN prefix(W, limit) ELSE W
           a == mbstowcs(wcs, mb, limit)
<1>5. W = ws \o rest(r)
  BY <1>1, <1>2, <1>3, <1>4, WidesOf
<1>6. a = IF \E n \in DOMAIN y : y[n] = Unset THEN panics
          ELSE answer(Len(y), 0, IF wcs /\ Len(y) < limit THEN Append(y, 0) ELSE y)
  BY DEF mbstowcs
<1> HIDE DEF a, y, W
<1>7. /\ k \in Nat /\ Len(t) = k /\ Len(ws) = k
      /\ ws \in Seq(S) /\ rest(r) \in Seq(S) /\ W \in Seq(S)
      /\ \A i \in 1..k : ws[i] \in Nat /\ ws[i] # Unset /\ W[i] = ws[i]
      /\ (r = <<>> => W = ws)
      /\ (r # <<>> => Len(W) = k + 1 /\ W[k + 1] = Unset)
  <2>1. k \in Nat /\ ws \in Seq(S)
    BY <1>3, SeqMonotonic
  <2>2. rest(r) \in Seq(S) /\ (r = <<>> => rest(r) = <<>>) /\ (r # <<>> => rest(r) = <<Unset>>)
    <3>1. <<>> \in Seq(S) /\ <<Unset>> \in Seq(S)
      OBVIOUS
    <3>2. (r = <<>> => rest(r) = <<>>) /\ (r # <<>> => rest(r) = <<Unset>>)
      BY DEF rest
    <3> HIDE DEF S
    <3> QED
      BY <3>1, <3>2
  <2>3. \A i \in 1..k : ws[i] \in Nat /\ ws[i] # Unset
    BY <1>3, UnsetAssumption
  <2> HIDE DEF S
  <2>4. /\ W \in Seq(S) /\ Len(W) = Len(ws) + Len(rest(r))
        /\ \A i \in 1..(Len(ws) + Len(rest(r))) :
             W[i] = IF i <= Len(ws) THEN ws[i] ELSE rest(r)[i - Len(ws)]
    BY <1>5, <2>1, <2>2, ConcatProperties
  <2>5. r = <<>> => W = ws
    BY <1>5, <2>1, <2>2, EmptyAdds, Zenon
  <2>6. r # <<>> => Len(W) = k + 1 /\ W[k + 1] = Unset
    <3> SUFFICES ASSUME r # <<>> PROVE Len(W) = k + 1 /\ W[k + 1] = Unset
      OBVIOUS
    <3>1. rest(r) = <<Unset>> /\ Len(rest(r)) = 1 /\ rest(r)[1] = Unset
      BY <2>2
    <3>2. k + 1 \in 1..(Len(ws) + Len(rest(r))) /\ ~(k + 1 <= Len(ws)) /\ (k + 1) - Len(ws) = 1
      BY <1>3, <2>1, <3>1
    <3> QED
      BY <1>3, <2>4, <3>1, <3>2
  <2>7. \A i \in 1..k : W[i] = ws[i]
    <3>1. Len(rest(r)) \in Nat
      BY <2>2
    <3>2. \A i \in 1..k : i \in 1..(Len(ws) + Len(rest(r))) /\ i <= Len(ws)
      BY <1>3, <2>1, <3>1
    <3> QED
      BY <2>4, <3>2
  <2> QED
    BY <1>3, <2>1, <2>2, <2>3, <2>4, <2>5, <2>6, <2>7
<1>8. PICK f : Joins(f, t, Nat)
  BY <1>3, JoinsExist
<1>9. f[k] \in Seq(Nat) /\ w = f[k] /\ mb = f[k] \o r
  <2>1. FlattenSeq(t) = f[k] /\ k \in Nat
    BY <1>3, <1>8, FlattenIs
  <2> QED
    BY <1>1, <1>2, <1>8, <2>1 DEF Joins
<1> HIDE DEF S, k
<1>10. CASE wcs /\ limit <= k
  <2>1. Len(y) = limit /\ y \in Seq(S) /\ \A i \in 1..limit : y[i] = ws[i] /\ y[i] # Unset
    <3>1. y = prefix(W, limit)
      BY <1>10 DEF y
    <3>2. Len(W) \in Nat /\ Len(W) >= k
      <4>1. CASE r = <<>>
        BY <1>3, <1>7, <4>1 DEF k
      <4>2. CASE r # <<>>
        BY <1>7, <4>2
      <4> QED
        BY <4>1, <4>2
    <3>3. /\ y \in Seq(S) /\ Len(y) = IF limit < Len(W) THEN limit ELSE Len(W)
          /\ \A i \in 1..Len(y) : y[i] = W[i]
      BY <1>7, <3>1, PrefixIs
    <3>4. Len(y) = limit
      BY <1>7, <1>10, <3>2, <3>3
    <3>5. \A i \in 1..limit : i \in 1..k
      BY <1>7, <1>10
    <3> QED
      BY <1>7, <3>3, <3>4, <3>5
  <2>2. ~(\E n \in DOMAIN y : y[n] = Unset) /\ ~(Len(y) < limit)
    BY <2>1
  <2>3. a = answer(limit, 0, y)
    BY <1>6, <2>1, <2>2
  <2>4. a # panics /\ a.ret = limit /\ a.out = y
    BY <2>3, AnswerIs
  <2> HIDE DEF a, y
  <2>5. limit \in 0..Len(t)
    BY <1>7, <1>10 DEF k
  <2>6. encoded(y, limit) = f[limit]
    <3>1. Made(t, ws) /\ Joins(f, t, Nat) /\ SameFirst(y, ws, limit)
      BY <1>2, <1>8, <2>1 DEF SameFirst
    <3> QED
      BY ONLY <3>1, <2>5, EncodedAgain
  <2>7. IsPrefix(f[limit], mb)
    <3>1. PICK g \in Seq(Nat) : f[k] = f[limit] \o g
      <4>1. t \in Seq(Seq(Nat)) /\ Joins(f, t, Nat)
        BY <1>3, <1>8
      <4>2. Opens(f[limit], f[Len(t)], Nat)
        BY ONLY <4>1, <2>5, JoinsBegin
      <4> QED
        BY <4>2 DEF k, Opens
    <3> DEFINE b == f[limit]
    <3>2. b \in Seq(Nat)
      BY <1>8 DEF Joins
    <3>3. f[k] = b \o g
      BY <3>1
    <3> HIDE DEF b
    <3>4. (b \o g) \o r = b \o (g \o r) /\ g \o r \in Seq(Nat)
      <4>1. r \in Seq(Nat)
        BY <1>4
      <4>2. g \in Seq(Nat)
        BY <3>1
      <4>3. (b \o g) \o r = b \o (g \o r)
        BY ONLY <4>1, <4>2, <3>2, ConcatAssociative, SMT
      <4>4. g \o r \in Seq(Nat)
        BY ONLY <4>1, <4>2, ConcatProperties
      <4> QED
        BY <4>3, <4>4, Zenon
    <3>5. mb = b \o (g \o r)
      BY <1>9, <3>3, <3>4
    <3>6. IsPrefix(b, mb)
      BY <3>2, <3>4, <3>5, BeginsConcat
    <3> QED
      BY <3>6 DEF b
  <2> QED
    BY <1>10, <2>1, <2>4, <2>6, <2>7 DEF Returned, a
<1>11. CASE ~(wcs /\ limit <= k)
  <2>1. y = W
    <3>1. CASE wcs
      <4>1. Len(W) <= k + 1 /\ Len(W) \in Nat /\ limit > k
        <5>1. limit > k
          BY <1>7, <1>11, <3>1
        <5>2. CASE r = <<>>
          BY <1>3, <1>7, <5>1, <5>2 DEF k
        <5>3. CASE r # <<>>
          BY <1>7, <5>1, <5>3
        <5> QED
          BY <5>2, <5>3
      <4>2. ~(limit < Len(W))
        BY <1>7, <4>1
      <4> QED
        BY <3>1, <4>2 DEF y, prefix
    <3>2. CASE ~wcs
      BY <3>2 DEF y
    <3> QED
      BY <3>1, <3>2
  <2>2. CASE r = <<>>
    <3>1. y = ws /\ Len(y) = k /\ ws \in Seq(Nat)
      BY <1>3, <1>7, <2>1, <2>2 DEF k
    <3>2. ~(\E n \in DOMAIN y : y[n] = Unset)
      BY <1>7, <3>1
    <3> DEFINE o == IF wcs /\ Len(y) < limit THEN Append(y, 0) ELSE y
    <3>3. a = answer(k, 0, o)
      BY <1>6, <3>1, <3>2
    <3>4. a # panics /\ a.ret = k /\ a.out = o
      BY <3>3, AnswerIs
    <3>5. wcs => k < limit
      BY <1>7, <1>11
    <3>6. \A i \in 1..k : o[i] = ws[i]
      BY <3>1
    <3>7. wcs => Len(o) = k + 1 /\ o[k + 1] = 0
      BY <1>7, <3>1, <3>5
    <3> HIDE DEF o, a, y
    <3>8. encoded(o, k) = f[k]
      <4>1. k \in 0..Len(t)
        BY <1>7 DEF k
      <4>2. Made(t, ws) /\ Joins(f, t, Nat) /\ SameFirst(o, ws, k)
        BY <1>2, <1>8, <3>6 DEF SameFirst
      <4> QED
        BY ONLY <4>1, <4>2, EncodedAgain
    <3>9. f[k] = mb
      BY <1>9, <2>2, EmptyAdds, Zenon
    <3>10. ~(wcs /\ k = limit)
      BY <1>7, <3>5
    <3>11. wcs => Last(o) = 0
      BY <3>7 DEF Last
    <3> QED
      BY <3>4, <3>5, <3>8, <3>9, <3>10, <3>11 DEF Returned, a
  <2>3. CASE r # <<>>
    <3>1. k + 1 \in DOMAIN y /\ y[k + 1] = Unset
      BY <1>7, <2>1, <2>3
    <3>2. a = panics
      BY <1>6, <3>1
    <3>3. mb \notin Whole
      <4> SUFFICES ASSUME mb \in Whole PROVE FALSE
        OBVIOUS
      <4>1. W \in Seq(Nat)
        BY WholeHasNone DEF W
      <4>2. Unset \in Nat
        BY <2>1, <3>1, <4>1
      <4> QED
        BY <4>2, UnsetAssumption
    <3> QED
      BY <3>2, <3>3 DEF Returned, a
  <2> QED
    BY <2>2, <2>3
<1> QED
  BY <1>10, <1>11

\* The text mb begins with the n bytes of a character.
FirstIs(mb, n) ==
  \E wc, h : /\ h \in Seq(Nat) /\ Spells(encode(wc).out, wc) /\ Len(encode(wc).out) = n
             /\ mb = encode(wc).out \o h

\* A text is a string and the NUL.
LEMMA TextNat ==
  ASSUME NEW w \in Seq(Nat), NEW r \in Seq(Nat)
  PROVE  /\ Append(w \o r, 0) \in Seq(Nat) /\ Append(w \o r, 0) # <<>>
         /\ Append(w \o r, 0) = (w \o r) \o <<0>>
<1> DEFINE x == w \o r
<1>1. x \in Seq(Nat)
  BY ConcatProperties
<1> HIDE DEF x
<1>2. Append(x, 0) \in Seq(Nat) /\ Len(Append(x, 0)) = Len(x) + 1 /\ Append(x, 0) = x \o <<0>>
  BY <1>1, AppendProperties, AppendIsConcat
<1>3. Append(x, 0) # <<>>
  BY <1>1, <1>2
<1> QED
  BY <1>2, <1>3 DEF x

\* Joining is associative, in the forms that are needed.
LEMMA JoinThree == \A a, b, c \in Seq(Nat) : (a \o b) \o c = a \o (b \o c)
  BY ConcatAssociative, SMT

LEMMA JoinTwo == \A a, b \in Seq(Nat) : a \o b \in Seq(Nat)
  BY ConcatProperties, SMT

FourJoin(a, b, c, d) ==
  (b \o c) \o d \in Seq(Nat) /\ ((a \o b) \o c) \o d = a \o ((b \o c) \o d)

LEMMA JoinFour == \A a, b, c, d \in Seq(Nat) : FourJoin(a, b, c, d)
<1> TAKE a, b, c, d \in Seq(Nat)
<1>1. b \o c \in Seq(Nat) /\ (b \o c) \o d \in Seq(Nat)
  BY JoinTwo
<1>2. (a \o b) \o c = a \o (b \o c)
  BY JoinThree
<1>3. PICK x : x = b \o c
  OBVIOUS
<1>4. x \in Seq(Nat)
  BY <1>1, <1>3
<1>5. (a \o x) \o d = a \o (x \o d)
  BY ONLY <1>4, a \in Seq(Nat), d \in Seq(Nat), JoinThree
<1>6. (a \o b) \o c = a \o x /\ x \o d = (b \o c) \o d
  BY <1>2, <1>3
<1>7. ((a \o b) \o c) \o d = (a \o x) \o d
  BY <1>6
<1>8. ((a \o b) \o c) \o d = a \o (x \o d)
  BY <1>5, <1>7
<1> QED
  BY <1>1, <1>3, <1>6, <1>8, Zenon DEF FourJoin

\* A text that begins the way a character does begins with a character of its own.
LEMMA TextBegins ==
  ASSUME NEW mb \in Texts
  PROVE  /\ mb \in Seq(Nat) /\ mb # <<>>
         /\ \A n : mb[1] # 0 /\ Begun(mb, n) => FirstIs(mb, n)
<1>1. PICK w \in Whole, r \in Rests : mb = Append(w \o r, 0)
  BY DEF Texts, Strings
<1>2. PICK t, ws : Made(t, ws) /\ w = FlattenSeq(t)
  BY WholeMade
<1>3. t \in Seq(Seq(Nat)) /\ Len(t) \in Nat
  BY <1>2 DEF Made
<1>4. r \in Seq(Nat) /\ (r # <<>> => decode(<<>>, r).e # "null")
  BY RestIs
<1>5. PICK f : Joins(f, t, Nat)
  BY <1>3, JoinsExist
<1>6. w = f[Len(t)]
  BY <1>2, <1>3, <1>5, FlattenIs
<1>7. w \in Seq(Nat)
  BY <1>3, <1>5, <1>6 DEF Joins
<1>8. mb \in Seq(Nat) /\ mb # <<>> /\ mb = (w \o r) \o <<0>>
  BY <1>1, <1>4, <1>7, TextNat
<1>9. ASSUME Len(t) = 0, NEW n, mb[1] # 0, Begun(mb, n) PROVE FALSE
  <2>1. w = <<>>
    BY <1>5, <1>6, <1>9 DEF Joins
  <2>2. w \o r = r
    BY <1>4, <2>1, EmptyAdds, Zenon
  <2>3. mb = Append(r, 0)
    BY <1>1, <2>2
  <2> DEFINE m == Len(r)
  <2>4. m \in Nat /\ Len(mb) = m + 1 /\ mb[m + 1] = 0 /\ \A i \in 1..m : mb[i] = r[i]
    BY <1>4, <2>3, AppendProperties
  <2> HIDE DEF m
  <2>5. m # 0
    BY <1>9, <2>4
  <2>6. r # <<>>
    BY <2>5 DEF m
  <2>7. n \in 1..4 /\ m + 1 >= n /\ lead(mb[1]) = n /\ \A i \in 2..n : between(mb[i], 128, 191)
    BY <1>9, <2>4 DEF Begun
  <2>8. CASE n <= m
    <3>1. \A i \in 1..n : mb[i] = r[i]
      BY <2>4, <2>7, <2>8
    <3>2. lead(r[1]) = n /\ \A i \in 2..n : between(r[i], 128, 191)
      BY <2>7, <3>1
    <3>3. Begun(r, n)
      BY <2>4, <2>7, <2>8, <3>2 DEF Begun, m
    <3> QED
      BY <1>4, <2>6, <3>3, DecodeBegun
  <2>9. CASE n = m + 1
    <3>1. n \in 2..n
      BY <2>4, <2>5, <2>7, <2>9
    <3>2. between(0, 128, 191)
      BY <2>4, <2>7, <2>9, <3>1
    <3> QED
      BY <3>2 DEF between
  <2> QED
    BY <2>4, <2>7, <2>8, <2>9
<1>10. ASSUME Len(t) # 0, NEW n, Begun(mb, n) PROVE FirstIs(mb, n)
  <2> DEFINE s == t[1]  wc == ws[1]
  <2>1. 1 \in 0..Len(t) /\ 1 \in 1..Len(t) /\ 1 - 1 = 0
    BY <1>3, <1>10
  <2>2. Spells(s, wc) /\ s = encode(wc).out
    BY <1>2, <2>1 DEF Made
  <2>3. s \in Seq(Nat) /\ Begun(s, Len(s))
    BY <2>2 DEF Spells
  <2>4. f[1] = s
    <3>1. f[1] = f[1 - 1] \o t[1] /\ f[0] = <<>>
      BY <1>5, <2>1, Zenon DEF Joins
    <3>2. f[0] \o s = s
      BY <2>3, <3>1, EmptyAdds, Zenon
    <3> QED
      BY <2>1, <3>1, <3>2
  <2>5. Opens(f[1], f[Len(t)], Nat)
    BY ONLY <1>3, <1>5, <2>1, JoinsBegin
  <2> HIDE DEF s, wc
  <2>6. PICK g \in Seq(Nat) : w = s \o g
    BY <1>6, <2>4, <2>5 DEF Opens
  <2>7. PICK z : z = <<0>>
    OBVIOUS
  <2>8. s \in Seq(Nat) /\ g \in Seq(Nat) /\ r \in Seq(Nat) /\ z \in Seq(Nat)
    BY <1>4, <2>3, <2>7
  <2>9. PICK h : h = (g \o r) \o z
    OBVIOUS
  <2>10. (g \o r) \o z \in Seq(Nat) /\ ((s \o g) \o r) \o z = s \o ((g \o r) \o z)
    <3>1. FourJoin(s, g, r, z)
      BY ONLY <2>8, JoinFour
    <3> QED
      BY <3>1, Zenon DEF FourJoin
  <2>11. h \in Seq(Nat) /\ mb = s \o h
    BY <1>8, <2>6, <2>7, <2>9, <2>10, Zenon
  <2>12. Len(s) >= 1 /\ Len(s) \in Nat
    BY <2>3 DEF Begun
  <2>13. (s \o h)[1] = s[1]
    <3>0. h \in Seq(Nat)
      BY <2>11
    <3>1. Len(s \o h) = Len(s) + Len(h) /\ 1 <= Len(s) /\ Len(h) \in Nat
      BY ONLY <2>8, <3>0, <2>12, ConcatProperties
    <3>2. 1 \in 1..(Len(s) + Len(h))
      BY <2>12, <3>1
    <3> QED
      BY ONLY <2>8, <3>0, <3>1, <3>2, ConcatProperties
  <2>14. n = Len(s)
    BY <1>10, <2>3, <2>11, <2>13 DEF Begun
  <2> QED
    BY <2>2, <2>11, <2>14 DEF FirstIs
<1> QED
  BY <1>8, <1>9, <1>10

\* What decode answers to a text that does not begin with a whole character.
LEMMA DecodeKinds ==
  ASSUME NEW s \in Seq(Nat)
  PROVE  \/ decode(<<>>, s).e = "null"
         \/ decode(<<>>, s).e = "illegal_input"
         \/ decode(<<>>, s).e = "input_underflow" /\ decode(<<>>, s).st = s
BY DecodeIs

\* Seen from a beginning of it, a text begins with the same character.
LEMMA BegunLonger ==
  ASSUME NEW s \in Seq(Nat), NEW x \in Seq(Nat), NEW n, Begun(x, n),
         n <= Len(s), \A i \in 1..n : x[i] = s[i]
  PROVE  Begun(s, n) /\ bits(x, n) = bits(s, n)
<1>1. n \in 1..4 /\ lead(x[1]) = n /\ \A i \in 2..n : between(x[i], 128, 191)
  BY DEF Begun
<1>2. x[1] = s[1] /\ \A i \in 2..n : x[i] = s[i]
  BY <1>1
<1>3. bits(x, n) = bits(s, n)
  BY ONLY <1>1, \A i \in 1..n : x[i] = s[i], BitsAgree
<1> QED
  BY <1>1, <1>2, <1>3 DEF Begun

\* The bytes of a character other than NUL do not begin with 0.
LEMMA NotNul ==
  ASSUME NEW s, NEW wc \in Nat, Spells(s, wc), wc # 0
  PROVE  s[1] # 0
<1> SUFFICES ASSUME s[1] = 0 PROVE FALSE
  OBVIOUS
<1>1. lead(0) = 1
  BY DEF lead
<1>2. Len(s) = 1 /\ bits(s, 1) = wc
  BY <1>1 DEF Spells, Begun
<1>3. bits(s, 1) = 0
  BY DEF bits, First, Weight
<1> QED
  BY <1>2, <1>3

\* A beginning of x has its elements.
LEMMA PrefixSame ==
  ASSUME NEW s \in Seq(Nat), NEW x \in Seq(Nat), IsPrefix(s, x)
  PROVE  Len(s) <= Len(x) /\ \A i \in 1..Len(s) : x[i] = s[i]
<1> DEFINE n == Len(s)
<1>1. n \in Nat /\ n <= Len(x) /\ SubSeq(s, 1, n) = SubSeq(x, 1, n)
  BY DEF IsPrefix
<1>2. \A i \in 1..n : SubSeq(s, 1, n)[i] = s[i] /\ SubSeq(x, 1, n)[i] = x[i]
  BY <1>1
<1> QED
  BY <1>1, <1>2

\* mbtowc without a state: the character is one of the text's own, or none.
LEMMA MbtowcExact ==
  ASSUME NEW mb \in Texts, NEW max \in 0..4
  PROVE  Converted(mb, max, mbtowc(<<>>, mb, max, 4), mbtowc(<<>>, mb, max, 4).st)
<1> DEFINE x == prefix(mb, max)
           d == decode(<<>>, x)
           a == mbtowc(<<>>, mb, max, 4)
           Begin(wc) == IsPrefix(encode(wc).out, x)
<1>1. mb \in Seq(Nat) /\ mb # <<>> /\ Len(mb) \in Nat /\ Len(mb) >= 1
  BY TextBegins
<1>2. /\ x \in Seq(Nat) /\ Len(x) = (IF max < Len(mb) THEN max ELSE Len(mb))
      /\ \A i \in 1..Len(x) : x[i] = mb[i]
  BY <1>1, PrefixIs
<1> HIDE DEF x
<1>3. Len(x) \in 0..4 /\ Len(x) <= max /\ Len(x) <= Len(mb) /\ (max # 0 => Len(x) >= 1)
  <2>1. CASE max < Len(mb)
    <3>1. Len(x) = max
      BY <1>2, <2>1
    <3> QED
      BY <1>1, <2>1, <3>1
  <2>2. CASE ~(max < Len(mb))
    <3>1. Len(x) = Len(mb)
      BY <1>2, <2>2
    <3> QED
      BY <1>1, <2>2, <3>1
  <2> QED
    BY <2>1, <2>2
<1>4. prefix(x, 4) = x
  BY <1>3 DEF prefix
<1>5. a = IF max = 0 THEN with_state(answer(-1, -EILSEQ, Unset), <<>>)
          ELSE IF mb[1] = 0 THEN with_state(answer(0, 0, 0), <<>>)
          ELSE with_state(IF d.e = "illegal_input" THEN answer(-1, -EILSEQ, Unset)
                          ELSE answer(d.it, 0, d.wc), d.st)
  BY <1>4 DEF mbtowc, x
<1> HIDE DEF a, d
\* The bytes of a character that x begins with.
<1>6. ASSUME NEW wc \in Chars, Begin(wc)
      PROVE  /\ x[1] # 0 /\ mb[1] # 0 /\ max # 0 /\ Begun(x, Len(encode(wc).out))
             /\ bits(x, Len(encode(wc).out)) = wc
  <2> DEFINE e == encode(wc).out
  <2>1. wc \in Nat /\ wc # 0 /\ Spells(e, wc)
    BY CharsSpelled
  <2>2. IsPrefix(e, x)
    BY <1>6
  <2> HIDE DEF e
  <2>3. e \in Seq(Nat) /\ Begun(e, Len(e)) /\ bits(e, Len(e)) = wc /\ Len(e) \in 1..4
    BY <2>1 DEF Spells, Begun
  <2>4. Len(e) <= Len(x) /\ \A i \in 1..Len(e) : x[i] = e[i]
    BY <1>2, <2>2, <2>3, PrefixSame
  <2>5. Begun(x, Len(e)) /\ bits(x, Len(e)) = wc
    <3>1. \A i \in 1..Len(e) : e[i] = x[i]
      BY <2>4
    <3>2. Begun(x, Len(e)) /\ bits(e, Len(e)) = bits(x, Len(e))
      BY <1>2, <2>3, <2>4, <3>1, BegunLonger
    <3> QED
      BY <2>3, <3>2
  <2>6. e[1] # 0
    BY <2>1, NotNul
  <2>7. 1 \in 1..Len(e) /\ 1 \in 1..Len(x) /\ max # 0
    <3>1. Len(e) \in 1..4 /\ Len(e) <= Len(x)
      BY <2>3, <2>4
    <3>2. Len(x) \in Nat /\ Len(x) >= 1 /\ Len(e) >= 1
      BY <1>3, <3>1
    <3>3. max >= 1
      BY <1>3, <3>2
    <3>4. 1 \in 1..Len(e) /\ 1 \in 1..Len(x)
      BY <3>1, <3>2
    <3> QED
      BY <3>3, <3>4
  <2>8. x[1] = e[1] /\ x[1] = mb[1]
    BY <1>2, <2>4, <2>7
  <2> QED
    BY <2>5, <2>6, <2>7, <2>8 DEF e
<1>7. CASE max = 0 \/ mb[1] = 0
  <2>1. a.ret \in {-1, 0}
    BY <1>5, <1>7 DEF with_state, answer
  <2>2. ~(a.ret > 0)
    BY <2>1
  <2>3. \A wc \in Chars : ~Begin(wc)
    BY <1>6, <1>7
  <2> QED
    BY <2>2, <2>3 DEF Converted, a, x, encode
<1>8. CASE max # 0 /\ mb[1] # 0
  <2>1. a = with_state(IF d.e = "illegal_input" THEN answer(-1, -EILSEQ, Unset)
                       ELSE answer(d.it, 0, d.wc), d.st)
    BY <1>5, <1>8
  <2>2. x # <<>> /\ x[1] = mb[1]
    BY <1>2, <1>3, <1>8
  <2>3. ASSUME d.e = "null"
        PROVE  a.ret = d.it /\ a.out = d.wc /\ a.st = d.st
    BY <2>1, <2>3 DEF with_state, answer
  <2>4. ASSUME NEW n, Begun(x, n)
        PROVE  a.ret = n /\ a.out = bits(x, n) /\ a.st = <<>>
    <3>1. d.e = "null" /\ d.it = n /\ d.wc = bits(x, n) /\ d.st = <<>>
      BY <1>2, <2>4, DecodeBegun DEF d
    <3> QED
      BY <2>3, <3>1
  <2>5. ASSUME NEW wc \in Chars, Begin(wc)
        PROVE  a.ret = Len(encode(wc).out) /\ a.out = wc /\ a.st = <<>>
    BY <1>6, <2>4, <2>5
  <2>6. ASSUME a.ret > 0, a.st = <<>> PROVE encode(a.out).out = prefix(mb, a.ret)
    <3>1. d.e = "null"
      <4>1. CASE d.e = "illegal_input"
        BY <2>1, <2>6, <4>1 DEF with_state, answer
      <4>2. CASE d.e = "input_underflow" /\ d.st = x
        <5>1. a.st = x
          BY <2>1, <4>2 DEF with_state
        <5> QED
          BY <2>2, <2>6, <5>1
      <4> QED
        BY <1>2, <4>1, <4>2, DecodeKinds DEF d
    <3>2. PICK n : Begun(x, n)
      BY <1>2, <2>2, <3>1, NullBegun DEF d
    <3>3. n \in 1..4 /\ n <= Len(x) /\ n <= Len(mb) /\ \A i \in 1..n : x[i] = mb[i]
      BY <1>1, <1>2, <1>3, <3>2 DEF Begun
    <3>4. Begun(mb, n) /\ bits(x, n) = bits(mb, n)
      BY <1>1, <1>2, <3>2, <3>3, BegunLonger
    <3>5. FirstIs(mb, n)
      BY <1>8, <3>4, TextBegins
    <3>6. PICK wc, h : /\ h \in Seq(Nat) /\ Spells(encode(wc).out, wc)
                       /\ Len(encode(wc).out) = n /\ mb = encode(wc).out \o h
      BY <3>5 DEF FirstIs
    <3> DEFINE e == encode(wc).out
    <3>7. h \in Seq(Nat) /\ e \in Seq(Nat) /\ Len(e) = n /\ mb = e \o h /\ bits(e, n) = wc
      BY <3>6 DEF Spells
    <3> HIDE DEF e
    <3>8. prefix(e \o h, Len(e)) = e
      BY ONLY <3>7, BeginsConcat
    <3>9. prefix(mb, n) = e
      BY <3>7, <3>8
    <3>10. \A i \in 1..n : (e \o h)[i] = e[i]
      BY ONLY <3>3, <3>7, ConcatProperties
    <3>11. \A i \in 1..n : mb[i] = e[i]
      BY <3>7, <3>10
    <3>12. bits(mb, n) = wc
      BY <3>3, <3>7, <3>11, BitsAgree
    <3>13. a.ret = n /\ a.out = wc
      BY <2>4, <3>2, <3>4, <3>12
    <3> QED
      BY <3>9, <3>13 DEF e
  <2> QED
    BY <2>5, <2>6 DEF Converted, a, x, encode
<1> QED
  BY <1>7, <1>8

\* wcrtomb in both kinds of locale.
LEMMA WcrtombExact ==
  ASSUME NEW wc \in Int, NEW max \in {1, 4}
  PROVE  Written(wc, max, wcrtomb(TRUE, wc, max))
<1>1. CASE max = 4
  <2> DEFINE a == encode(wc)
             scalar == between(wc, 0, \h10ffff) /\ ~between(wc, \hd800, \hdfff)
  <2>1. wcrtomb(TRUE, wc, max) = a /\ max # 1
    BY <1>1, SMT DEF encode
  <2>2. CASE scalar
    <3>1. (0 <= wc /\ wc <= \hd7ff) \/ (\he000 <= wc /\ wc <= \h10ffff)
      BY <2>2, SMT DEF between
    <3>2. Encoded(wc)
      BY <3>1, EveryCharacterRoundTrips, SMT
    <3>3. /\ a.ret = Len(a.out) /\ decode(<<>>, a.out).wc = wc
          /\ \A n \in 1..a.ret-1 : wc >= Bounds[n]
      BY <3>2, Zenon DEF Encoded
    <3> HIDE DEF a
    <3>4. Written(wc, max, a)
      BY <2>1, <2>2, <3>3, SMT DEF Written, Bounds
    <3> QED
      BY <2>1, <3>4, Zenon
  <2>3. CASE ~scalar
    <3>1. ~((0 <= wc /\ wc <= \hd7ff) \/ (\he000 <= wc /\ wc <= \h10ffff))
      BY <2>3, SMT DEF between
    <3>2. a.ret = -1
      BY <3>1, EveryCharacterRoundTrips, SMT
    <3> HIDE DEF a
    <3>3. Written(wc, max, a)
      BY <2>1, <2>3, <3>2, SMT DEF Written
    <3> QED
      BY <2>1, <3>3, Zenon
  <2> HIDE DEF scalar
  <2> QED
    BY <2>2, <2>3
<1>2. CASE max = 1
  <2> DEFINE a == wcrtomb(TRUE, wc, max)
  <2>1. a.ret = 1 <=> between(wc, 0, \h7f) \/ between(wc, \hdf80, \hdfff)
    BY <1>2, SMT DEF wcrtomb, answer, IS_CODEUNIT, between
  <2> HIDE DEF a
  <2>2. Written(wc, max, a)
    BY <1>2, <2>1, SMT DEF Written
  <2> QED
    BY <2>2 DEF a
<1> QED
  BY <1>1, <1>2, Zenon

-----------------------------------------------------------------------------
(* The machine *)

WrapperNames == DOMAIN Wrappers([errno |-> 0, ret |-> 0])
StubNames    == DOMAIN Stubs([errno |-> 0, ret |-> 0])

\* The functions that are neither wrappers nor stubs in one line.
OtherNames ==
  {"sys_tgkill", "sys_uname", "sys_gethostname", "sys_getsockopt", "sys_setsockopt", "sys_poll",
   "sys_sleep", "sys_pause", "sys_pselect", "calloc", "aligned_alloc", "posix_memalign", "malloc",
   "realloc", "wcrtomb", "wctomb", "mbtowc", "mblen", "mbstowcs", "getmntent"}

LEMMA NamesApart ==
  /\ \A k : DOMAIN Wrappers(k) = WrapperNames /\ DOMAIN Stubs(k) = StubNames
  /\ \A f \in OtherNames : f \notin WrapperNames /\ f \notin StubNames
  /\ \A f \in WrapperNames : f \notin StubNames
<1>1. \A k : DOMAIN Wrappers(k) = WrapperNames
  BY DEF WrapperNames, Wrappers
<1>2. \A k : DOMAIN Stubs(k) = StubNames
  BY DEF StubNames, Stubs
<1>3. \A f \in OtherNames : f \notin WrapperNames
  BY DEF WrapperNames, Wrappers, OtherNames
<1>4. \A f \in OtherNames : f \notin StubNames
  BY DEF StubNames, Stubs, OtherNames
<1>5. \A f \in WrapperNames : f \notin StubNames
  BY DEF StubNames, Stubs, WrapperNames, Wrappers
<1> QED
  BY <1>1, <1>2, <1>3, <1>4, <1>5

\* What each step calls.
LEMMA CallNames ==
  ASSUME MntInv, Next
  PROVE  \/ Wrapper       /\ call'.f \in WrapperNames
         \/ Stub          /\ call'.f \in StubNames
         \/ Tgkill        /\ call'.f = "sys_tgkill"
         \/ Names         /\ call'.f \in {"sys_uname", "sys_gethostname"}
         \/ SocketOption  /\ call'.f \in {"sys_getsockopt", "sys_setsockopt"}
         \/ Wait          /\ call'.f \in {"sys_poll", "sys_sleep", "sys_pause"}
         \/ Select        /\ call'.f = "sys_pselect"
         \/ Allocate      /\ call'.f \in {"calloc", "aligned_alloc", "posix_memalign", "malloc",
                                          "realloc"}
         \/ Encode        /\ call'.f \in {"wcrtomb", "wctomb"}
         \/ (Mbtowc \/ Mblen \/ Reset) /\ call'.f \in {"mbtowc", "mblen"}
         \/ Mbstowcs      /\ call'.f = "mbstowcs"
         \/ Getmntent     /\ call'.f = "getmntent" /\ res' = Unset
         \/ GetmntentLine /\ call'.f = "getmntent"
         \/ Return        /\ call' = Unset /\ res' = Unset
<1>1. CASE Wrapper
  <2>1. PICK k \in Kernel : \E f \in DOMAIN Wrappers(k) : call' = [f |-> f, k |-> k]
    BY <1>1 DEF Wrapper, returns
  <2>2. call'.f \in WrapperNames
    BY <2>1, NamesApart
  <2> QED
    BY <1>1, <2>2
<1>2. CASE Stub
  <2>1. PICK k \in Kernel : \E f \in DOMAIN Stubs(k) : call' = [f |-> f]
    BY <1>2 DEF Stub, returns
  <2>2. call'.f \in StubNames
    BY <2>1, NamesApart
  <2> QED
    BY <1>2, <2>2
<1>3. CASE Tgkill
  BY <1>3 DEF Tgkill, returns
<1>4. CASE Names
  BY <1>4 DEF Names, returns
<1>5. CASE SocketOption
  BY <1>5 DEF SocketOption, returns
<1>6. CASE Wait
  BY <1>6 DEF Wait, returns
<1>7. CASE Select
  BY <1>7 DEF Select, returns
<1>8. CASE Allocate
  BY <1>8 DEF Allocate, returns
<1>9. CASE Encode
  BY <1>9 DEF Encode, returns
<1>10. CASE Mbtowc
  BY <1>10 DEF Mbtowc, returns
<1>11. CASE Mblen
  <2>1. \E mb, limit : call' = [f |-> "mblen", mb |-> mb, max |-> limit]
    BY <1>11, Zenon DEF Mblen, returns
  <2>2. call'.f = "mblen"
    BY <2>1
  <2> QED
    BY <1>11, <2>2
<1>12. CASE Mbstowcs
  BY <1>12 DEF Mbstowcs, returns
<1>13. CASE Reset
  BY <1>13 DEF Reset, returns
<1>14. CASE Getmntent
  <2>1. \E r : call' = [f |-> "getmntent", r |-> r]
    BY <1>14, Zenon DEF Getmntent
  <2>2. res' = Unset
    BY <1>14 DEF Getmntent
  <2> QED
    BY <1>14, <2>1, <2>2
<1>15. CASE GetmntentLine
  <2>1. call \in [f : {"getmntent"}, r : Readings]
    BY <1>15 DEF GetmntentLine, MntInv, Idle
  <2>2. call' = [call EXCEPT !.r = read_line(call.r)[1]]
    BY <1>15 DEF GetmntentLine
  <2>3. call'.f = "getmntent"
    BY <2>1, <2>2
  <2> QED
    BY <1>15, <2>3
<1>16. CASE Return
  BY <1>16 DEF Return
<1> QED
  BY <1>1, <1>2, <1>3, <1>4, <1>5, <1>6, <1>7, <1>8, <1>9, <1>10, <1>11, <1>12, <1>13,
     <1>14, <1>15, <1>16 DEF Next

\* The reader's invariant, and what it returns.
LEMMA MntStep ==
  ASSUME MntInv, NextEntryRead, [Next]_funcvars
  PROVE  MntInv' /\ NextEntryRead'
<1>1. CASE UNCHANGED funcvars
  BY <1>1 DEF funcvars, MntInv, NextEntryRead, Called
<1>2. CASE Getmntent
  <2>1. PICK file \in Mounts, end \in BOOLEAN : \E pos \in 0..Len(file) :
          LET f == IF end \/ file = <<>> THEN file ELSE [file EXCEPT ![Len(file)].nl = FALSE]
          IN \E r \in {getmntent(f, pos), getmntent_r(f, pos)} :
               call' = [f |-> "getmntent", r |-> r]
    BY <1>2 DEF Getmntent
  <2> DEFINE f == IF end \/ file = <<>> THEN file ELSE [file EXCEPT ![Len(file)].nl = FALSE]
  <2>2. PICK pos \in 0..Len(file) : \E r \in {getmntent(f, pos), getmntent_r(f, pos)} :
          call' = [f |-> "getmntent", r |-> r]
    BY <2>1
  <2>3. f \in Files /\ Len(f) = Len(file)
    BY MountsAreFiles
  <2> HIDE DEF f
  <2>4. PICK r \in {getmntent(f, pos), getmntent_r(f, pos)} :
          call' = [f |-> "getmntent", r |-> r]
    BY <2>2
  <2>5. ReadOK(r) /\ r \in Readings
    <3>1. pos \in 0..Len(f)
      BY <2>3
    <3>2. ReadOK(r)
      BY <2>3, <3>1, ReadingBegins
    <3> QED
      BY <3>2 DEF ReadOK
  <2>6. res' = Unset
    BY <1>2 DEF Getmntent
  <2>7. call'.r = r /\ call' \in [f : {"getmntent"}, r : Readings]
    BY <2>4, <2>5
  <2> QED
    BY <2>5, <2>6, <2>7 DEF MntInv, NextEntryRead, Called
<1>3. CASE GetmntentLine
  <2> DEFINE next == read_line(call.r)
  <2>1. /\ call # Unset /\ call.f = "getmntent" /\ res = Unset
        /\ call' = [call EXCEPT !.r = next[1]]
        /\ res' = IF next[2].errno = "again" THEN Unset ELSE next[2]
    BY <1>3 DEF GetmntentLine, Idle
  <2>2. call \in [f : {"getmntent"}, r : Readings] /\ ReadOK(call.r)
    BY <2>1 DEF MntInv
  <2>3. /\ next[1] \in Readings
        /\ IF next[2].errno = "again" THEN ReadOK(next[1])
           ELSE EntryRead(next[1], next[2]) /\ next[2] # Unset
    BY <2>2, ReadLine
  <2> HIDE DEF next
  <2>4. call' \in [f : {"getmntent"}, r : Readings] /\ call'.r = next[1]
    BY <2>1, <2>2, <2>3
  <2>5. res' = Unset => ReadOK(call'.r)
    <3>1. CASE next[2].errno = "again"
      BY <2>3, <2>4, <3>1
    <3>2. CASE next[2].errno # "again"
      BY <2>1, <2>3, <2>4, <3>2
    <3> QED
      BY <3>1, <3>2
  <2>6. res' # Unset => EntryRead(call'.r, res')
    BY <2>1, <2>3, <2>4
  <2>7. MntInv'
    BY <2>4, <2>5 DEF MntInv
  <2>8. NextEntryRead'
    BY <2>6 DEF NextEntryRead, Called, EntryRead, LastGiven, Giving, Passed
  <2> QED
    BY <2>7, <2>8
<1>4. CASE Next /\ ~Getmntent /\ ~GetmntentLine
  <2>1. "getmntent" \notin WrapperNames /\ "getmntent" \notin StubNames
    BY NamesApart DEF OtherNames
  <2>2. (call' = Unset /\ res' = Unset) \/ call'.f # "getmntent"
    BY <1>4, <2>1, CallNames
  <2> QED
    BY <2>2 DEF MntInv, NextEntryRead, Called
<1> QED
  BY <1>1, <1>2, <1>3, <1>4

LEMMA AllocateStep ==
  ASSUME MntInv, AllocatesEnough, [Next]_funcvars
  PROVE  AllocatesEnough'
<1>1. CASE UNCHANGED funcvars
  BY <1>1 DEF funcvars, AllocatesEnough, Called
<1>2. CASE Allocate
  <2>1. PICK m \in 0..SIZE_MAX, n \in 0..SIZE_MAX, room \in BOOLEAN :
          \/ returns([f |-> "calloc", m |-> m, n |-> n], calloc(m, n, room))
          \/ returns([f |-> "aligned_alloc", m |-> m, n |-> n], aligned_alloc(m, n, room))
          \/ returns([f |-> "posix_memalign", m |-> m, n |-> n], posix_memalign(m, n, room))
          \/ returns([f |-> "malloc", m |-> 1, n |-> n], malloc(n, room))
          \/ returns([f |-> "realloc", m |-> 1, n |-> n], realloc(n, room))
    BY <1>2 DEF Allocate
  <2>2. CASE returns([f |-> "calloc", m |-> m, n |-> n], calloc(m, n, room))
    <3>1. /\ res'.err = EINVAL <=> m * n > SIZE_MAX
          /\ res'.out # Unset => res'.out.bytes >= m * n
      BY <2>2, CallocEnough DEF returns
    <3>2. call'.f = "calloc" /\ call'.m = m /\ call'.n = n
      BY <2>2 DEF returns
    <3> QED
      BY <3>1, <3>2 DEF AllocatesEnough, Called
  <2>3. CASE returns([f |-> "aligned_alloc", m |-> m, n |-> n], aligned_alloc(m, n, room))
    <3>1. /\ res'.out # Unset => res'.out.bytes >= n /\ (m # 0 => res'.out.aligned % m = 0)
          /\ res'.err = -1 => m > Page
          /\ res'.err = EINVAL => m \notin Powers \/ n % m # 0
      BY <2>3, AlignedAllocEnough DEF returns
    <3>2. call'.f = "aligned_alloc" /\ call'.m = m /\ call'.n = n
      BY <2>3 DEF returns
    <3> QED
      BY <3>1, <3>2 DEF AllocatesEnough, Called
  <2>4. CASE returns([f |-> "posix_memalign", m |-> m, n |-> n], posix_memalign(m, n, room))
    <3>1. m \in Nat /\ m <= pow2[SizeBits]
      BY Sizes
    <3>2. /\ res'.out # Unset => res'.out.bytes >= n /\ res'.out.aligned % m = 0
          /\ res'.err = -1 => m > Page
          /\ res'.err = EINVAL => m < PointerSize \/ m \notin Powers
      BY <2>4, <3>1, MemalignEnough DEF returns
    <3>3. call'.f = "posix_memalign" /\ call'.m = m /\ call'.n = n
      BY <2>4 DEF returns
    <3> QED
      BY <3>2, <3>3 DEF AllocatesEnough, Called
  <2>5. CASE \/ returns([f |-> "malloc", m |-> 1, n |-> n], malloc(n, room))
             \/ returns([f |-> "realloc", m |-> 1, n |-> n], realloc(n, room))
    <3>1. call'.f \in {"malloc", "realloc"}
      BY <2>5 DEF returns
    <3> QED
      BY <3>1 DEF AllocatesEnough, Called
  <2> QED
    BY <2>1, <2>2, <2>3, <2>4, <2>5
<1>3. CASE Next /\ ~Allocate
  <2>1. \A f \in {"calloc", "posix_memalign", "aligned_alloc"} :
          f \notin WrapperNames /\ f \notin StubNames
    BY NamesApart DEF OtherNames
  <2>2. res' = Unset \/ call'.f \notin {"calloc", "posix_memalign", "aligned_alloc"}
    BY <1>3, <2>1, CallNames
  <2> QED
    BY <2>2 DEF AllocatesEnough, Called
<1> QED
  BY <1>1, <1>2, <1>3

LEMMA TimeoutStep ==
  ASSUME MntInv, TimeoutExact, [Next]_funcvars
  PROVE  TimeoutExact'
<1>1. CASE UNCHANGED funcvars
  BY <1>1 DEF funcvars, TimeoutExact, Called
<1>2. CASE Wait
  <2> DEFINE Ints == {-INT_MAX - 1, -1, 0, 1, 999, 1000, 1001, INT_MAX}
  <2>0. \A t \in Ints : t \in Int
    <3>1. INT_MAX \in Nat
      BY ToInt
    <3> QED
      BY <3>1
  <2>1. PICK k \in Kernel :
          \/ \E t \in Ints :
               returns([f |-> "sys_poll", t |-> t], sys_poll(<<>>, t, k))
          \/ \E s \in 0..MaxSeconds, n \in Nanos :
               returns([f |-> "sys_sleep", s |-> s, n |-> n], sys_sleep(s, n, k))
          \/ returns([f |-> "sys_pause"], sys_pause(k))
    BY <1>2 DEF Wait
  <2> HIDE DEF Ints
  <2>2. ASSUME NEW t \in Ints, returns([f |-> "sys_poll", t |-> t], sys_poll(<<>>, t, k))
        PROVE  TimeoutExact'
    <3>1. t \in Int
      BY <2>0
    <3>2. res'.limit = poll_limit(t)
      BY <2>2, <3>1, PollExact DEF returns
    <3>3. call'.f = "sys_poll" /\ call'.t = t
      BY <2>2 DEF returns
    <3>4. IF t < 0 THEN res'.limit = NULL
          ELSE Millis(res'.limit) = t /\ res'.limit.nsec < 1000000000
      BY <3>1, <3>2, PollLimit
    <3> QED
      BY <3>3, <3>4 DEF TimeoutExact, Called, Millis
  <2>3. ASSUME NEW s \in 0..MaxSeconds, NEW n \in Nanos,
               returns([f |-> "sys_sleep", s |-> s, n |-> n], sys_sleep(s, n, k))
        PROVE  TimeoutExact'
    <3>1. s \in Nat /\ n \in Nat
      BY CallsAssumption DEF Nanos
    <3> DEFINE ms == s * 1000 + n \div 1000000
    <3>2. IF ms <= INT_MAX THEN res'.limit # NULL /\ Millis(res'.limit) = ms
          ELSE res'.limit # NULL => Millis(res'.limit) < ms
      BY <2>3, <3>1, SleepExact DEF returns
    <3>3. call'.f = "sys_sleep" /\ call'.s = s /\ call'.n = n
      BY <2>3 DEF returns
    <3> QED
      BY <3>2, <3>3 DEF TimeoutExact, Called, Millis
  <2>4. CASE returns([f |-> "sys_pause"], sys_pause(k))
    <3>1. res'.limit = poll_limit(-1)
      BY <2>4 DEF returns, sys_pause, sys_poll, sys_ppoll
    <3>2. res'.limit = NULL /\ call'.f = "sys_pause"
      BY <2>4, <3>1, PollLimit DEF returns
    <3> QED
      BY <3>2 DEF TimeoutExact, Called
  <2> QED
    BY <2>1, <2>2, <2>3, <2>4
<1>3. CASE Next /\ ~Wait
  <2>1. \A f \in {"sys_poll", "sys_sleep", "sys_pause"} :
          f \notin WrapperNames /\ f \notin StubNames
    BY NamesApart DEF OtherNames
  <2>2. res' = Unset \/ call'.f \notin {"sys_poll", "sys_sleep", "sys_pause"}
    BY <1>3, <2>1, CallNames
  <2> QED
    BY <2>2 DEF TimeoutExact, Called
<1> QED
  BY <1>1, <1>2, <1>3

LEMMA SelectStep ==
  ASSUME MntInv, SelectExact, [Next]_funcvars
  PROVE  SelectExact'
<1>1. CASE UNCHANGED funcvars
  BY <1>1 DEF funcvars, SelectExact, Called
<1>2. CASE Select
  <2>1. PICK sets \in Sets, memory \in BOOLEAN :
          \/ \E revents \in [0..Nfds-1 -> UNION {Reports(entries(Nfds, sets)[i]) : i \in 0..Nfds-1}] :
               /\ \A i \in 0..Nfds-1 : /\ revents[i] \in Reports(entries(Nfds, sets)[i])
                                       /\ Cardinality(revents[i]) <= MaxReports
               /\ returns([f |-> "sys_pselect", sets |-> sets, revents |-> revents],
                          sys_pselect(Nfds, sets, NULL, memory, polled(revents), revents))
          \/ returns([f |-> "sys_pselect", sets |-> sets],
                     sys_pselect(Nfds, sets, NULL, memory, [errno |-> EINTR, ret |-> 0], <<>>))
    BY <1>2, Zenon DEF Select
  <2>2. ASSUME NEW revents, Reported(sets, revents),
               returns([f |-> "sys_pselect", sets |-> sets, revents |-> revents],
                       sys_pselect(Nfds, sets, NULL, memory, polled(revents), revents))
        PROVE  SelectExact'
    <3>1. call'.sets = sets /\ call'.revents = revents
      BY <2>2 DEF returns
    <3>2. CASE ~memory
      <4>1. res'.err = ENOMEM /\ res'.sets = sets /\ ENOMEM # 0
        BY <2>2, <3>2 DEF returns, sys_pselect, ENOMEM
      <4> QED
        BY <3>1, <4>1 DEF SelectExact
    <3>3. CASE memory
      <4> DEFINE rdy == ready(Nfds, sets, revents)
      <4>1. res'.err = 0 /\ res'.sets = rdy /\ res'.out = polled(revents).ret
        BY <2>2, <3>3 DEF returns, sys_pselect, sys_ppoll, stores, plain, result, polled
      <4>2. LET left     == UNION {rdy[s] : s \in DOMAIN rdy}
                asked    == UNION {sets[s] : s \in DOMAIN sets}
                reported == {i \in 0..Nfds-1 : revents[i] # {}}
            IN /\ DOMAIN rdy = DOMAIN sets
               /\ left \subseteq reported /\ reported \subseteq asked
               /\ polled(revents).ret = Cardinality(reported)
               /\ \A i \in reported \ left :
                    \/ revents[i] = {"POLLNVAL"}
                    \/ \A s \in DOMAIN sets : i \in sets[s] => s = "except"
        BY <2>2, ReadyExact
      <4>3. \A s \in DOMAIN sets : \A i \in 0..Nfds-1 :
              i \in rdy[s] <=>
                /\ i \in sets[s]
                /\ \/ Event[s] \in revents[i]
                   \/ s # "except" /\ {"POLLERR", "POLLHUP"} \cap revents[i] # {}
        BY ReadyIs
      <4> HIDE DEF rdy
      <4> QED
        BY <3>1, <4>1, <4>2, <4>3 DEF SelectExact
    <3> QED
      BY <3>2, <3>3
  <2>3. CASE returns([f |-> "sys_pselect", sets |-> sets],
                     sys_pselect(Nfds, sets, NULL, memory, [errno |-> EINTR, ret |-> 0], <<>>))
    <3>1. res'.err # 0 /\ res'.sets = sets /\ call'.sets = sets
      BY <2>3 DEF returns, sys_pselect, sys_ppoll, stores, plain, result, ENOMEM, EINTR
    <3> QED
      BY <3>1 DEF SelectExact
  <2> QED
    BY <2>1, <2>2, <2>3 DEF Reported
<1>3. CASE Next /\ ~Select
  <2>1. "sys_pselect" \notin WrapperNames /\ "sys_pselect" \notin StubNames
    BY NamesApart DEF OtherNames
  <2>2. res' = Unset \/ call'.f # "sys_pselect"
    BY <1>3, <2>1, CallNames
  <2> QED
    BY <2>2 DEF SelectExact, Called
<1> QED
  BY <1>1, <1>2, <1>3

\* The wrappers that store nothing, and those that look at something else than errno.
Special == {"sys_stat", "sys_isatty", "sys_tcb_set", "sys_getpid", "sys_getppid"}

\* Every other wrapper hands on the error, and stores a number if it has an output.
LEMMA WrapperAnswers ==
  ASSUME NEW k \in Kernel, NEW f \in WrapperNames
  PROVE  /\ f \notin Special =>
              /\ Wrappers(k)[f].err = k.errno
              /\ f \in Outputs /\ k.errno = 0 => Wrappers(k)[f].out = k.ret
         /\ f = "sys_stat" =>
              Wrappers(k)[f].err = (IF k.errno # 0 THEN k.errno ELSE k.ret) /\ f \notin Outputs
         /\ f = "sys_isatty" =>
              Wrappers(k)[f].err = (IF k.errno = 0 THEN 0 ELSE ENOTTY) /\ f \notin Outputs
         /\ f = "sys_tcb_set" => Wrappers(k)[f].err = 0 /\ f \notin Outputs
         /\ f \in {"sys_getpid", "sys_getppid"} => Wrappers(k)[f] = [err |-> 0, out |-> k.ret]
<1> DEFINE p == plain(k)  s == stores(k)
<1>1. /\ p.err = k.errno /\ s.err = k.errno
      /\ k.errno = 0 => s.out = k.ret
  BY DEF plain, stores, result
<1>2. \/ f \in Special
      \/ f \in {"sys_tcgetattr", "sys_tcsetattr"}
         /\ Wrappers(k)[f] = [err |-> s.err, out |-> Unset] /\ f \notin Outputs
      \/ Wrappers(k)[f] = p /\ f \notin Outputs
      \/ Wrappers(k)[f] = s
  <2>1. f \in DOMAIN Wrappers(k)
    BY NamesApart
  <2> HIDE DEF p, s
  <2>2. Wrappers(k) = [sys_write |-> s, sys_read |-> s, sys_ioctl |-> s, sys_seek |-> s,
          sys_ftruncate |-> p, sys_read_entries |-> s, sys_getcwd |-> p, sys_chdir |-> p,
          sys_access |-> p, sys_readlink |-> s, sys_symlink |-> p, sys_unlinkat |-> p,
          sys_rmdir |-> p, sys_mkdir |-> p, sys_stat |-> sys_stat(k),
          sys_isatty |-> sys_isatty(k), sys_tcgetattr |-> [err |-> s.err, out |-> Unset],
          sys_tcsetattr |-> [err |-> s.err, out |-> Unset], sys_anon_allocate |-> s,
          sys_anon_free |-> p, sys_tcb_set |-> sys_tcb_set(k), sys_getpid |-> sys_getpid(k),
          sys_getppid |-> sys_getppid(k), sys_getpgid |-> s, sys_getsid |-> s,
          sys_setpgid |-> p, sys_setsid |-> s, sys_sigpending |-> p, sys_kill |-> p,
          sys_setitimer |-> p, sys_bind |-> p, sys_listen |-> p, sys_connect |-> p,
          sys_peername |-> s, sys_msg_send |-> s, sys_msg_recv |-> s, sys_clock_get |-> s]
    BY DEF Wrappers, p, s, result, sys_write, sys_read, sys_ioctl, sys_seek, sys_ftruncate,
       sys_read_entries, sys_getcwd, sys_chdir, sys_faccessat, sys_access, sys_readlinkat,
       sys_readlink, sys_symlinkat, sys_symlink, sys_unlinkat, sys_rmdir, sys_mkdirat, sys_mkdir,
       sys_tcgetattr, sys_tcsetattr, sys_vm_map, sys_anon_allocate, sys_vm_unmap, sys_anon_free,
       sys_getpgid, sys_getsid, sys_setpgid, sys_setsid, sys_sigpending, sys_kill,
       sys_setitimer, sys_bind, sys_listen, sys_connect, sys_peername, sys_msg_send,
       sys_msg_recv, sys_clock_get
  <2> QED
    BY <2>1, <2>2 DEF Special, Outputs
<1>3. /\ f = "sys_stat" =>
           Wrappers(k)[f].err = (IF k.errno # 0 THEN k.errno ELSE k.ret) /\ f \notin Outputs
      /\ f = "sys_isatty" =>
           Wrappers(k)[f].err = (IF k.errno = 0 THEN 0 ELSE ENOTTY) /\ f \notin Outputs
      /\ f = "sys_tcb_set" => Wrappers(k)[f].err = 0 /\ f \notin Outputs
      /\ f \in {"sys_getpid", "sys_getppid"} => Wrappers(k)[f] = [err |-> 0, out |-> k.ret]
  <2>1. CASE f = "sys_stat"
    BY <2>1 DEF Wrappers, sys_stat, result, Outputs
  <2>2. CASE f = "sys_isatty"
    <3>1. Wrappers(k)[f].err = IF s.err = 0 THEN 0 ELSE ENOTTY
      BY <2>2 DEF Wrappers, sys_isatty, sys_ioctl, result
    <3> QED
      BY <1>1, <2>2, <3>1 DEF Outputs
  <2>3. CASE f = "sys_tcb_set"
    BY <2>3 DEF Wrappers, sys_tcb_set, result, Outputs
  <2>4. CASE f = "sys_getpid"
    BY <2>4 DEF Wrappers, sys_getpid, result
  <2>5. CASE f = "sys_getppid"
    BY <2>5 DEF Wrappers, sys_getppid, result
  <2> QED
    BY <2>1, <2>2, <2>3, <2>4, <2>5
<1> HIDE DEF p, s
<1> QED
  BY <1>1, <1>2, <1>3 DEF Special

LEMMA StubAnswers ==
  ASSUME NEW k \in Kernel, NEW f \in StubNames, f \in Outputs, Stubs(k)[f].err = 0
  PROVE  Stubs(k)[f].out = Unset <=> f = "sys_umask"
<1>1. f \in DOMAIN Stubs(k)
  BY NamesApart
<1> DEFINE ok == STUB_OK  no == STUB_ENOSYS  zero == result(0, 0)  one == result(0, 1)
<1>2. /\ ok.out = Unset /\ no.err # 0
      /\ zero.out # Unset /\ one.out # Unset
  BY UnsetAssumption DEF STUB_OK, STUB_ENOSYS, result, ENOSYS
<1> HIDE DEF ok, no, zero, one
<1>3. Stubs(k) = [sys_link |-> ok, sys_linkat |-> ok, sys_fchmod |-> ok, sys_chmod |-> ok,
        sys_fsync |-> ok, sys_vm_protect |-> ok, sys_getuid |-> zero, sys_geteuid |-> zero,
        sys_getgid |-> zero, sys_setgid |-> ok, sys_getegid |-> zero, sys_ttyname |-> no,
        sys_socketpair |-> no, sys_fchownat |-> ok, sys_inotify_create |-> no,
        sys_signalfd_create |-> no, sys_getgroups |-> no, sys_mount |-> no,
        sys_umount2 |-> no, sys_sethostname |-> no, sys_getitimer |-> no, sys_umask |-> ok,
        sys_clock_getres |-> one]
  BY DEF Stubs, ok, no, zero, one, sys_link, sys_linkat, sys_fchmodat, sys_fchmod, sys_chmod,
     sys_fsync, sys_vm_protect, sys_getuid, sys_geteuid, sys_getgid, sys_setgid, sys_getegid,
     sys_ttyname, sys_socketpair, sys_fchownat, sys_inotify_create, sys_signalfd_create,
     sys_getgroups, sys_mount, sys_umount2, sys_sethostname, sys_getitimer, sys_umask,
     sys_clock_getres
<1> QED
  BY <1>1, <1>2, <1>3 DEF Outputs

LEMMA ReportsStep ==
  ASSUME MntInv, ReportsTruthfully, [Next]_funcvars
  PROVE  ReportsTruthfully'
<1>1. CASE UNCHANGED funcvars
  BY <1>1 DEF funcvars, ReportsTruthfully, Called
<1> DEFINE Truthful(f, c, r) ==
             IF f \in {"sys_getpid", "sys_getppid", "sys_tcb_set"} THEN r.err = 0
             ELSE /\ r.err = 0 <=> c.k.errno = 0 /\ (f = "sys_stat" => c.k.ret = 0)
                  /\ c.k.errno # 0 => r.err \in {c.k.errno, ENOTTY}
                  /\ r.err = ENOTTY => f = "sys_isatty"
           Stored(f, r) == r.err = 0 => (r.out = Unset <=> f = "sys_umask")
<1>2. SUFFICES ASSUME Next
               PROVE  /\ \A f \in WrapperNames : (Called(f))' => Truthful(f, call', res')
                      /\ \A f \in Outputs : (Called(f))' => Stored(f, res')
  BY <1>1, <1>2 DEF ReportsTruthfully, WrapperNames
<1>3. CASE Wrapper
  <2>0. PICK k \in Kernel : \E f \in DOMAIN Wrappers(k) :
          returns([f |-> f, k |-> k], Wrappers(k)[f])
    BY <1>3 DEF Wrapper
  <2>1. PICK f \in DOMAIN Wrappers(k) : returns([f |-> f, k |-> k], Wrappers(k)[f])
    BY <2>0
  <2>2. f \in WrapperNames
    BY NamesApart
  <2>3. call'.f = f /\ call'.k = k /\ res' = Wrappers(k)[f]
    BY <2>1 DEF returns
  <2>4. k.errno \in {0, 4} /\ k.ret \in 0..2 /\ k.ret # Unset /\ ENOTTY = 25
    BY UnsetAssumption DEF Kernel, EINTR, ENOTTY
  <2> DEFINE r == Wrappers(k)[f]
  <2>5. /\ f \notin Special =>
              r.err = k.errno /\ (f \in Outputs /\ k.errno = 0 => r.out = k.ret)
        /\ f = "sys_stat" => r.err = (IF k.errno # 0 THEN k.errno ELSE k.ret) /\ f \notin Outputs
        /\ f = "sys_isatty" => r.err = (IF k.errno = 0 THEN 0 ELSE ENOTTY) /\ f \notin Outputs
        /\ f = "sys_tcb_set" => r.err = 0 /\ f \notin Outputs
        /\ f \in {"sys_getpid", "sys_getppid"} => r = [err |-> 0, out |-> k.ret]
    BY <2>2, WrapperAnswers
  <2>6. f # "sys_umask"
    BY <2>2 DEF WrapperNames, Wrappers
  <2> HIDE DEF r
  <2>7. Truthful(f, call', r)
    BY <2>3, <2>4, <2>5 DEF Special
  <2>8. f \in Outputs => Stored(f, r)
    BY <2>4, <2>5, <2>6 DEF Special
  <2>9. \A g : (Called(g))' => g = f
    BY <2>3 DEF Called
  <2> HIDE DEF Truthful, Stored
  <2>10. res' = r
    BY <2>3 DEF r
  <2> QED
    BY <2>7, <2>8, <2>9, <2>10
<1>4. CASE Stub
  <2>0. PICK k \in Kernel : \E f \in DOMAIN Stubs(k) : returns([f |-> f], Stubs(k)[f])
    BY <1>4 DEF Stub
  <2>1. PICK f \in DOMAIN Stubs(k) : returns([f |-> f], Stubs(k)[f])
    BY <2>0
  <2>2. f \in StubNames /\ f \notin WrapperNames
    BY NamesApart
  <2>3. call'.f = f /\ res' = Stubs(k)[f]
    BY <2>1 DEF returns
  <2>4. f \in Outputs => Stored(f, res')
    BY <2>2, <2>3, StubAnswers
  <2>5. \A g : (Called(g))' => g = f
    BY <2>3 DEF Called
  <2> HIDE DEF Truthful, Stored
  <2> QED
    BY <2>2, <2>4, <2>5
<1>5. CASE ~Wrapper /\ ~Stub
  <2>1. res' = Unset \/ call'.f \in OtherNames
    BY <1>2, <1>5, CallNames DEF OtherNames
  <2>2. \A f \in Outputs : f \notin OtherNames
    BY DEF Outputs, OtherNames
  <2>3. \A f \in OtherNames : f \notin WrapperNames
    BY NamesApart
  <2> HIDE DEF Truthful, Stored
  <2> QED
    BY <2>1, <2>2, <2>3 DEF Called
<1> QED
  BY <1>3, <1>4, <1>5

\* Each of the four functions answers as the lemmas above say.
LEMMA TextStep ==
  ASSUME MntInv, TextRoundTrip, [Next]_funcvars
  PROVE  TextRoundTrip'
<1>1. CASE UNCHANGED funcvars
  BY <1>1 DEF funcvars, TextRoundTrip, Called
<1>2. CASE Encode
  <2>1. PICK s \in BOOLEAN, wc \in Wides, max \in {1, 4} :
          \/ returns([f |-> "wcrtomb", s |-> s, wc |-> wc, max |-> max], wcrtomb(s, wc, max))
          \/ returns([f |-> "wctomb", s |-> s, wc |-> wc, max |-> max], wctomb(s, wc, max))
    BY <1>2 DEF Encode
  <2>2. wc \in Int
    BY CharsAssumption, SMT
  <2>3. Written(wc, max, wcrtomb(TRUE, wc, max))
    BY <2>2, WcrtombExact
  <2>4. CASE returns([f |-> "wcrtomb", s |-> s, wc |-> wc, max |-> max], wcrtomb(s, wc, max))
    <3>1. /\ call'.f = "wcrtomb" /\ call'.s = s /\ call'.wc = wc /\ call'.max = max
          /\ res' = wcrtomb(s, wc, max)
      BY <2>4 DEF returns
    <3> QED
      BY <2>3, <3>1 DEF TextRoundTrip, Called
  <2>5. CASE returns([f |-> "wctomb", s |-> s, wc |-> wc, max |-> max], wctomb(s, wc, max))
    <3>1. call'.f = "wctomb"
      BY <2>5 DEF returns
    <3> QED
      BY <3>1 DEF TextRoundTrip, Called
  <2> QED
    BY <2>1, <2>4, <2>5
<1>3. CASE Mbtowc
  <2>1. PICK mb \in Texts, max \in 0..4 :
          LET r == mbtowc(mbtowc_state, mb, max, 4)
          IN /\ returns([f |-> "mbtowc", mb |-> mb, max |-> max, st |-> mbtowc_state], r)
             /\ mbtowc_state' = r.st
    BY <1>3 DEF Mbtowc
  <2> DEFINE r == mbtowc(mbtowc_state, mb, max, 4)
  <2>2. /\ call'.f = "mbtowc" /\ call'.mb = mb /\ call'.max = max /\ call'.st = mbtowc_state
        /\ res' = r /\ mbtowc_state' = r.st
    BY <2>1 DEF returns
  <2>3. mbtowc_state = <<>> => Converted(mb, max, r, r.st)
    <3> SUFFICES ASSUME mbtowc_state = <<>> PROVE Converted(mb, max, r, r.st)
      OBVIOUS
    <3>1. r = mbtowc(<<>>, mb, max, 4)
      OBVIOUS
    <3> HIDE DEF r
    <3> QED
      BY <3>1, MbtowcExact
  <2> HIDE DEF r
  <2> QED
    BY <2>2, <2>3 DEF TextRoundTrip, Called
<1>4. CASE Reset
  <2>1. call'.f = "mbtowc" /\ call'.mb = NULL
    BY <1>4 DEF Reset, returns
  <2> QED
    BY <2>1 DEF TextRoundTrip, Called
<1>5. CASE Mbstowcs
  <2>1. PICK wcs \in BOOLEAN, mb \in Strings, limit \in 0..3 :
          returns([f |-> "mbstowcs", wcs |-> wcs, mb |-> mb, max |-> limit],
                  mbstowcs(wcs, mb, limit))
    BY <1>5 DEF Mbstowcs
  <2>2. /\ call'.f = "mbstowcs" /\ call'.wcs = wcs /\ call'.mb = mb /\ call'.max = limit
        /\ res' = mbstowcs(wcs, mb, limit)
    BY <2>1 DEF returns
  <2>3. Returned(wcs, mb, limit, mbstowcs(wcs, mb, limit))
    BY MbstowcsExact
  <2> QED
    BY <2>2, <2>3 DEF TextRoundTrip, Called
<1>6. CASE Mblen
  <2>1. \E mb, limit : call' = [f |-> "mblen", mb |-> mb, max |-> limit]
    BY <1>6, Zenon DEF Mblen, returns
  <2>2. call'.f = "mblen"
    BY <2>1
  <2> QED
    BY <2>2 DEF TextRoundTrip, Called
<1>7. CASE Next /\ ~Encode /\ ~Mbtowc /\ ~Mblen /\ ~Reset /\ ~Mbstowcs
  <2>1. \A f \in {"wcrtomb", "mbtowc", "mbstowcs"} : f \notin WrapperNames /\ f \notin StubNames
    BY NamesApart DEF OtherNames
  <2>2. res' = Unset \/ call'.f \notin {"wcrtomb", "mbtowc", "mbstowcs"}
    BY <1>7, <2>1, CallNames
  <2> QED
    BY <2>2 DEF TextRoundTrip, Called
<1> QED
  BY <1>1, <1>2, <1>3, <1>4, <1>5, <1>6, <1>7

-----------------------------------------------------------------------------
(* Theorems *)

\* The conjunction that is inductive.
LibcInv ==
  /\ MntInv /\ NextEntryRead /\ AllocatesEnough /\ TimeoutExact /\ SelectExact /\ ReportsTruthfully
  /\ TextRoundTrip

LEMMA LibcInvariant == Spec => []LibcInv
<1>1. Init => LibcInv
  BY DEF Init, LibcInv, MntInv, NextEntryRead, AllocatesEnough, TimeoutExact, SelectExact,
         ReportsTruthfully, TextRoundTrip, Called
<1>2. LibcInv /\ [Next]_funcvars => LibcInv'
  BY MntStep, AllocateStep, TimeoutStep, SelectStep, ReportsStep, TextStep DEF LibcInv
<1> QED
  BY <1>1, <1>2, PTL DEF Spec

\* A call of getmntent returns the next entry of the table and passes over nothing but
\* comments and blank lines, whatever the table (getmntent_r).
THEOREM NextEntriesRead == Spec => []NextEntryRead
<1>1. LibcInv => NextEntryRead
  BY DEF LibcInv
<1> QED
  BY <1>1, LibcInvariant, PTL

\* For every width of size_t, a block holds what was asked for and is aligned as asked,
\* and a size that overflows is refused (calloc, aligned_alloc, posix_memalign).
THEOREM AllocationsSuffice == Spec => []AllocatesEnough
<1>1. LibcInv => AllocatesEnough
  BY DEF LibcInv
<1> QED
  BY <1>1, LibcInvariant, PTL

\* For every width of int, poll and sleep wait as long as they are told while that fits,
\* and otherwise less or for ever, never longer (sys_poll, sys_sleep, sys_pause).
THEOREM TimeoutsExact == Spec => []TimeoutExact
<1>1. LibcInv => TimeoutExact
  BY DEF LibcInv
<1> QED
  BY <1>1, LibcInvariant, PTL

\* For every number of descriptors, pselect keeps in its sets exactly what was asked for
\* and is ready, counts descriptors, and changes nothing when it fails (sys_pselect).
THEOREM SelectsExactly == Spec => []SelectExact
<1>1. LibcInv => SelectExact
  BY DEF LibcInv
<1> QED
  BY <1>1, LibcInvariant, PTL

\* A wrapper reports a failure exactly when the kernel did, and on success its output
\* was stored, except by the stub of umask (generic.cpp, stubs.cpp).
THEOREM WrappersReport == Spec => []ReportsTruthfully
<1>1. LibcInv => ReportsTruthfully
  BY DEF LibcInv
<1> QED
  BY <1>1, LibcInvariant, PTL

\* For every set of characters and of what may follow them, and texts of any length:
\* wcrtomb encodes exactly the scalar values, mbtowc gives the character that a text
\* begins with and no other, and mbstowcs the characters of a string, as many as there is
\* room for (wcrtomb, mbtowc, mbstowcs).
THEOREM TextsRoundTrip == Spec => []TextRoundTrip
<1>1. LibcInv => TextRoundTrip
  BY DEF LibcInv
<1> QED
  BY <1>1, LibcInvariant, PTL

=============================================================================
