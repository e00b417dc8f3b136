------------------------------- MODULE Memory -------------------------------
(***************************************************************************)
(* The allocation functions of mlibc-salernos/stdlib.patched.cpp over the  *)
(* allocator of the C library: size_t with its overflow, the checks of     *)
(* alignment and the hope that the allocator aligns.                       *)
(***************************************************************************)
EXTENDS Syscalls

CONSTANTS SizeBits,     \* the width of size_t, scaled down
          PointerSize,  \* sizeof(void *), scaled down
          Page          \* the largest alignment the allocator provides

ASSUME MemoryAssumption ==
  /\ SizeBits \in Nat /\ PointerSize \in Nat /\ Page \in Nat
  /\ \E i, j \in 0..SizeBits : i <= j /\ PointerSize = pow2[i] /\ Page = pow2[j]

SIZE_MAX == pow2[SizeBits] - 1

Powers == {pow2[i] : i \in 0..SizeBits}

\* The allocator (external): a block of at least n bytes, aligned to the
\* power of two that n fills and at most to a page; or none.
Class(n)  == CHOOSE p \in Powers : p >= n /\ \A q \in Powers : q >= n => p <= q
Min2(m, n) == IF m < n THEN m ELSE n
allocate(n, room) ==
  IF ~room THEN Unset ELSE [bytes |-> n, aligned |-> Min2(Class(n), Page)]

malloc(size, room) == result(0, allocate(size, room))

\* The old block is the allocator's to keep, to move or to free.
realloc(size, room) == result(0, allocate(size, room))

\* Mutation: the multiplication is not guarded.
calloc_wraps(count, size, room) == malloc((count * size) % pow2[SizeBits], room)

calloc(count, size, room) ==
  IF size # 0 /\ count > SIZE_MAX \div size THEN result(EINVAL, Unset)
  ELSE malloc((count * size) % pow2[SizeBits], room)

\* align & (align - 1): 0 and the powers of two pass.
one_bit(align) == align = 0 \/ align \in Powers

posix_memalign(align, size, room) ==
  IF align < PointerSize \/ ~one_bit(align) THEN result(EINVAL, Unset)
  ELSE LET p == allocate(IF align < size THEN size ELSE align, room)
       IN IF p = Unset THEN result(ENOMEM, Unset)
          ELSE IF p.aligned % align # 0 THEN panics ELSE result(0, p)

\* size & (alignment - 1) is size itself for the alignment 0.
aligned_alloc(alignment, size, room) ==
  LET rest == IF alignment = 0 THEN size ELSE size % alignment
  IN IF ~one_bit(alignment) \/ rest # 0 THEN result(EINVAL, Unset)
     ELSE posix_memalign(IF alignment < PointerSize THEN PointerSize ELSE alignment, size, room)

=============================================================================
