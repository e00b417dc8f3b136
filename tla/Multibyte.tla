----------------------------- MODULE Multibyte ------------------------------
(***************************************************************************)
(* Wide characters to bytes and back, from mlibc-salernos/                 *)
(* stdlib.patched.cpp: wcrtomb in full, over unsigned values (a negative   *)
(* wchar_t is above every bound), and the functions that hand bytes to the *)
(* decoder of the C library, which is external.  An answer is the value    *)
(* returned, the errno set (0 for none) and what was written.              *)
(***************************************************************************)
EXTENDS Syscalls, Sequences

answer(ret, errno, out) == [ret |-> ret, errno |-> errno, out |-> out]

between(c, low, high) == low <= c /\ c <= high

IS_CODEUNIT(c) == between(c, \hdf80, \hdfff)

\* The six bits of wc above the lowest n, as a continuation byte.
tail(wc, n) == 128 + ((wc \div 2^n) % 64)

\* Mutation: the surrogates are not left out.
three_bytes_all(wc) == between(wc, \h800, \hffff)

three_bytes(wc) == between(wc, \h800, \hd7ff) \/ between(wc, \he000, \hffff)

wcrtomb(s, wc, mb_cur_max) ==
  IF ~s THEN answer(1, 0, <<>>)
  ELSE IF between(wc, 0, \h7f) THEN answer(1, 0, <<wc>>)
  ELSE IF mb_cur_max = 1
       THEN IF ~IS_CODEUNIT(wc) THEN answer(-1, EILSEQ, <<>>)
            ELSE answer(1, 0, <<wc % 256>>)
  ELSE IF between(wc, \h80, \h7ff) THEN answer(2, 0, <<192 + wc \div 2^6, tail(wc, 0)>>)
  ELSE IF three_bytes(wc)
       THEN answer(3, 0, <<224 + wc \div 2^12, tail(wc, 6), tail(wc, 0)>>)
  ELSE IF between(wc, \h10000, \h10ffff)
       THEN answer(4, 0, <<240 + wc \div 2^18, tail(wc, 12), tail(wc, 6), tail(wc, 0)>>)
  ELSE answer(-1, EILSEQ, <<>>)

wctomb(s, wc, mb_cur_max) == IF ~s THEN answer(0, 0, <<>>) ELSE wcrtomb(s, wc, mb_cur_max)

-----------------------------------------------------------------------------
(* Decoding.  The decoder (external) continues from a state, the bytes of  *)
(* a character that have been read: it ends the character, keeps an        *)
(* incomplete one in the state, or meets a byte that cannot come there.    *)

\* The length of the character that b begins, or 0.
lead(b) == IF b < 128 THEN 1 ELSE IF between(b, 192, 223) THEN 2
           ELSE IF between(b, 224, 239) THEN 3 ELSE IF between(b, 240, 247) THEN 4 ELSE 0

\* The bits of the first n bytes of s: all but the marks, most significant first.
First  == <<128, 32, 16, 8>>
Weight == <<1, 64, 4096, 262144>>
bits(s, n) ==
  LET low(i) == IF i = 1 THEN s[1] % First[n] ELSE s[i] % 64
      at(i)  == IF i > n THEN 0 ELSE low(i) * Weight[n - i + 1]
  IN at(1) + at(2) + at(3) + at(4)

decode(st, mb) ==
  LET s == st \o mb
      n == lead(s[1])
      m == IF Len(s) < n THEN Len(s) ELSE n
  IN IF n = 0 \/ \E i \in 2..m : ~between(s[i], 128, 191)
     THEN [e |-> "illegal_input", it |-> 0, wc |-> Unset, st |-> <<>>]
     ELSE IF Len(s) < n THEN [e |-> "input_underflow", it |-> Len(mb), wc |-> Unset, st |-> s]
     ELSE [e |-> "null", it |-> n - Len(st), wc |-> bits(s, n), st |-> <<>>]

\* At most limit bytes of mb.
prefix(mb, limit) == IF limit < Len(mb) THEN SubSeq(mb, 1, limit) ELSE mb

with_state(a, st) == [ret |-> a.ret, errno |-> a.errno, out |-> a.out, st |-> st]

\* What mbtowc answers and the state it leaves.  An incomplete character counts
\* as read, and errno is set to a negative number.
mbtowc(st, mb, max_size, mb_cur_max) ==
  IF max_size = 0 THEN with_state(answer(-1, -EILSEQ, Unset), st)
  ELSE IF mb[1] = 0 THEN with_state(answer(0, 0, 0), st)
  ELSE LET d == decode(st, prefix(prefix(mb, max_size), mb_cur_max))
       IN with_state(IF d.e = "illegal_input" THEN answer(-1, -EILSEQ, Unset)
                     ELSE answer(d.it, 0, d.wc), d.st)

\* mblen ends the program where mbtowc reports an error or a part, so that its own
\* state is always initial.
mblen(mb, mb_limit) ==
  LET d == decode(<<>>, prefix(mb, mb_limit))
  IN IF d.e = "null" THEN answer(d.it, 0, Unset) ELSE panics

\* The characters of the string mb, up to the first that is not complete: Unset.
wides(mb) ==
  LET from[p \in 1..Len(mb)+1] ==
        IF p > Len(mb) THEN <<>>
        ELSE LET d == decode(<<>>, SubSeq(mb, p, Len(mb)))
             IN IF d.e = "null" THEN <<d.wc>> \o from[p + d.it] ELSE <<Unset>>
  IN from[1]

\* The decoder stops when wc_limit characters are written; the NUL is written only if
\* there is room behind them.  Without wcs they are counted.
mbstowcs(wcs, mb, wc_limit) ==
  LET ws == IF wcs THEN prefix(wides(mb), wc_limit) ELSE wides(mb)
  IN IF \E n \in DOMAIN ws : ws[n] = Unset THEN panics
     ELSE answer(Len(ws), 0, IF wcs /\ Len(ws) < wc_limit THEN Append(ws, 0) ELSE ws)

=============================================================================
