---------------------------- MODULE MCLibcCalls -----------------------------
(* Characters of every length, and values on both sides of each bound of    *)
(* wcrtomb; a text may end in a byte that begins no character, in a bad     *)
(* continuation, or in any part of a character.                             *)
EXTENDS LibcCalls

MCWides == {-1, 0, \h7f, \h80, \h7ff, \h800, \hd7ff, \hd800, \hdf7f, \hdf80, \hdfff, \he000,
            \hffff, \h10000, \h10ffff, \h110000}
MCChars == {\h7f, \h7ff, \hffff, \h10ffff}
MCRests == {<<>>, <<255>>, <<195, 40>>}
           \cup UNION {{SubSeq(b, 1, n) : n \in 1..Len(b)-1} : b \in Bytes}

=============================================================================
