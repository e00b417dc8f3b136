----------------------------- MODULE MCInitParse -----------------------------
(* Every buffer of up to MaxFile + MaxTail characters. *)
EXTENDS InitParse

CONSTANTS MaxFile, MaxTail

MCFiles == BoundedSeq(Chars, MaxFile)
MCTails == BoundedSeq(Chars, MaxTail)
=============================================================================
