------------------------------ MODULE MCSearch ------------------------------
(* Arrays of numbers, in their order or in the order of their halves: the   *)
(* second comparison takes different elements for equal.                    *)
EXTENDS Search

MCElements == 0..4
MCArgs == {"number", "half"}
MCCompare(u, v, a) == IF a = "number" THEN u - v ELSE u \div 2 - v \div 2

=============================================================================
