----------------------------- MODULE MCAlgorithms -----------------------------
(* Keys of two characters in groups of two, and a buffer for three.  A     *)
(* clock with the remainder of 2^32 by each period: 5296 is 1296 modulo    *)
(* 2000 and 296 modulo 1000 and 500, as 2^32 is.                           *)
EXTENDS Algorithms

MCBase64 == {"a", "b"}
MCKeyPrefix == <<"a">>

=============================================================================
