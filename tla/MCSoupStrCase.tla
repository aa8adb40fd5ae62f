---------------------------- MODULE MCSoupStrCase ----------------------------
(***************************************************************************)
(* Model-checking instance of SoupStrCase: every key of up to two bytes   *)
(* over 'a', 'A' and 0xE9, and eight-byte keys, whose hash wraps past     *)
(* 2^32 (65 * 31^7 alone is about 2^37).                                   *)
(***************************************************************************)
EXTENDS SoupStrCase

ShortKeys == UNION {[1..n -> {97, 65, 233}] : n \in 0..2}

LongKeys == {[i \in 1..8 |-> 97], [i \in 1..8 |-> 65],
             [i \in 1..8 |-> IF i % 2 = 0 THEN 97 ELSE 65],
             [i \in 1..8 |-> 233]}

MCKeys == ShortKeys \cup LongKeys

=============================================================================
