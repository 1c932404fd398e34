----------------------------- MODULE MCNumText -----------------------------
(* A small instance of NumText: words of eight bits, ints of four, bytes   *)
(* of four; literals of every base, one digit longer than a word has.      *)
EXTENDS NumText

Of(base, used, most) ==
  {[base |-> base, digits |-> d] : d \in UNION {[1..n -> used] : n \in 1..most}}

MCLiterals == Of(2, {0, 1}, 9) \cup Of(2, {1, 2}, 2) \cup Of(8, {0, 1, 3, 4, 7, 8}, 4)
                \cup Of(10, {0, 1, 2, 5, 6, 9}, 4) \cup Of(16, {0, 1, 9, 15}, 3)
=============================================================================
