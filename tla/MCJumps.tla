------------------------------ MODULE MCJumps ------------------------------
(* A small instance of Jumps with the real distances: blocks on both sides *)
(* of what one byte can hold, forward (estimates of 121 to 123 after the   *)
(* jump's own 5 or 6) and back (126 and 127 bytes); and blocks larger than *)
(* their estimate, over which a short jump still lands, and over which it  *)
(* does not (instructions of 7 bytes estimated as 6).                      *)
EXTENDS Jumps

Block(size, est) == [size |-> size, est |-> est]
MCBlocks == {Block(121, 121), Block(122, 122), Block(123, 123), Block(126, 126),
             Block(127, 127), Block(3, 5), Block(127, 122), Block(128, 122)}
=============================================================================
