------------------------------ MODULE MCNames ------------------------------
(* Small instances of Names.  The identifiers collide at the end of the     *)
(* table, so that probing wraps around.                                     *)
EXTENDS Names, TLC

CONSTANTS a, b, c

MCHome == (a :> Capacity - 1) @@ (b :> Capacity - 1) @@ (c :> 0)
=============================================================================
