----------------------------- MODULE MCCoreMem -----------------------------
(* Small instances of CoreMem: neighbouring bytes of memory differ, so that *)
(* a misplaced byte shows.                                                  *)
EXTENDS CoreMem

MCContents == {[a \in 0..MemSize - 1 |-> a % 3]}
=============================================================================
