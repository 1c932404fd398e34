------------------------------ MODULE MemSpec ------------------------------
(***************************************************************************)
(* What a caller sees of MemCopy and MemSet: it makes a request, and the   *)
(* whole region has its new contents when the request is answered.         *)
(***************************************************************************)
EXTENDS Integers

CONSTANTS MemSize, Bytes, Contents, Pointers, Sizes

VARIABLES mem, pending, request

vars == <<mem, pending, request>>

Address == 0..MemSize - 1
Region(a, n) == a .. a + n - 1

Requests == [func : {"MemCopy", "MemSet"}, dest : Pointers, src : Pointers,
             byte : Bytes, size : Sizes]

\* The contents of memory once a request is answered.
Answered(m, c) ==
  [a \in Address |->
     IF a \in Region(c.dest, c.size)
       THEN IF c.func = "MemCopy" THEN m[c.src + (a - c.dest)] ELSE c.byte
       ELSE m[a]]

Init ==
  /\ mem \in Contents
  /\ pending = FALSE
  /\ request = [func |-> "MemSet", dest |-> 0, src |-> 0, byte |-> 0, size |-> 0]

Ask ==
  /\ ~pending /\ pending' = TRUE
  /\ request' \in Requests
  /\ UNCHANGED mem

Answer ==
  /\ pending /\ pending' = FALSE
  /\ mem' = Answered(mem, request)
  /\ UNCHANGED request

Next == Ask \/ Answer

Spec == Init /\ [][Next]_vars
=============================================================================
