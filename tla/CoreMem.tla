------------------------------ MODULE CoreMem ------------------------------
(***************************************************************************)
(* The two core funcs, MemCopy and MemSet, that the compiler adds to every *)
(* program that uses them (the compiler itself calls MemCopy to assign     *)
(* arrays).  Both are the same loop: as long as a whole word is left, a    *)
(* word is written; the rest is written byte by byte.  Each of the steps   *)
(* below is the code between two labels.                                   *)
(***************************************************************************)
EXTENDS Integers

CONSTANTS
  MemSize,   \* bytes of memory, at addresses 0 .. MemSize - 1
  Bytes,     \* the values of a byte that the model tells apart
  Contents,  \* what memory may hold when the program starts
  Pointers,  \* the addresses that programs pass
  Sizes,     \* the sizes that programs ask for
  RegMod,    \* 2^(bits of a register): RDX counts modulo this
  MaxCalls   \* bound: a program makes at most so many calls

ASSUME CoreMemAssumption ==
  /\ MemSize \in Nat /\ MaxCalls \in Nat
  /\ Bytes \subseteq Nat /\ 0 \in Bytes
  /\ Contents \subseteq [0..MemSize - 1 -> Bytes]
  /\ Pointers \subseteq 0..MemSize - 1
  /\ RegMod \in Nat \ {0}
  /\ Sizes \subseteq 0..RegMod - 1

VARIABLES
  mem,   \* the contents of memory
  pc,    \* "idle" (the caller runs), "test", "byte", "word", "ret" or "fault"
  call,  \* the func called and its arguments
  rax,   \* the next address to write
  rcx,   \* MemCopy: the next address to read
  fill,  \* MemSet: the bytes of RCX
  rdx,   \* the bytes left
  old,   \* ghost: memory as it was when the func was called
  calls  \* the calls made so far

regs == <<rax, rcx, fill, rdx>>
vars == <<mem, pc, call, regs, old, calls>>
-----------------------------------------------------------------------------
Address == 0..MemSize - 1
WordBytes == 8
Word == [0..WordBytes - 1 -> Bytes]
Memory == [Address -> Bytes]

\* The n bytes from address a on.
Region(a, n) == a .. a + n - 1

Call == [func : {"MemCopy", "MemSet"}, dest : Pointers, src : Pointers,
         byte : Bytes, size : Sizes]

\* "The memory regions specified must not overlap", but an array may be
\* assigned to itself.
IsProper(c) ==
  /\ Region(c.dest, c.size) \subseteq Address
  /\ c.func = "MemCopy" =>
       /\ Region(c.src, c.size) \subseteq Address
       /\ \/ c.src = c.dest
          \/ c.src + c.size <= c.dest
          \/ c.dest + c.size <= c.src

\* SHL by n bytes and OR, of a word with nothing from byte n on.
Doubled(w, n) == [i \in 0..WordBytes - 1 |-> IF i < n THEN w[i] ELSE w[i - n]]

\* Slip: the last doubling is missing.
SpreadHalf(byte) ==
  LET one == [i \in 0..WordBytes - 1 |-> IF i = 0 THEN byte ELSE 0]
  IN Doubled(Doubled(one, 1), 2)

\* "Fill rcx": the byte is spread over the word in three doublings.
Spread(byte) ==
  LET one == [i \in 0..WordBytes - 1 |-> IF i = 0 THEN byte ELSE 0]
  IN Doubled(Doubled(Doubled(one, 1), 2), 4)

NoCall == [func |-> "MemSet", dest |-> 0, src |-> 0, byte |-> 0, size |-> 0]

Init ==
  /\ mem \in Contents /\ old = mem
  /\ pc = "idle" /\ calls = 0
  /\ call = NoCall
  /\ rax = 0 /\ rcx = 0 /\ rdx = 0
  /\ fill = [i \in 0..WordBytes - 1 |-> 0]

\* The prologue of either func loads the arguments.
Enter(c) ==
  /\ pc = "idle" /\ calls < MaxCalls /\ IsProper(c)
  /\ call' = c /\ old' = mem /\ calls' = calls + 1
  /\ rax' = c.dest /\ rdx' = c.size
  /\ rcx' = IF c.func = "MemCopy" THEN c.src ELSE rcx
  /\ fill' = IF c.func = "MemSet" THEN Spread(c.byte) ELSE fill
  /\ pc' = "test"
  /\ UNCHANGED mem

\* Slip: the last seven bytes are taken for a word.
TestAbove ==
  /\ pc = "test"
  /\ pc' = IF rdx >= WordBytes - 1 THEN "word" ELSE "byte"
  /\ UNCHANGED <<mem, call, regs, old, calls>>

\* CMP RDX, 8; JAE.
Test ==
  /\ pc = "test"
  /\ pc' = IF rdx >= WordBytes THEN "word" ELSE "byte"
  /\ UNCHANGED <<mem, call, regs, old, calls>>

\* Slip: every byte of a word is the one RCX points to.
MovedSame(n) ==
  [a \in Address |->
     IF a \in Region(rax, n)
       THEN IF call.func = "MemCopy" THEN mem[rcx] ELSE fill[a - rax]
       ELSE mem[a]]

\* What the n bytes at RAX become: read at RCX, or the bytes of the fill.
Moved(n) ==
  [a \in Address |->
     IF a \in Region(rax, n)
       THEN IF call.func = "MemCopy" THEN mem[rcx + (a - rax)] ELSE fill[a - rax]
       ELSE mem[a]]

CanMove(n) ==
  /\ Region(rax, n) \subseteq Address
  /\ call.func = "MemCopy" => Region(rcx, n) \subseteq Address

\* Move n bytes, then step the pointers and the count; go on at label "next"
\* unless the count is zero.  Outside memory the program faults.
Move(n, next) ==
  IF CanMove(n)
    THEN /\ mem' = Moved(n)
         /\ rax' = rax + n
         /\ rcx' = IF call.func = "MemCopy" THEN rcx + n ELSE rcx
         /\ rdx' = (rdx - n) % RegMod
         /\ pc' = IF rdx' = 0 THEN "ret" ELSE next
         /\ UNCHANGED <<call, fill, old, calls>>
    ELSE /\ pc' = "fault"
         /\ UNCHANGED <<mem, call, regs, old, calls>>

\* Slip: back to the word loop without another test.
WordAgain == pc = "word" /\ Move(WordBytes, "word")

Byte == pc = "byte" /\ Move(1, "byte")
WordStep == pc = "word" /\ Move(WordBytes, "test")

\* POP RBP; RET.
Ret ==
  /\ pc = "ret"
  /\ pc' = "idle" /\ old' = mem
  /\ UNCHANGED <<mem, call, regs, calls>>

Loop == Test \/ Byte \/ WordStep \/ Ret
Next == (\E c \in Call : Enter(c)) \/ Loop

Spec == Init /\ [][Next]_vars

\* The processor does not stop in the middle of a func.
FairSpec == Spec /\ WF_vars(Loop)
-----------------------------------------------------------------------------
\* Type invariant.
TypeOK ==
  /\ mem \in Memory /\ old \in Memory
  /\ pc \in {"idle", "test", "byte", "word", "ret", "fault"}
  /\ call \in Call \cup {NoCall}
  /\ rax \in Nat /\ rcx \in Nat /\ rdx \in 0..RegMod - 1
  /\ fill \in Word /\ calls \in 0..MaxCalls

Done == call.size - rdx

\* The memory that a call has to produce.
Result(m, c) ==
  [a \in Address |->
     IF a \in Region(c.dest, c.size)
       THEN IF c.func = "MemCopy" THEN m[c.src + (a - c.dest)] ELSE c.byte
       ELSE m[a]]

\* In the middle of a call, the bytes counted off are those of the result and
\* no other byte has changed: the pointers and the count stay in step whatever
\* mixture of words and bytes the size and the placement bring about.
Progress ==
  pc \in {"test", "byte", "word", "ret"} =>
    /\ rdx <= call.size
    /\ rax = call.dest + Done
    /\ \A a \in Address :
         mem[a] = IF a \in Region(call.dest, Done)
                    THEN Result(old, call)[a] ELSE old[a]

\* The registers stay in step with the bytes counted off, and no code is
\* reached with too few bytes left for it.
Registers ==
  pc # "idle" =>
    /\ pc # "fault" /\ IsProper(call)
    /\ pc \in {"test", "byte"} => rdx >= 1
    /\ pc = "word" => rdx >= WordBytes
    /\ pc = "ret" => rdx = 0
    /\ call.func = "MemCopy" => rcx = call.src + Done
    /\ call.func = "MemSet" => \A i \in DOMAIN fill : fill[i] = call.byte

\* The inductive invariant, for sizes other than zero.
IInv ==
  /\ TypeOK
  /\ pc = "idle" => old = mem
  /\ Progress
  /\ Registers

\* The manual: the copied or set bytes are those of the region, and memory
\* outside of it stays as it is, at every moment of a call.  Size zero counts
\* down from zero and breaks it.
TouchesOnlyRegion ==
  pc # "idle" =>
    \A a \in Address \ Region(call.dest, call.size) : mem[a] = old[a]

\* What the manual promises of MemCopy and MemSet: the whole region, and
\* nothing else, has its new contents when the func returns.
ReturnsResult == pc = "ret" => mem = Result(old, call)

\* Every call returns.
CallsReturn == pc # "idle" ~> pc = "idle"

\* The abstract specification: a call is one assignment to memory.
Abstract == INSTANCE MemSpec WITH
  mem <- old,
  pending <- pc # "idle",
  request <- call

\* The loops implement the atomic assignment.
ImplementsAssignment == Abstract!Spec
=============================================================================
