--------------------------- MODULE CoreMemProofs ---------------------------
(* Proofs about CoreMem: for programs that never ask for size zero, IInv is *)
(* invariant and the loops implement the atomic assignment of MemSpec.      *)
EXTENDS CoreMem, TLAPS

\* Initially nothing is being done.
LEMMA InitIInv == ASSUME Init PROVE IInv
<1> USE CoreMemAssumption
<1>1. 0 \in 0..RegMod - 1
  OBVIOUS
<1>2. mem \in Memory /\ old \in Memory
  BY DEF Init, Memory, Address
<1>3. fill \in Word
  BY DEF Init, Word
<1> QED
  BY <1>1, <1>2, <1>3 DEF Init, IInv, TypeOK, Progress, Registers

\* Three doublings spread the byte over the whole word.
LEMMA SpreadFills ==
  ASSUME NEW byte \in Bytes
  PROVE  /\ Spread(byte) \in Word
         /\ \A i \in DOMAIN Spread(byte) : Spread(byte)[i] = byte
<1> DEFINE one == [i \in 0..7 |-> IF i = 0 THEN byte ELSE 0]
           two == Doubled(one, 1)
           four == Doubled(two, 2)
           eight == Doubled(four, 4)
<1>1. two = [i \in 0..7 |-> IF i < 1 THEN one[i] ELSE one[i - 1]]
  BY DEF Doubled, WordBytes
<1>2. \A i \in 0..7 : i < 2 => two[i] = byte
  BY <1>1
<1>3. four = [i \in 0..7 |-> IF i < 2 THEN two[i] ELSE two[i - 2]]
  BY DEF Doubled, WordBytes
<1> HIDE DEF two
<1>4. \A i \in 0..7 : i < 4 => four[i] = byte
  BY <1>2, <1>3
<1>5. eight = [i \in 0..7 |-> IF i < 4 THEN four[i] ELSE four[i - 4]]
  BY DEF Doubled, WordBytes
<1> HIDE DEF four
<1>6. \A i \in 0..7 : eight[i] = byte
  BY <1>4, <1>5
<1>7. Spread(byte) = eight
  BY DEF Spread, WordBytes, four, two
<1>8. DOMAIN eight = 0..7 /\ eight \in [0..7 -> Bytes]
  BY <1>5, <1>6
<1> QED
  BY <1>6, <1>7, <1>8 DEF Word, WordBytes

\* The range of the arguments of a call.
LEMMA CallRange ==
  ASSUME NEW c \in Call \cup {NoCall}
  PROVE  /\ c.func \in {"MemCopy", "MemSet"}
         /\ c.dest \in Nat /\ c.src \in Nat /\ c.size \in 0..RegMod - 1
<1>1. Pointers \subseteq Nat /\ Sizes \subseteq 0..RegMod - 1 /\ 0 \in 0..RegMod - 1
  BY CoreMemAssumption
<1>2. CASE c = NoCall
  BY <1>1, <1>2 DEF NoCall
<1>3. CASE c \in Call
  <2>1. c.dest \in Pointers /\ c.src \in Pointers /\ c.size \in Sizes
        /\ c.func \in {"MemCopy", "MemSet"}
    BY <1>3 DEF Call
  <2> QED
    BY <1>1, <2>1
<1> QED
  BY <1>2, <1>3

\* Entering a func loads the registers for a size that is not zero.
LEMMA EnterStep ==
  ASSUME 0 \notin Sizes, IInv, NEW c \in Call, Enter(c)
  PROVE  IInv'
<1> USE CoreMemAssumption
<1>1. /\ c.func \in {"MemCopy", "MemSet"} /\ c.dest \in Address
      /\ c.src \in Address /\ c.byte \in Bytes
      /\ c.size \in 1..RegMod - 1 /\ c.size \in Sizes
  <2>1. /\ c.func \in {"MemCopy", "MemSet"} /\ c.dest \in Pointers
        /\ c.src \in Pointers /\ c.byte \in Bytes /\ c.size \in Sizes
    BY DEF Call
  <2>2. Pointers \subseteq Address /\ Sizes \subseteq 0..RegMod - 1
    BY DEF Address
  <2>3. c.size \in 0..RegMod - 1 /\ c.size # 0
    BY <2>1, <2>2
  <2>4. c.size \in 1..RegMod - 1
    BY <2>3
  <2> QED
    BY <2>1, <2>2, <2>4
<1>2. pc' = "test" /\ call' = c /\ mem' = mem /\ old' = mem
      /\ rax' = c.dest /\ rdx' = c.size /\ calls' = calls + 1
  BY DEF Enter
<1>3. fill' \in Word
  BY <1>1, SpreadFills DEF Enter, IInv, TypeOK
<1>4. rcx' \in Nat
  BY <1>1 DEF Enter, IInv, TypeOK, Address
<1>5. TypeOK'
  BY <1>1, <1>2, <1>3, <1>4 DEF Enter, IInv, TypeOK, Address
<1>6. Done' = 0
  BY <1>1, <1>2 DEF Done
<1>7. Progress'
  BY <1>1, <1>2, <1>6 DEF Progress, Region, Address
<1>8. Registers'
  <2>1. c.func = "MemCopy" => rcx' = c.src + Done'
    BY <1>1, <1>6 DEF Enter, Address
  <2>2. c.func = "MemSet" => \A i \in DOMAIN fill' : fill'[i] = c.byte
    BY <1>1, SpreadFills DEF Enter
  <2>3. IsProper(c)
    BY DEF Enter
  <2> QED
    BY <1>1, <1>2, <2>1, <2>2, <2>3 DEF Registers
<1> QED
  BY <1>2, <1>5, <1>7, <1>8 DEF IInv

\* A byte that is not among the next n was counted off already or is not yet.
LEMMA OutsideNext ==
  ASSUME NEW a \in Nat, NEW d \in Nat, NEW k \in Nat, NEW n \in Nat,
         ~(d + k <= a /\ a <= (d + k) + n - 1)
  PROVE  (d <= a /\ a <= d + (k + n) - 1) <=> (d <= a /\ a <= d + k - 1)
  OBVIOUS

\* What is read next is not among the bytes already written.
LEMMA NotOverwritten ==
  ASSUME NEW a \in Nat, NEW d \in Nat, NEW s \in Nat, NEW k \in Nat,
         NEW size \in Nat, k <= size,
         d + k <= a, a <= d + size - 1,
         \/ s = d
         \/ s + size <= d
         \/ d + size <= s
  PROVE  ~(d <= s + (a - d) /\ s + (a - d) <= d + k - 1)
  OBVIOUS

\* Both pointers advance together.
LEMMA SameOffset ==
  ASSUME NEW d \in Nat, NEW s \in Nat, NEW k \in Nat, NEW a \in Nat
  PROVE  (s + k) + (a - (d + k)) = s + (a - d)
OBVIOUS

\* The bounds of an address among the next n bytes.
LEMMA WithinRegion ==
  ASSUME NEW d \in Nat, NEW k \in Nat, NEW n \in Nat, NEW size \in Nat,
         NEW a \in Nat, k + n <= size, d + k <= a, a <= (d + k) + n - 1
  PROVE  /\ d <= a
         /\ a <= d + (k + n) - 1
         /\ a <= d + size - 1
OBVIOUS

\* A move of n bytes, with that many left, keeps the pointers in step.
LEMMA MoveStep ==
  ASSUME IInv, NEW n \in {1, WordBytes}, NEW next \in {"byte", "test"},
         pc \in {"byte", "word"}, rdx >= n, Move(n, next)
  PROVE  IInv'
<1> USE CoreMemAssumption
<1>1. /\ mem \in Memory /\ old \in Memory /\ fill \in Word
      /\ rax \in Nat /\ rcx \in Nat /\ rdx \in 0..RegMod - 1
      /\ call \in Call \cup {NoCall} /\ calls \in 0..MaxCalls
  BY DEF IInv, TypeOK
<1>2. /\ call.func \in {"MemCopy", "MemSet"} /\ call.dest \in Nat
      /\ call.src \in Nat /\ call.size \in Nat
  BY <1>1, CallRange
<1>3. n \in 1..8 /\ n \in Nat
  BY DEF WordBytes
<1>4. IsProper(call)
  BY DEF IInv, Registers
<1>5. call.func = "MemCopy" => rcx = call.src + Done
  BY DEF IInv, Registers
<1>6. call.func = "MemSet" => \A i \in DOMAIN fill : fill[i] = call.byte
  BY DEF IInv, Registers
<1>7. /\ rdx <= call.size /\ rax = call.dest + Done
      /\ \A a \in Address :
           mem[a] = IF a \in Region(call.dest, Done)
                      THEN Result(old, call)[a] ELSE old[a]
  BY DEF IInv, Progress
<1>8. Done \in Nat /\ Done + n <= call.size
  BY <1>1, <1>2, <1>3, <1>7 DEF Done
<1>9. CanMove(n)
  <2>1. Region(rax, n) \subseteq Region(call.dest, call.size)
    <3> DEFINE d == call.dest
               size == call.size
               k == Done
    <3>1. rax = d + k /\ d \in Nat /\ size \in Nat /\ k \in Nat /\ k + n <= size
      BY <1>2, <1>7, <1>8
    <3> HIDE DEF d, size, k
    <3>2. Region(rax, n) \subseteq Region(d, size)
      BY <1>3, <3>1 DEF Region
    <3> QED BY <3>2 DEF d, size
  <2>2. call.func = "MemCopy" => Region(rcx, n) \subseteq Region(call.src, call.size)
    BY <1>2, <1>3, <1>5, <1>8 DEF Region
  <2> QED
    BY <1>4, <2>1, <2>2 DEF CanMove, IsProper
<1>10. /\ mem' = Moved(n) /\ rax' = rax + n
       /\ rcx' = (IF call.func = "MemCopy" THEN rcx + n ELSE rcx)
       /\ rdx' = (rdx - n) % RegMod
       /\ pc' = (IF rdx' = 0 THEN "ret" ELSE next)
       /\ call' = call /\ fill' = fill /\ old' = old /\ calls' = calls
  BY <1>9 DEF Move
<1>11. rdx' = rdx - n
  <2>1. rdx - n \in 0..RegMod - 1
    BY <1>1, <1>3
  <2> QED
    BY <1>10, <2>1
<1>12. Done' = Done + n
  BY <1>1, <1>2, <1>3, <1>10, <1>11 DEF Done
<1>13. \A a \in Address :
         mem'[a] = IF a \in Region(call.dest, Done + n)
                     THEN Result(old, call)[a] ELSE old[a]
  <2> SUFFICES ASSUME NEW a \in Address
               PROVE  mem'[a] = IF a \in Region(call.dest, Done + n)
                                  THEN Result(old, call)[a] ELSE old[a]
    OBVIOUS
  <2>0. a \in Nat
    BY DEF Address
  <2>1. mem'[a] = IF a \in Region(rax, n)
                    THEN IF call.func = "MemCopy" THEN mem[rcx + (a - rax)]
                                                  ELSE fill[a - rax]
                    ELSE mem[a]
    BY <1>10 DEF Moved
  <2>2. CASE a \notin Region(rax, n)
    <3>1. a \in Region(call.dest, Done + n) <=> a \in Region(call.dest, Done)
      <4>1. call.dest \in Nat /\ Done \in Nat /\ n \in Nat
        BY <1>2, <1>3, <1>8
      <4>2. ~(call.dest + Done <= a /\ a <= (call.dest + Done) + n - 1)
        BY <2>0, <2>2, <4>1, <1>7 DEF Region
      <4>3. (call.dest <= a /\ a <= call.dest + (Done + n) - 1)
            <=> (call.dest <= a /\ a <= call.dest + Done - 1)
        BY <2>0, <4>1, <4>2, OutsideNext
      <4> QED
        BY <2>0, <4>1, <4>3 DEF Region
    <3> QED
      BY <2>1, <2>2, <3>1, <1>7
  <2>3. CASE a \in Region(rax, n)
    <3>1. /\ a \in Region(call.dest, Done + n)
          /\ a \in Region(call.dest, call.size)
      <4>1. /\ call.dest + Done <= a /\ a <= (call.dest + Done) + n - 1
        BY <2>0, <2>3, <1>2, <1>3, <1>7, <1>8 DEF Region
      <4>2. /\ call.dest <= a /\ a <= call.dest + (Done + n) - 1
            /\ a <= call.dest + call.size - 1
        BY <4>1, <2>0, <1>2, <1>3, <1>8, WithinRegion
      <4> QED
        BY <4>2, <2>0, <1>2, <1>3, <1>8 DEF Region
    <3>2. CASE call.func = "MemCopy"
      <4> DEFINE b == call.src + (a - call.dest)
      <4>1. rcx + (a - rax) = b
        <5>1. rcx = call.src + Done /\ rax = call.dest + Done
          BY <3>2, <1>5, <1>7
        <5> HIDE DEF b
        <5>2. (call.src + Done) + (a - (call.dest + Done)) = call.src + (a - call.dest)
          BY <2>0, <1>2, <1>8, SameOffset
        <5>3. rcx + (a - rax) = call.src + (a - call.dest)
          BY <5>1, <5>2
        <5> QED
          BY <5>3 DEF b
      <4>2. b \in Region(call.src, call.size)
        BY <2>0, <3>1, <1>2 DEF Region
      <4>3. b \in Address
        BY <4>2, <3>2, <1>4 DEF IsProper
      <4>4. b \notin Region(call.dest, Done)
        <5>1. \/ call.src = call.dest
              \/ call.src + call.size <= call.dest
              \/ call.dest + call.size <= call.src
          BY <3>2, <1>4 DEF IsProper
        <5>2. /\ a >= call.dest + Done /\ a <= call.dest + call.size - 1
          BY <2>0, <2>3, <3>1, <1>2, <1>3, <1>7, <1>8 DEF Region
        <5>3. /\ call.dest \in Nat /\ call.src \in Nat /\ call.size \in Nat
              /\ Done \in Nat /\ Done <= call.size
          BY <1>2, <1>3, <1>8
        <5>4. ~(call.dest <= call.src + (a - call.dest)
                /\ call.src + (a - call.dest) <= call.dest + Done - 1)
          BY <2>0, <5>1, <5>2, <5>3, NotOverwritten
        <5>5. ~(call.dest <= b /\ b <= call.dest + Done - 1)
          BY <5>4
        <5> QED
          BY <5>5 DEF Region
      <4>5. mem[b] = old[b]
        BY <4>3, <4>4, <1>7
      <4>6. Result(old, call)[a] = old[b]
        BY <3>1, <3>2 DEF Result
      <4> QED
        BY <2>1, <2>3, <3>1, <3>2, <4>1, <4>5, <4>6
    <3>3. CASE call.func = "MemSet"
      <4>1. a - rax \in DOMAIN fill
        BY <2>0, <2>3, <1>1, <1>3 DEF Region, Word, WordBytes
      <4>2. Result(old, call)[a] = call.byte
        BY <3>1, <3>3 DEF Result
      <4> QED
        BY <2>1, <2>3, <3>1, <3>3, <4>1, <4>2, <1>6
    <3> QED
      BY <3>2, <3>3, <1>2
  <2> QED
    BY <2>2, <2>3
<1>14. mem' \in Memory
  <2>1. \A a \in Address :
          /\ a \in Region(rax, n) /\ call.func = "MemCopy"
          => rcx + (a - rax) \in Address
    <3> SUFFICES ASSUME NEW a \in Address, a \in Region(rax, n),
                        call.func = "MemCopy"
                 PROVE  rcx + (a - rax) \in Address
      OBVIOUS
    <3>1. rcx + (a - rax) \in Region(rcx, n)
      BY <1>1, <1>3 DEF Region, Address
    <3> QED
      BY <3>1, <1>9 DEF CanMove
  <2>2. \A a \in Address : a \in Region(rax, n) => a - rax \in DOMAIN fill
    BY <1>1, <1>3 DEF Region, Word, WordBytes, Address
  <2>3. mem \in [Address -> Bytes] /\ \A i \in DOMAIN fill : fill[i] \in Bytes
    BY <1>1 DEF Memory, Word
  <2>4. \A a \in Address : Moved(n)[a] \in Bytes
    BY <2>1, <2>2, <2>3 DEF Moved
  <2> QED
    BY <2>4, <1>10 DEF Moved, Memory
<1>15. rax' \in Nat /\ rcx' \in Nat /\ rdx' \in 0..RegMod - 1 /\ rdx' <= rdx
  BY <1>1, <1>3, <1>10, <1>11
<1>16. pc' \in {"test", "byte", "ret"}
  BY <1>10
<1>17. TypeOK'
  BY <1>1, <1>10, <1>14, <1>15, <1>16 DEF TypeOK
<1>18. Progress'
  <2>1. rdx' <= call'.size /\ rax' = call'.dest + Done'
    <3>1. rdx' <= call.size
      BY <1>1, <1>2, <1>7, <1>15
    <3>2. rax + n = call.dest + (Done + n)
      BY <1>2, <1>3, <1>7, <1>8
    <3> QED
      BY <3>1, <3>2, <1>10, <1>12
  <2>2. \A a \in Address :
          mem'[a] = IF a \in Region(call'.dest, Done')
                      THEN Result(old', call')[a] ELSE old'[a]
    BY <1>10, <1>12, <1>13
  <2> QED
    BY <2>1, <2>2 DEF Progress
<1>19. Registers'
  <2>1. pc' \in {"test", "byte"} => rdx' >= 1
    BY <1>10, <1>15, <1>16
  <2>2. pc' = "ret" => rdx' = 0
    BY <1>10
  <2>3. call'.func = "MemCopy" => rcx' = call'.src + Done'
    BY <1>1, <1>2, <1>3, <1>5, <1>8, <1>10, <1>12
  <2>4. call'.func = "MemSet" => \A i \in DOMAIN fill' : fill'[i] = call'.byte
    BY <1>6, <1>10
  <2>5. IsProper(call')
    BY <1>4, <1>10
  <2> QED
    BY <2>1, <2>2, <2>3, <2>4, <2>5, <1>16 DEF Registers
<1> QED
  BY <1>16, <1>17, <1>18, <1>19 DEF IInv

\* Every step keeps the invariant.
LEMMA IInvStep ==
  ASSUME 0 \notin Sizes, IInv, [Next]_vars
  PROVE  IInv'
<1>1. ASSUME NEW c \in Call, Enter(c) PROVE IInv'
  BY <1>1, EnterStep
<1>2. CASE Test
  <2>1. /\ pc = "test" /\ rdx \in 0..RegMod - 1 /\ rdx >= 1
        /\ pc' = (IF rdx >= WordBytes THEN "word" ELSE "byte")
    BY <1>2 DEF Test, IInv, TypeOK, Registers
  <2>2. UNCHANGED <<mem, call, regs, old, calls>>
    BY <1>2 DEF Test
  <2>3. pc' \in {"word", "byte"} /\ (pc' = "word" => rdx >= WordBytes)
    BY <2>1
  <2>4. TypeOK'
    BY <2>2, <2>3 DEF TypeOK, IInv, regs
  <2>5. Progress'
    BY <2>1, <2>2, <2>3 DEF IInv, Progress, Done, regs, Result, Region
  <2>6. Registers'
    BY <2>1, <2>2, <2>3 DEF IInv, Registers, Done, regs, IsProper
  <2> QED
    BY <2>3, <2>4, <2>5, <2>6 DEF IInv
<1>3. CASE Byte
  <2>1. pc = "byte" /\ rdx >= 1 /\ Move(1, "byte")
    BY <1>3 DEF Byte, IInv, Registers
  <2> QED
    BY <2>1, MoveStep
<1>4. CASE WordStep
  <2>1. pc = "word" /\ rdx >= WordBytes /\ Move(WordBytes, "test")
    BY <1>4 DEF WordStep, IInv, Registers
  <2> QED
    BY <2>1, MoveStep
<1>5. CASE Ret
  <2>1. TypeOK'
    BY <1>5 DEF Ret, IInv, TypeOK, regs
  <2>2. pc' = "idle" /\ old' = mem'
    BY <1>5 DEF Ret
  <2> QED
    BY <2>1, <2>2 DEF IInv, Progress, Registers
<1>6. CASE UNCHANGED vars
  BY <1>6 DEF vars, regs, IInv, TypeOK, Progress, Registers, Done, Result,
              Region, IsProper
<1> QED
  BY <1>1, <1>2, <1>3, <1>4, <1>5, <1>6 DEF Next, Loop

\* As long as no program asks for size zero, the registers, the bytes counted
\* off and memory stay in step through every call of MemCopy and MemSet.
THEOREM Invariance == 0 \notin Sizes => (Spec => []IInv)
<1> SUFFICES ASSUME 0 \notin Sizes PROVE Spec => []IInv
  OBVIOUS
<1>1. Init => IInv
  BY InitIInv
<1>2. IInv /\ [Next]_vars => IInv'
  BY IInvStep
<1> QED
  BY <1>1, <1>2, PTL DEF Spec

\* When a func returns, memory is what the manual says that it computes.
LEMMA IInvResult == ASSUME IInv PROVE ReturnsResult
<1> SUFFICES ASSUME pc = "ret" PROVE mem = Result(old, call)
  BY DEF ReturnsResult
<1>1. rdx = 0 /\ mem \in Memory /\ call \in Call \cup {NoCall}
  BY DEF IInv, Registers, TypeOK
<1>2. Done = call.size
  BY <1>1, CallRange DEF Done
<1>3. \A a \in Address :
        mem[a] = IF a \in Region(call.dest, call.size)
                   THEN Result(old, call)[a] ELSE old[a]
  BY <1>2 DEF IInv, Progress
<1>4. \A a \in Address : mem[a] = Result(old, call)[a]
  BY <1>3 DEF Result
<1>5. mem = [a \in Address |-> mem[a]]
  BY <1>1 DEF Memory
<1>6. Result(old, call) = [a \in Address |-> Result(old, call)[a]]
  BY DEF Result
<1> QED
  BY <1>4, <1>5, <1>6

\* MemCopy and MemSet return with the region copied or filled, and nothing
\* else changed, whatever the size, the bytes and the placement.
THEOREM ResultCorrect == 0 \notin Sizes => (Spec => []ReturnsResult)
<1> SUFFICES ASSUME 0 \notin Sizes PROVE Spec => []ReturnsResult
  OBVIOUS
<1>1. IInv => ReturnsResult
  BY IInvResult
<1> QED
  BY <1>1, Invariance, PTL

\* The result of the loops is the answer of the abstract assignment.
LEMMA ResultIsAnswer == Result(old, call) = Abstract!Answered(old, call)
BY DEF Result, Abstract!Answered, Address, Abstract!Address, Region,
       Abstract!Region

\* Every step of the loops is a step of the assignment, or none.
LEMMA StepSimulation ==
  ASSUME IInv, [Next]_vars
  PROVE  [Abstract!Next]_Abstract!vars
<1>1. ASSUME NEW c \in Call, Enter(c) PROVE Abstract!Ask
  <2>1. pc = "idle" /\ pc' = "test" /\ call' = c /\ old' = mem /\ old = mem
    BY <1>1 DEF Enter, IInv
  <2>2. c \in Abstract!Requests
    BY DEF Call, Abstract!Requests
  <2> QED
    BY <2>1, <2>2 DEF Abstract!Ask
<1>2. CASE Test
  <2>1. pc # "idle" /\ pc' # "idle" /\ UNCHANGED <<old, call>>
    BY <1>2 DEF Test
  <2> QED
    BY <2>1 DEF Abstract!vars
<1>3. ASSUME NEW n, NEW next \in {"byte", "test"}, pc \in {"byte", "word"},
             Move(n, next)
      PROVE  UNCHANGED Abstract!vars
  <2>1. pc # "idle" /\ pc' # "idle" /\ UNCHANGED <<old, call>>
    BY <1>3 DEF Move
  <2> QED
    BY <2>1 DEF Abstract!vars
<1>4. CASE Byte
  BY <1>3, <1>4 DEF Byte
<1>5. CASE WordStep
  BY <1>3, <1>5 DEF WordStep
<1>6. CASE Ret
  <2>1. pc = "ret" /\ pc' = "idle" /\ old' = mem /\ call' = call
    BY <1>6 DEF Ret
  <2>2. old' = Abstract!Answered(old, call)
    BY <2>1, IInvResult, ResultIsAnswer DEF ReturnsResult
  <2>3. Abstract!Answer
    BY <2>1, <2>2 DEF Abstract!Answer
  <2> QED
    BY <2>3 DEF Abstract!Next
<1>7. CASE UNCHANGED vars
  BY <1>7 DEF vars, Abstract!vars
<1> QED
  BY <1>1, <1>2, <1>4, <1>5, <1>6, <1>7 DEF Next, Loop, Abstract!Next

\* The loops implement the assignment: a caller cannot tell MemCopy or MemSet
\* from one atomic change of memory.
THEOREM Implementation == 0 \notin Sizes => (Spec => ImplementsAssignment)
<1> SUFFICES ASSUME 0 \notin Sizes PROVE Spec => ImplementsAssignment
  OBVIOUS
<1>1. Init => Abstract!Init
  BY DEF Init, NoCall, Abstract!Init
<1>2. IInv /\ [Next]_vars => [Abstract!Next]_Abstract!vars
  BY StepSimulation
<1> QED
  BY <1>1, <1>2, Invariance, PTL DEF Spec, ImplementsAssignment, Abstract!Spec
=============================================================================
