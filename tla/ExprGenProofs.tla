--------------------------- MODULE ExprGenProofs ---------------------------
(***************************************************************************)
(* For any number of registers, operands and words: the compiler's idea of *)
(* the depth of the stack is right after every operator, and evaluating an *)
(* expression in an outermost scope changes no variable.  Both hold even   *)
(* after the emissions that lose a value.                                  *)
(***************************************************************************)
EXTENDS ExprGen, FiniteSetTheorems, SequenceTheorems, TLAPS

Causes == {"none", "full", "double", "divmod", "rejected"}

(* What the compiler believes and what the program has, well formed.       *)
Machines == [used : SUBSET Regs, im : Nat, reg : [Regs -> Values],
             stack : Seq(Values)]
Good(m) ==
  /\ m \in Machines
  /\ Len(m.stack) = Vars + m.im
  /\ Outer = 0 => \A k \in 1..Vars : m.stack[k] = Variable

(* Operand t is a register, or one of the first n words pushed.            *)
Placed(t, n) ==
  \/ t.kind \in AtomKinds /\ t = Atom(t.kind)
  \/ t.kind = "reg" /\ t.at \in Regs /\ t = [kind |-> "reg", at |-> t.at]
  \/ t.kind = "stk" /\ t.at \in 1..n /\ t = [kind |-> "stk", at |-> t.at]
PlacedSet(n) == {t \in Operands : Placed(t, n)}

IInv ==
  /\ Good(Here)
  /\ im <= MaxIm
  /\ N <= MaxTks
  /\ tk \in Seq(PlacedSet(im))
  /\ cause \in Causes

----------------------------------------------------------------------------
LEMMA Consts ==
  /\ RAX \in Regs /\ RCX \in Regs /\ RDX \in Regs /\ NoReg \notin Regs
  /\ Garbage \in Values /\ Variable \in Values /\ Result \in Values
  /\ Vars \in Nat /\ Own \in Nat /\ Outer \in Nat
  /\ NRegs \in Nat /\ MaxTks \in Nat /\ MaxIm \in Nat
BY SizesAssumption
   DEF RAX, RCX, RDX, Regs, NoReg, Garbage, Variable, Result, Values, Vars

LEMMA RegsNat == Regs \subseteq Nat
BY Consts DEF Regs

LEMMA TagsInValues == \A i \in 1..MaxTks : i \in Values
BY SizesAssumption DEF Values

LEMMA Fields ==
  ASSUME NEW m, Good(m)
  PROVE  m = [used |-> m.used, im |-> m.im, reg |-> m.reg, stack |-> m.stack]
<1>1. m \in Machines
  BY DEF Good
<1> QED BY <1>1 DEF Machines

(* One lemma for each instruction and each change of the beliefs.          *)
LEMMA PushGood ==
  ASSUME NEW m, Good(m), NEW r \in Regs
  PROVE  Good(Push(m, r)) /\ Push(m, r).im = m.im + 1
<1> DEFINE s == Append(m.stack, m.reg[r])
<1>1. m.stack \in Seq(Values) /\ m.reg[r] \in Values /\ m.im \in Nat
      /\ m.used \in SUBSET Regs /\ m.reg \in [Regs -> Values]
      /\ Len(m.stack) = Vars + m.im
  BY DEF Good, Machines
<1>2. s \in Seq(Values) /\ Len(s) = Len(m.stack) + 1
      /\ \A i \in 1..Len(m.stack) : s[i] = m.stack[i]
  BY <1>1, AppendProperties
<1>3. Push(m, r) = [used |-> m.used, im |-> m.im + 1, reg |-> m.reg, stack |-> s]
  <2>1. Push(m, r) = [m EXCEPT !.stack = s, !.im = m.im + 1]
    BY Zenon DEF Push
  <2> HIDE DEF s
  <2> QED BY <2>1, Fields
<1>4. ASSUME Outer = 0 PROVE \A k \in 1..Vars : s[k] = Variable
  BY <1>1, <1>2, <1>4, Consts DEF Good
<1> HIDE DEF s
<1>5. Len(s) = Vars + (m.im + 1) /\ m.im + 1 \in Nat
  BY <1>1, <1>2, Consts
<1>6. Push(m, r) \in Machines
  BY <1>1, <1>2, <1>3, <1>5 DEF Machines
<1> QED BY <1>3, <1>4, <1>5, <1>6 DEF Good

LEMMA DropGood ==
  ASSUME NEW m, Good(m), m.im >= 1
  PROVE  Good(Drop(m)) /\ Drop(m).im = m.im - 1
<1> DEFINE l == Len(m.stack) - 1
           s == SubSeq(m.stack, 1, l)
<1>1. m.stack \in Seq(Values) /\ m.im \in Nat
      /\ m.used \in SUBSET Regs /\ m.reg \in [Regs -> Values]
      /\ Len(m.stack) = Vars + m.im
  BY DEF Good, Machines
<1>2. l \in Nat /\ l = Vars + (m.im - 1) /\ m.im - 1 \in Nat
  BY <1>1, Consts
<1>3. \A i \in 1..Len(m.stack) : m.stack[i] \in Values
  BY <1>1, ElementOfSeq
<1>6. /\ s \in Seq(Values)
      /\ Len(s) = IF 1 <= l THEN l - 1 + 1 ELSE 0
      /\ \A i \in 1..(l - 1 + 1) : s[i] = m.stack[1 + i - 1]
  <2>1. \A i \in 1..l : m.stack[i] \in Values
    BY <1>2, <1>3
  <2> QED BY <2>1, <1>2, SubSeqProperties
<1>7. Len(s) = l /\ \A i \in 1..l : s[i] = m.stack[i]
  BY <1>2, <1>6
<1>8. Drop(m) = [used |-> m.used, im |-> m.im - 1, reg |-> m.reg, stack |-> s]
  <2>1. Drop(m) = [m EXCEPT !.stack = s, !.im = m.im - 1]
    BY Zenon DEF Drop
  <2> HIDE DEF s
  <2> QED BY <2>1, Fields
<1> HIDE DEF s, l
<1>9. ASSUME Outer = 0 PROVE \A k \in 1..Vars : s[k] = Variable
  <2> SUFFICES ASSUME NEW k \in 1..Vars PROVE s[k] = Variable
    OBVIOUS
  <2>1. k \in 1..l
    BY <1>2, Consts
  <2> QED BY <2>1, <1>7, <1>9 DEF Good
<1>10. Drop(m) \in Machines
  BY <1>1, <1>2, <1>6, <1>8 DEF Machines
<1> QED BY <1>2, <1>7, <1>8, <1>9, <1>10 DEF Good

LEMMA MovGood ==
  ASSUME NEW m, Good(m), NEW r \in Regs, NEW v \in Values
  PROVE  Good(Mov(m, r, v)) /\ Mov(m, r, v).im = m.im
<1>1. Mov(m, r, v) = [used |-> m.used, im |-> m.im,
                      reg |-> [m.reg EXCEPT ![r] = v], stack |-> m.stack]
  BY Fields DEF Mov
<1>2. [m.reg EXCEPT ![r] = v] \in [Regs -> Values]
  BY DEF Good, Machines
<1> QED BY <1>1, <1>2 DEF Good, Machines

LEMMA PopGood ==
  ASSUME NEW m, Good(m), m.im >= 1, NEW r \in Regs
  PROVE  Good(Pop(m, r)) /\ Pop(m, r).im = m.im - 1
<1>1. m.stack[Len(m.stack)] \in Values
  <2>1. m.stack \in Seq(Values) /\ m.im \in Nat /\ Len(m.stack) = Vars + m.im
    BY DEF Good, Machines
  <2>2. Len(m.stack) \in 1..Len(m.stack)
    BY <2>1, Consts
  <2> QED BY <2>1, <2>2, ElementOfSeq
<1> QED BY <1>1, DropGood, MovGood DEF Pop

LEMMA StoreGood ==
  ASSUME NEW m, Good(m), NEW r \in Regs, NEW pos \in 1..m.im
  PROVE  Good(Store(m, pos, r)) /\ Store(m, pos, r).im = m.im
<1> DEFINE s == [m.stack EXCEPT ![Slot(pos)] = m.reg[r]]
<1>1. m.stack \in Seq(Values) /\ m.reg[r] \in Values /\ m.im \in Nat
      /\ m.used \in SUBSET Regs /\ m.reg \in [Regs -> Values]
      /\ Len(m.stack) = Vars + m.im
  BY DEF Good, Machines
<1>2. Slot(pos) \in 1..Len(m.stack) /\ (Outer = 0 => Slot(pos) > Vars)
  BY <1>1, Consts DEF Slot, Vars
<1>3. /\ s \in Seq(Values) /\ Len(s) = Len(m.stack)
      /\ \A j \in 1..Len(m.stack) :
            s[j] = IF j = Slot(pos) THEN m.reg[r] ELSE m.stack[j]
  BY <1>1, <1>2, ExceptSeq
<1>4. Store(m, pos, r) = [used |-> m.used, im |-> m.im, reg |-> m.reg, stack |-> s]
  BY Fields DEF Store
<1> HIDE DEF s
<1>5. ASSUME Outer = 0 PROVE \A k \in 1..Vars : s[k] = Variable
  <2> SUFFICES ASSUME NEW k \in 1..Vars PROVE s[k] = Variable
    OBVIOUS
  <2>1. k \in 1..Len(m.stack) /\ k # Slot(pos)
    BY <1>1, <1>2, <1>5, Consts DEF Slot
  <2> QED BY <2>1, <1>3, <1>5 DEF Good
<1>6. Store(m, pos, r) \in Machines
  BY <1>1, <1>3, <1>4 DEF Machines
<1> QED BY <1>1, <1>3, <1>4, <1>5, <1>6 DEF Good

LEMMA TakeGood ==
  ASSUME NEW m, Good(m), NEW r \in Regs \cup {NoReg}
  PROVE  Good(Take(m, r)) /\ Take(m, r).im = m.im
<1>1. Take(m, r) = [used |-> m.used \cup ({r} \ {NoReg}), im |-> m.im,
                    reg |-> m.reg, stack |-> m.stack]
  BY Fields DEF Take
<1> QED BY <1>1 DEF Good, Machines

LEMMA FreeGood ==
  ASSUME NEW m, Good(m), NEW r
  PROVE  Good(Free(m, r)) /\ Free(m, r).im = m.im
<1>1. Free(m, r) = [used |-> m.used \ {r}, im |-> m.im,
                    reg |-> m.reg, stack |-> m.stack]
  BY Fields DEF Free
<1> QED BY <1>1 DEF Good, Machines

----------------------------------------------------------------------------
(* Ranks: the first k of a set of registers in increasing order. *)
LEMMA RankTypes ==
  ASSUME NEW S, S \subseteq Regs
  PROVE  /\ IsFiniteSet(S) /\ Cardinality(S) \in Nat
         /\ \A r \in S : Rank(S, r) \in 1..Cardinality(S)
         /\ \A r \in S : \A q \in S : r < q => Rank(S, r) < Rank(S, q)
<1>1. IsFiniteSet(S) /\ Cardinality(S) \in Nat
  <2>1. IsFiniteSet(Regs)
    BY FS_Interval, Consts DEF Regs
  <2>2. IsFiniteSet(S)
    BY <2>1, FS_Subset
  <2> QED BY <2>2, FS_CardinalityType
<1>2. S \subseteq Nat
  BY RegsNat
<1>3. ASSUME NEW r \in S PROVE Rank(S, r) \in 1..Cardinality(S)
  <2> DEFINE T == {q \in S : q <= r}
  <2>1. T \in SUBSET S /\ r \in T
    BY <1>2
  <2> HIDE DEF T
  <2>2. IsFiniteSet(T) /\ Cardinality(T) <= Cardinality(S) /\ Cardinality(T) \in Nat
    BY <2>1, <1>1, FS_Subset, FS_CardinalityType
  <2>3. Cardinality(T) # 0
    BY <2>1, <2>2, FS_EmptySet
  <2>4. Cardinality(T) \in 1..Cardinality(S)
    BY <2>2, <2>3, <1>1
  <2> QED BY <2>4 DEF T, Rank
<1>4. ASSUME NEW r \in S, NEW q \in S, r < q PROVE Rank(S, r) < Rank(S, q)
  <2> DEFINE T == {p \in S : p <= r}
             U == {p \in S : p <= q}
  <2>1. U \in SUBSET S
    OBVIOUS
  <2>2. T \in SUBSET U
    <3>1. \A p \in S : p <= r => p <= q
      BY <1>2, <1>4
    <3> QED BY <3>1
  <2>3. T # U
    BY <1>2, <1>4
  <2> HIDE DEF T, U
  <2>4. IsFiniteSet(U) /\ Cardinality(U) \in Nat
    BY <2>1, <1>1, FS_Subset, FS_CardinalityType
  <2>5. IsFiniteSet(T) /\ Cardinality(T) \in Nat /\ Cardinality(T) <= Cardinality(U)
        /\ Cardinality(T) # Cardinality(U)
    BY <2>2, <2>3, <2>4, FS_Subset, FS_CardinalityType
  <2>6. Cardinality(T) < Cardinality(U)
    BY <2>4, <2>5
  <2> QED BY <2>6 DEF T, U, Rank
<1> QED BY <1>1, <1>3, <1>4

(* Every rank up to the size of the set is the rank of a register. *)
LEMMA RankOnto ==
  ASSUME NEW S, S \subseteq Regs, NEW k \in 1..Cardinality(S)
  PROVE  \E r \in S : Rank(S, r) = k
<1> DEFINE n == Cardinality(S)
           f == [r \in S |-> Rank(S, r)]
<1>1. IsFiniteSet(S) /\ n \in Nat /\ S \subseteq Nat
  BY RankTypes, RegsNat
<1>2. f \in [S -> 1..n]
  BY RankTypes
<1>3. ASSUME NEW r \in S, NEW q \in S, r # q PROVE f[r] # f[q]
  <2>1. r < q \/ q < r
    BY <1>1, <1>3
  <2>2. Rank(S, r) \in 1..n /\ Rank(S, q) \in 1..n
    BY RankTypes
  <2>3. Rank(S, r) < Rank(S, q) \/ Rank(S, q) < Rank(S, r)
    BY <2>1, RankTypes
  <2>4. Rank(S, r) # Rank(S, q)
    BY <2>2, <2>3, <1>1
  <2> QED BY <2>4
<1> HIDE DEF f
<1>4. f \in Injection(S, 1..n)
  BY <1>2, <1>3 DEF Injection, IsInjective
<1>5. IsFiniteSet(1..n) /\ Cardinality(1..n) = n
  BY <1>1, FS_Interval
<1>6. f \in Surjection(S, 1..n)
  BY <1>4, <1>5, FS_Injection
<1>7. \E r \in S : f[r] = k
  BY <1>6 DEF Surjection
<1> QED BY <1>7 DEF f

LEMMA NextType ==
  ASSUME NEW S
  PROVE  /\ NextIMRegister(S) \in Regs \cup {NoReg}
         /\ NextIMRegister(S) # NoReg => NextIMRegister(S) \notin S
<1> DEFINE F == Regs \ S
<1>1. CASE F = {}
  BY <1>1 DEF NextIMRegister
<1>2. CASE F # {}
  <2>1. F \subseteq Regs
    OBVIOUS
  <2> HIDE DEF F
  <2>2. Cardinality(F) \in Nat /\ Cardinality(F) # 0 /\ F \subseteq Nat
    <3>1. IsFiniteSet(F) /\ Cardinality(F) \in Nat /\ F \subseteq Nat
      BY <2>1, RankTypes, RegsNat
    <3> QED BY <1>2, <3>1, FS_EmptySet
  <2>3. 1 \in 1..Cardinality(F)
    BY <2>2
  <2>4. PICK r \in F : Rank(F, r) = 1
    BY <2>1, <2>3, RankOnto
  <2>5. \A q \in F : r <= q
    <3> SUFFICES ASSUME NEW q \in F, q < r PROVE FALSE
      BY <2>2
    <3>1. Rank(F, q) \in 1..Cardinality(F) /\ Rank(F, q) < Rank(F, r)
      BY <2>1, RankTypes
    <3> QED BY <3>1, <2>2, <2>4
  <2>6. \E x \in F : \A q \in F : x <= q
    BY <2>5
  <2>7. NextIMRegister(S) \in F
    BY <1>2, <2>6 DEF NextIMRegister, F
  <2> QED BY <2>7 DEF F
<1> QED BY <1>1, <1>2

----------------------------------------------------------------------------
LEMMA PlacedGrows ==
  ASSUME NEW a \in Nat, NEW b \in Nat, a <= b
  PROVE  PlacedSet(a) \subseteq PlacedSet(b)
BY DEF PlacedSet, Placed

LEMMA PlacedTyped ==
  ASSUME NEW n \in Nat, n <= MaxIm, NEW t, Placed(t, n)
  PROVE  t \in PlacedSet(n)
<1>1. t \in Operands
  <2>1. CASE t.kind \in AtomKinds /\ t = Atom(t.kind)
    BY <2>1, Consts DEF Operands, Atom
  <2>2. CASE t.kind = "reg" /\ t.at \in Regs /\ t = [kind |-> "reg", at |-> t.at]
    <3>1. t.at \in 0..(NRegs + MaxIm)
      BY <2>2, Consts DEF Regs
    <3> QED BY <2>2, <3>1 DEF Operands
  <2>3. CASE t.kind = "stk" /\ t.at \in 1..n /\ t = [kind |-> "stk", at |-> t.at]
    <3>1. t.at \in 0..(NRegs + MaxIm)
      BY <2>3, Consts
    <3> QED BY <2>3, <3>1 DEF Operands
  <2> QED BY <2>1, <2>2, <2>3 DEF Placed
<1> QED BY <1>1 DEF PlacedSet

LEMMA RenamedTyped ==
  ASSUME NEW n \in Nat \ {0}, n <= MaxTks, NEW v \in Values
  PROVE  Renamed(v, n) \in Values /\ (v = Variable => Renamed(v, n) = Variable)
BY Consts DEF Renamed, Values, Variable, Result, Garbage

LEMMA Places ==
  ASSUME IInv, NEW i \in 1..N
  PROVE  /\ N \in Nat /\ N <= MaxTks /\ i <= MaxTks
         /\ Placed(tk[i], im) /\ tk[i] \in PlacedSet(im)
         /\ Good(Here) /\ Here.im = im /\ im \in Nat /\ im <= MaxIm
<1>1. tk \in Seq(PlacedSet(im)) /\ N <= MaxTks /\ Good(Here) /\ im <= MaxIm
  BY DEF IInv
<1>2. N \in Nat
  BY <1>1, LenProperties DEF N
<1>3. tk[i] \in PlacedSet(im)
  BY <1>1, <1>2, ElementOfSeq DEF N
<1>4. Here.im = im /\ im \in Nat
  BY <1>1 DEF Good, Machines, Here
<1> QED BY <1>1, <1>2, <1>3, <1>4, Consts DEF PlacedSet

LEMMA FinishGood ==
  ASSUME IInv, NEW m, Good(m), m.im >= im, NEW n \in 1..N,
         NEW t, Placed(t, m.im), Finish(m, n, t), cause' \in Causes
  PROVE  IInv'
<1> DEFINE r2 == [r \in Regs |-> Renamed(m.reg[r], n)]
           s2 == [k \in 1..Len(m.stack) |-> Renamed(m.stack[k], n)]
<1>1. /\ m.used \in SUBSET Regs /\ m.im \in Nat /\ m.reg \in [Regs -> Values]
      /\ m.stack \in Seq(Values) /\ Len(m.stack) = Vars + m.im
      /\ \A i \in 1..Len(m.stack) : m.stack[i] \in Values
  BY ElementOfSeq DEF Good, Machines
<1>2. n \in Nat \ {0} /\ n <= MaxTks /\ N \in Nat /\ im \in Nat
      /\ tk \in Seq(PlacedSet(im))
  BY Places DEF IInv
<1>3. r2 \in [Regs -> Values]
  BY <1>1, <1>2, RenamedTyped
<1>4. Len(m.stack) \in Nat
  BY <1>1, LenProperties
<1>5. s2 \in Seq(Values) /\ Len(s2) = Len(m.stack)
  <2>1. s2 \in [1..Len(m.stack) -> Values]
    BY <1>1, <1>2, RenamedTyped
  <2> HIDE DEF s2
  <2> QED BY <2>1, <1>4
<1>6. \A k \in 1..Len(m.stack) : s2[k] = Renamed(m.stack[k], n)
  OBVIOUS
<1>7. Here' = [used |-> m.used, im |-> m.im, reg |-> r2, stack |-> s2]
      /\ im' = m.im /\ m.im <= MaxIm
      /\ tk' = Append(SubSeq(tk, 1, n - 1), t)
  BY DEF Finish, Here
<1> HIDE DEF r2, s2
<1>8. ASSUME Outer = 0 PROVE \A k \in 1..Vars : s2[k] = Variable
  <2> SUFFICES ASSUME NEW k \in 1..Vars PROVE s2[k] = Variable
    OBVIOUS
  <2>1. k \in 1..Len(m.stack)
    BY <1>1, Consts
  <2>2. m.stack[k] = Variable
    BY <1>8 DEF Good
  <2> QED BY <2>1, <2>2, <1>1, <1>2, <1>6, RenamedTyped
<1>9. Good(Here')
  <2>1. Here' \in Machines
    BY <1>1, <1>3, <1>5, <1>7 DEF Machines
  <2>2. Here'.stack = s2 /\ Here'.im = m.im
    BY <1>7
  <2> QED BY <2>1, <2>2, <1>1, <1>5, <1>8 DEF Good
<1>10. t \in PlacedSet(m.im)
  BY <1>1, <1>7, PlacedTyped
<1>11. PlacedSet(im) \subseteq PlacedSet(m.im)
  BY <1>1, <1>2, PlacedGrows
<1> DEFINE u == SubSeq(tk, 1, n - 1)
<1>12. u \in Seq(PlacedSet(m.im)) /\ Len(u) = n - 1
  <2>1. \A i \in 1..N : tk[i] \in PlacedSet(im)
    BY <1>2, ElementOfSeq DEF N
  <2>2. \A i \in 1..(n - 1) : tk[i] \in PlacedSet(m.im)
    BY <2>1, <1>2, <1>11
  <2>3. n - 1 \in Int /\ 1 \in Int
    BY <1>2
  <2>4. u \in Seq(PlacedSet(m.im))
        /\ Len(u) = IF 1 <= n - 1 THEN (n - 1) - 1 + 1 ELSE 0
    BY <2>2, <2>3, SubSeqProperties
  <2> HIDE DEF u
  <2> QED BY <2>4, <1>2
<1> HIDE DEF u
<1>13. tk' \in Seq(PlacedSet(m.im)) /\ Len(tk') = n
  <2>1. tk' = Append(u, t)
    BY <1>7 DEF u
  <2>2. Append(u, t) \in Seq(PlacedSet(m.im)) /\ Len(Append(u, t)) = Len(u) + 1
    BY <1>10, <1>12, AppendProperties
  <2> QED BY <2>1, <2>2, <1>12, <1>2
<1> QED BY <1>2, <1>7, <1>9, <1>13 DEF IInv, N

(* The blame changes nothing but the ghost. *)
LEMMA BlameTyped ==
  ASSUME cause \in Causes, NEW w, NEW c \in Causes, Blame(w, c)
  PROVE  cause' \in Causes
BY DEF Blame

----------------------------------------------------------------------------
(* What the helpers of the operators return. *)
LEMMA ArgRegType ==
  ASSUME IInv, NEW i \in 1..N, NEW m
  PROVE  ArgReg(m, i) \in Regs \cup {NoReg}
<1>1. Placed(tk[i], im)
  BY Places
<1> QED BY <1>1, NextType DEF ArgReg, Placed, AtomKinds

LEMMA OrElseType ==
  ASSUME NEW r \in Regs \cup {NoReg}, NEW d \in Regs
  PROVE  OrElse(r, d) \in Regs
BY DEF OrElse

LEMMA PushTwice ==
  ASSUME NEW m, Good(m)
  PROVE  LET p == Push(Push(m, RAX), RAX) IN Good(p) /\ p.im = m.im + 2
<1>1. Good(Push(m, RAX)) /\ Push(m, RAX).im = m.im + 1
  BY PushGood, Consts
<1> DEFINE a == Push(m, RAX)
<1> HIDE DEF a
<1>2. Good(a) /\ a.im = m.im + 1
  BY <1>1 DEF a
<1>3. Good(Push(a, RAX)) /\ Push(a, RAX).im = a.im + 1
  BY <1>2, PushGood, Consts
<1>4. m.im \in Nat
  BY DEF Good, Machines
<1>5. a.im + 1 = m.im + 2
  BY <1>2, <1>4
<1> QED BY <1>3, <1>5 DEF a

LEMMA AsgnGood ==
  ASSUME IInv, NEW i \in 1..N, NEW m, Good(m)
  PROVE  /\ Good(AsgnRegOrStack(m, i))
         /\ ArgReg(m, i) # NoReg => AsgnRegOrStack(m, i).im = m.im
         /\ ArgReg(m, i) = NoReg => AsgnRegOrStack(m, i).im = m.im + 2
BY ArgRegType, TakeGood, PushTwice DEF AsgnRegOrStack

LEMMA ValueOfType ==
  ASSUME IInv, NEW i \in 1..N, NEW m, Good(m), m.im >= im
  PROVE  ValueOf(m, i) \in Values
<1>1. /\ Placed(tk[i], im) /\ i <= MaxTks /\ im \in Nat
      /\ m.im \in Nat /\ m.reg \in [Regs -> Values] /\ m.stack \in Seq(Values)
      /\ Len(m.stack) = Vars + m.im
  BY Places DEF Good, Machines
<1>2. CASE tk[i].kind \in AtomKinds
  <2>1. tk[i].kind # "reg" /\ tk[i].kind # "stk"
    BY <1>2 DEF AtomKinds
  <2>2. ValueOf(m, i) = i
    BY <2>1, <1>2 DEF ValueOf
  <2> QED BY <2>2, <1>1, TagsInValues, Consts DEF N
<1>3. CASE tk[i].kind = "reg"
  <2>1. tk[i].kind \notin AtomKinds /\ tk[i].at \in Regs
    BY <1>1, <1>3 DEF AtomKinds, Placed
  <2>2. ValueOf(m, i) = m.reg[tk[i].at]
    BY <2>1, <1>3 DEF ValueOf
  <2> QED BY <2>1, <2>2, <1>1
<1>4. CASE tk[i].kind = "stk"
  <2>1. tk[i].kind \notin AtomKinds /\ tk[i].at \in 1..im
    BY <1>1, <1>4 DEF AtomKinds, Placed
  <2>2. ValueOf(m, i) = m.stack[Slot(tk[i].at)]
    BY <2>1, <1>4 DEF ValueOf
  <2>3. Slot(tk[i].at) \in 1..Len(m.stack)
    <3>1. Len(m.stack) = Outer + Own + m.im /\ m.im \in Nat
      BY <1>1 DEF Vars
    <3>2. ASSUME NEW k \in 1..im PROVE Own + k \in 1..(Outer + Own + m.im)
      BY <3>1, <1>1, Consts
    <3> QED BY <2>1, <3>1, <3>2 DEF Slot
  <2> QED BY <2>2, <2>3, <1>1, ElementOfSeq
<1> QED BY <1>1, <1>2, <1>3, <1>4 DEF Placed

LEMMA MovArgGood ==
  ASSUME IInv, NEW i \in 1..N, NEW m, Good(m), m.im >= im, NEW r \in Regs
  PROVE  Good(MovArgToReg(m, i, r)) /\ MovArgToReg(m, i, r).im = m.im
BY ValueOfType, MovGood DEF MovArgToReg

LEMMA ComputeGood ==
  ASSUME NEW m, Good(m), NEW r \in Regs, NEW q, NEW x, NEW y
  PROVE  Good(Compute(m, r, x, q, y)) /\ Compute(m, r, x, q, y).im = m.im
BY MovGood, Consts DEF Compute

LEMMA SetArgGood ==
  ASSUME NEW m, Good(m), NEW r \in Regs \cup {NoReg}, NEW pos,
         r = NoReg => pos \in 1..m.im
  PROVE  /\ Good(SetArg(m, r, pos))
         /\ r # NoReg => SetArg(m, r, pos).im = m.im
         /\ r = NoReg => SetArg(m, r, pos).im = m.im - 1
<1>1. CASE r # NoReg
  BY <1>1 DEF SetArg
<1>2. CASE r = NoReg
  <2> DEFINE s == Store(m, pos, RAX)
  <2>1. Good(s) /\ s.im = m.im
    BY <1>2, StoreGood, Consts
  <2>2. m.im >= 1
    BY <1>2 DEF Good, Machines
  <2> HIDE DEF s
  <2>3. Good(Pop(s, RAX)) /\ Pop(s, RAX).im = s.im - 1
    BY <2>1, <2>2, PopGood, Consts
  <2> QED BY <1>2, <2>1, <2>3 DEF SetArg, s
<1> QED BY <1>1, <1>2

LEMMA ArgOfPlaced ==
  ASSUME NEW m, NEW r \in Regs \cup {NoReg}, NEW n \in Nat,
         r = NoReg => m.im = n + 1 /\ n >= 1
  PROVE  Placed(ArgOf(m, r), n)
BY DEF ArgOf, Placed

(* The common end of the operators: the result goes where it was promised. *)
LEMMA ResultGood ==
  ASSUME IInv, NEW m, Good(m), NEW r \in Regs \cup {NoReg}, NEW n \in 1..N,
         r # NoReg => m.im >= im,
         r = NoReg => m.im >= im + 2,
         Finish(SetArg(m, r, im + 1), n, ArgOf(m, r)), cause' \in Causes
  PROVE  IInv'
<1>1. im \in Nat /\ m.im \in Nat
  BY Places DEF Good, Machines
<1>2. r = NoReg => im + 1 \in 1..m.im
  BY <1>1
<1> DEFINE a == SetArg(m, r, im + 1)
<1>3. Good(a) /\ (r # NoReg => a.im = m.im) /\ (r = NoReg => a.im = m.im - 1)
  BY <1>2, SetArgGood
<1> HIDE DEF a
<1>4. a.im \in Nat /\ a.im >= im
  BY <1>1, <1>3
<1>5. r = NoReg => m.im = a.im + 1 /\ a.im >= 1
  BY <1>1, <1>3
<1>6. Placed(ArgOf(m, r), a.im)
  BY <1>4, <1>5, ArgOfPlaced
<1> QED BY <1>3, <1>4, <1>6, FinishGood DEF a

----------------------------------------------------------------------------
(* One lemma for each action. *)
LEMMA HereGood ==
  ASSUME IInv
  PROVE  Good(Here) /\ Here.im = im /\ im \in Nat /\ N \in Nat /\ cause \in Causes
<1>1. Good(Here) /\ tk \in Seq(PlacedSet(im)) /\ cause \in Causes
  BY DEF IInv
<1>2. N \in Nat
  BY <1>1, LenProperties DEF N
<1>3. Here.im = im /\ im \in Nat
  BY <1>1 DEF Good, Machines, Here
<1> QED BY <1>1, <1>2, <1>3

LEMMA PushAtomInv ==
  ASSUME IInv, NEW k \in AtomKinds, PushAtom(k)
  PROVE  IInv'
<1>1. /\ tk \in Seq(PlacedSet(im)) /\ N < MaxTks /\ N \in Nat /\ im \in Nat
      /\ im <= MaxIm
  BY HereGood DEF IInv, PushAtom
<1>2. Atom(k) \in PlacedSet(im)
  <2>1. Placed(Atom(k), im)
    BY DEF Placed, Atom
  <2> QED BY <2>1, <1>1, PlacedTyped
<1>3. tk' \in Seq(PlacedSet(im)) /\ Len(tk') = N + 1
  BY <1>1, <1>2, AppendProperties DEF PushAtom, N
<1>4. N + 1 <= MaxTks
  BY <1>1, Consts
<1> QED BY <1>3, <1>4 DEF IInv, PushAtom, N, Here

LEMMA FoldInv ==
  ASSUME IInv, NEW k \in 1..2, Fold(k)
  PROVE  IInv'
<1>1. N \in Nat /\ N >= k /\ cause' \in Causes /\ Good(Here) /\ Here.im = im /\ im \in Nat
  BY HereGood DEF Fold, Ready
<1>2. N - k + 1 \in 1..N /\ Here.im >= im
  BY <1>1
<1>3. Placed(Atom("lit"), Here.im)
  BY DEF Placed, Atom, AtomKinds
<1>4. Finish(Here, N - k + 1, Atom("lit"))
  BY DEF Fold
<1> DEFINE h == Here
<1> HIDE DEF h
<1>5. /\ Good(h) /\ h.im >= im /\ Placed(Atom("lit"), h.im)
      /\ Finish(h, N - k + 1, Atom("lit"))
  BY <1>1, <1>2, <1>3, <1>4 DEF h
<1> QED BY <1>1, <1>2, <1>5, FinishGood

LEMMA UnaryInv ==
  ASSUME IInv, Unary
  PROVE  IInv'
<1> DEFINE r == ArgReg(Here, N)
           l == OrElse(r, RAX)
           a == AsgnRegOrStack(Here, N)
           m == MovArgToReg(a, N, l)
           c == Compute(m, l, N, l, N)
<1>1. Finish(SetArg(c, r, im + 1), N, ArgOf(c, r)) /\ cause' = cause /\ N >= 1
  BY DEF Unary, Ready, Deliver
<1>2. Good(Here) /\ Here.im = im /\ im \in Nat /\ N \in 1..N /\ cause' \in Causes
  BY <1>1, HereGood
<1>3. r \in Regs \cup {NoReg} /\ l \in Regs
  BY <1>2, ArgRegType, OrElseType, Consts
<1>4. Good(a) /\ (r # NoReg => a.im = im) /\ (r = NoReg => a.im = im + 2)
  BY <1>2, AsgnGood
<1> HIDE DEF r, l, a
<1>5. Good(m) /\ m.im = a.im
  <2>1. a.im >= im
    BY <1>2, <1>4
  <2> QED BY <1>2, <1>3, <1>4, <2>1, MovArgGood
<1> HIDE DEF m
<1>6. Good(c) /\ c.im = m.im
  BY <1>3, <1>5, ComputeGood
<1> HIDE DEF c
<1>7. (r # NoReg => c.im >= im) /\ (r = NoReg => c.im >= im + 2)
  BY <1>2, <1>4, <1>5, <1>6
<1> QED BY <1>1, <1>2, <1>3, <1>6, <1>7, ResultGood

LEMMA NonLitBinaryInv ==
  ASSUME IInv, NEW x \in 1..N, NEW y \in 1..N, N >= 2, NonLitBinary(x, y)
  PROVE  IInv'
<1> DEFINE regL == ArgReg(Here, x)
           l == OrElse(regL, RAX)
           a == AsgnRegOrStack(Here, x)
           m1 == MovArgToReg(a, x, l)
           regR == ArgReg(m1, y)
           replacement == IF regL = RDX THEN RCX ELSE RDX
           r == OrElse(regR, replacement)
           m2 == AsgnRegOrStack(m1, y)
           m3 == IF regR = NoReg THEN Push(m2, replacement) ELSE m2
           mv == MovArgToReg(m3, y, r)
           m4 == Compute(mv, l, x, r, y)
           m5 == IF regR = NoReg THEN Pop(m4, replacement) ELSE Free(m4, regR)
<1>1. Finish(SetArg(m5, regL, im + 1), N - 1, ArgOf(m5, regL))
  BY DEF NonLitBinary, Deliver, PushIf, PopOrFree
<1>2. Good(Here) /\ Here.im = im /\ im \in Nat /\ N \in Nat /\ cause \in Causes
  BY HereGood
<1>3. cause' \in Causes
  <2>1. Blame(TRUE, "full") \/ Blame(x = y /\ tk[x].kind = "reg", "double")
    BY DEF NonLitBinary, Deliver, PushIf, PopOrFree
  <2>2. "full" \in Causes /\ "double" \in Causes
    BY DEF Causes
  <2> QED BY <1>2, <2>1, <2>2, BlameTyped
<1>4. regL \in Regs \cup {NoReg} /\ l \in Regs /\ replacement \in Regs
  BY ArgRegType, OrElseType, Consts
<1>5. Good(a) /\ (regL # NoReg => a.im = im) /\ (regL = NoReg => a.im = im + 2)
  BY <1>2, AsgnGood
<1> HIDE DEF regL, l, a, replacement
<1>6. a.im >= im /\ a.im \in Nat
  BY <1>2, <1>4, <1>5
<1>7. Good(m1) /\ m1.im = a.im
  BY <1>4, <1>5, <1>6, MovArgGood
<1> HIDE DEF m1
<1>8. regR \in Regs \cup {NoReg} /\ r \in Regs
  BY <1>4, ArgRegType, OrElseType
<1>9. Good(m2) /\ (regR # NoReg => m2.im = m1.im) /\ (regR = NoReg => m2.im = m1.im + 2)
  BY <1>7, AsgnGood
<1> HIDE DEF regR, r, m2
<1>10. Good(m3) /\ (regR # NoReg => m3.im = a.im) /\ (regR = NoReg => m3.im = a.im + 3)
  <2>1. regR = NoReg => Good(Push(m2, replacement)) /\ Push(m2, replacement).im = m2.im + 1
    BY <1>4, <1>9, PushGood
  <2>2. CASE regR = NoReg
    <3>1. m3 = Push(m2, replacement)
      BY <2>2
    <3> HIDE DEF m3
    <3>2. Good(m3) /\ m3.im = m2.im + 1
      BY <2>1, <2>2, <3>1
    <3> QED BY <2>2, <3>2, <1>6, <1>7, <1>9
  <2>3. CASE regR # NoReg
    BY <2>3, <1>7, <1>9
  <2> QED BY <2>2, <2>3
<1> HIDE DEF m3
<1>11. m3.im >= im /\ m3.im \in Nat
  BY <1>2, <1>6, <1>10
<1>12. Good(mv) /\ mv.im = m3.im
  BY <1>8, <1>10, <1>11, MovArgGood
<1> HIDE DEF mv
<1>13. Good(m4) /\ m4.im = m3.im
  BY <1>4, <1>12, ComputeGood
<1> HIDE DEF m4
<1>14. Good(m5) /\ m5.im >= a.im
  <2>1. CASE regR = NoReg
    <3>1. m4.im >= 1 /\ m4.im = a.im + 3
      BY <2>1, <1>6, <1>10, <1>13
    <3>2. Good(Pop(m4, replacement)) /\ Pop(m4, replacement).im = m4.im - 1
      BY <3>1, <1>4, <1>13, PopGood
    <3>3. m5 = Pop(m4, replacement)
      BY <2>1
    <3> HIDE DEF m5
    <3>4. Good(m5) /\ m5.im = m4.im - 1
      BY <3>2, <3>3
    <3> QED BY <3>1, <3>4, <1>6
  <2>2. CASE regR # NoReg
    <3>1. m5 = Free(m4, regR)
      BY <2>2
    <3> HIDE DEF m5
    <3>2. Good(m5) /\ m5.im = m4.im
      BY <3>1, <1>13, FreeGood
    <3> QED BY <2>2, <3>2, <1>6, <1>10, <1>13
  <2> QED BY <2>1, <2>2
<1> HIDE DEF m5
<1>15. (regL # NoReg => m5.im >= im) /\ (regL = NoReg => m5.im >= im + 2)
  <2>1. m5.im \in Nat
    BY <1>14 DEF Good, Machines
  <2> QED BY <2>1, <1>2, <1>5, <1>6, <1>14
<1>16. N - 1 \in 1..N
  BY <1>2
<1> QED BY <1>1, <1>3, <1>4, <1>14, <1>15, <1>16, ResultGood

LEMMA BinaryInv == ASSUME IInv, Binary PROVE IInv'
<1>1. N \in Nat /\ N >= 2 /\ NonLitBinary(N - 1, N)
  BY HereGood DEF Binary, Ready
<1>2. N - 1 \in 1..N /\ N \in 1..N
  BY <1>1
<1> QED BY <1>1, <1>2, NonLitBinaryInv

LEMMA TimesZeroInv == ASSUME IInv, TimesZero PROVE IInv'
<1>1. /\ N \in Nat /\ N >= 2 /\ cause' \in Causes
      /\ Finish(Here, N - 1, Atom("lit"))
      /\ Good(Here) /\ Here.im = im /\ im \in Nat
  BY HereGood DEF TimesZero, OneLit, Ready
<1>2. N - 1 \in 1..N /\ Here.im >= im
  BY <1>1
<1> DEFINE h == Here
<1> HIDE DEF h
<1>3. /\ Good(h) /\ h.im >= im /\ Finish(h, N - 1, Atom("lit"))
      /\ Placed(Atom("lit"), h.im)
  BY <1>1, <1>2 DEF h, Placed, Atom, AtomKinds
<1> QED BY <1>1, <1>2, <1>3, FinishGood

LEMMA TimesTwoInv == ASSUME IInv, TimesTwo PROVE IInv'
<1>1. N \in Nat /\ N >= 2 /\ NonLitBinary(NonLit, NonLit)
  BY HereGood DEF TimesTwo, OneLit, Ready
<1>2. NonLit \in 1..N
  BY <1>1 DEF NonLit
<1> QED BY <1>1, <1>2, NonLitBinaryInv

LEMMA TimesOneInv == ASSUME IInv, TimesOne PROVE IInv'
<1> DEFINE IsResult(v) == IF v = NonLit THEN Result ELSE v
           r2 == [r \in Regs |-> IsResult(reg[r])]
           s2 == [k \in 1..Len(stack) |-> IsResult(stack[k])]
           m == [used |-> used, im |-> im, reg |-> r2, stack |-> s2]
<1>1. Finish(m, N - 1, tk[NonLit]) /\ cause' = cause /\ N >= 2
  BY DEF TimesOne, OneLit, Ready
<1>2. Good(Here) /\ Here.im = im /\ im \in Nat /\ N \in Nat /\ cause' \in Causes
  BY <1>1, HereGood
<1>3. NonLit \in 1..N /\ N - 1 \in 1..N
  BY <1>1, <1>2 DEF NonLit
<1>4. NonLit # Variable /\ Placed(tk[NonLit], im)
  BY <1>3, Places, Consts DEF Variable
<1>5. /\ reg \in [Regs -> Values] /\ stack \in Seq(Values) /\ used \in SUBSET Regs
      /\ Len(stack) = Vars + im
      /\ Outer = 0 => \A k \in 1..Vars : stack[k] = Variable
  BY <1>2 DEF Good, Machines, Here
<1>6. r2 \in [Regs -> Values]
  BY <1>5, Consts
<1>7. Len(stack) \in Nat /\ \A i \in 1..Len(stack) : stack[i] \in Values
  BY <1>5, LenProperties, ElementOfSeq
<1>8. s2 \in Seq(Values) /\ Len(s2) = Len(stack)
  <2>1. s2 \in [1..Len(stack) -> Values]
    BY <1>7, Consts
  <2> HIDE DEF s2
  <2>2. s2 \in Seq(Values) /\ Len(s2) = Len(stack)
    BY <2>1, <1>7
  <2> QED BY <2>2
<1>9. ASSUME Outer = 0 PROVE \A k \in 1..Vars : s2[k] = Variable
  <2> SUFFICES ASSUME NEW k \in 1..Vars PROVE s2[k] = Variable
    OBVIOUS
  <2>1. k \in 1..Len(stack) /\ stack[k] = Variable
    BY <1>2, <1>5, <1>9, Consts
  <2> QED BY <2>1, <1>4
<1> HIDE DEF r2, s2, IsResult
<1>10. m = [used |-> used, im |-> im, reg |-> r2, stack |-> s2]
  OBVIOUS
<1>11. Good(m) /\ m.im = im
  <2>1. m \in Machines
    BY <1>2, <1>5, <1>6, <1>8, <1>10 DEF Machines
  <2>2. m.stack = s2 /\ m.im = im
    BY <1>10
  <2> QED BY <2>1, <2>2, <1>5, <1>8, <1>9 DEF Good
<1> HIDE DEF m
<1>12. m.im >= im /\ Placed(tk[NonLit], m.im)
  BY <1>2, <1>4, <1>11
<1> QED BY <1>1, <1>2, <1>3, <1>11, <1>12, FinishGood

LEMMA ShiftRegType == ASSUME IInv, N >= 2, N \in Nat
                      PROVE  ShiftReg \in Regs \cup {NoReg}
<1>1. N - 1 \in 1..N
  OBVIOUS
<1> QED BY <1>1, ArgRegType, NextType DEF ShiftReg

LEMMA ShiftLhsGood ==
  ASSUME IInv, N >= 2, ~NoRegToShiftIn
  PROVE  /\ Good(ShiftLhs)
         /\ ShiftReg # NoReg => ShiftLhs.im = im
         /\ ShiftReg = NoReg => ShiftLhs.im = im + 2
<1> DEFINE r == ArgReg(Here, N - 1)
           m1 == Take(Here, r)
           mt == Take(m1, ShiftReg)
           m2 == IF r = RCX THEN Free(mt, RCX) ELSE m1
           m3 == IF InReg(N - 1, RCX) THEN Mov(m2, ShiftReg, m2.reg[RCX]) ELSE m2
           m4 == IF ShiftReg = NoReg THEN Push(Push(m3, RAX), RAX) ELSE m3
           l == OrElse(ShiftReg, RAX)
<1>1. Good(Here) /\ Here.im = im /\ im \in Nat /\ N \in Nat /\ N - 1 \in 1..N
  BY HereGood
<1>2. r \in Regs \cup {NoReg} /\ ShiftReg \in Regs \cup {NoReg} /\ l \in Regs
  BY <1>1, ArgRegType, ShiftRegType, OrElseType, Consts
<1>3. Good(m1) /\ m1.im = im
  BY <1>1, <1>2, TakeGood
<1> HIDE DEF m1
<1>4. Good(mt) /\ mt.im = im
  BY <1>2, <1>3, TakeGood
<1> HIDE DEF mt
<1>5. Good(m2) /\ m2.im = im
  BY <1>3, <1>4, FreeGood
<1> HIDE DEF m2
<1>6. Good(m3) /\ m3.im = im
  <2>1. m2.reg[RCX] \in Values
    BY <1>5, Consts DEF Good, Machines
  <2>2. InReg(N - 1, RCX) => ShiftReg \in Regs
    BY <1>2 DEF NoRegToShiftIn
  <2> QED BY <1>5, <2>1, <2>2, MovGood
<1> HIDE DEF m3
<1>7. /\ Good(m4)
      /\ ShiftReg # NoReg => m4.im = im
      /\ ShiftReg = NoReg => m4.im = im + 2
  BY <1>6, PushTwice
<1> HIDE DEF m4
<1>8. m4.im >= im
  BY <1>1, <1>7
<1>9. Good(MovArgToReg(m4, N - 1, l)) /\ MovArgToReg(m4, N - 1, l).im = m4.im
  BY <1>1, <1>2, <1>7, <1>8, MovArgGood
<1>10. ShiftLhs = MovArgToReg(m4, N - 1, l)
  BY DEF ShiftLhs, MovReg, m1, mt, m2, m3, m4
<1> HIDE DEF l
<1> QED BY <1>7, <1>9, <1>10

LEMMA RejectInv == ASSUME IInv, Reject PROVE IInv'
<1>1. Here' = Here /\ tk' = tk /\ im' = im /\ cause' = "rejected"
  BY DEF Reject, Here
<1>2. PlacedSet(im)' = PlacedSet(im)
  BY <1>1 DEF PlacedSet
<1> QED BY <1>1 DEF IInv, Causes, N

LEMMA ShiftByLitInv == ASSUME IInv, ShiftByLit PROVE IInv'
<1>1. CASE NoRegToShiftIn
  BY <1>1, RejectInv DEF ShiftByLit
<1>2. CASE ~NoRegToShiftIn
  <2> DEFINE l == OrElse(ShiftReg, RAX)
             c == Compute(ShiftLhs, l, N - 1, l, N - 1)
  <2>1. /\ Finish(SetArg(c, ShiftReg, im + 1), N - 1, ArgOf(c, ShiftReg))
        /\ cause' = cause /\ N >= 2
    BY <1>2 DEF ShiftByLit, Ready, Deliver
  <2>2. im \in Nat /\ N \in Nat /\ N - 1 \in 1..N /\ cause' \in Causes
    BY <2>1, HereGood
  <2>3. ShiftReg \in Regs \cup {NoReg} /\ l \in Regs
    BY <2>1, <2>2, ShiftRegType, OrElseType, Consts
  <2> HIDE DEF l
  <2>4. Good(c) /\ c.im = ShiftLhs.im
    BY <1>2, <2>1, <2>3, ShiftLhsGood, ComputeGood
  <2> HIDE DEF c
  <2>5. (ShiftReg # NoReg => c.im >= im) /\ (ShiftReg = NoReg => c.im >= im + 2)
    BY <1>2, <2>1, <2>2, <2>4, ShiftLhsGood
  <2> QED BY <2>1, <2>2, <2>3, <2>4, <2>5, ResultGood
<1> QED BY <1>1, <1>2

LEMMA ShiftByValueInv == ASSUME IInv, ShiftByValue PROVE IInv'
<1>1. CASE NoRegToShiftIn
  BY <1>1, RejectInv DEF ShiftByValue
<1>2. CASE ~NoRegToShiftIn
  <2> DEFINE m1 == ShiftLhs
             l == OrElse(ShiftReg, RAX)
             keep == RCX \in m1.used /\ ~InReg(N, RCX)
             tmp == IF keep THEN NextIMRegister(m1.used) ELSE RCX
             m2 == SaveRCXIn(m1, keep, tmp)
             m3 == MovArgToReg(m2, N, RCX)
             m4 == IF tk[N].kind = "reg" /\ tk[N].at # RCX
                   THEN Free(MovReg(m3, RCX, tk[N].at), tk[N].at) ELSE m3
             m5 == Compute(m4, l, N - 1, RCX, N)
             m6 == RestoreRCX(m5, tmp)
  <2>1. /\ Finish(SetArg(m6, ShiftReg, im + 1), N - 1, ArgOf(m6, ShiftReg))
        /\ Blame(ShiftReg = NoReg /\ InReg(N, RAX), "full") /\ N >= 2
    BY <1>2 DEF ShiftByValue, Ready, Deliver
  <2>2. im \in Nat /\ N \in Nat /\ N - 1 \in 1..N /\ N \in 1..N /\ cause' \in Causes
    <3>1. "full" \in Causes /\ N >= 2 /\ Blame(ShiftReg = NoReg /\ InReg(N, RAX), "full")
      BY <2>1 DEF Causes
    <3> HIDE <2>1
    <3> HIDE DEF m6
    <3>2. cause' \in Causes
      BY <3>1, HereGood, BlameTyped
    <3>3. im \in Nat /\ N \in Nat
      BY HereGood
    <3>4. N - 1 \in 1..N /\ N \in 1..N
      BY <3>1, <3>3
    <3> QED BY <3>2, <3>3, <3>4
  <2>3. ShiftReg \in Regs \cup {NoReg} /\ l \in Regs
    BY <2>1, <2>2, ShiftRegType, OrElseType, Consts
  <2>4. /\ Good(m1) /\ (ShiftReg # NoReg => m1.im = im)
        /\ (ShiftReg = NoReg => m1.im = im + 2)
    BY <1>2, <2>1, ShiftLhsGood
  <2> HIDE DEF l, m1
  <2>5. m1.im \in Nat /\ m1.im >= im
    BY <2>2, <2>4
  <2>6. tmp \in Regs \cup {NoReg} /\ (tmp = NoReg => keep)
    BY NextType, Consts
  <2> HIDE DEF tmp, keep
  <2>7. Good(m2) /\ (tmp # NoReg => m2.im = m1.im) /\ (tmp = NoReg => m2.im = m1.im + 1)
    <3>1. Good(Push(m1, RCX)) /\ Push(m1, RCX).im = m1.im + 1
      BY <2>4, PushGood, Consts
    <3>2. ASSUME tmp \in Regs
          PROVE  LET t == Mov(Take(m1, tmp), tmp, m1.reg[RCX]) IN Good(t) /\ t.im = m1.im
      <4>1. m1.reg[RCX] \in Values
        BY <2>4, Consts DEF Good, Machines
      <4>2. Good(Take(m1, tmp)) /\ Take(m1, tmp).im = m1.im
        BY <2>4, <3>2, TakeGood
      <4> QED BY <3>2, <4>1, <4>2, MovGood
    <3>3. CASE ~keep
      BY <3>3, <2>4, <2>6 DEF SaveRCXIn
    <3>4. CASE keep /\ tmp = NoReg
      BY <3>4, <3>1, Consts DEF SaveRCXIn
    <3>5. CASE keep /\ tmp \in Regs
      <4>1. m2 = Mov(Take(m1, tmp), tmp, Take(m1, tmp).reg[RCX])
        BY <3>5, Consts DEF SaveRCXIn, MovReg
      <4>2. Take(m1, tmp).reg = m1.reg
        BY <3>5 DEF Take
      <4> HIDE DEF m2
      <4> QED BY <3>5, <3>2, <4>1, <4>2, Consts
    <3> QED BY <2>6, <3>3, <3>4, <3>5
  <2> HIDE DEF m2
  <2>8. m2.im >= im /\ m2.im \in Nat
    BY <2>2, <2>5, <2>7
  <2>9. Good(m3) /\ m3.im = m2.im
    BY <2>2, <2>7, <2>8, MovArgGood, Consts
  <2> HIDE DEF m3
  <2>10. Good(m4) /\ m4.im = m2.im
    <3>1. ASSUME tk[N].kind = "reg" PROVE m3.reg[tk[N].at] \in Values
      <4>1. tk[N].at \in Regs
        BY <2>2, <3>1, Places DEF Placed, AtomKinds
      <4> QED BY <4>1, <2>9 DEF Good, Machines
    <3>2. ASSUME tk[N].kind = "reg"
          PROVE  /\ Good(Mov(m3, RCX, m3.reg[tk[N].at]))
                 /\ Mov(m3, RCX, m3.reg[tk[N].at]).im = m3.im
      BY <3>1, <3>2, <2>9, MovGood, Consts
    <3> QED BY <3>2, <2>9, FreeGood DEF MovReg
  <2> HIDE DEF m4
  <2>11. Good(m5) /\ m5.im = m2.im
    BY <2>3, <2>10, ComputeGood
  <2> HIDE DEF m5
  <2>12. Good(m6) /\ m6.im = m1.im
    <3>1. CASE tmp = NoReg
      <4>1. m5.im >= 1 /\ m5.im = m1.im + 1
        BY <3>1, <2>5, <2>7, <2>11
      <4>2. Good(Pop(m5, RCX)) /\ Pop(m5, RCX).im = m5.im - 1
        BY <4>1, <2>11, PopGood, Consts
      <4>3. m6 = Pop(m5, RCX)
        BY <3>1 DEF RestoreRCX
      <4> HIDE DEF m6
      <4> QED BY <4>1, <4>2, <4>3, <2>5
    <3>2. CASE tmp = RCX
      BY <3>2, <2>7, <2>11, Consts DEF RestoreRCX
    <3>3. CASE tmp \in Regs /\ tmp # RCX
      <4>1. m5.reg[tmp] \in Values
        BY <3>3, <2>11 DEF Good, Machines
      <4>2. Good(Mov(m5, RCX, m5.reg[tmp])) /\ Mov(m5, RCX, m5.reg[tmp]).im = m5.im
        BY <4>1, <2>11, MovGood, Consts
      <4> QED BY <3>3, <4>2, <2>7, <2>11, FreeGood, Consts DEF RestoreRCX, MovReg
    <3> QED BY <2>6, <3>1, <3>2, <3>3
  <2> HIDE DEF m6
  <2>13. (ShiftReg # NoReg => m6.im >= im) /\ (ShiftReg = NoReg => m6.im >= im + 2)
    BY <2>2, <2>4, <2>12
  <2> QED BY <2>1, <2>2, <2>3, <2>12, <2>13, ResultGood
<1> QED BY <1>1, <1>2

LEMMA DivRegRType == ASSUME IInv, N >= 2, N \in Nat
                     PROVE  DivRegR \in Regs \cup {NoReg}
<1>1. N \in 1..N
  OBVIOUS
<1>2. Placed(tk[N], im)
  BY <1>1, Places
<1> QED BY <1>2, NextType DEF DivRegR, Placed, AtomKinds

LEMMA DivModInv == ASSUME IInv, NEW isDiv \in BOOLEAN, DivMod(isDiv) PROVE IInv'
<1>0. N >= 2 /\ N \in Nat /\ N - 1 \in 1..N /\ N \in 1..N
  <2>1. N >= 2 /\ N \in Nat
    BY HereGood DEF DivMod, Ready
  <2> QED BY <2>1
<1>1. CASE DivRegL = NoReg \/ (tk[N].kind = "reg" /\ DivRegR = NoReg)
  BY <1>1, RejectInv DEF DivMod
<1>2. CASE ~(DivRegL = NoReg \/ (tk[N].kind = "reg" /\ DivRegR = NoReg))
  <2> DEFINE lhsInReg == tk[N - 1].kind = "reg"
             mt == Take(Here, DivRegL)
             m1 == Take(mt, DivRegR)
             InWay(q) == q \in m1.used /\ q # DivRegL
             Pushed(q) == InWay(q) /\ ~InReg(N, q)
             SetAside(m, q) == IF Pushed(q) THEN Push(m, q)
                               ELSE IF InWay(q) THEN Mov(m, DivRegR, m.reg[q])
                               ELSE m
             ma == SetAside(m1, RAX)
             m2 == SetAside(ma, RDX)
             m3 == IF DivRegR = NoReg THEN Push(m2, RCX) ELSE Free(m2, DivRegR)
             d == OrElse(DivRegR, RCX)
             m4 == MovArgToReg(m3, N - 1, RAX)
             m5 == IF isDiv /\ lhsInReg THEN Mov(m4, RAX, m4.reg[tk[N - 1].at])
                                        ELSE m4
             mb == MovArgToReg(m5, N, d)
             m6 == Compute(mb, RAX, N - 1, d, N)
             mc == Mov(m6, RAX, Garbage)
             me == Mov(mc, RDX, Garbage)
             m7 == Mov(me, DivRegL, m6.reg[RAX])
             m8 == IF Pushed(RDX) THEN Pop(m7, RDX) ELSE m7
             m9 == IF lhsInReg THEN Free(m8, RDX) ELSE m8
             m10 == IF DivRegR = NoReg THEN Pop(m9, RCX) ELSE m9
             m11 == IF Pushed(RAX) THEN Pop(m10, RAX) ELSE m10
  <2>1. Finish(m11, N - 1, ArgOf(m11, DivRegL))
    BY <1>2 DEF DivMod, PushOrFree, PopIf, MovReg, Divided
  <2>2. \E w : Blame(w, "divmod")
    BY <1>2 DEF DivMod, PushOrFree, PopIf, MovReg, Divided
  <2>3. cause' \in Causes
    <3>1. PICK w : Blame(w, "divmod")
      BY <2>2
    <3>2. "divmod" \in Causes
      BY DEF Causes
    <3> QED BY <3>1, <3>2, HereGood, BlameTyped
  <2>4. DivRegL \in Regs /\ DivRegR \in Regs \cup {NoReg} /\ d \in Regs
    <3>1. DivRegR \in Regs \cup {NoReg}
      BY <1>0, DivRegRType
    <3>2. DivRegL \in Regs
      BY <1>0, <1>2, ArgRegType DEF DivRegL
    <3> QED BY <3>1, <3>2, OrElseType, Consts
  <2>5. Good(Here) /\ Here.im = im /\ im \in Nat
    BY HereGood
  <2>6. Good(mt) /\ mt.im = im
    BY <2>4, <2>5, TakeGood
  <2> HIDE DEF mt
  <2>7. Good(m1) /\ m1.im = im
    BY <2>4, <2>6, TakeGood
  <2> HIDE DEF m1, d
  <2>8. ASSUME NEW m, Good(m), NEW q \in Regs
        PROVE  /\ Good(SetAside(m, q))
               /\ Pushed(q) => SetAside(m, q).im = m.im + 1
               /\ ~Pushed(q) => SetAside(m, q).im = m.im
    <3>1. CASE Pushed(q)
      <4>1. SetAside(m, q) = Push(m, q)
        BY <3>1
      <4> QED BY <3>1, <4>1, <2>8, PushGood
    <3>2. CASE ~Pushed(q) /\ InWay(q)
      <4>1. DivRegR \in Regs
        BY <3>2, <1>2, <2>4 DEF InReg
      <4>2. m.reg[q] \in Values
        BY <2>8 DEF Good, Machines
      <4>3. SetAside(m, q) = Mov(m, DivRegR, m.reg[q])
        BY <3>2
      <4> QED BY <3>2, <4>1, <4>2, <4>3, <2>8, MovGood
    <3>3. CASE ~Pushed(q) /\ ~InWay(q)
      <4>1. SetAside(m, q) = m
        BY <3>3
      <4> QED BY <3>3, <4>1, <2>8
    <3> QED BY <3>1, <3>2, <3>3
  <2> DEFINE pa == Pushed(RAX)
             pd == Pushed(RDX)
             ia == IF pa THEN im + 1 ELSE im
             ib == IF pd THEN ia + 1 ELSE ia
             ic == IF DivRegR = NoReg THEN ib + 1 ELSE ib
  <2>9. Good(ma) /\ ma.im = ia
    BY <2>7, <2>8, Consts
  <2>10. m8 = (IF pd THEN Pop(m7, RDX) ELSE m7) /\ m11 = (IF pa THEN Pop(m10, RAX) ELSE m10)
         /\ pa \in BOOLEAN /\ pd \in BOOLEAN
    OBVIOUS
  <2> HIDE DEF ma
  <2>11. Good(m2) /\ m2.im = ib
    BY <2>8, <2>9, Consts
  <2>12. ia \in Nat /\ ib \in Nat /\ ic \in Nat /\ ia >= im /\ ib >= ia /\ ic >= ib
    BY <2>5
  <2> HIDE DEF m2, ia, ib
  <2>13. Good(m3) /\ m3.im = ic
    BY <2>11, PushGood, FreeGood, Consts
  <2> HIDE DEF m3, ic
  <2>14. ic >= im /\ im \in Nat
    BY <2>5, <2>12
  <2>15. Good(m4) /\ m4.im = ic
    BY <1>0, <2>13, <2>14, MovArgGood, Consts
  <2> HIDE DEF m4
  <2>16. Good(m5) /\ m5.im = ic
    <3>1. ASSUME lhsInReg PROVE m4.reg[tk[N - 1].at] \in Values
      <4>1. tk[N - 1].at \in Regs
        BY <1>0, <3>1, Places DEF Placed, AtomKinds
      <4> QED BY <4>1, <2>15 DEF Good, Machines
    <3>2. ASSUME lhsInReg
          PROVE  /\ Good(Mov(m4, RAX, m4.reg[tk[N - 1].at]))
                 /\ Mov(m4, RAX, m4.reg[tk[N - 1].at]).im = m4.im
      BY <3>1, <3>2, <2>15, MovGood, Consts
    <3> QED BY <3>2, <2>15
  <2> HIDE DEF m5
  <2>17. Good(mb) /\ mb.im = ic
    BY <1>0, <2>4, <2>14, <2>16, MovArgGood
  <2> HIDE DEF mb
  <2>18. Good(m6) /\ m6.im = ic
    BY <2>17, ComputeGood, Consts
  <2> HIDE DEF m6
  <2>19. Good(mc) /\ mc.im = ic
    BY <2>18, MovGood, Consts
  <2> HIDE DEF mc
  <2>20. Good(me) /\ me.im = ic
    BY <2>19, MovGood, Consts
  <2> HIDE DEF me
  <2>21. Good(m7) /\ m7.im = ic
    <3>1. m6.reg[RAX] \in Values
      BY <2>18, Consts DEF Good, Machines
    <3> QED BY <3>1, <2>4, <2>20, MovGood
  <2> HIDE DEF m7
  <2>22. m8 = (IF pd THEN Pop(m7, RDX) ELSE m7) /\ m11 = (IF pa THEN Pop(m10, RAX) ELSE m10)
    BY <2>10
  <2> HIDE DEF pa, pd, m8, m11
  <2>23. Good(m8) /\ m8.im = (IF pd THEN ic - 1 ELSE ic)
    <3>1. pd => ic >= 1
      BY <2>12, <2>5 DEF ib
    <3>2. pd => Good(Pop(m7, RDX)) /\ Pop(m7, RDX).im = m7.im - 1
      BY <3>1, <2>21, PopGood, Consts
    <3> QED BY <3>2, <2>21, <2>22
  <2>24. Good(m9) /\ m9.im = (IF pd THEN ic - 1 ELSE ic)
    BY <2>23, FreeGood
  <2> HIDE DEF m9
  <2>25. m9.im = (IF DivRegR = NoReg THEN ia + 1 ELSE ia)
    BY <2>24, <2>12 DEF ic, ib
  <2>26. Good(m10) /\ m10.im = ia
    <3>1. DivRegR = NoReg => m9.im >= 1 /\ m9.im = ia + 1
      BY <2>12, <2>25
    <3>2. DivRegR = NoReg => Good(Pop(m9, RCX)) /\ Pop(m9, RCX).im = m9.im - 1
      BY <3>1, <2>24, PopGood, Consts
    <3>3. CASE DivRegR = NoReg
      <4>1. m10 = Pop(m9, RCX)
        BY <3>3
      <4> HIDE DEF m10
      <4> QED BY <3>1, <3>2, <3>3, <4>1, <2>12
    <3>4. CASE DivRegR # NoReg
      BY <3>4, <2>24, <2>25
    <3> QED BY <3>3, <3>4
  <2> HIDE DEF m10
  <2>27. Good(m11) /\ m11.im = im
    <3>1. pa => m10.im >= 1 /\ m10.im = im + 1
      BY <2>26, <2>5 DEF ia
    <3>2. pa => Good(Pop(m10, RAX)) /\ Pop(m10, RAX).im = m10.im - 1
      BY <3>1, <2>26, PopGood, Consts
    <3>3. CASE pa
      <4>1. m11 = Pop(m10, RAX)
        BY <3>3, <2>22
      <4> QED BY <3>1, <3>2, <3>3, <4>1, <2>5
    <3>4. CASE ~pa
      BY <3>4, <2>22, <2>26 DEF ia
    <3> QED BY <3>3, <3>4
  <2>28. m11.im >= im /\ Placed(ArgOf(m11, DivRegL), m11.im)
    BY <2>4, <2>5, <2>27, Consts DEF ArgOf, Placed
  <2> QED BY <1>0, <2>1, <2>3, <2>27, <2>28, FinishGood
<1> QED BY <1>1, <1>2

LEMMA PreserveGood ==
  ASSUME NEW m, Good(m)
  PROVE  /\ Good(UsedRegPreserve(m))
         /\ UsedRegPreserve(m).im = m.im + Cardinality(m.used)
         /\ UsedRegPreserve(m).used = m.used
<1> DEFINE n == Cardinality(m.used)
           of(k) == CHOOSE r \in m.used : Rank(m.used, r) = k
           saved == [k \in 1..n |-> m.reg[of(k)]]
           s == m.stack \o saved
<1>1. /\ m.used \subseteq Regs /\ m.im \in Nat /\ m.reg \in [Regs -> Values]
      /\ m.stack \in Seq(Values) /\ Len(m.stack) = Vars + m.im
  BY DEF Good, Machines
<1>2. n \in Nat
  BY <1>1, RankTypes
<1>3. \A k \in 1..n : of(k) \in Regs
  <2> SUFFICES ASSUME NEW k \in 1..n PROVE of(k) \in Regs
    OBVIOUS
  <2>1. \E r \in m.used : Rank(m.used, r) = k
    BY <1>1, RankOnto
  <2> QED BY <2>1, <1>1
<1> HIDE DEF n, of
<1>4. saved \in [1..n -> Values]
  BY <1>1, <1>3
<1>5. UsedRegPreserve(m) = [m EXCEPT !.stack = s, !.im = m.im + Len(saved)]
  BY Zenon DEF UsedRegPreserve, n, of
<1> HIDE DEF saved
<1>6. saved \in Seq(Values) /\ Len(saved) = n
  BY <1>2, <1>4
<1>7. /\ s \in Seq(Values) /\ Len(s) = Len(m.stack) + n
      /\ \A i \in 1..Len(m.stack) : s[i] = m.stack[i]
  <2>1. /\ s \in Seq(Values) /\ Len(s) = Len(m.stack) + Len(saved)
        /\ \A i \in 1..Len(m.stack) + Len(saved) :
              s[i] = IF i <= Len(m.stack) THEN m.stack[i]
                     ELSE saved[i - Len(m.stack)]
    BY <1>1, <1>6, ConcatProperties
  <2>2. Len(m.stack) \in Nat
    BY <1>1, LenProperties
  <2>3. ASSUME NEW i \in 1..Len(m.stack) PROVE s[i] = m.stack[i]
    <3>1. i \in 1..Len(m.stack) + Len(saved) /\ i <= Len(m.stack)
      BY <2>2, <1>2, <1>6
    <3> QED BY <2>1, <3>1
  <2> QED BY <2>1, <2>3, <1>6
<1> HIDE DEF s
<1>8. UsedRegPreserve(m) = [used |-> m.used, im |-> m.im + n, reg |-> m.reg, stack |-> s]
  BY <1>5, <1>6, Fields
<1>9. ASSUME Outer = 0 PROVE \A k \in 1..Vars : s[k] = Variable
  <2> SUFFICES ASSUME NEW k \in 1..Vars PROVE s[k] = Variable
    OBVIOUS
  <2>1. k \in 1..Len(m.stack)
    BY <1>1, Consts
  <2> QED BY <2>1, <1>7, <1>9 DEF Good
<1> DEFINE p == UsedRegPreserve(m)
<1>10. p = [used |-> m.used, im |-> m.im + n, reg |-> m.reg, stack |-> s]
  BY <1>8
<1> HIDE DEF p
<1>11. m.im + n \in Nat /\ Len(s) = Vars + (m.im + n)
  BY <1>1, <1>2, <1>7, Consts
<1>12. Good(p) /\ p.im = m.im + n /\ p.used = m.used
  <2>1. p \in Machines
    BY <1>1, <1>7, <1>10, <1>11 DEF Machines
  <2> QED BY <2>1, <1>9, <1>10, <1>11 DEF Good
<1> QED BY <1>12 DEF p, n

LEMMA RestoreGood ==
  ASSUME NEW m, Good(m), NEW lowest \in Regs,
         m.im >= Cardinality({r \in m.used : r >= lowest})
  PROVE  /\ Good(UsedRegRestore(m, lowest))
         /\ UsedRegRestore(m, lowest).im
              = m.im - Cardinality({r \in m.used : r >= lowest})
<1> DEFINE back == {r \in m.used : r >= lowest}
           c == Cardinality(back)
           left == Len(m.stack) - c
           g == [r \in Regs |-> IF r \in back THEN m.stack[left + Rank(back, r)]
                                ELSE m.reg[r]]
           s == SubSeq(m.stack, 1, left)
<1>1. /\ m.used \subseteq Regs /\ m.im \in Nat /\ m.reg \in [Regs -> Values]
      /\ m.stack \in Seq(Values) /\ Len(m.stack) = Vars + m.im
      /\ back \subseteq Regs /\ m.im >= c
  BY DEF Good, Machines
<1>2. UsedRegRestore(m, lowest)
        = [m EXCEPT !.reg = g, !.stack = s, !.im = m.im - c]
  BY Zenon DEF UsedRegRestore
<1> HIDE DEF back
<1>3. c \in Nat /\ \A r \in back : Rank(back, r) \in 1..c
  BY <1>1, RankTypes
<1> HIDE DEF c
<1>4. left \in Nat /\ left = Vars + (m.im - c) /\ m.im - c \in Nat
      /\ Len(m.stack) \in Nat /\ left + c = Len(m.stack)
  <2>1. Vars \in Nat
    BY Consts DEF Vars
  <2>2. Len(m.stack) \in Nat
    BY <1>1, <2>1
  <2>3. m.im - c \in Nat
    BY <1>1, <1>3
  <2> QED BY <1>1, <1>3, <2>1, <2>2, <2>3
<1>5. g \in [Regs -> Values]
  <2> SUFFICES ASSUME NEW r \in Regs
               PROVE (IF r \in back THEN m.stack[left + Rank(back, r)] ELSE m.reg[r])
                       \in Values
    OBVIOUS
  <2>1. CASE r \in back
    <3>1. Rank(back, r) \in 1..c
      BY <2>1, <1>3
    <3> HIDE DEF left
    <3>2. left + Rank(back, r) \in 1..Len(m.stack)
      <4>1. ASSUME NEW k \in 1..c PROVE left + k \in 1..Len(m.stack)
        BY <1>3, <1>4
      <4> QED BY <3>1, <4>1
    <3> QED BY <2>1, <3>2, <1>1, ElementOfSeq
  <2>2. CASE r \notin back
    BY <2>2, <1>1
  <2> QED BY <2>1, <2>2
<1> HIDE DEF g
<1>6. s \in Seq(Values) /\ Len(s) = left /\ \A i \in 1..left : s[i] = m.stack[i]
  <2>0. left <= Len(m.stack)
    BY <1>3, <1>4
  <2> HIDE DEF left
  <2>1. \A i \in 1..Len(m.stack) : m.stack[i] \in Values
    BY <1>1, ElementOfSeq
  <2>2. \A i \in 1..left : m.stack[i] \in Values
    BY <2>0, <2>1, <1>4
  <2>3. /\ s \in Seq(Values)
        /\ Len(s) = IF 1 <= left THEN left - 1 + 1 ELSE 0
        /\ \A i \in 1..(left - 1 + 1) : s[i] = m.stack[1 + i - 1]
    BY <2>2, <1>4, SubSeqProperties
  <2> HIDE DEF s
  <2> QED BY <2>3, <1>4
<1> HIDE DEF s, left
<1>7. UsedRegRestore(m, lowest)
        = [used |-> m.used, im |-> m.im - c, reg |-> g, stack |-> s]
  BY <1>2, Fields
<1>8. ASSUME Outer = 0 PROVE \A k \in 1..Vars : s[k] = Variable
  <2> SUFFICES ASSUME NEW k \in 1..Vars PROVE s[k] = Variable
    OBVIOUS
  <2>1. k \in 1..left
    BY <1>4, Consts
  <2> QED BY <2>1, <1>6, <1>8 DEF Good
<1> DEFINE p == UsedRegRestore(m, lowest)
<1>9. p = [used |-> m.used, im |-> m.im - c, reg |-> g, stack |-> s]
  BY <1>7
<1> HIDE DEF p
<1>10. Good(p) /\ p.im = m.im - c
  <2>1. p \in Machines
    BY <1>1, <1>4, <1>5, <1>6, <1>9 DEF Machines
  <2> QED BY <2>1, <1>4, <1>6, <1>8, <1>9 DEF Good
<1> QED BY <1>10 DEF p, c, back

LEMMA FuncCallInv == ASSUME IInv, NEW k \in 0..MaxTks, FuncCall(k) PROVE IInv'
<1>0. N \in Nat /\ N > k /\ k \in Nat /\ N - k \in 1..N
  <2>1. N \in Nat /\ N > k /\ k \in Nat
    BY HereGood, Consts DEF FuncCall
  <2> QED BY <2>1
<1>1. CASE ~ArgsHaveRegs(k) \/ RegRet = NoReg
  BY <1>1, RejectInv DEF FuncCall
<1>2. CASE ~(~ArgsHaveRegs(k) \/ RegRet = NoReg)
  <2> DEFINE m1 == UsedRegPreserve(Here)
             right == \A i \in (N - k + 1)..N : ValueOf(m1, i) = i
             g == [r \in Regs |-> IF r = RAX /\ right THEN Result ELSE Garbage]
             m2 == [m1 EXCEPT !.reg = g]
             mr == UsedRegRestore(m2, RCX)
             m3 == IF RAX \notin used THEN UsedRegRestore(m2, RAX)
                   ELSE Pop(Mov(mr, RegRet, mr.reg[RAX]), RAX)
             n == Cardinality(used)
  <2>1. Finish(Take(m3, RegRet), N - k, ArgOf(m3, RegRet)) /\ cause' = cause
    BY <1>2 DEF FuncCall
  <2>2. Good(Here) /\ Here.im = im /\ Here.used = used /\ im \in Nat /\ cause' \in Causes
        /\ used \subseteq Regs
    BY <2>1, HereGood DEF Here, Good, Machines
  <2>3. RegRet \in Regs
    BY <1>2, NextType, Consts DEF RegRet
  <2>4. n \in Nat
    BY <2>2, RankTypes
  <2>5. Good(m1) /\ m1.im = im + n /\ m1.used = used
    BY <2>2, PreserveGood
  <2> HIDE DEF m1, n
  <2>6. g \in [Regs -> Values]
    BY Consts
  <2> HIDE DEF g
  <2>7. Good(m2) /\ m2.im = im + n /\ m2.used = used
    <3>1. m2 = [used |-> m1.used, im |-> m1.im, reg |-> g, stack |-> m1.stack]
      BY <2>5, Fields
    <3> HIDE DEF m2
    <3>2. Good(m2)
      BY <2>5, <2>6, <3>1 DEF Good, Machines
    <3> QED BY <3>1, <3>2, <2>5
  <2> HIDE DEF m2
  <2>8. Good(m3) /\ m3.im = im
    <3>1. CASE RAX \notin used
      <4>1. {r \in m2.used : r >= RAX} = used
        <5>1. \A r \in used : r >= RAX
          BY <2>2, Consts DEF Regs, RAX
        <5>2. {r \in used : r >= RAX} = used
          BY <5>1
        <5> QED BY <5>2, <2>7
      <4>2. Good(UsedRegRestore(m2, RAX)) /\ UsedRegRestore(m2, RAX).im = m2.im - n
        <5>1. m2.im >= Cardinality({r \in m2.used : r >= RAX})
          BY <4>1, <2>2, <2>4, <2>7 DEF n
        <5> QED BY <4>1, <5>1, <2>7, RestoreGood, Consts DEF n
      <4>3. m3 = UsedRegRestore(m2, RAX)
        BY <3>1
      <4> HIDE DEF m3
      <4> QED BY <4>2, <4>3, <2>2, <2>4, <2>7
    <3>2. CASE RAX \in used
      <4>1. {r \in m2.used : r >= RCX} = used \ {RAX}
        <5>1. \A r \in used : r >= RCX <=> r # RAX
          BY <2>2, Consts DEF Regs, RAX, RCX
        <5>2. {r \in used : r >= RCX} = used \ {RAX}
          BY <5>1
        <5> QED BY <5>2, <2>7
      <4>2. Cardinality(used \ {RAX}) = n - 1
        <5>1. IsFiniteSet(used)
          BY <2>2, RankTypes
        <5> QED BY <3>2, <5>1, FS_RemoveElement DEF n
      <4>3. Good(mr) /\ mr.im = im + 1
        <5>1. m2.im >= Cardinality({r \in m2.used : r >= RCX})
          BY <4>1, <4>2, <2>2, <2>4, <2>7
        <5>2. Good(mr) /\ mr.im = m2.im - (n - 1)
          BY <4>1, <4>2, <5>1, <2>7, RestoreGood, Consts
        <5> HIDE DEF mr
        <5> QED BY <5>2, <2>2, <2>4, <2>7
      <4> HIDE DEF mr
      <4> DEFINE mm == Mov(mr, RegRet, mr.reg[RAX])
      <4>4. Good(mm) /\ mm.im = im + 1
        <5>1. mr.reg[RAX] \in Values
          BY <4>3, Consts DEF Good, Machines
        <5> QED BY <5>1, <4>3, <2>3, MovGood
      <4>5. m3 = Pop(mm, RAX)
        BY <3>2
      <4> HIDE DEF mm, m3
      <4>6. mm.im >= 1
        BY <4>4, <2>2
      <4>7. Good(Pop(mm, RAX)) /\ Pop(mm, RAX).im = mm.im - 1
        BY <4>4, <4>6, PopGood, Consts
      <4> QED BY <4>4, <4>5, <4>7, <2>2
    <3> QED BY <3>1, <3>2
  <2> HIDE DEF m3
  <2>9. Good(Take(m3, RegRet)) /\ Take(m3, RegRet).im = im
    BY <2>3, <2>8, TakeGood
  <2>10. Placed(ArgOf(m3, RegRet), im) /\ im >= im
    BY <2>2, <2>3, Consts DEF ArgOf, Placed
  <2> DEFINE t == Take(m3, RegRet)
  <2>11. Good(t) /\ t.im >= im /\ Placed(ArgOf(m3, RegRet), t.im)
         /\ Finish(t, N - k, ArgOf(m3, RegRet))
    BY <2>1, <2>9, <2>10
  <2> HIDE DEF t
  <2> QED BY <1>0, <2>2, <2>11, FinishGood
<1> QED BY <1>1, <1>2

LEMMA EndExpInv == ASSUME IInv, EndExp PROVE IInv'
<1>1. /\ Good(Here) /\ im \in Nat /\ stack \in Seq(Values)
      /\ Len(stack) = Vars + im /\ cause' \in Causes
      /\ Outer = 0 => \A k \in 1..Vars : stack[k] = Variable
  BY HereGood DEF EndExp, Good, Machines, Here
<1>2. tk' = <<>> /\ used' = {} /\ im' = 0 /\ reg' = [r \in Regs |-> Garbage]
      /\ stack' = SubSeq(stack, 1, Len(stack) - im)
  BY DEF EndExp
<1>3. Len(stack) - im = Vars /\ Vars \in Nat /\ Vars <= Len(stack) /\ Len(stack) \in Nat
  BY <1>1, Consts
<1>4. \A i \in 1..Vars : stack[i] \in Values
  <2>1. \A i \in 1..Len(stack) : stack[i] \in Values
    BY <1>1, ElementOfSeq
  <2> QED BY <2>1, <1>3
<1> DEFINE s == SubSeq(stack, 1, Vars)
<1>5. s \in Seq(Values) /\ Len(s) = Vars /\ \A i \in 1..Vars : s[i] = stack[i]
  <2>1. /\ s \in Seq(Values)
        /\ Len(s) = IF 1 <= Vars THEN Vars - 1 + 1 ELSE 0
        /\ \A i \in 1..(Vars - 1 + 1) : s[i] = stack[1 + i - 1]
    BY <1>3, <1>4, SubSeqProperties
  <2> HIDE DEF s
  <2> QED BY <2>1, <1>3
<1>6. Here' = [used |-> {}, im |-> 0, reg |-> [r \in Regs |-> Garbage], stack |-> s]
  BY <1>2, <1>3 DEF Here
<1> HIDE DEF s
<1>7. Good(Here')
  <2>1. [r \in Regs |-> Garbage] \in [Regs -> Values]
    BY Consts
  <2>2. Here' \in Machines /\ Here'.stack = s /\ Here'.im = 0
    BY <1>5, <1>6, <2>1 DEF Machines
  <2>3. Vars = Vars + 0
    BY <1>3
  <2> QED BY <2>2, <2>3, <1>1, <1>5 DEF Good
<1>8. N' = 0 /\ tk' \in Seq(PlacedSet(0))
  BY <1>2 DEF N
<1> QED BY <1>1, <1>2, <1>7, <1>8, Consts DEF IInv

LEMMA InitInv == ASSUME Init PROVE IInv
<1>1. tk = <<>> /\ used = {} /\ im = 0 /\ reg = [r \in Regs |-> Garbage]
      /\ stack = [k \in 1..Vars |-> Variable] /\ cause = "none"
  BY DEF Init
<1>2. stack \in Seq(Values) /\ Len(stack) = Vars
  BY <1>1, Consts
<1>3. reg \in [Regs -> Values]
  BY <1>1, Consts
<1>4. Here \in Machines /\ Here.stack = stack /\ Here.im = 0
  BY <1>1, <1>2, <1>3 DEF Here, Machines
<1>5. Vars = Vars + 0
  BY Consts
<1>6. Good(Here)
  BY <1>1, <1>2, <1>4, <1>5 DEF Good
<1> QED BY <1>1, <1>6, Consts DEF IInv, N, Causes

LEMMA NextInv == ASSUME IInv, [Next]_vars PROVE IInv'
<1>1. CASE UNCHANGED vars
  <2>1. Here' = Here /\ tk' = tk /\ im' = im /\ cause' = cause
    BY <1>1 DEF vars, Here
  <2>2. PlacedSet(im)' = PlacedSet(im)
    BY <2>1 DEF PlacedSet
  <2> QED BY <2>1 DEF IInv, N
<1>2. CASE \E k \in AtomKinds : PushAtom(k)
  BY <1>2, PushAtomInv
<1>3. CASE \E k \in 1..2 : Fold(k)
  BY <1>3, FoldInv
<1>4. CASE Unary \/ Binary \/ TimesZero \/ TimesOne \/ TimesTwo
  BY <1>4, UnaryInv, BinaryInv, TimesZeroInv, TimesOneInv, TimesTwoInv
<1>5. CASE ShiftByLit \/ ShiftByValue
  BY <1>5, ShiftByLitInv, ShiftByValueInv
<1>6. CASE \E isDiv \in BOOLEAN : DivMod(isDiv)
  BY <1>6, DivModInv
<1>7. CASE \E k \in 0..MaxTks : FuncCall(k)
  BY <1>7, FuncCallInv
<1>8. CASE EndExp
  BY <1>8, EndExpInv
<1> QED BY <1>1, <1>2, <1>3, <1>4, <1>5, <1>6, <1>7, <1>8 DEF Next

----------------------------------------------------------------------------
(* The invariant holds in every reachable state, for any number of         *)
(* registers, of variables of the frame, and of pending operands.          *)
THEOREM Invariance == Spec => []IInv
<1> QED BY InitInv, NextInv, PTL DEF Spec

(* The program's stack is always as deep as imStackSize says, so the end   *)
(* of an expression takes RSP back to where the statement found it         *)
(* (exp.c, the ADD to RSP at the end of ba_PExp).                          *)
THEOREM StackAlwaysInSync == Spec => []StackInSync
<1>1. IInv => StackInSync
  BY DEF IInv, Good, Here, StackInSync
<1> QED BY <1>1, Invariance, PTL

(* In a scope that is the outermost of its frame, no operator stores over  *)
(* a variable (op.c, ba_POpSetArg), however many registers are in use.     *)
THEOREM VariablesAlwaysKept == ASSUME Outer = 0 PROVE Spec => []VariablesKept
<1>1. IInv => VariablesKept
  BY DEF IInv, Good, Here, VariablesKept
<1> QED BY <1>1, Invariance, PTL

(* Type correctness. *)
THEOREM TypesCorrect == Spec => []TypeOK
<1>1. IInv => TypeOK
  <2> SUFFICES ASSUME IInv PROVE TypeOK
    OBVIOUS
  <2>1. PlacedSet(im) \subseteq Operands
    BY DEF PlacedSet
  <2>2. tk \in Seq(Operands)
    BY <2>1, SeqMonotonic DEF IInv
  <2>3. used \subseteq Regs /\ reg \in [Regs -> Values] /\ stack \in Seq(Values)
    BY DEF IInv, Good, Machines, Here
  <2>4. im \in 0..MaxIm
    BY HereGood, Consts DEF IInv
  <2> QED BY <2>2, <2>3, <2>4 DEF IInv, TypeOK, Causes
<1> QED BY <1>1, Invariance, PTL

-----------------------------------------------------------------------------
(***************************************************************************)
(* No operand of an expression is lost, for any number of registers,       *)
(* operands, variables and words: unless one of the emissions that ExprGen *)
(* names has been made, every pending operand has its value where the      *)
(* compiler will look for it.                                              *)
(*                                                                         *)
(* Two operands never share a register or a word, because their values     *)
(* differ; so what an operator does to the registers of its own operands,  *)
(* to registers that are free and to words above those of operands does    *)
(* not touch the others.                                                   *)
(***************************************************************************)

(* The words above the variables, and the words the operands are in.       *)
Word(m, k) == m.stack[Vars + k]
Base(m) ==
  /\ Good(m) /\ m.im >= im
  /\ \A k \in 1..im : m.stack[Slot(k)] = stack[Slot(k)]

(* The registers of the first n - 1 operands still hold their values.      *)
Live(n) == {q \in Regs : \E i \in 1..(n - 1) : InReg(i, q)}
Spares(m, n) == \A q \in Live(n) : q \in m.used /\ m.reg[q] = reg[q]

(* The result is where operand t says.                                     *)
Holds(m, t) ==
  /\ t.kind = "reg" => t.at \in m.used /\ m.reg[t.at] = Result
  /\ t.kind = "stk" => m.stack[Slot(t.at)] = Result

Kinv == IInv /\ (cause = "none" => ValuesKept)
Sound == IInv /\ ValuesKept
----------------------------------------------------------------------------
LEMMA BaseFacts ==
  ASSUME IInv, NEW m, Base(m)
  PROVE  /\ Good(m) /\ m.im \in Nat /\ m.im >= im /\ im \in Nat
         /\ m.used \in SUBSET Regs /\ m.reg \in [Regs -> Values]
         /\ m.stack \in Seq(Values) /\ Len(m.stack) = Vars + m.im
         /\ Vars \in Nat /\ Own \in Nat /\ Outer \in Nat /\ Vars = Outer + Own
         /\ \A k \in 1..im : m.stack[Slot(k)] = stack[Slot(k)]
BY Consts, HereGood DEF Base, Good, Machines, Vars

(* An index of the stack that the lemmas below speak of.                   *)
LEMMA WordIndex ==
  ASSUME NEW i \in Nat, NEW n \in Nat, NEW k \in 1..n
  PROVE  Vars + k \in 1..(Vars + n) /\ (i <= n => \A j \in 1..i : Slot(j) \in 1..(Vars + n))
<1>1. Vars \in Nat /\ Own \in Nat /\ Outer \in Nat /\ Vars = Outer + Own
  BY Consts DEF Vars
<1> QED BY <1>1 DEF Slot

LEMMA SlotIndex ==
  ASSUME NEW i \in Nat, NEW n \in Nat, i <= n, NEW j \in 1..i
  PROVE  Slot(j) \in 1..(Vars + n)
<1>1. Vars \in Nat /\ Own \in Nat /\ Outer \in Nat /\ Vars = Outer + Own
  BY Consts DEF Vars
<1> QED BY <1>1 DEF Slot

(* A machine whose stack agrees with another up to word n.                 *)
LEMMA SameBelow ==
  ASSUME IInv, NEW m, Base(m), NEW p, Good(p), NEW n \in Nat, n >= im,
         \A k \in 1..(Vars + n) : p.stack[k] = m.stack[k], p.im >= im
  PROVE  Base(p) /\ \A k \in 1..n : Word(p, k) = Word(m, k)
<1>1. im \in Nat /\ \A k \in 1..im : m.stack[Slot(k)] = stack[Slot(k)]
  BY BaseFacts
<1>2. ASSUME NEW k \in 1..im
      PROVE  p.stack[Slot(k)] = stack[Slot(k)]
  <2>1. Slot(k) \in 1..(Vars + n)
    BY <1>1, SlotIndex
  <2> QED BY <1>1, <2>1
<1>3. ASSUME NEW k \in 1..n
      PROVE  Word(p, k) = Word(m, k)
  BY WordIndex DEF Word
<1> QED BY <1>2, <1>3 DEF Base

(* The fields of a machine that an instruction changes.                    *)
LEMMA TakeShape ==
  ASSUME NEW m, Good(m), NEW r
  PROVE  Take(m, r) = [used |-> m.used \cup ({r} \ {NoReg}), im |-> m.im,
                       reg |-> m.reg, stack |-> m.stack]
BY Fields DEF Take

LEMMA StoreShape ==
  ASSUME NEW m, Good(m), NEW r, NEW pos
  PROVE  Store(m, pos, r) =
           [used |-> m.used, im |-> m.im, reg |-> m.reg,
            stack |-> [m.stack EXCEPT ![Slot(pos)] = m.reg[r]]]
BY Fields DEF Store

LEMMA PopShape ==
  ASSUME NEW m, Good(m), NEW r
  PROVE  Pop(m, r) =
           [used |-> m.used, im |-> m.im - 1,
            reg |-> [m.reg EXCEPT ![r] = m.stack[Len(m.stack)]],
            stack |-> SubSeq(m.stack, 1, Len(m.stack) - 1)]
<1> DEFINE s == SubSeq(m.stack, 1, Len(m.stack) - 1)
           v == m.stack[Len(m.stack)]
<1>1. Drop(m) = [m EXCEPT !.stack = s, !.im = m.im - 1]
  BY Zenon DEF Drop
<1> HIDE DEF s
<1>2. Drop(m) = [used |-> m.used, im |-> m.im - 1, reg |-> m.reg, stack |-> s]
  BY <1>1, Fields
<1>3. Pop(m, r) = [Drop(m) EXCEPT !.reg[r] = v]
  BY Zenon DEF Pop, Mov
<1> HIDE DEF v
<1>4. Pop(m, r) = [used |-> m.used, im |-> m.im - 1,
                   reg |-> [m.reg EXCEPT ![r] = v], stack |-> s]
  BY <1>2, <1>3
<1> QED BY <1>4 DEF s, v

LEMMA PushEffect ==
  ASSUME IInv, NEW m, Base(m), NEW r \in Regs, NEW p, p = Push(m, r)
  PROVE  /\ Base(p) /\ p.im = m.im + 1 /\ p.used = m.used /\ p.reg = m.reg
         /\ Word(p, m.im + 1) = m.reg[r]
         /\ \A k \in 1..m.im : Word(p, k) = Word(m, k)
<1> DEFINE s == Append(m.stack, m.reg[r])
<1>1. Good(m) /\ m.im \in Nat /\ m.im >= im /\ im \in Nat
      /\ m.reg \in [Regs -> Values] /\ m.stack \in Seq(Values)
      /\ Len(m.stack) = Vars + m.im /\ Vars \in Nat
  BY BaseFacts
<1>2. m.reg[r] \in Values
  BY <1>1
<1>3. /\ \A i \in 1..Len(m.stack) : s[i] = m.stack[i]
      /\ s[Len(m.stack) + 1] = m.reg[r]
  BY <1>1, <1>2, AppendProperties
<1>4. p = [m EXCEPT !.stack = s, !.im = m.im + 1]
  BY Zenon DEF Push
<1> HIDE DEF s
<1>5. p = [used |-> m.used, im |-> m.im + 1, reg |-> m.reg, stack |-> s]
  BY <1>1, <1>4, Fields
<1>6. p.used = m.used /\ p.im = m.im + 1 /\ p.reg = m.reg /\ p.stack = s
  BY <1>5
<1>7. Good(p)
  BY <1>1, PushGood
<1>8. Base(p) /\ \A k \in 1..m.im : Word(p, k) = Word(m, k)
  <2>1. \A k \in 1..(Vars + m.im) : p.stack[k] = m.stack[k]
    BY <1>1, <1>3, <1>6
  <2>2. p.im >= im
    BY <1>1, <1>6
  <2> QED BY <1>1, <1>7, <2>1, <2>2, SameBelow
<1>9. Word(p, m.im + 1) = m.reg[r]
  <2>1. Vars + (m.im + 1) = Len(m.stack) + 1
    BY <1>1
  <2> QED BY <1>3, <1>6, <2>1 DEF Word
<1> QED BY <1>6, <1>8, <1>9

LEMMA MovEffect ==
  ASSUME IInv, NEW m, Base(m), NEW r \in Regs, NEW v \in Values, NEW p, p = Mov(m, r, v)
  PROVE  /\ Base(p) /\ p.im = m.im /\ p.used = m.used /\ p.stack = m.stack
         /\ p.reg[r] = v /\ \A q \in Regs : q # r => p.reg[q] = m.reg[q]
         /\ \A k : Word(p, k) = Word(m, k)
<1>1. Good(m) /\ m.reg \in [Regs -> Values] /\ m.im >= im
      /\ \A k \in 1..im : m.stack[Slot(k)] = stack[Slot(k)]
  BY BaseFacts
<1>2. p = [used |-> m.used, im |-> m.im,
           reg |-> [m.reg EXCEPT ![r] = v], stack |-> m.stack]
  BY <1>1, Fields DEF Mov
<1>3. p.used = m.used /\ p.im = m.im /\ p.stack = m.stack
      /\ p.reg = [m.reg EXCEPT ![r] = v]
  BY <1>2
<1>4. Good(p)
  BY <1>1, MovGood
<1>5. p.reg[r] = v /\ \A q \in Regs : q # r => p.reg[q] = m.reg[q]
  BY <1>1, <1>3
<1> QED BY <1>1, <1>3, <1>4, <1>5 DEF Base, Word

LEMMA TakeEffect ==
  ASSUME IInv, NEW m, Base(m), NEW r \in Regs \cup {NoReg}, NEW p, p = Take(m, r)
  PROVE  /\ Base(p) /\ p.im = m.im /\ p.reg = m.reg /\ p.stack = m.stack
         /\ p.used = m.used \cup ({r} \ {NoReg})
         /\ \A k : Word(p, k) = Word(m, k)
<1>1. Good(m) /\ m.im >= im /\ \A k \in 1..im : m.stack[Slot(k)] = stack[Slot(k)]
  BY BaseFacts
<1>2. p = [used |-> m.used \cup ({r} \ {NoReg}), im |-> m.im,
           reg |-> m.reg, stack |-> m.stack]
  BY <1>1, TakeShape
<1>3. p.used = m.used \cup ({r} \ {NoReg}) /\ p.im = m.im /\ p.stack = m.stack
      /\ p.reg = m.reg
  BY <1>2
<1>4. Good(p)
  BY <1>1, TakeGood
<1> QED BY <1>1, <1>3, <1>4 DEF Base, Word

LEMMA FreeEffect ==
  ASSUME IInv, NEW m, Base(m), NEW r, NEW p, p = Free(m, r)
  PROVE  /\ Base(p) /\ p.im = m.im /\ p.reg = m.reg /\ p.stack = m.stack
         /\ p.used = m.used \ {r}
         /\ \A k : Word(p, k) = Word(m, k)
<1>1. Good(m) /\ m.im >= im /\ \A k \in 1..im : m.stack[Slot(k)] = stack[Slot(k)]
  BY BaseFacts
<1>2. p = [used |-> m.used \ {r}, im |-> m.im, reg |-> m.reg, stack |-> m.stack]
  BY <1>1, Fields DEF Free
<1>3. p.used = m.used \ {r} /\ p.im = m.im /\ p.stack = m.stack /\ p.reg = m.reg
  BY <1>2
<1>4. Good(p)
  BY <1>1, FreeGood
<1> QED BY <1>1, <1>3, <1>4 DEF Base, Word
LEMMA PopEffect ==
  ASSUME IInv, NEW m, Base(m), m.im > im, NEW r \in Regs, NEW p, p = Pop(m, r)
  PROVE  /\ Base(p) /\ p.im = m.im - 1 /\ p.used = m.used
         /\ p.reg[r] = Word(m, m.im)
         /\ \A q \in Regs : q # r => p.reg[q] = m.reg[q]
         /\ \A k \in 1..(m.im - 1) : Word(p, k) = Word(m, k)
<1> DEFINE l == Len(m.stack) - 1
           s == SubSeq(m.stack, 1, l)
           v == m.stack[Len(m.stack)]
           g == [m.reg EXCEPT ![r] = v]
<1>1. Good(m) /\ m.im \in Nat /\ m.im >= im /\ im \in Nat
      /\ m.reg \in [Regs -> Values] /\ m.stack \in Seq(Values)
      /\ Len(m.stack) = Vars + m.im /\ Vars \in Nat
  BY BaseFacts
<1>2. l \in Nat /\ l = Vars + (m.im - 1) /\ m.im - 1 \in Nat /\ m.im >= 1
  BY <1>1
<1>3. /\ \A k \in 1..(l - 1 + 1) : s[k] = m.stack[1 + k - 1]
  <2>1. \A k \in 1..l : m.stack[k] \in Values
    <3>1. \A k \in 1..Len(m.stack) : m.stack[k] \in Values
      BY <1>1, ElementOfSeq
    <3>2. \A k \in 1..l : k \in 1..Len(m.stack)
      BY <1>1, <1>2
    <3> QED BY <3>1, <3>2
  <2> QED BY <2>1, <1>2, SubSeqProperties
<1>4. \A k \in 1..l : s[k] = m.stack[k]
  BY <1>2, <1>3
<1>5. p = [used |-> m.used, im |-> m.im - 1, reg |-> g, stack |-> s]
  BY <1>1, PopShape
<1> HIDE DEF s, g
<1>6. p.used = m.used /\ p.im = m.im - 1 /\ p.reg = g /\ p.stack = s
  BY <1>5
<1>7. Good(p)
  BY <1>1, <1>2, PopGood
<1>8. g[r] = v /\ \A q \in Regs : q # r => g[q] = m.reg[q]
  BY <1>1 DEF g
<1>9. v = Word(m, m.im)
  BY <1>1 DEF Word
<1>10. Base(p) /\ \A k \in 1..(m.im - 1) : Word(p, k) = Word(m, k)
  <2> DEFINE n == m.im - 1
  <2>1. \A k \in 1..(Vars + n) : p.stack[k] = m.stack[k]
    BY <1>2, <1>4, <1>6
  <2>2. n \in Nat /\ n >= im /\ p.im >= im
    BY <1>1, <1>2, <1>6
  <2> HIDE DEF n
  <2>3. Base(p) /\ \A k \in 1..n : Word(p, k) = Word(m, k)
    BY <1>7, <2>1, <2>2, SameBelow
  <2> QED BY <2>3 DEF n
<1> QED BY <1>6, <1>8, <1>9, <1>10

(* What is stored for a result, in the first word above the operands.      *)
LEMMA StoreEffect ==
  ASSUME IInv, NEW m, Base(m), m.im > im + 1, NEW r \in Regs,
         NEW p, p = Store(m, im + 1, r)
  PROVE  /\ Base(p) /\ p.im = m.im /\ p.used = m.used /\ p.reg = m.reg
         /\ p.stack[Slot(im + 1)] = m.reg[r]
         /\ Word(p, m.im) = Word(m, m.im)
<1> DEFINE s == [m.stack EXCEPT ![Slot(im + 1)] = m.reg[r]]
<1>1. Good(m) /\ m.im \in Nat /\ m.im >= im /\ im \in Nat
      /\ m.reg \in [Regs -> Values] /\ m.stack \in Seq(Values)
      /\ Len(m.stack) = Vars + m.im /\ Vars \in Nat
      /\ Own \in Nat /\ Outer \in Nat /\ Vars = Outer + Own
      /\ \A k \in 1..im : m.stack[Slot(k)] = stack[Slot(k)]
  BY BaseFacts
<1>2. im + 1 \in 1..m.im /\ Slot(im + 1) \in 1..Len(m.stack) /\ m.reg[r] \in Values
  BY <1>1 DEF Slot
<1>3. \A j \in 1..Len(m.stack) :
        s[j] = IF j = Slot(im + 1) THEN m.reg[r] ELSE m.stack[j]
  BY <1>1, <1>2, ExceptSeq
<1>4. p = [used |-> m.used, im |-> m.im, reg |-> m.reg, stack |-> s]
  BY <1>1, StoreShape
<1> HIDE DEF s
<1>5. p.used = m.used /\ p.im = m.im /\ p.reg = m.reg /\ p.stack = s
  BY <1>4
<1>6. Good(p)
  BY <1>1, <1>2, StoreGood
<1>7. ASSUME NEW k \in 1..im PROVE s[Slot(k)] = m.stack[Slot(k)]
  <2>1. Slot(k) \in 1..Len(m.stack) /\ Slot(k) # Slot(im + 1)
    BY <1>1 DEF Slot
  <2> QED BY <1>3, <2>1
<1>8. Word(p, m.im) = Word(m, m.im)
  <2>1. Vars + m.im \in 1..Len(m.stack) /\ Vars + m.im # Slot(im + 1)
    BY <1>1 DEF Slot
  <2> QED BY <1>3, <1>5, <2>1 DEF Word
<1> QED BY <1>1, <1>2, <1>3, <1>5, <1>6, <1>7, <1>8 DEF Base
----------------------------------------------------------------------------
(* Where the operands are. *)
LEMMA HereBase ==
  ASSUME IInv
  PROVE  /\ Base(Here) /\ Here.im = im /\ Here.used = used /\ Here.reg = reg
         /\ Here.stack = stack /\ N \in Nat /\ im \in Nat
         /\ used \subseteq Regs /\ reg \in [Regs -> Values]
<1>1. Good(Here) /\ Here.im = im /\ im \in Nat /\ N \in Nat
  BY HereGood
<1>2. Here.used = used /\ Here.reg = reg /\ Here.stack = stack
  BY DEF Here
<1>3. Base(Here)
  BY <1>1, <1>2 DEF Base
<1> QED BY <1>1, <1>2, <1>3 DEF Good, Machines

LEMMA InRegFacts ==
  ASSUME Sound, NEW i \in 1..N, tk[i].kind = "reg"
  PROVE  tk[i].at \in Regs /\ tk[i].at \in used /\ reg[tk[i].at] = i
<1>1. IInv /\ Kept(i)
  BY DEF Sound, ValuesKept
<1>2. Placed(tk[i], im)
  BY <1>1, Places
<1>3. tk[i].at \in Regs
  BY <1>2 DEF Placed, AtomKinds
<1> QED BY <1>1, <1>3 DEF Kept, AtomKinds

LEMMA OnStackFacts ==
  ASSUME Sound, NEW i \in 1..N, tk[i].kind = "stk"
  PROVE  tk[i].at \in 1..im /\ stack[Slot(tk[i].at)] = i
<1>1. IInv /\ Kept(i)
  BY DEF Sound, ValuesKept
<1>2. Placed(tk[i], im)
  BY <1>1, Places
<1>3. tk[i].at \in 1..im
  BY <1>2 DEF Placed, AtomKinds
<1> QED BY <1>1, <1>3 DEF Kept, AtomKinds

(* Two operands are never in the same register. *)
LEMMA Apart ==
  ASSUME Sound, NEW i \in 1..N, NEW j \in 1..N, i # j,
         tk[i].kind = "reg", tk[j].kind = "reg"
  PROVE  tk[i].at # tk[j].at
BY InRegFacts

LEMMA LiveFacts ==
  ASSUME Sound, NEW n \in 1..N, NEW q \in Live(n)
  PROVE  /\ q \in Regs /\ q \in used
         /\ \A j \in n..N : tk[j].kind = "reg" => tk[j].at # q
<1>1. N \in Nat
  BY HereGood DEF Sound
<1>2. PICK i \in 1..(n - 1) : tk[i].kind = "reg" /\ tk[i].at = q
  BY DEF Live, InReg
<1>3. i \in 1..N /\ \A j \in n..N : j \in 1..N /\ j # i
  BY <1>1
<1>4. q \in Regs /\ q \in used
  BY <1>2, <1>3, InRegFacts
<1>5. ASSUME NEW j \in n..N, tk[j].kind = "reg" PROVE tk[j].at # q
  <2>1. j \in 1..N /\ j # i
    BY <1>3
  <2> QED BY <1>2, <1>3, <1>5, <2>1, Apart
<1> QED BY <1>4, <1>5

(* An operand that is in no register is read right from its word, or is    *)
(* no value that the expression computes.                                  *)
LEMMA ArgValue ==
  ASSUME Sound, NEW i \in 1..N, tk[i].kind # "reg", NEW m, Base(m)
  PROVE  ValueOf(m, i) = i
<1>1. IInv /\ Placed(tk[i], im)
  BY Places DEF Sound
<1>2. CASE tk[i].kind = "stk"
  <2>1. tk[i].at \in 1..im /\ stack[Slot(tk[i].at)] = i
    BY <1>2, OnStackFacts
  <2>2. m.stack[Slot(tk[i].at)] = i
    BY <2>1 DEF Base
  <2> QED BY <1>2, <2>2 DEF ValueOf
<1>3. CASE tk[i].kind \in AtomKinds
  <2>1. tk[i].kind # "reg" /\ tk[i].kind # "stk"
    BY <1>3 DEF AtomKinds
  <2> QED BY <1>3, <2>1 DEF ValueOf
<1> QED BY <1>1, <1>2, <1>3 DEF Placed

LEMMA ArgRegFacts ==
  ASSUME Sound, NEW i \in 1..N, NEW m
  PROVE  /\ ArgReg(m, i) \in Regs \cup {NoReg}
         /\ tk[i].kind = "reg" => ArgReg(m, i) = tk[i].at /\ ArgReg(m, i) # NoReg
         /\ tk[i].kind # "reg" => ArgReg(m, i) = NextIMRegister(m.used)
<1>1. IInv
  BY DEF Sound
<1>2. tk[i].kind = "reg" => tk[i].at \in Regs
  BY InRegFacts
<1> QED BY <1>1, <1>2, ArgRegType, Consts DEF ArgReg

LEMMA NextFacts ==
  ASSUME NEW S, NEW r, r = NextIMRegister(S)
  PROVE  /\ r \in Regs \cup {NoReg}
         /\ r # NoReg => r \in Regs /\ r \notin S
         /\ r = NoReg => Regs \subseteq S
<1>1. r \in Regs \cup {NoReg} /\ (r # NoReg => r \notin S)
  BY NextType
<1>2. ASSUME r = NoReg PROVE Regs \subseteq S
  <2> SUFFICES ASSUME ~(Regs \subseteq S) PROVE FALSE
    OBVIOUS
  <2> DEFINE F == Regs \ S
  <2>1. F # {} /\ F \subseteq Regs
    OBVIOUS
  <2> HIDE DEF F
  <2>2. IsFiniteSet(F) /\ Cardinality(F) \in Nat /\ F \subseteq Nat
    BY <2>1, RankTypes, RegsNat
  <2>3. 1 \in 1..Cardinality(F)
    BY <2>1, <2>2, FS_EmptySet
  <2>4. PICK p \in F : Rank(F, p) = 1
    BY <2>1, <2>3, RankOnto
  <2>5. \A q \in F : p <= q
    <3> SUFFICES ASSUME NEW q \in F, q < p PROVE FALSE
      BY <2>2
    <3>1. Rank(F, q) \in 1..Cardinality(F) /\ Rank(F, q) < Rank(F, p)
      BY <2>1, RankTypes
    <3> QED BY <3>1, <2>2, <2>4
  <2>6. \E x \in Regs \ S : \A q \in Regs \ S : x <= q
    BY <2>5 DEF F
  <2>7. r \in Regs \ S
    BY <2>6 DEF NextIMRegister
  <2> QED BY <1>2, <2>7, Consts
<1> QED BY <1>1, <1>2

(* The end of an operator: the operands before it are spared and its       *)
(* result is where it says.                                                *)
LEMMA FinishAny ==
  ASSUME Sound, NEW m, Good(m), m.im >= im, NEW n \in 1..N, NEW t, Placed(t, m.im),
         Finish(m, n, t), Spares(m, n), Holds(m, t),
         \A i \in 1..(n - 1) : tk[i].kind = "stk" => m.stack[Slot(tk[i].at)] = i
  PROVE  ValuesKept'
<1>0. m.im \in Nat /\ Len(m.stack) = Vars + m.im
  BY DEF Good, Machines
<1>1. /\ IInv /\ N \in Nat /\ N <= MaxTks /\ n \in Nat /\ im \in Nat
      /\ m.im \in Nat /\ im <= m.im /\ tk \in Seq(PlacedSet(im))
  BY <1>0, HereGood DEF Sound, IInv
<1>2. /\ tk' = Append(SubSeq(tk, 1, n - 1), t) /\ used' = m.used /\ im' = m.im
      /\ reg' = [r \in Regs |-> Renamed(m.reg[r], n)]
      /\ stack' = [k \in 1..Len(m.stack) |-> Renamed(m.stack[k], n)]
  BY DEF Finish
<1>3. /\ N' = n /\ tk'[n] = t /\ \A i \in 1..(n - 1) : tk'[i] = tk[i]
  <2> DEFINE u == SubSeq(tk, 1, n - 1)
  <2>1. u \in Seq(PlacedSet(im)) /\ Len(u) = n - 1
        /\ \A i \in 1..(n - 1) : u[i] = tk[i]
    <3>1. \A i \in 1..(n - 1) : tk[i] \in PlacedSet(im)
      BY <1>1, ElementOfSeq DEF N
    <3>2. /\ u \in Seq(PlacedSet(im))
          /\ Len(u) = IF 1 <= n - 1 THEN (n - 1) - 1 + 1 ELSE 0
          /\ \A i \in 1..((n - 1) - 1 + 1) : u[i] = tk[1 + i - 1]
      BY <1>1, <3>1, SubSeqProperties
    <3> HIDE DEF u
    <3> QED BY <1>1, <3>2
  <2> HIDE DEF u
  <2>2. t \in PlacedSet(m.im) /\ u \in Seq(PlacedSet(m.im))
    <3>1. m.im <= MaxIm
      BY DEF Finish
    <3>2. PlacedSet(im) \subseteq PlacedSet(m.im)
      BY <1>1, PlacedGrows
    <3> QED BY <1>1, <2>1, <3>1, <3>2, PlacedTyped
  <2>3. tk' = Append(u, t)
    BY <1>2 DEF u
  <2>4. Len(tk') = n /\ tk'[n] = t /\ \A i \in 1..(n - 1) : tk'[i] = u[i]
    BY <1>1, <2>1, <2>2, <2>3, AppendProperties
  <2> QED BY <2>1, <2>4 DEF N
<1>4. Renamed(Result, n) = n /\ \A i \in 1..(n - 1) : Renamed(i, n) = i
  BY <1>1, Consts DEF Renamed, Result
<1>5. /\ \A r \in Regs : reg'[r] = Renamed(m.reg[r], n)
      /\ \A k \in 1..m.im : stack'[Slot(k)] = Renamed(m.stack[Slot(k)], n)
  <2>2. \A k \in 1..m.im : Slot(k) \in 1..Len(m.stack)
    BY <1>0, <1>1, SlotIndex
  <2> QED BY <1>2, <2>2
<1>6. Kept(n)'
  <2>1. CASE t.kind = "reg"
    <3>1. t.at \in Regs
      BY <2>1 DEF Placed, AtomKinds
    <3> QED BY <1>2, <1>3, <1>4, <1>5, <2>1, <3>1 DEF Holds, Kept
  <2>2. CASE t.kind = "stk"
    <3>1. t.at \in 1..m.im
      BY <2>2 DEF Placed, AtomKinds
    <3> QED BY <1>2, <1>3, <1>4, <1>5, <2>2, <3>1 DEF Holds, Kept
  <2>3. CASE t.kind \in AtomKinds
    BY <1>3, <2>3 DEF Kept, AtomKinds
  <2> QED BY <2>1, <2>2, <2>3 DEF Placed
<1>7. ASSUME NEW i \in 1..(n - 1) PROVE Kept(i)'
  <2>1. i \in 1..N /\ Renamed(i, n) = i /\ tk'[i] = tk[i]
    BY <1>1, <1>3, <1>4
  <2>2. CASE tk[i].kind = "reg"
    <3>1. tk[i].at \in Regs /\ reg[tk[i].at] = i
      BY <2>1, <2>2, InRegFacts
    <3>2. tk[i].at \in Live(n)
      BY <2>2, <3>1 DEF Live, InReg
    <3>3. tk[i].at \in m.used /\ m.reg[tk[i].at] = i
      BY <3>1, <3>2 DEF Spares
    <3> QED BY <1>2, <1>5, <2>1, <2>2, <3>1, <3>3 DEF Kept
  <2>3. CASE tk[i].kind = "stk"
    <3>1. tk[i].at \in 1..im
      BY <2>1, <2>3, OnStackFacts
    <3>2. tk[i].at \in 1..m.im /\ m.stack[Slot(tk[i].at)] = i
      BY <1>1, <2>3, <3>1
    <3> QED BY <1>2, <1>5, <2>1, <2>3, <3>2 DEF Kept
  <2>4. CASE tk[i].kind \in AtomKinds
    BY <2>1, <2>4 DEF Kept, AtomKinds
  <2>5. Placed(tk[i], im)
    BY <1>1, <2>1, Places
  <2> QED BY <2>2, <2>3, <2>4, <2>5 DEF Placed
<1>8. \A i \in 1..n : i = n \/ i \in 1..(n - 1)
  BY <1>1
<1> QED BY <1>3, <1>6, <1>7, <1>8 DEF ValuesKept

LEMMA FinishKept ==
  ASSUME Sound, NEW m, Base(m), NEW n \in 1..N, NEW t, Placed(t, m.im),
         Finish(m, n, t), Spares(m, n), Holds(m, t)
  PROVE  ValuesKept'
<1>1. IInv /\ N \in Nat
  BY HereGood DEF Sound
<1>2. ASSUME NEW i \in 1..(n - 1), tk[i].kind = "stk"
      PROVE  m.stack[Slot(tk[i].at)] = i
  <2>1. i \in 1..N
    BY <1>1
  <2>2. tk[i].at \in 1..im /\ stack[Slot(tk[i].at)] = i
    BY <1>2, <2>1, OnStackFacts
  <2> QED BY <2>2 DEF Base
<1>3. Good(m) /\ m.im >= im
  BY DEF Base
<1> QED BY <1>2, <1>3, FinishAny
----------------------------------------------------------------------------
(* What the helpers of the operators do. *)
LEMMA PushTwiceEffect ==
  ASSUME IInv, NEW m, Base(m), NEW p, p = Push(Push(m, RAX), RAX)
  PROVE  /\ Base(p) /\ p.im = m.im + 2 /\ p.used = m.used /\ p.reg = m.reg
         /\ Word(p, m.im + 2) = m.reg[RAX]
         /\ \A k \in 1..m.im : Word(p, k) = Word(m, k)
<1> DEFINE a == Push(m, RAX)
<1>1. /\ Base(a) /\ a.im = m.im + 1 /\ a.used = m.used /\ a.reg = m.reg
      /\ \A k \in 1..m.im : Word(a, k) = Word(m, k)
  BY PushEffect, Consts
<1>2. p = Push(a, RAX)
  OBVIOUS
<1> HIDE DEF a
<1>3. /\ Base(p) /\ p.im = a.im + 1 /\ p.used = a.used /\ p.reg = a.reg
      /\ Word(p, a.im + 1) = a.reg[RAX]
      /\ \A k \in 1..a.im : Word(p, k) = Word(a, k)
  <2>1. Base(a) /\ RAX \in Regs
    BY <1>1, Consts
  <2> QED BY <1>2, <2>1, PushEffect
<1>4. m.im \in Nat
  BY BaseFacts
<1>5. a.im + 1 = m.im + 2 /\ \A k \in 1..m.im : k \in 1..a.im
  BY <1>1, <1>4
<1> QED BY <1>1, <1>3, <1>5

LEMMA ComputeEffect ==
  ASSUME IInv, NEW m, Base(m), NEW r \in Regs, NEW q, NEW x, NEW y,
         m.reg[r] = x, m.reg[q] = y, NEW p, p = Compute(m, r, x, q, y)
  PROVE  /\ Base(p) /\ p.im = m.im /\ p.used = m.used /\ p.stack = m.stack
         /\ p.reg[r] = Result /\ \A s \in Regs : s # r => p.reg[s] = m.reg[s]
         /\ \A k : Word(p, k) = Word(m, k)
<1>1. p = Mov(m, r, Result)
  BY DEF Compute
<1> DEFINE v == Result
<1>2. v \in Values /\ p = Mov(m, r, v)
  BY <1>1, Consts
<1> HIDE DEF v
<1>3. /\ Base(p) /\ p.im = m.im /\ p.used = m.used /\ p.stack = m.stack
      /\ p.reg[r] = v /\ \A s \in Regs : s # r => p.reg[s] = m.reg[s]
      /\ \A k : Word(p, k) = Word(m, k)
  BY <1>2, MovEffect
<1> QED BY <1>3 DEF v

LEMMA MovArgEffect ==
  ASSUME Sound, NEW i \in 1..N, NEW m, Base(m), NEW r \in Regs,
         NEW p, p = MovArgToReg(m, i, r)
  PROVE  /\ Base(p) /\ p.im = m.im /\ p.used = m.used /\ p.stack = m.stack
         /\ (tk[i].kind = "reg" => p = m)
         /\ (tk[i].kind # "reg" => p.reg[r] = i)
<1>1. IInv
  BY DEF Sound
<1>2. CASE tk[i].kind = "reg"
  BY <1>2 DEF MovArgToReg
<1>3. CASE tk[i].kind # "reg"
  <2>1. ValueOf(m, i) = i
    BY <1>3, ArgValue
  <2>2. i \in Values
    BY <1>1, Places, TagsInValues, Consts
  <2>3. p = Mov(m, r, i)
    BY <1>3, <2>1 DEF MovArgToReg
  <2> QED BY <1>1, <1>3, <2>2, <2>3, MovEffect
<1> QED BY <1>2, <1>3

LEMMA MovArgOthers ==
  ASSUME Sound, NEW i \in 1..N, NEW m, Base(m), NEW r \in Regs,
         NEW p, p = MovArgToReg(m, i, r), NEW s \in Regs, s # r
  PROVE  p.reg[s] = m.reg[s]
<1>1. IInv
  BY DEF Sound
<1>2. CASE tk[i].kind = "reg"
  BY <1>2 DEF MovArgToReg
<1>3. CASE tk[i].kind # "reg"
  <2>1. ValueOf(m, i) = i
    BY <1>3, ArgValue
  <2>2. i \in Values
    BY <1>1, Places, TagsInValues, Consts
  <2>3. p = Mov(m, r, i)
    BY <1>3, <2>1 DEF MovArgToReg
  <2> QED BY <1>1, <1>3, <2>2, <2>3, MovEffect
<1> QED BY <1>2, <1>3

(* The result is in a register. *)
LEMMA DeliverReg ==
  ASSUME Sound, NEW m, Base(m), NEW r \in Regs, NEW n \in 1..N, Deliver(m, r, n),
         Spares(m, n), r \in m.used, m.reg[r] = Result
  PROVE  ValuesKept'
<1>1. r # NoReg
  BY Consts
<1>2. Finish(m, n, [kind |-> "reg", at |-> r])
  BY <1>1 DEF Deliver, SetArg, ArgOf
<1> DEFINE a == [kind |-> "reg", at |-> r]
<1>3. Placed(a, m.im) /\ Holds(m, a)
  BY DEF Placed, Holds
<1>4. Finish(m, n, a)
  BY <1>2
<1> HIDE DEF a
<1> QED BY <1>3, <1>4, FinishKept

(* The result is in RAX and goes to the word pushed for it; RAX gets back  *)
(* what the word above kept.                                               *)
LEMMA DeliverStk ==
  ASSUME Sound, NEW m, Base(m), NEW n \in 1..N, Deliver(m, NoReg, n),
         m.im = im + 2, m.reg[RAX] = Result, Word(m, im + 2) = reg[RAX],
         \A q \in Live(n) : q \in m.used /\ (q # RAX => m.reg[q] = reg[q])
  PROVE  ValuesKept'
<1>1. IInv /\ im \in Nat
  BY HereGood DEF Sound
<1>2. m.im > im + 1 /\ RAX \in Regs
  BY <1>1, Consts
<1> DEFINE s == Store(m, im + 1, RAX)
           p == Pop(s, RAX)
           a == [kind |-> "stk", at |-> im + 1]
<1>3. Finish(p, n, ArgOf(m, NoReg))
  BY DEF Deliver, SetArg
<1>4. ArgOf(m, NoReg) = a
  BY <1>1 DEF ArgOf
<1>5. /\ Base(s) /\ s.im = m.im /\ s.used = m.used /\ s.reg = m.reg
      /\ s.stack[Slot(im + 1)] = m.reg[RAX] /\ Word(s, m.im) = Word(m, m.im)
  BY <1>1, <1>2, StoreEffect
<1>6. p = Pop(s, RAX)
  OBVIOUS
<1> HIDE DEF s, p
<1>7. /\ Base(p) /\ p.im = s.im - 1 /\ p.used = s.used
      /\ p.reg[RAX] = Word(s, s.im)
      /\ \A q \in Regs : q # RAX => p.reg[q] = s.reg[q]
      /\ \A k \in 1..(s.im - 1) : Word(p, k) = Word(s, k)
  BY <1>1, <1>2, <1>5, <1>6, PopEffect
<1>8. p.stack[Slot(im + 1)] = Result
  <2>1. /\ s.stack \in Seq(Values) /\ Len(s.stack) = Vars + (im + 2)
    BY <1>1, <1>5, BaseFacts
  <2>2. p.stack = SubSeq(s.stack, 1, Len(s.stack) - 1)
    <3>1. Good(s)
      BY <1>1, <1>5, BaseFacts
    <3> QED BY <1>6, <3>1, PopShape
  <2>3. Slot(im + 1) \in 1..(Vars + (im + 1))
    BY <1>1, SlotIndex
  <2>4. Vars \in Nat /\ Len(s.stack) - 1 = Vars + (im + 1)
    BY <1>1, <2>1, Consts
  <2> DEFINE l == Vars + (im + 1)
             u == SubSeq(s.stack, 1, l)
  <2>5. l \in Nat /\ l <= Len(s.stack)
    BY <1>1, <2>1, <2>4
  <2>6. \A k \in 1..l : u[k] = s.stack[k]
    <3>1. \A k \in 1..l : s.stack[k] \in Values
      BY <2>1, <2>5, ElementOfSeq
    <3>2. \A k \in 1..(l - 1 + 1) : u[k] = s.stack[1 + k - 1]
      BY <2>5, <3>1, SubSeqProperties
    <3> HIDE DEF u, l
    <3> QED BY <2>5, <3>2
  <2>7. p.stack = u
    BY <2>2, <2>4
  <2> HIDE DEF u
  <2> QED BY <1>5, <2>3, <2>6, <2>7
<1>9. Spares(p, n)
  <2> SUFFICES ASSUME NEW q \in Live(n) PROVE q \in p.used /\ p.reg[q] = reg[q]
    BY DEF Spares
  <2>1. q \in Regs
    BY DEF Live
  <2>2. CASE q = RAX
    BY <1>5, <1>7, <2>2
  <2>3. CASE q # RAX
    BY <1>5, <1>7, <2>1, <2>3
  <2> QED BY <2>2, <2>3
<1>10. Placed(a, p.im) /\ Holds(p, a)
  <2>1. p.im = im + 1
    BY <1>1, <1>5, <1>7
  <2> QED BY <1>1, <1>8, <2>1 DEF Placed, Holds
<1>11. Finish(p, n, a)
  BY <1>3, <1>4
<1> HIDE DEF a
<1> QED BY <1>7, <1>9, <1>10, <1>11, FinishKept
----------------------------------------------------------------------------
(* The operand that the result replaces, moved to its register or to RAX.  *)
LEMMA LiveNotArg ==
  ASSUME Sound, NEW n \in 1..N, NEW x \in n..N, NEW m, used \subseteq m.used,
         NEW q \in Live(n)
  PROVE  q # ArgReg(m, x)
<1>1. n \in Nat /\ N \in Nat
  BY HereGood DEF Sound
<1>2. x \in 1..N
  BY <1>1
<1>3. q \in Regs /\ q \in m.used /\ (tk[x].kind = "reg" => tk[x].at # q)
  BY LiveFacts
<1>4. ArgReg(m, x) # NoReg /\ tk[x].kind # "reg" => ArgReg(m, x) \notin m.used
  BY <1>2, ArgRegFacts, NextFacts
<1> QED BY <1>2, <1>3, <1>4, ArgRegFacts, Consts

LEMMA FirstReg ==
  ASSUME Sound, NEW x \in 1..N, NEW r, r = ArgReg(Here, x), r # NoReg,
         NEW p, p = MovArgToReg(AsgnRegOrStack(Here, x), x, r)
  PROVE  /\ r \in Regs /\ Base(p) /\ p.im = im /\ p.used = used \cup {r}
         /\ p.reg[r] = x /\ \A q \in Regs : q # r => p.reg[q] = reg[q]
<1> DEFINE a == AsgnRegOrStack(Here, x)
<1>1. IInv /\ Base(Here) /\ Here.im = im /\ Here.used = used /\ Here.reg = reg
  BY HereBase DEF Sound
<1>2. r \in Regs /\ (tk[x].kind = "reg" => r = tk[x].at)
  BY ArgRegFacts
<1>3. /\ Base(a) /\ a.im = im /\ a.reg = reg /\ a.used = used \cup {r}
  <2>1. a = Take(Here, r)
    BY DEF AsgnRegOrStack
  <2> HIDE DEF a
  <2> QED BY <1>1, <1>2, <2>1, TakeEffect
<1>4. p = MovArgToReg(a, x, r)
  OBVIOUS
<1> HIDE DEF a
<1>5. /\ Base(p) /\ p.im = a.im /\ p.used = a.used
      /\ (tk[x].kind = "reg" => p = a)
      /\ (tk[x].kind # "reg" => p.reg[r] = x)
  BY <1>2, <1>3, <1>4, MovArgEffect
<1>6. \A q \in Regs : q # r => p.reg[q] = a.reg[q]
  BY <1>2, <1>3, <1>4, MovArgOthers
<1>7. tk[x].kind = "reg" => reg[r] = x
  BY <1>2, InRegFacts
<1> QED BY <1>2, <1>3, <1>5, <1>6, <1>7

LEMMA FirstStk ==
  ASSUME Sound, NEW x \in 1..N, NoReg = ArgReg(Here, x),
         NEW p, p = MovArgToReg(AsgnRegOrStack(Here, x), x, RAX)
  PROVE  /\ Base(p) /\ p.im = im + 2 /\ p.used = used /\ Regs \subseteq used
         /\ Word(p, im + 2) = reg[RAX] /\ tk[x].kind # "reg"
         /\ p.reg[RAX] = x /\ \A q \in Regs : q # RAX => p.reg[q] = reg[q]
<1> DEFINE a == AsgnRegOrStack(Here, x)
<1>1. /\ IInv /\ Base(Here) /\ Here.im = im /\ Here.used = used /\ Here.reg = reg
      /\ RAX \in Regs
  BY HereBase, Consts DEF Sound
<1>2. tk[x].kind # "reg" /\ Regs \subseteq used
  BY <1>1, ArgRegFacts, NextFacts
<1>3. /\ Base(a) /\ a.im = im + 2 /\ a.reg = reg /\ a.used = used
      /\ Word(a, im + 2) = reg[RAX]
  <2>1. a = Push(Push(Here, RAX), RAX)
    BY DEF AsgnRegOrStack
  <2> HIDE DEF a
  <2> QED BY <1>1, <2>1, PushTwiceEffect
<1>4. p = MovArgToReg(a, x, RAX)
  OBVIOUS
<1> HIDE DEF a
<1>5. /\ Base(p) /\ p.im = a.im /\ p.used = a.used /\ p.stack = a.stack
      /\ p.reg[RAX] = x
  BY <1>1, <1>2, <1>3, <1>4, MovArgEffect
<1>6. \A q \in Regs : q # RAX => p.reg[q] = a.reg[q]
  BY <1>1, <1>3, <1>4, MovArgOthers
<1> QED BY <1>2, <1>3, <1>5, <1>6 DEF Word
----------------------------------------------------------------------------
(* One lemma for each operator: if no operand was lost before and the      *)
(* emission is not one of those known to be wrong, none is lost after it.  *)
LEMMA UnaryKept == ASSUME Sound, Unary PROVE ValuesKept'
<1> DEFINE r == ArgReg(Here, N)
           m == MovArgToReg(AsgnRegOrStack(Here, N), N, OrElse(r, RAX))
           c == Compute(m, OrElse(r, RAX), N, OrElse(r, RAX), N)
<1>1. Deliver(c, r, N) /\ N >= 1
  BY DEF Unary, Ready
<1>2. IInv /\ N \in Nat /\ N \in 1..N
  BY <1>1, HereGood DEF Sound
<1>3. \A q \in Live(N) : q \in Regs /\ q \in used /\ q # r
  <2>1. N \in N..N /\ used \subseteq Here.used
    BY <1>2, HereBase
  <2> QED BY <1>2, <2>1, LiveFacts, LiveNotArg
<1>4. /\ m = MovArgToReg(AsgnRegOrStack(Here, N), N, OrElse(r, RAX))
      /\ c = Compute(m, OrElse(r, RAX), N, OrElse(r, RAX), N)
      /\ r = ArgReg(Here, N)
  OBVIOUS
<1> HIDE DEF r, m, c
<1>5. CASE r # NoReg
  <2>1. OrElse(r, RAX) = r
    BY <1>5 DEF OrElse
  <2>2. /\ r \in Regs /\ Base(m) /\ m.used = used \cup {r}
        /\ m.reg[r] = N /\ \A q \in Regs : q # r => m.reg[q] = reg[q]
    BY <1>2, <1>4, <1>5, <2>1, FirstReg
  <2>3. /\ Base(c) /\ c.used = m.used /\ c.reg[r] = Result
        /\ \A q \in Regs : q # r => c.reg[q] = m.reg[q]
    BY <1>2, <1>4, <2>1, <2>2, ComputeEffect
  <2>4. Spares(c, N)
    BY <1>3, <2>2, <2>3 DEF Spares
  <2>5. r \in c.used
    BY <2>2, <2>3
  <2> QED BY <1>1, <1>2, <2>2, <2>3, <2>4, <2>5, DeliverReg
<1>6. CASE r = NoReg
  <2>1. OrElse(r, RAX) = RAX /\ RAX \in Regs
    BY <1>6, Consts DEF OrElse
  <2>2. /\ Base(m) /\ m.im = im + 2 /\ m.used = used /\ m.reg[RAX] = N
        /\ Word(m, im + 2) = reg[RAX]
        /\ \A q \in Regs : q # RAX => m.reg[q] = reg[q]
    <3>1. m = MovArgToReg(AsgnRegOrStack(Here, N), N, RAX) /\ NoReg = ArgReg(Here, N)
      BY <1>4, <1>6, <2>1
    <3> QED BY <1>2, <3>1, FirstStk
  <2>3. /\ Base(c) /\ c.im = m.im /\ c.used = m.used /\ c.reg[RAX] = Result
        /\ \A q \in Regs : q # RAX => c.reg[q] = m.reg[q]
        /\ \A k : Word(c, k) = Word(m, k)
    BY <1>2, <1>4, <2>1, <2>2, ComputeEffect
  <2>4. /\ c.im = im + 2 /\ Word(c, im + 2) = reg[RAX]
        /\ \A q \in Live(N) : q \in c.used /\ (q # RAX => c.reg[q] = reg[q])
    BY <1>3, <2>2, <2>3
  <2> QED BY <1>1, <1>2, <1>6, <2>3, <2>4, DeliverStk
<1> QED BY <1>5, <1>6

LEMMA PushAtomKept == ASSUME Sound, NEW k \in AtomKinds, PushAtom(k) PROVE ValuesKept'
<1>1. /\ N \in Nat /\ N < MaxTks /\ im \in Nat /\ im <= MaxIm
      /\ tk \in Seq(PlacedSet(im)) /\ tk' = Append(tk, Atom(k))
      /\ used' = used /\ im' = im /\ reg' = reg /\ stack' = stack
  BY HereGood DEF Sound, IInv, PushAtom
<1>2. Atom(k) \in PlacedSet(im)
  <2>1. Placed(Atom(k), im)
    BY DEF Placed, Atom
  <2> QED BY <1>1, <2>1, PlacedTyped
<1>3. N' = N + 1 /\ tk'[N + 1] = Atom(k) /\ \A i \in 1..N : tk'[i] = tk[i]
  BY <1>1, <1>2, AppendProperties DEF N
<1>4. ASSUME NEW i \in 1..N PROVE Kept(i)'
  <2>1. tk'[i] = tk[i] /\ Kept(i)
    BY <1>3 DEF Sound, ValuesKept
  <2>2. Placed(tk[i], im)
    BY Places DEF Sound
  <2> QED BY <1>1, <2>1, <2>2 DEF Kept, Placed, AtomKinds, Slot
<1>5. ASSUME NEW i, i = N + 1 PROVE Kept(i)'
  <2>1. tk'[i].kind \in AtomKinds
    BY <1>3, <1>5 DEF Atom
  <2> QED BY <2>1 DEF Kept, AtomKinds
<1>6. ASSUME NEW i \in 1..N' PROVE Kept(i)'
  <2>1. i = N + 1 \/ i \in 1..N
    BY <1>1, <1>3
  <2> QED BY <2>1, <1>4, <1>5
<1> QED BY <1>6 DEF ValuesKept

LEMMA LitKept ==
  ASSUME Sound, NEW n \in 1..N, Finish(Here, n, Atom("lit"))
  PROVE  ValuesKept'
<1>1. Base(Here) /\ Here.used = used /\ Here.reg = reg
  BY HereBase DEF Sound
<1> DEFINE h == Here
           t == Atom("lit")
<1>2. Base(h) /\ Finish(h, n, t) /\ Placed(t, h.im) /\ Holds(h, t)
  BY <1>1 DEF Placed, Holds, Atom, AtomKinds
<1>3. Spares(h, n)
  BY <1>1, LiveFacts DEF Spares
<1> HIDE DEF h, t
<1> QED BY <1>2, <1>3, FinishKept

LEMMA FoldKept == ASSUME Sound, NEW k \in 1..2, Fold(k) PROVE ValuesKept'
<1>1. N \in Nat /\ N >= k
  BY HereGood DEF Sound, Fold, Ready
<1>2. N - k + 1 \in 1..N /\ Finish(Here, N - k + 1, Atom("lit"))
  BY <1>1 DEF Fold
<1> QED BY <1>2, LitKept

LEMMA TimesZeroKept == ASSUME Sound, TimesZero PROVE ValuesKept'
<1>1. N \in Nat /\ N >= 2
  BY HereGood DEF Sound, TimesZero, OneLit, Ready
<1>2. N - 1 \in 1..N /\ Finish(Here, N - 1, Atom("lit"))
  BY <1>1 DEF TimesZero
<1> QED BY <1>2, LitKept

LEMMA EndExpKept == ASSUME EndExp PROVE ValuesKept'
<1>1. tk' = <<>>
  BY DEF EndExp
<1>2. N' = 0
  BY <1>1 DEF N
<1> QED BY <1>2 DEF ValuesKept
LEMMA TimesOneKept == ASSUME Sound, TimesOne PROVE ValuesKept'
<1> DEFINE x == NonLit
           is(v) == IF v = x THEN Result ELSE v
           r2 == [r \in Regs |-> is(reg[r])]
           s2 == [k \in 1..Len(stack) |-> is(stack[k])]
           m == [used |-> used, im |-> im, reg |-> r2, stack |-> s2]
           t == tk[x]
<1>1. Finish(m, N - 1, t) /\ N >= 2
  BY DEF TimesOne, OneLit, Ready
<1>2. /\ IInv /\ N \in Nat /\ im \in Nat
      /\ used \in SUBSET Regs /\ reg \in [Regs -> Values] /\ stack \in Seq(Values)
      /\ Len(stack) = Vars + im
      /\ Outer = 0 => \A k \in 1..Vars : stack[k] = Variable
  BY HereGood DEF Sound, Good, Machines, Here
<1>3. x \in 1..N /\ N - 1 \in 1..N /\ (x = N - 1 \/ x = N)
  BY <1>1, <1>2 DEF NonLit
<1>4. x # Variable /\ Placed(t, im)
  BY <1>2, <1>3, Places, Consts DEF Variable
<1>5. /\ tk[x].kind = "reg" => t.at \in Regs /\ t.at \in used /\ reg[t.at] = x
      /\ tk[x].kind = "stk" => t.at \in 1..im /\ stack[Slot(t.at)] = x
  BY <1>3, InRegFacts, OnStackFacts
<1>6. \A i \in 1..(N - 1 - 1) : i \in 1..N /\ i # x
  BY <1>2, <1>3
<1> HIDE DEF x
<1>7. r2 \in [Regs -> Values] /\ \A r \in Regs : r2[r] = is(reg[r])
  BY <1>2, Consts
<1>8. /\ s2 \in Seq(Values) /\ Len(s2) = Len(stack)
      /\ \A k \in 1..im : s2[Slot(k)] = is(stack[Slot(k)])
  <2>1. Len(stack) \in Nat /\ \A i \in 1..Len(stack) : stack[i] \in Values
    BY <1>2, LenProperties, ElementOfSeq
  <2>2. s2 \in [1..Len(stack) -> Values]
    BY <2>1, Consts
  <2>3. \A k \in 1..im : Slot(k) \in 1..Len(stack)
    BY <1>2, SlotIndex
  <2>4. \A k \in 1..im : s2[Slot(k)] = is(stack[Slot(k)])
    BY <2>3
  <2> HIDE DEF s2
  <2>5. s2 \in Seq(Values) /\ Len(s2) = Len(stack)
    BY <2>1, <2>2
  <2> QED BY <2>4, <2>5
<1>9. ASSUME Outer = 0 PROVE \A k \in 1..Vars : s2[k] = Variable
  <2> SUFFICES ASSUME NEW k \in 1..Vars PROVE s2[k] = Variable
    OBVIOUS
  <2>1. k \in 1..Len(stack) /\ stack[k] = Variable
    BY <1>2, <1>9, Consts
  <2> QED BY <2>1, <1>4
<1> HIDE DEF r2, s2
<1>10. /\ m.used = used /\ m.im = im /\ m.reg = r2 /\ m.stack = s2
       /\ m \in Machines
  BY <1>2, <1>7, <1>8 DEF Machines
<1>11. Good(m)
  BY <1>2, <1>8, <1>9, <1>10 DEF Good
<1>12. Holds(m, t)
  <2>1. CASE tk[x].kind = "reg"
    BY <1>5, <1>7, <1>10, <2>1 DEF Holds
  <2>2. CASE tk[x].kind = "stk"
    BY <1>5, <1>8, <1>10, <2>2 DEF Holds
  <2> QED BY <2>1, <2>2 DEF Holds
<1> HIDE DEF m, t
<1>13. Spares(m, N - 1)
  <2> SUFFICES ASSUME NEW q \in Live(N - 1) PROVE q \in m.used /\ m.reg[q] = reg[q]
    BY DEF Spares
  <2>1. PICK i \in 1..(N - 1 - 1) : tk[i].kind = "reg" /\ tk[i].at = q
    BY DEF Live, InReg
  <2>2. q \in Regs /\ q \in used /\ reg[q] = i /\ i # x
    BY <1>6, <2>1, InRegFacts
  <2> QED BY <1>7, <1>10, <2>2
<1>14. ASSUME NEW i \in 1..(N - 1 - 1), tk[i].kind = "stk"
       PROVE  m.stack[Slot(tk[i].at)] = i
  <2>1. tk[i].at \in 1..im /\ stack[Slot(tk[i].at)] = i /\ i # x
    BY <1>6, <1>14, OnStackFacts
  <2> QED BY <1>8, <1>10, <2>1
<1>15. m.im >= im /\ Placed(t, m.im)
  BY <1>2, <1>4, <1>10
<1> QED BY <1>1, <1>3, <1>11, <1>12, <1>13, <1>14, <1>15, FinishAny
LEMMA NonLitBinaryKept ==
  ASSUME Sound, N >= 2, NEW x \in (N - 1)..N, NEW y \in (N - 1)..N,
         NonLitBinary(x, y), cause' = "none"
  PROVE  ValuesKept'
<1> DEFINE regL == ArgReg(Here, x)
           l == OrElse(regL, RAX)
           m1 == MovArgToReg(AsgnRegOrStack(Here, x), x, l)
           regR == ArgReg(m1, y)
           s == IF regL = RDX THEN RCX ELSE RDX
           r == OrElse(regR, s)
           m2 == AsgnRegOrStack(m1, y)
           m3 == IF regR = NoReg THEN Push(m2, s) ELSE m2
           mv == MovArgToReg(m3, y, r)
           m4 == Compute(mv, l, x, r, y)
           m5 == IF regR = NoReg THEN Pop(m4, s) ELSE Free(m4, regR)
<1>1. Deliver(m5, regL, N - 1)
  BY DEF NonLitBinary, PushIf, PopOrFree
<1>2. /\ ~(regL = NoReg /\ regR \in {NoReg, RAX})
      /\ ~(x = y /\ tk[x].kind = "reg")
  <2>1. IF regL = NoReg /\ regR \in {NoReg, RAX} THEN Blame(TRUE, "full")
        ELSE Blame(x = y /\ tk[x].kind = "reg", "double")
    BY DEF NonLitBinary, PushIf, PopOrFree
  <2> HIDE DEF regL, regR
  <2>2. \A wrong : Blame(wrong, "full") /\ wrong => FALSE
    BY DEF Blame
  <2>3. \A wrong : Blame(wrong, "double") /\ wrong => FALSE
    BY DEF Blame
  <2> QED BY <2>1, <2>2, <2>3
<1>3. /\ IInv /\ N \in Nat /\ im \in Nat /\ N - 1 \in 1..N /\ x \in 1..N /\ y \in 1..N
      /\ Here.used = used /\ used \subseteq Regs
      /\ RAX \in Regs /\ RCX \in Regs /\ RDX \in Regs /\ RAX # RCX /\ RAX # RDX
      /\ RCX # RDX /\ NoReg \notin Regs
  <2>1. RAX # RCX /\ RAX # RDX /\ RCX # RDX
    BY DEF RAX, RCX, RDX
  <2> QED BY <2>1, HereBase, Consts DEF Sound
<1>4. regL \in Regs \cup {NoReg} /\ regR \in Regs \cup {NoReg}
      /\ (tk[y].kind = "reg" => regR = tk[y].at /\ regR \in used /\ reg[regR] = y
                                /\ regR # NoReg)
      /\ (tk[y].kind # "reg" => regR = NextIMRegister(m1.used))
      /\ (tk[x].kind = "reg" => regL = tk[x].at /\ regL \in used /\ reg[regL] = x)
      /\ (tk[x].kind # "reg" => regL = NextIMRegister(used))
  BY <1>3, ArgRegFacts, InRegFacts
<1>5. used \subseteq m1.used =>
        \A q \in Live(N - 1) : q \in Regs /\ q \in used /\ q # regL /\ q # regR
  BY <1>3, LiveFacts, LiveNotArg
<1>6. /\ m1 = MovArgToReg(AsgnRegOrStack(Here, x), x, l)
      /\ m2 = IF regR # NoReg THEN Take(m1, regR) ELSE Push(Push(m1, RAX), RAX)
      /\ m3 = IF regR = NoReg THEN Push(m2, s) ELSE m2
      /\ mv = MovArgToReg(m3, y, r)
      /\ m4 = Compute(mv, l, x, r, y)
      /\ m5 = IF regR = NoReg THEN Pop(m4, s) ELSE Free(m4, regR)
      /\ regL = ArgReg(Here, x) /\ l = OrElse(regL, RAX) /\ r = OrElse(regR, s)
      /\ s = IF regL = RDX THEN RCX ELSE RDX
  BY DEF AsgnRegOrStack
<1>9. IInv
  BY DEF Sound
<1>10. x \in 1..N /\ y \in 1..N
  BY <1>3
<1>11. mv = MovArgToReg(m3, y, r)
  OBVIOUS
<1>12. m4 = Compute(mv, l, x, r, y)
  OBVIOUS
<1> HIDE DEF regL, l, m1, regR, s, r, m2, m3, mv, m4, m5
<1>7. CASE regL # NoReg
  <2>1. l = regL /\ regL \in Regs
    BY <1>4, <1>6, <1>7 DEF OrElse
  <2>2. /\ Base(m1) /\ m1.im = im /\ m1.used = used \cup {regL}
        /\ m1.reg[regL] = x /\ \A q \in Regs : q # regL => m1.reg[q] = reg[q]
    BY <1>3, <1>6, <1>7, <2>1, FirstReg
  <2>3. CASE regR # NoReg
    <3>1. r = regR /\ regR \in Regs /\ regR # regL
      <4>1. r = regR /\ regR \in Regs
        BY <1>4, <1>6, <2>3 DEF OrElse
      <4>2. ASSUME tk[y].kind = "reg", tk[x].kind = "reg" PROVE regR # regL
        <5>1. x # y
          BY <1>2, <4>2
        <5>2. tk[x].at # tk[y].at
          BY <1>10, <4>2, <5>1, Apart
        <5> QED BY <1>4, <4>2, <5>2
      <4>3. ASSUME tk[y].kind = "reg", tk[x].kind # "reg" PROVE regR # regL
        <5>1. regL \notin used
          BY <1>4, <1>7, <4>3, NextFacts
        <5> QED BY <1>4, <4>3, <5>1
      <4>4. ASSUME tk[y].kind # "reg" PROVE regR # regL
        <5>1. regR \notin m1.used
          BY <1>4, <2>3, <4>4, NextFacts
        <5> QED BY <2>2, <5>1
      <4> QED BY <4>1, <4>2, <4>3, <4>4
    <3>2. /\ Base(m3) /\ m3.used = m1.used \cup {regR} /\ m3.reg = m1.reg
      <4>1. m3 = Take(m1, regR)
        BY <1>6, <2>3
      <4>2. /\ Base(m3) /\ m3.used = m1.used \cup ({regR} \ {NoReg})
            /\ m3.reg = m1.reg
        BY <1>9, <2>2, <3>1, <4>1, TakeEffect
      <4> QED BY <2>3, <4>2
    <3>3. /\ Base(mv) /\ mv.used = m3.used
          /\ (tk[y].kind = "reg" => mv = m3)
          /\ (tk[y].kind # "reg" => mv.reg[regR] = y)
      BY <1>10, <1>11, <3>1, <3>2, MovArgEffect
    <3>4. \A q \in Regs : q # regR => mv.reg[q] = m3.reg[q]
      BY <1>10, <1>11, <3>1, <3>2, MovArgOthers
    <3>5. mv.reg[regR] = y /\ mv.reg[l] = x
      BY <1>4, <2>1, <2>2, <3>1, <3>2, <3>3, <3>4
    <3>6. /\ Base(m4) /\ m4.used = mv.used /\ m4.reg[l] = Result
          /\ \A q \in Regs : q # l => m4.reg[q] = mv.reg[q]
      BY <1>3, <1>6, <2>1, <3>1, <3>3, <3>5, ComputeEffect
    <3>7. /\ Base(m5) /\ m5.used = m4.used \ {regR} /\ m5.reg = m4.reg
      <4>1. m5 = Free(m4, regR)
        BY <1>6, <2>3
      <4> QED BY <1>3, <3>6, <4>1, FreeEffect
    <3>8. Spares(m5, N - 1)
      <4> SUFFICES ASSUME NEW q \in Live(N - 1) PROVE q \in m5.used /\ m5.reg[q] = reg[q]
        BY DEF Spares
      <4>1. q \in Regs /\ q \in used /\ q # regL /\ q # regR
        BY <1>5, <2>2
      <4>2. q \in m5.used
        BY <2>2, <3>2, <3>3, <3>6, <3>7, <4>1
      <4>3. m5.reg[q] = reg[q]
        BY <2>1, <2>2, <3>2, <3>4, <3>6, <3>7, <4>1
      <4> QED BY <4>2, <4>3
    <3>9. regL \in m5.used /\ m5.reg[regL] = Result
      BY <2>1, <2>2, <3>1, <3>2, <3>3, <3>6, <3>7
    <3> QED BY <1>1, <1>3, <2>1, <3>7, <3>8, <3>9, DeliverReg
  <2>4. CASE regR = NoReg
    <3>1. r = s /\ s \in Regs /\ s # regL /\ tk[y].kind # "reg"
      BY <1>3, <1>4, <1>6, <2>4 DEF OrElse
    <3>2. /\ Base(m2) /\ m2.im = im + 2 /\ m2.used = m1.used /\ m2.reg = m1.reg
      <4>1. m2 = Push(Push(m1, RAX), RAX)
        BY <1>6, <2>4
      <4> QED BY <1>3, <2>2, <4>1, PushTwiceEffect
    <3>3. /\ Base(m3) /\ m3.im = im + 3 /\ m3.used = m1.used /\ m3.reg = m1.reg
          /\ Word(m3, im + 3) = m1.reg[s]
      <4>1. m3 = Push(m2, s)
        BY <1>6, <2>4
      <4>2. /\ Base(m3) /\ m3.im = m2.im + 1 /\ m3.used = m2.used /\ m3.reg = m2.reg
            /\ Word(m3, m2.im + 1) = m2.reg[s]
        BY <1>9, <3>1, <3>2, <4>1, PushEffect
      <4>3. m2.im + 1 = im + 3
        BY <1>3, <3>2
      <4> QED BY <3>2, <4>2, <4>3
    <3>4. /\ Base(mv) /\ mv.used = m3.used /\ mv.im = m3.im /\ mv.stack = m3.stack
          /\ mv.reg[s] = y
      BY <1>10, <1>11, <3>1, <3>3, MovArgEffect
    <3>5. \A q \in Regs : q # s => mv.reg[q] = m3.reg[q]
      BY <1>10, <1>11, <3>1, <3>3, MovArgOthers
    <3>6. mv.reg[r] = y /\ mv.reg[l] = x
      BY <2>1, <2>2, <3>1, <3>3, <3>4, <3>5
    <3>7. /\ Base(m4) /\ m4.used = mv.used /\ m4.im = mv.im /\ m4.stack = mv.stack
          /\ m4.reg[l] = Result
          /\ \A q \in Regs : q # l => m4.reg[q] = mv.reg[q]
      <4>1. m4 = Compute(mv, l, x, r, y) /\ l \in Regs /\ Base(mv)
        BY <1>12, <2>1, <3>4
      <4> QED BY <1>9, <3>6, <4>1, ComputeEffect
    <3>8. /\ Base(m5) /\ m5.used = m4.used
          /\ m5.reg[s] = Word(m4, m4.im)
          /\ \A q \in Regs : q # s => m5.reg[q] = m4.reg[q]
      <4>1. m5 = Pop(m4, s) /\ m4.im > im
        BY <1>3, <1>6, <2>4, <3>3, <3>4, <3>7
      <4> QED BY <1>3, <3>1, <3>7, <4>1, PopEffect
    <3>9. m5.reg[s] = m1.reg[s]
      BY <3>3, <3>4, <3>7, <3>8 DEF Word
    <3>10. Spares(m5, N - 1)
      <4> SUFFICES ASSUME NEW q \in Live(N - 1) PROVE q \in m5.used /\ m5.reg[q] = reg[q]
        BY DEF Spares
      <4>1. q \in Regs /\ q \in used /\ q # regL
        BY <1>5, <2>2
      <4>2. q \in m5.used
        BY <2>2, <3>3, <3>4, <3>7, <3>8, <4>1
      <4>3. m5.reg[q] = reg[q]
        BY <2>1, <2>2, <3>3, <3>5, <3>7, <3>8, <3>9, <4>1
      <4> QED BY <4>2, <4>3
    <3>11. regL \in m5.used /\ m5.reg[regL] = Result
      BY <2>1, <2>2, <3>1, <3>3, <3>4, <3>7, <3>8
    <3> QED BY <1>1, <1>3, <2>1, <3>8, <3>10, <3>11, DeliverReg
  <2> QED BY <2>3, <2>4
<1>8. CASE regL = NoReg
  <2>1. l = RAX /\ regR # NoReg /\ regR # RAX /\ regR \in Regs /\ r = regR
    BY <1>2, <1>4, <1>6, <1>8 DEF OrElse
  <2>2. /\ Base(m1) /\ m1.im = im + 2 /\ m1.used = used /\ Regs \subseteq used
        /\ Word(m1, im + 2) = reg[RAX] /\ m1.reg[RAX] = x
        /\ \A q \in Regs : q # RAX => m1.reg[q] = reg[q]
    <3>1. m1 = MovArgToReg(AsgnRegOrStack(Here, x), x, RAX) /\ NoReg = ArgReg(Here, x)
      BY <1>6, <1>8, <2>1
    <3> QED BY <1>3, <3>1, FirstStk
  <2>3. tk[y].kind = "reg"
    BY <1>4, <2>1, <2>2, NextFacts
  <2>4. /\ Base(m3) /\ m3.im = m1.im /\ m3.used = used /\ m3.reg = m1.reg
        /\ m3.stack = m1.stack
    <3>1. m3 = Take(m1, regR)
      BY <1>6, <2>1
    <3>2. /\ Base(m3) /\ m3.im = m1.im /\ m3.used = m1.used \cup ({regR} \ {NoReg})
          /\ m3.reg = m1.reg /\ m3.stack = m1.stack
      BY <1>9, <2>1, <2>2, <3>1, TakeEffect
    <3> QED BY <2>1, <2>2, <3>2
  <2>5. mv = m3
    BY <1>6, <2>3 DEF MovArgToReg
  <2>6. mv.reg[l] = x /\ mv.reg[r] = y
    BY <1>4, <2>1, <2>2, <2>3, <2>4, <2>5
  <2>7. /\ Base(m4) /\ m4.used = used /\ m4.im = m3.im /\ m4.stack = m3.stack
        /\ m4.reg[RAX] = Result
        /\ \A q \in Regs : q # RAX => m4.reg[q] = m3.reg[q]
    BY <1>3, <1>6, <2>1, <2>4, <2>5, <2>6, ComputeEffect
  <2>8. /\ Base(m5) /\ m5.used = m4.used \ {regR} /\ m5.reg = m4.reg
        /\ m5.im = m4.im /\ m5.stack = m4.stack
    <3>1. m5 = Free(m4, regR)
      BY <1>6, <2>1
    <3> QED BY <1>3, <2>7, <3>1, FreeEffect
  <2>9. m5.im = im + 2 /\ Word(m5, im + 2) = reg[RAX] /\ m5.reg[RAX] = Result
    BY <2>2, <2>4, <2>7, <2>8 DEF Word
  <2>10. ASSUME NEW q \in Live(N - 1)
         PROVE  q \in m5.used /\ (q # RAX => m5.reg[q] = reg[q])
    <3>1. q \in Regs /\ q \in used /\ q # regR
      BY <1>5, <2>2
    <3> QED BY <2>2, <2>4, <2>7, <2>8, <3>1
  <2> QED BY <1>1, <1>3, <1>8, <2>8, <2>9, <2>10, DeliverStk
<1> QED BY <1>7, <1>8

LEMMA BinaryKept == ASSUME Sound, Binary, cause' = "none" PROVE ValuesKept'
<1>1. N \in Nat /\ N >= 2 /\ NonLitBinary(N - 1, N)
  BY HereGood DEF Sound, Binary, Ready
<1>2. N - 1 \in (N - 1)..N /\ N \in (N - 1)..N
  BY <1>1
<1> QED BY <1>1, <1>2, NonLitBinaryKept

LEMMA TimesTwoKept == ASSUME Sound, TimesTwo, cause' = "none" PROVE ValuesKept'
<1>1. N \in Nat /\ N >= 2 /\ NonLitBinary(NonLit, NonLit)
  BY HereGood DEF Sound, TimesTwo, OneLit, Ready
<1>2. NonLit \in (N - 1)..N
  BY <1>1 DEF NonLit
<1> QED BY <1>1, <1>2, NonLitBinaryKept
(* The left operand of a shift, moved where RCX is left for the count.     *)
LEMMA ShiftRegFacts ==
  ASSUME Sound, N >= 2, NEW a, a = ArgReg(Here, N - 1), NEW r, r = ShiftReg
  PROVE  /\ IInv /\ N \in Nat /\ N - 1 \in 1..N /\ N \in 1..N
         /\ a \in Regs \cup {NoReg} /\ r \in Regs \cup {NoReg} /\ r # RCX
         /\ a # RCX => r = a
         /\ a = RCX => r \notin used /\ (r = NoReg => Regs \subseteq used \cup {RCX})
         /\ tk[N - 1].kind = "reg" => a = tk[N - 1].at /\ a \in Regs /\ a \in used /\ reg[a] = N - 1
         /\ tk[N - 1].kind # "reg" => a = NextIMRegister(used)
<1>1. IInv /\ N \in Nat /\ Here.used = used /\ used \subseteq Regs
  BY HereBase DEF Sound
<1>2. N - 1 \in 1..N /\ N \in 1..N
  BY <1>1
<1>3. /\ a \in Regs \cup {NoReg}
      /\ tk[N - 1].kind = "reg" => a = tk[N - 1].at /\ a \in Regs /\ a \in used /\ reg[a] = N - 1
      /\ tk[N - 1].kind # "reg" => a = NextIMRegister(used)
  BY <1>1, <1>2, ArgRegFacts, InRegFacts
<1>4. a # RCX => r = a
  BY DEF ShiftReg
<1>5. ASSUME a = RCX
      PROVE  /\ r \in Regs \cup {NoReg} /\ r # RCX /\ r \notin used
             /\ r = NoReg => Regs \subseteq used \cup {RCX}
  <2>1. r = NextIMRegister(used \cup {RCX})
    BY <1>5 DEF ShiftReg
  <2>2. /\ r \in Regs \cup {NoReg}
        /\ r # NoReg => r \notin used \cup {RCX}
        /\ r = NoReg => Regs \subseteq used \cup {RCX}
    BY <2>1, NextFacts
  <2> QED BY <1>1, <2>2, Consts
<1> QED BY <1>1, <1>2, <1>3, <1>4, <1>5

LEMMA ShiftLhsReg ==
  ASSUME Sound, N >= 2, NEW r, r = ShiftReg, r # NoReg, NEW p, p = ShiftLhs
  PROVE  /\ r \in Regs /\ r # RCX /\ Base(p) /\ p.im = im /\ r \in p.used
         /\ p.reg[r] = N - 1 /\ \A q \in Regs : q # r => p.reg[q] = reg[q]
         /\ \A q \in used : q # ArgReg(Here, N - 1) => q \in p.used /\ q # r
<1> DEFINE a == ArgReg(Here, N - 1)
           m1 == Take(Here, a)
           mt == Take(m1, r)
           m2 == IF a = RCX THEN Free(mt, RCX) ELSE m1
           m3 == IF InReg(N - 1, RCX) THEN Mov(m2, r, m2.reg[RCX]) ELSE m2
           i == N - 1
<1>1. p = MovArgToReg(m3, i, r)
  BY DEF ShiftLhs, MovReg, OrElse
<1>2. /\ IInv /\ i \in 1..N
      /\ a \in Regs \cup {NoReg} /\ r \in Regs /\ r # RCX
      /\ a # RCX => r = a
      /\ a = RCX => r \notin used
      /\ tk[i].kind = "reg" => a = tk[i].at /\ a \in Regs /\ a \in used /\ reg[a] = i
  BY ShiftRegFacts
<1>3. Base(Here) /\ Here.im = im /\ Here.used = used /\ Here.reg = reg /\ used \subseteq Regs
  BY <1>2, HereBase
<1>6. IInv
  BY DEF Sound
<1>7. i \in 1..N /\ r \in Regs
  BY <1>2
<1>4. CASE a # RCX
  <2>1. r = a /\ ~InReg(i, RCX)
    BY <1>2, <1>4 DEF InReg
  <2>2. m3 = Take(Here, r) /\ AsgnRegOrStack(Here, i) = Take(Here, r)
    BY <1>4, <2>1 DEF AsgnRegOrStack
  <2> HIDE DEF a, m3
  <2>3. r = ArgReg(Here, i) /\ p = MovArgToReg(AsgnRegOrStack(Here, i), i, r)
    BY <1>1, <2>1, <2>2 DEF a
  <2> HIDE DEF i
  <2>4. /\ Base(p) /\ p.im = im /\ p.used = used \cup {r}
        /\ p.reg[r] = i /\ \A q \in Regs : q # r => p.reg[q] = reg[q]
    BY <1>2, <2>3, FirstReg
  <2>5. \A q \in used : q # a => q \in p.used /\ q # r
    BY <2>1, <2>4
  <2>6. r \in p.used
    BY <2>4
  <2> QED BY <1>2, <2>4, <2>5, <2>6 DEF a, i
<1>5. CASE a = RCX
  <2>1. m1 = Take(Here, RCX) /\ m2 = Free(mt, RCX) /\ RCX \in Regs
    BY <1>5, Consts
  <2>2. mt = Take(m1, r) /\ m3 = IF InReg(i, RCX) THEN Mov(m2, r, m2.reg[RCX]) ELSE m2
    OBVIOUS
  <2> HIDE DEF m1, mt, m2, m3
  <2>3. Base(m1) /\ m1.im = im /\ m1.reg = reg /\ m1.used = used \cup ({RCX} \ {NoReg})
    <3>1. RCX \in Regs \cup {NoReg} /\ m1 = Take(Here, RCX)
      BY <2>1
    <3>2. /\ Base(m1) /\ m1.im = Here.im /\ m1.reg = Here.reg
          /\ m1.used = Here.used \cup ({RCX} \ {NoReg})
      BY <1>3, <1>6, <3>1, TakeEffect
    <3> QED BY <1>3, <3>2
  <2>4. Base(mt) /\ mt.im = im /\ mt.reg = reg /\ mt.used = m1.used \cup ({r} \ {NoReg})
    BY <1>2, <2>2, <2>3, TakeEffect
  <2>5. Base(m2) /\ m2.im = im /\ m2.reg = reg /\ m2.used = mt.used \ {RCX}
    BY <1>2, <2>1, <2>4, FreeEffect
  <2>6. /\ Base(m3) /\ m3.im = im /\ m3.used = m2.used
        /\ \A q \in Regs : q # r => m3.reg[q] = reg[q]
        /\ tk[i].kind = "reg" => m3.reg[r] = i
    <3>1. CASE InReg(i, RCX)
      <4>1. reg[RCX] = i /\ reg[RCX] \in Values
        <5>1. reg[RCX] = i
          BY <1>2, <1>5, <3>1 DEF InReg
        <5>2. reg \in [Regs -> Values]
          BY <1>2, HereBase
        <5> QED BY <2>1, <5>1, <5>2
      <4> DEFINE v == reg[RCX]
      <4>2. m3 = Mov(m2, r, v) /\ v \in Values
        BY <2>2, <2>5, <3>1, <4>1
      <4> HIDE DEF v
      <4>3. /\ Base(m3) /\ m3.im = m2.im /\ m3.used = m2.used /\ m3.reg[r] = v
            /\ \A q \in Regs : q # r => m3.reg[q] = m2.reg[q]
        BY <1>2, <2>5, <4>2, MovEffect
      <4> QED BY <2>5, <4>1, <4>3 DEF v
    <3>2. CASE ~InReg(i, RCX)
      <4>1. tk[i].kind # "reg" /\ m3 = m2
        BY <1>2, <1>5, <2>2, <3>2 DEF InReg
      <4> QED BY <2>5, <4>1
    <3> QED BY <3>1, <3>2
  <2> HIDE DEF i
  <2>7. /\ Base(p) /\ p.im = m3.im /\ p.used = m3.used
        /\ (tk[i].kind = "reg" => p = m3)
        /\ (tk[i].kind # "reg" => p.reg[r] = i)
    BY <1>1, <1>7, <2>6, MovArgEffect
  <2>8. \A q \in Regs : q # r => p.reg[q] = m3.reg[q]
    BY <1>1, <1>7, <2>6, MovArgOthers
  <2>9. r \in p.used /\ \A q \in used : q # a => q \in p.used /\ q # r
    BY <1>2, <1>5, <2>3, <2>4, <2>5, <2>6, <2>7, Consts
  <2>10. p.im = im /\ p.reg[r] = i /\ \A q \in Regs : q # r => p.reg[q] = reg[q]
    BY <2>6, <2>7, <2>8
  <2> QED BY <1>2, <2>7, <2>9, <2>10 DEF i
<1> QED BY <1>4, <1>5

LEMMA ShiftLhsStk ==
  ASSUME Sound, N >= 2, NoReg = ShiftReg, ~NoRegToShiftIn, NEW p, p = ShiftLhs
  PROVE  /\ Base(p) /\ p.im = im + 2 /\ p.used = used
         /\ Regs \subseteq used \cup {RCX} /\ tk[N - 1].kind # "reg"
         /\ Word(p, im + 2) = reg[RAX]
         /\ p.reg[RAX] = N - 1 /\ \A q \in Regs : q # RAX => p.reg[q] = reg[q]
<1> DEFINE a == ArgReg(Here, N - 1)
           m1 == Take(Here, a)
           mt == Take(m1, NoReg)
           m3 == IF a = RCX THEN Free(mt, RCX) ELSE m1
           m4 == Push(Push(m3, RAX), RAX)
           i == N - 1
<1>1. p = MovArgToReg(m4, i, RAX) /\ ~InReg(i, RCX)
  BY DEF ShiftLhs, MovReg, OrElse, NoRegToShiftIn
<1>2. /\ IInv /\ i \in 1..N
      /\ a \in Regs \cup {NoReg}
      /\ a # RCX => NoReg = a
      /\ a = RCX => Regs \subseteq used \cup {RCX}
      /\ tk[i].kind = "reg" => a = tk[i].at /\ a \in Regs
      /\ tk[i].kind # "reg" => a = NextIMRegister(used)
  BY ShiftRegFacts
<1>3. /\ Base(Here) /\ Here.im = im /\ Here.used = used /\ Here.reg = reg
      /\ im \in Nat /\ RAX \in Regs /\ RCX \in Regs /\ NoReg \notin Regs
  BY <1>2, HereBase, Consts
<1>4. tk[i].kind # "reg"
  BY <1>1, <1>2, <1>3 DEF InReg
<1>5. Regs \subseteq used \cup {RCX} /\ (a = RCX => RCX \notin used)
  BY <1>2, <1>3, <1>4, NextFacts
<1>6. /\ m1 = Take(Here, a) /\ mt = Take(m1, NoReg)
      /\ m3 = IF a = RCX THEN Free(mt, RCX) ELSE m1
      /\ m4 = Push(Push(m3, RAX), RAX)
  OBVIOUS
<1> HIDE DEF a, m1, mt, m3, m4, i
<1>7. Base(m1) /\ m1.im = im /\ m1.reg = reg /\ m1.used = used \cup ({a} \ {NoReg})
  BY <1>2, <1>3, <1>6, TakeEffect
<1>8. Base(mt) /\ mt.im = im /\ mt.reg = reg /\ mt.used = m1.used
  <2>1. /\ Base(mt) /\ mt.im = m1.im /\ mt.reg = m1.reg
        /\ mt.used = m1.used \cup ({NoReg} \ {NoReg})
    BY <1>2, <1>6, <1>7, TakeEffect
  <2> QED BY <1>7, <2>1
<1>9. Base(m3) /\ m3.im = im /\ m3.reg = reg /\ m3.used = used
  <2>1. CASE a = RCX
    <3>1. m3 = Free(mt, RCX)
      BY <1>6, <2>1
    <3>2. Base(m3) /\ m3.im = mt.im /\ m3.reg = mt.reg /\ m3.used = mt.used \ {RCX}
      BY <1>2, <1>8, <3>1, FreeEffect
    <3> QED BY <1>5, <1>7, <1>8, <2>1, <3>2
  <2>2. CASE a # RCX
    BY <1>2, <1>6, <1>7, <2>2
  <2> QED BY <2>1, <2>2
<1>10. /\ Base(m4) /\ m4.im = im + 2 /\ m4.used = used /\ m4.reg = reg
       /\ Word(m4, im + 2) = reg[RAX]
  BY <1>2, <1>6, <1>9, PushTwiceEffect
<1>13. i \in 1..N /\ RAX \in Regs
  BY <1>2, <1>3
<1>11. /\ Base(p) /\ p.im = m4.im /\ p.used = m4.used /\ p.stack = m4.stack
       /\ p.reg[RAX] = i
  BY <1>1, <1>4, <1>10, <1>13, MovArgEffect
<1>12. \A q \in Regs : q # RAX => p.reg[q] = m4.reg[q]
  BY <1>1, <1>10, <1>13, MovArgOthers
<1> QED BY <1>4, <1>5, <1>10, <1>11, <1>12 DEF i, Word
LEMMA ShiftByLitKept == ASSUME Sound, ShiftByLit, cause' = "none" PROVE ValuesKept'
<1> DEFINE r == ShiftReg
           p == ShiftLhs
           l == OrElse(r, RAX)
           i == N - 1
           c == Compute(p, l, i, l, i)
<1>1. ~NoRegToShiftIn /\ N >= 2 /\ Deliver(c, r, i)
  BY DEF ShiftByLit, Reject, Ready
<1>2. IInv /\ N \in Nat /\ i \in 1..N /\ i \in i..N /\ RAX \in Regs
  BY <1>1, HereGood, Consts DEF Sound
<1>3. \A q \in Live(i) : q \in Regs /\ q \in used /\ q # ArgReg(Here, i)
  <2>1. used \subseteq Here.used
    BY <1>2, HereBase
  <2> HIDE DEF i
  <2> QED BY <1>2, <2>1, LiveFacts, LiveNotArg
<1>4. c = Compute(p, l, i, l, i) /\ r = ShiftReg /\ p = ShiftLhs /\ l = OrElse(r, RAX)
  OBVIOUS
<1> HIDE DEF r, p, l, c
<1>5. CASE r # NoReg
  <2>1. l = r
    BY <1>4, <1>5 DEF OrElse
  <2>2. /\ r \in Regs /\ Base(p) /\ p.im = im /\ r \in p.used
        /\ p.reg[r] = i /\ \A q \in Regs : q # r => p.reg[q] = reg[q]
        /\ \A q \in used : q # ArgReg(Here, i) => q \in p.used /\ q # r
    BY <1>1, <1>4, <1>5, ShiftLhsReg
  <2> HIDE DEF i
  <2>3. /\ Base(c) /\ c.used = p.used /\ c.reg[r] = Result
        /\ \A q \in Regs : q # r => c.reg[q] = p.reg[q]
    BY <1>2, <1>4, <2>1, <2>2, ComputeEffect
  <2>4. Spares(c, i)
    BY <1>3, <2>2, <2>3 DEF Spares
  <2>5. r \in c.used
    BY <2>2, <2>3
  <2> QED BY <1>1, <1>2, <2>2, <2>3, <2>4, <2>5, DeliverReg
<1>6. CASE r = NoReg
  <2>1. l = RAX
    BY <1>4, <1>6 DEF OrElse
  <2>2. /\ Base(p) /\ p.im = im + 2 /\ p.used = used
        /\ Word(p, im + 2) = reg[RAX]
        /\ p.reg[RAX] = i /\ \A q \in Regs : q # RAX => p.reg[q] = reg[q]
    BY <1>1, <1>4, <1>6, ShiftLhsStk
  <2> HIDE DEF i
  <2>3. /\ Base(c) /\ c.im = p.im /\ c.used = p.used /\ c.reg[RAX] = Result
        /\ \A q \in Regs : q # RAX => c.reg[q] = p.reg[q]
        /\ \A k : Word(c, k) = Word(p, k)
    BY <1>2, <1>4, <2>1, <2>2, ComputeEffect
  <2>4. /\ c.im = im + 2 /\ Word(c, im + 2) = reg[RAX]
        /\ \A q \in Live(i) : q \in c.used /\ (q # RAX => c.reg[q] = reg[q])
    BY <1>3, <2>2, <2>3
  <2> QED BY <1>1, <1>2, <1>6, <2>3, <2>4, DeliverStk
<1> QED BY <1>5, <1>6

(* Before a shift by a value its left operand is in l; the count goes to   *)
(* RCX, and the result is left in l.                                       *)
Shifting(m, l) ==
  /\ Base(m) /\ l \in Regs /\ l # RCX /\ l \in m.used /\ m.reg[l] = N - 1
  /\ \A q \in Regs : q # l => m.reg[q] = reg[q]
  /\ tk[N].kind = "reg" => tk[N].at \in m.used /\ tk[N].at # l
Counted(m, p, l) ==
  /\ Base(p) /\ p.im = m.im /\ p.stack = m.stack /\ p.reg[l] = Result
  /\ \A q \in Regs : q # l /\ q # RCX => p.reg[q] = m.reg[q]
  /\ \A q \in m.used : ~InReg(N, q) => q \in p.used
Shifted(m, p, l) ==
  /\ Base(p) /\ p.im = m.im /\ p.reg[l] = Result
  /\ \A k \in 1..m.im : Word(p, k) = Word(m, k)
  /\ \A q \in m.used : ~InReg(N, q) => q \in p.used /\ (q # l => p.reg[q] = reg[q])

LEMMA CountEffect ==
  ASSUME Sound, N >= 1, NEW m, Base(m), NEW x, NEW l \in Regs, l # RCX,
         m.reg[l] = x, NEW at, at = tk[N].at,
         tk[N].kind = "reg" => at \in Regs /\ at # l /\ m.reg[at] = N,
         NEW a, a = MovArgToReg(m, N, RCX),
         NEW b, b = IF tk[N].kind = "reg" /\ at # RCX
                    THEN Free(MovReg(a, RCX, at), at) ELSE a,
         NEW p, p = Compute(b, l, x, RCX, N)
  PROVE  Counted(m, p, l)
<1>1. IInv
  BY DEF Sound
<1>2. N \in 1..N /\ RCX \in Regs
  BY <1>1, HereGood, Consts
<1>3. /\ Base(a) /\ a.im = m.im /\ a.used = m.used /\ a.stack = m.stack
      /\ (tk[N].kind = "reg" => a = m)
      /\ (tk[N].kind # "reg" => a.reg[RCX] = N)
  <2>1. PICK i : i = N /\ i \in 1..N /\ a = MovArgToReg(m, i, RCX)
    BY <1>2
  <2>2. /\ Base(a) /\ a.im = m.im /\ a.used = m.used /\ a.stack = m.stack
        /\ (tk[i].kind = "reg" => a = m)
        /\ (tk[i].kind # "reg" => a.reg[RCX] = i)
    BY <1>2, <2>1, MovArgEffect
  <2> QED BY <2>1, <2>2
<1>4. \A q \in Regs : q # RCX => a.reg[q] = m.reg[q]
  BY <1>2, MovArgOthers
<1>5. /\ Base(b) /\ b.im = m.im /\ b.stack = m.stack
      /\ b.reg[RCX] = N
      /\ \A q \in Regs : q # RCX => b.reg[q] = m.reg[q]
      /\ \A q \in m.used : (tk[N].kind = "reg" => q # at) => q \in b.used
  <2>1. CASE tk[N].kind = "reg" /\ at # RCX
    <3> DEFINE v == m.reg[at]
               c == Mov(m, RCX, v)
    <3>1. v \in Values
      <4>1. m.reg \in [Regs -> Values]
        BY <1>1, BaseFacts
      <4> QED BY <2>1, <4>1
    <3>2. c = Mov(m, RCX, v) /\ b = Free(c, at)
      BY <1>3, <2>1 DEF MovReg
    <3> HIDE DEF v, c
    <3>3. /\ Base(c) /\ c.im = m.im /\ c.used = m.used /\ c.stack = m.stack
          /\ c.reg[RCX] = v /\ \A q \in Regs : q # RCX => c.reg[q] = m.reg[q]
      BY <1>1, <1>2, <3>1, <3>2, MovEffect
    <3>4. /\ Base(b) /\ b.im = c.im /\ b.reg = c.reg /\ b.stack = c.stack
          /\ b.used = c.used \ {at}
      BY <1>1, <3>2, <3>3, FreeEffect
    <3> QED BY <2>1, <3>3, <3>4 DEF v
  <2>2. CASE tk[N].kind = "reg" /\ at = RCX
    BY <1>3, <2>2
  <2>3. CASE tk[N].kind # "reg"
    BY <1>3, <1>4, <2>3
  <2> QED BY <2>1, <2>2, <2>3
<1>6. b.reg[l] = x
  BY <1>5
<1>7. /\ Base(p) /\ p.im = b.im /\ p.used = b.used /\ p.stack = b.stack
      /\ p.reg[l] = Result /\ \A s \in Regs : s # l => p.reg[s] = b.reg[s]
  BY <1>1, <1>5, <1>6, ComputeEffect
<1>8. \A q \in m.used : ~InReg(N, q) => q \in p.used
  BY <1>5, <1>7 DEF InReg
<1>9. \A q \in Regs : q # l /\ q # RCX => p.reg[q] = m.reg[q]
  <2>1. \A q \in Regs : q # RCX => b.reg[q] = m.reg[q]
    BY <1>5
  <2>2. \A q \in Regs : q # l => p.reg[q] = b.reg[q]
    BY <1>7
  <2> QED BY <2>1, <2>2
<1>10. p.im = m.im /\ p.stack = m.stack
  BY <1>5, <1>7
<1> QED BY <1>7, <1>8, <1>9, <1>10 DEF Counted

(* RCX is not in use, or holds the count. *)
LEMMA AsideNone ==
  ASSUME Sound, NEW m, NEW l, Shifting(m, l), RCX \in m.used => InReg(N, RCX),
         NEW p, Counted(m, p, l)
  PROVE  Shifted(m, p, l)
<1>1. m.used \subseteq Regs
  BY BaseFacts DEF Sound, Shifting
<1>2. ASSUME NEW q \in m.used, ~InReg(N, q)
      PROVE  q \in p.used /\ (q # l => p.reg[q] = reg[q])
  <2>1. q # RCX /\ q \in Regs
    BY <1>1, <1>2
  <2> QED BY <1>2, <2>1 DEF Counted, Shifting
<1> QED BY <1>2 DEF Counted, Shifted, Word

(* RCX waits on the stack. *)
LEMMA AsidePush ==
  ASSUME Sound, NEW m, NEW l, Shifting(m, l), NEW s, s = Push(m, RCX),
         NEW c, Counted(s, c, l), NEW p, p = Pop(c, RCX)
  PROVE  Shifted(m, p, l)
<1>1. IInv /\ RCX \in Regs /\ Base(m) /\ Base(c)
  BY Consts DEF Sound, Shifting, Counted
<1>2. m.im \in Nat /\ m.im >= im /\ im \in Nat /\ m.used \subseteq Regs
  BY <1>1, BaseFacts
<1>3. /\ Base(s) /\ s.im = m.im + 1 /\ s.used = m.used /\ s.reg = m.reg
      /\ Word(s, m.im + 1) = m.reg[RCX]
      /\ \A k \in 1..m.im : Word(s, k) = Word(m, k)
  BY <1>1, PushEffect
<1>4. c.im = m.im + 1 /\ c.im > im /\ c.im - 1 = m.im /\ \A k : Word(c, k) = Word(s, k)
  BY <1>2, <1>3 DEF Counted, Word
<1>5. /\ Base(p) /\ p.im = c.im - 1 /\ p.used = c.used
      /\ p.reg[RCX] = Word(c, c.im)
      /\ \A q \in Regs : q # RCX => p.reg[q] = c.reg[q]
      /\ \A k \in 1..(c.im - 1) : Word(p, k) = Word(c, k)
  BY <1>1, <1>4, PopEffect
<1>6. p.reg[RCX] = m.reg[RCX] /\ m.reg[RCX] = reg[RCX]
  BY <1>1, <1>3, <1>4, <1>5 DEF Shifting
<1>7. \A k \in 1..m.im : Word(p, k) = Word(m, k)
  BY <1>3, <1>4, <1>5
<1>8. ASSUME NEW q \in m.used, ~InReg(N, q)
      PROVE  q \in p.used /\ (q # l => p.reg[q] = reg[q])
  <2>1. q \in Regs /\ q \in p.used
    BY <1>2, <1>3, <1>5, <1>8 DEF Counted
  <2>2. CASE q = RCX
    BY <1>6, <2>1, <2>2
  <2>3. CASE q # RCX
    BY <1>3, <1>5, <2>1, <2>3 DEF Counted, Shifting
  <2> QED BY <2>1, <2>2, <2>3
<1>9. p.im = m.im /\ p.reg[l] = Result
  BY <1>4, <1>5 DEF Counted, Shifting
<1> QED BY <1>5, <1>7, <1>8, <1>9 DEF Shifted

(* RCX waits in a register that is free. *)
LEMMA AsideTake ==
  ASSUME Sound, NEW m, NEW l, Shifting(m, l), NEW tmp \in Regs, tmp \notin m.used,
         NEW s, s = MovReg(Take(m, tmp), tmp, RCX)
  PROVE  /\ Base(s) /\ s.im = m.im /\ s.used = m.used \cup {tmp} /\ s.stack = m.stack
         /\ s.reg[tmp] = reg[RCX] /\ \A q \in Regs : q # tmp => s.reg[q] = m.reg[q]
<1> DEFINE t == Take(m, tmp)
           v == reg[RCX]
<1>1. IInv /\ RCX \in Regs /\ Base(m) /\ tmp # NoReg /\ tmp \in Regs \cup {NoReg}
      /\ m.reg[RCX] = v
  BY Consts DEF Sound, Shifting
<1>2. v \in Values
  <2>1. reg \in [Regs -> Values]
    BY <1>1, HereBase
  <2> QED BY <1>1, <2>1
<1>3. t = Take(m, tmp) /\ s = Mov(t, tmp, t.reg[RCX])
  BY DEF MovReg
<1> HIDE DEF t, v
<1>4. /\ Base(t) /\ t.im = m.im /\ t.reg = m.reg /\ t.stack = m.stack
      /\ t.used = m.used \cup ({tmp} \ {NoReg})
  BY <1>1, <1>3, TakeEffect
<1>5. s = Mov(t, tmp, v)
  BY <1>1, <1>3, <1>4
<1>6. /\ Base(s) /\ s.im = t.im /\ s.used = t.used /\ s.stack = t.stack
      /\ s.reg[tmp] = v /\ \A q \in Regs : q # tmp => s.reg[q] = t.reg[q]
  <2>1. IInv /\ Base(t) /\ tmp \in Regs
    BY <1>1, <1>4
  <2> QED BY <1>2, <1>5, <2>1, MovEffect
<1> QED BY <1>1, <1>4, <1>6 DEF v

LEMMA AsideReg ==
  ASSUME Sound, NEW m, NEW l, Shifting(m, l), RCX \in m.used,
         NEW tmp \in Regs, tmp \notin m.used,
         NEW s, s = MovReg(Take(m, tmp), tmp, RCX),
         NEW c, Counted(s, c, l), NEW p, p = Free(MovReg(c, RCX, tmp), tmp)
  PROVE  Shifted(m, p, l)
<1> DEFINE d == MovReg(c, RCX, tmp)
           v == reg[RCX]
<1>1. IInv /\ RCX \in Regs /\ Base(c) /\ tmp # RCX /\ tmp # l /\ v \in Values
  <2>1. IInv /\ RCX \in Regs /\ Base(c) /\ tmp # RCX /\ tmp # l
    BY Consts DEF Sound, Shifting, Counted
  <2>2. reg \in [Regs -> Values]
    BY <2>1, HereBase
  <2> QED BY <2>1, <2>2
<1>2. m.used \subseteq Regs
  BY <1>1, BaseFacts DEF Shifting
<1>3. /\ s.im = m.im /\ s.used = m.used \cup {tmp} /\ s.stack = m.stack
      /\ s.reg[tmp] = v /\ \A q \in Regs : q # tmp => s.reg[q] = m.reg[q]
  BY AsideTake
<1>4. p = Free(d, tmp) /\ d = Mov(c, RCX, c.reg[tmp])
  BY DEF MovReg
<1> HIDE DEF d, v
<1>5. d = Mov(c, RCX, v)
  BY <1>1, <1>3, <1>4 DEF Counted
<1>6. /\ Base(d) /\ d.im = c.im /\ d.used = c.used /\ d.stack = c.stack
      /\ d.reg[RCX] = v /\ \A q \in Regs : q # RCX => d.reg[q] = c.reg[q]
  BY <1>1, <1>5, MovEffect
<1>7. /\ Base(p) /\ p.im = d.im /\ p.reg = d.reg /\ p.stack = d.stack
      /\ p.used = d.used \ {tmp}
  BY <1>1, <1>4, <1>6, FreeEffect
<1>8. ASSUME NEW q \in m.used, ~InReg(N, q)
      PROVE  q \in p.used /\ (q # l => p.reg[q] = reg[q])
  <2>1. q \in Regs /\ q \in p.used /\ q # tmp
    BY <1>2, <1>3, <1>6, <1>7, <1>8 DEF Counted
  <2>2. CASE q = RCX
    BY <1>6, <1>7, <2>1, <2>2 DEF v
  <2>3. CASE q # RCX
    BY <1>3, <1>6, <1>7, <2>1, <2>3 DEF Counted, Shifting
  <2> QED BY <2>1, <2>2, <2>3
<1>9. p.im = m.im /\ p.reg[l] = Result
  BY <1>3, <1>6, <1>7 DEF Counted, Shifting
<1>10. \A k \in 1..m.im : Word(p, k) = Word(m, k)
  BY <1>3, <1>6, <1>7 DEF Counted, Word
<1> QED BY <1>7, <1>8, <1>9, <1>10 DEF Shifted
(* The left operand of a shift by a value is apart from the count. *)
LEMMA ShiftingReg ==
  ASSUME Sound, N >= 2, NEW r, r = ShiftReg, r # NoReg, NEW p, p = ShiftLhs
  PROVE  Shifting(p, r)
<1>1. /\ r \in Regs /\ r # RCX /\ Base(p) /\ r \in p.used
      /\ p.reg[r] = N - 1 /\ \A q \in Regs : q # r => p.reg[q] = reg[q]
      /\ \A q \in used : q # ArgReg(Here, N - 1) => q \in p.used /\ q # r
  BY ShiftLhsReg
<1>2. ASSUME tk[N].kind = "reg" PROVE tk[N].at \in p.used /\ tk[N].at # r
  <2> DEFINE a == ArgReg(Here, N - 1)
             q == tk[N].at
  <2>1. /\ IInv /\ N \in Nat /\ N - 1 \in 1..N /\ N \in 1..N
        /\ tk[N - 1].kind = "reg" => a = tk[N - 1].at
        /\ tk[N - 1].kind # "reg" => a = NextIMRegister(used)
    BY ShiftRegFacts
  <2>2. q \in Regs /\ q \in used
    BY <1>2, <2>1, InRegFacts
  <2>3. N - 1 # N
    BY <2>1
  <2>4. CASE tk[N - 1].kind = "reg"
    <3>1. tk[N - 1].at # q
      BY <1>2, <2>1, <2>3, <2>4, Apart
    <3>2. q # a
      BY <2>1, <2>4, <3>1
    <3> HIDE DEF q
    <3>3. q \in p.used /\ q # r
      BY <1>1, <2>2, <3>2
    <3> QED BY <3>3 DEF q
  <2>5. CASE tk[N - 1].kind # "reg"
    <3>1. q # a
      BY <2>1, <2>2, <2>5, NextFacts, Consts
    <3> HIDE DEF q
    <3>3. q \in p.used /\ q # r
      BY <1>1, <2>2, <3>1
    <3> QED BY <3>3 DEF q
  <2> QED BY <2>4, <2>5
<1> QED BY <1>1, <1>2 DEF Shifting

LEMMA ShiftingStk ==
  ASSUME Sound, N >= 2, NoReg = ShiftReg, ~NoRegToShiftIn, ~InReg(N, RAX),
         NEW p, p = ShiftLhs
  PROVE  Shifting(p, RAX)
<1>1. /\ Base(p) /\ p.used = used /\ Regs \subseteq used \cup {RCX}
      /\ p.reg[RAX] = N - 1 /\ \A q \in Regs : q # RAX => p.reg[q] = reg[q]
  BY ShiftLhsStk
<1>2. RAX \in Regs /\ RAX # RCX
  BY Consts DEF RAX, RCX
<1>3. ASSUME tk[N].kind = "reg" PROVE tk[N].at \in used /\ tk[N].at # RAX
  <2>1. N \in 1..N
    BY HereGood DEF Sound
  <2> QED BY <1>3, <2>1, InRegFacts DEF InReg
<1> QED BY <1>1, <1>2, <1>3 DEF Shifting

LEMMA ShiftByValueKept == ASSUME Sound, ShiftByValue, cause' = "none" PROVE ValuesKept'
<1> DEFINE r == ShiftReg
           m == ShiftLhs
           l == OrElse(r, RAX)
           keep == RCX \in m.used /\ ~InReg(N, RCX)
           tmp == IF keep THEN NextIMRegister(m.used) ELSE RCX
           s == SaveRCXIn(m, keep, tmp)
           a == MovArgToReg(s, N, RCX)
           b == IF tk[N].kind = "reg" /\ tk[N].at # RCX
                THEN Free(MovReg(a, RCX, tk[N].at), tk[N].at) ELSE a
           i == N - 1
           c == Compute(b, l, i, RCX, N)
           p == RestoreRCX(c, tmp)
<1>1. ~NoRegToShiftIn /\ N >= 2 /\ Deliver(p, r, i)
      /\ Blame(ShiftReg = NoReg /\ InReg(N, RAX), "full")
  BY DEF ShiftByValue, Reject, Ready
<1>2. ~(r = NoReg /\ InReg(N, RAX))
  <2>1. \A wrong : Blame(wrong, "full") /\ wrong => FALSE
    BY DEF Blame
  <2> HIDE DEF p
  <2> QED BY <1>1, <2>1
<1>3. /\ r = ShiftReg /\ m = ShiftLhs /\ l = OrElse(r, RAX)
      /\ tmp = IF RCX \in m.used /\ ~InReg(N, RCX) THEN NextIMRegister(m.used) ELSE RCX
  OBVIOUS
<1>4. s = IF ~(RCX \in m.used /\ ~InReg(N, RCX)) THEN m
          ELSE IF tmp = NoReg THEN Push(m, RCX) ELSE MovReg(Take(m, tmp), tmp, RCX)
  BY DEF SaveRCXIn
<1>5. p = IF tmp = NoReg THEN Pop(c, RCX)
          ELSE IF tmp = RCX THEN c ELSE Free(MovReg(c, RCX, tmp), tmp)
  BY DEF RestoreRCX
<1>6. a = MovArgToReg(s, N, RCX) /\ c = Compute(b, l, i, RCX, N)
      /\ b = IF tk[N].kind = "reg" /\ tk[N].at # RCX
             THEN Free(MovReg(a, RCX, tk[N].at), tk[N].at) ELSE a
  OBVIOUS
<1> HIDE DEF r, m, l, keep, tmp, s, a, b, c, p
<1>7. IInv /\ N \in Nat /\ N >= 1 /\ i \in 1..N /\ i \in i..N /\ RCX \in Regs
      /\ RCX # NoReg /\ N \in i..N /\ N \in 1..N
  <2>1. RCX # NoReg
    BY DEF RCX, NoReg
  <2> QED BY <1>1, <2>1, HereGood, Consts DEF Sound
<1>8. Shifting(m, l)
  <2>1. CASE r # NoReg
    <3>1. l = r
      BY <1>3, <2>1 DEF OrElse
    <3> QED BY <1>1, <1>3, <2>1, <3>1, ShiftingReg
  <2>2. CASE r = NoReg
    <3>1. l = RAX /\ NoReg = ShiftReg /\ ~InReg(N, RAX)
      BY <1>2, <1>3, <2>2 DEF OrElse
    <3> QED BY <1>1, <1>3, <3>1, ShiftingStk
  <2> QED BY <2>1, <2>2
<1>9. ASSUME Base(s), s.reg[l] = i, tk[N].kind = "reg" => s.reg[tk[N].at] = N
      PROVE  Counted(s, c, l)
  <2> DEFINE at == tk[N].at
  <2>1. l \in Regs /\ l # RCX
    BY <1>8 DEF Shifting
  <2>2. tk[N].kind = "reg" => at \in Regs /\ at # l /\ s.reg[at] = N
    BY <1>7, <1>8, <1>9, InRegFacts DEF Shifting
  <2>3. b = IF tk[N].kind = "reg" /\ at # RCX THEN Free(MovReg(a, RCX, at), at) ELSE a
    BY <1>6
  <2>4. at = tk[N].at
    OBVIOUS
  <2> HIDE DEF at, i
  <2> QED BY <1>6, <1>7, <1>9, <2>1, <2>2, <2>3, <2>4, CountEffect
<1>10. Base(m) /\ m.reg[l] = i /\ (tk[N].kind = "reg" => m.reg[tk[N].at] = N)
  <2>1. tk[N].kind = "reg" => tk[N].at \in Regs /\ reg[tk[N].at] = N
    BY <1>7, InRegFacts
  <2> QED BY <1>8, <2>1 DEF Shifting
<1>11. Shifted(m, p, l)
  <2>1. CASE RCX \in m.used => InReg(N, RCX)
    <3>1. s = m /\ tmp = RCX
      BY <1>3, <1>4, <2>1
    <3>2. p = c
      BY <1>5, <1>7, <3>1
    <3> QED BY <1>8, <1>9, <1>10, <2>1, <3>1, <3>2, AsideNone
  <2>2. CASE ~(RCX \in m.used => InReg(N, RCX)) /\ tmp = NoReg
    <3>1. s = Push(m, RCX) /\ p = Pop(c, RCX)
      BY <1>4, <1>5, <2>2
    <3>2. Base(s) /\ s.reg = m.reg
      BY <1>7, <1>10, <3>1, PushEffect
    <3>3. Counted(s, c, l)
      BY <1>9, <1>10, <3>2
    <3> QED BY <1>8, <3>1, <3>3, AsidePush
  <2>3. CASE ~(RCX \in m.used => InReg(N, RCX)) /\ tmp # NoReg
    <3>1. tmp \in Regs /\ tmp \notin m.used
      <4>1. tmp = NextIMRegister(m.used)
        BY <1>3, <2>3
      <4> QED BY <2>3, <4>1, NextFacts
    <3>2. s = MovReg(Take(m, tmp), tmp, RCX) /\ p = Free(MovReg(c, RCX, tmp), tmp)
          /\ RCX \in m.used
      BY <1>4, <1>5, <2>3, <3>1
    <3>3. Base(s) /\ \A q \in Regs : q # tmp => s.reg[q] = m.reg[q]
      BY <1>8, <3>1, <3>2, AsideTake
    <3>4. s.reg[l] = i /\ (tk[N].kind = "reg" => s.reg[tk[N].at] = N)
      <4>1. l \in Regs /\ l # tmp
        BY <1>8, <3>1 DEF Shifting
      <4>2. tk[N].kind = "reg" => tk[N].at \in Regs /\ tk[N].at # tmp
        BY <1>7, <1>8, <3>1, InRegFacts DEF Shifting
      <4> QED BY <1>10, <3>3, <4>1, <4>2
    <3>5. Counted(s, c, l)
      BY <1>9, <3>3, <3>4
    <3> QED BY <1>8, <3>1, <3>2, <3>5, AsideReg
  <2> QED BY <2>1, <2>2, <2>3
<1>12. /\ Base(p) /\ p.im = m.im /\ p.reg[l] = Result
       /\ \A k \in 1..m.im : Word(p, k) = Word(m, k)
  BY <1>11 DEF Shifted
<1>13. \A q \in Live(i) : q \in Regs /\ q \in used /\ q # ArgReg(Here, i)
                         /\ ~InReg(N, q)
  <2>1. used \subseteq Here.used
    BY <1>7, HereBase
  <2> HIDE DEF i
  <2> QED BY <1>7, <2>1, LiveFacts, LiveNotArg DEF InReg
<1>14. \A q \in m.used : ~InReg(N, q) => q \in p.used /\ (q # l => p.reg[q] = reg[q])
  BY <1>11 DEF Shifted
<1>15. l \in p.used
  <2>1. l \in m.used /\ ~InReg(N, l)
    BY <1>8 DEF Shifting, InReg
  <2> QED BY <1>14, <2>1
<1>16. CASE r # NoReg
  <2>1. l = r
    BY <1>3, <1>16 DEF OrElse
  <2>2. r \in Regs /\ \A q \in used : q # ArgReg(Here, i) => q \in m.used /\ q # r
    BY <1>1, <1>3, <1>16, ShiftLhsReg
  <2> HIDE DEF i
  <2>3. Spares(p, i)
    BY <1>13, <1>14, <2>1, <2>2 DEF Spares
  <2> QED BY <1>1, <1>7, <1>12, <1>15, <2>1, <2>2, <2>3, DeliverReg
<1>17. CASE r = NoReg
  <2>1. l = RAX /\ NoReg = ShiftReg
    BY <1>3, <1>17 DEF OrElse
  <2>2. m.im = im + 2 /\ m.used = used /\ Word(m, im + 2) = reg[RAX]
    BY <1>1, <1>3, <2>1, ShiftLhsStk
  <2>3. p.im = im + 2 /\ Word(p, im + 2) = reg[RAX] /\ p.reg[RAX] = Result
    <3>1. im + 2 \in 1..(im + 2)
      BY <1>7, HereGood
    <3> QED BY <1>12, <2>1, <2>2, <3>1
  <2> HIDE DEF i
  <2>4. \A q \in Live(i) : q \in p.used /\ (q # RAX => p.reg[q] = reg[q])
    BY <1>13, <1>14, <2>1, <2>2
  <2> QED BY <1>1, <1>7, <1>12, <1>17, <2>3, <2>4, DeliverStk
<1> QED BY <1>16, <1>17
----------------------------------------------------------------------------
(* The registers of a division, l for the result and r for the divisor.    *)
LEMMA DivRegFacts ==
  ASSUME Sound, N >= 2, NEW l, l = DivRegL, l # NoReg, NEW r, r = DivRegR,
         NEW at, at = tk[N].at
  PROVE  /\ IInv /\ N \in Nat /\ N - 1 \in 1..N /\ N \in 1..N
         /\ l \in Regs /\ r \in Regs \cup {NoReg} /\ r # l /\ r # RAX /\ r # RDX
         /\ tk[N - 1].kind = "reg" => l = tk[N - 1].at /\ l \in used /\ reg[l] = N - 1
         /\ tk[N].kind = "reg" => at \in used /\ at # l /\ reg[at] = N
                                  /\ (at # RAX /\ at # RDX => r = at)
         /\ tk[N].kind # "reg" \/ at = RAX \/ at = RDX => r \notin used
<1>1. IInv /\ N \in Nat /\ used \subseteq Regs /\ Here.used = used
      /\ RAX \in Regs /\ RDX \in Regs /\ NoReg \notin Regs
  BY HereBase, Consts DEF Sound
<1>2. N - 1 \in 1..N /\ N \in 1..N /\ N - 1 # N
  BY <1>1
<1>3. /\ l \in Regs
      /\ tk[N - 1].kind = "reg" => l = tk[N - 1].at /\ l \in used /\ reg[l] = N - 1
      /\ tk[N - 1].kind # "reg" => l \notin used
  <2>1. l = ArgReg(Here, N - 1)
    BY DEF DivRegL
  <2>2. /\ l \in Regs
        /\ tk[N - 1].kind = "reg" => l = tk[N - 1].at
        /\ tk[N - 1].kind # "reg" => l = NextIMRegister(used)
    BY <1>1, <1>2, <2>1, ArgRegFacts
  <2>3. tk[N - 1].kind # "reg" => l \notin used
    BY <2>2, NextFacts
  <2>4. tk[N - 1].kind = "reg" => l \in used /\ reg[l] = N - 1
    BY <1>2, <2>2, InRegFacts
  <2> QED BY <2>2, <2>3, <2>4
<1>4. ASSUME tk[N].kind = "reg"
      PROVE  at \in Regs /\ at \in used /\ at # l /\ reg[at] = N
  <2>1. at \in Regs /\ at \in used /\ reg[at] = N
    BY <1>2, <1>4, InRegFacts
  <2>2. tk[N - 1].kind = "reg" => tk[N - 1].at # at
    BY <1>2, <1>4, Apart
  <2> QED BY <1>3, <2>1, <2>2
<1>5. CASE tk[N].kind = "reg" /\ at # RAX /\ at # RDX
  <2>1. r = at
    BY <1>5 DEF DivRegR
  <2> QED BY <1>1, <1>2, <1>3, <1>4, <1>5, <2>1
<1>6. CASE tk[N].kind # "reg" \/ at = RAX \/ at = RDX
  <2> DEFINE S == used \cup {l, RAX, RDX}
  <2>1. r = NextIMRegister(S)
    BY <1>6 DEF DivRegR
  <2>2. used \subseteq S /\ l \in S /\ RAX \in S /\ RDX \in S
    OBVIOUS
  <2> HIDE DEF S
  <2>3. r \in Regs \cup {NoReg} /\ (r # NoReg => r \notin S)
    BY <2>1, NextFacts
  <2>4. r # l /\ r # RAX /\ r # RDX /\ r \notin used
    BY <1>1, <1>3, <2>2, <2>3
  <2> QED BY <1>1, <1>2, <1>3, <1>4, <1>6, <2>3, <2>4
<1> QED BY <1>5, <1>6

(* The operands before the division are apart from its registers. *)
LEMMA DivApart ==
  ASSUME Sound, N >= 2, NEW l, l = DivRegL, l # NoReg, NEW r, r = DivRegR,
         NEW q \in Live(N - 1)
  PROVE  q \in Regs /\ q \in used /\ q # l /\ q # r /\ ~InReg(N, q)
<1> DEFINE at == tk[N].at
<1>1. /\ IInv /\ N \in Nat /\ N - 1 \in 1..N /\ N \in 1..N
      /\ tk[N].kind = "reg" => (at # RAX /\ at # RDX => r = at)
      /\ tk[N].kind # "reg" \/ at = RAX \/ at = RDX => r \notin used
  BY DivRegFacts
<1>2. q \in Regs /\ q \in used /\ (tk[N].kind = "reg" => at # q)
  <2>1. N \in (N - 1)..N
    BY <1>1
  <2> QED BY <1>1, <2>1, LiveFacts
<1>3. q # l
  <2>1. l = ArgReg(Here, N - 1) /\ N - 1 \in (N - 1)..N /\ used \subseteq Here.used
    BY <1>1, HereBase DEF DivRegL
  <2> QED BY <1>1, <2>1, LiveNotArg
<1>4. q # r
  BY <1>1, <1>2
<1> QED BY <1>2, <1>3, <1>4 DEF InReg
(* A register that the division needs and another operand holds is pushed; *)
(* the divisor moves to its own register instead.                          *)
DivInWay(q) == q \in used /\ q # DivRegL
DivPushed(q) == DivInWay(q) /\ ~InReg(N, q)
DivAside(m, q) == IF DivPushed(q) THEN Push(m, q)
                  ELSE IF DivInWay(q) THEN Mov(m, DivRegR, m.reg[q]) ELSE m

DivUsed(m) == DivRegL \in m.used /\ \A q \in used : q # DivRegR => q \in m.used
DivKeeps(m) ==
  /\ Base(m) /\ DivUsed(m)
  /\ \A q \in Regs : q # DivRegR => m.reg[q] = reg[q]

LEMMA DivAsideEffect ==
  ASSUME Sound, N >= 2, DivRegL # NoReg, tk[N].kind = "reg" => DivRegR # NoReg,
         NEW m, DivKeeps(m), NEW q, q = RAX \/ q = RDX, NEW p, p = DivAside(m, q)
  PROVE  /\ DivKeeps(p) /\ p.used = m.used
         /\ DivPushed(q) => p.im = m.im + 1 /\ Word(p, m.im + 1) = reg[q]
         /\ ~DivPushed(q) => p.im = m.im
         /\ InReg(N, q) => p.reg[DivRegR] = N
         /\ ~InReg(N, q) => p.reg = m.reg
         /\ \A k \in 1..m.im : Word(p, k) = Word(m, k)
<1> DEFINE r == DivRegR
           l == DivRegL
<1>1. /\ IInv /\ N \in 1..N /\ l \in Regs /\ r \in Regs \cup {NoReg}
      /\ r # l /\ r # RAX /\ r # RDX
      /\ tk[N].kind = "reg" => tk[N].at \in used /\ tk[N].at # l /\ reg[tk[N].at] = N
  BY DivRegFacts
<1>2. q \in Regs /\ q # r
  BY <1>1, Consts
<1>3. Base(m) /\ m.reg[q] = reg[q]
  BY <1>2 DEF DivKeeps
<1>4. CASE DivPushed(q)
  <2>1. p = Push(m, q) /\ ~InReg(N, q)
    BY <1>4 DEF DivAside, DivPushed
  <2>2. /\ Base(p) /\ p.im = m.im + 1 /\ p.used = m.used /\ p.reg = m.reg
        /\ Word(p, m.im + 1) = m.reg[q]
        /\ \A k \in 1..m.im : Word(p, k) = Word(m, k)
    BY <1>1, <1>2, <1>3, <2>1, PushEffect
  <2>3. DivKeeps(p)
    BY <2>2 DEF DivKeeps, DivUsed
  <2> QED BY <1>3, <1>4, <2>1, <2>2, <2>3
<1>5. CASE ~DivPushed(q) /\ DivInWay(q)
  <2>1. InReg(N, q) /\ p = Mov(m, r, m.reg[q])
    BY <1>5 DEF DivAside, DivPushed
  <2>2. r \in Regs /\ reg[q] = N
    BY <1>1, <2>1 DEF InReg
  <2> DEFINE v == m.reg[q]
  <2>3. v \in Values /\ p = Mov(m, r, v)
    <3>1. m.reg \in [Regs -> Values]
      BY <1>1, <1>3, BaseFacts
    <3> QED BY <1>2, <2>1, <3>1
  <2> HIDE DEF v, r
  <2>4. /\ Base(p) /\ p.im = m.im /\ p.used = m.used /\ p.stack = m.stack
        /\ p.reg[r] = v /\ \A s \in Regs : s # r => p.reg[s] = m.reg[s]
    BY <1>1, <1>3, <2>2, <2>3, MovEffect
  <2>5. p.reg[r] = N
    BY <1>3, <2>2, <2>4 DEF v
  <2>6. DivKeeps(p)
    BY <2>4 DEF DivKeeps, DivUsed, r
  <2> QED BY <1>5, <2>1, <2>4, <2>5, <2>6 DEF Word, r
<1>6. CASE ~DivInWay(q)
  <2>1. p = m /\ ~DivPushed(q)
    BY <1>6 DEF DivAside, DivPushed
  <2>2. ~InReg(N, q)
    BY <1>1, <1>6 DEF InReg, DivInWay
  <2> QED BY <2>1, <2>2
<1> QED BY <1>4, <1>5, <1>6 DEF DivPushed

(* What the division has set aside: RAX, then RDX or RCX. *)
DivDepth == (IF DivPushed(RAX) THEN 1 ELSE 0)
            + (IF DivPushed(RDX) \/ DivRegR = NoReg THEN 1 ELSE 0)
DivStacked(m) ==
  /\ m.im = im + DivDepth
  /\ DivPushed(RAX) => Word(m, im + 1) = reg[RAX]
  /\ DivPushed(RDX) => Word(m, m.im) = reg[RDX]
  /\ DivRegR = NoReg => Word(m, m.im) = reg[RCX]

LEMMA DivSaves ==
  ASSUME Sound, N >= 2, DivRegL # NoReg, tk[N].kind = "reg" => DivRegR # NoReg,
         ~(DivRegR = NoReg /\ DivPushed(RDX)),
         NEW m1, DivKeeps(m1), m1.im = im,
         tk[N].kind = "reg" /\ ~InReg(N, RAX) /\ ~InReg(N, RDX) => m1.reg[DivRegR] = N,
         NEW a, a = DivAside(m1, RAX), NEW b, b = DivAside(a, RDX),
         NEW p, p = PushOrFree(b, DivRegR, RCX)
  PROVE  /\ DivKeeps(p) /\ DivStacked(p)
         /\ tk[N].kind = "reg" => p.reg[DivRegR] = N
<1>1. IInv /\ RCX \in Regs /\ im \in Nat /\ RAX # RDX /\ RCX # NoReg
  BY HereBase, Consts DEF Sound, RAX, RDX, RCX, NoReg
<1>2. /\ DivKeeps(a) /\ a.used = m1.used
      /\ DivPushed(RAX) => a.im = im + 1 /\ Word(a, im + 1) = reg[RAX]
      /\ ~DivPushed(RAX) => a.im = im
      /\ InReg(N, RAX) => a.reg[DivRegR] = N
      /\ ~InReg(N, RAX) => a.reg = m1.reg
  BY DivAsideEffect
<1>3. /\ DivKeeps(b) /\ b.used = a.used
      /\ DivPushed(RDX) => b.im = a.im + 1 /\ Word(b, a.im + 1) = reg[RDX]
      /\ ~DivPushed(RDX) => b.im = a.im
      /\ InReg(N, RDX) => b.reg[DivRegR] = N
      /\ ~InReg(N, RDX) => b.reg = a.reg
      /\ \A k \in 1..a.im : Word(b, k) = Word(a, k)
  BY <1>2, DivAsideEffect
<1>4. tk[N].kind = "reg" => b.reg[DivRegR] = N
  BY <1>1, <1>2, <1>3 DEF InReg
<1>5. Base(b) /\ b.im \in Nat
  <2>1. Base(b)
    BY <1>3 DEF DivKeeps
  <2> QED BY <1>1, <2>1, BaseFacts
<1>6. DivPushed(RAX) => Word(b, im + 1) = reg[RAX]
  <2> SUFFICES ASSUME DivPushed(RAX) PROVE Word(b, im + 1) = reg[RAX]
    OBVIOUS
  <2>1. a.im = im + 1 /\ Word(a, im + 1) = reg[RAX]
    BY <1>2
  <2>2. im + 1 \in 1..a.im
    BY <1>1, <2>1
  <2> QED BY <1>3, <2>1, <2>2
<1>7. CASE DivRegR = NoReg
  <2>1. p = Push(b, RCX) /\ ~DivPushed(RDX)
    BY <1>7 DEF PushOrFree
  <2>2. /\ Base(p) /\ p.im = b.im + 1 /\ p.used = b.used /\ p.reg = b.reg
        /\ Word(p, b.im + 1) = b.reg[RCX]
        /\ \A k \in 1..b.im : Word(p, k) = Word(b, k)
    BY <1>1, <1>5, <2>1, PushEffect
  <2>3. DivKeeps(p)
    BY <1>3, <2>2 DEF DivKeeps, DivUsed
  <2>4. Word(p, p.im) = reg[RCX]
    BY <1>1, <1>3, <1>7, <2>2 DEF DivKeeps
  <2>5. p.im = im + DivDepth /\ b.im = a.im
    BY <1>1, <1>2, <1>3, <1>7, <2>1, <2>2 DEF DivDepth
  <2>6. DivPushed(RAX) => Word(p, im + 1) = reg[RAX]
    <3> SUFFICES ASSUME DivPushed(RAX) PROVE Word(p, im + 1) = reg[RAX]
      OBVIOUS
    <3>1. im + 1 \in 1..b.im
      BY <1>1, <1>2, <2>5
    <3> QED BY <1>6, <2>2, <3>1
  <2> QED BY <1>4, <2>1, <2>2, <2>3, <2>4, <2>5, <2>6 DEF DivStacked
<1>8. CASE DivRegR # NoReg
  <2>1. p = Free(b, DivRegR)
    BY <1>8 DEF PushOrFree
  <2>2. /\ Base(p) /\ p.im = b.im /\ p.reg = b.reg /\ p.stack = b.stack
        /\ p.used = b.used \ {DivRegR}
    BY <1>1, <1>5, <2>1, FreeEffect
  <2>3. DivKeeps(p)
    <3>1. DivRegR # DivRegL
      BY DivRegFacts
    <3> QED BY <1>3, <2>2, <3>1 DEF DivKeeps, DivUsed
  <2>4. p.im = im + DivDepth
    BY <1>1, <1>2, <1>3, <1>8, <2>2 DEF DivDepth
  <2>5. \A k : Word(p, k) = Word(b, k)
    BY <2>2 DEF Word
  <2>6. DivPushed(RDX) => Word(p, p.im) = reg[RDX]
    BY <1>3, <2>2, <2>5
  <2> QED BY <1>4, <1>6, <1>8, <2>2, <2>3, <2>4, <2>5, <2>6 DEF DivStacked
<1> QED BY <1>7, <1>8
(* The left operand comes to RAX. *)
LEMMA DivLeft ==
  ASSUME Sound, N >= 2, DivRegL # NoReg, NEW isDiv \in BOOLEAN,
         isDiv \/ tk[N - 1].kind # "reg" \/ InReg(N - 1, RAX),
         NEW m, DivKeeps(m), NEW i, i = N - 1, NEW a, a = MovArgToReg(m, i, RAX),
         NEW p, p = IF isDiv /\ tk[i].kind = "reg" THEN MovReg(a, RAX, tk[i].at) ELSE a
  PROVE  /\ Base(p) /\ p.im = m.im /\ p.used = m.used /\ p.stack = m.stack
         /\ p.reg[RAX] = i
         /\ \A q \in Regs : q # RAX => p.reg[q] = m.reg[q]
<1>1. /\ IInv /\ i \in 1..N /\ DivRegL \in Regs /\ DivRegR # DivRegL /\ DivRegR # RAX
      /\ tk[i].kind = "reg" => DivRegL = tk[i].at /\ reg[DivRegL] = i
  BY DivRegFacts
<1>2. RAX \in Regs /\ Base(m) /\ m.reg[RAX] = reg[RAX] /\ m.reg[DivRegL] = reg[DivRegL]
  BY <1>1, Consts DEF DivKeeps
<1>3. /\ Base(a) /\ a.im = m.im /\ a.used = m.used /\ a.stack = m.stack
      /\ (tk[i].kind = "reg" => a = m)
      /\ (tk[i].kind # "reg" => a.reg[RAX] = i)
  BY <1>1, <1>2, MovArgEffect
<1>4. \A q \in Regs : q # RAX => a.reg[q] = m.reg[q]
  BY <1>1, <1>2, MovArgOthers
<1>5. CASE isDiv /\ tk[i].kind = "reg"
  <2>1. p = Mov(m, RAX, i)
    BY <1>1, <1>2, <1>3, <1>5 DEF MovReg
  <2>2. i \in Values
    BY <1>1, Places, TagsInValues, Consts
  <2> QED BY <1>1, <1>2, <2>1, <2>2, MovEffect
<1>6. CASE ~isDiv /\ tk[i].kind = "reg"
  <2>1. p = m /\ m.reg[RAX] = i
    BY <1>1, <1>2, <1>3, <1>6 DEF InReg
  <2> QED BY <1>2, <2>1
<1>7. CASE tk[i].kind # "reg"
  BY <1>3, <1>4, <1>7
<1> QED BY <1>5, <1>6, <1>7

(* The divisor is in d, and the division overwrites RAX, RDX and l. *)
DivDone(m) ==
  /\ Base(m) /\ DivUsed(m) /\ DivStacked(m) /\ m.reg[DivRegL] = Result
  /\ \A q \in Regs : q \notin {RAX, RDX, DivRegL, OrElse(DivRegR, RCX)}
                       => m.reg[q] = reg[q]

LEMMA DividedEffect ==
  ASSUME IInv, DivRegL \in Regs, NEW m, Base(m), m.reg[RAX] = Result,
         NEW p, p = Divided(m)
  PROVE  /\ Base(p) /\ p.im = m.im /\ p.used = m.used /\ p.stack = m.stack
         /\ p.reg[DivRegL] = Result
         /\ \A q \in Regs : q # RAX /\ q # RDX /\ q # DivRegL => p.reg[q] = m.reg[q]
<1> DEFINE g == Garbage
           v == Result
           a == Mov(m, RAX, g)
           b == Mov(a, RDX, g)
<1>1. g \in Values /\ RAX \in Regs
  BY Consts
<1>2. RDX \in Regs
  BY Consts
<1>3. v \in Values
  BY Consts
<1>4. a = Mov(m, RAX, g)
  OBVIOUS
<1>5. b = Mov(a, RDX, g)
  OBVIOUS
<1>6. p = Mov(b, DivRegL, v)
  BY DEF Divided
<1>7. v = Result
  OBVIOUS
<1> HIDE DEF g, v, a, b
<1>8. /\ Base(a) /\ a.im = m.im /\ a.used = m.used /\ a.stack = m.stack
      /\ \A s \in Regs : s # RAX => a.reg[s] = m.reg[s]
  BY <1>1, <1>4, MovEffect
<1>9. /\ Base(b) /\ b.im = a.im /\ b.used = a.used /\ b.stack = a.stack
      /\ \A s \in Regs : s # RDX => b.reg[s] = a.reg[s]
  <2>1. Base(a)
    BY <1>8
  <2>2. g \in Values
    BY <1>1
  <2> QED BY <1>2, <1>5, <2>1, <2>2, MovEffect
<1>10. /\ Base(p) /\ p.im = b.im /\ p.used = b.used /\ p.stack = b.stack
       /\ p.reg[DivRegL] = v
       /\ \A s \in Regs : s # DivRegL => p.reg[s] = b.reg[s]
  <2>1. Base(b)
    BY <1>9
  <2> QED BY <1>3, <1>6, <2>1, MovEffect
<1> QED BY <1>7, <1>8, <1>9, <1>10

LEMMA DivRight ==
  ASSUME Sound, N >= 2, DivRegL # NoReg, tk[N].kind = "reg" => DivRegR # NoReg,
         NEW m, DivKeeps(m), DivStacked(m),
         tk[N].kind = "reg" => m.reg[DivRegR] = N,
         NEW x, NEW b, Base(b), b.im = m.im, b.used = m.used, b.stack = m.stack,
         b.reg[RAX] = x, \A q \in Regs : q # RAX => b.reg[q] = m.reg[q],
         NEW d, d = OrElse(DivRegR, RCX), NEW e, e = MovArgToReg(b, N, d),
         NEW c, c = Compute(e, RAX, x, d, N), NEW p, p = Divided(c)
  PROVE  DivDone(p)
<1>1. /\ IInv /\ N \in 1..N /\ DivRegL \in Regs /\ DivRegR \in Regs \cup {NoReg}
      /\ DivRegR # DivRegL /\ DivRegR # RAX
  BY DivRegFacts
<1>2. RAX \in Regs /\ RCX \in Regs /\ RAX # RCX
  BY Consts DEF RAX, RCX
<1>3. d \in Regs /\ d # RAX /\ (DivRegR # NoReg => d = DivRegR)
  BY <1>1, <1>2 DEF OrElse
<1>4. PICK i : i = N /\ i \in 1..N /\ e = MovArgToReg(b, i, d)
  BY <1>1
<1>5. /\ Base(e) /\ e.im = b.im /\ e.used = b.used /\ e.stack = b.stack
      /\ (tk[i].kind = "reg" => e = b)
      /\ (tk[i].kind # "reg" => e.reg[d] = i)
  BY <1>3, <1>4, MovArgEffect
<1>6. \A q \in Regs : q # d => e.reg[q] = b.reg[q]
  BY <1>3, <1>4, MovArgOthers
<1>7. e.reg[RAX] = x /\ e.reg[d] = N
  BY <1>2, <1>3, <1>4, <1>5, <1>6
<1>8. /\ Base(c) /\ c.im = e.im /\ c.used = e.used /\ c.stack = e.stack
      /\ c.reg[RAX] = Result /\ \A s \in Regs : s # RAX => c.reg[s] = e.reg[s]
  BY <1>1, <1>2, <1>5, <1>7, ComputeEffect
<1>9. /\ Base(p) /\ p.im = c.im /\ p.used = c.used /\ p.stack = c.stack
      /\ p.reg[DivRegL] = Result
      /\ \A q \in Regs : q # RAX /\ q # RDX /\ q # DivRegL => p.reg[q] = c.reg[q]
  BY <1>1, <1>8, DividedEffect
<1>10. p.im = m.im /\ p.used = m.used /\ p.stack = m.stack
  BY <1>5, <1>8, <1>9
<1>11. DivUsed(p) /\ DivStacked(p)
  BY <1>10 DEF DivKeeps, DivUsed, DivStacked, Word
<1>12. ASSUME NEW q \in Regs, q \notin {RAX, RDX, DivRegL, d} PROVE p.reg[q] = reg[q]
  <2>1. p.reg[q] = m.reg[q]
    BY <1>6, <1>8, <1>9, <1>12
  <2>2. q # DivRegR
    BY <1>1, <1>3, <1>12, Consts
  <2> QED BY <2>1, <2>2 DEF DivKeeps
<1> QED BY <1>9, <1>11, <1>12 DEF DivDone
(* What was set aside comes back in the opposite order. *)
DivWords(c) == IF c THEN 1 ELSE 0

LEMMA DivBackRDX ==
  ASSUME Sound, ~(DivRegR = NoReg /\ DivPushed(RDX)), NEW m, DivDone(m),
         NEW p, p = PopIf(DivPushed(RDX), m, RDX)
  PROVE  /\ Base(p) /\ p.used = m.used
         /\ p.im = im + DivWords(DivPushed(RAX)) + DivWords(DivRegR = NoReg)
         /\ DivPushed(RAX) => Word(p, im + 1) = reg[RAX]
         /\ DivRegR = NoReg => Word(p, p.im) = reg[RCX]
         /\ DivPushed(RDX) => p.reg[RDX] = reg[RDX]
         /\ \A q \in Regs : q # RDX \/ ~DivPushed(RDX) => p.reg[q] = m.reg[q]
<1>1. IInv /\ RDX \in Regs /\ im \in Nat
  BY HereBase, Consts DEF Sound
<1>2. /\ Base(m) /\ m.im = im + DivDepth
      /\ DivPushed(RAX) => Word(m, im + 1) = reg[RAX]
      /\ DivPushed(RDX) => Word(m, m.im) = reg[RDX]
      /\ DivRegR = NoReg => Word(m, m.im) = reg[RCX]
  BY DEF DivDone, DivStacked
<1>3. CASE DivPushed(RDX)
  <2>1. p = Pop(m, RDX) /\ DivRegR # NoReg
    BY <1>3 DEF PopIf
  <2>2. m.im = im + DivWords(DivPushed(RAX)) + 1 /\ m.im > im
    BY <1>1, <1>2, <1>3 DEF DivDepth, DivWords
  <2>3. /\ Base(p) /\ p.im = m.im - 1 /\ p.used = m.used
        /\ p.reg[RDX] = Word(m, m.im)
        /\ \A q \in Regs : q # RDX => p.reg[q] = m.reg[q]
        /\ \A k \in 1..(m.im - 1) : Word(p, k) = Word(m, k)
    BY <1>1, <1>2, <2>1, <2>2, PopEffect
  <2>4. p.im = im + DivWords(DivPushed(RAX)) + DivWords(DivRegR = NoReg)
    BY <1>1, <2>1, <2>2, <2>3 DEF DivWords
  <2>5. DivPushed(RAX) => Word(p, im + 1) = reg[RAX]
    <3> SUFFICES ASSUME DivPushed(RAX) PROVE Word(p, im + 1) = reg[RAX]
      OBVIOUS
    <3>1. im + 1 \in 1..(m.im - 1)
      BY <1>1, <2>2 DEF DivWords
    <3> QED BY <1>2, <2>3, <3>1
  <2> QED BY <1>2, <1>3, <2>1, <2>3, <2>4, <2>5
<1>4. CASE ~DivPushed(RDX)
  <2>1. p = m
    BY <1>4 DEF PopIf
  <2>2. m.im = im + DivWords(DivPushed(RAX)) + DivWords(DivRegR = NoReg)
    BY <1>1, <1>2, <1>4 DEF DivDepth, DivWords
  <2> QED BY <1>2, <1>4, <2>1, <2>2
<1> QED BY <1>3, <1>4

LEMMA DivBackRCX ==
  ASSUME IInv, NEW m, Base(m),
         m.im = im + DivWords(DivPushed(RAX)) + DivWords(DivRegR = NoReg),
         DivPushed(RAX) => Word(m, im + 1) = reg[RAX],
         DivRegR = NoReg => Word(m, m.im) = reg[RCX],
         NEW p, p = PopIf(DivRegR = NoReg, m, RCX)
  PROVE  /\ Base(p) /\ p.used = m.used
         /\ p.im = im + DivWords(DivPushed(RAX))
         /\ DivPushed(RAX) => Word(p, im + 1) = reg[RAX]
         /\ DivRegR = NoReg => p.reg[RCX] = reg[RCX]
         /\ \A q \in Regs : q # RCX \/ DivRegR # NoReg => p.reg[q] = m.reg[q]
<1>1. RCX \in Regs /\ im \in Nat
  BY HereBase, Consts
<1>2. CASE DivRegR = NoReg
  <2>1. p = Pop(m, RCX)
    BY <1>2 DEF PopIf
  <2>2. m.im = im + DivWords(DivPushed(RAX)) + 1 /\ m.im > im
    BY <1>1, <1>2 DEF DivWords
  <2>3. /\ Base(p) /\ p.im = m.im - 1 /\ p.used = m.used
        /\ p.reg[RCX] = Word(m, m.im)
        /\ \A q \in Regs : q # RCX => p.reg[q] = m.reg[q]
        /\ \A k \in 1..(m.im - 1) : Word(p, k) = Word(m, k)
    BY <1>1, <2>1, <2>2, PopEffect
  <2>4. p.im = im + DivWords(DivPushed(RAX))
    BY <1>1, <2>2, <2>3 DEF DivWords
  <2>5. DivPushed(RAX) => Word(p, im + 1) = reg[RAX]
    <3> SUFFICES ASSUME DivPushed(RAX) PROVE Word(p, im + 1) = reg[RAX]
      OBVIOUS
    <3>1. im + 1 \in 1..(m.im - 1)
      BY <1>1, <2>2 DEF DivWords
    <3> QED BY <2>3, <3>1
  <2> QED BY <1>2, <2>3, <2>4, <2>5
<1>3. CASE DivRegR # NoReg
  <2>1. p = m
    BY <1>3 DEF PopIf
  <2>2. m.im = im + DivWords(DivPushed(RAX))
    BY <1>1, <1>3 DEF DivWords
  <2> QED BY <1>3, <2>1, <2>2
<1> QED BY <1>2, <1>3

LEMMA DivBackRAX ==
  ASSUME IInv, NEW m, Base(m), m.im = im + DivWords(DivPushed(RAX)),
         DivPushed(RAX) => Word(m, im + 1) = reg[RAX],
         NEW p, p = PopIf(DivPushed(RAX), m, RAX)
  PROVE  /\ Base(p) /\ p.used = m.used
         /\ DivPushed(RAX) => p.reg[RAX] = reg[RAX]
         /\ \A q \in Regs : q # RAX \/ ~DivPushed(RAX) => p.reg[q] = m.reg[q]
<1>1. RAX \in Regs /\ im \in Nat
  BY HereBase, Consts
<1>2. CASE DivPushed(RAX)
  <2>1. p = Pop(m, RAX) /\ m.im = im + 1 /\ m.im > im
    BY <1>1, <1>2 DEF PopIf, DivWords
  <2>2. /\ Base(p) /\ p.used = m.used /\ p.reg[RAX] = Word(m, m.im)
        /\ \A q \in Regs : q # RAX => p.reg[q] = m.reg[q]
    BY <1>1, <2>1, PopEffect
  <2> QED BY <1>2, <2>1, <2>2
<1>3. CASE ~DivPushed(RAX)
  <2>1. p = m
    BY <1>3 DEF PopIf
  <2> QED BY <1>3, <2>1
<1> QED BY <1>2, <1>3

LEMMA DivRestores ==
  ASSUME Sound, N >= 2, DivRegL # NoReg,
         ~(DivRegR = NoReg /\ (DivPushed(RDX) \/ DivRegL = RCX)),
         NEW lhs \in BOOLEAN, lhs <=> tk[N - 1].kind = "reg",
         lhs => \A i \in 1..(N - 1) : ~InReg(i, RDX),
         NEW m7, DivDone(m7), NEW m8, m8 = PopIf(DivPushed(RDX), m7, RDX),
         NEW m9, m9 = IF lhs THEN Free(m8, RDX) ELSE m8,
         NEW m10, m10 = PopIf(DivRegR = NoReg, m9, RCX),
         NEW p, p = PopIf(DivPushed(RAX), m10, RAX)
  PROVE  /\ Base(p) /\ Spares(p, N - 1) /\ DivRegL \in p.used
         /\ p.reg[DivRegL] = Result
<1>1. /\ IInv /\ N \in Nat /\ N - 1 \in 1..N /\ DivRegL \in Regs
      /\ (tk[N - 1].kind = "reg" => DivRegL = tk[N - 1].at)
  BY DivRegFacts
<1>2. /\ Base(m8) /\ m8.used = m7.used
      /\ m8.im = im + DivWords(DivPushed(RAX)) + DivWords(DivRegR = NoReg)
      /\ DivPushed(RAX) => Word(m8, im + 1) = reg[RAX]
      /\ DivRegR = NoReg => Word(m8, m8.im) = reg[RCX]
      /\ DivPushed(RDX) => m8.reg[RDX] = reg[RDX]
      /\ \A q \in Regs : q # RDX \/ ~DivPushed(RDX) => m8.reg[q] = m7.reg[q]
  BY DivBackRDX
<1>3. /\ Base(m9) /\ m9.im = m8.im /\ m9.reg = m8.reg /\ m9.stack = m8.stack
      /\ m9.used = IF lhs THEN m7.used \ {RDX} ELSE m7.used
  <2>1. CASE lhs
    <3>1. m9 = Free(m8, RDX)
      BY <2>1
    <3>2. /\ Base(m9) /\ m9.im = m8.im /\ m9.reg = m8.reg /\ m9.stack = m8.stack
          /\ m9.used = m8.used \ {RDX}
      BY <1>1, <1>2, <3>1, FreeEffect
    <3> QED BY <1>2, <2>1, <3>2
  <2>2. CASE ~lhs
    BY <1>2, <2>2
  <2> QED BY <2>1, <2>2
<1>4. /\ m9.im = im + DivWords(DivPushed(RAX)) + DivWords(DivRegR = NoReg)
      /\ DivPushed(RAX) => Word(m9, im + 1) = reg[RAX]
      /\ DivRegR = NoReg => Word(m9, m9.im) = reg[RCX]
  BY <1>2, <1>3 DEF Word
<1>5. /\ Base(m10) /\ m10.used = m9.used
      /\ m10.im = im + DivWords(DivPushed(RAX))
      /\ DivPushed(RAX) => Word(m10, im + 1) = reg[RAX]
      /\ DivRegR = NoReg => m10.reg[RCX] = reg[RCX]
      /\ \A q \in Regs : q # RCX \/ DivRegR # NoReg => m10.reg[q] = m9.reg[q]
  BY <1>1, <1>3, <1>4, DivBackRCX
<1>6. /\ Base(p) /\ p.used = m10.used
      /\ DivPushed(RAX) => p.reg[RAX] = reg[RAX]
      /\ \A q \in Regs : q # RAX \/ ~DivPushed(RAX) => p.reg[q] = m10.reg[q]
  BY <1>1, <1>5, DivBackRAX
<1>7. RAX # RCX /\ RAX # RDX /\ RCX # RDX
  BY DEF RAX, RCX, RDX
<1>8. lhs => DivRegL # RDX
  <2>1. N - 1 \in 1..(N - 1)
    BY <1>1
  <2> QED BY <1>1, <2>1 DEF InReg
<1>9. p.reg[DivRegL] = Result
  <2>1. ~(DivRegL = RDX /\ DivPushed(RDX)) /\ ~(DivRegL = RAX /\ DivPushed(RAX))
        /\ ~(DivRegL = RCX /\ DivRegR = NoReg)
    BY DEF DivPushed, DivInWay
  <2> QED BY <1>1, <1>2, <1>3, <1>5, <1>6, <2>1 DEF DivDone
<1>10. DivRegL \in p.used
  BY <1>3, <1>5, <1>6, <1>8 DEF DivDone, DivUsed
<1>11. ASSUME NEW q \in Live(N - 1) PROVE q \in p.used /\ p.reg[q] = reg[q]
  <2>1. q \in Regs /\ q \in used /\ q # DivRegL /\ q # DivRegR /\ ~InReg(N, q)
    BY DivApart
  <2>2. lhs => q # RDX
    <3>1. PICK i \in 1..(N - 1 - 1) : InReg(i, q)
      BY DEF Live
    <3>2. i \in 1..(N - 1)
      BY <1>1
    <3> QED BY <3>1, <3>2
  <2>3. q \in p.used
    BY <1>3, <1>5, <1>6, <2>1, <2>2 DEF DivDone, DivUsed
  <2>4. q = RAX => DivPushed(RAX)
    BY <2>1 DEF DivPushed, DivInWay
  <2>5. q = RDX => DivPushed(RDX)
    BY <2>1 DEF DivPushed, DivInWay
  <2>6. CASE q = RAX
    BY <1>6, <2>3, <2>4, <2>6
  <2>7. CASE q = RDX
    <3>1. DivPushed(RDX) /\ DivRegR # NoReg
      BY <2>5, <2>7
    <3>2. m9.reg[q] = reg[q]
      BY <1>2, <1>3, <2>7, <3>1
    <3>3. m10.reg[q] = reg[q]
      BY <1>5, <2>1, <3>1, <3>2
    <3>4. q # RAX
      BY <1>7, <2>7
    <3>5. p.reg[q] = m10.reg[q]
      BY <1>6, <2>1, <3>4
    <3> QED BY <2>3, <3>3, <3>5
  <2>8. CASE q = RCX /\ DivRegR = NoReg
    BY <1>5, <1>6, <1>7, <2>1, <2>3, <2>8
  <2>9. CASE q # RAX /\ q # RDX /\ ~(q = RCX /\ DivRegR = NoReg)
    <3>1. q \notin {RAX, RDX, DivRegL, OrElse(DivRegR, RCX)}
      BY <2>1, <2>9 DEF OrElse
    <3>2. m7.reg[q] = reg[q]
      BY <2>1, <3>1 DEF DivDone
    <3> QED BY <1>2, <1>3, <1>5, <1>6, <2>1, <2>3, <2>9, <3>2
  <2> QED BY <2>6, <2>7, <2>8, <2>9
<1>12. Spares(p, N - 1)
  BY <1>11 DEF Spares
<1> QED BY <1>6, <1>9, <1>10, <1>12
LEMMA DivModKept ==
  ASSUME Sound, NEW isDiv \in BOOLEAN, DivMod(isDiv), cause' = "none"
  PROVE  ValuesKept'
<1> DEFINE n == N - 1
           lhs == tk[N - 1].kind = "reg"
           mt == Take(Here, DivRegL)
           m1 == Take(mt, DivRegR)
           InWay(q) == q \in m1.used /\ q # DivRegL
           Pushed(q) == InWay(q) /\ ~InReg(N, q)
           SetAside(m, q) == IF Pushed(q) THEN Push(m, q)
                             ELSE IF InWay(q) THEN Mov(m, DivRegR, m.reg[q])
                             ELSE m
           ma == SetAside(m1, RAX)
           m2 == SetAside(ma, RDX)
           m3 == PushOrFree(m2, DivRegR, RCX)
           d == OrElse(DivRegR, RCX)
           m4 == MovArgToReg(m3, N - 1, RAX)
           m5 == IF isDiv /\ lhs THEN MovReg(m4, RAX, tk[N - 1].at) ELSE m4
           mb == MovArgToReg(m5, N, d)
           m6 == Compute(mb, RAX, N - 1, d, N)
           m7 == Divided(m6)
           m8 == PopIf(Pushed(RDX), m7, RDX)
           m9 == IF lhs THEN Free(m8, RDX) ELSE m8
           m10 == PopIf(DivRegR = NoReg, m9, RCX)
           m11 == PopIf(Pushed(RAX), m10, RAX)
           wrong == \/ DivRegR = NoReg /\ (Pushed(RDX) \/ DivRegL = RCX)
                    \/ ~isDiv /\ lhs /\ ~InReg(N - 1, RAX)
                    \/ lhs /\ \E i \in 1..(N - 1) : InReg(i, RDX)
<1>1. DivRegL # NoReg /\ (tk[N].kind = "reg" => DivRegR # NoReg) /\ N >= 2
  BY DEF DivMod, Reject, Ready
<1>2. Finish(m11, n, ArgOf(m11, DivRegL)) /\ Blame(wrong, "divmod")
  BY <1>1 DEF DivMod
<1>3. ~wrong
  <2>1. \A w : Blame(w, "divmod") /\ w => FALSE
    BY DEF Blame
  <2> HIDE DEF m11, wrong
  <2> QED BY <1>2, <2>1
<1>4. mt = Take(Here, DivRegL) /\ m1 = Take(mt, DivRegR)
  OBVIOUS
<1> HIDE DEF m11, mt, m1
<1>5. /\ IInv /\ N \in Nat /\ n \in 1..N /\ N \in 1..N /\ n >= 1
      /\ DivRegL \in Regs /\ DivRegR \in Regs \cup {NoReg}
      /\ DivRegR # DivRegL /\ DivRegR # RAX /\ DivRegR # RDX
      /\ RAX \in Regs /\ RDX \in Regs /\ NoReg \notin Regs
  <2>1. /\ IInv /\ N \in Nat /\ N - 1 \in 1..N /\ N \in 1..N
        /\ DivRegL \in Regs /\ DivRegR \in Regs \cup {NoReg}
        /\ DivRegR # DivRegL /\ DivRegR # RAX /\ DivRegR # RDX
    BY <1>1, DivRegFacts
  <2> QED BY <2>1, Consts
<1>6. Base(mt) /\ mt.im = im /\ mt.reg = reg /\ mt.used = used \cup ({DivRegL} \ {NoReg})
  <2>1. Base(Here) /\ Here.im = im /\ Here.used = used /\ Here.reg = reg
    BY <1>5, HereBase
  <2>2. IInv /\ DivRegL \in Regs \cup {NoReg} /\ mt = Take(Here, DivRegL)
    BY <1>4, <1>5
  <2>3. /\ Base(mt) /\ mt.im = Here.im /\ mt.reg = Here.reg
        /\ mt.used = Here.used \cup ({DivRegL} \ {NoReg})
    BY <2>1, <2>2, TakeEffect
  <2> QED BY <2>1, <2>3
<1>7. Base(m1) /\ m1.im = im /\ m1.reg = reg
      /\ m1.used = mt.used \cup ({DivRegR} \ {NoReg})
  <2>1. /\ IInv /\ Base(mt) /\ DivRegR \in Regs \cup {NoReg}
        /\ m1 = Take(mt, DivRegR)
    BY <1>4, <1>5, <1>6
  <2>2. /\ Base(m1) /\ m1.im = mt.im /\ m1.reg = mt.reg
        /\ m1.used = mt.used \cup ({DivRegR} \ {NoReg})
    BY <2>1, TakeEffect
  <2> QED BY <1>6, <2>2
<1>8. DivKeeps(m1)
  BY <1>5, <1>6, <1>7 DEF DivKeeps, DivUsed
<1>9. ASSUME NEW q, q = RAX \/ q = RDX
      PROVE  /\ InWay(q) <=> DivInWay(q)
             /\ Pushed(q) <=> DivPushed(q)
             /\ \A m : SetAside(m, q) = DivAside(m, q)
  <2>1. InWay(q) <=> DivInWay(q)
    BY <1>5, <1>6, <1>7, <1>9 DEF DivInWay
  <2> HIDE DEF InWay
  <2>2. Pushed(q) <=> DivPushed(q)
    BY <2>1 DEF DivPushed
  <2> HIDE DEF Pushed
  <2> QED BY <2>1, <2>2 DEF DivAside
<1>10. /\ ma = DivAside(m1, RAX) /\ m2 = DivAside(ma, RDX)
       /\ (Pushed(RDX) <=> DivPushed(RDX)) /\ (Pushed(RAX) <=> DivPushed(RAX))
  BY <1>9
<1>11. /\ ~(DivRegR = NoReg /\ (DivPushed(RDX) \/ DivRegL = RCX))
       /\ isDiv \/ tk[N - 1].kind # "reg" \/ InReg(N - 1, RAX)
       /\ lhs => \A i \in 1..(N - 1) : ~InReg(i, RDX)
  <2> HIDE DEF Pushed
  <2> QED BY <1>3, <1>10
<1>12. m8 = PopIf(DivPushed(RDX), m7, RDX) /\ m11 = PopIf(DivPushed(RAX), m10, RAX)
  <2>1. m8 = PopIf(Pushed(RDX), m7, RDX) /\ m11 = PopIf(Pushed(RAX), m10, RAX)
    BY DEF m11
  <2> HIDE DEF Pushed, m7, m8, m10
  <2> QED BY <1>10, <2>1 DEF PopIf
<1>13. m3 = PushOrFree(m2, DivRegR, RCX)
  OBVIOUS
<1>14. m4 = MovArgToReg(m3, n, RAX)
       /\ m5 = IF isDiv /\ tk[n].kind = "reg" THEN MovReg(m4, RAX, tk[n].at) ELSE m4
  OBVIOUS
<1>15. mb = MovArgToReg(m5, N, d) /\ m6 = Compute(mb, RAX, n, d, N) /\ m7 = Divided(m6)
       /\ d = OrElse(DivRegR, RCX)
  OBVIOUS
<1>16. m9 = (IF lhs THEN Free(m8, RDX) ELSE m8) /\ m10 = PopIf(DivRegR = NoReg, m9, RCX)
       /\ lhs \in BOOLEAN /\ (lhs <=> tk[N - 1].kind = "reg") /\ n = N - 1
  OBVIOUS
<1> HIDE DEF SetAside, Pushed, InWay, ma, m2, m3, m4, m5, mb, m6, m7, m8, m9, m10, d, lhs, wrong
<1>17. /\ DivKeeps(m3) /\ DivStacked(m3)
       /\ tk[N].kind = "reg" => m3.reg[DivRegR] = N
  <2>1. tk[N].kind = "reg" /\ ~InReg(N, RAX) /\ ~InReg(N, RDX) => m1.reg[DivRegR] = N
    <3> DEFINE at == tk[N].at
    <3>1. tk[N].kind = "reg" => reg[at] = N /\ (at # RAX /\ at # RDX => DivRegR = at)
      BY <1>1, DivRegFacts
    <3> QED BY <1>7, <3>1 DEF InReg
  <2> QED BY <1>1, <1>7, <1>8, <1>10, <1>11, <1>13, <2>1, DivSaves
<1>18. /\ Base(m5) /\ m5.im = m3.im /\ m5.used = m3.used /\ m5.stack = m3.stack
       /\ m5.reg[RAX] = n
       /\ \A q \in Regs : q # RAX => m5.reg[q] = m3.reg[q]
  BY <1>1, <1>11, <1>14, <1>16, <1>17, DivLeft
<1>19. DivDone(m7)
  BY <1>1, <1>15, <1>17, <1>18, DivRight
<1>20. /\ Base(m11) /\ Spares(m11, N - 1) /\ DivRegL \in m11.used
       /\ m11.reg[DivRegL] = Result
  BY <1>1, <1>11, <1>12, <1>16, <1>19, DivRestores
<1> DEFINE t == ArgOf(m11, DivRegL)
<1>21. Placed(t, m11.im) /\ Holds(m11, t)
  <2>1. t = [kind |-> "reg", at |-> DivRegL]
    BY <1>1 DEF ArgOf
  <2> QED BY <1>5, <1>20, <2>1 DEF Placed, Holds
<1>22. Finish(m11, n, t)
  BY <1>2
<1> HIDE DEF t
<1> QED BY <1>5, <1>16, <1>20, <1>21, <1>22, FinishKept
----------------------------------------------------------------------------
(* A call.  The register with rank k of those in use is in the k-th word   *)
(* that the call pushes.                                                   *)
LEMMA RankUnique ==
  ASSUME NEW S, S \subseteq Regs, NEW r \in S, NEW q \in S, Rank(S, r) = Rank(S, q)
  PROVE  r = q
<1>1. r \in Nat /\ q \in Nat
  BY RegsNat
<1>2. Rank(S, r) \in Nat
  <2>1. Rank(S, r) \in 1..Cardinality(S) /\ Cardinality(S) \in Nat
    BY RankTypes
  <2> QED BY <2>1
<1>3. ~(r < q) /\ ~(q < r)
  BY <1>2, RankTypes
<1> QED BY <1>1, <1>3
LEMMA PreserveEffect ==
  ASSUME NEW m, Good(m), NEW p, p = UsedRegPreserve(m), NEW b, b = Len(m.stack)
  PROVE  /\ Good(p) /\ p.im = m.im + Cardinality(m.used) /\ p.used = m.used
         /\ p.reg = m.reg
         /\ \A k \in 1..b : p.stack[k] = m.stack[k]
         /\ \A q \in m.used : p.stack[b + Rank(m.used, q)] = m.reg[q]
<1> DEFINE n == Cardinality(m.used)
           of(k) == CHOOSE r \in m.used : Rank(m.used, r) = k
           saved == [k \in 1..n |-> m.reg[of(k)]]
           s == m.stack \o saved
<1>1. /\ m.used \subseteq Regs /\ m.reg \in [Regs -> Values]
      /\ m.stack \in Seq(Values) /\ b \in Nat
  BY DEF Good, Machines
<1>2. Good(p) /\ p.im = m.im + n /\ p.used = m.used
  BY PreserveGood
<1>3. n \in Nat /\ \A q \in m.used : Rank(m.used, q) \in 1..n
  BY <1>1, RankTypes
<1>4. ASSUME NEW q \in m.used PROVE of(Rank(m.used, q)) = q
  <2>1. of(Rank(m.used, q)) \in m.used
        /\ Rank(m.used, of(Rank(m.used, q))) = Rank(m.used, q)
    OBVIOUS
  <2> QED BY <1>1, <2>1, RankUnique
<1>5. \A k \in 1..n : of(k) \in Regs
  <2> SUFFICES ASSUME NEW k \in 1..n PROVE of(k) \in Regs
    OBVIOUS
  <2>1. \E r \in m.used : Rank(m.used, r) = k
    BY <1>1, RankOnto
  <2> QED BY <1>1, <2>1
<1> HIDE DEF n, of
<1>6. p = [m EXCEPT !.stack = s, !.im = m.im + Len(saved)]
  BY Zenon DEF UsedRegPreserve, n, of
<1> HIDE DEF s
<1>7. p.reg = m.reg /\ p.stack = s
  <2>1. m \in Machines
    BY DEF Good
  <2> HIDE DEF saved
  <2> QED BY <1>6, <2>1 DEF Machines
<1>8. saved \in Seq(Values) /\ Len(saved) = n
  <2>1. saved \in [1..n -> Values]
    BY <1>1, <1>5
  <2> QED BY <1>3, <2>1
<1>9. \A q \in m.used : saved[Rank(m.used, q)] = m.reg[q]
  BY <1>3, <1>4
<1> HIDE DEF saved
<1>10. \A i \in 1..(b + n) : s[i] = IF i <= b THEN m.stack[i] ELSE saved[i - b]
  <2>1. \A i \in 1..Len(m.stack) + Len(saved) :
           s[i] = IF i <= Len(m.stack) THEN m.stack[i] ELSE saved[i - Len(m.stack)]
    BY <1>1, <1>8, ConcatProperties DEF s
  <2> QED BY <1>8, <2>1
<1>11. \A k \in 1..b : s[k] = m.stack[k]
  <2> SUFFICES ASSUME NEW k \in 1..b PROVE s[k] = m.stack[k]
    OBVIOUS
  <2>1. k \in 1..(b + n) /\ k <= b
    BY <1>1, <1>3
  <2> QED BY <1>10, <2>1
<1>12. ASSUME NEW k \in 1..n PROVE s[b + k] = saved[k]
  <2>1. b + k \in 1..(b + n) /\ ~(b + k <= b) /\ b + k - b = k
    BY <1>1, <1>3
  <2> QED BY <1>10, <2>1
<1>13. \A q \in m.used : s[b + Rank(m.used, q)] = m.reg[q]
  BY <1>3, <1>9, <1>12
<1> QED BY <1>2, <1>7, <1>11, <1>13 DEF n

(* The registers from the lowest one on come back from the words on top.   *)
LEMMA RestoreEffect ==
  ASSUME NEW m, Good(m), NEW lowest \in Regs, NEW back, back \subseteq m.used,
         \A r \in m.used : r \in back <=> r >= lowest, m.im >= Cardinality(back),
         NEW p, p = UsedRegRestore(m, lowest),
         NEW left, left = Len(m.stack) - Cardinality(back)
  PROVE  /\ Good(p) /\ p.im = m.im - Cardinality(back) /\ p.used = m.used
         /\ \A k \in 1..left : p.stack[k] = m.stack[k]
         /\ \A q \in back : p.reg[q] = m.stack[left + Rank(back, q)]
         /\ \A q \in Regs : q \notin back => p.reg[q] = m.reg[q]
<1>0. back = {r \in m.used : r >= lowest}
  OBVIOUS
<1> DEFINE c == Cardinality(back)
           g == [r \in Regs |-> IF r \in back THEN m.stack[left + Rank(back, r)]
                                ELSE m.reg[r]]
           s == SubSeq(m.stack, 1, left)
<1>1. /\ m.used \subseteq Regs /\ m.im \in Nat /\ m.stack \in Seq(Values)
      /\ Len(m.stack) = Vars + m.im /\ back \subseteq Regs /\ Vars \in Nat
  BY <1>0, Consts DEF Good, Machines
<1>2. Good(p) /\ p.im = m.im - c
  BY <1>0, RestoreGood
<1>3. c \in Nat
  BY <1>1, RankTypes
<1>4. p = [m EXCEPT !.reg = g, !.stack = s, !.im = m.im - c]
  BY <1>0, Zenon DEF UsedRegRestore
<1> HIDE DEF g, s, c
<1>5. p.used = m.used /\ p.reg = g /\ p.stack = s
  <2>1. m \in Machines
    BY DEF Good
  <2> QED BY <1>4, <2>1 DEF Machines
<1>6. left \in Nat /\ left <= Len(m.stack)
  BY <1>1, <1>3 DEF c
<1>7. \A k \in 1..left : s[k] = m.stack[k]
  <2>1. \A k \in 1..left : m.stack[k] \in Values
    BY <1>1, <1>6, ElementOfSeq
  <2>2. \A k \in 1..(left - 1 + 1) : s[k] = m.stack[1 + k - 1]
    BY <1>6, <2>1, SubSeqProperties DEF s
  <2> HIDE DEF s
  <2> QED BY <1>6, <2>2
<1>8. /\ \A q \in back : g[q] = m.stack[left + Rank(back, q)]
      /\ \A q \in Regs : q \notin back => g[q] = m.reg[q]
  BY <1>1 DEF g
<1> QED BY <1>2, <1>5, <1>7, <1>8 DEF c
(* RAX is the first of the registers in use. *)
LEMMA RankOfRAX ==
  ASSUME NEW S, S \subseteq Regs, RAX \in S, NEW T, T = S \ {RAX}
  PROVE  /\ Rank(S, RAX) = 1 /\ Cardinality(T) = Cardinality(S) - 1
         /\ \A r \in S : r \in T <=> r >= RCX
         /\ \A r \in T : Rank(T, r) = Rank(S, r) - 1
<1>1. IsFiniteSet(S) /\ S \subseteq Nat /\ Cardinality(S) \in Nat
  BY RankTypes, RegsNat
<1>2. \A q \in S : q >= 1
  BY Consts DEF Regs
<1>3. Rank(S, RAX) = 1
  <2> DEFINE A == {q \in S : q <= RAX}
             one == {RAX}
  <2>1. A = one
    <3>1. \A q \in S : q <= RAX <=> q = RAX
      BY <1>1, <1>2 DEF RAX
    <3> QED BY <3>1
  <2>2. Cardinality(one) = 1
    BY FS_Singleton
  <2>3. Cardinality(A) = 1
    <3> HIDE DEF A, one
    <3> QED BY <2>1, <2>2
  <2> QED BY <2>3 DEF Rank
<1>4. Cardinality(T) = Cardinality(S) - 1
  BY <1>1, FS_RemoveElement
<1>5. \A r \in S : r \in T <=> r >= RCX
  BY <1>1, <1>2 DEF RAX, RCX
<1>6. ASSUME NEW r \in T PROVE Rank(T, r) = Rank(S, r) - 1
  <2> DEFINE A == {q \in S : q <= r}
             B == {q \in T : q <= r}
  <2>1. RAX \in A /\ A \in SUBSET S
    BY <1>1, <1>2, <1>6 DEF RAX
  <2>2. B = A \ {RAX}
    OBVIOUS
  <2> HIDE DEF A, B
  <2>3. IsFiniteSet(A)
    BY <1>1, <2>1, FS_Subset
  <2>4. Cardinality(B) = Cardinality(A) - 1
    BY <2>1, <2>2, <2>3, FS_RemoveElement
  <2> QED BY <2>4 DEF Rank, A, B
<1> QED BY <1>3, <1>4, <1>5, <1>6

(* What the call pushes: the registers in use, in the order of their ranks.*)
CallPushed(m) ==
  /\ Good(m) /\ m.im = im + Cardinality(used) /\ m.used = used
  /\ \A k \in 1..(Vars + im) : m.stack[k] = stack[k]
  /\ \A q \in used : m.stack[Vars + im + Rank(used, q)] = reg[q]

LEMMA CallSaves ==
  ASSUME Sound, NEW m, m = UsedRegPreserve(Here)
  PROVE  CallPushed(m) /\ Base(m) /\ m.reg = reg /\ \A i \in 1..N : ValueOf(m, i) = i
<1>1. /\ IInv /\ Good(Here) /\ Here.im = im /\ Here.used = used /\ Here.reg = reg
      /\ Here.stack = stack /\ used \subseteq Regs /\ im \in Nat
  BY HereBase DEF Sound, Base
<1> DEFINE h == Here
           b == Len(h.stack)
<1>2. Good(h) /\ m = UsedRegPreserve(h) /\ b = Len(h.stack)
  BY <1>1
<1>3. b = Vars + im /\ h.im = im /\ h.used = used /\ h.reg = reg /\ h.stack = stack
  BY <1>1 DEF Good
<1> HIDE DEF h, b
<1>4. /\ Good(m) /\ m.im = h.im + Cardinality(h.used) /\ m.used = h.used
      /\ m.reg = h.reg
      /\ \A k \in 1..b : m.stack[k] = h.stack[k]
      /\ \A q \in h.used : m.stack[b + Rank(h.used, q)] = h.reg[q]
  BY <1>2, PreserveEffect
<1>5. CallPushed(m) /\ m.reg = reg
  BY <1>3, <1>4 DEF CallPushed
<1>6. Base(m)
  <2>1. Cardinality(used) \in Nat
    BY <1>1, RankTypes
  <2>2. \A k \in 1..im : Slot(k) \in 1..(Vars + im)
    BY <1>1, SlotIndex
  <2>3. m.im >= im
    BY <1>1, <1>5, <2>1 DEF CallPushed
  <2> QED BY <1>5, <2>2, <2>3 DEF Base, CallPushed
<1>7. ASSUME NEW i \in 1..N PROVE ValueOf(m, i) = i
  <2>1. CASE tk[i].kind = "reg"
    <3>1. reg[tk[i].at] = i
      BY <2>1, InRegFacts
    <3> QED BY <1>5, <2>1, <3>1 DEF ValueOf
  <2>2. CASE tk[i].kind # "reg"
    BY <1>6, <2>2, ArgValue
  <2> QED BY <2>1, <2>2
<1> QED BY <1>5, <1>6, <1>7

(* The call returns with RAX not in use.                                   *)
LEMMA CallReturnsFree ==
  ASSUME Sound, RAX \notin used, NEW m, CallPushed(m), m.reg[RAX] = Result,
         NEW p, p = UsedRegRestore(m, RAX)
  PROVE  /\ Base(p) /\ p.used = used /\ p.reg[RAX] = Result
         /\ \A q \in used : p.reg[q] = reg[q]
<1> DEFINE c == Cardinality(used)
           left == Len(m.stack) - c
<1>1. /\ IInv /\ used \subseteq Regs /\ im \in Nat /\ RAX \in Regs
      /\ Vars \in Nat /\ Good(m) /\ m.im = im + c /\ m.used = used
  BY HereBase, Consts DEF Sound, CallPushed
<1>2. c \in Nat
  BY <1>1, RankTypes
<1>3. used \subseteq m.used /\ \A r \in m.used : r \in used <=> r >= RAX
  <2>1. \A r \in used : r >= RAX
    BY <1>1, Consts DEF Regs, RAX
  <2>2. m.used = used
    BY <1>1
  <2> QED BY <2>1, <2>2
<1> HIDE DEF c
<1>4. left = Vars + im /\ m.im >= c
  BY <1>1, <1>2 DEF Good
<1>5. left = Len(m.stack) - Cardinality(used) /\ m.im >= Cardinality(used)
  BY <1>4 DEF c
<1> HIDE DEF left
<1>6. /\ Good(p) /\ p.im = m.im - c /\ p.used = m.used
      /\ \A k \in 1..left : p.stack[k] = m.stack[k]
      /\ \A q \in used : p.reg[q] = m.stack[left + Rank(used, q)]
      /\ \A q \in Regs : q \notin used => p.reg[q] = m.reg[q]
  <2>1. Good(m) /\ RAX \in Regs /\ c = Cardinality(used)
    BY <1>1 DEF c
  <2> QED BY <1>3, <1>5, <2>1, RestoreEffect
<1>7. \A k \in 1..im : Slot(k) \in 1..(Vars + im)
  BY <1>1, SlotIndex
<1>8. p.im = im
  BY <1>1, <1>2, <1>6
<1>9. Base(p)
  BY <1>1, <1>4, <1>6, <1>7, <1>8 DEF Base, CallPushed
<1> QED BY <1>1, <1>4, <1>6, <1>9 DEF CallPushed

(* The call returns with RAX in use: its value is the lowest of the words  *)
(* pushed, and comes back when the result has left RAX.                    *)
LEMMA CallReturnsUsed ==
  ASSUME Sound, RAX \in used, NEW m, CallPushed(m), m.reg[RAX] = Result,
         NEW a, a = UsedRegRestore(m, RCX), NEW r \in Regs, r \notin used,
         NEW b, b = Mov(a, r, a.reg[RAX]), NEW p, p = Pop(b, RAX)
  PROVE  /\ Base(p) /\ p.used = used /\ p.reg[r] = Result
         /\ \A q \in used : p.reg[q] = reg[q]
<1> DEFINE back == used \ {RAX}
           c == Cardinality(back)
           left == Len(m.stack) - c
<1>1. /\ IInv /\ used \subseteq Regs /\ im \in Nat /\ RAX \in Regs /\ RCX \in Regs
      /\ Vars \in Nat /\ Good(m) /\ m.im = im + Cardinality(used) /\ m.used = used
  BY HereBase, Consts DEF Sound, CallPushed
<1>2. Cardinality(used) \in Nat /\ \A q \in used : Rank(used, q) \in Nat
  BY <1>1, RankTypes
<1>3. /\ Rank(used, RAX) = 1 /\ c = Cardinality(used) - 1
      /\ \A s \in m.used : s \in back <=> s >= RCX
      /\ \A q \in back : Rank(back, q) = Rank(used, q) - 1
  <2>1. used \subseteq Regs /\ back = used \ {RAX} /\ m.used = used
    BY <1>1
  <2> HIDE DEF back
  <2>2. /\ Rank(used, RAX) = 1 /\ Cardinality(back) = Cardinality(used) - 1
        /\ \A s \in used : s \in back <=> s >= RCX
        /\ \A q \in back : Rank(back, q) = Rank(used, q) - 1
    BY <2>1, RankOfRAX
  <2> QED BY <2>1, <2>2
<1>4. c \in Nat /\ back \subseteq used /\ RAX \notin back
  <2>1. back \subseteq Regs
    BY <1>1
  <2> QED BY <2>1, RankTypes
<1>5. left = Len(m.stack) - c /\ c = Cardinality(back)
      /\ \A q \in used : q = RAX \/ q \in back
  OBVIOUS
<1> HIDE DEF back, c, left
<1>6. left = Vars + im + 1 /\ m.im >= c
  BY <1>1, <1>2, <1>3, <1>4, <1>5 DEF Good
<1>7. /\ Good(a) /\ a.im = m.im - c /\ a.used = m.used
      /\ \A k \in 1..left : a.stack[k] = m.stack[k]
      /\ \A q \in back : a.reg[q] = m.stack[left + Rank(back, q)]
      /\ \A q \in Regs : q \notin back => a.reg[q] = m.reg[q]
  <2>1. Good(m) /\ RCX \in Regs /\ m.im >= Cardinality(back)
        /\ left = Len(m.stack) - Cardinality(back)
    BY <1>1, <1>5, <1>6
  <2>2. back \subseteq m.used /\ \A s \in m.used : s \in back <=> s >= RCX
    BY <1>1, <1>3, <1>4
  <2>3. /\ Good(a) /\ a.im = m.im - Cardinality(back) /\ a.used = m.used
        /\ \A k \in 1..left : a.stack[k] = m.stack[k]
        /\ \A q \in back : a.reg[q] = m.stack[left + Rank(back, q)]
        /\ \A q \in Regs : q \notin back => a.reg[q] = m.reg[q]
    BY <2>1, <2>2, RestoreEffect
  <2> QED BY <1>5, <2>3
<1>8. a.im = im + 1
  BY <1>1, <1>2, <1>3, <1>7
<1>9. a.reg[RAX] = Result
  BY <1>1, <1>4, <1>7
<1>10. ASSUME NEW q \in back PROVE a.reg[q] = reg[q]
  <2>1. q \in used /\ Rank(used, q) \in Nat
    BY <1>2, <1>4
  <2>2. left + Rank(back, q) = Vars + im + Rank(used, q)
    BY <1>1, <1>3, <1>6, <2>1
  <2>3. a.reg[q] = m.stack[left + Rank(back, q)]
    BY <1>7
  <2> QED BY <2>1, <2>2, <2>3 DEF CallPushed
<1>11. Base(a)
  <2>1. ASSUME NEW k \in 1..im PROVE a.stack[Slot(k)] = stack[Slot(k)]
    <3>1. Slot(k) \in 1..(Vars + im)
      BY <1>1, SlotIndex
    <3>2. Slot(k) \in 1..left
      BY <1>1, <1>6, <3>1
    <3> QED BY <1>7, <3>1, <3>2 DEF CallPushed
  <2> QED BY <1>1, <1>7, <1>8, <2>1 DEF Base
<1>12. Word(a, im + 1) = reg[RAX]
  <2>1. left \in 1..left
    BY <1>1, <1>6
  <2>2. Vars + (im + 1) = left /\ Vars + im + Rank(used, RAX) = left
    BY <1>1, <1>3, <1>6
  <2>3. a.stack[left] = m.stack[left]
    BY <1>7, <2>1
  <2>4. m.stack[left] = reg[RAX]
    BY <2>2 DEF CallPushed
  <2> QED BY <2>2, <2>3, <2>4 DEF Word
<1> DEFINE v == Result
<1>13. v \in Values /\ b = Mov(a, r, v)
  BY <1>9, Consts
<1> HIDE DEF v
<1>14. /\ Base(b) /\ b.im = a.im /\ b.used = a.used
       /\ b.reg[r] = v /\ \A q \in Regs : q # r => b.reg[q] = a.reg[q]
       /\ \A k : Word(b, k) = Word(a, k)
  <2>1. IInv
    BY <1>1
  <2> QED BY <1>11, <1>13, <2>1, MovEffect
<1>15. b.im > im
  BY <1>1, <1>8, <1>14
<1>16. /\ Base(p) /\ p.used = b.used
       /\ p.reg[RAX] = Word(b, b.im)
       /\ \A q \in Regs : q # RAX => p.reg[q] = b.reg[q]
  BY <1>1, <1>14, <1>15, PopEffect
<1>17. p.reg[RAX] = reg[RAX]
  BY <1>8, <1>12, <1>14, <1>16
<1>18. p.reg[r] = Result
  BY <1>14, <1>16 DEF v
<1>19. ASSUME NEW q \in back PROVE p.reg[q] = reg[q]
  <2>1. q \in Regs /\ q # r /\ q # RAX
    BY <1>1, <1>4
  <2> QED BY <1>10, <1>14, <1>16, <2>1
<1> QED BY <1>1, <1>5, <1>7, <1>14, <1>16, <1>17, <1>18, <1>19
LEMMA FuncCallKept ==
  ASSUME Sound, NEW k \in 0..MaxTks, FuncCall(k), cause' = "none" PROVE ValuesKept'
<1> DEFINE n == N - k
           m1 == UsedRegPreserve(Here)
           right == \A i \in (N - k + 1)..N : ValueOf(m1, i) = i
           g == [r \in Regs |-> IF r = RAX /\ right THEN Result ELSE Garbage]
           m2 == [m1 EXCEPT !.reg = g]
           ma == UsedRegRestore(m2, RCX)
           mb == Mov(ma, RegRet, ma.reg[RAX])
           m3 == IF RAX \notin used THEN UsedRegRestore(m2, RAX) ELSE Pop(mb, RAX)
           p == Take(m3, RegRet)
<1>1. RegRet # NoReg /\ N > k
  BY DEF FuncCall, Reject
<1>2. Finish(p, n, ArgOf(m3, RegRet))
  BY <1>1 DEF FuncCall, Reject
<1>3. m1 = UsedRegPreserve(Here) /\ m2 = [m1 EXCEPT !.reg = g]
  OBVIOUS
<1>4. right <=> \A i \in (N - k + 1)..N : ValueOf(m1, i) = i
  OBVIOUS
<1>5. g = [r \in Regs |-> IF r = RAX /\ right THEN Result ELSE Garbage]
  OBVIOUS
<1>6. /\ ma = UsedRegRestore(m2, RCX) /\ mb = Mov(ma, RegRet, ma.reg[RAX])
      /\ m3 = IF RAX \notin used THEN UsedRegRestore(m2, RAX) ELSE Pop(mb, RAX)
  OBVIOUS
<1>7. p = Take(m3, RegRet)
  OBVIOUS
<1> HIDE DEF m1, right, g, m2, ma, mb, m3, p
<1>8. /\ IInv /\ N \in Nat /\ k \in Nat /\ n \in 1..N /\ n - 1 \in Nat
      /\ used \subseteq Regs /\ RAX \in Regs
  BY <1>1, HereBase, Consts DEF Sound
<1>9. RegRet \in Regs /\ RegRet \notin used /\ (RAX \notin used => RegRet = RAX)
  <2>1. RAX \in used => RegRet = NextIMRegister(used)
    BY DEF RegRet
  <2>2. RAX \notin used => RegRet = RAX
    BY DEF RegRet
  <2> QED BY <1>1, <1>8, <2>1, <2>2, NextFacts
<1>10. CallPushed(m1) /\ right
  <2>1. CallPushed(m1) /\ \A i \in 1..N : ValueOf(m1, i) = i
    BY <1>3, CallSaves
  <2>2. \A i \in (N - k + 1)..N : i \in 1..N
    BY <1>1, <1>8
  <2> QED BY <1>4, <2>1, <2>2
<1>11. CallPushed(m2) /\ m2.reg[RAX] = Result
  <2>1. g \in [Regs -> Values] /\ g[RAX] = Result
    BY <1>5, <1>10, Consts
  <2>2. Good(m1)
    BY <1>10 DEF CallPushed
  <2>3. m2 = [used |-> m1.used, im |-> m1.im, reg |-> g, stack |-> m1.stack]
    BY <1>3, <2>2, Fields
  <2>4. Good(m2)
    BY <2>1, <2>2, <2>3 DEF Good, Machines
  <2> QED BY <1>10, <2>1, <2>3, <2>4 DEF CallPushed
<1>12. /\ Base(m3) /\ m3.used = used /\ m3.reg[RegRet] = Result
       /\ \A q \in used : m3.reg[q] = reg[q]
  <2>1. CASE RAX \notin used
    <3>1. m3 = UsedRegRestore(m2, RAX)
      BY <1>6, <2>1
    <3> QED BY <1>9, <1>11, <2>1, <3>1, CallReturnsFree
  <2>2. CASE RAX \in used
    <3>1. m3 = Pop(mb, RAX)
      BY <1>6, <2>2
    <3> QED BY <1>6, <1>9, <1>11, <2>2, <3>1, CallReturnsUsed
  <2> QED BY <2>1, <2>2
<1>13. /\ Base(p) /\ p.im = m3.im /\ p.reg = m3.reg
       /\ p.used = m3.used \cup ({RegRet} \ {NoReg})
  <2>1. RegRet \in Regs \cup {NoReg} /\ Base(m3) /\ IInv
    BY <1>8, <1>9, <1>12
  <2> QED BY <1>7, <2>1, TakeEffect
<1>14. Spares(p, n)
  <2>1. \A q \in Live(n) : q \in used
    BY <1>8, LiveFacts
  <2> QED BY <1>12, <1>13, <2>1 DEF Spares
<1> DEFINE t == ArgOf(m3, RegRet)
<1>15. Placed(t, p.im) /\ Holds(p, t)
  <2>1. t = [kind |-> "reg", at |-> RegRet]
    BY <1>1 DEF ArgOf
  <2> QED BY <1>1, <1>9, <1>12, <1>13, <2>1 DEF Placed, Holds
<1>16. Finish(p, n, t)
  BY <1>2
<1> HIDE DEF t, n
<1> QED BY <1>8, <1>13, <1>14, <1>15, <1>16, FinishKept
----------------------------------------------------------------------------
(* An emission blamed stays blamed.                                        *)
LEMMA CauseStays == ASSUME [Next]_vars, cause' = "none" PROVE cause = "none"
<1>1. \A w, name : Blame(w, name) => cause = "none" \/ cause' = cause
  BY DEF Blame
<1>2. ~Reject
  BY DEF Reject
<1>3. CASE UNCHANGED vars
  BY <1>3 DEF vars
<1>4. ASSUME NEW k \in AtomKinds, PushAtom(k) PROVE cause = "none"
  BY <1>4 DEF PushAtom
<1>5. ASSUME NEW k \in 1..2, Fold(k) PROVE cause = "none"
  BY <1>5 DEF Fold
<1>6. CASE Unary
  BY <1>6 DEF Unary
<1>7. ASSUME NEW x, NEW y, NonLitBinary(x, y) PROVE cause = "none"
  <2>1. \E w, name : Blame(w, name)
    BY <1>7 DEF NonLitBinary
  <2> QED BY <1>1, <2>1
<1>8. CASE Binary \/ TimesTwo
  BY <1>7, <1>8 DEF Binary, TimesTwo
<1>9. CASE TimesZero \/ TimesOne
  BY <1>9 DEF TimesZero, TimesOne
<1>10. CASE ShiftByLit
  BY <1>2, <1>10 DEF ShiftByLit
<1>11. CASE ShiftByValue
  <2>1. \E w, name : Blame(w, name)
    BY <1>2, <1>11 DEF ShiftByValue
  <2> QED BY <1>1, <2>1
<1>12. ASSUME NEW isDiv \in BOOLEAN, DivMod(isDiv) PROVE cause = "none"
  <2>1. \E w, name : Blame(w, name)
    BY <1>2, <1>12 DEF DivMod
  <2> QED BY <1>1, <2>1
<1>13. ASSUME NEW k \in 0..MaxTks, FuncCall(k) PROVE cause = "none"
  BY <1>2, <1>13 DEF FuncCall
<1>14. CASE EndExp
  BY <1>14 DEF EndExp
<1> QED BY <1>3, <1>4, <1>5, <1>6, <1>8, <1>9, <1>10, <1>11, <1>12, <1>13, <1>14 DEF Next

LEMMA InitKept == ASSUME Init PROVE Kinv
<1>1. IInv
  BY InitInv
<1>2. N = 0
  BY DEF Init, N
<1> QED BY <1>1, <1>2 DEF Kinv, ValuesKept

LEMMA NextKept == ASSUME Kinv, [Next]_vars PROVE Kinv'
<1>1. IInv /\ IInv'
  BY NextInv DEF Kinv
<1>2. ASSUME cause' = "none" PROVE ValuesKept'
  <2>1. Sound
    BY <1>2, CauseStays DEF Kinv, Sound
  <2>2. CASE UNCHANGED vars
    BY <2>1, <2>2 DEF Sound, vars, ValuesKept, Kept, N, Slot
  <2>3. ASSUME NEW k \in AtomKinds, PushAtom(k) PROVE ValuesKept'
    BY <2>1, <2>3, PushAtomKept
  <2>4. ASSUME NEW k \in 1..2, Fold(k) PROVE ValuesKept'
    BY <2>1, <2>4, FoldKept
  <2>5. CASE Unary
    BY <2>1, <2>5, UnaryKept
  <2>6. CASE Binary
    BY <1>2, <2>1, <2>6, BinaryKept
  <2>7. CASE TimesZero
    BY <2>1, <2>7, TimesZeroKept
  <2>8. CASE TimesOne
    BY <2>1, <2>8, TimesOneKept
  <2>9. CASE TimesTwo
    BY <1>2, <2>1, <2>9, TimesTwoKept
  <2>10. CASE ShiftByLit
    BY <1>2, <2>1, <2>10, ShiftByLitKept
  <2>11. CASE ShiftByValue
    BY <1>2, <2>1, <2>11, ShiftByValueKept
  <2>12. ASSUME NEW isDiv \in BOOLEAN, DivMod(isDiv) PROVE ValuesKept'
    BY <1>2, <2>1, <2>12, DivModKept
  <2>13. ASSUME NEW k \in 0..MaxTks, FuncCall(k) PROVE ValuesKept'
    BY <1>2, <2>1, <2>13, FuncCallKept
  <2>14. CASE EndExp
    BY <2>14, EndExpKept
  <2> QED BY <2>2, <2>3, <2>4, <2>5, <2>6, <2>7, <2>8, <2>9, <2>10, <2>11,
             <2>12, <2>13, <2>14 DEF Next
<1> QED BY <1>1, <1>2 DEF Kinv

(* Until one of the emissions that are wrong, or refused, is made, every   *)
(* operation on registers (op.c, reg.c, handle.c) leaves every pending     *)
(* operand in a register marked as used or in a word still on the stack.   *)
THEOREM NoOperandLost == Spec => []NoneLost
<1>1. Kinv => NoneLost
  <2>1. Kinv => cause \in Causes
    BY DEF Kinv, IInv
  <2> QED BY <2>1 DEF Kinv, NoneLost, Blamed, Causes
<1> QED BY <1>1, InitKept, NextKept, PTL DEF Spec
=============================================================================
